----------------------------- MODULE IocpServer -----------------------------
(***************************************************************************)
(* The accept thread and the worker threads of CServerManager, running on  *)
(* one session pool and one completion port.                               *)
(*                                                                         *)
(* Program chooses between the two servers of the repository, which differ *)
(* in what a worker does after the 0 bytes of a closed connection and in   *)
(* who sends: "Server_Framework" (its handler sends nothing) and           *)
(* "Test_Server" (a greeting for every connection and every packet handled *)
(* are broadcast to all the sessions).                                     *)
(*                                                                         *)
(* A step is what one thread does up to its next access to shared state.   *)
(* What is done under SessionLock_ is one step.                            *)
(***************************************************************************)
EXTENDS SessionPool

CONSTANTS
  Program,         \* which of the two servers
  Workers,         \* the threads of WorkerThread_
  AssocFailures,   \* what a CreateIoCompletionPort that fails may return
  MaxJoins         \* bound: sessions accepted in a behaviour

ASSUME ServerAssumption ==
  /\ Program \in {"Server_Framework", "Test_Server"}
  /\ AssocFailures \subseteq {"NULL", "INVALID_HANDLE_VALUE"}
  /\ MaxJoins \in Nat

VARIABLES
  serial,     \* how often ++_SessionID was executed
  acceptor,   \* the accept thread: pc, sessionID, clientSoc, psession
  worker,     \* [Workers -> pc, the packet dequeued, the id and handle read]
  inUse,      \* the send contexts whose IsUse_ is true in pSendIOContextList_
  fault,      \* how the process died, "none" while it runs
  wentOn      \* history: a worker went on after the 0 bytes of a closed connection

serverVars == <<serial, acceptor, worker, inUse, fault, wentOn>>
vars == <<poolVars, netVars, serverVars>>

\* _SessionID, an unsigned counter.
SessionID == serial % IdSpace

NoPacket == [key |-> 0, type |-> "RECV_", ov |-> 0, io |-> "zero"]

AcceptorAt(pc, sid, soc, slot) ==
  [pc |-> pc, sid |-> sid, soc |-> soc, slot |-> slot]
AcceptorIdle == AcceptorAt("accept", 0, INVALID_SOCKET, NotFound)

WorkerAt(pc, pkt, id, soc) == [pc |-> pc, pkt |-> pkt, id |-> id, soc |-> soc]
WorkerIdle == WorkerAt("gqcs", NoPacket, 0, INVALID_SOCKET)
WorkerDead == WorkerAt("dead", NoPacket, 0, INVALID_SOCKET)

TypeOK ==
  /\ PoolTypeOK
  /\ NetTypeOK
  /\ serial \in Nat
  /\ acceptor \in [pc : {"accept", "join", "assoc", "disc", "greet", "recv", "spin"},
                   sid : Ids, soc : Sockets \cup {INVALID_SOCKET},
                   slot : Slots \cup {NotFound}]
  /\ worker \in [Workers ->
       [pc : {"gqcs", "got", "leave", "packets", "post", "wsarecv", "dead"},
        pkt : Packets \cup {NoPacket}, id : Ids,
        soc : Sockets \cup {INVALID_SOCKET}]]
  /\ inUse \subseteq Contexts
  /\ fault \in {"none", "out_of_range", "null_node", "heap"}
  /\ wentOn \in BOOLEAN

Init ==
  /\ PoolInit
  /\ NetInit
  /\ serial = 0
  /\ acceptor = AcceptorIdle
  /\ worker = [w \in Workers |-> WorkerIdle]
  /\ inUse = {}
  /\ fault = "none"
  /\ wentOn = FALSE

----------------------------------------------------------------------------
(* Sending to every session.                                               *)

\* Not the code: GetData does not look at IsUse_.
FreeContexts_IgnoreUse == Contexts

FreeContexts == Contexts \ inUse

\* One send context for each session of the map.  GetData takes the first free
\* node; which node that is makes no difference.
Allocations == Injection(Live, FreeContexts)

\* The session of the map that has handle k, if WSASend takes an operation.
Receivers(k) ==
  {id \in Live : LET s == UsingSessions_[id]
                 IN  isRun_[s] /\ Socket_[s] = k /\ Usable(k)}

\* Broadcasting, under SessionLock_: GetData marks a node for each session of
\* the map, and Send gives it to WSASend or forgets it.  GetData dereferences
\* a null pointer when no node is free.
Broadcasting ==
  \/ \E context \in Allocations :
       /\ inUse' = inUse \cup {context[id] : id \in Live}
       /\ sends' = [k \in Sockets |->
                      IF Receivers(k) = {} THEN sends[k]
                      ELSE Append(sends[k], context[CHOOSE id \in Receivers(k) : TRUE])]
       /\ UNCHANGED <<conn, key, recvs, cq, fault>>
  \/ /\ Allocations = {}
     /\ fault' = "null_node"
     /\ UNCHANGED <<netVars, inUse>>

\* ReturnData of a worker that dequeued a send.
ReturnData(c) == inUse' = inUse \ {c}

----------------------------------------------------------------------------
(* CServerManager::Disconnect, with the id read before.                    *)

\* at() throws when another thread has removed the id, and nothing catches it.
Disconnect(id) ==
  \/ /\ id \in Live
     /\ LeaveSession(id)
     /\ UNCHANGED fault
  \/ /\ id \notin Live
     /\ fault' = "out_of_range"
     /\ UNCHANGED <<poolVars, netVars>>

----------------------------------------------------------------------------
(* AcceptThread.                                                           *)

Accept ==
  /\ acceptor.pc = "accept"
  /\ serial < MaxJoins
  /\ \E k \in Sockets :
       /\ Accepts(k)
       /\ acceptor' = AcceptorAt("join", SessionID, k, NotFound)
  /\ UNCHANGED <<poolVars, serial, worker, inUse, fault, wentOn>>

Join ==
  /\ acceptor.pc = "join"
  /\ JoinSession(acceptor.soc, acceptor.sid)
  /\ acceptor' = [acceptor EXCEPT !.pc = "assoc", !.slot = FirstFree]
  /\ UNCHANGED <<netVars, serial, worker, inUse, fault, wentOn>>

\* JoinSession returned nullptr: the handle is dropped, still open.
PoolFull ==
  /\ acceptor.pc = "join"
  /\ FreeSlots = {}
  /\ acceptor' = AcceptorIdle
  /\ UNCHANGED <<poolVars, netVars, serial, worker, inUse, fault, wentOn>>

Associated == IF Program = "Test_Server" THEN "greet" ELSE "recv"

Associate ==
  /\ acceptor.pc = "assoc"
  /\ Binds(acceptor.soc, acceptor.slot)
  /\ acceptor' = [acceptor EXCEPT !.pc = Associated]
  /\ UNCHANGED <<poolVars, serial, worker, inUse, fault, wentOn>>

\* The result is compared with INVALID_HANDLE_VALUE only; a worker may have
\* closed the handle, and then the call fails with NULL.
AssociateFails ==
  /\ acceptor.pc = "assoc"
  /\ \E result \in AssocFailures \cup (IF Open(acceptor.soc) THEN {} ELSE {"NULL"}) :
       acceptor' = [acceptor EXCEPT
         !.pc = IF result = "INVALID_HANDLE_VALUE" THEN "disc" ELSE Associated]
  /\ UNCHANGED <<poolVars, netVars, serial, worker, inUse, fault, wentOn>>

\* Disconnect(psession); only this thread assigns ID_, so it is still sid.
AcceptorDisconnects ==
  /\ acceptor.pc = "disc"
  /\ Disconnect(ID_[acceptor.slot])
  /\ acceptor' = [acceptor EXCEPT !.pc = Associated]
  /\ UNCHANGED <<serial, worker, inUse, wentOn>>

Greet ==
  /\ acceptor.pc = "greet"
  /\ Broadcasting
  /\ acceptor' = [acceptor EXCEPT !.pc = "recv"]
  /\ UNCHANGED <<poolVars, serial, worker, wentOn>>

\* Not the code: without ++_SessionID.
FirstRecv_SameID ==
  /\ acceptor.pc = "recv"
  /\ PostsRecv(acceptor.soc, acceptor.slot)
  /\ acceptor' = AcceptorIdle
  /\ UNCHANGED <<poolVars, serial, worker, inUse, fault, wentOn>>

FirstRecv ==
  /\ acceptor.pc = "recv"
  /\ PostsRecv(acceptor.soc, acceptor.slot)
  /\ serial' = serial + 1
  /\ acceptor' = AcceptorIdle
  /\ UNCHANGED <<poolVars, worker, inUse, fault, wentOn>>

\* while (true) {}
FirstRecvFails ==
  /\ acceptor.pc = "recv"
  /\ ~Usable(acceptor.soc)
  /\ serial' = serial + 1
  /\ acceptor' = [acceptor EXCEPT !.pc = "spin"]
  /\ UNCHANGED <<poolVars, netVars, worker, inUse, fault, wentOn>>

AcceptThread ==
  \/ Accept \/ Join \/ PoolFull \/ Associate \/ AssociateFails
  \/ AcceptorDisconnects \/ Greet \/ FirstRecv \/ FirstRecvFails

----------------------------------------------------------------------------
(* WorkerThread.                                                           *)

Session(w) == worker[w].pkt.key
Goes(w, pc) == worker' = [worker EXCEPT ![w].pc = pc]
LoopsBack(w) == worker' = [worker EXCEPT ![w] = WorkerIdle]

\* GetQueuedCompletionStatus returns.
Dequeue(w) ==
  /\ worker[w].pc = "gqcs"
  /\ cq # <<>>
  /\ worker' = [worker EXCEPT ![w] = WorkerAt("got", Head(cq), 0, INVALID_SOCKET)]
  /\ cq' = Tail(cq)
  /\ UNCHANGED <<poolVars, conn, key, recvs, sends, serial, acceptor, inUse, fault, wentOn>>

\* Not the code: 0 bytes are passed over.
ReadID_SkipsZero(w) ==
  /\ worker[w].pc = "got"
  /\ worker[w].pkt.io \in {"error", "zero"}
  /\ IF worker[w].pkt.io = "zero" THEN LoopsBack(w)
     ELSE worker' = [worker EXCEPT ![w].pc = "leave", ![w].id = ID_[Session(w)]]
  /\ UNCHANGED <<poolVars, netVars, serial, acceptor, inUse, fault, wentOn>>

\* An error or 0 bytes: Disconnect(psession) reads the id without the lock.
ReadID(w) ==
  /\ worker[w].pc = "got"
  /\ worker[w].pkt.io \in {"error", "zero"}
  /\ worker' = [worker EXCEPT ![w].pc = "leave", ![w].id = ID_[Session(w)]]
  /\ UNCHANGED <<poolVars, netVars, serial, acceptor, inUse, fault, wentOn>>

\* Whether the loop body ends after the Disconnect.
Continues(pkt) == pkt.io = "error" \/ Program = "Test_Server"

Leave(w) ==
  /\ worker[w].pc = "leave"
  /\ Disconnect(worker[w].id)
  /\ \/ Continues(worker[w].pkt) /\ LoopsBack(w) /\ UNCHANGED wentOn
     \/ /\ ~Continues(worker[w].pkt)
        /\ Goes(w, "post")
        /\ wentOn' = (wentOn \/ fault' = fault)
  /\ UNCHANGED <<serial, acceptor, inUse>>

SendDone(w) ==
  /\ worker[w].pc = "got"
  /\ worker[w].pkt.io = "bytes"
  /\ worker[w].pkt.type = "SEND_"
  /\ ReturnData(worker[w].pkt.ov)
  /\ LoopsBack(w)
  /\ UNCHANGED <<poolVars, netVars, serial, acceptor, fault, wentOn>>

\* Not the code: the next receive is posted before the bytes are handled.
RecvDone_PostsFirst(w) ==
  /\ worker[w].pc = "got"
  /\ worker[w].pkt.io = "bytes"
  /\ worker[w].pkt.type = "RECV_"
  /\ PostsRecv(Socket_[Session(w)], Session(w))
  /\ Goes(w, "packets")
  /\ UNCHANGED <<poolVars, serial, acceptor, inUse, fault, wentOn>>

RecvDone(w) ==
  /\ worker[w].pc = "got"
  /\ worker[w].pkt.io = "bytes"
  /\ worker[w].pkt.type = "RECV_"
  /\ Goes(w, "packets")
  /\ UNCHANGED <<poolVars, netVars, serial, acceptor, inUse, fault, wentOn>>

\* PacketProcess for one packet of the bytes received.  In Server_Framework
\* the destructors of dataBuffer and packetManager delete[] a pointer into the
\* session: the process may die of it or not.
HandlePacket(w) ==
  /\ worker[w].pc = "packets"
  /\ IF Program = "Test_Server"
     THEN Broadcasting
     ELSE /\ fault' \in {"none", "heap"}
          /\ UNCHANGED <<netVars, inUse>>
  /\ UNCHANGED <<poolVars, serial, acceptor, worker, wentOn>>

PacketsEnd(w) ==
  /\ worker[w].pc = "packets"
  /\ Goes(w, "post")
  /\ UNCHANGED <<poolVars, netVars, serial, acceptor, inUse, fault, wentOn>>

\* psession->GetSocket(), without the lock.
ReadSocket(w) ==
  /\ worker[w].pc = "post"
  /\ worker' = [worker EXCEPT ![w].pc = "wsarecv", ![w].soc = Socket_[Session(w)]]
  /\ UNCHANGED <<poolVars, netVars, serial, acceptor, inUse, fault, wentOn>>

NextRecv(w) ==
  /\ worker[w].pc = "wsarecv"
  /\ PostsRecv(worker[w].soc, Session(w))
  /\ LoopsBack(w)
  /\ UNCHANGED <<poolVars, serial, acceptor, inUse, fault, wentOn>>

\* return false: the thread ends and the session stays as it is.
NextRecvFails(w) ==
  /\ worker[w].pc = "wsarecv"
  /\ ~Usable(worker[w].soc)
  /\ worker' = [worker EXCEPT ![w] = WorkerDead]
  /\ UNCHANGED <<poolVars, netVars, serial, acceptor, inUse, fault, wentOn>>

WorkerStep(w) ==
  \/ Dequeue(w) \/ ReadID(w) \/ Leave(w) \/ SendDone(w) \/ RecvDone(w)
  \/ PacketsEnd(w) \/ ReadSocket(w) \/ NextRecv(w) \/ NextRecvFails(w)

----------------------------------------------------------------------------

Network(k) ==
  /\ \/ PeerCloses(k) \/ PeerResets(k) \/ RecvCompletes(k) \/ SendCompletes(k)
  /\ UNCHANGED <<poolVars, serverVars>>

Next ==
  /\ fault = "none"
  /\ \/ AcceptThread
     \/ \E w \in Workers : WorkerStep(w) \/ HandlePacket(w)
     \/ \E k \in Sockets : Network(k)

Spec == Init /\ [][Next]_vars

\* Windows schedules every thread that can run, and completes the receive of
\* a connection that has ended.
WorkerRuns(w) == fault = "none" /\ WorkerStep(w)
EndIsReported(k) ==
  /\ fault = "none"
  /\ conn[k] \in {"fin", "rst"}
  /\ RecvCompletes(k)
  /\ UNCHANGED <<poolVars, serverVars>>

FairSpec ==
  /\ Spec
  /\ \A w \in Workers : WF_vars(WorkerRuns(w))
  /\ \A k \in Sockets : WF_vars(EndIsReported(k))

----------------------------------------------------------------------------
(* Correctness.                                                            *)

\* The sessions whose isRun_ is true are the values of UsingSessions_, each
\* under its own id ("the sessions actually in use", SessionPool.h:39): nothing
\* two threads do about an id leaves a running session nobody can disconnect,
\* or an entry for a session that was cleared.
UsingExact ==
  /\ \A id \in Live : isRun_[UsingSessions_[id]] /\ ID_[UsingSessions_[id]] = id
  /\ \A s \in Slots : isRun_[s] => UsingSessions_[ID_[s]] = s

\* A running session owns an open handle and no other session holds it; a
\* session that does not run holds none.  So no thread can close, or send on,
\* the connection of another session through a handle that was reused.
HandleOwnership ==
  /\ \A s \in Slots : IF isRun_[s] THEN Open(Socket_[s])
                                   ELSE Socket_[s] = INVALID_SOCKET
  /\ \A s, t \in Slots : isRun_[s] /\ isRun_[t] /\ Socket_[s] = Socket_[t] => s = t

\* What refers to send context c: outstanding sends, packets of the port and
\* workers.
References(c) ==
  (UNION {{<<"sending", k, i>> : i \in {j \in DOMAIN sends[k] : sends[k][j] = c}} :
            k \in Sockets})
  \cup {<<"queued", i>> : i \in {j \in DOMAIN cq : cq[j].type = "SEND_" /\ cq[j].ov = c}}
  \cup {<<"worker", w>> : w \in {v \in Workers : /\ worker[v].pkt.type = "SEND_"
                                               /\ worker[v].pkt.ov = c}}

\* A send context that anything still refers to is marked IsUse_ and is
\* referred to once: pSendIOContextList_ never gives WSASend an overlapped
\* structure that is in flight, whichever worker returns it and whenever.
SendContextsExclusive ==
  \A c \in Contexts : /\ References(c) # {} => c \in inUse
                      /\ \A a, b \in References(c) : a = b

\* What may use IoContext_ and RecvBuffer_ of session s: outstanding receives,
\* received bytes in the port, and the workers that handle them.
ReceiveClaims(s) ==
  (UNION {{<<"receiving", k, i>> : i \in {j \in DOMAIN recvs[k] : recvs[k][j] = s}} :
            k \in Sockets})
  \cup {<<"queued", i>> : i \in {j \in DOMAIN cq : /\ cq[j].type = "RECV_" /\ cq[j].ov = s
                                                  /\ cq[j].io = "bytes"}}
  \cup {<<"worker", w>> : w \in {v \in Workers : /\ worker[v].pkt.type = "RECV_"
                                               /\ worker[v].pkt.ov = s
                                               /\ worker[v].pkt.io = "bytes"}}

\* Nothing locks the receive buffer of a session: it is safe because a receive
\* is posted when the bytes of the one before were handled, and by a new client
\* only when no receive of the old one is left.  It holds for Server_Framework
\* until a worker goes on after 0 bytes.
SoleReceiver == ~wentOn => \A s \in Slots : \A a, b \in ReceiveClaims(s) : a = b

\* Disconnect always finds the id that it read: a connection is disconnected
\* once (at() would throw in a thread that catches nothing).  It holds for
\* Server_Framework until a worker goes on after 0 bytes.
DisconnectsOnce == ~wentOn => fault # "out_of_range"

\* The directory of the connections being served; an id counts as given out
\* from JoinSession on, before ++_SessionID.
Directory == INSTANCE SessionDirectory WITH
  Handles <- Sockets,
  NoHandle <- INVALID_SOCKET,
  Capacity <- MAX_SESSION,
  served <- [id \in Ids |-> IF id \in Live THEN Socket_[UsingSessions_[id]]
                                           ELSE INVALID_SOCKET],
  issued <- {id \in Ids : id < serial}
              \cup (IF acceptor.slot = NotFound THEN {} ELSE {acceptor.sid})

\* The threads and the pool implement the directory.
ImplementsDirectory == Directory!DirSpec

\* The end of session id's connection is known and a receive is there to
\* report it.
Closing(id) ==
  /\ id \in Live
  /\ \E k \in Sockets :
       /\ key[k] = UsingSessions_[id]
       /\ conn[k] \in {"fin", "rst"}
       /\ recvs[k] # <<>>

\* A connection that ended is removed from the pool, whatever the other
\* threads do, unless the process died or no worker is left.
CloseServed ==
  \A id \in Ids :
    Closing(id) ~> \/ id \notin Live
                   \/ fault # "none"
                   \/ \A w \in Workers : worker[w].pc = "dead"

\* What a worker does with 0 bytes ("the client side closed the connection",
\* ServerManager.cpp:334) ends with the Disconnect, as it does in the test
\* server (For_Test(...ing)/Test_Server/ServerManager.cpp:313-317): the worker does not go on to
\* receive on a session that may by then belong to another client.
CloseEndsIteration ==
  \A w \in Workers :
    worker[w].pkt.io = "zero" => worker[w].pc \in {"gqcs", "got", "leave", "dead"}

=============================================================================
