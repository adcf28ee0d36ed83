-------------------------- MODULE IocpServerProofs --------------------------
(***************************************************************************)
(* Proofs about IocpServer, for any number of sessions, handles, workers   *)
(* and send contexts, and for both programs; the last part is about what   *)
(* the threads share and only one of them may use: the receive buffer of a *)
(* session, and a send context.                                            *)
(***************************************************************************)
EXTENDS IocpServer, FiniteSetTheorems, SequenceTheorems, WellFoundedInduction, TLAPS

LessThan == {ss \in Nat \X Nat : ss[1] < ss[2]}

\* A set of natural numbers that is not empty has a smallest element.
LEMMA SmallestExists ==
  ASSUME NEW S, S \subseteq Nat, S # {}
  PROVE  \E s \in S : \A t \in S : s <= t
<1>1. IsWellFoundedOn(LessThan, Nat)
  BY NatLessThanWellFounded DEF OpToRel, LessThan
<1>2. PICK s \in S : \A t \in S : ~(<<t, s>> \in LessThan)
  BY <1>1, WFMin
<1>3. ASSUME NEW t \in S PROVE s <= t
  <2>1. s \in Nat /\ t \in Nat
    OBVIOUS
  <2>2. <<t, s>> \in LessThan <=> t < s
    BY <2>1 DEF LessThan
  <2> QED
    BY <1>2, <2>1, <2>2
<1> QED
  BY <1>3

\* The scan of JoinSession finds a session that is not running, if there is one.
LEMMA FirstFreeIsFree ==
  ASSUME FreeSlots # {}
  PROVE  FirstFree \in FreeSlots
<1>1. FreeSlots \subseteq Nat
  BY PoolAssumption DEF FreeSlots, Slots
<1>2. \E s \in FreeSlots : \A t \in FreeSlots : s <= t
  BY <1>1, SmallestExists
<1> QED
  BY <1>2 DEF FirstFree

----------------------------------------------------------------------------
(* Typing.                                                                 *)

\* What each program counter says of the local variables.
LocalsOK ==
  /\ acceptor.pc # "accept" => acceptor.soc \in Sockets
  /\ acceptor.pc \in {"assoc", "disc", "greet", "recv"} => acceptor.slot \in Slots
  /\ \A w \in Workers : worker[w].pc \notin {"gqcs", "dead"} => worker[w].pkt \in Packets

TypeInv == TypeOK /\ LocalsOK

\* closesocket keeps the type of the network.
LEMMA CloseSocketTyped ==
  ASSUME NetTypeOK, NEW k, CloseSocket(k)
  PROVE  NetTypeOK'
<1>1. CASE ~Open(k)
  BY <1>1 DEF CloseSocket, netVars, NetTypeOK
<1>2. CASE Open(k)
  <2>1. k \in Sockets
    BY <1>2 DEF Open
  <2>2. conn' \in [Sockets -> {"idle", "up", "fin", "rst"}]
    BY <1>2, <2>1 DEF CloseSocket, NetTypeOK
  <2>3. key' \in [Sockets -> Keys \cup {NoKey}]
    BY <1>2, <2>1 DEF CloseSocket, NetTypeOK
  <2>4. recvs' \in [Sockets -> Seq(Keys)]
    <3>1. <<>> \in Seq(Keys)
      OBVIOUS
    <3>2. recvs' = [recvs EXCEPT ![k] = <<>>] /\ recvs \in [Sockets -> Seq(Keys)]
      BY <1>2 DEF CloseSocket, NetTypeOK
    <3> QED
      BY <3>1, <3>2, Zenon
  <2>5. sends' \in [Sockets -> Seq(Contexts)]
    <3>1. <<>> \in Seq(Contexts)
      OBVIOUS
    <3>2. sends' = [sends EXCEPT ![k] = <<>>] /\ sends \in [Sockets -> Seq(Contexts)]
      BY <1>2 DEF CloseSocket, NetTypeOK
    <3> QED
      BY <3>1, <3>2, Zenon
  <2>6. cq' \in Seq(Packets)
    <3>1. CASE key[k] = NoKey
      <4>1. cq' = cq \o <<>>
        BY <1>2, <3>1 DEF CloseSocket, Queued
      <4> QED
        BY <4>1 DEF NetTypeOK
    <3>2. CASE key[k] # NoKey
      <4> DEFINE R == [i \in 1 .. Len(recvs[k]) |-> Packet(k, "RECV_", recvs[k][i], "error")]
                 S == [i \in 1 .. Len(sends[k]) |-> Packet(k, "SEND_", sends[k][i], "error")]
      <4>1. key[k] \in Keys
        BY <2>1, <3>2 DEF NetTypeOK
      <4>2. recvs[k] \in Seq(Keys) /\ sends[k] \in Seq(Contexts)
        BY <2>1 DEF NetTypeOK
      <4>3. \A i \in 1 .. Len(recvs[k]) : Packet(k, "RECV_", recvs[k][i], "error") \in Packets
        BY <4>1, <4>2 DEF Packet, Packets, RecvPacket
      <4>4. R \in Seq(Packets)
        BY <4>2, <4>3
      <4>5. \A i \in 1 .. Len(sends[k]) : Packet(k, "SEND_", sends[k][i], "error") \in Packets
        BY <4>1, <4>2 DEF Packet, Packets, SendPacket
      <4>6. S \in Seq(Packets)
        BY <4>2, <4>5
      <4>7. cq' = cq \o (R \o S)
        BY <1>2, <3>2 DEF CloseSocket, Queued, Aborted
      <4> HIDE DEF R, S
      <4> QED
        BY <4>4, <4>6, <4>7 DEF NetTypeOK
    <3> QED
      BY <3>1, <3>2
  <2> QED
    BY <2>2, <2>3, <2>4, <2>5, <2>6 DEF NetTypeOK
<1> QED
  BY <1>1, <1>2

\* LeaveSession keeps the types of the pool and of the network.
LEMMA LeaveSessionTyped ==
  ASSUME PoolTypeOK, NetTypeOK, NEW id, LeaveSession(id)
  PROVE  PoolTypeOK' /\ NetTypeOK'
<1>1. id \in Ids /\ UsingSessions_[id] \in Slots
  BY DEF LeaveSession, Live, PoolTypeOK
<1>2. NetTypeOK'
  BY CloseSocketTyped DEF LeaveSession, Clear
<1>3. PoolTypeOK'
  BY <1>1 DEF LeaveSession, Clear, PoolTypeOK
<1> QED
  BY <1>2, <1>3

\* JoinSession keeps the type of the pool.
LEMMA JoinSessionTyped ==
  ASSUME PoolTypeOK, NEW socket \in Sockets, NEW id \in Ids, JoinSession(socket, id)
  PROVE  PoolTypeOK'
<1>1. FirstFree \in Slots
  BY FirstFreeIsFree DEF JoinSession, FreeSlots
<1> QED
  BY <1>1 DEF JoinSession, Initalize, PoolTypeOK

\* Disconnect keeps both types, also when the id is gone.
LEMMA DisconnectTyped ==
  ASSUME PoolTypeOK, NetTypeOK, NEW id, Disconnect(id), fault = "none"
  PROVE  PoolTypeOK' /\ NetTypeOK' /\ fault' \in {"none", "out_of_range"}
<1>1. CASE LeaveSession(id) /\ UNCHANGED fault
  BY <1>1, LeaveSessionTyped
<1>2. CASE fault' = "out_of_range" /\ UNCHANGED <<poolVars, netVars>>
  BY <1>2 DEF poolVars, netVars, PoolTypeOK, NetTypeOK
<1> QED
  BY <1>1, <1>2 DEF Disconnect

\* A broadcast keeps the types of the network, the contexts and the fault.
LEMMA BroadcastingTyped ==
  ASSUME PoolTypeOK, NetTypeOK, inUse \subseteq Contexts, Broadcasting, fault = "none"
  PROVE  NetTypeOK' /\ inUse' \subseteq Contexts /\ fault' \in {"none", "null_node"}
<1>1. CASE Allocations = {} /\ fault' = "null_node" /\ UNCHANGED <<netVars, inUse>>
  BY <1>1 DEF netVars, NetTypeOK
<1>2. ASSUME NEW context \in Allocations,
             inUse' = inUse \cup {context[id] : id \in Live},
             sends' = [k \in Sockets |->
                         IF Receivers(k) = {} THEN sends[k]
                         ELSE Append(sends[k], context[CHOOSE id \in Receivers(k) : TRUE])],
             UNCHANGED <<conn, key, recvs, cq, fault>>
      PROVE  NetTypeOK' /\ inUse' \subseteq Contexts /\ fault' \in {"none", "null_node"}
  <2>1. context \in [Live -> Contexts]
    BY <1>2 DEF Allocations, Injection, FreeContexts
  <2>2. inUse' \subseteq Contexts
    BY <1>2, <2>1
  <2>3. ASSUME NEW k \in Sockets
        PROVE  (IF Receivers(k) = {} THEN sends[k]
                ELSE Append(sends[k], context[CHOOSE id \in Receivers(k) : TRUE]))
                 \in Seq(Contexts)
    <3>1. sends[k] \in Seq(Contexts)
      BY DEF NetTypeOK
    <3>2. Receivers(k) # {} => context[CHOOSE id \in Receivers(k) : TRUE] \in Contexts
      BY <2>1 DEF Receivers
    <3> QED
      BY <3>1, <3>2
  <2>4. sends' \in [Sockets -> Seq(Contexts)]
    BY <1>2, <2>3
  <2> QED
    BY <1>2, <2>2, <2>4 DEF NetTypeOK
<1> QED
  BY <1>1, <1>2 DEF Broadcasting

\* What the peers do, and their completions, keeps the type of the network.
LEMMA NetworkTyped ==
  ASSUME NetTypeOK, NEW k \in Sockets,
         PeerCloses(k) \/ PeerResets(k) \/ RecvCompletes(k) \/ SendCompletes(k)
  PROVE  NetTypeOK'
<1>1. CASE PeerCloses(k)
  BY <1>1 DEF PeerCloses, NetTypeOK
<1>2. CASE PeerResets(k)
  BY <1>2 DEF PeerResets, NetTypeOK
<1>3. CASE RecvCompletes(k)
  <2> DEFINE io == CASE conn[k] = "up" -> "bytes"
                     [] conn[k] = "fin" -> "zero"
                     [] OTHER -> "error"
             pkt == Packet(k, "RECV_", Head(recvs[k]), io)
  <2>1. recvs[k] \in Seq(Keys) /\ recvs[k] # <<>>
    BY <1>3 DEF RecvCompletes, NetTypeOK
  <2>2. Tail(recvs[k]) \in Seq(Keys) /\ Head(recvs[k]) \in Keys
    BY <2>1
  <2>3. recvs' \in [Sockets -> Seq(Keys)]
    BY <1>3, <2>2 DEF RecvCompletes, NetTypeOK
  <2>4. key[k] # NoKey => pkt \in Packets
    <3>1. io \in {"bytes", "zero", "error"}
      BY DEF NetTypeOK
    <3> HIDE DEF io
    <3> QED
      BY <2>2, <3>1 DEF NetTypeOK, Packet, Packets, RecvPacket
  <2>5. Queued(k, <<pkt>>) \in Seq(Packets)
    BY <2>4 DEF Queued
  <2>6. cq' = cq \o Queued(k, <<pkt>>)
    BY <1>3 DEF RecvCompletes
  <2> HIDE DEF pkt
  <2>7. cq' \in Seq(Packets)
    BY <2>5, <2>6 DEF NetTypeOK
  <2> QED
    BY <1>3, <2>3, <2>7 DEF RecvCompletes, NetTypeOK
<1>4. CASE SendCompletes(k)
  <2> DEFINE io == IF conn[k] = "rst" THEN "error" ELSE "bytes"
             pkt == Packet(k, "SEND_", Head(sends[k]), io)
  <2>1. sends[k] \in Seq(Contexts) /\ sends[k] # <<>>
    BY <1>4 DEF SendCompletes, NetTypeOK
  <2>2. Tail(sends[k]) \in Seq(Contexts) /\ Head(sends[k]) \in Contexts
    BY <2>1
  <2>3. sends' \in [Sockets -> Seq(Contexts)]
    BY <1>4, <2>2 DEF SendCompletes, NetTypeOK
  <2>4. key[k] # NoKey => pkt \in Packets
    <3>1. io \in {"bytes", "error"}
      OBVIOUS
    <3> HIDE DEF io
    <3> QED
      BY <2>2, <3>1 DEF NetTypeOK, Packet, Packets, SendPacket
  <2>5. Queued(k, <<pkt>>) \in Seq(Packets)
    BY <2>4 DEF Queued
  <2>6. cq' = cq \o Queued(k, <<pkt>>)
    BY <1>4 DEF SendCompletes
  <2> HIDE DEF pkt
  <2>7. cq' \in Seq(Packets)
    BY <2>5, <2>6 DEF NetTypeOK
  <2> QED
    BY <1>4, <2>3, <2>7 DEF SendCompletes, NetTypeOK
<1> QED
  BY <1>1, <1>2, <1>3, <1>4

\* WSARecv keeps the type of the network.
LEMMA PostsRecvTyped ==
  ASSUME NetTypeOK, NEW k, NEW session \in Keys, PostsRecv(k, session)
  PROVE  NetTypeOK'
<1>1. k \in Sockets
  BY DEF PostsRecv, Usable
<1>2. Append(recvs[k], session) \in Seq(Keys)
  BY <1>1 DEF NetTypeOK
<1> QED
  BY <1>1, <1>2 DEF PostsRecv, NetTypeOK

\* The server starts with the types right.
LEMMA InitTyped == Init => TypeInv
<1> SUFFICES ASSUME Init PROVE TypeInv
  OBVIOUS
<1>1. 0 \in Ids /\ UNREGISTED_SESSIONID \in Ids
  BY PoolAssumption DEF Ids, UNREGISTED_SESSIONID
<1>2. PoolTypeOK
  BY <1>1 DEF Init, PoolInit, PoolTypeOK
<1>3. <<>> \in Seq(Keys) /\ <<>> \in Seq(Contexts) /\ <<>> \in Seq(Packets)
  OBVIOUS
<1>4. NetTypeOK
  BY <1>3, Zenon DEF Init, NetInit, NetTypeOK
<1>5. /\ acceptor = AcceptorIdle /\ worker = [w \in Workers |-> WorkerIdle]
      /\ serial = 0 /\ inUse = {} /\ fault = "none"
  BY DEF Init
<1>6. wentOn \in BOOLEAN
  BY DEF Init
<1>7. TypeOK
  BY <1>1, <1>2, <1>4, <1>5, <1>6
     DEF TypeOK, AcceptorIdle, AcceptorAt, WorkerIdle, WorkerAt
<1>8. LocalsOK
  BY <1>5 DEF LocalsOK, AcceptorIdle, AcceptorAt, WorkerIdle, WorkerAt
<1> QED
  BY <1>7, <1>8 DEF TypeInv

\* Every step of the accept thread keeps the types.
LEMMA AcceptThreadTyped ==
  ASSUME TypeInv, fault = "none", AcceptThread
  PROVE  TypeInv'
<1> USE DEF TypeInv, TypeOK, LocalsOK
<1>0. 0 \in Ids /\ SessionID \in Ids
  BY PoolAssumption DEF Ids, SessionID
<1>1. CASE Accept
  <2>1. PICK k \in Sockets : Accepts(k) /\ acceptor' = AcceptorAt("join", SessionID, k, NotFound)
    BY <1>1 DEF Accept
  <2>2. NetTypeOK'
    BY <2>1 DEF Accepts, NetTypeOK
  <2> QED
    BY <1>0, <1>1, <2>1, <2>2 DEF Accept, AcceptorAt, poolVars, PoolTypeOK
<1>2. CASE Join
  <2>1. acceptor.soc \in Sockets /\ acceptor.sid \in Ids
    BY <1>2 DEF Join
  <2>2. PoolTypeOK'
    BY <1>2, <2>1, JoinSessionTyped DEF Join
  <2>3. FirstFree \in Slots
    BY <1>2, FirstFreeIsFree DEF Join, JoinSession, FreeSlots
  <2>4. NetTypeOK'
    BY <1>2 DEF Join, netVars, NetTypeOK
  <2> QED
    BY <1>2, <2>1, <2>2, <2>3, <2>4 DEF Join
<1>3. CASE PoolFull
  BY <1>0, <1>3 DEF PoolFull, AcceptorIdle, AcceptorAt, poolVars, netVars, PoolTypeOK, NetTypeOK
<1>4. CASE Associate
  <2>1. acceptor.slot \in Slots /\ acceptor.soc \in Sockets
    BY <1>4 DEF Associate
  <2>2. NetTypeOK'
    BY <1>4, <2>1, PoolAssumption DEF Associate, Binds, NetTypeOK, Slots
  <2>3. Associated \in {"greet", "recv"}
    BY DEF Associated
  <2> QED
    BY <1>4, <2>1, <2>2, <2>3 DEF Associate, poolVars, PoolTypeOK
<1>5. CASE AssociateFails
  <2>1. acceptor.slot \in Slots /\ acceptor.soc \in Sockets
    BY <1>5 DEF AssociateFails
  <2>2. PICK pc \in {"disc", "greet", "recv"} : acceptor' = [acceptor EXCEPT !.pc = pc]
    BY <1>5 DEF AssociateFails, Associated
  <2> QED
    BY <1>5, <2>1, <2>2 DEF AssociateFails, poolVars, netVars, PoolTypeOK, NetTypeOK
<1>6. CASE AcceptorDisconnects
  <2>1. acceptor.slot \in Slots /\ acceptor.soc \in Sockets
    BY <1>6 DEF AcceptorDisconnects
  <2>2. PoolTypeOK' /\ NetTypeOK' /\ fault' \in {"none", "out_of_range"}
    BY <1>6, DisconnectTyped DEF AcceptorDisconnects
  <2>3. Associated \in {"greet", "recv"}
    BY DEF Associated
  <2> QED
    BY <1>6, <2>1, <2>2, <2>3 DEF AcceptorDisconnects
<1>7. CASE Greet
  <2>1. acceptor.slot \in Slots /\ acceptor.soc \in Sockets
    BY <1>7 DEF Greet
  <2>2. NetTypeOK' /\ inUse' \subseteq Contexts /\ fault' \in {"none", "null_node"}
    BY <1>7, BroadcastingTyped DEF Greet
  <2> QED
    BY <1>7, <2>1, <2>2 DEF Greet, poolVars, PoolTypeOK
<1>8. CASE FirstRecv
  <2>1. acceptor.slot \in Keys
    BY <1>8, PoolAssumption DEF FirstRecv, Slots
  <2>2. NetTypeOK'
    BY <1>8, <2>1, PostsRecvTyped DEF FirstRecv
  <2> QED
    BY <1>0, <1>8, <2>2 DEF FirstRecv, AcceptorIdle, AcceptorAt, poolVars, PoolTypeOK
<1>9. CASE FirstRecvFails
  <2>1. PoolTypeOK' /\ NetTypeOK'
    BY <1>9 DEF FirstRecvFails, poolVars, netVars, PoolTypeOK, NetTypeOK
  <2>2. acceptor.soc \in Sockets /\ acceptor' = [acceptor EXCEPT !.pc = "spin"]
    BY <1>9 DEF FirstRecvFails
  <2> QED
    BY <1>9, <2>1, <2>2 DEF FirstRecvFails
<1> QED
  BY <1>1, <1>2, <1>3, <1>4, <1>5, <1>6, <1>7, <1>8, <1>9 DEF AcceptThread

\* Every step of a worker thread keeps the types.
LEMMA WorkerTyped ==
  ASSUME TypeInv, fault = "none", NEW w \in Workers, WorkerStep(w) \/ HandlePacket(w)
  PROVE  TypeInv'
<1> USE DEF TypeInv, TypeOK, LocalsOK
<1>0. /\ 0 \in Ids
      /\ WorkerIdle.pkt = NoPacket /\ WorkerDead.pkt = NoPacket
  BY PoolAssumption DEF Ids, WorkerIdle, WorkerDead, WorkerAt
<1>1. CASE Dequeue(w)
  <2>1. Head(cq) \in Packets /\ Tail(cq) \in Seq(Packets)
    BY <1>1 DEF Dequeue, NetTypeOK
  <2>2. NetTypeOK'
    BY <1>1, <2>1 DEF Dequeue, NetTypeOK
  <2> HIDE DEF NetTypeOK
  <2> QED
    BY <1>0, <1>1, <2>1, <2>2 DEF Dequeue, WorkerAt, poolVars, PoolTypeOK
<1>2. CASE ReadID(w)
  <2>1. worker[w].pkt \in Packets
    BY <1>2 DEF ReadID
  <2>2. Session(w) \in Slots
    BY <2>1, PoolAssumption DEF Session, Packets, RecvPacket, SendPacket, Slots
  <2>3. ID_[Session(w)] \in Ids
    BY <2>2 DEF PoolTypeOK
  <2>4. PoolTypeOK' /\ NetTypeOK'
    BY <1>2 DEF ReadID, poolVars, netVars, PoolTypeOK, NetTypeOK
  <2>5. worker' = [worker EXCEPT ![w] = [@ EXCEPT !.pc = "leave", !.id = ID_[Session(w)]]]
    BY <1>2 DEF ReadID
  <2> QED
    BY <1>2, <2>1, <2>3, <2>4, <2>5 DEF ReadID
<1>3. CASE Leave(w)
  <2>1. PoolTypeOK' /\ NetTypeOK' /\ fault' \in {"none", "out_of_range"}
    BY <1>3, DisconnectTyped DEF Leave
  <2>2. worker[w].pkt \in Packets
    BY <1>3 DEF Leave
  <2>3. wentOn' \in BOOLEAN
    BY <1>3 DEF Leave
  <2>4. UNCHANGED <<serial, acceptor, inUse>>
    BY <1>3 DEF Leave
  <2>5. CASE LoopsBack(w)
    BY <1>0, <2>1, <2>3, <2>4, <2>5 DEF LoopsBack, WorkerIdle, WorkerAt
  <2>6. CASE Goes(w, "post")
    BY <2>1, <2>2, <2>3, <2>4, <2>6 DEF Goes
  <2> QED
    BY <1>3, <2>5, <2>6 DEF Leave
<1>4. CASE SendDone(w)
  BY <1>0, <1>4 DEF SendDone, ReturnData, LoopsBack, WorkerIdle, WorkerAt,
                    poolVars, netVars, PoolTypeOK, NetTypeOK
<1>5. CASE RecvDone(w)
  BY <1>5 DEF RecvDone, Goes, poolVars, netVars, PoolTypeOK, NetTypeOK
<1>6. CASE HandlePacket(w)
  <2>1. NetTypeOK' /\ inUse' \subseteq Contexts /\ fault' \in {"none", "null_node", "heap"}
    BY <1>6, BroadcastingTyped DEF HandlePacket, netVars, NetTypeOK
  <2> QED
    BY <1>6, <2>1 DEF HandlePacket, poolVars, PoolTypeOK
<1>7. CASE PacketsEnd(w)
  BY <1>7 DEF PacketsEnd, Goes, poolVars, netVars, PoolTypeOK, NetTypeOK
<1>8. CASE ReadSocket(w)
  <2>1. worker[w].pkt \in Packets
    BY <1>8 DEF ReadSocket
  <2>2. Session(w) \in Slots
    BY <2>1, PoolAssumption DEF Session, Packets, RecvPacket, SendPacket, Slots
  <2>3. Socket_[Session(w)] \in Sockets \cup {INVALID_SOCKET}
    BY <2>2 DEF PoolTypeOK
  <2>4. PoolTypeOK' /\ NetTypeOK'
    BY <1>8 DEF ReadSocket, poolVars, netVars, PoolTypeOK, NetTypeOK
  <2>5. worker' = [worker EXCEPT ![w] = [@ EXCEPT !.pc = "wsarecv", !.soc = Socket_[Session(w)]]]
    BY <1>8 DEF ReadSocket
  <2> QED
    BY <1>8, <2>1, <2>3, <2>4, <2>5 DEF ReadSocket
<1>9. CASE NextRecv(w)
  <2>1. worker[w].pkt \in Packets
    BY <1>9 DEF NextRecv
  <2>2. Session(w) \in Keys
    BY <2>1 DEF Session, Packets, RecvPacket, SendPacket
  <2>3. NetTypeOK'
    BY <1>9, <2>2, PostsRecvTyped DEF NextRecv
  <2> QED
    BY <1>0, <1>9, <2>3 DEF NextRecv, LoopsBack, WorkerIdle, WorkerAt, poolVars, PoolTypeOK
<1>10. CASE NextRecvFails(w)
  BY <1>0, <1>10 DEF NextRecvFails, WorkerDead, WorkerAt, poolVars, netVars,
                     PoolTypeOK, NetTypeOK
<1> QED
  BY <1>1, <1>2, <1>3, <1>4, <1>5, <1>6, <1>7, <1>8, <1>9, <1>10 DEF WorkerStep

\* Every step of the server keeps the types.
LEMMA StepTyped == TypeInv /\ [Next]_vars => TypeInv'
<1> SUFFICES ASSUME TypeInv, [Next]_vars PROVE TypeInv'
  OBVIOUS
<1>1. CASE UNCHANGED vars
  BY <1>1 DEF vars, poolVars, netVars, serverVars, TypeInv, TypeOK, LocalsOK,
              PoolTypeOK, NetTypeOK
<1>2. CASE fault = "none" /\ AcceptThread
  BY <1>2, AcceptThreadTyped
<1>3. ASSUME fault = "none", NEW w \in Workers, WorkerStep(w) \/ HandlePacket(w)
      PROVE  TypeInv'
  BY <1>3, WorkerTyped
<1>4. ASSUME NEW k \in Sockets, Network(k)
      PROVE  TypeInv'
  <2>1. NetTypeOK'
    BY <1>4, NetworkTyped DEF Network, TypeInv, TypeOK
  <2> QED
    BY <1>4, <2>1 DEF Network, serverVars, poolVars, TypeInv, TypeOK, LocalsOK, PoolTypeOK
<1> QED
  BY <1>1, <1>2, <1>3, <1>4 DEF Next

\* Every variable keeps its type, and what a program counter says of the local
\* variables holds.
THEOREM Typing == Spec => []TypeInv
<1> QED
  BY InitTyped, StepTyped, PTL DEF Spec

\* Type correctness of the state of the pool, the network and the threads.
THEOREM TypeCorrect == Spec => []TypeOK
<1>1. TypeInv => TypeOK
  BY DEF TypeInv
<1> QED
  BY <1>1, Typing, PTL

----------------------------------------------------------------------------
(* Handles.                                                                *)

\* Between accept and JoinSession the handle belongs to the accept thread.
AcceptedUnowned ==
  acceptor.pc = "join" =>
    /\ Open(acceptor.soc)
    /\ \A s \in Slots : isRun_[s] => Socket_[s] # acceptor.soc

HandleInv == HandleOwnership /\ AcceptedUnowned

\* A step that changes no session and closes no handle.
LEMMA HandlesKept ==
  ASSUME HandleInv, UNCHANGED poolVars,
         \A k \in Sockets : conn[k] # "idle" => conn'[k] # "idle",
         acceptor'.pc = "join" => UNCHANGED acceptor
  PROVE  HandleInv'
BY DEF HandleInv, HandleOwnership, AcceptedUnowned, Open, poolVars

\* Disconnect closes only the handle of the session it clears, which no other
\* session and not the accept thread has.
LEMMA DisconnectKeepsHandles ==
  ASSUME TypeInv, HandleInv, NEW id, Disconnect(id),
         acceptor'.pc = "join" => UNCHANGED acceptor
  PROVE  HandleInv'
<1>1. CASE UNCHANGED <<poolVars, netVars>>
  BY <1>1, HandlesKept DEF netVars
<1>2. CASE LeaveSession(id)
  <2> DEFINE s == UsingSessions_[id]
             k == Socket_[s]
  <2>1. s \in Slots
    BY <1>2 DEF LeaveSession, Live, TypeInv, TypeOK, PoolTypeOK
  <2>2. /\ isRun_' = [isRun_ EXCEPT ![s] = FALSE]
        /\ Socket_' = [Socket_ EXCEPT ![s] = INVALID_SOCKET]
        /\ CloseSocket(k)
    BY <1>2 DEF LeaveSession, Clear
  <2>3. conn \in [Sockets -> {"idle", "up", "fin", "rst"}]
        /\ isRun_ \in [Slots -> BOOLEAN]
        /\ Socket_ \in [Slots -> Sockets \cup {INVALID_SOCKET}]
    BY DEF TypeInv, TypeOK, NetTypeOK, PoolTypeOK
  <2>4. \A j \in Sockets : j # k => conn'[j] = conn[j]
    BY <2>2, <2>3 DEF CloseSocket, Open, netVars
  <2>5. \A t \in Slots : isRun_'[t] => t # s /\ isRun_[t] /\ Socket_'[t] = Socket_[t]
    BY <2>1, <2>2, <2>3
  <2>6. \A t \in Slots : isRun_[t] /\ t # s => Socket_[t] \in Sockets /\ Socket_[t] # k
    <3> SUFFICES ASSUME NEW t \in Slots, isRun_[t], t # s
                 PROVE  Socket_[t] \in Sockets /\ Socket_[t] # k
      OBVIOUS
    <3>1. Open(Socket_[t])
      BY DEF HandleInv, HandleOwnership
    <3>2. CASE isRun_[s]
      BY <2>1, <3>1, <3>2 DEF HandleInv, HandleOwnership, Open
    <3>3. CASE ~isRun_[s]
      BY <2>1, <3>1, <3>3, PoolAssumption DEF HandleInv, HandleOwnership, Open
    <3> QED
      BY <3>2, <3>3
  <2>7. HandleOwnership'
    <3>1. ASSUME NEW t \in Slots, isRun_'[t] PROVE Open(Socket_[t])'
      BY <2>4, <2>5, <2>6, <3>1 DEF HandleInv, HandleOwnership, Open
    <3>2. ASSUME NEW t \in Slots, ~isRun_'[t] PROVE Socket_'[t] = INVALID_SOCKET
      BY <2>1, <2>2, <2>3, <3>2 DEF HandleInv, HandleOwnership
    <3>3. ASSUME NEW t \in Slots, NEW u \in Slots,
                 isRun_'[t], isRun_'[u], Socket_'[t] = Socket_'[u]
          PROVE  t = u
      BY <2>5, <3>3 DEF HandleInv, HandleOwnership
    <3> QED
      BY <3>1, <3>2, <3>3 DEF HandleOwnership
  <2>8. AcceptedUnowned'
    <3> SUFFICES ASSUME acceptor'.pc = "join"
                 PROVE  Open(acceptor.soc)'
                        /\ \A t \in Slots : isRun_'[t] => Socket_'[t] # acceptor'.soc
      BY DEF AcceptedUnowned
    <3>1. /\ acceptor' = acceptor
          /\ Open(acceptor.soc)
          /\ \A t \in Slots : isRun_[t] => Socket_[t] # acceptor.soc
      BY DEF HandleInv, AcceptedUnowned
    <3>2. acceptor.soc # k
      BY <2>1, <3>1, PoolAssumption DEF HandleInv, HandleOwnership, Open
    <3> QED
      BY <2>4, <2>5, <3>1, <3>2 DEF Open
  <2> QED
    BY <2>7, <2>8 DEF HandleInv
<1> QED
  BY <1>1, <1>2 DEF Disconnect

\* The accept thread gives a session only the handle it has just accepted.
LEMMA AcceptThreadKeepsHandles ==
  ASSUME TypeInv, HandleInv, AcceptThread
  PROVE  HandleInv'
<1>1. CASE Accept
  <2>1. PICK k \in Sockets : Accepts(k) /\ acceptor' = AcceptorAt("join", SessionID, k, NotFound)
    BY <1>1 DEF Accept
  <2>2. /\ conn[k] = "idle" /\ conn' = [conn EXCEPT ![k] = "up"]
        /\ conn \in [Sockets -> {"idle", "up", "fin", "rst"}]
    BY <2>1 DEF Accepts, TypeInv, TypeOK, NetTypeOK
  <2>3. \A s \in Slots : isRun_[s] => Open(Socket_[s]) /\ Socket_[s] # k
    BY <2>2 DEF HandleInv, HandleOwnership, Open
  <2>4. UNCHANGED <<isRun_, Socket_>>
    BY <1>1 DEF Accept, poolVars
  <2>5. HandleOwnership'
    BY <2>2, <2>3, <2>4 DEF HandleInv, HandleOwnership, Open
  <2>6. AcceptedUnowned'
    BY <2>1, <2>2, <2>3, <2>4 DEF AcceptedUnowned, AcceptorAt, Open
  <2> QED
    BY <2>5, <2>6 DEF HandleInv
<1>2. CASE Join
  <2> DEFINE s == FirstFree
             k == acceptor.soc
  <2>1. s \in Slots /\ ~isRun_[s]
    BY <1>2, FirstFreeIsFree DEF Join, JoinSession, FreeSlots
  <2>2. /\ isRun_' = [isRun_ EXCEPT ![s] = TRUE]
        /\ Socket_' = [Socket_ EXCEPT ![s] = k]
        /\ UNCHANGED conn
    BY <1>2 DEF Join, JoinSession, Initalize, netVars
  <2>3. /\ isRun_ \in [Slots -> BOOLEAN]
        /\ Socket_ \in [Slots -> Sockets \cup {INVALID_SOCKET}]
    BY DEF TypeInv, TypeOK, PoolTypeOK
  <2>4. Open(k) /\ \A t \in Slots : isRun_[t] => Socket_[t] # k
    BY <1>2 DEF Join, HandleInv, AcceptedUnowned
  <2> HIDE DEF s, k
  <2>5. HandleOwnership'
    BY <2>1, <2>2, <2>3, <2>4 DEF HandleInv, HandleOwnership, Open
  <2>6. AcceptedUnowned'
    BY <1>2 DEF Join, AcceptedUnowned, TypeInv, TypeOK
  <2> QED
    BY <2>5, <2>6 DEF HandleInv
<1>3. CASE AcceptorDisconnects
  <2>1. acceptor'.pc # "join"
    BY <1>3 DEF AcceptorDisconnects, TypeInv, TypeOK, Associated
  <2> QED
    BY <1>3, <2>1, DisconnectKeepsHandles DEF AcceptorDisconnects
<1>4. CASE PoolFull \/ Associate \/ AssociateFails \/ Greet \/ FirstRecv \/ FirstRecvFails
  <2>1. UNCHANGED poolVars
    BY <1>4 DEF PoolFull, Associate, AssociateFails, Greet, FirstRecv, FirstRecvFails
  <2>2. UNCHANGED conn
    BY <1>4 DEF PoolFull, Associate, AssociateFails, Greet, FirstRecv, FirstRecvFails,
                Binds, Broadcasting, PostsRecv, netVars
  <2>3. acceptor'.pc # "join"
    BY <1>4 DEF PoolFull, Associate, AssociateFails, Greet, FirstRecv, FirstRecvFails,
                Associated, AcceptorIdle, AcceptorAt, TypeInv, TypeOK
  <2> QED
    BY <2>1, <2>2, <2>3, HandlesKept
<1> QED
  BY <1>1, <1>2, <1>3, <1>4 DEF AcceptThread

\* A worker changes the handles of the sessions by Disconnect only.
LEMMA WorkerKeepsHandles ==
  ASSUME TypeInv, HandleInv, NEW w \in Workers, WorkerStep(w) \/ HandlePacket(w)
  PROVE  HandleInv'
<1>1. CASE Leave(w)
  BY <1>1, DisconnectKeepsHandles DEF Leave
<1>2. CASE Dequeue(w) \/ ReadID(w) \/ SendDone(w) \/ RecvDone(w) \/ HandlePacket(w)
           \/ PacketsEnd(w) \/ ReadSocket(w) \/ NextRecv(w) \/ NextRecvFails(w)
  <2>1. UNCHANGED <<poolVars, acceptor>>
    BY <1>2 DEF Dequeue, ReadID, SendDone, RecvDone, HandlePacket, PacketsEnd,
                ReadSocket, NextRecv, NextRecvFails
  <2>2. UNCHANGED conn
    BY <1>2 DEF Dequeue, ReadID, SendDone, RecvDone, HandlePacket, PacketsEnd,
                ReadSocket, NextRecv, NextRecvFails, Broadcasting, PostsRecv, netVars
  <2> QED
    BY <2>1, <2>2, HandlesKept
<1> QED
  BY <1>1, <1>2 DEF WorkerStep

\* The handle invariant is inductive.
LEMMA StepKeepsHandles == TypeInv /\ HandleInv /\ [Next]_vars => HandleInv'
<1> SUFFICES ASSUME TypeInv, HandleInv, [Next]_vars PROVE HandleInv'
  OBVIOUS
<1>1. CASE UNCHANGED vars
  BY <1>1, HandlesKept DEF vars, netVars, serverVars
<1>2. CASE AcceptThread
  BY <1>2, AcceptThreadKeepsHandles
<1>3. ASSUME NEW w \in Workers, WorkerStep(w) \/ HandlePacket(w) PROVE HandleInv'
  BY <1>3, WorkerKeepsHandles
<1>4. ASSUME NEW k \in Sockets, Network(k) PROVE HandleInv'
  <2>1. UNCHANGED <<poolVars, acceptor>>
    BY <1>4 DEF Network, serverVars
  <2>2. \A j \in Sockets : conn[j] # "idle" => conn'[j] # "idle"
    BY <1>4 DEF Network, PeerCloses, PeerResets, RecvCompletes, SendCompletes,
                TypeInv, TypeOK, NetTypeOK
  <2> QED
    BY <2>1, <2>2, HandlesKept
<1> QED
  BY <1>1, <1>2, <1>3, <1>4 DEF Next

\* A running session owns an open handle that no other session has, whatever
\* the threads, the peers and the reuse of handles and ids do.
THEOREM HandlesOwned == Spec => []HandleOwnership
<1>1. Init => HandleInv
  BY DEF Init, PoolInit, NetInit, AcceptorIdle, AcceptorAt,
         HandleInv, HandleOwnership, AcceptedUnowned
<1>2. HandleInv => HandleOwnership
  BY DEF HandleInv
<1> QED
  BY <1>1, <1>2, StepKeepsHandles, Typing, PTL DEF Spec

----------------------------------------------------------------------------
(* The map of the sessions in use, as long as the id counter does not wrap. *)

\* While a connection is being accepted its id is the value of the counter, and
\* psession is set from JoinSession on.
AcceptedID ==
  /\ acceptor.pc \in {"join", "assoc", "disc", "greet", "recv"}
       => acceptor.sid = serial /\ serial < MaxJoins
  /\ acceptor.pc \in {"accept", "join"} => acceptor.slot = NotFound

\* The ids in the map were given out.
LiveIssued ==
  \A id \in Live : id < serial \/ (acceptor.slot # NotFound /\ id = acceptor.sid)

UsingInv == UsingExact /\ AcceptedID /\ LiveIssued

\* A step that changes no session and forgets no id that was given out.
LEMMA UsingKept ==
  ASSUME UsingInv, UNCHANGED poolVars, AcceptedID', LiveIssued'
  PROVE  UsingInv'
BY DEF UsingInv, UsingExact, Live, poolVars

\* LeaveSession clears the session of the entry it erases.
LEMMA DisconnectKeepsUsing ==
  ASSUME TypeInv, UsingInv, NEW id, Disconnect(id), AcceptedID',
         UNCHANGED serial, acceptor'.slot = acceptor.slot, acceptor'.sid = acceptor.sid
  PROVE  UsingInv'
<1>1. CASE UNCHANGED poolVars
  BY <1>1 DEF UsingInv, UsingExact, LiveIssued, Live, poolVars
<1>2. CASE LeaveSession(id)
  <2> DEFINE s == UsingSessions_[id]
  <2>1. id \in Live /\ id \in Ids /\ s \in Slots /\ s # NotFound
    BY <1>2 DEF LeaveSession, Live, TypeInv, TypeOK, PoolTypeOK
  <2>2. /\ isRun_' = [isRun_ EXCEPT ![s] = FALSE]
        /\ ID_' = ID_
        /\ UsingSessions_' = [UsingSessions_ EXCEPT ![id] = NotFound]
    BY <1>2 DEF LeaveSession, Clear
  <2>3. /\ isRun_ \in [Slots -> BOOLEAN]
        /\ UsingSessions_ \in [Ids -> Slots \cup {NotFound}]
        /\ ID_ \in [Slots -> Ids]
    BY DEF TypeInv, TypeOK, PoolTypeOK
  <2>4. ID_[s] = id
    BY <2>1 DEF UsingInv, UsingExact
  <2>5. \A other \in Live' : other \in Live /\ other # id
                             /\ UsingSessions_'[other] = UsingSessions_[other]
    BY <2>1, <2>2, <2>3 DEF Live
  <2>6. \A other \in Live' : UsingSessions_[other] # s
    BY <2>1, <2>4, <2>5 DEF UsingInv, UsingExact
  <2>7. UsingExact'
    <3>1. ASSUME NEW other \in Live'
          PROVE  isRun_'[UsingSessions_'[other]] /\ ID_'[UsingSessions_'[other]] = other
      <4>1. /\ isRun_[UsingSessions_[other]] /\ ID_[UsingSessions_[other]] = other
            /\ UsingSessions_[other] \in Slots
        BY <2>3, <2>5 DEF UsingInv, UsingExact, Live
      <4> QED
        BY <2>2, <2>3, <2>5, <2>6, <4>1
    <3>2. ASSUME NEW t \in Slots, isRun_'[t]
          PROVE  UsingSessions_'[ID_'[t]] = t
      <4>1. t # s /\ isRun_[t]
        BY <2>1, <2>2, <2>3, <3>2
      <4>2. UsingSessions_[ID_[t]] = t
        BY <4>1 DEF UsingInv, UsingExact
      <4>3. ID_[t] # id
        BY <4>1, <4>2
      <4> QED
        BY <2>2, <2>3, <4>2, <4>3
    <3> QED
      BY <3>1, <3>2 DEF UsingExact
  <2>8. LiveIssued'
    BY <2>5 DEF UsingInv, LiveIssued
  <2> QED
    BY <2>7, <2>8 DEF UsingInv
<1> QED
  BY <1>1, <1>2 DEF Disconnect

\* The accept thread enters a session under an id that is not in the map.
LEMMA AcceptThreadKeepsUsing ==
  ASSUME MaxJoins <= IdSpace, TypeInv, UsingInv, AcceptThread
  PROVE  UsingInv'
<1> USE DEF AcceptorIdle, AcceptorAt
<1>0. serial \in Nat /\ IdSpace \in Nat /\ MaxJoins \in Nat
      /\ Slots \subseteq Nat /\ NotFound \notin Slots /\ Live \subseteq Nat
  BY PoolAssumption, ServerAssumption
     DEF TypeInv, TypeOK, Slots, NotFound, Live, Ids
<1>1. CASE Accept
  <2>1. PICK k \in Sockets : acceptor' = AcceptorAt("join", SessionID, k, NotFound)
    BY <1>1 DEF Accept
  <2>2. SessionID = serial /\ serial < MaxJoins
    BY <1>0, <1>1 DEF Accept, SessionID
  <2>3. AcceptedID'
    BY <1>1, <2>1, <2>2 DEF Accept, AcceptedID
  <2>4. LiveIssued'
    BY <1>1, <2>1 DEF Accept, UsingInv, AcceptedID, LiveIssued, Live, poolVars
  <2> QED
    BY <1>1, <2>3, <2>4, UsingKept DEF Accept
<1>2. CASE Join
  <2> DEFINE s == FirstFree
             id == acceptor.sid
  <2>1. s \in Slots /\ ~isRun_[s] /\ s # NotFound
    BY <1>0, <1>2, FirstFreeIsFree DEF Join, JoinSession, FreeSlots
  <2>2. /\ isRun_' = [isRun_ EXCEPT ![s] = TRUE]
        /\ ID_' = [ID_ EXCEPT ![s] = id]
        /\ UsingSessions_' = [UsingSessions_ EXCEPT ![id] = s]
        /\ acceptor'.slot = s /\ acceptor'.sid = id /\ acceptor'.pc = "assoc"
        /\ UNCHANGED serial
    BY <1>2 DEF Join, JoinSession, Initalize, TypeInv, TypeOK
  <2>3. /\ isRun_ \in [Slots -> BOOLEAN]
        /\ UsingSessions_ \in [Ids -> Slots \cup {NotFound}]
        /\ ID_ \in [Slots -> Ids]
        /\ id \in Ids
    BY DEF TypeInv, TypeOK, PoolTypeOK
  <2>4. id = serial /\ serial < MaxJoins /\ acceptor.slot = NotFound
    BY <1>2 DEF Join, UsingInv, AcceptedID
  <2>5. id \notin Live
    BY <1>0, <2>4 DEF UsingInv, LiveIssued
  <2> HIDE DEF s, id
  <2>6. Live' = Live \cup {id}
    BY <2>1, <2>2, <2>3 DEF Live
  <2>7. UsingExact'
    <3>1. ASSUME NEW other \in Live'
          PROVE  isRun_'[UsingSessions_'[other]] /\ ID_'[UsingSessions_'[other]] = other
      <4>1. CASE other = id
        BY <2>1, <2>2, <2>3, <4>1
      <4>2. CASE other # id
        <5>1. other \in Live /\ other \in Ids /\ UsingSessions_[other] \in Slots
          BY <2>3, <2>6, <4>2 DEF Live
        <5>2. isRun_[UsingSessions_[other]] /\ ID_[UsingSessions_[other]] = other
          BY <5>1 DEF UsingInv, UsingExact
        <5> QED
          BY <2>1, <2>2, <2>3, <4>2, <5>1, <5>2
      <4> QED
        BY <4>1, <4>2
    <3>2. ASSUME NEW t \in Slots, isRun_'[t]
          PROVE  UsingSessions_'[ID_'[t]] = t
      <4>1. CASE t = s
        BY <2>1, <2>2, <2>3, <4>1
      <4>2. CASE t # s
        <5>1. isRun_[t] /\ ID_'[t] = ID_[t] /\ ID_[t] \in Ids
          BY <2>2, <2>3, <3>2, <4>2
        <5>2. UsingSessions_[ID_[t]] = t
          BY <5>1 DEF UsingInv, UsingExact
        <5>3. ID_[t] \in Live
          BY <1>0, <5>1, <5>2 DEF Live
        <5> QED
          BY <2>2, <2>3, <2>5, <5>1, <5>2, <5>3
      <4> QED
        BY <4>1, <4>2
    <3> QED
      BY <3>1, <3>2 DEF UsingExact
  <2>8. LiveIssued'
    BY <2>1, <2>2, <2>4, <2>6 DEF UsingInv, LiveIssued
  <2>9. AcceptedID'
    BY <2>2, <2>4 DEF AcceptedID
  <2> QED
    BY <2>7, <2>8, <2>9 DEF UsingInv
<1>3. CASE AcceptorDisconnects
  <2>1. /\ UNCHANGED serial
        /\ acceptor'.slot = acceptor.slot /\ acceptor'.sid = acceptor.sid
        /\ acceptor'.pc \in {"greet", "recv"} /\ acceptor.pc = "disc"
    BY <1>3 DEF AcceptorDisconnects, Associated, TypeInv, TypeOK
  <2>2. AcceptedID'
    BY <2>1 DEF UsingInv, AcceptedID
  <2> QED
    BY <1>3, <2>1, <2>2, DisconnectKeepsUsing DEF AcceptorDisconnects
<1>4. CASE Associate \/ AssociateFails \/ Greet
  <2>1. /\ UNCHANGED <<poolVars, serial>>
        /\ acceptor'.slot = acceptor.slot /\ acceptor'.sid = acceptor.sid
        /\ acceptor'.pc \in {"disc", "greet", "recv"} /\ acceptor.pc \in {"assoc", "greet"}
    BY <1>4 DEF Associate, AssociateFails, Greet, Associated, TypeInv, TypeOK
  <2>2. AcceptedID'
    BY <2>1 DEF UsingInv, AcceptedID
  <2>3. LiveIssued'
    BY <2>1 DEF UsingInv, LiveIssued, Live, poolVars
  <2> QED
    BY <2>1, <2>2, <2>3, UsingKept
<1>5. CASE PoolFull
  <2>1. acceptor.slot = NotFound /\ acceptor' = AcceptorIdle /\ UNCHANGED <<poolVars, serial>>
    BY <1>5 DEF PoolFull, UsingInv, AcceptedID
  <2>2. AcceptedID' /\ LiveIssued'
    BY <2>1 DEF UsingInv, AcceptedID, LiveIssued, Live, poolVars
  <2> QED
    BY <2>1, <2>2, UsingKept
<1>6. CASE FirstRecv \/ FirstRecvFails
  <2>1. /\ acceptor.pc = "recv" /\ serial' = serial + 1 /\ UNCHANGED poolVars
        /\ \/ acceptor' = AcceptorIdle
           \/ acceptor'.pc = "spin"
    BY <1>6 DEF FirstRecv, FirstRecvFails, TypeInv, TypeOK
  <2>2. acceptor.sid = serial
    BY <2>1 DEF UsingInv, AcceptedID
  <2>3. LiveIssued'
    BY <1>0, <2>1, <2>2 DEF UsingInv, LiveIssued, Live, poolVars
  <2>4. AcceptedID'
    BY <2>1 DEF AcceptedID
  <2> QED
    BY <2>1, <2>3, <2>4, UsingKept
<1> QED
  BY <1>1, <1>2, <1>3, <1>4, <1>5, <1>6 DEF AcceptThread

\* The invariant of the map is inductive while there are ids left.
LEMMA StepKeepsUsing ==
  ASSUME MaxJoins <= IdSpace
  PROVE  TypeInv /\ UsingInv /\ [Next]_vars => UsingInv'
<1> SUFFICES ASSUME TypeInv, UsingInv, [Next]_vars PROVE UsingInv'
  OBVIOUS
<1>1. CASE AcceptThread
  BY <1>1, AcceptThreadKeepsUsing
<1>2. CASE UNCHANGED <<poolVars, serial, acceptor>>
  BY <1>2 DEF UsingInv, UsingExact, AcceptedID, LiveIssued, Live, poolVars
<1>3. CASE UNCHANGED vars
  BY <1>2, <1>3 DEF vars, serverVars
<1>4. ASSUME NEW w \in Workers, WorkerStep(w) \/ HandlePacket(w) PROVE UsingInv'
  <2>1. CASE Leave(w)
    <3>1. UNCHANGED <<serial, acceptor>>
      BY <2>1 DEF Leave
    <3>2. AcceptedID'
      BY <3>1 DEF UsingInv, AcceptedID
    <3> QED
      BY <2>1, <3>1, <3>2, DisconnectKeepsUsing DEF Leave
  <2>2. CASE Dequeue(w) \/ ReadID(w) \/ SendDone(w) \/ RecvDone(w) \/ HandlePacket(w)
             \/ PacketsEnd(w) \/ ReadSocket(w) \/ NextRecv(w) \/ NextRecvFails(w)
    <3>1. UNCHANGED <<poolVars, serial, acceptor>>
      BY <2>2 DEF Dequeue, ReadID, SendDone, RecvDone, HandlePacket, PacketsEnd,
                  ReadSocket, NextRecv, NextRecvFails
    <3> QED
      BY <1>2, <3>1
  <2> QED
    BY <1>4, <2>1, <2>2 DEF WorkerStep
<1>5. ASSUME NEW k \in Sockets, Network(k) PROVE UsingInv'
  BY <1>2, <1>5 DEF Network, serverVars
<1> QED
  BY <1>1, <1>3, <1>4, <1>5 DEF Next

\* At the start no session runs and the map is empty.
LEMMA InitUsing == Init => UsingInv
<1> SUFFICES ASSUME Init PROVE UsingInv
  OBVIOUS
<1>1. Live = {}
  BY DEF Init, PoolInit, Live
<1> QED
  BY <1>1 DEF Init, PoolInit, AcceptorIdle, AcceptorAt,
              UsingInv, UsingExact, AcceptedID, LiveIssued

\* The sessions that run are exactly those of UsingSessions_, each under its
\* own id, as long as no more sessions are accepted than there are ids.
THEOREM UsingIsExact ==
  ASSUME MaxJoins <= IdSpace
  PROVE  Spec => []UsingExact
<1>1. UsingInv => UsingExact
  BY DEF UsingInv
<1>2. TypeInv /\ UsingInv /\ [Next]_vars => UsingInv'
  BY StepKeepsUsing
<1> QED
  BY <1>1, <1>2, InitUsing, Typing, PTL DEF Spec

----------------------------------------------------------------------------
(* The accept thread, the workers and the pool of sessions implement the   *)
(* directory of connections, as long as no more sessions are accepted than *)
(* there are ids.                                                          *)

\* What the invariants say of the map.
DirInv == TypeInv /\ HandleInv /\ UsingInv

\* The mapping of the refinement.
Served ==
  [id \in Ids |-> IF id \in Live THEN Socket_[UsingSessions_[id]] ELSE INVALID_SOCKET]

Issued ==
  {id \in Ids : id < serial} \cup (IF acceptor.slot = NotFound THEN {} ELSE {acceptor.sid})

\* The connections of the directory are those of the map.
LEMMA EnteredIsLive ==
  ASSUME DirInv
  PROVE  /\ \A id \in Ids : Served[id] # INVALID_SOCKET <=> id \in Live
         /\ \A id \in Live : UsingSessions_[id] \in Slots /\ isRun_[UsingSessions_[id]]
                             /\ ID_[UsingSessions_[id]] = id /\ id \in Ids
<1>1. \A id \in Live : /\ UsingSessions_[id] \in Slots /\ isRun_[UsingSessions_[id]]
                       /\ ID_[UsingSessions_[id]] = id /\ id \in Ids
  BY DEF DirInv, UsingInv, UsingExact, TypeInv, TypeOK, PoolTypeOK, Live
<1>2. \A id \in Live : Socket_[UsingSessions_[id]] # INVALID_SOCKET
  BY <1>1, PoolAssumption DEF DirInv, HandleInv, HandleOwnership, Open
<1> QED
  BY <1>1, <1>2 DEF Served

\* Each connection has a session of its own, so a free session means that there
\* is room in the directory.
LEMMA RoomForOne ==
  ASSUME DirInv, FreeSlots # {}
  PROVE  Cardinality(Live) < MAX_SESSION
<1> DEFINE f == [id \in Live |-> UsingSessions_[id]]
           T == Slots \ {FirstFree}
<1>1. FirstFree \in Slots /\ ~isRun_[FirstFree]
  BY FirstFreeIsFree DEF FreeSlots
<1>2. f \in [Live -> T]
  BY <1>1, EnteredIsLive
<1>3. \A a, b \in Live : f[a] = f[b] => a = b
  BY EnteredIsLive
<1>4. f \in Injection(Live, T)
  BY <1>2, <1>3 DEF Injection, IsInjective
<1>5. IsFiniteSet(Slots) /\ Cardinality(Slots) = MAX_SESSION
  BY PoolAssumption, FS_Interval DEF Slots
<1>6. IsFiniteSet(T) /\ Cardinality(T) = MAX_SESSION - 1
  BY <1>1, <1>5, FS_RemoveElement
<1>7. IsFiniteSet(Live) /\ Cardinality(Live) <= Cardinality(T)
  BY <1>4, <1>6, FS_Injection
<1> QED
  BY <1>6, <1>7, FS_CardinalityType, PoolAssumption

\* A step that changes no session and gives out no id is a stutter.
LEMMA MapStutters ==
  ASSUME UNCHANGED poolVars, Issued' = Issued
  PROVE  Served' = Served /\ Issued' = Issued
BY DEF Served, Live, poolVars

\* JoinSession enters the connection that was accepted.
LEMMA JoinEnters ==
  ASSUME DirInv, Join
  PROVE  \E id \in Ids, k \in Sockets :
           /\ id \notin Issued
           /\ Cardinality(Live) < MAX_SESSION
           /\ \A other \in Ids : Served[other] # k
           /\ Served' = [Served EXCEPT ![id] = k]
           /\ Issued' = Issued \cup {id}
<1> DEFINE s == FirstFree
           id == acceptor.sid
           k == acceptor.soc
<1>1. s \in Slots /\ ~isRun_[s] /\ s # NotFound
  BY FirstFreeIsFree, PoolAssumption DEF Join, JoinSession, FreeSlots, Slots, NotFound
<1>2. /\ Socket_' = [Socket_ EXCEPT ![s] = k]
      /\ UsingSessions_' = [UsingSessions_ EXCEPT ![id] = s]
      /\ acceptor'.slot = s /\ acceptor'.sid = id
      /\ serial' = serial
  BY DEF Join, JoinSession, Initalize, DirInv, TypeInv, TypeOK
<1>3. /\ Socket_ \in [Slots -> Sockets \cup {INVALID_SOCKET}]
      /\ UsingSessions_ \in [Ids -> Slots \cup {NotFound}]
      /\ id \in Ids
  BY DEF DirInv, TypeInv, TypeOK, PoolTypeOK
<1>4. id = serial /\ acceptor.slot = NotFound
  BY DEF Join, DirInv, UsingInv, AcceptedID
<1>5. k \in Sockets /\ \A t \in Slots : isRun_[t] => Socket_[t] # k
  BY DEF Join, DirInv, HandleInv, AcceptedUnowned, Open
<1>6. id \notin Issued /\ Issued' = Issued \cup {id}
  <2>1. serial \in Nat /\ \A i \in Ids : i < serial => i # serial
    BY PoolAssumption DEF DirInv, TypeInv, TypeOK, Ids
  <2> QED
    BY <1>1, <1>2, <1>4, <2>1 DEF Issued
<1>7. Cardinality(Live) < MAX_SESSION
  BY RoomForOne DEF Join, JoinSession
<1>8. \A other \in Ids : Served[other] # k
  BY <1>5, EnteredIsLive, PoolAssumption DEF Served
<1>9. Served' = [Served EXCEPT ![id] = k]
  <2> SUFFICES ASSUME NEW other \in Ids
               PROVE  (IF other \in Live' THEN Socket_'[UsingSessions_'[other]] ELSE INVALID_SOCKET)
                        = IF other = id THEN k ELSE Served[other]
    BY <1>3 DEF Served
  <2>1. CASE other = id
    <3>1. UsingSessions_'[id] = s /\ id \in Live'
      BY <1>1, <1>2, <1>3 DEF Live
    <3> QED
      BY <1>1, <1>2, <1>3, <2>1, <3>1
  <2>2. CASE other # id
    <3>1. UsingSessions_'[other] = UsingSessions_[other] /\ (other \in Live' <=> other \in Live)
      BY <1>2, <1>3, <2>2 DEF Live
    <3>2. other \in Live => UsingSessions_[other] \in Slots /\ UsingSessions_[other] # s
      BY <1>1, EnteredIsLive
    <3>3. other \in Live => Socket_'[UsingSessions_[other]] = Socket_[UsingSessions_[other]]
      BY <1>2, <1>3, <3>2
    <3> QED
      BY <2>2, <3>1, <3>3 DEF Served
  <2> QED
    BY <2>1, <2>2
<1> HIDE DEF s, id, k
<1> QED
  BY <1>3, <1>5, <1>6, <1>7, <1>8, <1>9

\* Disconnect removes the connection of the id, or finds that it is gone.
LEMMA DisconnectRemoves ==
  ASSUME DirInv, NEW id, Disconnect(id), Issued' = Issued
  PROVE  \/ Served' = Served /\ Issued' = Issued
         \/ /\ id \in Ids /\ Served[id] # INVALID_SOCKET
            /\ Served' = [Served EXCEPT ![id] = INVALID_SOCKET]
            /\ Issued' = Issued
<1>1. CASE UNCHANGED poolVars
  BY <1>1, MapStutters
<1>2. CASE LeaveSession(id)
  <2> DEFINE s == UsingSessions_[id]
  <2>1. id \in Live /\ id \in Ids /\ s \in Slots /\ ID_[s] = id
    BY <1>2, EnteredIsLive DEF LeaveSession
  <2>2. /\ Socket_' = [Socket_ EXCEPT ![s] = INVALID_SOCKET]
        /\ UsingSessions_' = [UsingSessions_ EXCEPT ![id] = NotFound]
    BY <1>2 DEF LeaveSession, Clear
  <2>3. /\ Socket_ \in [Slots -> Sockets \cup {INVALID_SOCKET}]
        /\ UsingSessions_ \in [Ids -> Slots \cup {NotFound}]
    BY DEF DirInv, TypeInv, TypeOK, PoolTypeOK
  <2>4. Served' = [Served EXCEPT ![id] = INVALID_SOCKET]
    <3> SUFFICES ASSUME NEW other \in Ids
                 PROVE  (IF other \in Live' THEN Socket_'[UsingSessions_'[other]]
                                            ELSE INVALID_SOCKET)
                          = IF other = id THEN INVALID_SOCKET ELSE Served[other]
      BY DEF Served
    <3>1. CASE other = id
      BY <2>2, <2>3, <3>1 DEF Live
    <3>2. CASE other # id
      <4>1. UsingSessions_'[other] = UsingSessions_[other] /\ (other \in Live' <=> other \in Live)
        BY <2>2, <2>3, <3>2 DEF Live
      <4>2. other \in Live => UsingSessions_[other] \in Slots /\ UsingSessions_[other] # s
        BY <2>1, <3>2, EnteredIsLive
      <4>3. other \in Live => Socket_'[UsingSessions_[other]] = Socket_[UsingSessions_[other]]
        BY <2>2, <2>3, <4>2
      <4> QED
        BY <3>2, <4>1, <4>3 DEF Served
    <3> QED
      BY <3>1, <3>2
  <2> QED
    BY <2>1, <2>4, EnteredIsLive
<1> QED
  BY <1>1, <1>2 DEF Disconnect

\* Which ids were given out changes in JoinSession only: ++_SessionID counts the
\* id that the accept thread has entered.
LEMMA IssuedKept ==
  ASSUME DirInv, AcceptThread, ~Join
  PROVE  Issued' = Issued
<1>1. serial \in Nat /\ \A i \in Ids : i \in Nat
  BY PoolAssumption DEF DirInv, TypeInv, TypeOK, Ids
<1>2. CASE Accept
  <2>1. acceptor.slot = NotFound /\ acceptor'.slot = NotFound /\ serial' = serial
    BY <1>2 DEF Accept, AcceptorAt, DirInv, UsingInv, AcceptedID
  <2> QED
    BY <2>1 DEF Issued
<1>3. CASE PoolFull
  <2>1. acceptor.slot = NotFound /\ acceptor'.slot = NotFound /\ serial' = serial
    BY <1>3 DEF PoolFull, AcceptorIdle, AcceptorAt, DirInv, UsingInv, AcceptedID
  <2> QED
    BY <2>1 DEF Issued
<1>4. CASE Associate \/ AssociateFails \/ AcceptorDisconnects \/ Greet
  <2>1. acceptor'.slot = acceptor.slot /\ acceptor'.sid = acceptor.sid /\ serial' = serial
    BY <1>4 DEF Associate, AssociateFails, AcceptorDisconnects, Greet, DirInv, TypeInv, TypeOK
  <2> QED
    BY <2>1 DEF Issued
<1>5. CASE FirstRecv \/ FirstRecvFails
  <2>1. /\ acceptor.pc = "recv" /\ serial' = serial + 1
        /\ \/ acceptor'.slot = NotFound
           \/ acceptor'.slot = acceptor.slot /\ acceptor'.sid = acceptor.sid
    BY <1>5 DEF FirstRecv, FirstRecvFails, AcceptorIdle, AcceptorAt, DirInv, TypeInv, TypeOK
  <2>2. acceptor.sid = serial /\ acceptor.sid \in Ids /\ acceptor.slot # NotFound
    BY <2>1, PoolAssumption
       DEF DirInv, UsingInv, AcceptedID, TypeInv, TypeOK, LocalsOK, Slots, NotFound
  <2>3. {i \in Ids : i < serial + 1} = {i \in Ids : i < serial} \cup {acceptor.sid}
    BY <1>1, <2>2
  <2> QED
    BY <2>1, <2>2, <2>3 DEF Issued
<1> QED
  BY <1>2, <1>3, <1>4, <1>5 DEF AcceptThread

\* The accept thread and the workers together implement the directory: at most
\* MAX_SESSION connections, each under an id of its own that is never given out
\* again, each handle once.
THEOREM DirectoryImplemented ==
  ASSUME MaxJoins <= IdSpace
  PROVE  Spec => ImplementsDirectory
<1>1. Init => Directory!DirInit
  <2> SUFFICES ASSUME Init PROVE Served = [id \in Ids |-> INVALID_SOCKET] /\ Issued = {}
    BY DEF Directory!DirInit, Served, Issued
  <2>1. Live = {}
    BY DEF Init, PoolInit, Live
  <2>2. serial = 0 /\ acceptor.slot = NotFound /\ \A i \in Ids : ~(i < 0)
    BY PoolAssumption DEF Init, AcceptorIdle, AcceptorAt, Ids
  <2> QED
    BY <2>1, <2>2 DEF Served, Issued
<1>2. ASSUME DirInv, [Next]_vars
      PROVE  [Directory!DirNext]_Directory!dirVars
  <2>1. CASE Join
    <3>1. Directory!Entered = Live
      BY <1>2, EnteredIsLive DEF Directory!Entered, Served, Live
    <3>2. PICK id \in Ids, k \in Sockets :
            /\ id \notin Issued
            /\ Cardinality(Live) < MAX_SESSION
            /\ \A other \in Ids : Served[other] # k
            /\ Served' = [Served EXCEPT ![id] = k]
            /\ Issued' = Issued \cup {id}
      BY <1>2, <2>1, JoinEnters
    <3>3. Directory!Cardinality(Live) = Cardinality(Live)
      BY DEF Directory!Cardinality, Cardinality
    <3>4. Directory!Enter(id, k)
      BY <3>1, <3>2, <3>3 DEF Directory!Enter, Served, Issued
    <3> QED
      BY <3>2, <3>4 DEF Directory!DirNext
  <2>2. ASSUME NEW id, Disconnect(id), Issued' = Issued
        PROVE  [Directory!DirNext]_Directory!dirVars
    <3>1. CASE Served' = Served /\ Issued' = Issued
      BY <3>1 DEF Directory!dirVars, Served, Issued
    <3>2. CASE /\ id \in Ids /\ Served[id] # INVALID_SOCKET
               /\ Served' = [Served EXCEPT ![id] = INVALID_SOCKET]
               /\ Issued' = Issued
      <4>1. Directory!Remove(id)
        BY <3>2 DEF Directory!Remove, Directory!Entered, Served, Issued
      <4> QED
        BY <3>2, <4>1 DEF Directory!DirNext
    <3> QED
      BY <1>2, <2>2, <3>1, <3>2, DisconnectRemoves
  <2>3. ASSUME UNCHANGED poolVars, Issued' = Issued
        PROVE  [Directory!DirNext]_Directory!dirVars
    BY <2>3, MapStutters DEF Directory!dirVars, Served, Issued
  <2>4. CASE AcceptThread /\ ~Join
    <3>1. Issued' = Issued
      BY <1>2, <2>4, IssuedKept
    <3>2. CASE AcceptorDisconnects
      BY <2>2, <3>1, <3>2 DEF AcceptorDisconnects
    <3>3. CASE ~AcceptorDisconnects
      <4>1. UNCHANGED poolVars
        BY <2>4, <3>3 DEF AcceptThread, Accept, PoolFull, Associate, AssociateFails, Greet,
                          FirstRecv, FirstRecvFails
      <4> QED
        BY <2>3, <3>1, <4>1
    <3> QED
      BY <3>2, <3>3
  <2>5. ASSUME NEW w \in Workers, WorkerStep(w) \/ HandlePacket(w)
        PROVE  [Directory!DirNext]_Directory!dirVars
    <3>1. UNCHANGED <<serial, acceptor>>
      BY <2>5 DEF WorkerStep, Dequeue, ReadID, Leave, SendDone, RecvDone, HandlePacket, PacketsEnd,
                  ReadSocket, NextRecv, NextRecvFails
    <3>2. Issued' = Issued
      BY <3>1 DEF Issued
    <3>3. CASE Leave(w)
      BY <2>2, <3>2, <3>3 DEF Leave
    <3>4. CASE ~Leave(w)
      <4>1. UNCHANGED poolVars
        BY <2>5, <3>4 DEF WorkerStep, Dequeue, ReadID, SendDone, RecvDone, HandlePacket, PacketsEnd,
                          ReadSocket, NextRecv, NextRecvFails
      <4> QED
        BY <2>3, <3>2, <4>1
    <3> QED
      BY <3>3, <3>4
  <2>6. ASSUME UNCHANGED <<poolVars, serial, acceptor>>
        PROVE  [Directory!DirNext]_Directory!dirVars
    BY <2>3, <2>6 DEF Issued
  <2>7. ASSUME NEW k \in Sockets, Network(k)
        PROVE  [Directory!DirNext]_Directory!dirVars
    BY <2>6, <2>7 DEF Network, serverVars
  <2>8. CASE UNCHANGED vars
    BY <2>6, <2>8 DEF vars, serverVars
  <2> QED
    BY <1>2, <2>1, <2>4, <2>5, <2>7, <2>8 DEF Next
<1>3. TypeInv /\ UsingInv /\ [Next]_vars => UsingInv'
  BY StepKeepsUsing
<1>4. Init => HandleInv
  BY DEF Init, PoolInit, NetInit, AcceptorIdle, AcceptorAt,
         HandleInv, HandleOwnership, AcceptedUnowned
<1>5. DirInv <=> TypeInv /\ HandleInv /\ UsingInv
  BY DEF DirInv
<1> QED
  BY <1>1, <1>2, <1>3, <1>4, <1>5, InitUsing, StepKeepsHandles, Typing, PTL
     DEF Spec, ImplementsDirectory, Directory!DirSpec

----------------------------------------------------------------------------
(* Who may use the receive buffer of a session in Server_Framework, for    *)
(* any number of sessions, handles and workers: until a worker goes on     *)
(* after 0 bytes one claim to each session is passed on, from the accept   *)
(* thread to a pending receive, to its completion, to a worker and back.   *)

Busy(w) == worker[w].pc \notin {"gqcs", "dead"}

\* The session whose claim a busy worker has.
Held(w) == worker[w].pkt.ov

\* Server_Framework sends nothing: neither a greeting nor what it received.
NoSends ==
  /\ acceptor.pc # "greet"
  /\ \A k \in Sockets : sends[k] = <<>>
  /\ \A i \in DOMAIN cq : cq[i].type = "RECV_"
  /\ \A w \in Workers : worker[w].pkt.type = "RECV_"

\* A pending receive is the only one of its handle, which its session owns.
RecvsOK ==
  \A k \in Sockets : /\ Len(recvs[k]) <= 1
                     /\ recvs[k] # <<>> => isRun_[recvs[k][1]] /\ Socket_[recvs[k][1]] = k

\* The key of a handle is the session that owns it.
KeysOK == \A k \in Sockets : key[k] # NoKey => isRun_[key[k]] /\ Socket_[key[k]] = k

\* A completion is of a running session that has no other one and no receive.
QueueOK ==
  \A i \in DOMAIN cq :
    /\ cq[i].key = cq[i].ov /\ isRun_[cq[i].ov]
    /\ \A j \in DOMAIN cq : cq[j].ov = cq[i].ov => i = j
    /\ \A k \in Sockets : recvs[k] # <<>> => recvs[k][1] # cq[i].ov

\* So is the session of a busy worker; the id and the handle that it read are
\* still those of the session.
WorkersOK ==
  \A w \in Workers :
    IF Busy(w)
    THEN /\ worker[w].pkt.key = Held(w) /\ isRun_[Held(w)]
         /\ worker[w].pc = "leave" => worker[w].id = ID_[Held(w)]
         /\ worker[w].pc = "wsarecv" => worker[w].soc = Socket_[Held(w)]
         /\ \A v \in Workers : Busy(v) /\ Held(v) = Held(w) => v = w
         /\ \A i \in DOMAIN cq : cq[i].ov # Held(w)
         /\ \A k \in Sockets : recvs[k] # <<>> => recvs[k][1] # Held(w)
    ELSE worker[w].pkt = NoPacket

\* Nobody else has a claim to session s.
Unclaimed(s) ==
  /\ \A w \in Workers : Busy(w) => Held(w) # s
  /\ \A i \in DOMAIN cq : cq[i].ov # s
  /\ \A k \in Sockets : recvs[k] # <<>> => recvs[k][1] # s

\* From JoinSession to its first receive a session is the accept thread's; the
\* handle of one that it disconnected is closed.
AcceptorOK ==
  acceptor.pc \in {"assoc", "disc", "recv"} =>
    \/ acceptor.pc = "recv" /\ conn[acceptor.soc] = "idle"
    \/ /\ isRun_[acceptor.slot] /\ Socket_[acceptor.slot] = acceptor.soc
       /\ Unclaimed(acceptor.slot)

Claims == RecvsOK /\ KeysOK /\ QueueOK /\ WorkersOK /\ AcceptorOK /\ fault # "out_of_range"

ClaimInv == NoSends /\ (~wentOn => Claims)

ServerInv == TypeInv /\ HandleInv /\ UsingInv /\ ClaimInv

\* The types that the proofs below use.
LEMMA Types ==
  ASSUME TypeInv
  PROVE  /\ isRun_ \in [Slots -> BOOLEAN] /\ ID_ \in [Slots -> Ids]
         /\ Socket_ \in [Slots -> Sockets \cup {INVALID_SOCKET}]
         /\ UsingSessions_ \in [Ids -> Slots \cup {NotFound}]
         /\ conn \in [Sockets -> {"idle", "up", "fin", "rst"}]
         /\ key \in [Sockets -> Slots \cup {NoKey}]
         /\ recvs \in [Sockets -> Seq(Slots)]
         /\ cq \in Seq(Packets)
         /\ \A w \in Workers : Busy(w) => worker[w].pkt \in Packets
         /\ \A p \in Packets : p.key \in Slots /\ (p.type = "RECV_" => p.ov \in Slots)
         /\ NoKey \notin Slots /\ NotFound \notin Slots
<1>1. Keys = Slots /\ NoKey \notin Slots /\ NotFound \notin Slots
  BY PoolAssumption DEF Slots, NoKey, NotFound
<1>2. \A p \in Packets : p.key \in Slots /\ (p.type = "RECV_" => p.ov \in Slots)
  BY <1>1 DEF Packets, RecvPacket, SendPacket
<1> QED
  BY <1>1, <1>2 DEF TypeInv, TypeOK, PoolTypeOK, NetTypeOK, LocalsOK, Busy

\* At the start nothing is claimed.
LEMMA InitClaims == Init => ClaimInv
  BY DEF Init, PoolInit, NetInit, AcceptorIdle, AcceptorAt, WorkerIdle, WorkerAt, NoPacket,
         ClaimInv, Claims, NoSends, RecvsOK, KeysOK, QueueOK, WorkersOK, AcceptorOK, Busy, Held

\* A disconnect by the thread that has the claim finds the id, and aborts nothing.
LEMMA HolderDisconnects ==
  ASSUME ServerInv, ~wentOn, NEW s \in Slots, isRun_[s],
         \A k \in Sockets : recvs[k] # <<>> => recvs[k][1] # s,
         Disconnect(ID_[s])
  PROVE  /\ UNCHANGED <<ID_, recvs, sends, cq, fault>>
         /\ Socket_[s] \in Sockets
         /\ isRun_' = [isRun_ EXCEPT ![s] = FALSE]
         /\ Socket_' = [Socket_ EXCEPT ![s] = INVALID_SOCKET]
         /\ conn' = [conn EXCEPT ![Socket_[s]] = "idle"]
         /\ key' = [key EXCEPT ![Socket_[s]] = NoKey]
<1> DEFINE k == Socket_[s]
<1> USE DEF ServerInv
<1>1. ID_[s] \in Live /\ UsingSessions_[ID_[s]] = s
  BY Types DEF UsingInv, UsingExact, Live
<1>2. Clear(s) /\ fault' = fault
  BY <1>1 DEF Disconnect, LeaveSession
<1>3. Open(k) /\ k \in Sockets
  BY DEF HandleInv, HandleOwnership, Open
<1>4. recvs[k] = <<>>
  <2> SUFFICES ASSUME recvs[k] # <<>> PROVE FALSE
    OBVIOUS
  <2>1. isRun_[recvs[k][1]] /\ Socket_[recvs[k][1]] = k
    BY <1>3 DEF ClaimInv, Claims, RecvsOK
  <2>2. recvs[k][1] \in Slots
    BY <1>3, Types
  <2> QED
    BY <1>3, <2>1, <2>2 DEF HandleInv, HandleOwnership
<1>5. sends[k] = <<>>
  BY <1>3 DEF ClaimInv, NoSends
<1>6. Queued(k, Aborted(k)) = <<>>
  BY <1>4, <1>5 DEF Queued, Aborted
<1>7. /\ conn' = [conn EXCEPT ![k] = "idle"] /\ key' = [key EXCEPT ![k] = NoKey]
      /\ recvs' = [recvs EXCEPT ![k] = <<>>] /\ sends' = [sends EXCEPT ![k] = <<>>]
      /\ cq' = cq \o Queued(k, Aborted(k))
  BY <1>2, <1>3 DEF Clear, CloseSocket
<1>8. recvs' = recvs /\ sends' = sends
  BY <1>3, <1>4, <1>5, <1>7 DEF TypeInv, TypeOK, NetTypeOK
<1>9. cq' = cq
  BY <1>6, <1>7, Types
<1> QED
  BY <1>2, <1>3, <1>7, <1>8, <1>9 DEF Clear

\* After it the claims of the other sessions are as before.
LEMMA DisconnectKeepsClaims ==
  ASSUME ServerInv, ~wentOn, NEW s \in Slots, isRun_[s],
         \A k \in Sockets : recvs[k] # <<>> => recvs[k][1] # s,
         Disconnect(ID_[s])
  PROVE  /\ UNCHANGED <<recvs, sends, cq, fault>>
         /\ RecvsOK' /\ KeysOK'
         /\ (\A i \in DOMAIN cq : cq[i].ov # s) => QueueOK'
         /\ \A t \in Slots : t # s => isRun_'[t] = isRun_[t] /\ Socket_'[t] = Socket_[t]
         /\ UNCHANGED ID_
         /\ conn'[Socket_[s]] = "idle"
         /\ \A k \in Sockets : conn[k] = "idle" => conn'[k] = "idle"
<1>1. /\ UNCHANGED <<ID_, recvs, sends, cq, fault>>
      /\ Socket_[s] \in Sockets
      /\ isRun_' = [isRun_ EXCEPT ![s] = FALSE]
      /\ Socket_' = [Socket_ EXCEPT ![s] = INVALID_SOCKET]
      /\ conn' = [conn EXCEPT ![Socket_[s]] = "idle"]
      /\ key' = [key EXCEPT ![Socket_[s]] = NoKey]
  BY HolderDisconnects
<1>2. \A t \in Slots : t # s => isRun_'[t] = isRun_[t] /\ Socket_'[t] = Socket_[t]
  BY <1>1, Types DEF ServerInv
<1>3. \A k \in Sockets : recvs[k] # <<>> => recvs[k][1] \in Slots
  BY Types DEF ServerInv
<1>4. RecvsOK'
  BY <1>1, <1>2, <1>3 DEF ServerInv, ClaimInv, Claims, RecvsOK
<1>5. KeysOK'
  <2> SUFFICES ASSUME NEW k \in Sockets, key'[k] # NoKey
               PROVE  isRun_'[key'[k]] /\ Socket_'[key'[k]] = k
    BY DEF KeysOK
  <2>1. k # Socket_[s] /\ key'[k] = key[k] /\ key[k] \in Slots
    BY <1>1, Types DEF ServerInv
  <2>2. isRun_[key[k]] /\ Socket_[key[k]] = k
    BY <2>1 DEF ServerInv, ClaimInv, Claims, KeysOK
  <2> QED
    BY <1>2, <2>1, <2>2
<1>6. ASSUME \A i \in DOMAIN cq : cq[i].ov # s
      PROVE  QueueOK'
  <2>1. \A i \in DOMAIN cq : cq[i].ov \in Slots
    BY Types DEF ServerInv, ClaimInv, NoSends
  <2> QED
    BY <1>1, <1>2, <1>6, <2>1 DEF ServerInv, ClaimInv, Claims, QueueOK
<1>7. conn'[Socket_[s]] = "idle" /\ \A k \in Sockets : conn[k] = "idle" => conn'[k] = "idle"
  BY <1>1, Types DEF ServerInv
<1> QED
  BY <1>1, <1>2, <1>4, <1>5, <1>6, <1>7

\* Nothing is ever sent.
LEMMA StepKeepsNoSends ==
  ASSUME Program = "Server_Framework", ServerInv, [Next]_vars
  PROVE  NoSends'
<1> USE DEF ServerInv, ClaimInv
<1>0. \A k \in Sockets : Queued(k, Aborted(k)) \in Seq(RecvPacket)
  <2> SUFFICES ASSUME NEW k \in Sockets PROVE Queued(k, Aborted(k)) \in Seq(RecvPacket)
    OBVIOUS
  <2>1. sends[k] = <<>> /\ recvs[k] \in Seq(Keys) /\ key[k] \in Keys \cup {NoKey}
    BY DEF NoSends, TypeInv, TypeOK, NetTypeOK
  <2>2. Aborted(k) = [i \in 1 .. Len(recvs[k]) |-> Packet(k, "RECV_", recvs[k][i], "error")]
    <3> DEFINE R == [i \in 1 .. Len(recvs[k]) |-> Packet(k, "RECV_", recvs[k][i], "error")]
               S == [i \in 1 .. Len(sends[k]) |-> Packet(k, "SEND_", sends[k][i], "error")]
    <3>1. S = <<>>
      BY <2>1
    <3>2. R \in Seq({Packet(k, "RECV_", recvs[k][i], "error") : i \in 1 .. Len(recvs[k])})
      BY <2>1
    <3>3. Aborted(k) = R \o S
      BY DEF Aborted
    <3> HIDE DEF R, S
    <3>4. R \o <<>> = R
      BY <3>2
    <3> QED
      BY <3>1, <3>3, <3>4 DEF R
  <2>3. CASE key[k] = NoKey
    BY <2>3 DEF Queued
  <2>4. CASE key[k] # NoKey
    <3>1. \A i \in 1 .. Len(recvs[k]) : Packet(k, "RECV_", recvs[k][i], "error") \in RecvPacket
      BY <2>1, <2>4 DEF Packet, RecvPacket
    <3> QED
      BY <2>1, <2>2, <2>4, <3>1 DEF Queued
  <2> QED
    BY <2>3, <2>4
<1>1. cq \in Seq(RecvPacket)
  <2>1. cq \in Seq(Packets) /\ \A i \in DOMAIN cq : cq[i].type = "RECV_"
    BY DEF TypeInv, TypeOK, NetTypeOK, NoSends
  <2>2. \A p \in SendPacket : p.type = "SEND_"
    BY DEF SendPacket
  <2>3. \A i \in DOMAIN cq : cq[i] \in RecvPacket
    BY <2>1, <2>2 DEF Packets
  <2> QED
    BY <2>1, <2>3
<1>2. \A p \in RecvPacket : p.type = "RECV_"
  BY DEF RecvPacket
<1>3. \A w \in Workers : worker[w].pkt.type = "RECV_"
  BY DEF NoSends
<1>4. ASSUME NEW id, Disconnect(id)
      PROVE  cq' \in Seq(RecvPacket) /\ \A k \in Sockets : sends'[k] = <<>>
  <2>1. CASE UNCHANGED <<poolVars, netVars>>
    BY <1>1, <2>1 DEF netVars, NoSends
  <2>2. CASE LeaveSession(id)
    <3>1. PICK k : CloseSocket(k)
      BY <2>2 DEF LeaveSession, Clear
    <3>2. CASE Open(k)
      <4>1. /\ k \in Sockets
            /\ cq' = cq \o Queued(k, Aborted(k)) /\ sends' = [sends EXCEPT ![k] = <<>>]
        BY <3>1, <3>2 DEF CloseSocket, Open
      <4>2. cq' \in Seq(RecvPacket)
        BY <1>0, <1>1, <4>1
      <4> QED
        BY <4>1, <4>2 DEF NoSends, TypeInv, TypeOK, NetTypeOK
    <3>3. CASE ~Open(k)
      BY <1>1, <3>1, <3>3 DEF CloseSocket, netVars, NoSends
    <3> QED
      BY <3>2, <3>3
  <2> QED
    BY <1>4, <2>1, <2>2 DEF Disconnect
<1>5. CASE UNCHANGED vars
  BY <1>5 DEF vars, netVars, serverVars, NoSends
<1>6. CASE AcceptThread
  <2>1. CASE AcceptorDisconnects
    <3>1. acceptor'.pc # "greet"
      BY <2>1 DEF AcceptorDisconnects, Associated, TypeInv, TypeOK
    <3>2. UNCHANGED worker
      BY <2>1 DEF AcceptorDisconnects
    <3>3. cq' \in Seq(RecvPacket) /\ \A k \in Sockets : sends'[k] = <<>>
      BY <1>4, <2>1 DEF AcceptorDisconnects
    <3> QED
      BY <1>2, <1>3, <3>1, <3>2, <3>3 DEF NoSends
  <2>2. CASE ~AcceptorDisconnects
    <3>1. ~Greet
      BY DEF Greet, NoSends
    <3>2. UNCHANGED <<sends, cq, worker>>
      BY <1>6, <2>2, <3>1
         DEF AcceptThread, Accept, Accepts, Join, PoolFull, Associate, Binds, AssociateFails,
             FirstRecv, PostsRecv, FirstRecvFails, netVars
    <3>3. \A p, q : /\ [acceptor EXCEPT !.pc = p].pc = p
                     /\ [acceptor EXCEPT !.pc = p, !.slot = q].pc = p
      BY DEF TypeInv, TypeOK
    <3>4. Associated = "recv"
      BY DEF Associated
    <3>5. acceptor'.pc # "greet"
      <4>1. CASE AssociateFails
        BY <3>3, <3>4, <4>1 DEF AssociateFails
      <4>2. CASE Accept \/ PoolFull \/ FirstRecv
        BY <4>2 DEF Accept, PoolFull, FirstRecv, AcceptorIdle, AcceptorAt
      <4>3. CASE Join
        BY <3>3, <4>3 DEF Join
      <4>4. CASE Associate \/ FirstRecvFails
        BY <3>3, <3>4, <4>4 DEF Associate, FirstRecvFails
      <4> QED
        BY <1>6, <2>2, <3>1, <4>1, <4>2, <4>3, <4>4 DEF AcceptThread
    <3> QED
      BY <3>2, <3>5 DEF NoSends
  <2> QED
    BY <2>1, <2>2
<1>7. ASSUME NEW w \in Workers, WorkerStep(w) \/ HandlePacket(w)
      PROVE  NoSends'
  <2>0. UNCHANGED acceptor
    BY <1>7 DEF WorkerStep, Dequeue, ReadID, Leave, SendDone, RecvDone, PacketsEnd, ReadSocket,
                NextRecv, NextRecvFails, HandlePacket
  <2>1. \A v \in Workers : worker'[v].pkt \in {worker[v].pkt, NoPacket}
                           \/ (Dequeue(w) /\ worker'[v].pkt = Head(cq))
    BY <1>7 DEF WorkerStep, Dequeue, ReadID, Leave, SendDone, RecvDone, PacketsEnd, ReadSocket,
                NextRecv, NextRecvFails, HandlePacket, Goes, LoopsBack, WorkerIdle, WorkerDead,
                WorkerAt, TypeInv, TypeOK
  <2>2. cq' \in Seq(RecvPacket) /\ \A k \in Sockets : sends'[k] = <<>>
    <3>1. CASE Leave(w)
      BY <1>4, <3>1 DEF Leave
    <3>2. CASE Dequeue(w)
      BY <1>1, <3>2 DEF Dequeue, NoSends
    <3>3. CASE ~Leave(w) /\ ~Dequeue(w)
      <4>1. UNCHANGED <<sends, cq>>
        BY <1>7, <3>3 DEF WorkerStep, ReadID, SendDone, RecvDone, PacketsEnd, ReadSocket,
                          NextRecv, PostsRecv, NextRecvFails, HandlePacket, netVars
      <4> QED
        BY <1>1, <4>1 DEF NoSends
    <3> QED
      BY <3>1, <3>2, <3>3
  <2>3. Dequeue(w) => Head(cq).type = "RECV_"
    BY <1>1, <1>2 DEF Dequeue
  <2>4. \A v \in Workers : worker'[v].pkt.type = "RECV_"
    BY <1>3, <2>1, <2>3 DEF NoPacket
  <2> QED
    BY <1>2, <2>0, <2>2, <2>4 DEF NoSends
<1>8. ASSUME NEW k \in Sockets, Network(k)
      PROVE  NoSends'
  <2>1. UNCHANGED <<acceptor, worker, sends>>
    BY <1>8 DEF Network, PeerCloses, PeerResets, RecvCompletes, SendCompletes, serverVars, NoSends
  <2>2. CASE RecvCompletes(k)
    <3> DEFINE io == CASE conn[k] = "up" -> "bytes"
                       [] conn[k] = "fin" -> "zero"
                       [] OTHER -> "error"
               pkt == Packet(k, "RECV_", Head(recvs[k]), io)
    <3>1. pkt.type = "RECV_"
      BY DEF Packet
    <3>2. cq' = cq \o Queued(k, <<pkt>>)
      BY <2>2 DEF RecvCompletes
    <3> HIDE DEF pkt
    <3>3. \A i \in DOMAIN cq' : cq'[i].type = "RECV_"
      BY <1>1, <1>2, <3>1, <3>2 DEF Queued
    <3> QED
      BY <2>1, <3>3 DEF NoSends
  <2>3. CASE UNCHANGED cq
    BY <2>1, <2>3 DEF NoSends
  <2>4. ~SendCompletes(k)
    BY DEF SendCompletes, NoSends
  <2> QED
    BY <1>8, <2>2, <2>3, <2>4 DEF Network, PeerCloses, PeerResets
<1> QED
  BY <1>5, <1>6, <1>7, <1>8 DEF Next

----------------------------------------------------------------------------
(* The steps keep the claims, while no worker has gone on after 0 bytes.    *)

\* What the claims say, with the types that the proofs below need.
LEMMA Claimed ==
  ASSUME ServerInv, ~wentOn
  PROVE  /\ RecvsOK /\ KeysOK /\ QueueOK /\ WorkersOK /\ AcceptorOK
         /\ \A k \in Sockets : recvs[k] # <<>> => recvs[k][1] \in Slots
         /\ \A i \in DOMAIN cq : cq[i].ov \in Slots
         /\ \A w \in Workers : Busy(w) => Held(w) \in Slots /\ Session(w) = Held(w)
         /\ \A s, t \in Slots : isRun_[s] /\ isRun_[t] /\ Socket_[s] = Socket_[t] => s = t
<1> USE DEF ServerInv, ClaimInv
<1>1. RecvsOK /\ KeysOK /\ QueueOK /\ WorkersOK /\ AcceptorOK
  BY DEF Claims
<1>2. \A k \in Sockets : recvs[k] # <<>> => recvs[k][1] \in Slots
  BY Types
<1>3. \A i \in DOMAIN cq : cq[i].ov \in Slots
  BY Types DEF NoSends
<1>4. \A w \in Workers : Busy(w) => Held(w) \in Slots /\ Session(w) = Held(w)
  BY <1>1, Types DEF NoSends, WorkersOK, Held, Session
<1> QED
  BY <1>1, <1>2, <1>3, <1>4 DEF HandleInv, HandleOwnership

\* A step of a worker that keeps its claim, or one of somebody else.
LEMMA WorkersKeepClaims ==
  ASSUME ServerInv, ~wentOn, UNCHANGED <<poolVars, key, recvs, cq, acceptor>>,
         NEW w \in Workers,
         \A v \in Workers : v # w => worker'[v] = worker[v],
         IF Busy(w)'
         THEN /\ Busy(w) /\ worker'[w].pkt = worker[w].pkt
              /\ worker'[w].pc = "leave" => worker'[w].id = ID_[Held(w)]
              /\ worker'[w].pc = "wsarecv" => worker'[w].soc = Socket_[Held(w)]
         ELSE worker'[w].pkt = NoPacket,
         \A k \in Sockets : conn[k] = "idle" => conn'[k] = "idle"
  PROVE  RecvsOK' /\ KeysOK' /\ QueueOK' /\ WorkersOK' /\ AcceptorOK'
<1> USE DEF poolVars
<1>1. \A v \in Workers : Busy(v)' => Busy(v) /\ Held(v)' = Held(v)
  BY DEF Busy, Held
<1>2. RecvsOK' /\ KeysOK' /\ QueueOK'
  BY Claimed DEF RecvsOK, KeysOK, QueueOK
<1>3. WorkersOK'
  <2> SUFFICES ASSUME NEW v \in Workers
               PROVE  IF Busy(v)'
                      THEN /\ worker'[v].pkt.key = Held(v)' /\ isRun_'[Held(v)']
                           /\ worker'[v].pc = "leave" => worker'[v].id = ID_'[Held(v)']
                           /\ worker'[v].pc = "wsarecv" => worker'[v].soc = Socket_'[Held(v)']
                           /\ \A u \in Workers : Busy(u)' /\ Held(u)' = Held(v)' => u = v
                           /\ \A i \in DOMAIN cq' : cq'[i].ov # Held(v)'
                           /\ \A k \in Sockets : recvs'[k] # <<>> => recvs'[k][1] # Held(v)'
                      ELSE worker'[v].pkt = NoPacket
    BY DEF WorkersOK
  <2>1. CASE Busy(v)'
    <3>1. Busy(v) /\ Held(v)' = Held(v) /\ worker'[v].pkt = worker[v].pkt
      BY <1>1, <2>1
    <3> QED
      BY <1>1, <2>1, <3>1, Claimed DEF WorkersOK
  <2>2. CASE ~Busy(v)'
    BY <2>2, Claimed DEF WorkersOK, Busy
  <2> QED
    BY <2>1, <2>2
<1>4. AcceptorOK'
  <2>1. \A s : Unclaimed(s) => Unclaimed(s)'
    BY <1>1 DEF Unclaimed
  <2>2. acceptor'.pc \in {"assoc", "disc", "recv"} /\ conn[acceptor.soc] = "idle"
          => conn'[acceptor.soc] = "idle"
    BY DEF ServerInv, TypeInv, LocalsOK
  <2> QED
    BY <2>1, <2>2, Claimed DEF AcceptorOK
<1> QED
  BY <1>2, <1>3, <1>4

\* A receive posted by the thread that has the claim to its session.
LEMMA PostKeepsClaims ==
  ASSUME ServerInv, ~wentOn, UNCHANGED poolVars, NEW s \in Slots, isRun_[s],
         PostsRecv(Socket_[s], s),
         \A i \in DOMAIN cq : cq[i].ov # s,
         \A k \in Sockets : recvs[k] # <<>> => recvs[k][1] # s
  PROVE  /\ UNCHANGED <<conn, key, sends, cq>>
         /\ RecvsOK' /\ KeysOK' /\ QueueOK'
         /\ \A k \in Sockets : recvs'[k] # <<>> =>
              \/ recvs'[k][1] = s
              \/ recvs'[k] = recvs[k]
<1> USE DEF poolVars
<1> DEFINE soc == Socket_[s]
<1>1. soc \in Sockets /\ UNCHANGED <<conn, key, sends, cq>>
  BY DEF PostsRecv, Usable
<1>2. recvs[soc] = <<>>
  BY <1>1, Claimed DEF RecvsOK
<1>3. recvs' = [recvs EXCEPT ![soc] = <<s>>]
  BY <1>1, <1>2 DEF PostsRecv, ServerInv, TypeInv, TypeOK, NetTypeOK
<1>4. \A k \in Sockets : recvs'[k] = IF k = soc THEN <<s>> ELSE recvs[k]
  BY <1>1, <1>3 DEF ServerInv, TypeInv, TypeOK, NetTypeOK
<1>5. RecvsOK'
  <2> SUFFICES ASSUME NEW k \in Sockets
               PROVE  /\ Len(recvs'[k]) <= 1
                      /\ recvs'[k] # <<>> => isRun_[recvs'[k][1]] /\ Socket_[recvs'[k][1]] = k
    BY DEF RecvsOK
  <2>1. CASE k = soc
    <3>1. recvs'[k] = <<s>>
      BY <1>4, <2>1
    <3>2. Len(<<s>>) = 1 /\ <<s>>[1] = s
      OBVIOUS
    <3> QED
      BY <2>1, <3>1, <3>2
  <2>2. CASE k # soc
    BY <1>4, <2>2, Claimed DEF RecvsOK
  <2> QED
    BY <2>1, <2>2
<1>6. KeysOK'
  BY <1>1, Claimed DEF KeysOK
<1>7. QueueOK'
  <2>1. \A k \in Sockets : recvs'[k] # <<>> => recvs'[k][1] = s \/ recvs'[k] = recvs[k]
    BY <1>4
  <2>2. \A i \in DOMAIN cq : \A k \in Sockets : recvs'[k] # <<>> => recvs'[k][1] # cq[i].ov
    BY <2>1, Claimed DEF QueueOK
  <2> QED
    BY <1>1, <2>2, Claimed DEF QueueOK
<1> QED
  BY <1>1, <1>4, <1>5, <1>6, <1>7

\* A step of the accept thread that changes no session, receive or packet.
LEMMA AcceptorKeepsClaims ==
  ASSUME ServerInv, ~wentOn, UNCHANGED <<poolVars, recvs, cq, worker>>
  PROVE  /\ RecvsOK' /\ QueueOK' /\ WorkersOK'
         /\ UNCHANGED key => KeysOK'
<1> USE DEF poolVars
<1>1. RecvsOK' /\ QueueOK' /\ (UNCHANGED key => KeysOK')
  BY Claimed DEF RecvsOK, QueueOK, KeysOK
<1>2. WorkersOK'
  BY Claimed DEF WorkersOK, Busy, Held
<1> QED
  BY <1>1, <1>2

\* JoinSession takes a session that nobody has a claim to.
LEMMA JoinKeepsClaims ==
  ASSUME ServerInv, ~wentOn, Join
  PROVE  RecvsOK' /\ KeysOK' /\ QueueOK' /\ WorkersOK' /\ AcceptorOK'
<1> DEFINE s == FirstFree
           soc == acceptor.soc
<1>1. s \in Slots /\ ~isRun_[s]
  BY FirstFreeIsFree DEF Join, JoinSession, FreeSlots
<1>2. /\ isRun_' = [isRun_ EXCEPT ![s] = TRUE] /\ Socket_' = [Socket_ EXCEPT ![s] = soc]
      /\ ID_' = [ID_ EXCEPT ![s] = acceptor.sid]
      /\ UNCHANGED <<conn, key, recvs, sends, cq, worker>>
      /\ acceptor' = [acceptor EXCEPT !.pc = "assoc", !.slot = s]
  BY DEF Join, JoinSession, Initalize, netVars
<1>3. acceptor'.pc = "assoc" /\ acceptor'.slot = s /\ acceptor'.soc = soc
  BY <1>2 DEF ServerInv, TypeInv, TypeOK
<1> HIDE DEF s, soc
<1>4. /\ isRun_'[s] /\ Socket_'[s] = soc
      /\ \A t \in Slots : t # s => /\ isRun_'[t] = isRun_[t] /\ Socket_'[t] = Socket_[t]
                                   /\ ID_'[t] = ID_[t]
  BY <1>1, <1>2 DEF ServerInv, TypeInv, TypeOK, PoolTypeOK
<1>5. Unclaimed(s)
  BY <1>1, Claimed DEF Unclaimed, WorkersOK, QueueOK, RecvsOK
<1>6. RecvsOK'
  BY <1>2, <1>4, <1>5, Claimed DEF RecvsOK, Unclaimed
<1>7. KeysOK'
  <2>1. \A k \in Sockets : key[k] # NoKey => key[k] \in Slots
    BY Types DEF ServerInv
  <2> QED
    BY <1>1, <1>2, <1>4, <2>1, Claimed DEF KeysOK
<1>8. QueueOK'
  BY <1>2, <1>4, <1>5, Claimed DEF QueueOK, Unclaimed
<1>9. WorkersOK'
  BY <1>2, <1>4, <1>5, Claimed DEF WorkersOK, Unclaimed, Busy, Held
<1>10. AcceptorOK'
  BY <1>2, <1>3, <1>4, <1>5 DEF AcceptorOK, Unclaimed, Busy, Held
<1> QED
  BY <1>6, <1>7, <1>8, <1>9, <1>10

\* The disconnect of the session whose association failed.
LEMMA AcceptorDisconnectKeepsClaims ==
  ASSUME Program = "Server_Framework", ServerInv, ~wentOn, AcceptorDisconnects
  PROVE  RecvsOK' /\ KeysOK' /\ QueueOK' /\ WorkersOK' /\ AcceptorOK' /\ UNCHANGED fault
<1> DEFINE s == acceptor.slot
<1>1. /\ acceptor.pc = "disc" /\ Disconnect(ID_[s]) /\ UNCHANGED worker
      /\ acceptor' = [acceptor EXCEPT !.pc = "recv"]
  BY DEF AcceptorDisconnects, Associated
<1>2. s \in Slots /\ isRun_[s] /\ Socket_[s] = acceptor.soc /\ Unclaimed(s)
  BY <1>1, Claimed DEF AcceptorOK, ServerInv, TypeInv, LocalsOK
<1>3. acceptor'.pc = "recv" /\ acceptor'.soc = acceptor.soc
  BY <1>1 DEF ServerInv, TypeInv, TypeOK
<1> HIDE DEF s
<1>4. /\ UNCHANGED <<recvs, sends, cq, fault, ID_>>
      /\ RecvsOK' /\ KeysOK' /\ QueueOK'
      /\ \A t \in Slots : t # s => isRun_'[t] = isRun_[t] /\ Socket_'[t] = Socket_[t]
      /\ conn'[Socket_[s]] = "idle"
  BY <1>1, <1>2, DisconnectKeepsClaims DEF Unclaimed
<1>5. WorkersOK'
  BY <1>1, <1>2, <1>4, Claimed DEF WorkersOK, Unclaimed, Busy, Held
<1>6. AcceptorOK'
  BY <1>2, <1>3, <1>4 DEF AcceptorOK
<1> QED
  BY <1>4, <1>5, <1>6

\* Every step of the accept thread keeps the claims.
LEMMA AcceptThreadKeepsClaims ==
  ASSUME Program = "Server_Framework", ServerInv, ~wentOn, fault = "none", AcceptThread
  PROVE  Claims'
<1> USE DEF Claims
<1>1. CASE Accept \/ PoolFull
  <2>1. /\ acceptor'.pc \in {"accept", "join"}
        /\ UNCHANGED <<poolVars, key, recvs, cq, worker, fault>>
    BY <1>1 DEF Accept, Accepts, PoolFull, AcceptorIdle, AcceptorAt, netVars
  <2>2. AcceptorOK'
    BY <2>1 DEF AcceptorOK
  <2> QED
    BY <2>1, <2>2, AcceptorKeepsClaims
<1>2. CASE Join
  <2>1. UNCHANGED fault
    BY <1>2 DEF Join
  <2> QED
    BY <1>2, <2>1, JoinKeepsClaims
<1>3. CASE Associate
  <2> DEFINE s == acceptor.slot
             soc == acceptor.soc
  <2>1. /\ acceptor.pc = "assoc" /\ soc \in Sockets /\ s \in Slots
        /\ acceptor' = [acceptor EXCEPT !.pc = "recv"]
        /\ key' = [key EXCEPT ![soc] = s]
        /\ UNCHANGED <<poolVars, conn, recvs, sends, cq, worker, fault>>
    BY <1>3 DEF Associate, Binds, Associated, ServerInv, TypeInv, LocalsOK
  <2>2. acceptor'.pc = "recv" /\ acceptor'.slot = s /\ acceptor'.soc = soc
    BY <2>1 DEF ServerInv, TypeInv, TypeOK
  <2>3. isRun_[s] /\ Socket_[s] = soc /\ Unclaimed(s)
    BY <2>1, Claimed DEF AcceptorOK
  <2> HIDE DEF s, soc
  <2>4. RecvsOK' /\ QueueOK' /\ WorkersOK'
    BY <2>1, AcceptorKeepsClaims
  <2>5. AcceptorOK'
    BY <2>1, <2>2, <2>3 DEF AcceptorOK, poolVars, Unclaimed, Busy, Held
  <2>6. \A k \in Sockets : key'[k] = IF k = soc THEN s ELSE key[k]
    BY <2>1 DEF ServerInv, TypeInv, TypeOK, NetTypeOK
  <2>7. KeysOK'
    BY <2>1, <2>3, <2>6, Claimed DEF KeysOK, poolVars
  <2> QED
    BY <2>1, <2>4, <2>5, <2>7
<1>4. CASE AssociateFails \/ FirstRecvFails
  <2>1. UNCHANGED <<poolVars, conn, key, recvs, cq, worker, fault>>
    BY <1>4 DEF AssociateFails, FirstRecvFails, netVars
  <2>2. AcceptorOK'
    <3>1. CASE AssociateFails
      <4>1. PICK pc \in {"disc", "recv"} : acceptor' = [acceptor EXCEPT !.pc = pc]
        BY <3>1 DEF AssociateFails, Associated
      <4>2. acceptor'.slot = acceptor.slot /\ acceptor'.soc = acceptor.soc
        BY <4>1 DEF ServerInv, TypeInv, TypeOK
      <4>3. /\ isRun_[acceptor.slot] /\ Socket_[acceptor.slot] = acceptor.soc
            /\ Unclaimed(acceptor.slot)
        BY <3>1, Claimed DEF AssociateFails, AcceptorOK
      <4> QED
        BY <2>1, <4>2, <4>3 DEF AcceptorOK, poolVars, Unclaimed, Busy, Held
    <3>2. CASE FirstRecvFails
      BY <3>2 DEF FirstRecvFails, AcceptorOK, ServerInv, TypeInv, TypeOK
    <3> QED
      BY <1>4, <3>1, <3>2
  <2> QED
    BY <2>1, <2>2, AcceptorKeepsClaims
<1>5. CASE AcceptorDisconnects
  BY <1>5, AcceptorDisconnectKeepsClaims
<1>6. CASE FirstRecv
  <2> DEFINE s == acceptor.slot
  <2>1. /\ acceptor.pc = "recv" /\ PostsRecv(acceptor.soc, s) /\ s \in Slots
        /\ UNCHANGED <<poolVars, worker, fault>> /\ acceptor'.pc = "accept"
    BY <1>6 DEF FirstRecv, AcceptorIdle, AcceptorAt, ServerInv, TypeInv, LocalsOK
  <2>2. isRun_[s] /\ Socket_[s] = acceptor.soc /\ Unclaimed(s)
    BY <2>1, Claimed DEF AcceptorOK, PostsRecv, Usable
  <2> HIDE DEF s
  <2>3. /\ UNCHANGED cq /\ RecvsOK' /\ KeysOK' /\ QueueOK'
        /\ \A k \in Sockets : recvs'[k] # <<>> => recvs'[k][1] = s \/ recvs'[k] = recvs[k]
    BY <2>1, <2>2, PostKeepsClaims DEF Unclaimed
  <2>4. WorkersOK'
    <3>1. \A w \in Workers : Busy(w) => Held(w) # s
      BY <2>2 DEF Unclaimed
    <3>2. \A w \in Workers : Busy(w) =>
            \A k \in Sockets : recvs'[k] # <<>> => recvs'[k][1] # Held(w)
      BY <2>3, <3>1, Claimed DEF WorkersOK
    <3> QED
      BY <2>1, <2>3, <3>2, Claimed DEF WorkersOK, Busy, Held, poolVars
  <2>5. AcceptorOK'
    BY <2>1 DEF AcceptorOK
  <2> QED
    BY <2>1, <2>3, <2>4, <2>5
<1>7. ~Greet
  BY DEF Greet, ServerInv, ClaimInv, NoSends
<1> QED
  BY <1>1, <1>2, <1>3, <1>4, <1>5, <1>6, <1>7 DEF AcceptThread

\* GetQueuedCompletionStatus hands the claim of a packet to the worker.
LEMMA DequeueKeepsClaims ==
  ASSUME ServerInv, ~wentOn, NEW w \in Workers, Dequeue(w)
  PROVE  RecvsOK' /\ KeysOK' /\ QueueOK' /\ WorkersOK' /\ AcceptorOK'
<1> DEFINE s == cq[1].ov
<1>1. /\ ~Busy(w) /\ cq # <<>> /\ cq' = Tail(cq) /\ Len(cq) >= 1
      /\ worker' = [worker EXCEPT ![w] = WorkerAt("got", cq[1], 0, INVALID_SOCKET)]
      /\ UNCHANGED <<poolVars, conn, key, recvs, acceptor>>
  BY DEF Dequeue, Busy, ServerInv, TypeInv, TypeOK, NetTypeOK
<1>2. /\ 1 \in DOMAIN cq /\ isRun_[s] /\ cq[1].key = s
      /\ \A j \in DOMAIN cq : cq[j].ov = s => j = 1
      /\ \A k \in Sockets : recvs[k] # <<>> => recvs[k][1] # s
  BY <1>1, Claimed DEF QueueOK, ServerInv, TypeInv, TypeOK, NetTypeOK
<1>3. \A i \in DOMAIN cq' : i + 1 \in DOMAIN cq /\ cq'[i] = cq[i + 1] /\ i \in Nat /\ i >= 1
  BY <1>1 DEF ServerInv, TypeInv, TypeOK, NetTypeOK
<1>4. /\ worker'[w].pc = "got" /\ worker'[w].pkt = cq[1]
      /\ \A v \in Workers : v # w => worker'[v] = worker[v]
  BY <1>1 DEF WorkerAt, ServerInv, TypeInv, TypeOK
<1>5. \A v \in Workers : Busy(v) => Held(v) # s
  BY <1>2, Claimed DEF WorkersOK
<1> HIDE DEF s
<1>6. RecvsOK' /\ KeysOK'
  BY <1>1, Claimed DEF RecvsOK, KeysOK, poolVars
<1>7. \A i \in DOMAIN cq' : cq'[i].ov # s
  BY <1>2, <1>3
<1>8. QueueOK'
  <2> SUFFICES ASSUME NEW i \in DOMAIN cq'
               PROVE  /\ cq'[i].key = cq'[i].ov /\ isRun_[cq'[i].ov]
                      /\ \A j \in DOMAIN cq' : cq'[j].ov = cq'[i].ov => i = j
                      /\ \A k \in Sockets : recvs[k] # <<>> => recvs[k][1] # cq'[i].ov
    BY <1>1 DEF QueueOK, poolVars
  <2>1. \A j \in DOMAIN cq' : cq'[j].ov = cq'[i].ov => i + 1 = j + 1
    BY <1>3, Claimed DEF QueueOK
  <2>2. \A j \in DOMAIN cq' : cq'[j].ov = cq'[i].ov => i = j
    BY <1>3, <2>1
  <2> QED
    BY <1>3, <2>2, Claimed DEF QueueOK
<1>9. WorkersOK'
  <2> SUFFICES ASSUME NEW v \in Workers
               PROVE  IF Busy(v)'
                      THEN /\ worker'[v].pkt.key = Held(v)' /\ isRun_[Held(v)']
                           /\ worker'[v].pc = "leave" => worker'[v].id = ID_[Held(v)']
                           /\ worker'[v].pc = "wsarecv" => worker'[v].soc = Socket_[Held(v)']
                           /\ \A u \in Workers : Busy(u)' /\ Held(u)' = Held(v)' => u = v
                           /\ \A i \in DOMAIN cq' : cq'[i].ov # Held(v)'
                           /\ \A k \in Sockets : recvs[k] # <<>> => recvs[k][1] # Held(v)'
                      ELSE worker'[v].pkt = NoPacket
    BY <1>1 DEF WorkersOK, poolVars
  <2>1. \A u \in Workers : u # w => (Busy(u)' <=> Busy(u)) /\ Held(u)' = Held(u)
    BY <1>4 DEF Busy, Held
  <2>2. Busy(w)' /\ Held(w)' = s
    BY <1>4 DEF Busy, Held, s
  <2>3. CASE v = w
    BY <1>2, <1>4, <1>5, <1>7, <2>1, <2>2, <2>3
  <2>4. CASE v # w
    BY <1>3, <1>4, <1>5, <2>1, <2>2, <2>4, Claimed DEF WorkersOK
  <2> QED
    BY <2>3, <2>4
<1>10. AcceptorOK'
  <2>1. ASSUME NEW t, Unclaimed(t) PROVE Unclaimed(t)'
    <3>1. s # t
      BY <1>2, <2>1 DEF Unclaimed, s
    <3>2. \A v \in Workers : Busy(v)' => Held(v)' # t
      BY <1>4, <2>1, <3>1 DEF Unclaimed, Busy, Held, s
    <3> QED
      BY <1>1, <1>3, <2>1, <3>2 DEF Unclaimed
  <2> QED
    BY <1>1, <2>1, Claimed DEF AcceptorOK, poolVars
<1> QED
  BY <1>6, <1>8, <1>9, <1>10

\* The disconnect after an error: the claim ends with the session.
LEMMA LeaveKeepsClaims ==
  ASSUME Program = "Server_Framework", ServerInv, ~wentOn, NEW w \in Workers, Leave(w), ~wentOn'
  PROVE  RecvsOK' /\ KeysOK' /\ QueueOK' /\ WorkersOK' /\ AcceptorOK' /\ UNCHANGED fault
<1> DEFINE s == Held(w)
<1>1. Busy(w) /\ worker[w].pc = "leave" /\ UNCHANGED acceptor
  BY DEF Leave, Busy
<1>2. /\ s \in Slots /\ isRun_[s] /\ worker[w].id = ID_[s]
      /\ \A i \in DOMAIN cq : cq[i].ov # s
      /\ \A k \in Sockets : recvs[k] # <<>> => recvs[k][1] # s
      /\ \A v \in Workers : Busy(v) /\ Held(v) = s => v = w
  BY <1>1, Claimed DEF WorkersOK
<1>3. Disconnect(ID_[s])
  BY <1>2 DEF Leave
<1> HIDE DEF s
<1>4. /\ UNCHANGED <<recvs, sends, cq, fault, ID_>>
      /\ RecvsOK' /\ KeysOK' /\ QueueOK'
      /\ \A t \in Slots : t # s => isRun_'[t] = isRun_[t] /\ Socket_'[t] = Socket_[t]
      /\ \A k \in Sockets : conn[k] = "idle" => conn'[k] = "idle"
  BY <1>2, <1>3, DisconnectKeepsClaims
<1>5. worker' = [worker EXCEPT ![w] = WorkerIdle]
  BY <1>4 DEF Leave, LoopsBack
<1>6. /\ \A v \in Workers : v # w => worker'[v] = worker[v]
      /\ worker'[w] = WorkerIdle
  BY <1>5 DEF ServerInv, TypeInv, TypeOK
<1>7. /\ ~Busy(w)' /\ worker'[w].pkt = NoPacket
      /\ \A v \in Workers : v # w => (Busy(v)' <=> Busy(v)) /\ Held(v)' = Held(v)
  BY <1>6 DEF Busy, Held, WorkerIdle, WorkerAt
<1>8. WorkersOK'
  <2> SUFFICES ASSUME NEW v \in Workers
               PROVE  IF Busy(v)'
                      THEN /\ worker'[v].pkt.key = Held(v)' /\ isRun_'[Held(v)']
                           /\ worker'[v].pc = "leave" => worker'[v].id = ID_[Held(v)']
                           /\ worker'[v].pc = "wsarecv" => worker'[v].soc = Socket_'[Held(v)']
                           /\ \A u \in Workers : Busy(u)' /\ Held(u)' = Held(v)' => u = v
                           /\ \A i \in DOMAIN cq : cq[i].ov # Held(v)'
                           /\ \A k \in Sockets : recvs[k] # <<>> => recvs[k][1] # Held(v)'
                      ELSE worker'[v].pkt = NoPacket
    BY <1>4 DEF WorkersOK
  <2>1. CASE v = w
    BY <1>7, <2>1
  <2>2. CASE v # w
    <3>1. Busy(v) => Held(v) # s /\ Held(v) \in Slots
      BY <1>2, <2>2, Claimed
    <3> QED
      BY <1>4, <1>6, <1>7, <2>2, <3>1, Claimed DEF WorkersOK
  <2> QED
    BY <2>1, <2>2
<1>9. AcceptorOK'
  <2>1. ASSUME NEW t, Unclaimed(t) PROVE Unclaimed(t)' /\ t # s
    <3>1. t # s
      BY <1>1, <2>1 DEF Unclaimed, s
    <3>2. \A v \in Workers : Busy(v)' => Held(v)' # t
      BY <1>7, <2>1 DEF Unclaimed
    <3> QED
      BY <1>4, <2>1, <3>1, <3>2 DEF Unclaimed
  <2>2. acceptor.pc \in {"assoc", "disc", "recv"}
          => acceptor.slot \in Slots /\ acceptor.soc \in Sockets
    BY DEF ServerInv, TypeInv, LocalsOK
  <2> QED
    BY <1>1, <1>4, <2>1, <2>2, Claimed DEF AcceptorOK
<1> QED
  BY <1>4, <1>8, <1>9

\* Every step of a worker keeps the claims.
LEMMA WorkerKeepsClaims ==
  ASSUME Program = "Server_Framework", ServerInv, ~wentOn, fault = "none",
         NEW w \in Workers, WorkerStep(w) \/ HandlePacket(w), ~wentOn'
  PROVE  Claims'
<1> USE DEF Claims
<1>1. CASE Dequeue(w)
  <2>1. UNCHANGED fault
    BY <1>1 DEF Dequeue
  <2> QED
    BY <1>1, <2>1, DequeueKeepsClaims
<1>2. CASE Leave(w)
  BY <1>2, LeaveKeepsClaims
<1>3. CASE HandlePacket(w)
  <2>1. fault' # "out_of_range" /\ UNCHANGED <<poolVars, conn, key, recvs, cq, acceptor, worker>>
    BY <1>3 DEF HandlePacket, netVars
  <2>2. AcceptorOK'
    BY <2>1, Claimed DEF AcceptorOK, Unclaimed, Busy, Held, poolVars
  <2> QED
    BY <2>1, <2>2, AcceptorKeepsClaims
<1>4. CASE ReadID(w) \/ RecvDone(w) \/ PacketsEnd(w) \/ ReadSocket(w) \/ NextRecvFails(w)
  <2>1. UNCHANGED <<poolVars, conn, key, recvs, cq, acceptor, fault>>
    BY <1>4 DEF ReadID, RecvDone, PacketsEnd, ReadSocket, NextRecvFails, netVars
  <2>2. \A v \in Workers : v # w => worker'[v] = worker[v]
    BY <1>4 DEF ReadID, RecvDone, PacketsEnd, ReadSocket, NextRecvFails, Goes,
                ServerInv, TypeInv, TypeOK
  <2>3. IF Busy(w)'
        THEN /\ Busy(w) /\ worker'[w].pkt = worker[w].pkt
             /\ worker'[w].pc = "leave" => worker'[w].id = ID_[Held(w)]
             /\ worker'[w].pc = "wsarecv" => worker'[w].soc = Socket_[Held(w)]
        ELSE worker'[w].pkt = NoPacket
    <3>1. CASE NextRecvFails(w)
      BY <3>1 DEF NextRecvFails, WorkerDead, WorkerAt, Busy, ServerInv, TypeInv, TypeOK
    <3>2. CASE ReadID(w)
      <4>1. worker[w].pc = "got"
            /\ worker' = [worker EXCEPT ![w] = [@ EXCEPT !.pc = "leave", !.id = ID_[Session(w)]]]
        BY <3>2 DEF ReadID
      <4>2. /\ worker'[w].pc = "leave" /\ worker'[w].id = ID_[Session(w)]
            /\ worker'[w].pkt = worker[w].pkt
        BY <4>1 DEF ServerInv, TypeInv, TypeOK
      <4>3. Busy(w)
        BY <4>1 DEF Busy
      <4> QED
        BY <4>2, <4>3, Claimed DEF Busy
    <3>3. CASE RecvDone(w) \/ PacketsEnd(w)
      BY <3>3 DEF RecvDone, PacketsEnd, Goes, Busy, ServerInv, TypeInv, TypeOK
    <3>4. CASE ReadSocket(w)
      <4>1. worker[w].pc = "post"
            /\ worker' = [worker EXCEPT ![w] =
                            [@ EXCEPT !.pc = "wsarecv", !.soc = Socket_[Session(w)]]]
        BY <3>4 DEF ReadSocket
      <4>2. /\ worker'[w].pc = "wsarecv" /\ worker'[w].soc = Socket_[Session(w)]
            /\ worker'[w].pkt = worker[w].pkt
        BY <4>1 DEF ServerInv, TypeInv, TypeOK
      <4>3. Busy(w)
        BY <4>1 DEF Busy
      <4> QED
        BY <4>2, <4>3, Claimed DEF Busy
    <3> QED
      BY <1>4, <3>1, <3>2, <3>3, <3>4
  <2> QED
    BY <2>1, <2>2, <2>3, WorkersKeepClaims
<1>5. CASE NextRecv(w)
  <2> DEFINE s == Held(w)
  <2>1. /\ Busy(w) /\ PostsRecv(worker[w].soc, Session(w)) /\ LoopsBack(w)
        /\ worker[w].pc = "wsarecv" /\ UNCHANGED <<poolVars, acceptor, fault>>
    BY <1>5 DEF NextRecv, Busy
  <2>2. /\ s \in Slots /\ Session(w) = s /\ isRun_[s] /\ worker[w].soc = Socket_[s]
        /\ \A i \in DOMAIN cq : cq[i].ov # s
        /\ \A k \in Sockets : recvs[k] # <<>> => recvs[k][1] # s
        /\ \A v \in Workers : Busy(v) /\ Held(v) = s => v = w
    BY <2>1, Claimed DEF WorkersOK
  <2>3. PostsRecv(Socket_[s], s)
    BY <2>1, <2>2
  <2> HIDE DEF s
  <2>4. /\ UNCHANGED <<conn, cq>> /\ RecvsOK' /\ KeysOK' /\ QueueOK'
        /\ \A k \in Sockets : recvs'[k] # <<>> => recvs'[k][1] = s \/ recvs'[k] = recvs[k]
    BY <2>1, <2>2, <2>3, PostKeepsClaims
  <2>5. /\ \A v \in Workers : v # w => worker'[v] = worker[v]
        /\ worker'[w] = WorkerIdle
    BY <2>1 DEF LoopsBack, ServerInv, TypeInv, TypeOK
  <2>6. /\ ~Busy(w)' /\ worker'[w].pkt = NoPacket
        /\ \A v \in Workers : v # w => (Busy(v)' <=> Busy(v)) /\ Held(v)' = Held(v)
    BY <2>5 DEF Busy, Held, WorkerIdle, WorkerAt
  <2>7. WorkersOK'
    <3> SUFFICES ASSUME NEW v \in Workers
                 PROVE  IF Busy(v)'
                        THEN /\ worker'[v].pkt.key = Held(v)' /\ isRun_[Held(v)']
                             /\ worker'[v].pc = "leave" => worker'[v].id = ID_[Held(v)']
                             /\ worker'[v].pc = "wsarecv" => worker'[v].soc = Socket_[Held(v)']
                             /\ \A u \in Workers : Busy(u)' /\ Held(u)' = Held(v)' => u = v
                             /\ \A i \in DOMAIN cq : cq[i].ov # Held(v)'
                             /\ \A k \in Sockets : recvs'[k] # <<>> => recvs'[k][1] # Held(v)'
                        ELSE worker'[v].pkt = NoPacket
      BY <2>1, <2>4 DEF WorkersOK, poolVars
    <3>1. CASE v = w
      BY <2>6, <3>1
    <3>2. CASE v # w
      <4>1. Busy(v) => Held(v) # s
        BY <2>2, <3>2
      <4>2. Busy(v) => \A k \in Sockets : recvs'[k] # <<>> => recvs'[k][1] # Held(v)
        BY <2>4, <4>1, Claimed DEF WorkersOK
      <4> QED
        BY <2>5, <2>6, <3>2, <4>2, Claimed DEF WorkersOK
    <3> QED
      BY <3>1, <3>2
  <2>8. AcceptorOK'
    <3>1. ASSUME NEW t, Unclaimed(t) PROVE Unclaimed(t)'
      <4>1. t # s
        BY <2>1, <3>1 DEF Unclaimed, s
      <4>2. \A v \in Workers : Busy(v)' => Held(v)' # t
        BY <2>6, <3>1 DEF Unclaimed
      <4>3. \A k \in Sockets : recvs'[k] # <<>> => recvs'[k][1] # t
        BY <2>4, <3>1, <4>1 DEF Unclaimed
      <4> QED
        BY <2>4, <3>1, <4>2, <4>3 DEF Unclaimed
    <3> QED
      BY <2>1, <2>4, <3>1, Claimed DEF AcceptorOK, poolVars
  <2> QED
    BY <2>1, <2>4, <2>7, <2>8
<1>6. ~SendDone(w)
  BY DEF SendDone, ServerInv, ClaimInv, NoSends
<1> QED
  BY <1>1, <1>2, <1>3, <1>4, <1>5, <1>6 DEF WorkerStep

\* A sequence of at most one element.
LEMMA SingletonSeq ==
  ASSUME NEW S, NEW q \in Seq(S), q # <<>>, Len(q) <= 1
  PROVE  Head(q) = q[1] /\ Tail(q) = <<>>
<1>1. Len(q) = 1
  <2>1. Len(q) \in Nat \ {0}
    BY EmptySeq
  <2> QED
    BY <2>1
<1>2. Tail(q) \in Seq(S) /\ Len(Tail(q)) = 0
  BY <1>1
<1>3. Tail(q) = <<>>
  BY <1>2
<1> QED
  BY <1>3

\* The completion of a receive hands its claim to the packet.
LEMMA RecvCompletesKeepsClaims ==
  ASSUME ServerInv, ~wentOn, NEW k \in Sockets, RecvCompletes(k),
         UNCHANGED <<poolVars, worker, acceptor>>
  PROVE  RecvsOK' /\ KeysOK' /\ QueueOK' /\ WorkersOK' /\ AcceptorOK'
<1> USE DEF poolVars
<1> DEFINE s == recvs[k][1]
<1>1. recvs[k] # <<>> /\ s \in Slots /\ isRun_[s] /\ Socket_[s] = k
  BY Claimed DEF RecvsOK, RecvCompletes
<1>2. Head(recvs[k]) = s /\ Tail(recvs[k]) = <<>>
  <2>1. recvs[k] \in Seq(Keys) /\ Len(recvs[k]) <= 1
    BY Claimed DEF RecvsOK, ServerInv, TypeInv, TypeOK, NetTypeOK
  <2> QED
    BY <1>1, <2>1, SingletonSeq
<1> HIDE DEF s
<1>3. /\ \A j \in Sockets : recvs'[j] = IF j = k THEN <<>> ELSE recvs[j]
      /\ \E io : cq' = cq \o Queued(k, <<Packet(k, "RECV_", s, io)>>)
  BY <1>2 DEF RecvCompletes, ServerInv, TypeInv, TypeOK, NetTypeOK
<1>4. UNCHANGED <<conn, key>> /\ cq \in Seq(Packets)
  BY DEF RecvCompletes, ServerInv, TypeInv, TypeOK, NetTypeOK
<1>5. key[k] # NoKey => key[k] = s
  <2>1. key[k] # NoKey => key[k] \in Slots
    BY Types DEF ServerInv
  <2> QED
    BY <1>1, <2>1, Claimed DEF KeysOK
<1>6. /\ \A i \in DOMAIN cq : cq[i].ov # s
      /\ \A v \in Workers : Busy(v) => Held(v) # s
      /\ \A j \in Sockets : j # k /\ recvs[j] # <<>> => recvs[j][1] # s
  BY <1>1, Claimed DEF QueueOK, WorkersOK, RecvsOK, s
<1>7. \A i \in DOMAIN cq' : \/ i \in DOMAIN cq /\ cq'[i] = cq[i]
                            \/ i = Len(cq) + 1 /\ cq'[i].ov = s /\ cq'[i].key = s
  <2>0. PICK io : cq' = cq \o Queued(k, <<Packet(k, "RECV_", s, io)>>)
    BY <1>3
  <2>1. CASE key[k] = NoKey
    BY <1>4, <2>0, <2>1 DEF Queued
  <2>2. CASE key[k] # NoKey
    <3> DEFINE pkt == Packet(k, "RECV_", s, io)
    <3>1. pkt.ov = s /\ pkt.key = s
      BY <1>5, <2>2 DEF Packet
    <3>2. cq' = cq \o <<pkt>>
      BY <2>0, <2>2 DEF Queued
    <3> HIDE DEF pkt
    <3> QED
      BY <1>4, <3>1, <3>2
  <2> QED
    BY <2>1, <2>2
<1>8. \A j \in Sockets : recvs'[j] # <<>> => recvs'[j] = recvs[j] /\ recvs[j][1] # s
  BY <1>3, <1>6
<1>9. RecvsOK'
  <2>1. \A j \in Sockets : Len(recvs'[j]) <= 1
    BY <1>3, Claimed DEF RecvsOK
  <2> QED
    BY <1>8, <2>1, Claimed DEF RecvsOK
<1>10. KeysOK'
  BY <1>4, Claimed DEF KeysOK
<1>11. QueueOK'
  <2> SUFFICES ASSUME NEW i \in DOMAIN cq'
               PROVE  /\ cq'[i].key = cq'[i].ov /\ isRun_[cq'[i].ov]
                      /\ \A j \in DOMAIN cq' : cq'[j].ov = cq'[i].ov => i = j
                      /\ \A j \in Sockets : recvs'[j] # <<>> => recvs'[j][1] # cq'[i].ov
    BY DEF QueueOK
  <2>1. CASE i \in DOMAIN cq /\ cq'[i] = cq[i]
    BY <1>6, <1>7, <1>8, <2>1, Claimed DEF QueueOK
  <2>2. CASE i = Len(cq) + 1 /\ cq'[i].ov = s /\ cq'[i].key = s
    BY <1>1, <1>6, <1>7, <1>8, <2>2
  <2> QED
    BY <1>7, <2>1, <2>2
<1>12. WorkersOK'
  <2>1. \A v \in Workers : Busy(v) => \A i \in DOMAIN cq' : cq'[i].ov # Held(v)
    BY <1>6, <1>7, Claimed DEF WorkersOK
  <2>2. \A v \in Workers : Busy(v) =>
          \A j \in Sockets : recvs'[j] # <<>> => recvs'[j][1] # Held(v)
    BY <1>8, Claimed DEF WorkersOK
  <2> QED
    BY <2>1, <2>2, Claimed DEF WorkersOK, Busy, Held
<1>13. AcceptorOK'
  <2>1. ASSUME NEW t, Unclaimed(t) PROVE Unclaimed(t)'
    <3>1. t # s
      BY <1>1, <2>1 DEF Unclaimed, s
    <3>2. \A i \in DOMAIN cq' : cq'[i].ov # t
      BY <1>7, <2>1, <3>1 DEF Unclaimed
    <3>3. \A j \in Sockets : recvs'[j] # <<>> => recvs'[j][1] # t
      BY <1>8, <2>1 DEF Unclaimed
    <3> QED
      BY <2>1, <3>2, <3>3 DEF Unclaimed, Busy, Held
  <2> QED
    BY <1>4, <2>1, Claimed DEF AcceptorOK
<1> QED
  BY <1>9, <1>10, <1>11, <1>12, <1>13

\* Whatever the peers do keeps the claims.
LEMMA NetworkKeepsClaims ==
  ASSUME ServerInv, ~wentOn, fault = "none", NEW k \in Sockets, Network(k)
  PROVE  Claims'
<1> USE DEF Claims
<1>1. UNCHANGED <<poolVars, worker, acceptor, fault>>
  BY DEF Network, serverVars
<1>2. CASE RecvCompletes(k)
  BY <1>1, <1>2, RecvCompletesKeepsClaims
<1>3. CASE PeerCloses(k) \/ PeerResets(k)
  <2>1. UNCHANGED <<key, recvs, cq>>
    BY <1>3 DEF PeerCloses, PeerResets
  <2>2. \A j \in Sockets : conn[j] = "idle" => conn'[j] = "idle"
    BY <1>3 DEF PeerCloses, PeerResets, Usable, ServerInv, TypeInv, TypeOK, NetTypeOK
  <2>3. AcceptorOK'
    BY <1>1, <2>1, <2>2, Claimed
       DEF AcceptorOK, Unclaimed, Busy, Held, poolVars, ServerInv, TypeInv, LocalsOK
  <2> QED
    BY <1>1, <2>1, <2>3, AcceptorKeepsClaims
<1>4. ~SendCompletes(k)
  BY DEF SendCompletes, ServerInv, ClaimInv, NoSends
<1> QED
  BY <1>2, <1>3, <1>4 DEF Network

\* The claims are inductive.
LEMMA StepKeepsClaims ==
  ASSUME Program = "Server_Framework", ServerInv, [Next]_vars
  PROVE  ClaimInv'
<1>1. NoSends'
  BY StepKeepsNoSends
<1> SUFFICES ASSUME ~wentOn' PROVE Claims'
  BY <1>1 DEF ClaimInv
<1>2. CASE UNCHANGED vars
  BY <1>2 DEF vars, poolVars, netVars, serverVars, ServerInv, ClaimInv, Claims, RecvsOK, KeysOK,
              QueueOK, WorkersOK, AcceptorOK, Unclaimed, Busy, Held
<1>3. CASE Next
  <2>1. ~wentOn
    BY <1>3 DEF Next, AcceptThread, Accept, Join, PoolFull, Associate, AssociateFails,
                AcceptorDisconnects, Greet, FirstRecv, FirstRecvFails, WorkerStep, Dequeue, ReadID,
                Leave, SendDone, RecvDone, PacketsEnd, ReadSocket, NextRecv, NextRecvFails,
                HandlePacket, Network, serverVars
  <2> QED
    BY <1>3, <2>1, AcceptThreadKeepsClaims, WorkerKeepsClaims, NetworkKeepsClaims DEF Next
<1> QED
  BY <1>2, <1>3

\* The invariant of Server_Framework, while there are ids left.
LEMMA ServerInvariant ==
  ASSUME Program = "Server_Framework", MaxJoins <= IdSpace
  PROVE  Spec => []ServerInv
<1>1. Init => ServerInv
  <2>1. Init => HandleInv
    BY DEF Init, PoolInit, NetInit, AcceptorIdle, AcceptorAt,
           HandleInv, HandleOwnership, AcceptedUnowned
  <2> QED
    BY <2>1, InitTyped, InitUsing, InitClaims DEF ServerInv
<1>2. ServerInv /\ [Next]_vars => ServerInv'
  BY StepTyped, StepKeepsHandles, StepKeepsUsing, StepKeepsClaims DEF ServerInv
<1> QED
  BY <1>1, <1>2, PTL DEF Spec

\* Until a worker goes on after 0 bytes at most one operation, packet or worker
\* uses the receive buffer of a session, which nothing locks: the claim is
\* passed on from the accept thread to a receive, its packet and a worker.
THEOREM OneReceiver ==
  ASSUME Program = "Server_Framework", MaxJoins <= IdSpace
  PROVE  Spec => []SoleReceiver
<1>1. ASSUME ServerInv PROVE SoleReceiver
  <2> SUFFICES ASSUME ~wentOn, NEW s \in Slots, NEW a \in ReceiveClaims(s),
                      NEW b \in ReceiveClaims(s)
               PROVE  a = b
    BY DEF SoleReceiver
  <2>1. \A c \in ReceiveClaims(s) :
          \/ \E k \in Sockets : c = <<"receiving", k, 1>> /\ recvs[k] # <<>> /\ recvs[k][1] = s
          \/ \E i \in DOMAIN cq : c = <<"queued", i>> /\ cq[i].ov = s
          \/ \E w \in Workers : c = <<"worker", w>> /\ Busy(w) /\ Held(w) = s
    <3>1. \A k \in Sockets : \A i \in DOMAIN recvs[k] : i = 1 /\ recvs[k] # <<>>
      <4> SUFFICES ASSUME NEW k \in Sockets, NEW i \in DOMAIN recvs[k]
                   PROVE  i = 1 /\ recvs[k] # <<>>
        OBVIOUS
      <4>1. recvs[k] \in Seq(Keys) /\ Len(recvs[k]) <= 1
        BY <1>1, Claimed DEF RecvsOK, ServerInv, TypeInv, TypeOK, NetTypeOK
      <4> QED
        BY <4>1
    <3>2. \A w \in Workers : worker[w].pkt.io = "bytes" => Busy(w)
      BY <1>1, Claimed DEF WorkersOK, NoPacket
    <3> QED
      <4> SUFFICES ASSUME NEW c \in ReceiveClaims(s)
                   PROVE \/ \E k \in Sockets : /\ c = <<"receiving", k, 1>>
                                               /\ recvs[k] # <<>> /\ recvs[k][1] = s
                         \/ \E i \in DOMAIN cq : c = <<"queued", i>> /\ cq[i].ov = s
                         \/ \E w \in Workers : c = <<"worker", w>> /\ Busy(w) /\ Held(w) = s
        OBVIOUS
      <4> DEFINE At(k) == {<<"receiving", k, i>> : i \in {j \in DOMAIN recvs[k] : recvs[k][j] = s}}
                 Q == {<<"queued", i>> : i \in {j \in DOMAIN cq :
                         cq[j].type = "RECV_" /\ cq[j].ov = s /\ cq[j].io = "bytes"}}
                 W == {<<"worker", w>> : w \in {v \in Workers :
                         /\ worker[v].pkt.type = "RECV_"
                         /\ worker[v].pkt.ov = s
                         /\ worker[v].pkt.io = "bytes"}}
      <4>1. CASE \E k \in Sockets : c \in At(k)
        <5>1. PICK k \in Sockets : c \in At(k)
          BY <4>1
        <5>2. PICK i \in DOMAIN recvs[k] : recvs[k][i] = s /\ c = <<"receiving", k, i>>
          BY <5>1
        <5> QED
          BY <3>1, <5>2
      <4>2. CASE c \in Q
        BY <4>2
      <4>3. CASE c \in W
        BY <3>2, <4>3 DEF Held
      <4>4. ReceiveClaims(s) = (UNION {At(k) : k \in Sockets}) \cup Q \cup W
        BY Zenon DEF ReceiveClaims
      <4> HIDE DEF At, Q, W
      <4>5. c \in (UNION {At(k) : k \in Sockets}) \/ c \in Q \/ c \in W
        BY <4>4, Zenon
      <4>6. c \in (UNION {At(k) : k \in Sockets}) => \E k \in Sockets : c \in At(k)
        BY Zenon
      <4> QED
        BY <4>1, <4>2, <4>3, <4>5, <4>6
  <2>2. \A j, k \in Sockets :
          recvs[j] # <<>> /\ recvs[j][1] = s /\ recvs[k] # <<>> /\ recvs[k][1] = s => j = k
    BY <1>1, Claimed DEF RecvsOK
  <2> QED
    BY <1>1, <2>1, <2>2, Claimed DEF QueueOK, WorkersOK
<1> QED
  BY <1>1, ServerInvariant, PTL

\* Until a worker goes on after 0 bytes Disconnect finds the id that it read:
\* the thread with the claim to a session is the only one that disconnects it.
THEOREM DisconnectedOnce ==
  ASSUME Program = "Server_Framework", MaxJoins <= IdSpace
  PROVE  Spec => []DisconnectsOnce
<1>1. ServerInv => DisconnectsOnce
  BY DEF ServerInv, ClaimInv, Claims, DisconnectsOnce
<1> QED
  BY <1>1, ServerInvariant, PTL

----------------------------------------------------------------------------
(* No send context is in two places, for both programs and any number of   *)
(* sessions, handles, workers and contexts: GetData gives out a context    *)
(* that nothing refers to, and then the reference is passed on, from the   *)
(* outstanding send to its packet and to the worker that returns it.       *)

\* The outstanding sends have different contexts.
SendsDiffer ==
  \A j, k \in Sockets : \A i \in DOMAIN sends[j], l \in DOMAIN sends[k] :
    sends[j][i] = sends[k][l] => j = k /\ i = l

\* So have the packets of sends, which have no outstanding one.
QueuedDiffer ==
  \A i \in DOMAIN cq : cq[i].type = "SEND_" =>
    /\ \A j \in DOMAIN cq : cq[j].type = "SEND_" /\ cq[j].ov = cq[i].ov => i = j
    /\ \A k \in Sockets : \A l \in DOMAIN sends[k] : sends[k][l] # cq[i].ov

\* So have the workers with such a packet.
WorkersDiffer ==
  \A w \in Workers : worker[w].pkt.type = "SEND_" =>
    /\ \A v \in Workers :
         worker[v].pkt.type = "SEND_" /\ worker[v].pkt.ov = worker[w].pkt.ov => v = w
    /\ \A i \in DOMAIN cq : cq[i].type = "SEND_" => cq[i].ov # worker[w].pkt.ov
    /\ \A k \in Sockets : \A l \in DOMAIN sends[k] : sends[k][l] # worker[w].pkt.ov

\* All of them are marked IsUse_.
Marked ==
  /\ \A k \in Sockets : \A l \in DOMAIN sends[k] : sends[k][l] \in inUse
  /\ \A i \in DOMAIN cq : cq[i].type = "SEND_" => cq[i].ov \in inUse
  /\ \A w \in Workers : worker[w].pkt.type = "SEND_" => worker[w].pkt.ov \in inUse

SendInv == SendsDiffer /\ QueuedDiffer /\ WorkersDiffer /\ Marked

\* The first d sends of handle k complete or are aborted: their packets, if
\* there are any, follow those of r receives in the port.  A worker may drop
\* what it has.
LEMMA CompletionKeepsContexts ==
  ASSUME SendInv, TypeInv, UNCHANGED inUse,
         NEW k \in Sockets, NEW d \in Nat, NEW r \in Nat,
         \A j \in Sockets : j # k => sends'[j] = sends[j],
         \A i \in DOMAIN sends'[k] :
           i \in Nat /\ i >= 1 /\ i + d \in DOMAIN sends[k] /\ sends'[k][i] = sends[k][i + d],
         \A i \in DOMAIN cq' :
           \/ i \in DOMAIN cq /\ cq'[i] = cq[i]
           \/ /\ i \in Nat
              /\ cq'[i].type = "SEND_" =>
                   /\ i - Len(cq) - r \in 1 .. d /\ i - Len(cq) - r \in DOMAIN sends[k]
                   /\ cq'[i].ov = sends[k][i - Len(cq) - r],
         \A w \in Workers : worker'[w].pkt = worker[w].pkt \/ worker'[w].pkt = NoPacket
  PROVE  SendInv'
<1> USE DEF SendInv
<1>0. Len(cq) \in Nat
  BY DEF TypeInv, TypeOK, NetTypeOK
<1> DEFINE Place(i) == i - Len(cq) - r
           Old(i) == i \in DOMAIN cq /\ cq'[i] = cq[i]
           Moved(i) == /\ i \in Nat /\ Place(i) \in 1 .. d /\ Place(i) \in DOMAIN sends[k]
                       /\ cq'[i].ov = sends[k][Place(i)]
<1>1. \A i \in DOMAIN cq' : cq'[i].type = "SEND_" => Old(i) \/ Moved(i)
  OBVIOUS
<1>2. \A j \in Sockets : \A i \in DOMAIN sends'[j] :
        \/ j # k /\ i \in DOMAIN sends[j] /\ sends'[j][i] = sends[j][i]
        \/ j = k /\ i \in Nat /\ i + d \in DOMAIN sends[k] /\ i >= 1
           /\ sends'[j][i] = sends[k][i + d]
  OBVIOUS
<1>3. \A w \in Workers : worker'[w].pkt.type = "SEND_" => worker'[w].pkt = worker[w].pkt
  BY DEF NoPacket
<1>4. SendsDiffer'
  <2> SUFFICES ASSUME NEW j \in Sockets, NEW h \in Sockets,
                      NEW i \in DOMAIN sends'[j], NEW l \in DOMAIN sends'[h],
                      sends'[j][i] = sends'[h][l]
               PROVE  j = h /\ i = l
    BY DEF SendsDiffer
  <2>1. CASE j = k /\ h = k
    <3>1. i + d = l + d /\ i \in Nat /\ l \in Nat
      BY <1>2, <2>1 DEF SendsDiffer
    <3> QED
      BY <2>1, <3>1
  <2>2. CASE j # k \/ h # k
    BY <1>2, <2>2 DEF SendsDiffer
  <2> QED
    BY <2>1, <2>2
<1>5. QueuedDiffer'
  <2> SUFFICES ASSUME NEW i \in DOMAIN cq', cq'[i].type = "SEND_"
               PROVE  /\ \A j \in DOMAIN cq' :
                           cq'[j].type = "SEND_" /\ cq'[j].ov = cq'[i].ov => i = j
                      /\ \A h \in Sockets : \A l \in DOMAIN sends'[h] : sends'[h][l] # cq'[i].ov
    BY DEF QueuedDiffer
  <2>1. ASSUME NEW j \in DOMAIN cq', cq'[j].type = "SEND_", cq'[j].ov = cq'[i].ov
        PROVE  i = j
    <3>1. CASE Old(i) /\ Old(j)
      BY <2>1, <3>1 DEF QueuedDiffer
    <3>2. CASE Moved(i) /\ Moved(j)
      <4>1. Place(i) = Place(j)
        BY <2>1, <3>2 DEF SendsDiffer
      <4> QED
        BY <1>0, <3>2, <4>1
    <3>3. ~(Old(i) /\ Moved(j)) /\ ~(Moved(i) /\ Old(j))
      BY <2>1 DEF QueuedDiffer
    <3> QED
      BY <1>1, <2>1, <3>1, <3>2, <3>3
  <2>2. ASSUME NEW h \in Sockets, NEW l \in DOMAIN sends'[h] PROVE sends'[h][l] # cq'[i].ov
    <3>1. CASE Old(i)
      BY <1>2, <3>1 DEF QueuedDiffer
    <3>2. CASE Moved(i)
      <4>1. CASE h = k
        <5>1. l + d # Place(i)
          BY <1>0, <1>2, <3>2, <4>1
        <5> QED
          BY <1>2, <3>2, <4>1, <5>1 DEF SendsDiffer
      <4>2. CASE h # k
        BY <1>2, <3>2, <4>2 DEF SendsDiffer
      <4> QED
        BY <4>1, <4>2
    <3> QED
      BY <1>1, <3>1, <3>2
  <2> QED
    BY <2>1, <2>2
<1>6. WorkersDiffer'
  <2> SUFFICES ASSUME NEW w \in Workers, worker'[w].pkt.type = "SEND_"
               PROVE  /\ \A v \in Workers :
                           worker'[v].pkt.type = "SEND_" /\ worker'[v].pkt.ov = worker'[w].pkt.ov
                             => v = w
                      /\ \A i \in DOMAIN cq' :
                           cq'[i].type = "SEND_" => cq'[i].ov # worker'[w].pkt.ov
                      /\ \A h \in Sockets : \A l \in DOMAIN sends'[h] :
                           sends'[h][l] # worker'[w].pkt.ov
    BY DEF WorkersDiffer
  <2>1. worker'[w].pkt = worker[w].pkt
    BY <1>3
  <2>2. \A v \in Workers :
          worker'[v].pkt.type = "SEND_" /\ worker'[v].pkt.ov = worker'[w].pkt.ov => v = w
    BY <1>3, <2>1 DEF WorkersDiffer
  <2>3. \A h \in Sockets : \A l \in DOMAIN sends'[h] : sends'[h][l] # worker'[w].pkt.ov
    BY <1>2, <2>1 DEF WorkersDiffer
  <2>4. \A i \in DOMAIN cq' : cq'[i].type = "SEND_" => cq'[i].ov # worker'[w].pkt.ov
    BY <1>1, <2>1 DEF WorkersDiffer
  <2> QED
    BY <2>2, <2>3, <2>4
<1>7. Marked'
  <2>1. \A h \in Sockets : \A l \in DOMAIN sends'[h] : sends'[h][l] \in inUse
    BY <1>2 DEF Marked
  <2>2. \A i \in DOMAIN cq' : cq'[i].type = "SEND_" => cq'[i].ov \in inUse
    BY <1>1 DEF Marked
  <2> QED
    BY <1>3, <2>1, <2>2 DEF Marked
<1> QED
  BY <1>4, <1>5, <1>6, <1>7

\* A step that moves nothing.
LEMMA NothingMoves ==
  ASSUME SendInv, TypeInv, UNCHANGED <<inUse, sends, cq>>,
         \A w \in Workers : worker'[w].pkt = worker[w].pkt \/ worker'[w].pkt = NoPacket
  PROVE  SendInv'
BY DEF SendInv, SendsDiffer, QueuedDiffer, WorkersDiffer, Marked, NoPacket

\* closesocket turns the outstanding sends of the handle into packets, or
\* forgets them.
LEMMA CloseKeepsContexts ==
  ASSUME SendInv, TypeInv, UNCHANGED inUse, NEW k, CloseSocket(k),
         \A w \in Workers : worker'[w].pkt = worker[w].pkt \/ worker'[w].pkt = NoPacket
  PROVE  SendInv'
<1>1. CASE ~Open(k)
  BY <1>1, NothingMoves DEF CloseSocket, netVars
<1>2. CASE Open(k)
  <2> DEFINE d == Len(sends[k])
             r == Len(recvs[k])
             R == [i \in 1 .. r |-> Packet(k, "RECV_", recvs[k][i], "error")]
             S == [i \in 1 .. d |-> Packet(k, "SEND_", sends[k][i], "error")]
  <2>1. /\ k \in Sockets /\ d \in Nat /\ r \in Nat /\ DOMAIN sends[k] = 1 .. d
        /\ cq \in Seq(Packets)
    BY <1>2 DEF Open, TypeInv, TypeOK, NetTypeOK
  <2>2. /\ \A j \in Sockets : j # k => sends'[j] = sends[j]
        /\ DOMAIN sends'[k] = {}
    BY <1>2, <2>1 DEF CloseSocket, TypeInv, TypeOK, NetTypeOK
  <2>3. ASSUME NEW i \in DOMAIN cq'
        PROVE  \/ i \in DOMAIN cq /\ cq'[i] = cq[i]
               \/ /\ i \in Nat
                  /\ cq'[i].type = "SEND_" =>
                       /\ i - Len(cq) - r \in 1 .. d /\ i - Len(cq) - r \in DOMAIN sends[k]
                       /\ cq'[i].ov = sends[k][i - Len(cq) - r]
    <3>1. CASE key[k] = NoKey
      <4>1. cq' = cq \o <<>>
        BY <1>2, <3>1 DEF CloseSocket, Queued
      <4> QED
        BY <2>1, <4>1
    <3>2. CASE key[k] # NoKey
      <4>1. key[k] \in Keys /\ recvs[k] \in Seq(Keys) /\ sends[k] \in Seq(Contexts)
        BY <2>1, <3>2 DEF TypeInv, TypeOK, NetTypeOK
      <4>2. R \in Seq(Packets) /\ Len(R) = r
        <5>1. \A j \in 1 .. r : Packet(k, "RECV_", recvs[k][j], "error") \in Packets
          BY <4>1 DEF Packet, Packets, RecvPacket
        <5> QED
          BY <2>1, <5>1
      <4>3. S \in Seq(Packets) /\ Len(S) = d
        <5>1. \A j \in 1 .. d : Packet(k, "SEND_", sends[k][j], "error") \in Packets
          BY <4>1 DEF Packet, Packets, SendPacket
        <5> QED
          BY <2>1, <5>1
      <4>4. /\ \A j \in 1 .. r : R[j].type = "RECV_"
            /\ \A j \in 1 .. d : S[j].ov = sends[k][j]
        BY DEF Packet
      <4> DEFINE P == R \o S
      <4>5. cq' = cq \o P
        BY <1>2, <3>2 DEF CloseSocket, Queued, Aborted
      <4> HIDE DEF R, S, r, d
      <4>6. /\ P \in Seq(Packets) /\ Len(P) = r + d
            /\ \A j \in 1 .. r + d : P[j] = IF j <= r THEN R[j] ELSE S[j - r]
        BY <4>2, <4>3, ConcatProperties
      <4> HIDE DEF P
      <4>7. /\ cq' \in Seq(Packets) /\ Len(cq') = Len(cq) + Len(P)
            /\ \A j \in 1 .. Len(cq) + Len(P) : cq'[j] = IF j <= Len(cq) THEN cq[j]
                                                          ELSE P[j - Len(cq)]
        BY <2>1, <4>5, <4>6, ConcatProperties
      <4>8. /\ Len(cq) \in Nat /\ DOMAIN cq = 1 .. Len(cq) /\ i \in 1 .. Len(cq) + Len(P)
        BY <2>1, <4>7
      <4>9. CASE i <= Len(cq)
        BY <2>1, <4>7, <4>8, <4>9
      <4>10. CASE i > Len(cq)
        <5> DEFINE m == i - Len(cq)
        <5>1. i \in Nat /\ m \in 1 .. r + d /\ cq'[i] = P[m]
          BY <2>1, <4>6, <4>7, <4>8, <4>10
        <5> HIDE DEF m
        <5>2. CASE m <= r
          BY <2>1, <4>4, <4>6, <5>1, <5>2
        <5>3. CASE m > r
          <6>1. m - r \in 1 .. d /\ cq'[i] = S[m - r]
            BY <2>1, <4>6, <5>1, <5>3
          <6> QED
            BY <2>1, <4>4, <5>1, <6>1 DEF m
        <5> QED
          BY <2>1, <5>1, <5>2, <5>3
      <4> QED
        BY <2>1, <4>7, <4>8, <4>9, <4>10
    <3> QED
      BY <3>1, <3>2
  <2> HIDE DEF d, r
  <2> QED
    BY <2>1, <2>2, <2>3, CompletionKeepsContexts
<1> QED
  BY <1>1, <1>2

\* Disconnect closes a handle or changes nothing.
LEMMA DisconnectKeepsContexts ==
  ASSUME SendInv, TypeInv, UNCHANGED inUse, NEW id, Disconnect(id),
         \A w \in Workers : worker'[w].pkt = worker[w].pkt \/ worker'[w].pkt = NoPacket
  PROVE  SendInv'
<1>1. CASE UNCHANGED <<poolVars, netVars>>
  BY <1>1, NothingMoves DEF netVars
<1>2. CASE LeaveSession(id)
  BY <1>2, CloseKeepsContexts DEF LeaveSession, Clear
<1> QED
  BY <1>1, <1>2 DEF Disconnect

\* A completion of the oldest send, or of a receive.
LEMMA NetworkKeepsContexts ==
  ASSUME SendInv, TypeInv, NEW k \in Sockets, Network(k)
  PROVE  SendInv'
<1>1. UNCHANGED <<inUse, worker>>
  BY DEF Network, serverVars
<1>2. CASE PeerCloses(k) \/ PeerResets(k)
  BY <1>1, <1>2, NothingMoves DEF PeerCloses, PeerResets
<1>3. ASSUME NEW p, cq' = cq \o Queued(k, <<p>>),
             \/ p.type = "RECV_" /\ sends' = sends
             \/ /\ sends' = [sends EXCEPT ![k] = Tail(@)]
                /\ sends[k] # <<>> /\ p.ov = Head(sends[k])
      PROVE  SendInv'
  <2>1. /\ sends \in [Sockets -> Seq(Contexts)] /\ sends[k] \in Seq(Contexts)
        /\ cq \in Seq(Packets) /\ Len(cq) \in Nat /\ DOMAIN cq = 1 .. Len(cq)
    BY DEF TypeInv, TypeOK, NetTypeOK
  <2>2. \A i \in DOMAIN cq' :
          \/ i \in DOMAIN cq /\ cq'[i] = cq[i]
          \/ i = Len(cq) + 1 /\ cq'[i] = p
    BY <1>3, <2>1 DEF Queued
  <2>3. CASE p.type = "RECV_" /\ sends' = sends
    <3>1. \A i \in DOMAIN sends'[k] :
            i \in Nat /\ i >= 1 /\ i + 0 \in DOMAIN sends[k] /\ sends'[k][i] = sends[k][i + 0]
      BY <2>1, <2>3
    <3>2. \A i \in DOMAIN cq' :
            \/ i \in DOMAIN cq /\ cq'[i] = cq[i]
            \/ i \in Nat /\ cq'[i].type # "SEND_"
      BY <2>1, <2>2, <2>3
    <3>3. 0 \in Nat
      OBVIOUS
    <3> QED
      BY <1>1, <2>3, <3>1, <3>2, <3>3, CompletionKeepsContexts
  <2>4. CASE /\ sends' = [sends EXCEPT ![k] = Tail(@)]
             /\ sends[k] # <<>> /\ p.ov = Head(sends[k])
    <3>1. \A i \in DOMAIN sends'[k] :
            i \in Nat /\ i >= 1 /\ i + 1 \in DOMAIN sends[k] /\ sends'[k][i] = sends[k][i + 1]
      BY <2>1, <2>4
    <3>2. 1 \in DOMAIN sends[k] /\ p.ov = sends[k][1]
      BY <2>1, <2>4, EmptySeq
    <3>3. \A i \in DOMAIN cq' :
            \/ i \in DOMAIN cq /\ cq'[i] = cq[i]
            \/ /\ i \in Nat /\ i - Len(cq) - 0 = 1
               /\ cq'[i].ov = sends[k][i - Len(cq) - 0]
      <4>1. (Len(cq) + 1) - Len(cq) - 0 = 1 /\ Len(cq) + 1 \in Nat
        BY <2>1
      <4> QED
        BY <2>2, <3>2, <4>1
    <3>4. \A i \in DOMAIN cq' :
            \/ i \in DOMAIN cq /\ cq'[i] = cq[i]
            \/ /\ i \in Nat
               /\ cq'[i].type = "SEND_" =>
                    /\ i - Len(cq) - 0 \in 1 .. 1 /\ i - Len(cq) - 0 \in DOMAIN sends[k]
                    /\ cq'[i].ov = sends[k][i - Len(cq) - 0]
      BY <3>2, <3>3
    <3>5. \A j \in Sockets : j # k => sends'[j] = sends[j]
      BY <2>1, <2>4
    <3>6. 0 \in Nat /\ 1 \in Nat
      OBVIOUS
    <3> QED
      BY <1>1, <3>1, <3>4, <3>5, <3>6, CompletionKeepsContexts
  <2> QED
    BY <1>3, <2>3, <2>4
<1>4. CASE RecvCompletes(k)
  <2>1. PICK io : /\ cq' = cq \o Queued(k, <<Packet(k, "RECV_", Head(recvs[k]), io)>>)
                  /\ sends' = sends
    BY <1>4 DEF RecvCompletes
  <2> DEFINE p == Packet(k, "RECV_", Head(recvs[k]), io)
  <2>2. p.type = "RECV_" /\ cq' = cq \o Queued(k, <<p>>)
    BY <2>1 DEF Packet
  <2> HIDE DEF p
  <2> QED
    BY <1>3, <2>1, <2>2
<1>5. CASE SendCompletes(k)
  <2>1. PICK io : /\ cq' = cq \o Queued(k, <<Packet(k, "SEND_", Head(sends[k]), io)>>)
                  /\ sends' = [sends EXCEPT ![k] = Tail(@)] /\ sends[k] # <<>>
    BY <1>5 DEF SendCompletes
  <2> DEFINE p == Packet(k, "SEND_", Head(sends[k]), io)
  <2>2. p.ov = Head(sends[k]) /\ cq' = cq \o Queued(k, <<p>>)
    BY <2>1 DEF Packet
  <2> HIDE DEF p
  <2> QED
    BY <1>3, <2>1, <2>2
<1> QED
  BY <1>2, <1>4, <1>5 DEF Network

\* Broadcasting takes contexts that are not in use, another for each session.
LEMMA BroadcastingKeepsContexts ==
  ASSUME SendInv, TypeInv, Broadcasting, UNCHANGED worker
  PROVE  SendInv'
<1> USE DEF SendInv
<1>1. CASE UNCHANGED <<netVars, inUse>>
  BY <1>1, NothingMoves DEF netVars
<1>2. ASSUME NEW context \in Allocations,
             inUse' = inUse \cup {context[id] : id \in Live},
             sends' = [k \in Sockets |->
                         IF Receivers(k) = {} THEN sends[k]
                         ELSE Append(sends[k], context[CHOOSE id \in Receivers(k) : TRUE])],
             UNCHANGED cq
      PROVE  SendInv'
  <2> DEFINE Id(k) == CHOOSE id \in Receivers(k) : TRUE
             New(k, l) == /\ l = Len(sends[k]) + 1 /\ Receivers(k) # {}
                          /\ sends'[k][l] = context[Id(k)]
             Old(k, l) == l \in DOMAIN sends[k] /\ sends'[k][l] = sends[k][l]
  <2>1. /\ \A id \in Live : context[id] \notin inUse /\ context[id] \in inUse'
        /\ \A a, b \in Live : context[a] = context[b] => a = b
        /\ \A c \in inUse : c \in inUse'
    BY <1>2 DEF Allocations, Injection, IsInjective, FreeContexts
  <2>2. \A k \in Sockets : Receivers(k) # {} =>
          Id(k) \in Live /\ Socket_[UsingSessions_[Id(k)]] = k
    BY DEF Receivers
  <2>3. \A k \in Sockets : \A l \in DOMAIN sends'[k] : Old(k, l) \/ New(k, l)
    <3> SUFFICES ASSUME NEW k \in Sockets, NEW l \in DOMAIN sends'[k]
                 PROVE  Old(k, l) \/ New(k, l)
      OBVIOUS
    <3>1. sends[k] \in Seq(Contexts)
      BY DEF TypeInv, TypeOK, NetTypeOK
    <3>2. CASE Receivers(k) = {}
      BY <1>2, <3>2
    <3>3. CASE Receivers(k) # {}
      <4> DEFINE c == context[Id(k)]
      <4>1. sends'[k] = Append(sends[k], c)
        BY <1>2, <3>3
      <4> HIDE DEF c
      <4>2. l \in 1 .. Len(sends[k]) + 1
        BY <3>1, <4>1
      <4>3. CASE l = Len(sends[k]) + 1
        BY <3>1, <3>3, <4>1, <4>3 DEF c
      <4>4. CASE l # Len(sends[k]) + 1
        BY <3>1, <4>1, <4>2, <4>4
      <4> QED
        BY <4>3, <4>4
    <3> QED
      BY <3>2, <3>3
  <2> HIDE DEF Id
  <2>4. SendsDiffer'
    <3> SUFFICES ASSUME NEW j \in Sockets, NEW k \in Sockets,
                        NEW i \in DOMAIN sends'[j], NEW l \in DOMAIN sends'[k],
                        sends'[j][i] = sends'[k][l]
                 PROVE  j = k /\ i = l
      BY DEF SendsDiffer
    <3>1. CASE Old(j, i) /\ Old(k, l)
      <4>1. /\ i \in DOMAIN sends[j] /\ l \in DOMAIN sends[k]
            /\ sends[j][i] = sends[k][l]
        BY <3>1
      <4> HIDE DEF Old, New
      <4> QED
        BY <4>1 DEF SendsDiffer
    <3>2. CASE New(j, i) /\ New(k, l)
      <4>1. context[Id(j)] = context[Id(k)]
        BY <3>2
      <4>2. Id(j) = Id(k)
        BY <2>1, <2>2, <3>2, <4>1
      <4>3. j = k
        BY <2>2, <3>2, <4>2
      <4> QED
        BY <3>2, <4>3
    <3>3. ~(Old(j, i) /\ New(k, l)) /\ ~(New(j, i) /\ Old(k, l))
      BY <2>1, <2>2 DEF Marked
    <3> QED
      BY <2>3, <3>1, <3>2, <3>3
  <2>5. QueuedDiffer'
    <3>1. \A i \in DOMAIN cq : cq[i].type = "SEND_" =>
            \A k \in Sockets : \A l \in DOMAIN sends'[k] : sends'[k][l] # cq[i].ov
      BY <2>1, <2>2, <2>3 DEF QueuedDiffer, Marked
    <3> QED
      BY <1>2, <3>1 DEF QueuedDiffer
  <2>6. WorkersDiffer'
    <3>1. \A w \in Workers : worker[w].pkt.type = "SEND_" =>
            \A k \in Sockets : \A l \in DOMAIN sends'[k] : sends'[k][l] # worker[w].pkt.ov
      BY <2>1, <2>2, <2>3 DEF WorkersDiffer, Marked
    <3> QED
      BY <1>2, <3>1 DEF WorkersDiffer
  <2>7. Marked'
    <3>1. \A k \in Sockets : \A l \in DOMAIN sends'[k] : sends'[k][l] \in inUse'
      BY <2>1, <2>2, <2>3 DEF Marked
    <3> QED
      BY <1>2, <2>1, <3>1 DEF Marked
  <2> QED
    BY <2>4, <2>5, <2>6, <2>7
<1> QED
  BY <1>1, <1>2 DEF Broadcasting

\* GetQueuedCompletionStatus hands the reference to the worker.
LEMMA DequeueKeepsContexts ==
  ASSUME SendInv, TypeInv, NEW w \in Workers, Dequeue(w)
  PROVE  SendInv'
<1> USE DEF SendInv
<1> DEFINE p == cq[1]
<1>1. /\ UNCHANGED <<sends, inUse>> /\ 1 \in DOMAIN cq
      /\ \A i \in DOMAIN cq' :
           i + 1 \in DOMAIN cq /\ cq'[i] = cq[i + 1] /\ i \in Nat /\ i >= 1
  BY DEF Dequeue, TypeInv, TypeOK, NetTypeOK
<1>2. /\ worker'[w].pkt = p
      /\ \A v \in Workers : v # w => worker'[v].pkt = worker[v].pkt
  BY DEF Dequeue, WorkerAt, TypeInv, TypeOK, NetTypeOK
<1> HIDE DEF p
<1>3. \A i \in DOMAIN cq' : cq'[i].type = "SEND_" /\ p.type = "SEND_" => cq'[i].ov # p.ov
  BY <1>1 DEF QueuedDiffer, p
<1>4. SendsDiffer'
  BY <1>1 DEF SendsDiffer
<1>5. QueuedDiffer'
  <2>1. \A i, j \in DOMAIN cq' :
          /\ cq'[i].type = "SEND_" /\ cq'[j].type = "SEND_" /\ cq'[j].ov = cq'[i].ov
          => i + 1 = j + 1
    BY <1>1 DEF QueuedDiffer
  <2>2. \A i, j \in DOMAIN cq' : i + 1 = j + 1 => i = j
    BY <1>1
  <2> QED
    BY <1>1, <2>1, <2>2 DEF QueuedDiffer
<1>6. WorkersDiffer'
  <2> SUFFICES ASSUME NEW v \in Workers, worker'[v].pkt.type = "SEND_"
               PROVE  /\ \A u \in Workers :
                           worker'[u].pkt.type = "SEND_" /\ worker'[u].pkt.ov = worker'[v].pkt.ov
                             => u = v
                      /\ \A i \in DOMAIN cq' :
                           cq'[i].type = "SEND_" => cq'[i].ov # worker'[v].pkt.ov
                      /\ \A k \in Sockets : \A l \in DOMAIN sends'[k] :
                           sends'[k][l] # worker'[v].pkt.ov
    BY DEF WorkersDiffer
  <2>1. \A u \in Workers : worker[u].pkt.type = "SEND_" /\ p.type = "SEND_"
                             => worker[u].pkt.ov # p.ov
    BY <1>1 DEF WorkersDiffer, p
  <2>2. CASE v = w
    <3>1. \A k \in Sockets : \A l \in DOMAIN sends[k] : sends[k][l] # p.ov
      BY <1>1, <1>2, <2>2 DEF QueuedDiffer, p
    <3> QED
      BY <1>1, <1>2, <1>3, <2>1, <2>2, <3>1
  <2>3. CASE v # w
    <3>1. worker'[v].pkt = worker[v].pkt
      BY <1>2, <2>3
    <3>2. \A u \in Workers :
            worker'[u].pkt.type = "SEND_" /\ worker'[u].pkt.ov = worker[v].pkt.ov => u = v
      BY <1>2, <2>1, <3>1 DEF WorkersDiffer
    <3>3. \A i \in DOMAIN cq' : cq'[i].type = "SEND_" => cq'[i].ov # worker[v].pkt.ov
      BY <1>1, <3>1 DEF WorkersDiffer
    <3> QED
      BY <1>1, <3>1, <3>2, <3>3 DEF WorkersDiffer
  <2> QED
    BY <2>2, <2>3
<1>7. Marked'
  BY <1>1, <1>2 DEF Marked, p
<1> QED
  BY <1>4, <1>5, <1>6, <1>7

\* ReturnData: the worker has the only reference, and drops it.
LEMMA ReturnKeepsContexts ==
  ASSUME SendInv, TypeInv, NEW w \in Workers, SendDone(w)
  PROVE  SendInv'
<1> USE DEF SendInv
<1> DEFINE c == worker[w].pkt.ov
<1>1. /\ worker[w].pkt.type = "SEND_" /\ inUse' = inUse \ {c} /\ UNCHANGED <<sends, cq>>
      /\ worker' = [worker EXCEPT ![w] = WorkerIdle]
  BY DEF SendDone, ReturnData, LoopsBack, netVars
<1>2. /\ worker'[w].pkt.type = "RECV_"
      /\ \A v \in Workers : v # w => worker'[v].pkt = worker[v].pkt
  BY <1>1 DEF WorkerIdle, WorkerAt, NoPacket, TypeInv, TypeOK
<1> HIDE DEF c
<1>3. /\ \A v \in Workers : v # w /\ worker[v].pkt.type = "SEND_" => worker[v].pkt.ov # c
      /\ \A i \in DOMAIN cq : cq[i].type = "SEND_" => cq[i].ov # c
      /\ \A k \in Sockets : \A l \in DOMAIN sends[k] : sends[k][l] # c
  BY <1>1 DEF WorkersDiffer, c
<1>4. SendsDiffer' /\ QueuedDiffer'
  BY <1>1 DEF SendsDiffer, QueuedDiffer
<1>5. WorkersDiffer'
  BY <1>1, <1>2 DEF WorkersDiffer
<1>6. Marked'
  BY <1>1, <1>2, <1>3 DEF Marked
<1> QED
  BY <1>4, <1>5, <1>6

\* Every step keeps the references apart.
LEMMA StepKeepsContexts ==
  ASSUME SendInv, TypeInv, [Next]_vars
  PROVE  SendInv'
<1>1. CASE UNCHANGED vars
  BY <1>1, NothingMoves DEF vars, netVars, serverVars
<1>2. CASE AcceptThread
  <2>1. UNCHANGED worker
    BY <1>2 DEF AcceptThread, Accept, Join, PoolFull, Associate, AssociateFails,
                AcceptorDisconnects, Greet, FirstRecv, FirstRecvFails
  <2>2. CASE AcceptorDisconnects
    BY <2>1, <2>2, DisconnectKeepsContexts DEF AcceptorDisconnects
  <2>3. CASE Greet
    BY <2>1, <2>3, BroadcastingKeepsContexts DEF Greet
  <2>4. CASE ~AcceptorDisconnects /\ ~Greet
    <3>1. UNCHANGED <<inUse, sends, cq>>
      BY <1>2, <2>4
         DEF AcceptThread, Accept, Accepts, Join, PoolFull, Associate, Binds, AssociateFails,
             FirstRecv, PostsRecv, FirstRecvFails, netVars
    <3> QED
      BY <2>1, <3>1, NothingMoves
  <2> QED
    BY <2>2, <2>3, <2>4
<1>3. ASSUME NEW w \in Workers, WorkerStep(w) \/ HandlePacket(w) PROVE SendInv'
  <2>1. CASE Dequeue(w)
    BY <2>1, DequeueKeepsContexts
  <2>2. CASE SendDone(w)
    BY <2>2, ReturnKeepsContexts
  <2>3. CASE HandlePacket(w)
    <3>1. CASE Broadcasting /\ UNCHANGED worker
      BY <3>1, BroadcastingKeepsContexts
    <3>2. CASE UNCHANGED <<netVars, inUse, worker>>
      BY <3>2, NothingMoves DEF netVars
    <3> QED
      BY <2>3, <3>1, <3>2 DEF HandlePacket
  <2>4. CASE ~Dequeue(w) /\ ~SendDone(w) /\ ~HandlePacket(w)
    <3>1. \A v \in Workers : worker'[v].pkt = worker[v].pkt \/ worker'[v].pkt = NoPacket
      BY <1>3, <2>4 DEF WorkerStep, ReadID, Leave, RecvDone, PacketsEnd, ReadSocket, NextRecv,
                        NextRecvFails, Goes, LoopsBack, WorkerIdle, WorkerDead, WorkerAt,
                        TypeInv, TypeOK
    <3>2. CASE Leave(w)
      BY <3>1, <3>2, DisconnectKeepsContexts DEF Leave
    <3>3. CASE ~Leave(w)
      <4>1. UNCHANGED <<inUse, sends, cq>>
        BY <1>3, <2>4, <3>3 DEF WorkerStep, ReadID, RecvDone, PacketsEnd, ReadSocket, NextRecv,
                                PostsRecv, NextRecvFails, netVars
      <4> QED
        BY <3>1, <4>1, NothingMoves
    <3> QED
      BY <3>2, <3>3
  <2> QED
    BY <1>3, <2>1, <2>2, <2>3, <2>4
<1>4. ASSUME NEW k \in Sockets, Network(k) PROVE SendInv'
  BY <1>4, NetworkKeepsContexts
<1> QED
  BY <1>1, <1>2, <1>3, <1>4 DEF Next

\* An overlapped structure of pSendIOContextList_ that is in flight is marked
\* IsUse_ and referred to once, whichever worker returns it and whenever.
THEOREM ContextsExclusive == Spec => []SendContextsExclusive
<1>1. Init => SendInv
  BY DEF Init, NetInit, WorkerIdle, WorkerAt, NoPacket,
         SendInv, SendsDiffer, QueuedDiffer, WorkersDiffer, Marked
<1>2. ASSUME SendInv PROVE SendContextsExclusive
  <2> USE <1>2 DEF SendInv
  <2> SUFFICES ASSUME NEW c \in Contexts
               PROVE  /\ References(c) # {} => c \in inUse
                      /\ \A a, b \in References(c) : a = b
    BY DEF SendContextsExclusive
  <2> DEFINE At(k) == {<<"sending", k, i>> : i \in {j \in DOMAIN sends[k] : sends[k][j] = c}}
             Q == {<<"queued", i>> : i \in {j \in DOMAIN cq :
                     cq[j].type = "SEND_" /\ cq[j].ov = c}}
             W == {<<"worker", w>> : w \in {v \in Workers :
                     /\ worker[v].pkt.type = "SEND_"
                     /\ worker[v].pkt.ov = c}}
             Sending(a) == \E k \in Sockets : \E i \in DOMAIN sends[k] :
                             sends[k][i] = c /\ a = <<"sending", k, i>>
             Queueing(a) == \E i \in DOMAIN cq : /\ cq[i].type = "SEND_" /\ cq[i].ov = c
                                                 /\ a = <<"queued", i>>
             Working(a) == \E w \in Workers : /\ worker[w].pkt.type = "SEND_"
                                              /\ worker[w].pkt.ov = c /\ a = <<"worker", w>>
  <2>1. ASSUME NEW a \in References(c) PROVE Sending(a) \/ Queueing(a) \/ Working(a)
    <3>1. References(c) = (UNION {At(k) : k \in Sockets}) \cup Q \cup W
      BY Zenon DEF References
    <3>2. CASE \E k \in Sockets : a \in At(k)
      BY <3>2
    <3>3. CASE a \in Q
      BY <3>3
    <3>4. CASE a \in W
      BY <3>4
    <3> HIDE DEF At, Q, W, Sending, Queueing, Working
    <3>5. a \in (UNION {At(k) : k \in Sockets}) \/ a \in Q \/ a \in W
      BY <3>1, Zenon
    <3>6. a \in (UNION {At(k) : k \in Sockets}) => \E k \in Sockets : a \in At(k)
      BY Zenon
    <3> QED
      BY <3>2, <3>3, <3>4, <3>5, <3>6
  <2>2. ASSUME NEW a \in References(c) PROVE c \in inUse
    BY <2>1, <2>2 DEF Marked
  <2>3. ASSUME NEW a \in References(c), NEW b \in References(c) PROVE a = b
    <3>1. CASE Sending(a) /\ Sending(b)
      BY <3>1 DEF SendsDiffer
    <3>2. CASE Queueing(a) /\ Queueing(b)
      BY <3>2 DEF QueuedDiffer
    <3>3. CASE Working(a) /\ Working(b)
      BY <3>3 DEF WorkersDiffer
    <3>4. ~(Sending(a) /\ Queueing(b)) /\ ~(Sending(b) /\ Queueing(a))
      BY DEF QueuedDiffer
    <3>5. ~(Sending(a) /\ Working(b)) /\ ~(Sending(b) /\ Working(a))
      BY DEF WorkersDiffer
    <3>6. ~(Queueing(a) /\ Working(b)) /\ ~(Queueing(b) /\ Working(a))
      BY DEF WorkersDiffer
    <3> HIDE DEF Sending, Queueing, Working
    <3> QED
      BY <2>1, <2>3, <3>1, <3>2, <3>3, <3>4, <3>5, <3>6
  <2> QED
    BY <2>2, <2>3
<1> QED
  BY <1>1, <1>2, StepKeepsContexts, Typing, PTL DEF Spec
=============================================================================
