-------------------------- MODULE ServerLifecycle --------------------------
(***************************************************************************)
(* From main to main: StartServer, StopServer and CloseServer of           *)
(* CServerManager, the thread objects CThread and CMultiThread they start, *)
(* stop and join, and what the threads need of the rest (the network, the  *)
(* completion port, the session pool).                                     *)
(*                                                                         *)
(* Thread 0 is AcceptThread_, thread w > 0 is vThreads_[w - 1] of          *)
(* WorkerThread_.  What a thread does with a session between two waits is  *)
(* in IocpServer; here it is one use of the pool.                          *)
(***************************************************************************)
EXTENDS Naturals

CONSTANTS
  Programs,           \* the servers looked at
  WORKERTHREAD_NUM,
  MaxClients          \* bound: connections accepted

ASSUME LifecycleAssumption ==
  /\ Programs \subseteq {"Server_Framework", "Test_Server"}
  /\ WORKERTHREAD_NUM \in Nat \ {0}
  /\ MaxClients \in Nat

Workers == 1 .. WORKERTHREAD_NUM
Threads == {0} \cup Workers

VARIABLES
  program,     \* the server that runs
  main,        \* where main is
  next,        \* the element of vThreads_ that a loop of main is at
  isRun_,      \* [Threads -> BOOLEAN], of each CThread
  multiRun_,   \* isRun_ of WorkerThread_
  at,          \* [Threads -> where the thread is], "none": not started
  net,         \* WSAStartup was called last, and not WSACleanup
  port,        \* IOCP_: "none" before StartIOCP, "open", or "null"
  pool,        \* pSessionPool_: "none", "alive", "deleted" after Destroy
  clients,     \* connections accepted so far
  pending,     \* receives that have not completed
  packets,     \* packets of the completion port
  fault        \* how the process died, "none" while it runs

mainVars == <<main, next>>
objVars == <<isRun_, multiRun_>>
sysVars == <<net, port, pool>>
ioVars == <<clients, pending, packets>>
vars == <<program, mainVars, objVars, at, sysVars, ioVars, fault>>

MainBefore == {"network", "port", "info", "accept", "multi", "workers"}
MainStops == {"stopA", "stopW", "stopM"}
MainCloses == {"joinA", "joinW", "cleanup", "destroy", "exit", "ended"}

Ended == {"left", "failed"}
Uses == {"join", "recv", "session"}

TypeOK ==
  /\ program \in Programs
  /\ main \in MainBefore \cup {"key"} \cup MainStops \cup MainCloses
  /\ next \in Workers
  /\ isRun_ \in [Threads -> BOOLEAN]
  /\ multiRun_ \in BOOLEAN
  /\ at \in [Threads -> {"none", "begin", "loop", "wait", "spin"} \cup Uses \cup Ended]
  /\ net \in BOOLEAN
  /\ port \in {"none", "open", "null"}
  /\ pool \in {"none", "alive", "deleted"}
  /\ clients \in Nat /\ pending \in Nat /\ packets \in Nat
  /\ fault \in {"none", "null_pool", "null_session", "null_node", "heap"}

Init ==
  /\ program \in Programs
  /\ main = "network" /\ next = 1
  /\ isRun_ = [t \in Threads |-> FALSE] /\ multiRun_ = FALSE
  /\ at = [t \in Threads |-> "none"]
  /\ net = FALSE /\ port = "none" /\ pool = "none"
  /\ clients = 0 /\ pending = 0 /\ packets = 0
  /\ fault = "none"

----------------------------------------------------------------------------
(* CThread and CMultiThread.                                               *)

\* CThread::Start; false, and no change, if isRun_ is set.
Start(t) ==
  IF isRun_[t] THEN UNCHANGED <<isRun_, at>>
  ELSE /\ isRun_' = [isRun_ EXCEPT ![t] = TRUE]
       /\ at' = [at EXCEPT ![t] = "begin"]

\* Not the code: Stop forgets the flag.
Stop_Nothing(t) == UNCHANGED isRun_

\* CThread::Stop.
Stop(t) == isRun_' = [isRun_ EXCEPT ![t] = FALSE]

\* Not the code: Join does not wait.
Join_NoWait(t) == isRun_' = [isRun_ EXCEPT ![t] = FALSE]

\* CThread::Join: false at once if isRun_ is not set.
Join(t) ==
  IF ~isRun_[t] THEN UNCHANGED isRun_
  ELSE /\ at[t] \in Ended
       /\ isRun_' = [isRun_ EXCEPT ![t] = FALSE]

\* The condition of the loop of a thread.
Runs(t) == IF t = 0 THEN isRun_[0] ELSE multiRun_

\* Not the code: the loop of main goes one element too far.
Iterates_TooFar(place) ==
  IF next <= WORKERTHREAD_NUM
  THEN next' = next + 1 /\ UNCHANGED main
  ELSE next' = 1 /\ main' = place

\* main goes through vThreads_ and then on to a place.
Iterates(place) ==
  IF next < WORKERTHREAD_NUM
  THEN next' = next + 1 /\ UNCHANGED main
  ELSE next' = 1 /\ main' = place

----------------------------------------------------------------------------
(* StartServer.  main goes on in the same way whether it succeeds or not.  *)

AfterStart == IF program = "Server_Framework" THEN "key" ELSE "joinA"

StartNetwork ==
  /\ main = "network"
  /\ \/ net' = TRUE /\ main' = "port"
     \/ net' = FALSE /\ main' = AfterStart
  /\ UNCHANGED <<next, objVars, at, port, pool, ioVars, fault>>

\* CreateIoCompletionPort returns NULL when it fails, and the result is
\* compared with INVALID_HANDLE_VALUE.
StartIOCP ==
  /\ main = "port"
  /\ port' \in {"open", "null"}
  /\ main' = "info"
  /\ UNCHANGED <<next, objVars, at, net, pool, ioVars, fault>>

InitalizeInfo ==
  /\ main = "info"
  /\ pool' = "alive"
  /\ main' = "accept"
  /\ UNCHANGED <<next, objVars, at, net, port, ioVars, fault>>

StartAccept ==
  /\ main = "accept"
  /\ Start(0)
  /\ main' = "multi"
  /\ UNCHANGED <<next, multiRun_, sysVars, ioVars, fault>>

\* Not the code: CMultiThread::Start does not set its own flag first.
StartMulti_Late ==
  /\ main = "multi"
  /\ main' = "workers"
  /\ UNCHANGED <<next, objVars, at, sysVars, ioVars, fault>>

\* CMultiThread::Start sets its flag before it starts the first thread.
StartMulti ==
  /\ main = "multi"
  /\ multiRun_' = TRUE
  /\ main' = "workers"
  /\ UNCHANGED <<next, isRun_, at, sysVars, ioVars, fault>>

StartWorker ==
  /\ main = "workers"
  /\ Start(next)
  /\ Iterates(AfterStart)
  /\ UNCHANGED <<multiRun_, sysVars, ioVars, fault>>

StartServer ==
  \/ StartNetwork \/ StartIOCP \/ InitalizeInfo
  \/ StartAccept \/ StartMulti \/ StartWorker

----------------------------------------------------------------------------
(* StopServer, when 'q' is pressed.                                        *)

PressQ ==
  /\ main = "key"
  /\ main' = "stopA"
  /\ UNCHANGED <<next, objVars, at, sysVars, ioVars, fault>>

StopAccept ==
  /\ main = "stopA"
  /\ Stop(0)
  /\ main' = "stopW"
  /\ UNCHANGED <<next, multiRun_, at, sysVars, ioVars, fault>>

StopWorker ==
  /\ main = "stopW"
  /\ Stop(next)
  /\ Iterates("stopM")
  /\ UNCHANGED <<multiRun_, at, sysVars, ioVars, fault>>

StopMulti ==
  /\ main = "stopM"
  /\ multiRun_' = FALSE
  /\ main' = "joinA"
  /\ UNCHANGED <<next, isRun_, at, sysVars, ioVars, fault>>

StopServer == StopAccept \/ StopWorker \/ StopMulti

----------------------------------------------------------------------------
(* CloseServer, and the end of main.                                       *)

JoinAccept ==
  /\ main = "joinA"
  /\ Join(0)
  /\ main' = "joinW"
  /\ UNCHANGED <<next, multiRun_, at, sysVars, ioVars, fault>>

JoinWorker ==
  /\ main = "joinW"
  /\ Join(next)
  /\ Iterates("cleanup")
  /\ UNCHANGED <<multiRun_, at, sysVars, ioVars, fault>>

EndNetwork ==
  /\ main = "cleanup"
  /\ net' = FALSE
  /\ main' = "destroy"
  /\ UNCHANGED <<next, objVars, at, port, pool, ioVars, fault>>

\* CSessionPool::Destroy deletes every session.
Destroy ==
  /\ main = "destroy"
  /\ IF pool = "none"
     THEN fault' = "null_pool" /\ UNCHANGED pool
     ELSE pool' = "deleted" /\ UNCHANGED fault
  /\ main' = "exit"
  /\ UNCHANGED <<next, objVars, at, net, port, ioVars>>

\* ~CServerManager destroys the free list first: CFreelist::Clear goes one
\* node too far and reads the pNext_ of a null pointer.
Exit ==
  /\ main = "exit"
  /\ fault' = "null_node"
  /\ main' = "ended"
  /\ UNCHANGED <<next, objVars, at, sysVars, ioVars>>

CloseServer == JoinAccept \/ JoinWorker \/ EndNetwork \/ Destroy

MainStep == StartServer \/ StopServer \/ CloseServer \/ Exit

----------------------------------------------------------------------------
(* The threads.                                                            *)

Moves(t, place) == at' = [at EXCEPT ![t] = place]

\* AcceptThread sets up its listening socket, which may fail.
Begins(t) ==
  /\ at[t] = "begin"
  /\ \/ (t \in Workers \/ net) /\ Moves(t, "loop")
     \/ t = 0 /\ Moves(t, "failed")
  /\ UNCHANGED <<mainVars, objVars, sysVars, ioVars, fault>>

TestsRun(t) ==
  /\ at[t] = "loop"
  /\ Moves(t, IF Runs(t) THEN "wait" ELSE "left")
  /\ UNCHANGED <<mainVars, objVars, sysVars, ioVars, fault>>

Accepts ==
  /\ at[0] = "wait"
  /\ net
  /\ clients < MaxClients
  /\ clients' = clients + 1
  /\ Moves(0, "join")
  /\ UNCHANGED <<mainVars, objVars, sysVars, pending, packets, fault>>

\* accept returns INVALID_SOCKET.
AcceptFails ==
  /\ at[0] = "wait"
  /\ Moves(0, "loop")
  /\ UNCHANGED <<mainVars, objVars, sysVars, ioVars, fault>>

\* JoinSession looks at the sessions of the pool; Destroy set the pointers to
\* null.
JoinsSession ==
  /\ at[0] = "join"
  /\ IF pool = "deleted"
     THEN fault' = "null_session" /\ UNCHANGED at
     ELSE UNCHANGED fault /\ (Moves(0, "recv") \/ Moves(0, "loop"))
  /\ UNCHANGED <<mainVars, objVars, sysVars, ioVars>>

\* The first receive, on a session that may have been deleted; the thread
\* spins if it fails.
FirstRecv ==
  /\ at[0] = "recv"
  /\ IF pool = "deleted" THEN fault' \in {"none", "heap"} ELSE UNCHANGED fault
  /\ \/ net /\ pending' = pending + 1 /\ Moves(0, "loop")
     \/ UNCHANGED pending /\ Moves(0, "spin")
  /\ UNCHANGED <<mainVars, objVars, sysVars, clients, packets>>

\* A receive completes: the network, at any time.
Completes ==
  /\ pending > 0
  /\ pending' = pending - 1
  /\ packets' = packets + 1
  /\ UNCHANGED <<mainVars, objVars, at, sysVars, clients, fault>>

Dequeues(w) ==
  /\ at[w] = "wait"
  /\ port = "open"
  /\ packets > 0
  /\ packets' = packets - 1
  /\ Moves(w, "session")
  /\ UNCHANGED <<mainVars, objVars, sysVars, clients, pending, fault>>

\* GetQueuedCompletionStatus fails without a packet: Disconnect(nullptr).
NoPort(w) ==
  /\ at[w] = "wait"
  /\ port = "null"
  /\ fault' = "null_session"
  /\ UNCHANGED <<mainVars, objVars, at, sysVars, ioVars>>

\* The worker uses the session of the packet, which may have been deleted: it
\* receives again, or disconnects it; or its receive fails and it returns.
UsesSession(w) ==
  /\ at[w] = "session"
  /\ IF pool = "deleted" THEN fault' \in {"none", "heap"} ELSE UNCHANGED fault
  /\ \/ net /\ pending' = pending + 1 /\ Moves(w, "loop")
     \/ UNCHANGED pending /\ (Moves(w, "loop") \/ Moves(w, "failed"))
  /\ UNCHANGED <<mainVars, objVars, sysVars, clients, packets>>

AcceptThread ==
  Begins(0) \/ TestsRun(0) \/ Accepts \/ AcceptFails \/ JoinsSession \/ FirstRecv

WorkerThread(w) ==
  Begins(w) \/ TestsRun(w) \/ Dequeues(w) \/ NoPort(w) \/ UsesSession(w)

Next ==
  /\ fault = "none"
  /\ UNCHANGED program
  /\ \/ MainStep \/ PressQ
     \/ AcceptThread \/ Completes
     \/ \E w \in Workers : WorkerThread(w)

Spec == Init /\ [][Next]_vars

\* The main thread is scheduled whenever it can go on; nobody has to press 'q'
\* and no connection has to come.
FairSpec == Spec /\ WF_vars(fault = "none" /\ UNCHANGED program /\ MainStep)

----------------------------------------------------------------------------
(* Correctness.                                                            *)

\* A thread leaves its loop only after it was told to stop: the flag that it
\* tests is set before the thread can test it (Thread.cpp:36-38, 123-127),
\* and nothing but StopServer takes it back while the thread is running.
LeavesAfterStop ==
  \A t \in Threads :
    at[t] = "left" => /\ program = "Server_Framework"
                      /\ main \in MainStops \cup MainCloses
                      /\ t \in Workers => main \in MainCloses

\* No thread is about to use a session that CloseServer has deleted.  In
\* Server_Framework it fails: "q" does not "stop the server" (main.cpp:24),
\* since the threads are not awaited after StopServer.
UsesLivePool == \A t \in Threads : at[t] \in Uses => pool = "alive"

\* It holds in the test server, where CloseServer waits for the threads.
TestServerWaits == program = "Test_Server" => UsesLivePool

\* Once 'q' was pressed main does not wait for a thread that waits for a client:
\* the process ends, whatever the clients and the threads do.
EndsOnQuit == main = "stopA" ~> main = "ended" \/ fault # "none"

=============================================================================
