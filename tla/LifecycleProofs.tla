-------------------------- MODULE LifecycleProofs --------------------------
(***************************************************************************)
(* What ServerLifecycle promises for any number of workers and clients:    *)
(* types, that a thread leaves its loop only after it was told to stop,    *)
(* and that the test server deletes no session that a thread may use.      *)
(***************************************************************************)
EXTENDS ServerLifecycle, TLAPS

\* The places of main after StopServer told the accept thread, or the workers,
\* to stop.
ToldAccept == program = "Server_Framework" /\ main \in {"stopW", "stopM"} \cup MainCloses
ToldWorkers == program = "Server_Framework" /\ main \in MainCloses

\* The flag that a thread tests is set from before its start until it is told
\* to stop.
FlagsUp ==
  /\ program = "Test_Server" => main \notin MainStops \cup {"key"}
  /\ at[0] \notin {"none"} \cup Ended => isRun_[0] \/ ToldAccept
  /\ main = "workers" => multiRun_
  /\ \A w \in Workers : at[w] # "none" => multiRun_ \/ ToldWorkers

\* The pool is there from before the first thread until Destroy.
PoolKnown ==
  /\ main \in {"accept", "multi", "workers"} => pool = "alive"
  /\ main \in {"network", "port", "info"} => \A t \in Threads : at[t] = "none"
  /\ \A t \in Threads : at[t] # "none" => pool # "none"
  /\ pool = "deleted" => main \in {"exit", "ended"}

\* The test server has joined every thread that main has passed, and a thread
\* that is not joined has its flag set.
Over(t) == at[t] \in {"none"} \cup Ended

Joined ==
  program = "Test_Server" =>
    /\ main \notin {"workers", "joinW"} => next = 1
    /\ \A w \in Workers : ~Over(w) => isRun_[w]
    /\ main \in MainCloses \ {"joinA"} => Over(0)
    /\ main = "joinW" => \A w \in Workers : w < next => Over(w)
    /\ main \in MainCloses \ {"joinA", "joinW"} => \A w \in Workers : Over(w)

LifeInv == TypeOK /\ LeavesAfterStop /\ FlagsUp /\ PoolKnown /\ Joined

\* At the start nothing runs and nothing is there.
LEMMA InitLife == Init => LifeInv
<1> SUFFICES ASSUME Init PROVE LifeInv
  OBVIOUS
<1>1. TypeOK
  <2> USE DEF Init
  <2>1. main \in MainBefore /\ next \in Workers
    BY LifecycleAssumption DEF MainBefore, Workers
  <2>2. isRun_ \in [Threads -> BOOLEAN] /\ multiRun_ \in BOOLEAN
    OBVIOUS
  <2>3. at \in [Threads -> {"none", "begin", "loop", "wait", "spin"} \cup Uses \cup Ended]
    OBVIOUS
  <2> QED
    BY <2>1, <2>2, <2>3 DEF TypeOK
<1>2. \A t \in Threads : at[t] = "none"
  BY DEF Init
<1>3. 0 \in Threads /\ Workers \subseteq Threads
  BY DEF Threads
<1>4. LeavesAfterStop /\ PoolKnown
  BY <1>2 DEF Init, LeavesAfterStop, PoolKnown
<1>5. FlagsUp
  BY <1>2, <1>3 DEF Init, FlagsUp, MainStops
<1>6. Joined
  BY <1>2, <1>3 DEF Init, Joined, Over, MainCloses
<1> QED
  BY <1>1, <1>4, <1>5, <1>6 DEF LifeInv

\* A step of main keeps the types.
LEMMA MainTyped ==
  ASSUME TypeOK, UNCHANGED program, MainStep \/ PressQ
  PROVE  TypeOK'
<1> USE LifecycleAssumption
    DEF MainStep, StartServer, StartNetwork, StartIOCP, InitalizeInfo, StartAccept, StartMulti,
        StartWorker, StopServer, StopAccept, StopWorker, StopMulti, PressQ,
        CloseServer, JoinAccept, JoinWorker, EndNetwork, Destroy, Exit
<1>1. main' \in MainBefore \cup {"key"} \cup MainStops \cup MainCloses
  BY DEF TypeOK, Iterates, AfterStart, MainBefore, MainStops, MainCloses
<1>2. next' \in Workers
  BY DEF TypeOK, Iterates, Workers
<1>3. isRun_' \in [Threads -> BOOLEAN]
  BY DEF TypeOK, Start, Stop, Join, objVars
<1>4. multiRun_' \in BOOLEAN
  BY DEF TypeOK, objVars
<1>5. at' \in [Threads -> {"none", "begin", "loop", "wait", "spin"} \cup Uses \cup Ended]
  BY DEF TypeOK, Start, Threads
<1>6. /\ net' \in BOOLEAN /\ port' \in {"none", "open", "null"}
      /\ pool' \in {"none", "alive", "deleted"}
  BY DEF TypeOK, sysVars
<1>7. /\ clients' \in Nat /\ pending' \in Nat /\ packets' \in Nat
      /\ fault' \in {"none", "null_pool", "null_session", "null_node", "heap"}
  BY DEF TypeOK, ioVars
<1> QED
  BY <1>1, <1>2, <1>3, <1>4, <1>5, <1>6, <1>7 DEF TypeOK

\* A step of a thread, or of the network, keeps the types.
LEMMA ThreadTyped ==
  ASSUME TypeOK, UNCHANGED program, AcceptThread \/ Completes \/ \E w \in Workers : WorkerThread(w)
  PROVE  TypeOK'
<1> USE DEF TypeOK, Threads, Workers, objVars, sysVars, ioVars, mainVars, Moves, Uses, Ended
<1>1. CASE AcceptThread
  BY <1>1 DEF AcceptThread, Begins, TestsRun, Accepts, AcceptFails, JoinsSession, FirstRecv
<1>2. CASE Completes
  BY <1>2 DEF Completes
<1>3. ASSUME NEW w \in Workers, WorkerThread(w) PROVE TypeOK'
  BY <1>3 DEF WorkerThread, Begins, TestsRun, Dequeues, NoPort, UsesSession
<1> QED
  BY <1>1, <1>2, <1>3


\* StartServer raises the flags before it starts a thread, and the pool before
\* the threads.
LEMMA StartKeeps ==
  ASSUME LifeInv, UNCHANGED program, StartServer
  PROVE  LeavesAfterStop' /\ FlagsUp' /\ PoolKnown' /\ Joined'
<1> USE LifecycleAssumption DEF LifeInv, TypeOK, objVars, sysVars, ioVars
<1>1. CASE StartNetwork \/ StartIOCP \/ InitalizeInfo \/ StartMulti
  <2>1. /\ main \in {"network", "port", "info", "multi"}
        /\ main' \in {"port", "info", "accept", "workers", "key", "joinA"}
        /\ main' = "key" => program = "Server_Framework"
        /\ main' = "joinA" => program = "Test_Server" /\ main = "network"
        /\ UNCHANGED <<at, isRun_, next>>
        /\ multiRun_ => multiRun_'
    BY <1>1 DEF StartNetwork, StartIOCP, InitalizeInfo, StartMulti, AfterStart
  <2>2. LeavesAfterStop'
    BY <2>1 DEF LeavesAfterStop, MainStops, MainCloses
  <2>3. FlagsUp'
    <3>1. main' = "workers" => multiRun_'
      BY <1>1 DEF StartNetwork, StartIOCP, InitalizeInfo, StartMulti, AfterStart
    <3>2. ~ToldAccept /\ ~ToldWorkers
      BY <2>1 DEF ToldAccept, ToldWorkers, MainCloses
    <3>3. at'[0] = at[0] /\ isRun_'[0] = isRun_[0] /\ \A w \in Workers : at'[w] = at[w]
      BY <2>1
    <3>4. program = "Test_Server" => main' \notin MainStops \cup {"key"}
      BY <2>1, LifecycleAssumption DEF MainStops
    <3> QED
      BY <2>1, <3>1, <3>2, <3>3, <3>4 DEF FlagsUp
  <2>4. PoolKnown'
    BY <1>1, <2>1 DEF PoolKnown, StartNetwork, StartIOCP, InitalizeInfo, StartMulti, AfterStart
  <2>5. Joined'
    BY <2>1 DEF Joined, Over, MainCloses
  <2> QED
    BY <2>2, <2>3, <2>4, <2>5
<1>2. ASSUME NEW t \in Threads, Start(t), multiRun_ \/ t = 0,
             main \in {"accept", "workers"},
             main' \in {"multi", "workers", "key", "joinA"},
             main' = "key" => program = "Server_Framework",
             main' = "joinA" => program = "Test_Server",
             main' = "workers" => main = "workers",
             main' # "workers" => next' = 1 \/ (UNCHANGED next /\ main = "accept"),
             UNCHANGED <<multiRun_, pool>>
      PROVE  LeavesAfterStop' /\ FlagsUp' /\ PoolKnown' /\ Joined'
  <2>1. \A u \in Threads : \/ at'[u] = at[u] /\ isRun_'[u] = isRun_[u]
                           \/ at'[u] = "begin" /\ isRun_'[u] /\ u = t
    BY <1>2 DEF Start
  <2>2. LeavesAfterStop'
    BY <1>2, <2>1 DEF LeavesAfterStop, MainStops, MainCloses
  <2>3. FlagsUp'
    BY <1>2, <2>1 DEF FlagsUp, ToldAccept, ToldWorkers, MainStops, MainCloses, Threads, Workers
  <2>4. PoolKnown'
    BY <1>2, <2>1 DEF PoolKnown
  <2>5. Joined'
    BY <1>2, <2>1 DEF Joined, Over, MainCloses, Threads
  <2> QED
    BY <2>2, <2>3, <2>4, <2>5
<1>3. CASE StartAccept
  BY <1>3, <1>2 DEF StartAccept, Threads
<1>4. CASE StartWorker
  <2>1. next \in Threads /\ Start(next) /\ main = "workers" /\ UNCHANGED <<multiRun_, pool>>
    BY <1>4 DEF StartWorker, Threads
  <2>2. multiRun_
    BY <2>1 DEF FlagsUp
  <2>3. \/ main' = "workers"
        \/ main' = AfterStart /\ next' = 1
    BY <1>4 DEF StartWorker, Iterates
  <2>4. AfterStart \in {"key", "joinA"} /\ (AfterStart = "key" <=> program = "Server_Framework")
    BY DEF AfterStart
  <2>5. /\ main \in {"accept", "workers"} /\ main' \in {"multi", "workers", "key", "joinA"}
        /\ main' = "key" => program = "Server_Framework"
        /\ main' = "joinA" => program = "Test_Server"
        /\ main' = "workers" => main = "workers"
        /\ main' # "workers" => next' = 1 \/ (UNCHANGED next /\ main = "accept")
    BY <2>1, <2>3, <2>4
  <2> HIDE DEF LifeInv, TypeOK
  <2> QED
    BY <1>2, <2>1, <2>2, <2>5, Zenon
<1> QED
  BY <1>1, <1>3, <1>4 DEF StartServer

\* StopServer, which only Server_Framework calls, takes the flags back.
LEMMA StopKeeps ==
  ASSUME LifeInv, UNCHANGED program, StopServer \/ PressQ
  PROVE  LeavesAfterStop' /\ FlagsUp' /\ PoolKnown' /\ Joined'
<1>1. /\ main \in {"key"} \cup MainStops
      /\ main' \in MainStops \cup {"joinA"}
      /\ main \in MainStops => main' # "stopA"
      /\ main' = "joinA" => main = "stopM"
      /\ isRun_'[0] # isRun_[0] => main' # "stopA"
      /\ UNCHANGED <<at, pool>>
      /\ multiRun_' # multiRun_ => main' = "joinA"
  BY DEF StopServer, StopAccept, StopWorker, StopMulti, PressQ, Iterates, MainStops,
         objVars, sysVars
<1>2. program = "Server_Framework"
  BY <1>1, LifecycleAssumption DEF LifeInv, TypeOK, FlagsUp
<1>3. LeavesAfterStop'
  BY <1>1, <1>2 DEF LifeInv, LeavesAfterStop, MainStops, MainCloses
<1>4. FlagsUp'
  BY <1>1, <1>2 DEF LifeInv, FlagsUp, ToldAccept, ToldWorkers, MainStops, MainCloses
<1>5. PoolKnown'
  BY <1>1 DEF LifeInv, PoolKnown, MainStops
<1>6. Joined'
  BY <1>2 DEF Joined
<1> QED
  BY <1>3, <1>4, <1>5, <1>6

\* CloseServer joins the threads one after the other: the test server, whose
\* flags are all set, waits for each of them.
LEMMA CloseKeeps ==
  ASSUME LifeInv, UNCHANGED program, CloseServer \/ Exit
  PROVE  LeavesAfterStop' /\ FlagsUp' /\ PoolKnown' /\ Joined'
<1>1. /\ main \in MainCloses /\ main' \in MainCloses \ {"joinA"}
      /\ UNCHANGED <<at, multiRun_>>
  BY DEF CloseServer, JoinAccept, JoinWorker, EndNetwork, Destroy, Exit, Iterates,
         MainCloses, objVars
<1>2. LeavesAfterStop'
  BY <1>1 DEF LifeInv, LeavesAfterStop
<1>3. \/ UNCHANGED isRun_
      \/ \E t \in Threads : at[t] \in Ended /\ isRun_' = [isRun_ EXCEPT ![t] = FALSE]
  BY DEF LifeInv, TypeOK, CloseServer, JoinAccept, JoinWorker, EndNetwork, Destroy, Exit,
         Join, objVars, Threads
<1>4. \A t \in Threads : at[t] \notin Ended => isRun_'[t] = isRun_[t]
  BY <1>3 DEF LifeInv, TypeOK
<1>5. FlagsUp'
  <2>1. main' \notin MainStops \cup {"key", "workers"}
    BY <1>1 DEF MainCloses, MainStops
  <2>2. ToldAccept = (program = "Server_Framework") \/ main = "joinA"
    BY <1>1, LifecycleAssumption DEF ToldAccept, MainCloses
  <2> QED
    BY <1>1, <1>4, <2>1, LifecycleAssumption
       DEF LifeInv, FlagsUp, ToldAccept, ToldWorkers, MainCloses, Threads
<1>6. PoolKnown'
  BY <1>1 DEF LifeInv, PoolKnown, CloseServer, JoinAccept, JoinWorker, EndNetwork, Destroy,
              Exit, Iterates, MainCloses, sysVars
<1>7. Joined'
  <2> SUFFICES ASSUME program = "Test_Server" PROVE Joined'
    BY DEF Joined
  <2>1. ASSUME NEW w \in Workers PROVE ~Over(w)' => isRun_'[w]
    <3>1. w \in Threads /\ (~Over(w) => isRun_[w])
      BY DEF LifeInv, Joined, Threads
    <3>2. at[w] \notin Ended => isRun_'[w] = isRun_[w]
      BY <1>4, <3>1
    <3>3. at' = at
      BY <1>1
    <3> QED
      BY <3>1, <3>2, <3>3 DEF Over
  <2>2. ASSUME NEW t \in Threads, Join(t), ~Over(t) => isRun_[t] PROVE Over(t)
    BY <2>2 DEF Join, Over
  <2>3. ~Over(0) => isRun_[0]
    BY DEF LifeInv, FlagsUp, ToldAccept, Over
  <2>4. CASE JoinAccept
    BY <1>1, <2>1, <2>2, <2>3, <2>4
       DEF LifeInv, TypeOK, Workers, JoinAccept, Joined, Over, Threads, MainCloses
  <2>5. CASE JoinWorker
    <3>1. Over(next)
      BY <2>2, <2>5 DEF LifeInv, Joined, TypeOK, JoinWorker, Threads
    <3>2. \A w \in Workers : w <= next => Over(w)
      BY <2>5, <3>1 DEF LifeInv, Joined, TypeOK, JoinWorker, Workers
    <3>3. \/ main' = "joinW" /\ next' = next + 1
          \/ main' = "cleanup" /\ next' = 1 /\ \A w \in Workers : Over(w)
      BY <2>5, <3>2, LifecycleAssumption DEF LifeInv, TypeOK, JoinWorker, Iterates, Workers
    <3>4. \A t \in Threads : Over(t)' = Over(t)
      BY <1>1 DEF Over
    <3>5. Over(0)
      BY <2>5 DEF LifeInv, Joined, JoinWorker, MainCloses
    <3> QED
      BY <2>1, <3>2, <3>3, <3>4, <3>5 DEF LifeInv, TypeOK, Joined, Threads, Workers
  <2>6. CASE EndNetwork \/ Destroy \/ Exit
    BY <1>1, <2>1, <2>6 DEF LifeInv, Joined, Over, EndNetwork, Destroy, Exit, MainCloses
  <2> QED
    BY <2>4, <2>5, <2>6 DEF CloseServer
<1> QED
  BY <1>2, <1>5, <1>6, <1>7

\* A thread that runs was started, so the pool is there; it leaves its loop
\* only when its flag is down, which only StopServer does.
LEMMA ThreadKeeps ==
  ASSUME LifeInv, UNCHANGED program, NEW t \in Threads,
         at[t] \notin {"none"} \cup Ended,
         \E place : place # "none" /\ Moves(t, place) /\ (place = "left" => ~Runs(t)),
         UNCHANGED <<mainVars, objVars, sysVars>>
  PROVE  LeavesAfterStop' /\ FlagsUp' /\ PoolKnown' /\ Joined'
<1> USE DEF mainVars, objVars, sysVars
<1>1. PICK place : place # "none" /\ Moves(t, place) /\ (place = "left" => ~Runs(t))
  OBVIOUS
<1>2. at'[t] = place /\ \A u \in Threads \ {t} : at'[u] = at[u]
  BY <1>1 DEF LifeInv, TypeOK, Moves
<1>3. /\ 0 \in Threads /\ Workers \subseteq Threads
      /\ \A u \in Threads : u = 0 \/ u \in Workers
  BY DEF Threads
<1>4. at'[t] = "left" =>
        /\ t = 0 => ToldAccept
        /\ t \in Workers => ToldWorkers
  BY <1>1, <1>2, <1>3, LifecycleAssumption DEF LifeInv, FlagsUp, Runs, Threads, Workers
<1>5. LeavesAfterStop'
  BY <1>2, <1>3, <1>4 DEF LifeInv, LeavesAfterStop, ToldAccept, ToldWorkers, MainStops
<1>6. FlagsUp'
  BY <1>2, <1>3 DEF LifeInv, FlagsUp, ToldAccept, ToldWorkers
<1>7. PoolKnown'
  BY <1>2 DEF LifeInv, PoolKnown
<1>8. Joined'
  BY <1>2, <1>3 DEF LifeInv, Joined, Over
<1> QED
  BY <1>5, <1>6, <1>7, <1>8

\* The invariant is inductive.
LEMMA StepLife == LifeInv /\ [Next]_vars => LifeInv'
<1> SUFFICES ASSUME LifeInv, [Next]_vars PROVE LifeInv'
  OBVIOUS
<1> DEFINE Kept == LeavesAfterStop' /\ FlagsUp' /\ PoolKnown' /\ Joined'
<1>1. CASE UNCHANGED vars
  BY <1>1 DEF LifeInv, TypeOK, LeavesAfterStop, FlagsUp, PoolKnown, Joined, Over, ToldAccept,
              ToldWorkers, vars, mainVars, objVars, sysVars, ioVars
<1>2. ASSUME UNCHANGED program, MainStep \/ PressQ PROVE LifeInv'
  <2>1. TypeOK'
    BY <1>2, MainTyped DEF LifeInv
  <2>2. Kept
    BY <1>2, StartKeeps, StopKeeps, CloseKeeps DEF MainStep
  <2> QED
    BY <2>1, <2>2 DEF LifeInv
<1>3. ASSUME UNCHANGED program,
             AcceptThread \/ Completes \/ \E w \in Workers : WorkerThread(w)
      PROVE  LifeInv'
  <2>1. TypeOK'
    BY <1>3, ThreadTyped DEF LifeInv
  <2>2. CASE UNCHANGED <<at, mainVars, objVars, sysVars>>
    BY <1>3, <2>1, <2>2 DEF LifeInv, LeavesAfterStop, FlagsUp, PoolKnown, Joined, Over, ToldAccept,
                      ToldWorkers, mainVars, objVars, sysVars
  <2>3. ASSUME NEW t \in Threads, at[t] \notin {"none"} \cup Ended,
               \E place : place # "none" /\ Moves(t, place) /\ (place = "left" => ~Runs(t)),
               UNCHANGED <<mainVars, objVars, sysVars>>
        PROVE  Kept
    BY <1>3, <2>3, ThreadKeeps
  <2>4. CASE AcceptThread
    <3>1. 0 \in Threads
      BY DEF Threads
    <3>2. CASE UNCHANGED at
      BY <2>2, <2>4, <3>2 DEF AcceptThread, Begins, TestsRun, Accepts, AcceptFails,
                              JoinsSession, FirstRecv
    <3>3. CASE ~UNCHANGED at
      <4>1. /\ UNCHANGED <<mainVars, objVars, sysVars>>
            /\ at[0] \notin {"none"} \cup Ended
            /\ \E place : place # "none" /\ Moves(0, place) /\ (place = "left" => ~Runs(0))
        BY <2>4, <3>3 DEF AcceptThread, Begins, TestsRun, Accepts, AcceptFails,
                          JoinsSession, FirstRecv, Ended
      <4> QED
        BY <2>1, <2>3, <3>1, <4>1 DEF LifeInv
    <3> QED
      BY <3>2, <3>3
  <2>5. CASE Completes
    BY <2>2, <2>5 DEF Completes
  <2>6. ASSUME NEW w \in Workers, WorkerThread(w) PROVE LifeInv'
    <3>1. w \in Threads /\ w # 0
      BY DEF Threads, Workers
    <3>2. CASE UNCHANGED at
      BY <2>2, <2>6, <3>2 DEF WorkerThread, Begins, TestsRun, Dequeues, NoPort, UsesSession
    <3>3. CASE ~UNCHANGED at
      <4>1. /\ UNCHANGED <<mainVars, objVars, sysVars>>
            /\ at[w] \notin {"none"} \cup Ended
            /\ \E place : place # "none" /\ Moves(w, place) /\ (place = "left" => ~Runs(w))
        BY <2>6, <3>1, <3>3 DEF WorkerThread, Begins, TestsRun, Dequeues, NoPort,
                                UsesSession, Ended
      <4> QED
        BY <2>1, <2>3, <3>1, <4>1 DEF LifeInv
    <3> QED
      BY <3>2, <3>3
  <2> QED
    BY <1>3, <2>4, <2>5, <2>6
<1> QED
  BY <1>1, <1>2, <1>3 DEF Next

\* Every variable keeps its type, for any number of workers.
THEOREM LifeTypes == Spec => []TypeOK
<1>1. LifeInv => TypeOK
  BY DEF LifeInv
<1> QED
  BY InitLife, StepLife, <1>1, PTL DEF Spec

\* A thread leaves its loop only after it was told to stop, for any number of
\* workers.
THEOREM LeavesWhenStopped == Spec => []LeavesAfterStop
<1>1. LifeInv => LeavesAfterStop
  BY DEF LifeInv
<1> QED
  BY InitLife, StepLife, <1>1, PTL DEF Spec

\* The test server deletes no session while a thread may use it: its
\* CloseServer, called without StopServer, waits for every thread.
THEOREM AwaitedBeforeDestroy == Spec => []TestServerWaits
<1>1. LifeInv => TestServerWaits
  <2> SUFFICES ASSUME LifeInv, program = "Test_Server", NEW t \in Threads, at[t] \in Uses
               PROVE  pool = "alive"
    BY DEF TestServerWaits, UsesLivePool
  <2>1. at[t] # "none" /\ ~Over(t)
    BY DEF Uses, Over, Ended
  <2>2. pool \in {"alive", "deleted"}
    BY <2>1 DEF LifeInv, PoolKnown, TypeOK
  <2>3. ASSUME pool = "deleted" PROVE FALSE
    <3>1. main \in {"exit", "ended"}
      BY <2>3 DEF LifeInv, PoolKnown
    <3> QED
      BY <2>1, <3>1 DEF LifeInv, Joined, Threads, MainCloses
  <2> QED
    BY <2>2, <2>3
<1> QED
  BY InitLife, StepLife, <1>1, PTL DEF Spec
=============================================================================
