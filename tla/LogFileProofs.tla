---------------------------- MODULE LogFileProofs ----------------------------
(***************************************************************************)
(* For any number of threads and of lines: as long as the file of the log  *)
(* is open, Write pairs its lock with one unlock, the lines are whole, and *)
(* each line of a thread is appended once and in order.                    *)
(***************************************************************************)
EXTENDS LogFile, TLAPS

\* Where a thread that is in Write has locked and not yet unlocked.
Locked == {"is_open", "insert", "rest", "guard"}

\* Before Initalize nothing has happened.
Fresh ==
  /\ main # "start" => FileWriter_
  /\ main = "start" =>
       /\ mutex = "free" /\ ~open /\ ~undefined /\ stream = <<>>
       /\ \A t \in Threads : pc[t] = "idle"

\* main logs no more when it has returned.
MainReturned == main \in {"lock", "close", "closed", "exited"} => pc[Main] = "idle"

\* While the file is open the mutex belongs to the thread that locked it, and
\* the branch that unlocks twice is not taken.
Owned ==
  open =>
    /\ main \notin {"closed", "exited"} /\ ~undefined
    /\ main = "close" => mutex = Main
    /\ \A t \in Threads : pc[t] # "unlock" /\ (pc[t] \in Locked => mutex = t)

\* A thread between the two parts of its line wrote the first of them last.
HalfWritten ==
  open => \A t \in Threads :
    pc[t] = "rest" => /\ Len(stream) % 2 = 1
                      /\ stream[Len(stream)] = <<t, calls[t], 1>>

\* The lines of a thread are numbered from 1.
Numbered == \A t \in Threads : pc[t] # "idle" => calls[t] > 0

LogInv == TypeOK /\ Fresh /\ Numbered /\ MainReturned /\ Owned /\ HalfWritten /\ WholeLines

\* It holds before Initalize.
LEMMA InitLog == Init => LogInv
<1> SUFFICES ASSUME Init PROVE LogInv
  OBVIOUS
<1>1. /\ mutex = "free" /\ ~open /\ ~undefined /\ ~FileWriter_ /\ stream = <<>>
      /\ \A t \in Threads : pc[t] = "idle"
      /\ main = "start"
  BY DEF Init
<1>2. /\ pc \in [Threads -> InWrite \cup {"idle"}]
      /\ calls \in [Threads -> 0 .. MaxLines]
  BY LogAssumption DEF Init
<1>3. FileWriter_ \in BOOLEAN /\ open \in BOOLEAN /\ undefined \in BOOLEAN
  BY Zenon DEF Init
<1>4. TypeOK
  BY <1>1, <1>2, <1>3 DEF TypeOK
<1> QED
  BY <1>1, <1>4 DEF LogInv, Fresh, Numbered, MainReturned, Owned, HalfWritten, WholeLines

\* The unlock of the owner frees the mutex and is defined.
LEMMA OwnerUnlocks ==
  ASSUME NEW t \in Threads, UnLock(t)
  PROVE  /\ mutex' \in {mutex, "free", "stuck"}
         /\ undefined' \in {undefined, TRUE}
         /\ mutex = t => mutex' = "free" /\ undefined' = undefined
  BY DEF UnLock

\* A thread that enters Write has not locked yet.
LEMMA EnterKeeps ==
  ASSUME LogInv, NEW t \in Threads, EntersWrite(t),
         UNCHANGED <<mutex, stream, undefined>>,
         UNCHANGED <<FileWriter_, open, main>>, FileWriter_, t = Main => main = "running",
         main # "start"
  PROVE  LogInv'
<1>1. /\ pc' = [pc EXCEPT ![t] = "lock"] /\ pc[t] = "idle"
      /\ calls' = [calls EXCEPT ![t] = @ + 1] /\ calls[t] < MaxLines
  BY DEF EntersWrite, Goto
<1>2. TypeOK'
  BY <1>1, LogAssumption DEF LogInv, TypeOK, InWrite
<1>3. Fresh' /\ Numbered' /\ MainReturned'
  BY <1>1, LogAssumption DEF LogInv, TypeOK, Fresh, Numbered, MainReturned, Threads
<1>4. Owned'
  BY <1>1 DEF LogInv, TypeOK, Owned, Locked
<1>5. HalfWritten'
  BY <1>1 DEF LogInv, TypeOK, HalfWritten
<1>6. WholeLines'
  <2>1. ASSUME open, Len(stream) % 2 = 1 PROVE mutex # t
    BY <1>1, <2>1 DEF LogInv, WholeLines
  <2>2. ASSUME open, Len(stream) % 2 = 1 PROVE pc'[mutex] = "rest"
    BY <1>1, <2>1, <2>2 DEF LogInv, TypeOK, WholeLines
  <2> QED
    BY <2>2 DEF LogInv, WholeLines
<1> QED
  BY <1>2, <1>3, <1>4, <1>5, <1>6 DEF LogInv

\* Initalize opens the file, or does not, before there is a second thread.
LEMMA InitalizeKeeps == LogInv /\ Initalize => LogInv'
<1> SUFFICES ASSUME LogInv, Initalize PROVE LogInv'
  OBVIOUS
<1>1. /\ pc' = [pc EXCEPT ![Main] = "lock"] /\ Main \in Threads
      /\ calls' = [calls EXCEPT ![Main] = @ + 1] /\ calls[Main] < MaxLines
      /\ main = "start" /\ main' = "header" /\ FileWriter_' /\ open' \in BOOLEAN
      /\ UNCHANGED <<mutex, stream, undefined>>
  BY DEF Initalize, EntersWrite, Goto, Threads
<1>2. FileWriter_' \in BOOLEAN
  BY DEF Initalize
<1>3. TypeOK'
  BY <1>1, <1>2, LogAssumption DEF LogInv, TypeOK, InWrite
<1>4. Fresh' /\ Numbered' /\ MainReturned'
  BY <1>1 DEF LogInv, TypeOK, Fresh, Numbered, MainReturned
<1>5. mutex = "free" /\ ~undefined /\ stream = <<>> /\ \A t \in Threads : pc[t] = "idle"
  BY <1>1 DEF LogInv, Fresh
<1>6. \A t \in Threads : pc'[t] \in {"idle", "lock"}
  BY <1>1, <1>5 DEF LogInv, TypeOK
<1>7. Owned' /\ HalfWritten' /\ WholeLines'
  BY <1>1, <1>5, <1>6 DEF Owned, HalfWritten, WholeLines, Locked
<1> QED
  BY <1>3, <1>4, <1>7 DEF LogInv

\* The parts in the stream, and the last of an odd number of them.
LEMMA Parts ==
  ASSUME TypeOK
  PROVE  /\ Len(stream) \in Nat
         /\ \A i \in 1 .. Len(stream) : stream[i] \in Threads \X (1 .. MaxLines) \X {1, 2}
         /\ Len(stream) % 2 = 1 => stream[Len(stream)][1] \in Threads
<1>1. /\ Len(stream) \in Nat
      /\ \A i \in 1 .. Len(stream) : stream[i] \in Threads \X (1 .. MaxLines) \X {1, 2}
  BY DEF TypeOK
<1>2. Len(stream) % 2 = 1 => Len(stream) \in 1 .. Len(stream)
  BY <1>1
<1>3. \A p \in Threads \X (1 .. MaxLines) \X {1, 2} : p[1] \in Threads
  OBVIOUS
<1> QED
  BY <1>1, <1>2, <1>3

\* What the main thread does to the writer and its mutex otherwise.
LEMMA MainKeeps ==
  LogInv /\ (StartServer \/ Return \/ LockToClose \/ Close \/ Exit) => LogInv'
<1>1. LogInv /\ (StartServer \/ Return) => LogInv'
  <2> SUFFICES ASSUME LogInv, StartServer \/ Return PROVE LogInv'
    OBVIOUS
  <2>1. /\ main' \in {"running", "lock"} /\ main # "start"
        /\ main' = "lock" => pc[Main] = "idle"
        /\ main \notin {"closed", "exited"}
        /\ UNCHANGED <<mutex, pc, calls, FileWriter_, open, stream, undefined>>
    BY DEF StartServer, Return
  <2>2. TypeOK' /\ Fresh' /\ Numbered' /\ MainReturned'
    BY <2>1 DEF LogInv, TypeOK, Fresh, Numbered, MainReturned
  <2>3. Owned' /\ HalfWritten' /\ WholeLines'
    BY <2>1 DEF LogInv, Owned, HalfWritten, WholeLines
  <2> QED
    BY <2>2, <2>3 DEF LogInv
<1>2. LogInv /\ LockToClose => LogInv'
  <2> SUFFICES ASSUME LogInv, LockToClose PROVE LogInv'
    OBVIOUS
  <2>1. /\ main = "lock" /\ main' = "close" /\ mutex = "free" /\ mutex' = Main
        /\ UNCHANGED <<pc, calls, FileWriter_, open, stream, undefined>>
    BY DEF LockToClose, Lock
  <2>2. TypeOK' /\ Fresh' /\ Numbered' /\ MainReturned' /\ HalfWritten'
    BY <2>1 DEF LogInv, TypeOK, Fresh, Numbered, MainReturned, HalfWritten, Threads
  <2>3. open => \A t \in Threads : pc[t] \notin Locked
    BY <2>1, LogAssumption DEF LogInv, Owned, Threads
  <2>4. Owned'
    BY <2>1, <2>3 DEF LogInv, Owned
  <2>5. open => Len(stream) % 2 # 1
    <3> SUFFICES ASSUME open, Len(stream) % 2 = 1 PROVE FALSE
      OBVIOUS
    <3>1. mutex = stream[Len(stream)][1] /\ stream[Len(stream)][1] \in Threads
      BY Parts DEF LogInv, WholeLines
    <3> QED
      BY <2>1, <3>1, LogAssumption DEF Threads
  <2>6. WholeLines'
    BY <2>1, <2>5 DEF LogInv, WholeLines
  <2> QED
    BY <2>2, <2>4, <2>6 DEF LogInv
<1>3. LogInv /\ Close => LogInv'
  <2> SUFFICES ASSUME LogInv, Close PROVE LogInv'
    OBVIOUS
  <2>1. /\ main = "close" /\ main' = "closed" /\ ~open' /\ open' \in BOOLEAN
        /\ UNCHANGED <<pc, calls, FileWriter_, stream>>
        /\ mutex' \in {mutex, "free", "stuck"} /\ undefined' \in {undefined, TRUE}
    BY DEF Close, UnLock
  <2> QED
    BY <2>1 DEF LogInv, TypeOK, Fresh, Numbered, MainReturned, Owned, HalfWritten, WholeLines
<1>4. LogInv /\ Exit => LogInv'
  BY DEF Exit, LogInv, TypeOK, Fresh, Numbered, MainReturned, Owned, HalfWritten, WholeLines
<1> QED
  BY <1>1, <1>2, <1>3, <1>4

\* Odd and even numbers.
LEMMA Parity ==
  ASSUME NEW n \in Nat
  PROVE  /\ n % 2 \in {0, 1}
         /\ n % 2 = 0 => (n + 1) % 2 = 1
         /\ n % 2 = 1 => (n + 1) % 2 = 0 /\ n \in 1 .. n
  OBVIOUS

\* The lines of a stream are whole up to its end.
WholeUpTo(n) ==
  \A i \in 1 .. n :
    /\ stream[i][3] = IF i % 2 = 1 THEN 1 ELSE 2
    /\ i % 2 = 0 => stream[i - 1] = [stream[i] EXCEPT ![3] = 1]

\* They stay so when parts are added at the end.
LEMMA StaysWhole ==
  ASSUME NEW n \in Nat, WholeUpTo(n), \A i \in 1 .. n : stream'[i] = stream[i]
  PROVE  WholeUpTo(n)'
<1> SUFFICES ASSUME NEW i \in 1 .. n
             PROVE  /\ stream'[i][3] = IF i % 2 = 1 THEN 1 ELSE 2
                    /\ i % 2 = 0 => stream'[i - 1] = [stream'[i] EXCEPT ![3] = 1]
  BY DEF WholeUpTo
<1>1. i % 2 = 0 => i - 1 \in 1 .. n
  OBVIOUS
<1> QED
  BY <1>1 DEF WholeUpTo

\* A part of a line at the end of the stream.
LEMMA InsertKeeps ==
  ASSUME LogInv, NEW t \in Threads, InsertLine(t)
  PROVE  LogInv'
<1>1. PICK part \in {1, 2} :
        /\ pc[t] = IF part = 1 THEN "insert" ELSE "rest"
        /\ pc' = [pc EXCEPT ![t] = IF part = 1 THEN "rest" ELSE "guard"]
        /\ stream' = IF open THEN Append(stream, <<t, calls[t], part>>) ELSE stream
        /\ UNCHANGED <<mutex, calls, FileWriter_, open, main, undefined>>
  BY DEF InsertLine, Insert, Goto
<1>2. pc[t] \in Locked /\ pc[t] # "idle" /\ main # "start"
  BY <1>1 DEF Locked, LogInv, Fresh
<1>3. PICK n \in Nat : n = Len(stream)
  BY Parts DEF LogInv
<1>seq. stream \in Seq(Threads \X (1 .. MaxLines) \X {1, 2})
  BY DEF LogInv, TypeOK
<1>4. calls[t] \in 1 .. MaxLines
  BY <1>2 DEF LogInv, TypeOK, Numbered
<1>5. stream' \in Seq(Threads \X (1 .. MaxLines) \X {1, 2})
  BY <1>1, <1>seq, <1>4
<1>6. /\ pc' \in [Threads -> InWrite \cup {"idle"}]
      /\ FileWriter_
  BY <1>1, <1>2 DEF LogInv, TypeOK, InWrite, Fresh
<1>7. TypeOK'
  BY <1>1, <1>5, <1>6 DEF LogInv, TypeOK
<1>8. Fresh' /\ Numbered' /\ MainReturned'
  BY <1>1, <1>2, <1>6 DEF LogInv, TypeOK, Fresh, Numbered, MainReturned
<1>9. Owned'
  BY <1>1, <1>2, <1>6 DEF LogInv, TypeOK, Owned, Locked
<1>10. \A u \in Threads : open /\ u # t => pc'[u] # "rest"
  BY <1>1, <1>2 DEF LogInv, TypeOK, Owned, Locked
<1>11. ASSUME open, part = 1
       PROVE  HalfWritten' /\ WholeLines'
  <2>1. n % 2 = 0
    BY <1>1, <1>2, <1>3, <1>11, Parity DEF LogInv, WholeLines, Owned
  <2>2. /\ Len(stream') = n + 1 /\ stream'[n + 1] = <<t, calls[t], 1>>
        /\ \A i \in 1 .. n : stream'[i] = stream[i]
        /\ DOMAIN stream' = 1 .. n + 1
    BY <1>1, <1>seq, <1>3, <1>11
  <2>3. pc'[t] = "rest" /\ mutex' = t
    BY <1>1, <1>2, <1>11 DEF LogInv, TypeOK, Owned
  <2>4. Len(stream') % 2 = 1 /\ stream'[Len(stream')] = <<t, calls'[t], 1>>
    BY <1>1, <2>1, <2>2, Parity
  <2>5. HalfWritten'
    BY <1>1, <1>10, <2>4 DEF HalfWritten
  <2>6. WholeUpTo(n)'
    <3>1. WholeUpTo(n)
      BY <1>seq, <1>3, <1>11 DEF LogInv, WholeLines, WholeUpTo
    <3> QED
      BY <2>2, <3>1, StaysWhole
  <2>7. WholeLines'
    <3>1. ASSUME NEW i \in DOMAIN stream'
          PROVE  /\ stream'[i][3] = IF i % 2 = 1 THEN 1 ELSE 2
                 /\ i % 2 = 0 => stream'[i - 1] = [stream'[i] EXCEPT ![3] = 1]
      <4>1. CASE i \in 1 .. n
        BY <2>6, <4>1 DEF WholeUpTo
      <4>2. CASE i = n + 1
        BY <2>1, <2>2, <4>2, Parity
      <4> QED
        BY <2>2, <4>1, <4>2
    <3> QED
      BY <2>3, <2>4, <3>1 DEF WholeLines
  <2> QED
    BY <2>5, <2>7
<1>12. ASSUME open, part = 2
       PROVE  HalfWritten' /\ WholeLines'
  <2>1. n % 2 = 1 /\ stream[n] = <<t, calls[t], 1>>
    BY <1>1, <1>3, <1>12 DEF LogInv, HalfWritten
  <2>2. /\ Len(stream') = n + 1 /\ stream'[n + 1] = <<t, calls[t], 2>>
        /\ \A i \in 1 .. n : stream'[i] = stream[i]
        /\ DOMAIN stream' = 1 .. n + 1
    BY <1>1, <1>seq, <1>3, <1>12
  <2>3. pc'[t] = "guard"
    BY <1>1, <1>12 DEF LogInv, TypeOK
  <2>4. HalfWritten'
    BY <1>10, <1>12, <2>3 DEF HalfWritten
  <2>5. WholeUpTo(n)'
    <3>1. WholeUpTo(n)
      BY <1>seq, <1>3, <1>12 DEF LogInv, WholeLines, WholeUpTo
    <3> QED
      BY <2>2, <3>1, StaysWhole
  <2>6. WholeLines'
    <3>1. (n + 1) % 2 = 0 /\ n \in 1 .. n
      BY <2>1, Parity
    <3>2. [<<t, calls[t], 2>> EXCEPT ![3] = 1] = <<t, calls[t], 1>>
      OBVIOUS
    <3>3. ASSUME NEW i \in DOMAIN stream'
          PROVE  /\ stream'[i][3] = IF i % 2 = 1 THEN 1 ELSE 2
                 /\ i % 2 = 0 => stream'[i - 1] = [stream'[i] EXCEPT ![3] = 1]
      <4>1. CASE i \in 1 .. n
        BY <2>5, <4>1 DEF WholeUpTo
      <4>2. CASE i = n + 1
        <5>1. stream'[i] = <<t, calls[t], 2>> /\ stream'[i - 1] = <<t, calls[t], 1>>
          BY <2>1, <2>2, <3>1, <4>2
        <5> QED
          BY <3>1, <3>2, <4>2, <5>1
      <4> QED
        BY <2>2, <4>1, <4>2
    <3> QED
      BY <2>2, <3>1, <3>3 DEF WholeLines
  <2> QED
    BY <2>4, <2>6
<1>13. ~open => HalfWritten' /\ WholeLines'
  BY <1>1 DEF HalfWritten, WholeLines
<1> QED
  BY <1>1, <1>7, <1>8, <1>9, <1>11, <1>12, <1>13 DEF LogInv

\* Taking the mutex, and looking whether the file is open.
LEMMA LockKeeps ==
  ASSUME LogInv, NEW t \in Threads, LockFile(t) \/ IsOpen(t)
  PROVE  LogInv'
<1>1. PICK label \in {"is_open", "insert", "unlock"} :
        /\ pc' = [pc EXCEPT ![t] = label]
        /\ label = "unlock" => ~open
        /\ pc[t] \in {"lock", "is_open"}
        /\ (mutex = "free" /\ mutex' = t) \/ (mutex' = mutex /\ pc[t] = "is_open")
        /\ UNCHANGED <<calls, FileWriter_, open, stream, main, undefined>>
  <2>1. CASE LockFile(t)
    <3>1. /\ pc' = [pc EXCEPT ![t] = "is_open"] /\ pc[t] = "lock"
          /\ mutex = "free" /\ mutex' = t
          /\ UNCHANGED <<calls, FileWriter_, open, stream, main, undefined>>
      BY <2>1 DEF LockFile, Lock, Goto
    <3> QED
      BY <3>1, Zenon
  <2>2. CASE IsOpen(t)
    <3>1. CASE open
      BY <2>2, <3>1 DEF IsOpen, Goto
    <3>2. CASE ~open
      BY <2>2, <3>2 DEF IsOpen, Goto
    <3> QED
      BY <3>1, <3>2
  <2> QED
    BY <2>1, <2>2
<1>2. TypeOK'
  BY <1>1 DEF LogInv, TypeOK, InWrite
<1>3. Fresh' /\ Numbered' /\ MainReturned'
  BY <1>1 DEF LogInv, TypeOK, Fresh, Numbered, MainReturned
<1>4. mutex = "free" => \A u \in Threads : open => pc[u] \notin Locked /\ main # "close"
  BY LogAssumption DEF LogInv, Owned, Threads
<1>5. Owned'
  BY <1>1, <1>4, LogAssumption DEF LogInv, TypeOK, Owned, Locked, Threads
<1>6. HalfWritten'
  BY <1>1 DEF LogInv, TypeOK, HalfWritten
<1>7. WholeLines'
  <2>1. ASSUME open, Len(stream) % 2 = 1
        PROVE  mutex = stream[Len(stream)][1] /\ mutex \in Threads /\ pc[mutex] = "rest"
    BY <2>1, Parts DEF LogInv, WholeLines
  <2>2. ASSUME open, Len(stream) % 2 = 1
        PROVE  mutex' = mutex /\ mutex # t
    BY <1>1, <1>4, <2>1, <2>2 DEF Locked
  <2> QED
    BY <1>1, <2>1, <2>2 DEF LogInv, TypeOK, WholeLines
<1> QED
  BY <1>2, <1>3, <1>5, <1>6, <1>7 DEF LogInv

\* Giving the mutex back: only the guard does it while the file is open.
LEMMA UnLockKeeps ==
  ASSUME LogInv, NEW t \in Threads, UnLockEarly(t) \/ EndGuard(t)
  PROVE  LogInv'
<1>1. PICK label \in {"guard", "idle"} :
        /\ pc' = [pc EXCEPT ![t] = label]
        /\ pc[t] = IF label = "guard" THEN "unlock" ELSE "guard"
        /\ UnLock(t)
        /\ UNCHANGED <<calls, FileWriter_, open, stream, main>>
  BY DEF UnLockEarly, EndGuard, Goto
<1>2. mutex' \in {mutex, "free", "stuck"} /\ undefined' \in {undefined, TRUE}
  BY <1>1, OwnerUnlocks
<1>3. TypeOK'
  BY <1>1, <1>2 DEF LogInv, TypeOK, InWrite
<1>4. Fresh' /\ Numbered' /\ MainReturned'
  BY <1>1 DEF LogInv, TypeOK, Fresh, Numbered, MainReturned
<1>5. ASSUME open
      PROVE  /\ pc[t] = "guard" /\ mutex = t
             /\ mutex' = "free" /\ undefined' = undefined /\ label = "idle"
  BY <1>1, <1>5, OwnerUnlocks DEF LogInv, Owned, Locked
<1>6. ASSUME open
      PROVE  main # "close" /\ \A u \in Threads : u # t => pc[u] \notin Locked
  BY <1>5, <1>6 DEF LogInv, Owned, MainReturned, Locked
<1>7. Owned'
  BY <1>1, <1>5, <1>6 DEF LogInv, TypeOK, Owned, Locked
<1>8. HalfWritten'
  BY <1>1 DEF LogInv, TypeOK, HalfWritten
<1>9. WholeLines'
  BY <1>1, <1>5 DEF LogInv, WholeLines
<1> QED
  BY <1>3, <1>4, <1>7, <1>8, <1>9 DEF LogInv

\* Every step keeps all of it.
LEMMA StepKeeps == LogInv /\ [Next]_vars => LogInv'
<1> SUFFICES ASSUME LogInv, [Next]_vars PROVE LogInv'
  OBVIOUS
<1>1. ASSUME NEW t \in Threads, Log(t) \/ LogsAfterMain(t) PROVE LogInv'
  <2>1. /\ EntersWrite(t) /\ main # "start" /\ (t = Main => main = "running")
        /\ UNCHANGED <<mutex, stream, undefined>> /\ UNCHANGED <<FileWriter_, open, main>>
    BY <1>1 DEF Log, LogsAfterMain
  <2> QED
    BY <2>1, EnterKeeps DEF LogInv, Fresh
<1>2. ASSUME NEW t \in Threads, WriteStep(t) PROVE LogInv'
  BY <1>2, LockKeeps, InsertKeeps, UnLockKeeps DEF WriteStep
<1>3. CASE MainStep \/ Return
  BY <1>3, InitalizeKeeps, MainKeeps DEF MainStep
<1>4. CASE UNCHANGED vars
  BY <1>4 DEF vars, LogInv, TypeOK, Fresh, Numbered, MainReturned, Owned, HalfWritten, WholeLines
<1> QED
  BY <1>1, <1>2, <1>3, <1>4 DEF Next

\* Every variable keeps its type, and no thread is inside of Write before there is
\* a FileWriter_.
THEOREM LogTypes == Spec => []TypeOK
<1>1. LogInv => TypeOK
  BY DEF LogInv
<1> QED
  BY InitLog, StepKeeps, <1>1, PTL DEF Spec

\* A thread unlocks a mutex it does not own only when the file is not open: Write
\* pairs each lock with one unlock.
THEOREM UnlocksPaired == Spec => []UnlockedOnce
<1>1. LogInv => UnlockedOnce
  BY DEF LogInv, Owned, UnlockedOnce
<1> QED
  BY InitLog, StepKeeps, <1>1, PTL DEF Spec

\* The lines in an open file are whole and follow each other.
THEOREM LinesAreWhole == Spec => []WholeLines
<1>1. LogInv => WholeLines
  BY DEF LogInv
<1> QED
  BY InitLog, StepKeeps, <1>1, PTL DEF Spec

----------------------------------------------------------------------------
(* The refinement.                                                         *)

\* The calls of Log whose lines are complete, or that the stream did not take.
Returned(t) ==
  IF pc[t] \in {"lock", "is_open", "insert", "rest"} THEN calls[t] - 1 ELSE calls[t]

\* The numbers of the complete lines of thread t.
Completed(t) == {n \in 1 .. MaxLines : \E i \in DOMAIN stream : stream[i] = <<t, n, 2>>}

\* Nothing is logged before Initalize; while the file is open each line of a
\* call that has returned is in it.
CallsLogged ==
  /\ main = "start" => \A t \in Threads : calls[t] = 0
  /\ open => \A t \in Threads : Completed(t) = 1 .. Returned(t)

\* The second part of a line completes it.
LEMMA CompletesLine ==
  ASSUME LogInv, CallsLogged, NEW t \in Threads, InsertLine(t)
  PROVE  CallsLogged'
<1>1. PICK part \in {1, 2} :
        /\ pc[t] = IF part = 1 THEN "insert" ELSE "rest"
        /\ pc' = [pc EXCEPT ![t] = IF part = 1 THEN "rest" ELSE "guard"]
        /\ stream' = IF open THEN Append(stream, <<t, calls[t], part>>) ELSE stream
        /\ UNCHANGED <<mutex, calls, FileWriter_, open, main, undefined>>
  BY DEF InsertLine, Insert, Goto
<1>2. main # "start" /\ calls[t] \in 1 .. MaxLines
  BY <1>1 DEF LogInv, TypeOK, Fresh, Numbered
<1>3. ASSUME open, NEW u \in Threads
      PROVE  Completed(u)' = 1 .. Returned(u)'
  <2>1. /\ DOMAIN stream = 1 .. Len(stream) /\ Len(stream) \in Nat
        /\ DOMAIN stream' = 1 .. Len(stream) + 1
        /\ stream'[Len(stream) + 1] = <<t, calls[t], part>>
        /\ \A i \in DOMAIN stream : stream'[i] = stream[i]
    BY <1>1, <1>3 DEF LogInv, TypeOK
  <2>2. Completed(u)' = Completed(u) \cup (IF u = t /\ part = 2 THEN {calls[t]} ELSE {})
    BY <1>2, <2>1 DEF Completed
  <2>3. Returned(u)' = IF u = t /\ part = 2 THEN calls[t] ELSE Returned(u)
    BY <1>1 DEF Returned, LogInv, TypeOK
  <2>4. Completed(u) = 1 .. Returned(u)
    BY <1>3 DEF CallsLogged
  <2>5. Returned(t) = calls[t] - 1
    BY <1>1 DEF Returned
  <2> QED
    BY <1>2, <2>2, <2>3, <2>4, <2>5
<1> QED
  BY <1>1, <1>2, <1>3 DEF CallsLogged

\* No other step does.
LEMMA CallsStayLogged ==
  ASSUME LogInv, CallsLogged, stream' = stream, open' => open,
         main' = "start" => main = "start" /\ calls' = calls,
         \A t \in Threads : open => Returned(t)' = Returned(t)
  PROVE  CallsLogged'
<1>1. \A t \in Threads : Completed(t)' = Completed(t)
  BY DEF Completed
<1> QED
  BY <1>1 DEF CallsLogged

\* Every step keeps it.
LEMMA StepLogs == LogInv /\ CallsLogged /\ [Next]_vars => CallsLogged'
<1> SUFFICES ASSUME LogInv, CallsLogged, [Next]_vars PROVE CallsLogged'
  OBVIOUS
<1> DEFINE Kept == \A t \in Threads : open => Returned(t)' = Returned(t)
<1>1. ASSUME NEW t \in Threads, Log(t) \/ LogsAfterMain(t) PROVE CallsLogged'
  <2>1. /\ pc[t] = "idle" /\ pc' = [pc EXCEPT ![t] = "lock"]
        /\ calls' = [calls EXCEPT ![t] = @ + 1]
        /\ main' # "start" /\ UNCHANGED <<stream, open>>
    BY <1>1 DEF Log, LogsAfterMain, EntersWrite, Goto
  <2>2. Kept
    BY <2>1 DEF Returned, LogInv, TypeOK
  <2> QED
    BY <2>1, <2>2, CallsStayLogged
<1>2. ASSUME NEW t \in Threads, LockFile(t) \/ IsOpen(t) \/ UnLockEarly(t) \/ EndGuard(t)
      PROVE  CallsLogged'
  <2>1. PICK label \in InWrite \cup {"idle"} :
          /\ pc' = [pc EXCEPT ![t] = label]
          /\ open => \/ pc[t] \in {"lock", "is_open"} /\ label \in {"is_open", "insert"}
                     \/ pc[t] = "guard" /\ label = "idle"
          /\ UNCHANGED <<calls, stream, open, main>>
    <3>1. CASE LockFile(t)
      BY <3>1 DEF LockFile, Goto, InWrite
    <3>2. CASE IsOpen(t)
      BY <3>2 DEF IsOpen, Goto, InWrite
    <3>3. CASE UnLockEarly(t)
      BY <3>3 DEF UnLockEarly, Goto, InWrite, LogInv, Owned
    <3>4. CASE EndGuard(t)
      BY <3>4 DEF EndGuard, Goto, InWrite
    <3> QED
      BY <1>2, <3>1, <3>2, <3>3, <3>4
  <2>2. Kept
    BY <2>1 DEF Returned, LogInv, TypeOK
  <2> QED
    BY <2>1, <2>2, CallsStayLogged
<1>3. CASE Initalize
  <2>1. /\ pc' = [pc EXCEPT ![Main] = "lock"]
        /\ calls' = [calls EXCEPT ![Main] = @ + 1]
        /\ main = "start" /\ main' = "header" /\ UNCHANGED stream
    BY <1>3 DEF Initalize, EntersWrite, Goto
  <2>2. stream = <<>> /\ \A t \in Threads : pc[t] = "idle" /\ calls[t] = 0
    BY <2>1 DEF LogInv, Fresh, CallsLogged
  <2>3. \A t \in Threads : Returned(t)' = 0
    BY <2>1, <2>2 DEF Returned, LogInv, TypeOK
  <2>4. \A t \in Threads : Completed(t)' = {}
    BY <2>1, <2>2 DEF Completed
  <2>5. \A t \in Threads : Completed(t)' = 1 .. Returned(t)'
    BY <2>3, <2>4
  <2>6. main' # "start"
    BY <2>1
  <2> QED
    BY <2>5, <2>6 DEF CallsLogged
<1>4. CASE StartServer \/ Return \/ LockToClose \/ Close \/ Exit
  <2>1. UNCHANGED <<pc, calls, stream>> /\ main' # "start" /\ (open' => open)
    BY <1>4 DEF StartServer, Return, LockToClose, Close, Exit
  <2>2. Kept
    BY <2>1 DEF Returned
  <2> QED
    BY <2>1, <2>2, CallsStayLogged
<1>5. CASE UNCHANGED vars
  BY <1>5 DEF vars, CallsLogged, Completed, Returned
<1> QED
  BY <1>1, <1>2, <1>3, <1>4, <1>5, CompletesLine DEF Next, MainStep, WriteStep

\* The numbers in the log are those of the complete lines.
LEMMA NumbersCompleted ==
  ASSUME LogInv, open, NEW t \in Threads
  PROVE  Appended!Numbers(t) = Completed(t)
<1>1. /\ Len(stream) \in Nat /\ DOMAIN stream = 1 .. Len(stream)
      /\ \A i \in DOMAIN stream : stream[i] \in Threads \X (1 .. MaxLines) \X {1, 2}
      /\ \A i \in DOMAIN stream : stream[i][3] = IF i % 2 = 1 THEN 1 ELSE 2
  <2>1. /\ Len(stream) \in Nat /\ DOMAIN stream = 1 .. Len(stream)
        /\ \A i \in DOMAIN stream : stream[i] \in Threads \X (1 .. MaxLines) \X {1, 2}
    BY DEF LogInv, TypeOK
  <2>2. \A i \in DOMAIN stream : stream[i][3] = IF i % 2 = 1 THEN 1 ELSE 2
    BY DEF LogInv, WholeLines
  <2> QED
    BY <2>1, <2>2
<1>2. DOMAIN Lines = 1 .. (Len(stream) \div 2)
  BY DEF Lines
<1>3. \A i \in DOMAIN Lines : /\ 2 * i \in DOMAIN stream /\ (2 * i) % 2 = 0
                             /\ Lines[i] = <<stream[2 * i][1], stream[2 * i][2]>>
  BY <1>1, <1>2 DEF Lines
<1>4. ASSUME NEW n \in Appended!Numbers(t) PROVE n \in Completed(t)
  <2>1. PICK i \in DOMAIN Lines : Lines[i][1] = t /\ Lines[i][2] = n
    BY <1>4 DEF Appended!Numbers
  <2>2. stream[2 * i][1] = t /\ stream[2 * i][2] = n /\ stream[2 * i][3] = 2
    BY <1>1, <1>3, <2>1
  <2>3. stream[2 * i] = <<t, n, 2>> /\ n \in 1 .. MaxLines
    BY <1>1, <1>3, <2>2
  <2> QED
    BY <1>3, <2>3 DEF Completed
<1>5. ASSUME NEW n \in Completed(t) PROVE n \in Appended!Numbers(t)
  <2>1. PICK i \in DOMAIN stream : stream[i] = <<t, n, 2>>
    BY <1>5 DEF Completed
  <2>2. i \in 1 .. Len(stream) /\ i % 2 = 0
    BY <1>1, <2>1
  <2>3. i \div 2 \in 1 .. (Len(stream) \div 2) /\ 2 * (i \div 2) = i
    BY <1>1, <2>2
  <2>4. i \div 2 \in DOMAIN Lines /\ Lines[i \div 2] = <<t, n>>
    BY <1>2, <1>3, <2>1, <2>3
  <2> QED
    BY <2>4 DEF Appended!Numbers
<1> QED
  BY <1>4, <1>5

\* A part of a line changes the log when it is the second one.
LEMMA InsertAdds ==
  ASSUME LogInv, CallsLogged, NEW t \in Threads, InsertLine(t), open
  PROVE  UNCHANGED Lines \/ Appended!AddLine(t)
<1>1. PICK part \in {1, 2} :
        /\ pc[t] = IF part = 1 THEN "insert" ELSE "rest"
        /\ stream' = Append(stream, <<t, calls[t], part>>)
        /\ UNCHANGED open
  <2>1. CASE pc[t] = "insert" /\ Insert(t, 1)
    BY <2>1 DEF Insert
  <2>2. CASE pc[t] = "rest" /\ Insert(t, 2)
    BY <2>2 DEF Insert
  <2> QED
    BY <2>1, <2>2 DEF InsertLine
<1>2. PICK n \in Nat : n = Len(stream)
  BY Parts DEF LogInv
<1>3. /\ DOMAIN stream = 1 .. n
      /\ Len(stream') = n + 1 /\ stream'[n + 1] = <<t, calls[t], part>>
      /\ \A i \in 1 .. n : stream'[i] = stream[i]
  BY <1>1, <1>2 DEF LogInv, TypeOK
<1>4. /\ n \div 2 \in Nat
      /\ \A i \in 1 .. (n \div 2) : 2 * i \in 1 .. n
  OBVIOUS
<1>5. CASE part = 1
  <2>1. n % 2 = 0
    BY <1>1, <1>2, <1>5, Parity DEF LogInv, WholeLines, Owned, Locked
  <2>2. (n + 1) \div 2 = n \div 2
    BY <2>1
  <2> QED
    BY <1>2, <1>3, <1>4, <2>2 DEF Lines
<1>6. CASE part = 2
  <2>1. n % 2 = 1
    BY <1>1, <1>2, <1>6 DEF LogInv, HalfWritten
  <2>2. (n + 1) \div 2 = (n \div 2) + 1 /\ 2 * ((n \div 2) + 1) = n + 1
    BY <2>1
  <2>3. Lines' = Append(Lines, <<t, calls[t]>>)
    <3>1. Lines = [i \in 1 .. (n \div 2) |-> <<stream[2 * i][1], stream[2 * i][2]>>]
      BY <1>2 DEF Lines
    <3>2. Lines' = [i \in 1 .. (n \div 2) + 1 |-> <<stream'[2 * i][1], stream'[2 * i][2]>>]
      BY <1>3, <2>2 DEF Lines
    <3>3. Len(Lines) = n \div 2
      BY <1>4, <3>1
    <3>4. Append(Lines, <<t, calls[t]>>) =
            [i \in 1 .. (n \div 2) + 1 |-> IF i = (n \div 2) + 1 THEN <<t, calls[t]>> ELSE Lines[i]]
      BY <1>4, <3>1, <3>3
    <3>5. \A i \in 1 .. (n \div 2) + 1 :
            <<stream'[2 * i][1], stream'[2 * i][2]>> =
              IF i = (n \div 2) + 1 THEN <<t, calls[t]>> ELSE Lines[i]
      <4> SUFFICES ASSUME NEW i \in 1 .. (n \div 2) + 1
                   PROVE  <<stream'[2 * i][1], stream'[2 * i][2]>> =
                            IF i = (n \div 2) + 1 THEN <<t, calls[t]>> ELSE Lines[i]
        OBVIOUS
      <4>1. CASE i = (n \div 2) + 1
        <5>1. stream'[2 * i] = <<t, calls[t], 2>>
          BY <1>3, <1>6, <2>2, <4>1
        <5> QED
          BY <4>1, <5>1
      <4>2. CASE i \in 1 .. (n \div 2)
        <5>1. 2 * i \in 1 .. n /\ i # (n \div 2) + 1
          BY <1>4, <4>2
        <5>2. stream'[2 * i] = stream[2 * i]
          BY <1>3, <5>1
        <5>3. Lines[i] = <<stream[2 * i][1], stream[2 * i][2]>>
          BY <3>1, <4>2
        <5> QED
          BY <5>1, <5>2, <5>3
      <4> QED
        BY <1>4, <4>1, <4>2
    <3> QED
      BY <3>2, <3>4, <3>5
  <2>4. Appended!Numbers(t) = 1 .. (calls[t] - 1) /\ calls[t] \in 1 .. MaxLines
    BY <1>1, <1>6, NumbersCompleted DEF CallsLogged, Returned, LogInv, TypeOK, Numbered
  <2>5. calls[t] \in {1} \cup {m + 1 : m \in Appended!Numbers(t)}
    <3>1. calls[t] = 1 \/ (calls[t] - 1 \in Appended!Numbers(t) /\ (calls[t] - 1) + 1 = calls[t])
      BY <2>4
    <3> QED
      BY <3>1
  <2>6. calls[t] \notin Appended!Numbers(t)
    BY <2>4
  <2> QED
    BY <1>1, <2>3, <2>5, <2>6 DEF Appended!AddLine
<1> QED
  BY <1>5, <1>6

\* The log of whole lines: each line of a thread is added once, in the order of
\* its calls, as long as the file is open, and nothing is added once it is closed.
THEOREM LogImplemented == Spec => ImplementsAppendLog
<1>1. Init => CallsLogged /\ Appended!Init
  <2> SUFFICES ASSUME Init PROVE CallsLogged /\ Appended!Init
    OBVIOUS
  <2>1. stream = <<>> /\ ~open /\ open = FALSE /\ \A t \in Threads : calls[t] = 0
    BY DEF Init
  <2>2. Lines = <<>>
    BY <2>1 DEF Lines
  <2> QED
    BY <2>1, <2>2 DEF CallsLogged, Appended!Init
<1>2. ASSUME LogInv, CallsLogged, [Next]_vars
      PROVE  [\/ Appended!Open \/ Appended!Close
              \/ \E t \in Threads : Appended!AddLine(t)]_<<Lines, open>>
  <2>1. UNCHANGED stream => UNCHANGED Lines
    BY DEF Lines
  <2>2. ASSUME NEW t \in Threads, InsertLine(t)
        PROVE  \/ UNCHANGED <<Lines, open>>
               \/ Appended!AddLine(t)
    <3>1. open' = open
      BY <2>2 DEF InsertLine, Insert
    <3>2. CASE ~open
      BY <2>1, <2>2, <3>1, <3>2 DEF InsertLine, Insert
    <3>3. CASE open
      BY <1>2, <2>2, <3>1, <3>3, InsertAdds
    <3> QED
      BY <3>2, <3>3
  <2>3. CASE Initalize
    <3>1. ~open /\ open' \in BOOLEAN /\ UNCHANGED stream /\ stream = <<>>
      BY <1>2, <2>3 DEF Initalize, LogInv, Fresh
    <3>2. Lines = <<>>
      BY <3>1 DEF Lines
    <3>3. open \in BOOLEAN
      BY <1>2 DEF LogInv, TypeOK
    <3> QED
      BY <2>1, <3>1, <3>2, <3>3 DEF Appended!Open
  <2>4. CASE Close
    <3>1. UNCHANGED stream /\ open' = FALSE /\ open \in BOOLEAN
      BY <1>2, <2>4 DEF Close, LogInv, TypeOK
    <3> QED
      BY <2>1, <3>1 DEF Appended!Close
  <2>5. ASSUME NEW t \in Threads,
               \/ LockFile(t) \/ IsOpen(t) \/ UnLockEarly(t) \/ EndGuard(t)
               \/ Log(t) \/ LogsAfterMain(t)
        PROVE  UNCHANGED <<stream, open>>
    BY <2>5 DEF LockFile, IsOpen, UnLockEarly, EndGuard, Log, LogsAfterMain
  <2>6. CASE StartServer \/ Return \/ LockToClose \/ Exit \/ UNCHANGED vars
    <3>1. UNCHANGED <<stream, open>>
      BY <2>6 DEF StartServer, Return, LockToClose, Exit, vars
    <3> QED
      BY <2>1, <3>1
  <2> QED
    BY <1>2, <2>1, <2>2, <2>3, <2>4, <2>5, <2>6 DEF Next, MainStep, WriteStep
<1> QED
  BY InitLog, StepKeeps, StepLogs, <1>1, <1>2, PTL DEF Spec, ImplementsAppendLog, Appended!Spec
=============================================================================
