------------------------------- MODULE LogFile -------------------------------
(***************************************************************************)
(* The log of the servers: CLogSystem (Common/LogSystem.cpp), its          *)
(* CTextFileWriter (Common/TextFileWriter.cpp) and CMutexLock with the     *)
(* lock guard macros (Common/Lock.h), used by main and the threads that    *)
(* StartServer starts.                                                     *)
(*                                                                         *)
(* A line is <<thread, number of the call>>; it reaches the stream in two  *)
(* parts, so that two threads in Write could mix their lines.              *)
(***************************************************************************)
EXTENDS Naturals, Sequences

CONSTANTS
  Loggers,      \* the accept thread and the workers
  Main,         \* the thread of main
  MaxLines      \* bound: lines a thread logs

ASSUME LogAssumption ==
  /\ Main \notin Loggers
  /\ "free" \notin Loggers \cup {Main}
  /\ MaxLines \in Nat \ {0}

Threads == Loggers \cup {Main}

VARIABLES
  mutex,        \* Mutex_: a thread, "free", or "stuck" for good
  pc,           \* where each thread is in Write
  calls,        \* the calls of Log a thread has made
  FileWriter_,  \* is CLogSystem::FileWriter_ set?
  open,         \* OS_.is_open()
  stream,       \* the parts of lines inserted into OS_
  main,         \* what main is doing
  undefined     \* was the mutex unlocked by a thread that does not own it?

vars == <<mutex, pc, calls, FileWriter_, open, stream, main, undefined>>

InWrite == {"lock", "is_open", "insert", "rest", "unlock", "guard"}

\* No thread is inside Write before there is a writer.
TypeOK ==
  /\ mutex \in Threads \cup {"free", "stuck"}
  /\ pc \in [Threads -> InWrite \cup {"idle"}]
  /\ calls \in [Threads -> 0 .. MaxLines]
  /\ FileWriter_ \in BOOLEAN /\ open \in BOOLEAN /\ undefined \in BOOLEAN
  /\ stream \in Seq(Threads \X (1 .. MaxLines) \X {1, 2})
  /\ main \in {"start", "header", "running", "lock", "close", "closed", "exited"}
  /\ FileWriter_ \/ \A t \in Threads : pc[t] = "idle"

\* FileWriter_ is null until Initalize.
Init ==
  /\ mutex = "free" /\ open = FALSE /\ undefined = FALSE
  /\ pc = [t \in Threads |-> "idle"]
  /\ calls = [t \in Threads |-> 0]
  /\ FileWriter_ = FALSE
  /\ stream = <<>>
  /\ main = "start"

Goto(t, label) == pc' = [pc EXCEPT ![t] = label]
----------------------------------------------------------------------------
(* CMutexLock and the lock guard.                                          *)

Lock(t) == mutex = "free" /\ mutex' = t

\* Unlocking a mutex that another thread owns, or that no thread owns, is
\* undefined: nothing happens, the owner loses the mutex, or the count of the
\* mutex is off by one from then on and no later unlock frees it.
UnLock(t) ==
  IF mutex = t THEN mutex' = "free" /\ UNCHANGED undefined
  ELSE mutex' \in {mutex, "free", "stuck"} /\ undefined' = TRUE
----------------------------------------------------------------------------
(* CTextFileWriter::Write, entered with a line by Log or Initalize.        *)

EntersWrite(t) ==
  /\ pc[t] = "idle" /\ calls[t] < MaxLines
  /\ calls' = [calls EXCEPT ![t] = @ + 1]
  /\ Goto(t, "lock")

\* Not the code: Write does not lock.
LockFile_NoLock(t) ==
  /\ pc[t] = "lock"
  /\ Goto(t, "is_open")
  /\ UNCHANGED <<mutex, calls, FileWriter_, open, stream, main, undefined>>

LockFile(t) ==
  /\ pc[t] = "lock" /\ Lock(t)
  /\ Goto(t, "is_open")
  /\ UNCHANGED <<calls, FileWriter_, open, stream, main, undefined>>

IsOpen(t) ==
  /\ pc[t] = "is_open"
  /\ Goto(t, IF open THEN "insert" ELSE "unlock")
  /\ UNCHANGED <<mutex, calls, FileWriter_, open, stream, main, undefined>>

\* When the file is not open Write unlocks FileLock_ itself and returns, and
\* the guard unlocks it again.
UnLockEarly(t) ==
  /\ pc[t] = "unlock" /\ UnLock(t)
  /\ Goto(t, "guard")
  /\ UNCHANGED <<calls, FileWriter_, open, stream, main>>

\* A stream that was closed meanwhile takes nothing.
Insert(t, part) ==
  /\ stream' = IF open THEN Append(stream, <<t, calls[t], part>>) ELSE stream
  /\ Goto(t, IF part = 1 THEN "rest" ELSE "guard")
  /\ UNCHANGED <<mutex, calls, FileWriter_, open, main, undefined>>

\* Not the code: the mutex is unlocked before the line is complete.
InsertLine_UnlocksFirst(t) ==
  \/ /\ pc[t] = "insert" /\ UnLock(t)
     /\ stream' = Append(stream, <<t, calls[t], 1>>)
     /\ Goto(t, "rest")
     /\ UNCHANGED <<calls, FileWriter_, open, main>>
  \/ /\ pc[t] = "rest"
     /\ stream' = Append(stream, <<t, calls[t], 2>>)
     /\ Goto(t, "idle")
     /\ UNCHANGED <<mutex, calls, FileWriter_, open, main, undefined>>

InsertLine(t) ==
  \/ pc[t] = "insert" /\ Insert(t, 1)
  \/ pc[t] = "rest" /\ Insert(t, 2)

\* Not the code: a guard that does not unlock.
EndGuard_Keeps(t) ==
  /\ pc[t] = "guard" /\ Goto(t, "idle")
  /\ UNCHANGED <<mutex, calls, FileWriter_, open, stream, main, undefined>>

\* The destructor of the guard.
EndGuard(t) ==
  /\ pc[t] = "guard" /\ UnLock(t)
  /\ Goto(t, "idle")
  /\ UNCHANGED <<calls, FileWriter_, open, stream, main>>
----------------------------------------------------------------------------
(* CLogSystem, as main and the threads use it.                             *)

\* Not the code: a log line before Initalize.
Log_BeforeInitalize(t) ==
  /\ main \in {"start", "running"}
  /\ EntersWrite(t)
  /\ UNCHANGED <<mutex, FileWriter_, open, stream, main, undefined>>

\* Log formats the line and passes it to FileWriter_->Write, without a check
\* of the pointer; its result is ignored.
Log(t) ==
  /\ main = "running"
  /\ EntersWrite(t)
  /\ UNCHANGED <<mutex, FileWriter_, open, stream, main, undefined>>

\* The threads go on when main has returned, until the process is gone.
LogsAfterMain(t) ==
  /\ t # Main /\ main \in {"lock", "close", "closed"}
  /\ EntersWrite(t)
  /\ UNCHANGED <<mutex, FileWriter_, open, stream, main, undefined>>

\* Initalize constructs the writer, which opens the file or does not, and
\* writes the date.
Initalize ==
  /\ main = "start"
  /\ main' = "header"
  /\ FileWriter_' = TRUE
  /\ open' \in BOOLEAN
  /\ EntersWrite(Main)
  /\ UNCHANGED <<mutex, stream, undefined>>

\* StartServer, once Initalize has returned.
StartServer ==
  /\ main = "header" /\ pc[Main] = "idle"
  /\ main' = "running"
  /\ UNCHANGED <<mutex, pc, calls, FileWriter_, open, stream, undefined>>

\* main returns, and the destructor of the static writer locks, closes and
\* unlocks.
Return ==
  /\ main = "running" /\ pc[Main] = "idle"
  /\ main' = "lock"
  /\ UNCHANGED <<mutex, pc, calls, FileWriter_, open, stream, undefined>>

LockToClose ==
  /\ main = "lock" /\ Lock(Main)
  /\ main' = "close"
  /\ UNCHANGED <<pc, calls, FileWriter_, open, stream, undefined>>

Close ==
  /\ main = "close"
  /\ open' = FALSE
  /\ main' = "closed"
  /\ UnLock(Main)
  /\ UNCHANGED <<pc, calls, FileWriter_, stream>>

\* The end of the process ends its threads, wherever they are.
Exit ==
  /\ main = "closed"
  /\ main' = "exited"
  /\ UNCHANGED <<mutex, pc, calls, FileWriter_, open, stream, undefined>>

WriteStep(t) ==
  /\ main # "exited"
  /\ LockFile(t) \/ IsOpen(t) \/ UnLockEarly(t) \/ InsertLine(t) \/ EndGuard(t)

MainStep == Initalize \/ StartServer \/ LockToClose \/ Close \/ Exit

Next ==
  \/ MainStep \/ Return
  \/ \E t \in Threads : WriteStep(t) \/ Log(t) \/ LogsAfterMain(t)

\* A thread that is inside Write goes on; nothing makes it log again.
Spec ==
  /\ Init /\ [][Next]_vars
  /\ \A t \in Threads : WF_vars(WriteStep(t))
  /\ WF_vars(MainStep)
----------------------------------------------------------------------------
(* Correctness.                                                            *)

\* The mutex is unlocked by a thread that does not own it only when the file
\* is not open: for the time it is open every Write pairs its lock with one
\* unlock, and so does the destructor.
UnlockedOnce == undefined => ~open

\* While the file is open its stream holds whole lines, one after the other,
\* but for the last one, which the owner of the mutex is writing.
WholeLines ==
  open =>
    /\ \A i \in DOMAIN stream :
         /\ stream[i][3] = IF i % 2 = 1 THEN 1 ELSE 2
         /\ i % 2 = 0 => stream[i - 1] = [stream[i] EXCEPT ![3] = 1]
    /\ Len(stream) % 2 = 1 =>
         mutex = stream[Len(stream)][1] /\ pc[mutex] = "rest"

\* The stream is a log of whole lines, in the order of each thread's calls.
Lines ==
  [i \in 1 .. (Len(stream) \div 2) |-> <<stream[2 * i][1], stream[2 * i][2]>>]

Appended == INSTANCE AppendLog WITH log <- Lines

\* Step by step: one line more at the end while the file is open, nothing once
\* it is closed, and nothing at all if it could not be opened.
ImplementsAppendLog == Appended!Spec

\* No thread keeps the mutex: Write, on every path, gives it back, unless the
\* process ends first.
MutexIsReleased ==
  \A t \in Threads : (mutex = t) ~> (mutex # t \/ main = "exited")
=============================================================================
