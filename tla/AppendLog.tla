------------------------------ MODULE AppendLog ------------------------------
(***************************************************************************)
(* What the log promises as long as its file is open: each line is added   *)
(* at the end, once and whole, the lines of a thread in the order of its   *)
(* calls.  Once the file is closed nothing is added.                       *)
(***************************************************************************)
EXTENDS Naturals, Sequences

CONSTANT Threads

VARIABLES log, open

\* The numbers of the lines of thread t.
Numbers(t) == {log[i][2] : i \in {j \in DOMAIN log : log[j][1] = t}}

Init == log = <<>> /\ open = FALSE

Open == log = <<>> /\ ~open /\ open' = TRUE /\ UNCHANGED log

\* The first line, or one after another, that is not there yet.
AddLine(t) ==
  /\ open
  /\ \E n \in {1} \cup {m + 1 : m \in Numbers(t)} :
       n \notin Numbers(t) /\ log' = Append(log, <<t, n>>)
  /\ UNCHANGED open

Close == open /\ open' = FALSE /\ UNCHANGED log

Spec == Init /\ [][Open \/ Close \/ \E t \in Threads : AddLine(t)]_<<log, open>>
=============================================================================
