-------------------------- MODULE SessionDirectory --------------------------
(***************************************************************************)
(* What the accept thread, the workers and the session pool promise        *)
(* together: a directory of the connections that are being served.  A      *)
(* connection is entered under a new id, at most Capacity of them are      *)
(* there at a time, a handle is there once, and an id that was given out   *)
(* is never given to another connection.                                   *)
(***************************************************************************)
EXTENDS Integers, FiniteSets

CONSTANTS Ids, Handles, NoHandle, Capacity

VARIABLES
  served,    \* [Ids -> Handles \cup {NoHandle}]
  issued     \* the ids given out so far

dirVars == <<served, issued>>

Entered == {id \in Ids : served[id] # NoHandle}

DirInit ==
  /\ served = [id \in Ids |-> NoHandle]
  /\ issued = {}

Enter(id, k) ==
  /\ id \notin issued
  /\ Cardinality(Entered) < Capacity
  /\ \A other \in Ids : served[other] # k
  /\ served' = [served EXCEPT ![id] = k]
  /\ issued' = issued \cup {id}

Remove(id) ==
  /\ id \in Entered
  /\ served' = [served EXCEPT ![id] = NoHandle]
  /\ UNCHANGED issued

DirNext ==
  \/ \E id \in Ids, k \in Handles : Enter(id, k)
  \/ \E id \in Ids : Remove(id)

DirSpec == DirInit /\ [][DirNext]_dirVars
=============================================================================
