---------------------------- MODULE SessionPool ----------------------------
(***************************************************************************)
(* CSessionPool and the CSession objects it owns (Network/SessionPool.cpp, *)
(* Network/Session.cpp).                                                   *)
(*                                                                         *)
(* aSessionPool_ is an array of MAX_SESSION sessions that are reused: a    *)
(* session is free when its isRun_ is false, and its ID_ keeps the last    *)
(* value after Clear().  UsingSessions_ maps the id of a session to the    *)
(* session.  JoinSession and LeaveSession hold SessionLock_ from the first *)
(* read to the last write, so each of them is one step.                    *)
(***************************************************************************)
EXTENDS Winsock

CONSTANTS
  MAX_SESSION,     \* sessions in aSessionPool_
  IdSpace,         \* number of values of a session id; 2^32 in the code
  INVALID_SOCKET   \* what Socket_ holds when there is no handle

ASSUME PoolAssumption ==
  /\ MAX_SESSION \in Nat \ {0}
  /\ IdSpace \in Nat \ {0}
  /\ Keys = 1 .. MAX_SESSION      \* a completion key is a CSession*
  /\ INVALID_SOCKET \notin Sockets

VARIABLES
  isRun_,          \* [Slots -> BOOLEAN]
  ID_,             \* [Slots -> Ids], kept by Clear()
  Socket_,         \* [Slots -> Sockets \cup {INVALID_SOCKET}]
  UsingSessions_   \* [Ids -> Slots \cup {NotFound}], the unordered_map

poolVars == <<isRun_, ID_, Socket_, UsingSessions_>>

Slots == 1 .. MAX_SESSION
Ids == 0 .. (IdSpace - 1)

\* Not the code: a value that a uint32_t does not have.
UNREGISTED_TooWide == IdSpace

\* UINT32_MAX: an ordinary value of the id counter as well.
UNREGISTED_SESSIONID == IdSpace - 1

\* A key that UsingSessions_ does not have: at() throws std::out_of_range.
NotFound == 0

PoolTypeOK ==
  /\ isRun_ \in [Slots -> BOOLEAN]
  /\ ID_ \in [Slots -> Ids]
  /\ Socket_ \in [Slots -> Sockets \cup {INVALID_SOCKET}]
  /\ UsingSessions_ \in [Ids -> Slots \cup {NotFound}]

PoolInit ==
  /\ isRun_ = [s \in Slots |-> FALSE]
  /\ ID_ = [s \in Slots |-> UNREGISTED_SESSIONID]
  /\ Socket_ = [s \in Slots |-> INVALID_SOCKET]
  /\ UsingSessions_ = [id \in Ids |-> NotFound]

\* The keys of UsingSessions_.
Live == {id \in Ids : UsingSessions_[id] # NotFound}

FreeSlots == {s \in Slots : ~isRun_[s]}

\* Not the code: the scan does not look at isRun_.
FirstFree_IgnoresRun == CHOOSE s \in Slots : \A t \in Slots : s <= t

\* JoinSession scans aSessionPool_ from index 0.
FirstFree == CHOOSE s \in FreeSlots : \A t \in FreeSlots : s <= t

----------------------------------------------------------------------------

\* CSession::Initalize.
Initalize(s, socket, id) ==
  /\ isRun_' = [isRun_ EXCEPT ![s] = TRUE]
  /\ Socket_' = [Socket_ EXCEPT ![s] = socket]
  /\ ID_' = [ID_ EXCEPT ![s] = id]

\* Not the code: the handle is closed and still remembered.
Clear_KeepsSocket(s) ==
  /\ CloseSocket(Socket_[s])
  /\ isRun_' = [isRun_ EXCEPT ![s] = FALSE]
  /\ UNCHANGED <<Socket_, ID_>>

\* CSession::Clear.
Clear(s) ==
  /\ CloseSocket(Socket_[s])
  /\ isRun_' = [isRun_ EXCEPT ![s] = FALSE]
  /\ Socket_' = [Socket_ EXCEPT ![s] = INVALID_SOCKET]
  /\ UNCHANGED ID_

\* JoinSession when a session is free; nullptr, and no change, otherwise.
JoinSession(socket, id) ==
  /\ FreeSlots # {}
  /\ Initalize(FirstFree, socket, id)
  /\ UsingSessions_' = [UsingSessions_ EXCEPT ![id] = FirstFree]

\* Not the code: without UsingSessions_.erase.
LeaveSession_KeepsEntry(id) ==
  /\ id \in Live
  /\ Clear(UsingSessions_[id])
  /\ UNCHANGED UsingSessions_

\* LeaveSession(uint32_t) for an id that the map has.
LeaveSession(id) ==
  /\ id \in Live
  /\ Clear(UsingSessions_[id])
  /\ UsingSessions_' = [UsingSessions_ EXCEPT ![id] = NotFound]

=============================================================================
