----------------------------- MODULE MemoryPool -----------------------------
(***************************************************************************)
(* CDynamicMemoryPool (Common/MemoryPool.hpp) and a client of it.          *)
(*                                                                         *)
(* A block is named by its index in MemoryArray_.  The pool has no lock:   *)
(* its owner calls it under one (CSessionPool under SessionLock_).  A      *)
(* client may return any block at any time after Initalize; it is careful  *)
(* as long as it returned what it held, once, and before Destroy.          *)
(***************************************************************************)
EXTENDS Integers, Sequences

CONSTANTS
  PoolSize,   \* PoolSize_
  Word        \* number of values of an uint32_t

ASSUME MemoryAssumption ==
  /\ PoolSize \in Nat \ {0}
  /\ Word \in Nat /\ PoolSize < Word

Blocks == 0 .. PoolSize - 1

VARIABLES
  life,      \* "new", "ready" after Initalize, "deleted" after Destroy
  NotActivedMemoryQueue_,
  NotActivedMemoryNum_,
  ActivedMemoryNum_,
  held,      \* the blocks the client got and did not return
  careful    \* history: the client returned only blocks it held, before Destroy

vars == <<life, NotActivedMemoryQueue_, NotActivedMemoryNum_, ActivedMemoryNum_,
          held, careful>>

TypeOK ==
  /\ life \in {"new", "ready", "deleted"}
  /\ NotActivedMemoryQueue_ \in Seq(Blocks)
  /\ NotActivedMemoryNum_ \in 0 .. Word - 1
  /\ ActivedMemoryNum_ \in 0 .. Word - 1
  /\ held \subseteq Blocks
  /\ careful \in BOOLEAN

Init ==
  /\ life = "new"
  /\ NotActivedMemoryQueue_ = <<>>
  /\ NotActivedMemoryNum_ = PoolSize
  /\ ActivedMemoryNum_ = 0
  /\ held = {}
  /\ careful = TRUE

\* Not the code: the loop starts at PoolSize_.
Initalize_OneTooFar ==
  /\ life = "new"
  /\ life' = "ready"
  /\ NotActivedMemoryQueue_' = [i \in 1 .. PoolSize |-> PoolSize - i + 1]
  /\ NotActivedMemoryNum_' = PoolSize
  /\ ActivedMemoryNum_' = 0
  /\ UNCHANGED <<held, careful>>

\* Blocks are made, and queued, from the last index down.
Initalize ==
  /\ life = "new"
  /\ life' = "ready"
  /\ NotActivedMemoryQueue_' = [i \in 1 .. PoolSize |-> PoolSize - i]
  /\ NotActivedMemoryNum_' = PoolSize
  /\ ActivedMemoryNum_' = 0
  /\ UNCHANGED <<held, careful>>

\* Not the code: without pop().
GetMemory_KeepsFront ==
  /\ life # "new"
  /\ NotActivedMemoryNum_ # 0
  /\ held' = held \cup {Head(NotActivedMemoryQueue_)}
  /\ UNCHANGED NotActivedMemoryQueue_
  /\ NotActivedMemoryNum_' = (NotActivedMemoryNum_ - 1) % Word
  /\ ActivedMemoryNum_' = (ActivedMemoryNum_ + 1) % Word
  /\ UNCHANGED <<life, careful>>

\* nullptr, and no change, when no block is left.
GetMemory ==
  /\ life # "new"
  /\ NotActivedMemoryNum_ # 0
  /\ held' = held \cup {Head(NotActivedMemoryQueue_)}
  /\ NotActivedMemoryQueue_' = Tail(NotActivedMemoryQueue_)
  /\ NotActivedMemoryNum_' = (NotActivedMemoryNum_ - 1) % Word
  /\ ActivedMemoryNum_' = (ActivedMemoryNum_ + 1) % Word
  /\ UNCHANGED <<life, careful>>

\* The client gives block b back, whether it has it or not.
GivesBack(b) ==
  /\ life # "new"
  /\ held' = held \ {b}
  /\ careful' = (careful /\ life = "ready" /\ b \in held)
  /\ UNCHANGED life

\* Not the code: a full pool takes a block as well.
ReturnMemory_NoLimit ==
  \E b \in Blocks :
    /\ GivesBack(b)
    /\ NotActivedMemoryQueue_' = Append(NotActivedMemoryQueue_, b)
    /\ NotActivedMemoryNum_' = (NotActivedMemoryNum_ + 1) % Word
    /\ ActivedMemoryNum_' = (ActivedMemoryNum_ - 1) % Word

\* Not the code: the block is counted and not queued.
ReturnMemory_Forgets ==
  \E b \in Blocks :
    /\ GivesBack(b)
    /\ NotActivedMemoryNum_ # PoolSize
    /\ UNCHANGED NotActivedMemoryQueue_
    /\ NotActivedMemoryNum_' = (NotActivedMemoryNum_ + 1) % Word
    /\ ActivedMemoryNum_' = (ActivedMemoryNum_ - 1) % Word

\* A pool that counts PoolSize_ free blocks takes nothing; no other check is
\* made ("should it be checked whether the data was one of the pool's?", :108).
ReturnMemory ==
  \E b \in Blocks :
    /\ GivesBack(b)
    /\ NotActivedMemoryNum_ # PoolSize
    /\ NotActivedMemoryQueue_' = Append(NotActivedMemoryQueue_, b)
    /\ NotActivedMemoryNum_' = (NotActivedMemoryNum_ + 1) % Word
    /\ ActivedMemoryNum_' = (ActivedMemoryNum_ - 1) % Word

\* The blocks are deleted; NotActivedMemoryQueue_ keeps their addresses.  The
\* destructor calls it again, and then the pool is gone.
Destroy ==
  /\ life = "ready"
  /\ life' = "deleted"
  /\ NotActivedMemoryNum_' = 0
  /\ ActivedMemoryNum_' = 0
  /\ UNCHANGED <<NotActivedMemoryQueue_, held, careful>>

Next == Initalize \/ GetMemory \/ ReturnMemory \/ Destroy

Spec == Init /\ [][Next]_vars

----------------------------------------------------------------------------
(* Correctness.                                                            *)

\* The blocks of the queue.
Queued == {NotActivedMemoryQueue_[i] : i \in DOMAIN NotActivedMemoryQueue_}

\* Whatever blocks a client returns: until Destroy the two counters add up to
\* PoolSize_ and the queue is as long as NotActivedMemoryNum_ says, and front()
\* is never called on an empty queue, not even after Destroy.
Counted ==
  /\ life = "ready" => /\ Len(NotActivedMemoryQueue_) = NotActivedMemoryNum_
                       /\ NotActivedMemoryNum_ + ActivedMemoryNum_ = PoolSize
  /\ life = "deleted" => NotActivedMemoryNum_ <= Len(NotActivedMemoryQueue_)

\* While the client was careful a block is queued once or held, never both and
\* never neither: GetMemory gives no block to two, and none is lost.
EachBlockOnce ==
  careful /\ life = "ready" =>
    /\ \A i, j \in DOMAIN NotActivedMemoryQueue_ :
         NotActivedMemoryQueue_[i] = NotActivedMemoryQueue_[j] => i = j
    /\ Queued = Blocks \ held

\* The pool with its queue and counters is a set of free blocks and a set of
\* lent ones, until it is destroyed or the client is careless.
Pool == INSTANCE BlockPool WITH
  free <- IF careful /\ life = "ready" THEN Queued ELSE {},
  lent <- IF careful /\ life = "ready" THEN held ELSE {}

\* Until then it gives out free blocks only and loses none, step by step.
ImplementsPool == Pool!Spec
=============================================================================
