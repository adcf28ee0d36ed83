-------------------------- MODULE MemoryPoolProofs --------------------------
(***************************************************************************)
(* For any number of blocks: the counters and the queue agree whatever a   *)
(* client returns, and while the client is careful the pool is the set of  *)
(* free blocks that BlockPool describes.                                   *)
(***************************************************************************)
EXTENDS MemoryPool, TLAPS

\* Nothing was lent before Initalize.
NothingYet == life = "new" => NotActivedMemoryQueue_ = <<>> /\ held = {}

CountInv == TypeOK /\ Counted /\ NothingYet

\* The counters are numbers that a step changes by one within their range.
LEMMA Counters ==
  ASSUME NEW n \in 0 .. Word - 1
  PROVE  /\ (n + 1) % Word \in 0 .. Word - 1
         /\ (n - 1) % Word \in 0 .. Word - 1
         /\ n < Word - 1 => (n + 1) % Word = n + 1
         /\ n > 0 => (n - 1) % Word = n - 1
  BY MemoryAssumption

\* They agree before Initalize, and nothing is lent.
LEMMA InitCounts == Init => CountInv
  BY MemoryAssumption DEF Init, CountInv, TypeOK, Counted, NothingYet, Blocks

\* Initalize queues PoolSize_ blocks.
LEMMA InitalizeCounts == CountInv /\ Initalize => CountInv'
<1> SUFFICES ASSUME CountInv, Initalize PROVE CountInv'
  OBVIOUS
<1>1. \A i \in 1 .. PoolSize : PoolSize - i \in Blocks
  BY MemoryAssumption DEF Blocks
<1>2. NotActivedMemoryQueue_' \in Seq(Blocks) /\ Len(NotActivedMemoryQueue_') = PoolSize
  BY <1>1, MemoryAssumption DEF Initalize
<1> QED
  BY <1>2, MemoryAssumption DEF CountInv, TypeOK, Counted, NothingYet, Initalize

\* GetMemory takes one block from the queue and counts it.
LEMMA GetCounts == CountInv /\ GetMemory => CountInv'
<1> SUFFICES ASSUME CountInv, GetMemory PROVE CountInv'
  OBVIOUS
<1>1. NotActivedMemoryQueue_ \in Seq(Blocks) /\ NotActivedMemoryQueue_ # <<>>
  BY MemoryAssumption DEF CountInv, TypeOK, Counted, GetMemory
<1>2. /\ Head(NotActivedMemoryQueue_) \in Blocks
      /\ NotActivedMemoryQueue_' \in Seq(Blocks)
      /\ Len(NotActivedMemoryQueue_') = Len(NotActivedMemoryQueue_) - 1
  BY <1>1 DEF GetMemory
<1>3. TypeOK'
  BY <1>2, Counters DEF CountInv, TypeOK, GetMemory
<1>4. /\ NotActivedMemoryNum_' = NotActivedMemoryNum_ - 1
      /\ ActivedMemoryNum_ < Word - 1 => ActivedMemoryNum_' = ActivedMemoryNum_ + 1
  BY Counters DEF CountInv, TypeOK, GetMemory
<1>5. life = "ready" => ActivedMemoryNum_ < Word - 1
  BY <1>1, MemoryAssumption DEF CountInv, TypeOK, Counted, GetMemory
<1>6. Counted'
  <2>1. UNCHANGED life /\ NotActivedMemoryNum_ \in Int /\ ActivedMemoryNum_ \in Int
    BY MemoryAssumption DEF GetMemory, CountInv, TypeOK
  <2>2. Len(NotActivedMemoryQueue_) \in Int /\ Counted
    BY <1>1 DEF CountInv
  <2> QED
    BY <1>2, <1>4, <1>5, <2>1, <2>2 DEF Counted
<1> QED
  BY <1>3, <1>6 DEF CountInv, NothingYet, GetMemory

\* ReturnMemory, of any block, queues it and counts it; a full pool takes none.
LEMMA ReturnCounts == CountInv /\ ReturnMemory => CountInv'
<1> SUFFICES ASSUME CountInv, ReturnMemory PROVE CountInv'
  OBVIOUS
<1>1. PICK b \in Blocks :
        /\ NotActivedMemoryNum_ # PoolSize
        /\ NotActivedMemoryQueue_' = Append(NotActivedMemoryQueue_, b)
        /\ NotActivedMemoryNum_' = (NotActivedMemoryNum_ + 1) % Word
        /\ ActivedMemoryNum_' = (ActivedMemoryNum_ - 1) % Word
        /\ held' = held \ {b}
        /\ UNCHANGED life
  BY DEF ReturnMemory, GivesBack
<1>2. b \in Blocks /\ life # "new" /\ careful' \in BOOLEAN
  BY DEF ReturnMemory, GivesBack
<1>3. /\ NotActivedMemoryQueue_' \in Seq(Blocks)
      /\ Len(NotActivedMemoryQueue_') = Len(NotActivedMemoryQueue_) + 1
  BY <1>1, <1>2 DEF CountInv, TypeOK
<1>4. TypeOK'
  BY <1>1, <1>2, <1>3, Counters DEF CountInv, TypeOK
<1>5. /\ NotActivedMemoryNum_ < Word - 1 => NotActivedMemoryNum_' = NotActivedMemoryNum_ + 1
      /\ ActivedMemoryNum_ > 0 => ActivedMemoryNum_' = ActivedMemoryNum_ - 1
  BY <1>1, Counters DEF CountInv, TypeOK
<1>6. life = "ready" => NotActivedMemoryNum_ < PoolSize /\ ActivedMemoryNum_ > 0
  BY <1>1, MemoryAssumption DEF CountInv, TypeOK, Counted
<1>7. NotActivedMemoryNum_' <= NotActivedMemoryNum_ + 1
  BY <1>1, MemoryAssumption DEF CountInv, TypeOK
<1>8. Counted'
  BY <1>1, <1>2, <1>3, <1>5, <1>6, <1>7, MemoryAssumption DEF CountInv, TypeOK, Counted
<1> QED
  BY <1>1, <1>2, <1>4, <1>8 DEF CountInv, NothingYet

\* Every step keeps the agreement; Destroy leaves the queue longer than its count.
LEMMA StepCounts == CountInv /\ [Next]_vars => CountInv'
<1>1. CountInv /\ Destroy => CountInv'
  BY MemoryAssumption DEF CountInv, TypeOK, Counted, NothingYet, Destroy
<1>2. CountInv /\ UNCHANGED vars => CountInv'
  BY DEF CountInv, TypeOK, Counted, NothingYet, vars
<1> QED
  BY <1>1, <1>2, InitalizeCounts, GetCounts, ReturnCounts DEF Next

\* The queue holds blocks and the counters are numbers of their width, whatever
\* the client returns.
THEOREM PoolTypes == Spec => []TypeOK
<1>1. CountInv => TypeOK
  BY DEF CountInv
<1> QED
  BY InitCounts, StepCounts, <1>1, PTL DEF Spec

\* The counters agree with the queue, whatever the client returns.
THEOREM CountsAgree == Spec => []Counted
<1>1. CountInv => Counted
  BY DEF CountInv
<1> QED
  BY InitCounts, StepCounts, <1>1, PTL DEF Spec

----------------------------------------------------------------------------
(* While the client is careful.                                            *)

BlockInv == CountInv /\ EachBlockOnce

\* Every block is queued once after Initalize.
LEMMA InitalizeBlocks == BlockInv /\ Initalize => EachBlockOnce'
<1> SUFFICES ASSUME BlockInv, Initalize PROVE EachBlockOnce'
  OBVIOUS
<1>1. /\ DOMAIN NotActivedMemoryQueue_' = 1 .. PoolSize
      /\ \A i \in 1 .. PoolSize : NotActivedMemoryQueue_'[i] = PoolSize - i
      /\ held' = {}
  BY DEF Initalize, BlockInv, CountInv, NothingYet
<1>2. \A i, j \in 1 .. PoolSize : NotActivedMemoryQueue_'[i] = NotActivedMemoryQueue_'[j] => i = j
  BY <1>1, MemoryAssumption
<1>3. \A b \in Blocks : PoolSize - b \in 1 .. PoolSize /\ PoolSize - (PoolSize - b) = b
  BY MemoryAssumption DEF Blocks
<1>4. \A i \in 1 .. PoolSize : PoolSize - i \in Blocks
  BY MemoryAssumption DEF Blocks
<1>5. Queued' = Blocks
  BY <1>1, <1>3, <1>4 DEF Queued
<1> QED
  BY <1>1, <1>2, <1>5 DEF EachBlockOnce

\* GetMemory moves the front of the queue to the client.
LEMMA GetBlocks ==
  ASSUME BlockInv, GetMemory, careful, life = "ready"
  PROVE  /\ EachBlockOnce'
         /\ \E b \in Queued : Queued' = Queued \ {b} /\ held' = held \cup {b}
<1> DEFINE q == NotActivedMemoryQueue_
<1>1. q \in Seq(Blocks) /\ q # <<>> /\ Len(q) \in Nat /\ Len(q) > 0
  BY MemoryAssumption DEF BlockInv, CountInv, TypeOK, Counted, GetMemory
<1>2. /\ DOMAIN q = 1 .. Len(q)
      /\ DOMAIN q' = 1 .. Len(q) - 1
      /\ \A i \in 1 .. Len(q) - 1 : q'[i] = q[i + 1]
      /\ Head(q) = q[1]
  BY <1>1 DEF GetMemory
<1>3. \A i, j \in DOMAIN q : q[i] = q[j] => i = j
  BY DEF BlockInv, EachBlockOnce
<1>4. \A i, j \in DOMAIN q' : q'[i] = q'[j] => i = j
  BY <1>1, <1>2, <1>3
<1>5. Queued' = Queued \ {q[1]}
  <2>1. ASSUME NEW i \in DOMAIN q' PROVE q'[i] \in Queued \ {q[1]}
    BY <1>1, <1>2, <1>3, <2>1 DEF Queued
  <2>2. ASSUME NEW i \in DOMAIN q, q[i] # q[1] PROVE \E j \in DOMAIN q' : q'[j] = q[i]
    <3>1. i - 1 \in DOMAIN q' /\ (i - 1) + 1 = i
      BY <1>1, <1>2, <2>2
    <3> QED
      BY <1>2, <3>1
  <2> QED
    BY <2>1, <2>2 DEF Queued
<1>6. q[1] \in Queued /\ held' = held \cup {q[1]}
  BY <1>1, <1>2 DEF Queued, GetMemory
<1>7. Queued = Blocks \ held
  BY DEF BlockInv, EachBlockOnce
<1>8. Queued' = Blocks \ held'
  BY <1>5, <1>6, <1>7
<1> QED
  BY <1>4, <1>5, <1>6, <1>8 DEF EachBlockOnce

\* A careful ReturnMemory moves a block of the client to the end of the queue.
LEMMA ReturnBlocks ==
  ASSUME BlockInv, ReturnMemory, careful'
  PROVE  /\ EachBlockOnce'
         /\ careful /\ life = "ready"
         /\ \E b \in held : Queued' = Queued \cup {b} /\ held' = held \ {b}
<1> DEFINE q == NotActivedMemoryQueue_
<1>1. PICK b \in Blocks :
        GivesBack(b) /\ q' = Append(q, b)
  BY DEF ReturnMemory
<1>2. /\ careful /\ life = "ready" /\ b \in held /\ b \in Blocks
      /\ held' = held \ {b} /\ UNCHANGED life
  BY <1>1 DEF GivesBack
<1>3. q \in Seq(Blocks) /\ Len(q) \in Nat
  BY DEF BlockInv, CountInv, TypeOK
<1>4. /\ DOMAIN q = 1 .. Len(q)
      /\ DOMAIN q' = 1 .. Len(q) + 1
      /\ \A i \in 1 .. Len(q) : q'[i] = q[i]
      /\ q'[Len(q) + 1] = b
  BY <1>1, <1>2, <1>3
<1>5. (\A i, j \in DOMAIN q : q[i] = q[j] => i = j) /\ Queued = Blocks \ held
  BY <1>2 DEF BlockInv, EachBlockOnce
<1>6. \A i \in DOMAIN q : q[i] # b
  BY <1>2, <1>5 DEF Queued
<1>7. \A i, j \in DOMAIN q' : q'[i] = q'[j] => i = j
  BY <1>3, <1>4, <1>5, <1>6
<1>8. Queued' = Queued \cup {b}
  <2>1. \A i \in DOMAIN q' : i \in DOMAIN q \/ i = Len(q) + 1
    BY <1>3, <1>4
  <2>2. Len(q) + 1 \in DOMAIN q' /\ DOMAIN q \subseteq DOMAIN q'
    BY <1>3, <1>4
  <2> QED
    BY <1>4, <2>1, <2>2 DEF Queued
<1> QED
  BY <1>1, <1>2, <1>5, <1>7, <1>8 DEF EachBlockOnce

\* Before Initalize there is nothing to be exclusive about.
LEMMA InitBlocks == Init => BlockInv
  BY InitCounts DEF Init, BlockInv, EachBlockOnce

\* Every step keeps the blocks exclusive until the client is careless.
LEMMA StepBlocks == BlockInv /\ [Next]_vars => BlockInv'
<1> SUFFICES ASSUME BlockInv, [Next]_vars PROVE EachBlockOnce'
  BY StepCounts DEF BlockInv
<1>1. CASE Initalize
  BY <1>1, InitalizeBlocks
<1>2. CASE GetMemory
  BY <1>2, GetBlocks DEF GetMemory, EachBlockOnce
<1>3. CASE ReturnMemory
  BY <1>3, ReturnBlocks DEF EachBlockOnce
<1>4. CASE Destroy
  BY <1>4 DEF Destroy, EachBlockOnce
<1>5. CASE UNCHANGED vars
  BY <1>5 DEF BlockInv, EachBlockOnce, Queued, vars
<1> QED
  BY <1>1, <1>2, <1>3, <1>4, <1>5 DEF Next

\* While the client is careful no block is given out twice, and none is lost.
THEOREM BlocksExclusive == Spec => []EachBlockOnce
<1>1. BlockInv => EachBlockOnce
  BY DEF BlockInv
<1> QED
  BY InitBlocks, StepBlocks, <1>1, PTL DEF Spec

\* While the client is careful the pool implements a set of free blocks.
THEOREM PoolImplements == Spec => ImplementsPool
<1> DEFINE free == IF careful /\ life = "ready" THEN Queued ELSE {}
           lent == IF careful /\ life = "ready" THEN held ELSE {}
<1>1. Init => Pool!Init
  BY DEF Init, Pool!Init
<1>2. ASSUME BlockInv, BlockInv', [Next]_vars
      PROVE  [Pool!Fill \/ Pool!Lend \/ Pool!TakeBack \/ Pool!Close]_<<free, lent>>
  <2>1. CASE Initalize
    <3>1. /\ life = "new" /\ life' = "ready" /\ held' = {}
          /\ careful' = careful /\ (careful => Queued' = Blocks)
      BY <1>2, <2>1 DEF Initalize, BlockInv, CountInv, NothingYet, EachBlockOnce
    <3> QED
      BY <3>1 DEF Pool!Fill
  <2>2. CASE GetMemory
    BY <1>2, <2>2, GetBlocks DEF GetMemory, Pool!Lend
  <2>3. CASE ReturnMemory
    <3>1. life' = life
      BY <2>3 DEF ReturnMemory, GivesBack
    <3>2. CASE careful'
      BY <1>2, <2>3, <3>1, <3>2, ReturnBlocks DEF Pool!TakeBack
    <3>3. CASE ~careful'
      BY <3>3 DEF Pool!Close
    <3> QED
      BY <3>2, <3>3
  <2>4. CASE Destroy
    BY <2>4 DEF Destroy, Pool!Close
  <2>5. CASE UNCHANGED vars
    BY <2>5 DEF vars, Queued
  <2> QED
    BY <1>2, <2>1, <2>2, <2>3, <2>4, <2>5 DEF Next
<1> QED
  BY InitBlocks, StepBlocks, <1>1, <1>2, PTL DEF Spec, ImplementsPool, Pool!Spec
=============================================================================
