-------------------------- MODULE RecvAssemblyProofs --------------------------
(***************************************************************************)
(* For a ring, bytes and packets of any size: whatever sizes the loop      *)
(* reads, it walks over each chunk once and stays inside of it; and as     *)
(* long as no size was split and the ring has not wrapped, the packets are *)
(* delivered as they were sent.                                            *)
(***************************************************************************)
EXTENDS RecvAssembly, SequenceTheorems, TLAPS

\* The rest of the chunk ends inside of Buf_.
InChunk == pbuf + ioByte <= MAX_BUFFER

AssemblyInv == TypeOK /\ InChunk

\* Remainders.
LEMMA Remainder ==
  ASSUME NEW m \in Nat \ {0}, NEW n \in Int
  PROVE  n % m \in 0 .. (m - 1)
  OBVIOUS

\* Two bytes make a size, and a size two bytes.
LEMMA TwoBytes ==
  /\ \A low, high \in Bytes : Size(low, high) \in 0 .. (Base * Base - 1)
  /\ \A size \in Sizes : size % Base \in Bytes /\ size \div Base \in Bytes
<1>1. ASSUME NEW low \in Bytes, NEW high \in Bytes
      PROVE  Size(low, high) \in 0 .. (Base * Base - 1)
  <2>1. Base * high \in 0 .. (Base * (Base - 1))
    BY AssemblyAssumption DEF Bytes
  <2> QED
    BY <2>1, AssemblyAssumption DEF Bytes, Size
<1>2. ASSUME NEW size \in Sizes
      PROVE  size % Base \in Bytes /\ size \div Base \in Bytes
  <2>1. size \in Nat /\ size < Base * Base /\ Base \in Nat /\ Base > 1
    BY AssemblyAssumption
  <2>2. size % Base \in 0 .. Base - 1 /\ size \div Base \in Nat
    BY <2>1
  <2>3. size = Base * (size \div Base) + (size % Base)
    BY <2>1
  <2>4. ASSUME NEW q \in Nat, q >= Base PROVE Base * q >= Base * Base
    BY <2>1, <2>4
  <2> QED
    BY <2>1, <2>2, <2>3, <2>4 DEF Bytes
<1> QED
  BY <1>1, <1>2

Queues ==
  [Queue_ : [Cells -> Bytes], FrontIndex_ : 0 .. (Word - 1), RearIndex_ : 0 .. (Word - 1)]

\* What the operators of the ring return.
LEMMA QueueSizes ==
  ASSUME NEW q \in Queues
  PROVE  /\ First(q) \in Cells /\ EnqStart(q) \in Cells
         /\ GetNowQueueSize(q) \in 0 .. (Word - 1)
         /\ q.Queue_ \in [Cells -> Bytes]
         /\ q.FrontIndex_ \in Nat /\ q.RearIndex_ \in Nat
<1>1. /\ q.Queue_ \in [Cells -> Bytes]
      /\ q.FrontIndex_ \in 0 .. (Word - 1) /\ q.RearIndex_ \in 0 .. (Word - 1)
  BY DEF Queues
<1>2. First(q) \in Cells /\ EnqStart(q) \in Cells
  <2>1. MAX_QUEUE \in Nat \ {0} /\ q.FrontIndex_ + 1 \in Int /\ q.RearIndex_ + 1 \in Int
    BY <1>1, QueueAssumption
  <2>2. /\ (q.FrontIndex_ + 1) % MAX_QUEUE \in 0 .. (MAX_QUEUE - 1)
        /\ (q.RearIndex_ + 1) % MAX_QUEUE \in 0 .. (MAX_QUEUE - 1)
    BY <2>1, Remainder
  <2> QED
    BY <2>2 DEF First, EnqStart, Cells
<1>3. /\ 0 \in 0 .. (Word - 1)
      /\ U32(q.RearIndex_ - q.FrontIndex_) \in 0 .. (Word - 1)
      /\ U32((MAX_QUEUE - First(q)) + q.RearIndex_) \in 0 .. (Word - 1)
  <2>1. /\ Word \in Nat \ {0}
        /\ q.RearIndex_ - q.FrontIndex_ \in Int
        /\ (MAX_QUEUE - First(q)) + q.RearIndex_ \in Int
    BY <1>1, <1>2, QueueAssumption DEF Cells
  <2>2. \A n \in Int : U32(n) \in 0 .. (Word - 1)
    BY <2>1, Remainder DEF U32
  <2> QED
    BY <2>1, <2>2
<1>4. GetNowQueueSize(q) \in 0 .. (Word - 1)
  BY <1>3 DEF GetNowQueueSize
<1> QED
  BY <1>1, <1>2, <1>4, QueueAssumption

\* Enq puts bytes into the cells.
LEMMA EnqKeeps ==
  ASSUME NEW q \in Queues, NEW data \in Seq(Bytes)
  PROVE  Enq(q, data) \in Queues
<1> DEFINE n == Len(data)
           start == EnqStart(q)
           cells == Written(q.Queue_, start, data)
           rear == IF EnqInTwo(q, n) THEN U32(n - (MAX_QUEUE - start) - 1) ELSE U32(start + n - 1)
<1>1. n \in Nat /\ start \in Cells /\ q.Queue_ \in [Cells -> Bytes]
  BY QueueSizes
<1>2. cells \in [Cells -> Bytes]
  <2>1. ASSUME NEW i \in Cells, (i - start) % MAX_QUEUE < n
        PROVE  data[((i - start) % MAX_QUEUE) + 1] \in Bytes
    <3>1. (i - start) % MAX_QUEUE \in Nat
      <4>1. i - start \in Int /\ MAX_QUEUE \in Nat \ {0}
        BY <1>1, QueueAssumption DEF Cells
      <4>2. (i - start) % MAX_QUEUE \in 0 .. (MAX_QUEUE - 1)
        BY <4>1, Remainder
      <4> QED
        BY <4>1, <4>2
    <3>2. ((i - start) % MAX_QUEUE) + 1 \in 1 .. n
      BY <1>1, <2>1, <3>1
    <3> QED
      BY <3>2
  <2> QED
    BY <1>1, <2>1 DEF Written
<1>3. rear \in 0 .. (Word - 1)
  <2>1. n - (MAX_QUEUE - start) - 1 \in Int /\ start + n - 1 \in Int /\ Word \in Nat \ {0}
    BY <1>1, QueueAssumption DEF Cells
  <2>2. /\ U32(n - (MAX_QUEUE - start) - 1) \in 0 .. (Word - 1)
        /\ U32(start + n - 1) \in 0 .. (Word - 1)
    BY <2>1, Remainder DEF U32
  <2> QED
    BY <2>2
<1>4. Ring(cells, q.FrontIndex_, rear) \in Queues
  BY <1>2, <1>3 DEF Ring, Queues
<1>5. Enq(q, data) = q \/ Enq(q, data) = Ring(cells, q.FrontIndex_, rear)
  BY DEF Enq
<1> QED
  BY <1>4, <1>5

\* Pop moves FrontIndex_.
LEMMA PopKeeps ==
  ASSUME NEW q \in Queues, NEW n \in Nat
  PROVE  Pop(q, n) \in Queues
<1>1. First(q) \in Nat /\ Word \in Nat \ {0} /\ MAX_QUEUE \in Nat \ {0} /\ MAX_BUFFER \in Nat
  BY QueueSizes, QueueAssumption DEF Cells
<1>2. PopToEnd(q) \in Nat /\ U32(n - 1) % MAX_QUEUE \in Nat
  BY <1>1, Remainder DEF PopToEnd, U32
<1>3. /\ U32(First(q) + (U32(n - 1) % MAX_QUEUE)) \in 0 .. (Word - 1)
      /\ U32(n - PopToEnd(q) - 1) \in 0 .. (Word - 1)
  <2>1. /\ First(q) + (U32(n - 1) % MAX_QUEUE) \in Int
        /\ n - PopToEnd(q) - 1 \in Int
    BY <1>1, <1>2
  <2>2. \A m \in Int : U32(m) \in 0 .. (Word - 1)
    BY <1>1, Remainder DEF U32
  <2> QED
    BY <2>1, <2>2
<1>4. \A front \in 0 .. (Word - 1) : [q EXCEPT !.FrontIndex_ = front] \in Queues
  BY DEF Queues
<1> QED
  BY <1>3, <1>4 DEF Pop

\* Whatever the indexes are, the sizes that the loop reads are sizes.
LEMMA SizesRead ==
  ASSUME AssemblyInv
  PROVE  /\ SizeInQueue \in 0 .. (Base * Base - 1)
         /\ CurrentSize \in 0 .. (Base * Base - 1)
         /\ Required \in Nat
<1>1. /\ RecvBuffer_ \in Queues /\ Buf_ \in [0 .. (MAX_BUFFER - 1) -> Bytes]
      /\ pbuf \in Nat /\ packetSize \in 0 .. (Base * Base - 1)
      /\ 0 \in Bytes /\ Base \in Nat \ {0}
  BY AssemblyAssumption DEF AssemblyInv, TypeOK, Queues, Bytes
<1>2. \A i \in {0, 1} : At(i) \in Bytes
  <2> SUFFICES ASSUME NEW i \in {0, 1} PROVE At(i) \in Bytes
    OBVIOUS
  <2>1. First(RecvBuffer_) + i < MAX_QUEUE => First(RecvBuffer_) + i \in Cells
    BY <1>1, QueueSizes, QueueAssumption DEF Cells
  <2>2. RecvBuffer_.FrontIndex_ % Base \in Bytes
    BY <1>1, QueueSizes, Remainder DEF Bytes
  <2> QED
    BY <1>1, <2>1, <2>2, QueueSizes DEF At
<1>3. \A i \in Nat : BufAt(i) \in Bytes
  BY <1>1, QueueAssumption DEF BufAt
<1>4. SizeInQueue \in 0 .. (Base * Base - 1) /\ SizeInBuf \in 0 .. (Base * Base - 1)
  <2>1. At(0) \in Bytes /\ At(1) \in Bytes
    BY <1>2
  <2>2. BufAt(pbuf) \in Bytes /\ BufAt(pbuf + 1) \in Bytes
    BY <1>1, <1>3
  <2> QED
    BY <2>1, <2>2, TwoBytes DEF SizeInQueue, SizeInBuf
<1>5. CurrentSize \in 0 .. (Base * Base - 1)
  BY <1>1, <1>4 DEF CurrentSize
<1>6. Required \in Nat
  <2>1. CurrentSize - Held \in Int /\ Word \in Nat \ {0}
    BY <1>1, <1>5, QueueSizes, QueueAssumption, AssemblyAssumption DEF Held
  <2> QED
    BY <2>1, Remainder DEF Required, U32
<1> QED
  BY <1>4, <1>5, <1>6

\* The part of the chunk that goes into the queue is inside of Buf_.
LEMMA ChunkInside ==
  ASSUME AssemblyInv, NEW n \in Nat, n <= ioByte
  PROVE  Chunk(n) \in Seq(Bytes)
<1>1. \A i \in 1 .. n : pbuf + i - 1 \in 0 .. (MAX_BUFFER - 1)
  BY QueueAssumption DEF AssemblyInv, TypeOK, InChunk
<1>2. Chunk(n) \in [1 .. n -> Bytes]
  BY <1>1 DEF Chunk, AssemblyInv, TypeOK
<1> QED
  BY <1>2

\* At the start the queue is empty and Buf_ full of zeros.
LEMMA InitAssembly == Init => AssemblyInv
<1> SUFFICES ASSUME Init PROVE AssemblyInv
  OBVIOUS
<1>1. 0 \in Bytes /\ 0 \in 0 .. (Word - 1) /\ 0 \in 0 .. MAX_BUFFER /\ 0 \in 0 .. (Base * Base - 1)
  <2>1. Base * Base - 1 \in Nat
    BY AssemblyAssumption
  <2> QED
    BY <2>1, AssemblyAssumption, QueueAssumption DEF Bytes
<1>2. /\ Cleared \in Queues
      /\ [i \in 0 .. (MAX_BUFFER - 1) |-> 0] \in [0 .. (MAX_BUFFER - 1) -> Bytes]
  BY <1>1 DEF Cleared, Ring, Queues
<1>3. pbuf + ioByte <= MAX_BUFFER
  BY <1>1 DEF Init
<1>4. /\ sent \in Seq(Seq(Bytes)) /\ delivered \in Seq(Seq(Bytes)) /\ wire \in Seq(Bytes)
      /\ pc \in {"recv", "loop", "process", "overrun"}
  BY DEF Init
<1>5. /\ Buf_ \in [0 .. (MAX_BUFFER - 1) -> Bytes] /\ RecvBuffer_ \in Queues
      /\ ioByte \in 0 .. MAX_BUFFER /\ pbuf \in 0 .. MAX_BUFFER
      /\ packetSize \in 0 .. (Base * Base - 1)
  BY <1>1, <1>2 DEF Init
<1>6. split \in BOOLEAN /\ stream \in Seq(Bytes) /\ starts \in Seq(Nat)
  <2>1. <<0>> \in Seq(Nat) /\ <<>> \in Seq(Bytes) /\ FALSE \in BOOLEAN
    OBVIOUS
  <2>2. split = FALSE /\ stream = <<>> /\ starts = <<0>>
    BY DEF Init
  <2> QED
    BY <2>1, <2>2, Zenon
<1> QED
  BY <1>3, <1>4, <1>5, <1>6 DEF AssemblyInv, TypeOK, InChunk, Queues

\* A packet is as long as its first two bytes say.
LEMMA PacketSays ==
  ASSUME NEW size \in Sizes, NEW filler \in Bytes
  PROVE  LET p == Packet(size, filler)
         IN  p \in Seq(Bytes) /\ Len(p) = size /\ Size(p[1], p[2]) = size
<1> DEFINE head == <<size % Base, size \div Base>>
           body == [i \in 1 .. (size - 2) |-> filler]
           p == Packet(size, filler)
<1>1. size - 2 \in Nat /\ size \in Nat /\ Base \in Nat \ {0}
  BY AssemblyAssumption
<1>2. head \in Seq(Bytes) /\ Len(head) = 2 /\ head[1] = size % Base /\ head[2] = size \div Base
  BY TwoBytes
<1>3. body \in Seq(Bytes) /\ Len(body) = size - 2
  BY <1>1
<1>4. p = head \o body
  BY DEF Packet
<1> HIDE DEF head, body, p
<1>5. p \in Seq(Bytes) /\ Len(p) = size /\ p[1] = size % Base /\ p[2] = size \div Base
  <2>1. /\ p \in Seq(Bytes) /\ Len(p) = Len(head) + Len(body)
        /\ \A i \in 1 .. (Len(head) + Len(body)) :
             p[i] = IF i <= Len(head) THEN head[i] ELSE body[i - Len(head)]
    BY <1>2, <1>3, <1>4, ConcatProperties, Zenon
  <2> QED
    BY <1>1, <1>2, <1>3, <2>1
<1>6. size = Base * (size \div Base) + (size % Base)
  BY <1>1
<1>7. Size(p[1], p[2]) = size
  <2>1. size % Base \in Nat /\ Base * (size \div Base) \in Nat
    <3>1. size % Base \in Nat /\ size \div Base \in Nat
      BY TwoBytes, AssemblyAssumption DEF Bytes
    <3> QED
      BY <1>1, <3>1
  <2> QED
    BY <1>5, <1>6, <2>1 DEF Size
<1> QED
  BY <1>5, <1>7 DEF p

\* What a client sends is filled with a byte.
LEMMA FillerIsByte == AssemblyInv => (Len(sent) + 1) % Base \in Bytes
<1> SUFFICES ASSUME AssemblyInv PROVE (Len(sent) + 1) % Base \in Bytes
  OBVIOUS
<1>1. Len(sent) + 1 \in Int /\ Base \in Nat \ {0}
  BY AssemblyAssumption DEF AssemblyInv, TypeOK
<1>2. (Len(sent) + 1) % Base \in 0 .. (Base - 1)
  BY <1>1, Remainder
<1> QED
  BY <1>2 DEF Bytes

\* A client sends a packet.
LEMMA SendKeeps ==
  ASSUME AssemblyInv, NEW size \in Sizes, Send(size)
  PROVE  AssemblyInv'
<1>2. size \in Nat
  BY AssemblyAssumption
<1>3. Packet(size, (Len(sent) + 1) % Base) \in Seq(Bytes)
  BY FillerIsByte, PacketSays
<1>4. sent' \in Seq(Seq(Bytes)) /\ wire' \in Seq(Bytes) /\ stream' \in Seq(Bytes)
  BY <1>3 DEF Send, AssemblyInv, TypeOK
<1>5. starts' \in Seq(Nat)
  <2>1. Len(stream) + size \in Nat
    BY <1>2, AssemblyAssumption DEF AssemblyInv, TypeOK
  <2> QED
    BY <2>1 DEF Send, AssemblyInv, TypeOK
<1> QED
  BY <1>4, <1>5 DEF Send, AssemblyInv, TypeOK, InChunk, loopVars

\* A receive returns no more than Buf_ can hold.
LEMMA ReceiveKeeps ==
  ASSUME AssemblyInv, NEW n \in Nat, n <= Len(wire), n <= MAX_BUFFER, Receive(n)
  PROVE  AssemblyInv'
<1>1. wire' \in Seq(Bytes)
  BY DEF Receive, AssemblyInv, TypeOK
<1>2. Buf_' \in [0 .. (MAX_BUFFER - 1) -> Bytes]
  <2>1. \A i \in 0 .. (MAX_BUFFER - 1) : i < n => wire[i + 1] \in Bytes
    BY DEF AssemblyInv, TypeOK
  <2> QED
    BY <2>1 DEF Receive, AssemblyInv, TypeOK
<1>3. packetSize' \in 0 .. (Base * Base - 1)
  <2>1. 0 \in 0 .. (Base * Base - 1) /\ SizeInQueue \in 0 .. (Base * Base - 1)
    BY SizesRead, AssemblyAssumption
  <2> QED
    BY <2>1 DEF Receive
<1>4. /\ ioByte' = n /\ pbuf' = 0 /\ pc' = "loop"
      /\ UNCHANGED <<sent, RecvBuffer_, delivered, stream, starts>>
  BY DEF Receive, streamVars
<1>5. split' \in BOOLEAN
  BY DEF Receive, AssemblyInv, TypeOK, CutsHeader
<1> QED
  BY <1>1, <1>2, <1>3, <1>4, <1>5, QueueAssumption DEF AssemblyInv, TypeOK, InChunk

\* The loop takes a part of the chunk.
LEMMA TakesKeeps ==
  ASSUME AssemblyInv, Incomplete \/ Complete
  PROVE  AssemblyInv'
<1>1. PICK n \in Nat :
        /\ n <= ioByte
        /\ RecvBuffer_' = Enq(RecvBuffer_, Chunk(n))
        /\ ioByte' \in 0 .. MAX_BUFFER /\ pbuf' \in 0 .. MAX_BUFFER
        /\ pbuf' + ioByte' <= MAX_BUFFER
  <2>1. CASE Incomplete
    <3>1. ioByte \in Nat /\ ioByte <= ioByte
      BY DEF AssemblyInv, TypeOK
    <3>2. ioByte' = 0 /\ pbuf' = 0 /\ 0 \in 0 .. MAX_BUFFER
      BY <2>1, QueueAssumption DEF Incomplete, Reposts
    <3> QED
      BY <2>1, <3>1, <3>2 DEF Incomplete
  <2>2. CASE Complete
    <3>1. Required \in Nat /\ Required <= ioByte
      BY <2>2, SizesRead DEF Complete, AssemblyInv, TypeOK
    <3>2. ioByte' = ioByte - Required /\ pbuf' = pbuf + Required
      BY <2>2 DEF Complete
    <3>3. /\ ioByte \in Nat /\ pbuf \in Nat /\ MAX_BUFFER \in Nat /\ pbuf + ioByte <= MAX_BUFFER
      BY QueueAssumption DEF AssemblyInv, TypeOK, InChunk
    <3> QED
      BY <2>2, <3>1, <3>2, <3>3 DEF Complete
  <2> QED
    BY <2>1, <2>2
<1>2. RecvBuffer_ \in Queues
  BY DEF AssemblyInv, TypeOK, Queues
<1>3. RecvBuffer_' \in Queues
  BY <1>1, <1>2, ChunkInside, EnqKeeps
<1>4. /\ packetSize' = 0 /\ pc' \in {"recv", "process"}
      /\ UNCHANGED <<sent, wire, Buf_, delivered, split, stream, starts>>
  BY DEF Incomplete, Complete, Reposts, streamVars
<1>5. 0 \in 0 .. (Base * Base - 1)
  BY AssemblyAssumption
<1> QED
  BY <1>1, <1>3, <1>4, <1>5 DEF AssemblyInv, TypeOK, InChunk, Queues

\* The handler is given bytes of the ring, up to its end.
LEMMA ProcessKeeps ==
  ASSUME AssemblyInv, PacketProcess
  PROVE  AssemblyInv'
<1> DEFINE size == SizeInQueue
           first == First(RecvBuffer_)
           n == IF size <= MAX_QUEUE - first THEN size ELSE MAX_QUEUE - first
<1>1. /\ RecvBuffer_ \in Queues /\ size \in Nat /\ first \in Cells
      /\ RecvBuffer_.Queue_ \in [Cells -> Bytes]
  <2>1. RecvBuffer_ \in Queues
    BY DEF AssemblyInv, TypeOK, Queues
  <2>2. size \in 0 .. (Base * Base - 1)
    BY SizesRead
  <2> QED
    BY <2>1, <2>2, QueueSizes
<1>2. n \in Nat /\ \A i \in 1 .. n : first + i - 1 \in Cells
  BY <1>1, QueueAssumption DEF Cells
<1>3. PacketIn(RecvBuffer_, size) \in Seq(Bytes)
  <2>1. PacketIn(RecvBuffer_, size) = [i \in 1 .. n |-> RecvBuffer_.Queue_[first + i - 1]]
    BY DEF PacketIn
  <2>2. [i \in 1 .. n |-> RecvBuffer_.Queue_[first + i - 1]] \in [1 .. n -> Bytes]
    BY <1>1, <1>2
  <2> QED
    BY <1>2, <2>1, <2>2
<1>4. delivered' \in Seq(Seq(Bytes)) /\ RecvBuffer_' \in Queues
  <2>1. delivered' = Append(delivered, PacketIn(RecvBuffer_, size))
    BY DEF PacketProcess
  <2>2. RecvBuffer_' = Pop(RecvBuffer_, size)
    BY DEF PacketProcess
  <2> QED
    BY <1>1, <1>3, <2>1, <2>2, PopKeeps DEF AssemblyInv, TypeOK
<1>5. /\ pc' \in {"recv", "loop"} /\ pbuf' \in {0, pbuf}
      /\ UNCHANGED <<sent, wire, Buf_, ioByte, packetSize, split, stream, starts>>
  BY DEF PacketProcess, streamVars
<1>6. pbuf' \in 0 .. MAX_BUFFER /\ pbuf' + ioByte' <= MAX_BUFFER
  <2>1. /\ MAX_BUFFER \in Nat /\ pbuf \in 0 .. MAX_BUFFER /\ ioByte \in 0 .. MAX_BUFFER
        /\ pbuf + ioByte <= MAX_BUFFER
    BY QueueAssumption DEF AssemblyInv, TypeOK, InChunk
  <2>2. ioByte' = ioByte /\ (pbuf' = 0 \/ pbuf' = pbuf)
    BY <1>5
  <2> QED
    BY <2>1, <2>2
<1> QED
  BY <1>4, <1>5, <1>6 DEF AssemblyInv, TypeOK, InChunk, Queues

\* Every step keeps the types and stays in the chunk.
LEMMA NextKeeps == AssemblyInv /\ [Next]_vars => AssemblyInv'
<1> SUFFICES ASSUME AssemblyInv, [Next]_vars PROVE AssemblyInv'
  OBVIOUS
<1>1. CASE \E size \in Sizes : Send(size)
  BY <1>1, SendKeeps
<1>2. ASSUME NEW n \in 1 .. (IF Len(wire) < MAX_BUFFER THEN Len(wire) ELSE MAX_BUFFER), Receive(n)
      PROVE  AssemblyInv'
  <2>1. Len(wire) \in Nat /\ MAX_BUFFER \in Nat
    BY QueueAssumption DEF AssemblyInv, TypeOK
  <2>2. n \in Nat /\ n <= Len(wire) /\ n <= MAX_BUFFER
    BY <2>1
  <2> QED
    BY <1>2, <2>2, ReceiveKeeps
<1>3. CASE Incomplete \/ Complete
  BY <1>3, TakesKeeps
<1>4. CASE PacketProcess
  BY <1>4, ProcessKeeps
<1>5. CASE Overruns \/ UNCHANGED vars
  <2>1. /\ UNCHANGED <<sent, wire, Buf_, RecvBuffer_, ioByte, pbuf, packetSize>>
        /\ UNCHANGED <<delivered, split, stream, starts>>
        /\ pc' \in {pc, "overrun"}
    BY <1>5 DEF Overruns, vars, sessionVars, streamVars, loopVars
  <2> QED
    BY <2>1 DEF AssemblyInv, TypeOK, InChunk
<1> QED
  BY <1>1, <1>2, <1>3, <1>4, <1>5 DEF Next

\* Types, and that the loop of the RECV_ branch never leaves the chunk: pbuf and
\* ioByte together stay inside of Buf_, also when the sizes read are wrong.
THEOREM StaysInChunk == Spec => [](TypeOK /\ InChunk)
<1>1. AssemblyInv => TypeOK /\ InChunk
  BY DEF AssemblyInv
<1> QED
  BY InitAssembly, NextKeeps, <1>1, PTL DEF Spec

----------------------------------------------------------------------------
(* While the stream is regular the queue holds the rest of a packet.       *)

\* A packet begins where the one before it ends, and says how long it is.
PacketAt(i) ==
  /\ Len(sent[i]) \in Sizes /\ Size(sent[i][1], sent[i][2]) = Len(sent[i])
  /\ starts[i + 1] = starts[i] + Len(sent[i])
  /\ \A j \in 1 .. Len(sent[i]) : stream[starts[i] + j] = sent[i][j]

\* The stream is the packets one after the other.
StreamInv ==
  /\ Len(starts) = Len(sent) + 1 /\ starts[1] = 0 /\ starts[Len(sent) + 1] = Len(stream)
  /\ \A i \in 1 .. Len(sent) : PacketAt(i)
  /\ \A i, j \in 1 .. (Len(sent) + 1) : i < j => starts[i] < starts[j]

\* The chunk and then the wire hold what follows in the stream, and without a
\* split no receive ended after the first byte of a packet.
WireInv ==
  /\ Len(wire) + ioByte <= Len(stream)
  /\ \A j \in 1 .. Len(wire) : wire[j] = stream[Received + j]
  /\ \A j \in 1 .. ioByte : Buf_[pbuf + j - 1] = stream[Processed + j]
  /\ ~split => \A i \in 1 .. Len(sent) : Received # starts[i] + 1

\* The variables of the loop are set where it is.
LoopInv ==
  /\ pc \in {"recv", "process"} => packetSize = 0
  /\ pc = "recv" => ioByte = 0
  /\ pc = "loop" => ioByte > 0

\* Where the packet that is being assembled begins and ends in the stream.
Begin == starts[Len(delivered) + 1]
End == starts[Len(delivered) + 2]

\* The indexes are positions of the stream: FrontIndex_ is where the packet
\* begins, RearIndex_ how far the loop has come, and between them the cells
\* hold the stream.
QueueInv ==
  /\ pc # "overrun"
  /\ Len(delivered) <= Len(sent)
  /\ RecvBuffer_.FrontIndex_ = Begin /\ RecvBuffer_.RearIndex_ = Processed
  /\ Begin <= Processed
  /\ \A k \in (Begin + 1) .. Processed : RecvBuffer_.Queue_[k] = stream[k]
  /\ pc \in {"recv", "loop"} /\ Len(delivered) < Len(sent) => Processed < End
  /\ pc = "process" => Len(delivered) < Len(sent) /\ Processed = End
  /\ pc = "loop" =>
       packetSize = IF Processed = Begin THEN 0 ELSE Len(sent[Len(delivered) + 1])

StreamsInv == AssemblyInv /\ StreamInv /\ WireInv /\ LoopInv
AssemblyIInv == StreamsInv /\ (Regular => QueueInv)

\* The positions are numbers, in this order.
LEMMA Positions ==
  ASSUME StreamsInv
  PROVE  /\ Received \in Nat /\ Processed \in Nat
         /\ Processed + ioByte = Received /\ Received + Len(wire) = Len(stream)
         /\ Len(sent) \in Nat /\ Len(delivered) \in Nat /\ Len(wire) \in Nat
         /\ ioByte \in Nat /\ pbuf \in Nat /\ Len(stream) \in Nat
         /\ \A i \in 1 .. (Len(sent) + 1) : starts[i] \in Nat /\ starts[i] <= Len(stream)
<1>1. /\ Len(sent) \in Nat /\ Len(delivered) \in Nat /\ Len(wire) \in Nat
      /\ ioByte \in Nat /\ pbuf \in Nat /\ Len(stream) \in Nat
  BY QueueAssumption DEF StreamsInv, AssemblyInv, TypeOK
<1>2. \A i \in 1 .. (Len(sent) + 1) : starts[i] \in Nat
  BY DEF StreamsInv, StreamInv, AssemblyInv, TypeOK
<1>3. \A i \in 1 .. (Len(sent) + 1) : starts[i] <= Len(stream)
  BY <1>1, <1>2 DEF StreamsInv, StreamInv
<1>4. Len(wire) + ioByte <= Len(stream)
  BY DEF StreamsInv, WireInv
<1> QED
  BY <1>1, <1>2, <1>3, <1>4 DEF Received, Processed

\* A step that leaves the stream alone keeps the stream.
LEMMA StreamUnchanged ==
  ASSUME StreamInv, UNCHANGED <<sent, stream, starts>>
  PROVE  StreamInv'
BY DEF StreamInv, PacketAt

\* A packet that is sent follows the ones before it.
LEMMA SendStream ==
  ASSUME StreamsInv, NEW size \in Sizes, Send(size)
  PROVE  /\ StreamInv'
         /\ \A i \in 1 .. Len(sent) : sent'[i] = sent[i]
         /\ \A i \in 1 .. (Len(sent) + 1) : starts'[i] = starts[i]
         /\ \A k \in 1 .. Len(stream) : stream'[k] = stream[k]
         /\ Len(sent') = Len(sent) + 1 /\ starts'[Len(sent) + 2] = Len(stream) + size
         /\ Len(stream') = Len(stream) + size /\ Len(wire') = Len(wire) + size
         /\ \A j \in 1 .. Len(wire) : wire'[j] = wire[j]
         /\ \A j \in 1 .. size : wire'[Len(wire) + j] = stream'[Len(stream) + j]
<1> DEFINE N == Len(sent)
           L == Len(stream)
           p == Packet(size, (N + 1) % Base)
<1>1. /\ sent \in Seq(Seq(Bytes)) /\ wire \in Seq(Bytes) /\ stream \in Seq(Bytes)
      /\ starts \in Seq(Nat) /\ N \in Nat /\ L \in Nat /\ size \in Nat /\ size > 0
      /\ Len(starts) = N + 1 /\ Len(wire) \in Nat
  BY AssemblyAssumption DEF StreamsInv, AssemblyInv, TypeOK, StreamInv
<1>2. p \in Seq(Bytes) /\ Len(p) = size /\ Size(p[1], p[2]) = size
  BY FillerIsByte, PacketSays DEF StreamsInv
<1>3. /\ sent' = Append(sent, p) /\ wire' = wire \o p
      /\ stream' = stream \o p /\ starts' = Append(starts, L + size)
  BY DEF Send
<1> HIDE DEF p
<1>4. /\ Len(sent') = N + 1 /\ sent'[N + 1] = p /\ \A i \in 1 .. N : sent'[i] = sent[i]
  BY <1>1, <1>2, <1>3
<1>5. /\ Len(starts') = N + 2 /\ starts'[N + 2] = L + size
      /\ \A i \in 1 .. (N + 1) : starts'[i] = starts[i]
  BY <1>1, <1>3
<1>6. /\ Len(stream') = L + size /\ \A k \in 1 .. L : stream'[k] = stream[k]
      /\ \A j \in 1 .. size : stream'[L + j] = p[j]
  <2>1. stream \in Seq(Bytes) /\ p \in Seq(Bytes)
    BY <1>1, <1>2
  <2>2. /\ Len(stream \o p) = Len(stream) + Len(p)
        /\ \A k \in 1 .. Len(stream) : (stream \o p)[k] = stream[k]
    BY <2>1
  <2>3. \A k \in 1 .. Len(p) : (stream \o p)[Len(stream) + k] = p[k]
    BY <2>1
  <2>4. Len(p) = size /\ stream' = stream \o p
    BY <1>2, <1>3
  <2> QED
    BY <2>2, <2>3, <2>4
<1>7. /\ Len(wire') = Len(wire) + size /\ \A j \in 1 .. Len(wire) : wire'[j] = wire[j]
      /\ \A j \in 1 .. size : wire'[Len(wire) + j] = p[j]
  <2>1. wire \in Seq(Bytes) /\ p \in Seq(Bytes)
    BY <1>1, <1>2
  <2>2. Len(wire \o p) = Len(wire) + Len(p) /\ \A k \in 1 .. Len(wire) : (wire \o p)[k] = wire[k]
    BY <2>1
  <2>3. \A k \in 1 .. Len(p) : (wire \o p)[Len(wire) + k] = p[k]
    BY <2>1
  <2>4. Len(p) = size /\ wire' = wire \o p
    BY <1>2, <1>3
  <2> QED
    BY <2>2, <2>3, <2>4
<1>8. /\ starts[1] = 0 /\ starts[N + 1] = L
      /\ \A i \in 1 .. (N + 1) : starts[i] \in Nat /\ starts[i] <= L
      /\ \A i, j \in 1 .. (N + 1) : i < j => starts[i] < starts[j]
      /\ \A i \in 1 .. N : PacketAt(i)
  BY Positions DEF StreamsInv, StreamInv
<1>9. ASSUME NEW i \in 1 .. (N + 1) PROVE PacketAt(i)'
  <2>1. CASE i \in 1 .. N
    <3>1. /\ sent'[i] = sent[i] /\ starts'[i] = starts[i] /\ starts'[i + 1] = starts[i + 1]
          /\ PacketAt(i) /\ starts[i] \in Nat /\ starts[i + 1] \in Nat /\ starts[i + 1] <= L
          /\ Len(sent[i]) \in Nat
      <4>1. Len(sent[i]) \in Nat
        BY <1>1, <2>1
      <4>2. sent'[i] = sent[i] /\ PacketAt(i)
        BY <1>4, <1>8, <2>1
      <4>3. i \in 1 .. (N + 1) /\ i + 1 \in 1 .. (N + 1)
        BY <1>1, <2>1
      <4>4. starts'[i] = starts[i] /\ starts'[i + 1] = starts[i + 1]
        BY <1>5, <4>3
      <4>5. starts[i] \in Nat /\ starts[i + 1] \in Nat /\ starts[i + 1] <= L
        BY <1>8, <4>3
      <4> QED
        BY <4>1, <4>2, <4>4, <4>5
    <3>2. \A j \in 1 .. Len(sent[i]) : stream'[starts[i] + j] = sent[i][j]
      <4>1. starts[i + 1] = starts[i] + Len(sent[i])
        BY <3>1 DEF PacketAt
      <4>2. ASSUME NEW j \in 1 .. Len(sent[i]) PROVE starts[i] + j \in 1 .. L
        <5>1. /\ L \in Nat /\ starts[i] \in Nat /\ Len(sent[i]) \in Nat
              /\ starts[i] + Len(sent[i]) <= L
          BY <1>1, <3>1, <4>1
        <5> QED
          BY <5>1
      <4> QED
        BY <1>6, <3>1, <4>2 DEF PacketAt
    <3> QED
      BY <3>1, <3>2 DEF PacketAt
  <2>2. CASE i = N + 1
    <3>1. starts'[i] = L /\ starts'[i + 1] = L + size /\ sent'[i] = p
      BY <1>1, <1>4, <1>5, <1>8, <2>2
    <3>2. \A j \in 1 .. size : stream'[L + j] = p[j]
      BY <1>6
    <3> QED
      BY <1>2, <3>1, <3>2 DEF PacketAt
  <2> QED
    BY <1>1, <2>1, <2>2
<1>10. ASSUME NEW i \in 1 .. (N + 2), NEW j \in 1 .. (N + 2), i < j
       PROVE  starts'[i] < starts'[j]
  <2>1. i \in 1 .. (N + 1) /\ starts'[i] = starts[i] /\ starts[i] \in Nat /\ starts[i] <= L
    BY <1>1, <1>5, <1>8, <1>10
  <2>2. CASE j = N + 2
    BY <1>1, <1>5, <2>1, <2>2
  <2>3. CASE j \in 1 .. (N + 1)
    BY <1>5, <1>8, <1>10, <2>1, <2>3
  <2> QED
    BY <1>1, <2>2, <2>3
<1>11. StreamInv'
  <2>1. /\ Len(starts') = Len(sent') + 1 /\ starts'[1] = 0
        /\ starts'[Len(sent') + 1] = Len(stream')
    BY <1>1, <1>4, <1>5, <1>6, <1>8
  <2>2. Len(sent') = N + 1
    BY <1>4
  <2> QED
    BY <1>1, <1>9, <1>10, <2>1, <2>2 DEF StreamInv
<1> QED
  BY <1>4, <1>5, <1>6, <1>7, <1>11

\* Numbers below the divisor, and just below zero.
LEMMA NoWrap ==
  ASSUME NEW m \in Nat \ {0}, NEW n \in Int
  PROVE  /\ n \in 0 .. (m - 1) => n % m = n
         /\ n \in (-m) .. (-1) => n % m = n + m
  OBVIOUS

\* In a regular stream the ring has not wrapped: GetAt, GetNowQueueSize and Enq
\* work on the cells from Begin + 1 to Processed.
LEMMA QueueRead ==
  ASSUME AssemblyIInv, Regular
  PROVE  /\ Begin \in Nat /\ Processed \in Nat /\ Begin <= Processed
         /\ Processed < MAX_QUEUE - 1
         /\ First(RecvBuffer_) = Begin + 1 /\ EnqStart(RecvBuffer_) = Processed + 1
         /\ Held = Processed - Begin
         /\ \A i \in 0 .. (Processed - Begin - 1) : At(i) = stream[Begin + 1 + i]
<1>1. /\ QueueInv /\ StreamsInv /\ MAX_QUEUE \in Nat \ {0} /\ Word \in Nat \ {0}
      /\ Word > MAX_QUEUE
  BY QueueAssumption DEF AssemblyIInv
<1>2. /\ Processed \in Nat /\ Len(delivered) + 1 \in 1 .. (Len(sent) + 1)
      /\ \A i \in 1 .. (Len(sent) + 1) : starts[i] \in Nat
  BY <1>1, Positions DEF QueueInv
<1>3. Begin \in Nat /\ Begin <= Processed /\ Processed < MAX_QUEUE - 1
  BY <1>1, <1>2 DEF Begin, QueueInv, Regular
<1>4. /\ First(RecvBuffer_) = (Begin + 1) % MAX_QUEUE
      /\ EnqStart(RecvBuffer_) = (Processed + 1) % MAX_QUEUE
  BY <1>1 DEF First, EnqStart, QueueInv
<1>5. First(RecvBuffer_) = Begin + 1 /\ EnqStart(RecvBuffer_) = Processed + 1
  <2>1. Begin + 1 \in 0 .. (MAX_QUEUE - 1) /\ Processed + 1 \in 0 .. (MAX_QUEUE - 1)
    BY <1>1, <1>2, <1>3
  <2>2. Begin + 1 \in Int /\ Processed + 1 \in Int
    BY <1>2, <1>3
  <2> QED
    BY <1>1, <1>4, <2>1, <2>2, NoWrap
<1>6. Held = Processed - Begin
  <2>1. Held = IF Begin = Processed THEN 0
               ELSE IF Begin + 1 <= Processed THEN U32(Processed - Begin)
               ELSE U32((MAX_QUEUE - (Begin + 1)) + Processed)
    BY <1>1, <1>5 DEF Held, GetNowQueueSize, QueueInv
  <2>2. Processed - Begin \in 0 .. (Word - 1) /\ Processed - Begin \in Int
    BY <1>1, <1>2, <1>3
  <2>3. U32(Processed - Begin) = Processed - Begin
    BY <1>1, <2>2, NoWrap DEF U32
  <2> QED
    BY <1>2, <1>3, <2>1, <2>3
<1>7. ASSUME NEW i \in 0 .. (Processed - Begin - 1)
      PROVE  At(i) = stream[Begin + 1 + i]
  <2>1. Begin + 1 + i \in (Begin + 1) .. Processed /\ Begin + 1 + i < MAX_QUEUE
    BY <1>1, <1>2, <1>3
  <2>2. At(i) = RecvBuffer_.Queue_[Begin + 1 + i]
    BY <1>5, <2>1 DEF At
  <2> QED
    BY <1>1, <2>1, <2>2 DEF QueueInv
<1> QED
  BY <1>2, <1>3, <1>5, <1>6, <1>7

\* The packet that is being assembled, in the stream.
LEMMA Assembled ==
  ASSUME AssemblyIInv, QueueInv, Len(delivered) < Len(sent)
  PROVE  LET p == sent[Len(delivered) + 1]
         IN  /\ p \in Seq(Bytes) /\ Len(p) \in Sizes /\ Len(p) \in Nat /\ Len(p) > 2
             /\ Len(p) < MAX_QUEUE
             /\ Begin \in Nat /\ End \in Nat /\ End = Begin + Len(p) /\ End <= Len(stream)
             /\ \A j \in 1 .. Len(p) : stream[Begin + j] = p[j]
             /\ Size(stream[Begin + 1], stream[Begin + 2]) = Len(p)
<1> DEFINE d == Len(delivered)
           p == sent[d + 1]
<1>1. /\ d \in Nat /\ d + 1 \in 1 .. Len(sent)
      /\ d + 1 \in 1 .. (Len(sent) + 1) /\ d + 2 \in 1 .. (Len(sent) + 1)
      /\ sent \in Seq(Seq(Bytes))
  <2>1. d \in Nat /\ Len(sent) \in Nat
    BY Positions DEF AssemblyIInv
  <2>2. sent \in Seq(Seq(Bytes))
    BY DEF AssemblyIInv, StreamsInv, AssemblyInv, TypeOK
  <2> QED
    BY <2>1, <2>2
<1>2. /\ starts[d + 1] \in Nat /\ starts[d + 2] \in Nat /\ starts[d + 2] <= Len(stream)
  BY <1>1, Positions DEF AssemblyIInv
<1>3. PacketAt(d + 1) /\ p \in Seq(Bytes) /\ d + 1 + 1 = d + 2
  BY <1>1 DEF AssemblyIInv, StreamsInv, StreamInv
<1>4. Len(p) \in Sizes /\ Len(p) \in Nat /\ Len(p) > 2 /\ Len(p) < MAX_QUEUE
  BY <1>3, AssemblyAssumption DEF PacketAt
<1>5. \A j \in 1 .. Len(p) : stream[starts[d + 1] + j] = p[j]
  BY <1>3 DEF PacketAt
<1>6. starts[d + 2] = starts[d + 1] + Len(p) /\ Size(p[1], p[2]) = Len(p)
  BY <1>3 DEF PacketAt
<1>7. Size(stream[starts[d + 1] + 1], stream[starts[d + 1] + 2]) = Len(p)
  <2>1. 1 \in 1 .. Len(p) /\ 2 \in 1 .. Len(p)
    BY <1>4
  <2> QED
    BY <1>5, <1>6, <2>1
<1> QED
  BY <1>2, <1>3, <1>4, <1>5, <1>6, <1>7 DEF Begin, End

\* The size of that packet is read from the queue when its two bytes are there.
LEMMA SizeOfRest ==
  ASSUME AssemblyIInv, Regular, Len(delivered) < Len(sent), Begin + 1 < Processed
  PROVE  SizeInQueue = Len(sent[Len(delivered) + 1])
<1>1. QueueInv
  BY DEF AssemblyIInv
<1>2. 0 \in 0 .. (Processed - Begin - 1) /\ 1 \in 0 .. (Processed - Begin - 1)
  BY QueueRead
<1>3. At(0) = stream[Begin + 1 + 0] /\ At(1) = stream[Begin + 1 + 1]
  BY <1>2, QueueRead
<1>4. Begin + 1 + 0 = Begin + 1 /\ Begin + 1 + 1 = Begin + 2
  BY QueueRead
<1> QED
  BY <1>1, <1>3, <1>4, Assembled DEF SizeInQueue

\* In the loop a packet is being assembled, its size is known, and required is
\* what is missing of it.
LEMMA LoopSize ==
  ASSUME AssemblyIInv, Regular, pc = "loop"
  PROVE  /\ Len(delivered) < Len(sent) /\ Processed < End
         /\ Required = End - Processed
<1> DEFINE d == Len(delivered)
           p == sent[d + 1]
<1>1. QueueInv /\ StreamsInv /\ ioByte > 0
  BY DEF AssemblyIInv, StreamsInv, LoopInv
<1>2. d < Len(sent)
  <2>1. /\ Processed < Len(stream) /\ d \in Nat /\ Len(sent) \in Nat /\ d <= Len(sent)
        /\ Len(stream) \in Nat /\ Processed \in Nat
    <3>1. Processed \in Nat /\ ioByte \in Nat /\ Len(wire) \in Nat /\ Len(stream) \in Nat
          /\ Processed + ioByte = Received /\ Received + Len(wire) = Len(stream)
          /\ Len(sent) \in Nat /\ d \in Nat
      BY <1>1, Positions
    <3> QED
      BY <1>1, <3>1 DEF QueueInv
  <2>2. d = Len(sent) => Begin = Len(stream)
    BY <1>1 DEF Begin, StreamsInv, StreamInv
  <2>3. Begin <= Processed
    BY <1>1 DEF QueueInv
  <2> QED
    BY <2>1, <2>2, <2>3
<1>3. /\ Begin \in Nat /\ End = Begin + Len(p) /\ Len(p) \in Nat /\ Len(p) > 2
      /\ Len(p) < MAX_QUEUE
      /\ Size(stream[Begin + 1], stream[Begin + 2]) = Len(p)
  BY <1>1, <1>2, Assembled
<1>4. Processed < End
  BY <1>1, <1>2 DEF QueueInv
<1>5. CurrentSize = Len(p)
  <2>1. CASE Processed # Begin
    BY <1>1, <1>3, <2>1 DEF QueueInv, CurrentSize
  <2>2. CASE Processed = Begin
    <3>1. packetSize = 0
      BY <1>1, <2>2 DEF QueueInv
    <3>2. Received # Begin + 1
      <4>1. ~split /\ d + 1 \in 1 .. Len(sent)
        BY <1>1, <1>2, Positions DEF Regular
      <4> QED
        BY <1>1, <4>1 DEF StreamsInv, WireInv, Begin
    <3>3. 1 \in 1 .. ioByte /\ 2 \in 1 .. ioByte
      <4>1. ioByte \in Nat /\ Processed \in Nat /\ Processed + ioByte = Received
        BY <1>1, Positions
      <4> QED
        BY <1>1, <2>2, <3>2, <4>1
    <3>4. Buf_[pbuf + 1 - 1] = stream[Processed + 1] /\ Buf_[pbuf + 2 - 1] = stream[Processed + 2]
      BY <1>1, <3>3 DEF StreamsInv, WireInv
    <3>5. /\ pbuf \in Nat /\ pbuf + 1 < MAX_BUFFER /\ pbuf < MAX_BUFFER
          /\ pbuf + 1 - 1 = pbuf /\ pbuf + 2 - 1 = pbuf + 1
      BY <1>1, <3>3, QueueAssumption DEF StreamsInv, AssemblyInv, TypeOK, InChunk
    <3>6. BufAt(pbuf) = stream[Begin + 1] /\ BufAt(pbuf + 1) = stream[Begin + 2]
      BY <2>2, <3>4, <3>5 DEF BufAt
    <3> QED
      BY <1>3, <3>1, <3>6 DEF CurrentSize, SizeInBuf
  <2> QED
    BY <2>1, <2>2
<1>6. Required = End - Processed
  <2>1. /\ Held = Processed - Begin /\ Processed \in Nat /\ Begin <= Processed
    BY QueueRead
  <2>2. /\ CurrentSize - Held = End - Processed
        /\ End - Processed \in 0 .. (Word - 1) /\ End - Processed \in Int
        /\ Word \in Nat \ {0}
    BY <1>3, <1>4, <1>5, <2>1, QueueAssumption
  <2> QED
    BY <2>2, NoWrap DEF Required, U32
<1> QED
  BY <1>2, <1>4, <1>6

\* In a regular stream Enq puts the next bytes behind the ones that are there,
\* and never copies past the last cell.
LEMMA EnqRegular ==
  ASSUME AssemblyIInv, Regular, NEW n \in Nat, n <= ioByte
  PROVE  /\ ~EnqOverruns(RecvBuffer_, n)
         /\ Processed + n < MAX_QUEUE - 1 =>
              LET q == Enq(RecvBuffer_, Chunk(n))
              IN  /\ q.FrontIndex_ = Begin /\ q.RearIndex_ = Processed + n
                  /\ \A k \in (Begin + 1) .. (Processed + n) : q.Queue_[k] = stream[k]
<1> DEFINE q == Enq(RecvBuffer_, Chunk(n))
           start == Processed + 1
<1>1. /\ Begin \in Nat /\ Processed \in Nat /\ Begin <= Processed
      /\ Processed < MAX_QUEUE - 1 /\ EnqStart(RecvBuffer_) = start
      /\ Held = Processed - Begin
      /\ MAX_QUEUE \in Nat \ {0} /\ Word \in Nat \ {0} /\ Word > MAX_QUEUE
  BY QueueRead, QueueAssumption
<1>2. QueueInv /\ StreamsInv /\ AssemblyInv
  BY DEF AssemblyIInv, StreamsInv
<1>3. EnqInTwo(RecvBuffer_, n) <=> MAX_QUEUE - start <= n
  <2>1. start >= RecvBuffer_.FrontIndex_
    BY <1>1, <1>2 DEF QueueInv
  <2> QED
    BY <1>1, <2>1 DEF EnqInTwo
<1>4. ~EnqOverruns(RecvBuffer_, n)
  BY <1>1, <1>3 DEF EnqOverruns
<1>5. ASSUME Processed + n < MAX_QUEUE - 1
      PROVE  /\ q.FrontIndex_ = Begin /\ q.RearIndex_ = Processed + n
             /\ \A k \in (Begin + 1) .. (Processed + n) : q.Queue_[k] = stream[k]
  <2>1. Len(Chunk(n)) = n /\ \A j \in 1 .. n : Chunk(n)[j] = Buf_[pbuf + j - 1]
    BY DEF Chunk
  <2>2. EnqFits(RecvBuffer_, n)
    <3>1. (MAX_QUEUE - 1) - Held \in 0 .. (Word - 1) /\ (MAX_QUEUE - 1) - Held \in Int
      BY <1>1
    <3>2. GetRemainQueueSize(RecvBuffer_) = (MAX_QUEUE - 1) - Held
      BY <1>1, <3>1, NoWrap DEF GetRemainQueueSize, U32, Held
    <3> QED
      BY <1>1, <1>5, <3>2 DEF EnqFits
  <2>3. ~EnqInTwo(RecvBuffer_, n)
    BY <1>1, <1>3, <1>5
  <2>4. U32(start + n - 1) = Processed + n
    <3>1. /\ start + n - 1 \in 0 .. (Word - 1) /\ start + n - 1 \in Int
          /\ start + n - 1 = Processed + n
      BY <1>1, <1>5
    <3> QED
      BY <1>1, <3>1, NoWrap DEF U32
  <2>5. q = Ring(Written(RecvBuffer_.Queue_, start, Chunk(n)), Begin, Processed + n)
    BY <1>1, <1>2, <2>1, <2>2, <2>3, <2>4 DEF Enq, QueueInv
  <2>6. ASSUME NEW k \in (Begin + 1) .. (Processed + n)
        PROVE  Written(RecvBuffer_.Queue_, start, Chunk(n))[k] = stream[k]
    <3> DEFINE j == (k - start) % MAX_QUEUE
    <3>1. k \in Cells /\ k \in Nat /\ k - start \in Int
      BY <1>1, <1>5 DEF Cells
    <3>2. Written(RecvBuffer_.Queue_, start, Chunk(n))[k]
            = IF j < n THEN Chunk(n)[j + 1] ELSE RecvBuffer_.Queue_[k]
      BY <2>1, <3>1 DEF Written
    <3>3. CASE k > Processed
      <4>1. k - start \in 0 .. (MAX_QUEUE - 1)
        BY <1>1, <1>5, <3>1, <3>3
      <4>2. j = k - start
        BY <1>1, <3>1, <4>1, NoWrap
      <4>3. /\ j < n /\ k - Processed \in 1 .. n /\ j + 1 = k - Processed
            /\ k - Processed \in 1 .. ioByte /\ Processed + (k - Processed) = k
        <5>1. ioByte \in Nat
          BY <1>2, Positions
        <5> QED
          BY <1>1, <3>1, <3>3, <4>2, <5>1
      <4>4. Chunk(n)[j + 1] = Buf_[pbuf + (k - Processed) - 1]
        BY <2>1, <4>3
      <4>5. Buf_[pbuf + (k - Processed) - 1] = stream[k]
        BY <1>2, <4>3 DEF StreamsInv, WireInv
      <4> QED
        BY <3>2, <4>3, <4>4, <4>5
    <3>4. CASE k <= Processed
      <4>1. k - start \in (-MAX_QUEUE) .. (-1)
        BY <1>1, <3>1, <3>4
      <4>2. j = k - start + MAX_QUEUE
        BY <1>1, <3>1, <4>1, NoWrap
      <4>3. ~(j < n) /\ k \in (Begin + 1) .. Processed
        BY <1>1, <1>5, <3>1, <3>4, <4>2
      <4> QED
        BY <1>2, <3>2, <4>3 DEF QueueInv
    <3> QED
      BY <1>1, <3>1, <3>3, <3>4
  <2> QED
    BY <2>5, <2>6 DEF Ring
<1> QED
  BY <1>4, <1>5

\* At the start nothing was sent, and the queue is at the start of the stream.
LEMMA InitIInv == Init => AssemblyIInv
<1> SUFFICES ASSUME Init PROVE AssemblyIInv
  OBVIOUS
<1>1. /\ sent = <<>> /\ wire = <<>> /\ delivered = <<>> /\ stream = <<>> /\ starts = <<0>>
      /\ ioByte = 0 /\ pbuf = 0 /\ packetSize = 0 /\ pc = "recv" /\ RecvBuffer_ = Cleared
  BY DEF Init
<1>2. Received = 0 /\ Processed = 0 /\ Begin = 0
  BY <1>1 DEF Received, Processed, Begin
<1>3. StreamInv
  BY <1>1 DEF StreamInv
<1>4. WireInv /\ LoopInv
  BY <1>1 DEF WireInv, LoopInv
<1>5. QueueInv
  BY <1>1, <1>2 DEF QueueInv, Cleared, Ring
<1> QED
  BY InitAssembly, <1>3, <1>4, <1>5 DEF AssemblyIInv, StreamsInv

\* A packet that is sent changes nothing of what was sent before it.
LEMMA SendIInv ==
  ASSUME AssemblyIInv, NEW size \in Sizes, Send(size)
  PROVE  AssemblyIInv'
<1>1. StreamsInv /\ AssemblyInv /\ StreamInv /\ WireInv
  BY DEF AssemblyIInv, StreamsInv
<1>2. /\ Received \in Nat /\ Processed \in Nat
      /\ Processed + ioByte = Received /\ Received + Len(wire) = Len(stream)
      /\ Len(sent) \in Nat /\ Len(delivered) \in Nat /\ Len(wire) \in Nat
      /\ ioByte \in Nat /\ pbuf \in Nat /\ Len(stream) \in Nat
      /\ \A i \in 1 .. (Len(sent) + 1) : starts[i] \in Nat /\ starts[i] <= Len(stream)
      /\ size \in Nat /\ size > 0
  BY <1>1, Positions, AssemblyAssumption
<1>3. UNCHANGED <<Buf_, RecvBuffer_, pc, ioByte, pbuf, packetSize, delivered, split>>
  BY DEF Send, loopVars
<1>4. /\ StreamInv' /\ AssemblyInv'
      /\ \A i \in 1 .. Len(sent) : sent'[i] = sent[i]
      /\ \A i \in 1 .. (Len(sent) + 1) : starts'[i] = starts[i]
      /\ \A k \in 1 .. Len(stream) : stream'[k] = stream[k]
      /\ Len(sent') = Len(sent) + 1 /\ starts'[Len(sent) + 2] = Len(stream) + size
      /\ Len(stream') = Len(stream) + size /\ Len(wire') = Len(wire) + size
      /\ \A j \in 1 .. Len(wire) : wire'[j] = wire[j]
      /\ \A j \in 1 .. size : wire'[Len(wire) + j] = stream'[Len(stream) + j]
  BY <1>1, SendKeeps, SendStream
<1>5. Received' = Received /\ Processed' = Processed
  BY <1>2, <1>3, <1>4 DEF Received, Processed
<1>6. WireInv'
  <2>1. (Len(wire) + ioByte <= Len(stream))'
    BY <1>2, <1>3, <1>4
  <2>2. ASSUME NEW j \in 1 .. Len(wire') PROVE wire'[j] = stream'[Received + j]
    <3>1. CASE j <= Len(wire)
      <4>1. j \in 1 .. Len(wire) /\ Received + j \in 1 .. Len(stream)
        BY <1>2, <3>1
      <4> QED
        BY <1>1, <1>4, <4>1 DEF WireInv
    <3>2. CASE j > Len(wire)
      <4>1. /\ j - Len(wire) \in 1 .. size /\ Len(wire) + (j - Len(wire)) = j
            /\ Len(stream) + (j - Len(wire)) = Received + j
        <5>1. j \in Nat /\ j <= Len(wire) + size
          BY <1>2, <1>4
        <5>2. /\ Received + Len(wire) = Len(stream) /\ Received \in Nat /\ Len(wire) \in Nat
              /\ Len(stream) \in Nat /\ size \in Nat
          BY <1>2
        <5> QED
          BY <3>2, <5>1, <5>2
      <4>2. wire'[Len(wire) + (j - Len(wire))] = stream'[Len(stream) + (j - Len(wire))]
        BY <1>4, <4>1
      <4> QED
        BY <4>1, <4>2
    <3> QED
      BY <1>2, <3>1, <3>2
  <2>3. ASSUME NEW j \in 1 .. ioByte PROVE Buf_[pbuf + j - 1] = stream'[Processed + j]
    <3>1. Processed + j \in 1 .. Len(stream)
      BY <1>2
    <3> QED
      BY <1>1, <1>4, <3>1 DEF WireInv
  <2>4. ASSUME ~split, NEW i \in 1 .. (Len(sent) + 1) PROVE Received # starts'[i] + 1
    <3>1. CASE i \in 1 .. Len(sent)
      BY <1>1, <1>2, <1>4, <2>4, <3>1 DEF WireInv
    <3>2. CASE i = Len(sent) + 1
      <4>1. starts'[i] = Len(stream)
        BY <1>1, <1>2, <1>4, <3>2 DEF StreamInv
      <4> QED
        BY <1>2, <4>1
    <3> QED
      BY <1>2, <3>1, <3>2
  <2> QED
    BY <1>3, <1>4, <1>5, <2>1, <2>2, <2>3, <2>4 DEF WireInv
<1>7. LoopInv'
  BY <1>3 DEF AssemblyIInv, StreamsInv, LoopInv
<1>8. ASSUME Regular' PROVE QueueInv'
  <2>1. Regular /\ QueueInv
    BY <1>3, <1>5, <1>8 DEF Regular, AssemblyIInv
  <2>2. Len(delivered) <= Len(sent) /\ Len(delivered) + 1 \in 1 .. (Len(sent) + 1)
    BY <1>2, <2>1 DEF QueueInv
  <2>3. Begin' = Begin /\ Begin \in Nat
    BY <1>2, <1>3, <1>4, <2>2 DEF Begin
  <2>4. \A k \in (Begin + 1) .. Processed : RecvBuffer_.Queue_[k] = stream'[k]
    <3>1. \A k \in (Begin + 1) .. Processed : k \in 1 .. Len(stream)
      BY <1>2, <2>3
    <3> QED
      BY <1>4, <2>1, <3>1 DEF QueueInv
  <2>5. /\ Processed < End' \/ Len(delivered) < Len(sent)
        /\ Len(delivered) < Len(sent) =>
             End' = End /\ sent'[Len(delivered) + 1] = sent[Len(delivered) + 1]
    <3>1. CASE Len(delivered) < Len(sent)
      <4>1. Len(delivered) + 2 \in 1 .. (Len(sent) + 1) /\ Len(delivered) + 1 \in 1 .. Len(sent)
        BY <1>2, <3>1
      <4> QED
        BY <1>3, <1>4, <3>1, <4>1 DEF End
    <3>2. CASE Len(delivered) = Len(sent)
      <4>1. End' = Len(stream) + size
        BY <1>3, <1>4, <3>2 DEF End
      <4> QED
        BY <1>2, <3>2, <4>1
    <3> QED
      BY <1>2, <2>2, <3>1, <3>2
  <2>6. pc = "loop" => Len(delivered) < Len(sent)
    BY <2>1, LoopSize
  <2>7. pc \in {"recv", "loop"} => Processed < End'
    BY <2>1, <2>5 DEF QueueInv
  <2>8. pc = "process" => Len(delivered) < Len(sent') /\ Processed = End'
    BY <1>2, <1>4, <2>1, <2>5 DEF QueueInv
  <2>9. pc = "loop" =>
          packetSize = IF Processed = Begin THEN 0 ELSE Len(sent'[Len(delivered) + 1])
    BY <2>1, <2>5, <2>6 DEF QueueInv
  <2>10. Len(delivered) <= Len(sent')
    BY <1>2, <1>4, <2>2
  <2> QED
    BY <1>3, <1>5, <2>1, <2>3, <2>4, <2>7, <2>8, <2>9, <2>10 DEF QueueInv
<1> QED
  BY <1>4, <1>6, <1>7, <1>8 DEF AssemblyIInv, StreamsInv

\* A receive moves bytes from the wire into the chunk, and the size of the
\* packet is read when the queue holds a part of it.
LEMMA ReceiveIInv ==
  ASSUME AssemblyIInv, NEW n \in Nat \ {0}, n <= Len(wire), n <= MAX_BUFFER, Receive(n)
  PROVE  AssemblyIInv'
<1>1. StreamsInv /\ AssemblyInv /\ StreamInv /\ WireInv /\ LoopInv
  BY DEF AssemblyIInv, StreamsInv
<1>2. /\ Received \in Nat /\ Processed \in Nat
      /\ Processed + ioByte = Received /\ Received + Len(wire) = Len(stream)
      /\ Len(sent) \in Nat /\ Len(delivered) \in Nat /\ Len(wire) \in Nat
      /\ Len(stream) \in Nat
  BY <1>1, Positions
<1>3. /\ pc = "recv" /\ pc' = "loop" /\ ioByte = 0 /\ ioByte' = n /\ pbuf' = 0
      /\ split' = (split \/ CutsHeader(n))
      /\ Buf_' = [i \in DOMAIN Buf_ |-> IF i < n THEN wire[i + 1] ELSE Buf_[i]]
      /\ wire' = SubSeq(wire, n + 1, Len(wire))
      /\ packetSize' = IF Held = 0 THEN 0 ELSE SizeInQueue
      /\ UNCHANGED <<sent, RecvBuffer_, delivered, stream, starts>>
  BY <1>1 DEF Receive, streamVars, LoopInv
<1>4. /\ Len(wire') = Len(wire) - n
      /\ \A j \in 1 .. (Len(wire) - n) : wire'[j] = wire[n + j]
  <2>1. wire \in Seq(Bytes)
    BY <1>1 DEF AssemblyInv, TypeOK
  <2>2. wire' = SubSeq(wire, n + 1, Len(wire))
    BY <1>3
  <2> QED
    BY <1>2, <2>1, <2>2
<1>5. Received' = Received + n /\ Processed' = Processed /\ Processed = Received
  <2>1. Len(wire') = Len(wire) - n /\ stream' = stream /\ ioByte = 0 /\ ioByte' = n
    BY <1>3, <1>4
  <2>2. Received' = Len(stream) - (Len(wire) - n) /\ Processed' = Received' - n
    BY <2>1 DEF Received, Processed
  <2>3. Received = Len(stream) - Len(wire) /\ Processed = Received - 0
    BY <2>1 DEF Received, Processed
  <2> QED
    BY <1>2, <2>2, <2>3
<1>6. WireInv'
  <2>1. (Len(wire) + ioByte <= Len(stream))'
    BY <1>2, <1>3, <1>4
  <2>2. ASSUME NEW j \in 1 .. Len(wire') PROVE wire'[j] = stream[Received + n + j]
    <3>1. /\ n + j \in 1 .. Len(wire) /\ j \in 1 .. (Len(wire) - n)
          /\ Received + (n + j) = Received + n + j
      BY <1>2, <1>4
    <3>2. wire'[j] = wire[n + j]
      BY <1>4, <3>1
    <3>3. wire[n + j] = stream[Received + (n + j)]
      BY <1>1, <3>1 DEF WireInv
    <3> QED
      BY <3>1, <3>2, <3>3
  <2>3. ASSUME NEW j \in 1 .. n PROVE Buf_'[0 + j - 1] = stream[Processed + j]
    <3>1. DOMAIN Buf_ = 0 .. (MAX_BUFFER - 1) /\ MAX_BUFFER \in Nat
      BY <1>1, QueueAssumption DEF AssemblyInv, TypeOK
    <3>2. /\ 0 + j - 1 \in 0 .. (MAX_BUFFER - 1) /\ 0 + j - 1 < n /\ 0 + j - 1 + 1 = j
          /\ j \in 1 .. Len(wire)
      BY <1>2, <3>1
    <3>3. Buf_'[0 + j - 1] = wire[j]
      BY <1>3, <3>1, <3>2
    <3> QED
      BY <1>1, <1>5, <3>2, <3>3 DEF WireInv
  <2>4. ASSUME ~split', NEW i \in 1 .. Len(sent) PROVE Received + n # starts[i] + 1
    BY <1>3, <2>4 DEF CutsHeader
  <2> QED
    BY <1>3, <1>5, <2>1, <2>2, <2>3, <2>4 DEF WireInv
<1>7. LoopInv'
  BY <1>3 DEF LoopInv
<1>8. ASSUME Regular' PROVE QueueInv'
  <2>1. Regular /\ QueueInv
    BY <1>3, <1>5, <1>8 DEF Regular, AssemblyIInv
  <2>2. Begin' = Begin /\ End' = End
    BY <1>3 DEF Begin, End
  <2>3. packetSize' = IF Processed = Begin THEN 0 ELSE Len(sent[Len(delivered) + 1])
    <3>1. Begin \in Nat /\ Begin <= Processed /\ Held = Processed - Begin
      BY <2>1, QueueRead
    <3>2. CASE Processed = Begin
      BY <1>2, <1>3, <3>1, <3>2
    <3>3. CASE Processed # Begin
      <4>1. Len(delivered) < Len(sent)
        <5>1. Len(delivered) = Len(sent) => Begin = Len(stream)
          BY <1>1 DEF Begin, StreamInv
        <5>2. Len(delivered) <= Len(sent)
          BY <2>1 DEF QueueInv
        <5> QED
          BY <1>2, <1>5, <3>1, <3>3, <5>1, <5>2
      <4>2. Processed # Begin + 1
        <5>1. ~split /\ Len(delivered) + 1 \in 1 .. Len(sent)
          BY <1>2, <2>1, <4>1 DEF Regular
        <5> QED
          BY <1>1, <1>5, <5>1 DEF WireInv, Begin
      <4>3. Begin + 1 < Processed /\ Held # 0
        BY <1>2, <3>1, <3>3, <4>2
      <4>4. SizeInQueue = Len(sent[Len(delivered) + 1])
        BY <2>1, <4>1, <4>3, SizeOfRest
      <4> QED
        BY <1>3, <3>3, <4>3, <4>4
    <3> QED
      BY <3>2, <3>3
  <2> QED
    BY <1>3, <1>5, <2>1, <2>2, <2>3 DEF QueueInv
<1> QED
  BY <1>1, <1>3, <1>6, <1>7, <1>8, ReceiveKeeps, StreamUnchanged DEF AssemblyIInv, StreamsInv

\* The part of a packet at the end of a chunk goes into the queue.
LEMMA IncompleteIInv ==
  ASSUME AssemblyIInv, Incomplete
  PROVE  AssemblyIInv'
<1>1. StreamsInv /\ AssemblyInv /\ StreamInv /\ WireInv /\ LoopInv
  BY DEF AssemblyIInv, StreamsInv
<1>2. /\ Received \in Nat /\ Processed \in Nat /\ ioByte \in Nat
      /\ Processed + ioByte = Received /\ Received + Len(wire) = Len(stream)
      /\ Len(wire) \in Nat /\ Len(stream) \in Nat
  BY <1>1, Positions
<1>3. /\ pc = "loop" /\ ioByte < Required /\ RecvBuffer_' = Enq(RecvBuffer_, Chunk(ioByte))
      /\ ioByte' = 0 /\ pbuf' = 0 /\ packetSize' = 0 /\ pc' = "recv"
      /\ UNCHANGED <<sent, wire, Buf_, delivered, split, stream, starts>>
  BY DEF Incomplete, Reposts, streamVars
<1>4. Received' = Received /\ Processed' = Received
  BY <1>2, <1>3 DEF Received, Processed
<1>5. WireInv'
  BY <1>1, <1>2, <1>3, <1>4 DEF WireInv
<1>6. LoopInv'
  BY <1>3 DEF LoopInv
<1>7. ASSUME Regular' PROVE QueueInv'
  <2>1. Received < MAX_QUEUE - 1 /\ Processed < MAX_QUEUE - 1
    BY <1>2, <1>4, <1>7, QueueAssumption DEF Regular
  <2>2. Regular /\ QueueInv
    BY <1>3, <1>7, <2>1 DEF Regular, AssemblyIInv
  <2>3. Begin' = Begin /\ End' = End
    BY <1>3 DEF Begin, End
  <2>4. /\ RecvBuffer_'.FrontIndex_ = Begin /\ RecvBuffer_'.RearIndex_ = Received
        /\ \A k \in (Begin + 1) .. Received : RecvBuffer_'.Queue_[k] = stream[k]
    BY <1>2, <1>3, <2>1, <2>2, EnqRegular
  <2>5. Begin <= Received
    BY <1>2, <2>2, QueueRead
  <2>6. Received < End
    <3>1. Required = End - Processed /\ Len(delivered) < Len(sent)
      BY <1>3, <2>2, LoopSize
    <3>2. End \in Nat
      BY <2>2, <3>1, Assembled
    <3> QED
      BY <1>2, <1>3, <3>1, <3>2
  <2> QED
    BY <1>3, <1>4, <2>2, <2>3, <2>4, <2>5, <2>6 DEF QueueInv
<1> QED
  BY <1>1, <1>3, <1>5, <1>6, <1>7, TakesKeeps, StreamUnchanged DEF AssemblyIInv, StreamsInv

\* What is missing of a packet goes into the queue.
LEMMA CompleteIInv ==
  ASSUME AssemblyIInv, Complete
  PROVE  AssemblyIInv'
<1> DEFINE n == Required
<1>1. StreamsInv /\ AssemblyInv /\ StreamInv /\ WireInv /\ LoopInv
  BY DEF AssemblyIInv, StreamsInv
<1>2. /\ Received \in Nat /\ Processed \in Nat /\ ioByte \in Nat /\ pbuf \in Nat
      /\ Processed + ioByte = Received /\ Received + Len(wire) = Len(stream)
      /\ Len(wire) \in Nat /\ Len(stream) \in Nat
  BY <1>1, Positions
<1>3. /\ pc = "loop" /\ ioByte >= n /\ RecvBuffer_' = Enq(RecvBuffer_, Chunk(n))
      /\ ioByte' = ioByte - n /\ pbuf' = pbuf + n /\ packetSize' = 0 /\ pc' = "process"
      /\ UNCHANGED <<sent, wire, Buf_, delivered, split, stream, starts>>
  BY DEF Complete, streamVars
<1>4. n \in Nat
  BY <1>1, SizesRead
<1> HIDE DEF n
<1>5. Received' = Received /\ Processed' = Processed + n
  BY <1>2, <1>3, <1>4 DEF Received, Processed
<1>6. WireInv'
  <2>1. (Len(wire) + ioByte <= Len(stream))'
    BY <1>2, <1>3, <1>4
  <2>2. ASSUME NEW j \in 1 .. ioByte' PROVE Buf_[pbuf' + j - 1] = stream[Processed + n + j]
    <3>1. n + j \in 1 .. ioByte
      BY <1>2, <1>3, <1>4
    <3>2. pbuf' + j - 1 = pbuf + (n + j) - 1 /\ Processed + n + j = Processed + (n + j)
      BY <1>2, <1>3, <1>4
    <3> QED
      BY <1>1, <3>1, <3>2 DEF WireInv
  <2> QED
    BY <1>1, <1>3, <1>5, <2>1, <2>2 DEF WireInv
<1>7. LoopInv'
  BY <1>3 DEF LoopInv
<1>8. ASSUME Regular' PROVE QueueInv'
  <2>1. Processed + n < MAX_QUEUE - 1 /\ Processed < MAX_QUEUE - 1
    BY <1>2, <1>4, <1>5, <1>8, QueueAssumption DEF Regular
  <2>2. Regular /\ QueueInv
    BY <1>3, <1>8, <2>1 DEF Regular, AssemblyIInv
  <2>3. Begin' = Begin /\ End' = End
    BY <1>3 DEF Begin, End
  <2>4. /\ RecvBuffer_'.FrontIndex_ = Begin /\ RecvBuffer_'.RearIndex_ = Processed + n
        /\ \A k \in (Begin + 1) .. (Processed + n) : RecvBuffer_'.Queue_[k] = stream[k]
    BY <1>2, <1>3, <1>4, <2>1, <2>2, EnqRegular
  <2>5. Begin <= Processed + n
    BY <1>2, <1>4, <2>2, QueueRead
  <2>6. Processed + n = End /\ Len(delivered) < Len(sent)
    <3>1. n = End - Processed /\ Len(delivered) < Len(sent)
      BY <1>3, <2>2, LoopSize DEF n
    <3>2. End \in Nat
      BY <2>2, <3>1, Assembled
    <3> QED
      BY <1>2, <3>1, <3>2
  <2> QED
    BY <1>3, <1>5, <2>2, <2>3, <2>4, <2>5, <2>6 DEF QueueInv
<1> QED
  BY <1>1, <1>3, <1>6, <1>7, <1>8, TakesKeeps, StreamUnchanged DEF AssemblyIInv, StreamsInv

\* In a regular stream the handler is given the packet that was assembled, and
\* Pop takes exactly that packet.
LEMMA ProcessRegular ==
  ASSUME AssemblyIInv, Regular, PacketProcess
  PROVE  /\ Len(delivered) < Len(sent)
         /\ delivered' = Append(delivered, sent[Len(delivered) + 1])
         /\ RecvBuffer_' = [RecvBuffer_ EXCEPT !.FrontIndex_ = Processed]
<1> DEFINE p == sent[Len(delivered) + 1]
           size == SizeInQueue
<1>1. QueueInv /\ StreamsInv /\ pc = "process"
  BY DEF AssemblyIInv, PacketProcess
<1>2. Len(delivered) < Len(sent) /\ Processed = End
  BY <1>1 DEF QueueInv
<1>3. /\ p \in Seq(Bytes) /\ Len(p) \in Nat /\ Len(p) > 2 /\ Len(p) < MAX_QUEUE
      /\ End = Begin + Len(p) /\ \A j \in 1 .. Len(p) : stream[Begin + j] = p[j]
  BY <1>1, <1>2, Assembled
<1>4. /\ Begin \in Nat /\ Processed \in Nat /\ Processed < MAX_QUEUE - 1
      /\ First(RecvBuffer_) = Begin + 1 /\ Held = Processed - Begin
      /\ MAX_QUEUE \in Nat \ {0} /\ Word \in Nat \ {0} /\ Word > MAX_QUEUE
  BY QueueRead, QueueAssumption
<1>5. size = Len(p)
  <2>1. Begin + 1 < Processed
    BY <1>2, <1>3, <1>4
  <2> QED
    BY <1>2, <2>1, SizeOfRest
<1> HIDE DEF p, size
<1>6. PacketIn(RecvBuffer_, size) = p
  <2>1. size <= MAX_QUEUE - First(RecvBuffer_)
    BY <1>2, <1>3, <1>4, <1>5
  <2>2. PacketIn(RecvBuffer_, size) =
          [i \in 1 .. Len(p) |-> RecvBuffer_.Queue_[First(RecvBuffer_) + i - 1]]
    BY <1>5, <2>1 DEF PacketIn
  <2>3. ASSUME NEW i \in 1 .. Len(p)
        PROVE  RecvBuffer_.Queue_[First(RecvBuffer_) + i - 1] = p[i]
    <3>1. First(RecvBuffer_) + i - 1 = Begin + i /\ Begin + i \in (Begin + 1) .. Processed
      BY <1>2, <1>3, <1>4
    <3> QED
      BY <1>1, <1>3, <3>1 DEF QueueInv
  <2> QED
    BY <1>3, <2>2, <2>3
<1>7. Pop(RecvBuffer_, size) = [RecvBuffer_ EXCEPT !.FrontIndex_ = Processed]
  <2>1. size = GetNowQueueSize(RecvBuffer_) /\ size \in Nat
    BY <1>2, <1>3, <1>4, <1>5 DEF Held
  <2>2. First(RecvBuffer_) < RecvBuffer_.RearIndex_
    BY <1>1, <1>2, <1>3, <1>4 DEF QueueInv
  <2>3. U32(size - 1) % MAX_QUEUE = size - 1
    <3>1. size - 1 \in 0 .. (Word - 1) /\ size - 1 \in 0 .. (MAX_QUEUE - 1) /\ size - 1 \in Int
      BY <1>3, <1>4, <1>5
    <3> QED
      BY <1>4, <3>1, NoWrap DEF U32
  <2>4. U32(First(RecvBuffer_) + (size - 1)) = Processed
    <3>1. First(RecvBuffer_) + (size - 1) = Processed
      BY <1>2, <1>3, <1>4, <1>5
    <3>2. Processed \in 0 .. (Word - 1) /\ Processed \in Int
      BY <1>4
    <3> QED
      BY <1>4, <3>1, <3>2, NoWrap DEF U32
  <2> QED
    BY <2>1, <2>2, <2>3, <2>4 DEF Pop
<1> QED
  BY <1>2, <1>6, <1>7 DEF PacketProcess, p, size

\* The packet is handled, and the next one begins where the loop has come.
LEMMA ProcessIInv ==
  ASSUME AssemblyIInv, PacketProcess
  PROVE  AssemblyIInv'
<1>1. StreamsInv /\ AssemblyInv /\ StreamInv /\ WireInv /\ LoopInv
  BY DEF AssemblyIInv, StreamsInv
<1>2. /\ Processed \in Nat /\ ioByte \in Nat /\ Len(delivered) \in Nat /\ Len(sent) \in Nat
      /\ Len(stream) \in Nat
      /\ \A i \in 1 .. (Len(sent) + 1) : starts[i] \in Nat /\ starts[i] <= Len(stream)
  BY <1>1, Positions
<1>3. /\ pc = "process" /\ pc' = (IF ioByte = 0 THEN "recv" ELSE "loop")
      /\ pbuf' = (IF ioByte = 0 THEN 0 ELSE pbuf)
      /\ UNCHANGED <<sent, wire, Buf_, ioByte, packetSize, split, stream, starts>>
  BY DEF PacketProcess, streamVars
<1>4. Received' = Received /\ Processed' = Processed
  BY <1>3 DEF Received, Processed
<1>5. WireInv'
  <2>1. ASSUME NEW j \in 1 .. ioByte PROVE pbuf' = pbuf
    BY <1>2, <1>3
  <2> QED
    BY <1>1, <1>3, <1>4, <2>1 DEF WireInv
<1>6. LoopInv'
  BY <1>1, <1>2, <1>3 DEF LoopInv
<1>7. ASSUME Regular' PROVE QueueInv'
  <2>1. Regular /\ QueueInv
    BY <1>3, <1>4, <1>7 DEF Regular, AssemblyIInv
  <2>2. Len(delivered) < Len(sent) /\ Processed = End
    BY <1>3, <2>1 DEF QueueInv
  <2>3. /\ Len(delivered') = Len(delivered) + 1
        /\ RecvBuffer_' = [RecvBuffer_ EXCEPT !.FrontIndex_ = Processed]
    BY <1>1, <2>1, ProcessRegular DEF AssemblyInv, TypeOK
  <2>4. Begin' = Processed
    BY <1>2, <1>3, <2>2, <2>3 DEF Begin, End
  <2>5. /\ RecvBuffer_'.FrontIndex_ = Processed /\ RecvBuffer_'.RearIndex_ = Processed
    <3>1. RecvBuffer_ \in Queues
      BY <1>1 DEF AssemblyInv, TypeOK, Queues
    <3> QED
      BY <2>1, <2>3, <3>1 DEF Queues, QueueInv
  <2>6. Len(delivered') < Len(sent) => Processed < End'
    <3>1. ASSUME Len(delivered) + 1 < Len(sent)
          PROVE  starts[Len(delivered) + 2] < starts[Len(delivered) + 3]
      <4>1. /\ Len(delivered) + 2 \in 1 .. (Len(sent) + 1)
            /\ Len(delivered) + 3 \in 1 .. (Len(sent) + 1)
            /\ Len(delivered) + 2 < Len(delivered) + 3
        BY <1>2, <3>1
      <4> QED
        BY <1>1, <4>1 DEF StreamInv
    <3>2. Len(delivered) + 1 + 2 = Len(delivered) + 3
      BY <1>2
    <3> QED
      BY <1>3, <2>2, <2>3, <3>1, <3>2 DEF End
  <2>7. packetSize' = 0
    BY <1>1, <1>3 DEF LoopInv
  <2>8. Len(delivered') <= Len(sent)
    BY <1>2, <2>2, <2>3
  <2> QED
    BY <1>2, <1>3, <1>4, <2>4, <2>5, <2>6, <2>7, <2>8 DEF QueueInv
<1> QED
  BY <1>1, <1>3, <1>5, <1>6, <1>7, ProcessKeeps, StreamUnchanged DEF AssemblyIInv, StreamsInv

\* Enq copies past the last cell only when the stream is no longer regular.
LEMMA OverrunsIInv ==
  ASSUME AssemblyIInv, AssemblyInv', Overruns
  PROVE  AssemblyIInv' /\ ~Regular
<1>1. StreamsInv /\ pc = "loop" /\ pc' = "overrun" /\ Required \in Nat
  BY SizesRead DEF AssemblyIInv, StreamsInv, Overruns
<1>2. UNCHANGED <<sent, wire, Buf_, RecvBuffer_, ioByte, pbuf, packetSize, delivered>>
      /\ UNCHANGED <<split, stream, starts>>
  BY DEF Overruns, loopVars, streamVars
<1>3. ~Regular
  <2>1. SUFFICES ASSUME Regular PROVE FALSE
    OBVIOUS
  <2>2. PICK n \in Nat : n <= ioByte /\ EnqOverruns(RecvBuffer_, n)
    <3>1. ioByte \in Nat
      BY <1>1, Positions
    <3> QED
      BY <1>1, <3>1 DEF Overruns
  <2> QED
    BY <2>1, <2>2, EnqRegular
<1>4. ~Regular'
  BY <1>2, <1>3 DEF Regular, Processed, Received
<1>5. WireInv' /\ LoopInv' /\ StreamInv'
  BY <1>1, <1>2, StreamUnchanged DEF StreamsInv, WireInv, LoopInv, Received, Processed
<1> QED
  BY <1>3, <1>4, <1>5 DEF AssemblyIInv, StreamsInv

\* Every step keeps the inductive invariant.
LEMMA NextIInv == AssemblyIInv /\ [Next]_vars => AssemblyIInv'
<1> SUFFICES ASSUME AssemblyIInv, [Next]_vars PROVE AssemblyIInv'
  OBVIOUS
<1>1. AssemblyInv
  BY DEF AssemblyIInv, StreamsInv
<1>2. CASE \E size \in Sizes : Send(size)
  BY <1>2, SendIInv
<1>3. ASSUME NEW n \in 1 .. (IF Len(wire) < MAX_BUFFER THEN Len(wire) ELSE MAX_BUFFER), Receive(n)
      PROVE  AssemblyIInv'
  <2>1. Len(wire) \in Nat /\ MAX_BUFFER \in Nat
    BY <1>1, QueueAssumption DEF AssemblyInv, TypeOK
  <2>2. n \in Nat \ {0} /\ n <= Len(wire) /\ n <= MAX_BUFFER
    BY <2>1
  <2> QED
    BY <1>3, <2>2, ReceiveIInv
<1>4. CASE Incomplete
  BY <1>4, IncompleteIInv
<1>5. CASE Complete
  BY <1>5, CompleteIInv
<1>6. CASE PacketProcess
  BY <1>6, ProcessIInv
<1>7. CASE Overruns
  <2>1. AssemblyInv'
    BY <1>1, NextKeeps
  <2> QED
    BY <1>7, <2>1, OverrunsIInv
<1>8. CASE UNCHANGED vars
  <2>1. /\ UNCHANGED <<sent, wire, Buf_, RecvBuffer_, pc, ioByte, pbuf, packetSize>>
        /\ UNCHANGED <<delivered, split, stream, starts>>
    BY <1>8 DEF vars, sessionVars, streamVars, loopVars
  <2>2. AssemblyInv' /\ StreamInv' /\ WireInv' /\ LoopInv'
    BY <2>1, StreamUnchanged DEF AssemblyIInv, StreamsInv, AssemblyInv, TypeOK, InChunk,
       WireInv, LoopInv, Received, Processed
  <2>3. Regular' => Regular /\ QueueInv
    BY <2>1 DEF AssemblyIInv, Regular, Received, Processed
  <2>4. Regular' => QueueInv'
    BY <2>1, <2>3 DEF QueueInv, Begin, End, Received, Processed
  <2> QED
    BY <2>2, <2>4 DEF AssemblyIInv, StreamsInv
<1> QED
  BY <1>2, <1>3, <1>4, <1>5, <1>6, <1>7, <1>8 DEF Next

\* Whatever has happened, what is left of a chunk is what the client sent after
\* the bytes that the loop has passed on.
THEOREM ChunkIsFollowed == Spec => []LoopFollowsChunk
<1>1. AssemblyIInv => LoopFollowsChunk
  <2> SUFFICES ASSUME AssemblyIInv, NEW i \in 1 .. ioByte
               PROVE  BufAt(pbuf + i - 1) = stream[Processed + i]
    BY DEF LoopFollowsChunk
  <2>1. pbuf + i - 1 < MAX_BUFFER
    BY QueueAssumption DEF AssemblyIInv, StreamsInv, AssemblyInv, TypeOK, InChunk
  <2> QED
    BY <2>1 DEF AssemblyIInv, StreamsInv, WireInv, BufAt
<1> QED
  BY InitIInv, NextIInv, <1>1, PTL DEF Spec

\* Between two receives of a regular stream the queue holds what was received
\* of the packet that is being assembled, and GetNowQueueSize counts it.
THEOREM RestIsHeld == Spec => []QueueHoldsRest
<1>1. AssemblyIInv => QueueHoldsRest
  <2> DEFINE i == Len(delivered) + 1
             rest == Processed - starts[i]
  <2> SUFFICES ASSUME AssemblyIInv, Regular, pc = "recv"
               PROVE  Held = rest /\ \A j \in 0 .. (rest - 1) : At(j) = sent[i][j + 1]
    BY DEF QueueHoldsRest
  <2>1. QueueInv /\ StreamsInv
    BY DEF AssemblyIInv
  <2>2. /\ Begin \in Nat /\ Processed \in Nat /\ Held = Processed - Begin
        /\ \A j \in 0 .. (Processed - Begin - 1) : At(j) = stream[Begin + 1 + j]
    BY QueueRead
  <2>3. ASSUME NEW j \in 0 .. (Processed - Begin - 1) PROVE At(j) = sent[i][j + 1]
    <3>1. Len(delivered) < Len(sent)
      <4>1. Len(delivered) = Len(sent) => Begin = Len(stream)
        BY <2>1 DEF Begin, StreamsInv, StreamInv
      <4>2. Begin < Processed
        BY <2>2
      <4>3. Len(delivered) <= Len(sent)
        BY <2>1 DEF QueueInv
      <4>4. /\ Processed + ioByte = Received /\ Received + Len(wire) = Len(stream)
            /\ ioByte \in Nat /\ Len(wire) \in Nat /\ Len(stream) \in Nat
            /\ Len(delivered) \in Nat /\ Len(sent) \in Nat
        BY <2>1, Positions
      <4> QED
        BY <2>2, <4>1, <4>2, <4>3, <4>4
    <3>2. Processed < End
      BY <2>1, <3>1 DEF QueueInv
    <3>3. /\ End = Begin + Len(sent[i]) /\ Len(sent[i]) \in Nat
          /\ \A k \in 1 .. Len(sent[i]) : stream[Begin + k] = sent[i][k]
      BY <2>1, <3>1, Assembled
    <3>4. j + 1 \in 1 .. Len(sent[i]) /\ Begin + (j + 1) = Begin + 1 + j
      BY <2>2, <3>2, <3>3
    <3> QED
      BY <2>2, <3>3, <3>4
  <2> QED
    BY <2>2, <2>3 DEF Begin
<1> QED
  BY InitIInv, NextIInv, <1>1, PTL DEF Spec

\* When a regular stream has been received to its end, every packet has been
\* handled.
THEOREM NothingIsLeft == Spec => []NothingHeldBack
<1>1. AssemblyIInv => NothingHeldBack
  <2> SUFFICES ASSUME AssemblyIInv, Regular, pc = "recv", wire = <<>>
               PROVE  Len(delivered) = Len(sent)
    BY DEF NothingHeldBack
  <2>1. QueueInv /\ StreamsInv /\ ioByte = 0
    BY DEF AssemblyIInv, StreamsInv, LoopInv
  <2>2. /\ Processed + ioByte = Received /\ Received + Len(wire) = Len(stream)
        /\ Len(stream) \in Nat /\ Processed \in Nat /\ Received \in Nat
        /\ Len(delivered) \in Nat /\ Len(sent) \in Nat
    BY <2>1, Positions
  <2>3. Processed = Len(stream)
    BY <2>1, <2>2
  <2>4. ~(Len(delivered) < Len(sent))
    <3>1. SUFFICES ASSUME Len(delivered) < Len(sent) PROVE FALSE
      OBVIOUS
    <3>2. Processed < End /\ End <= Len(stream) /\ End \in Nat
      BY <2>1, <3>1, Assembled DEF QueueInv
    <3> QED
      BY <2>2, <2>3, <3>2
  <2> QED
    BY <2>1, <2>2, <2>4 DEF QueueInv
<1> QED
  BY InitIInv, NextIInv, <1>1, PTL DEF Spec

\* In a regular stream required is what is missing of the packet.
THEOREM RequiredIsRight == Spec => []RegularRequiredIsMissing
<1>1. AssemblyIInv => RegularRequiredIsMissing
  BY LoopSize DEF RegularRequiredIsMissing, RequiredIsMissing, End
<1> QED
  BY InitIInv, NextIInv, <1>1, PTL DEF Spec

\* A stream that is no longer regular stays so: Processed only grows.
LEMMA RegularBefore ==
  ASSUME AssemblyIInv, [Next]_vars, Regular'
  PROVE  Regular
<1>1. /\ Received \in Nat /\ Processed \in Nat /\ ioByte \in Nat
      /\ Processed + ioByte = Received /\ Received + Len(wire) = Len(stream)
      /\ Len(wire) \in Nat /\ Len(stream) \in Nat /\ MAX_QUEUE \in Nat
  BY Positions, QueueAssumption DEF AssemblyIInv
<1>2. StreamsInv /\ AssemblyInv /\ LoopInv
  BY DEF AssemblyIInv, StreamsInv
<1>3. ASSUME NEW k \in Nat, Processed' = Processed + k, split => split'
      PROVE  Regular
  BY <1>1, <1>3 DEF Regular
<1>4. ASSUME NEW size \in Sizes, Send(size) PROVE Regular
  <2>1. Len(stream') = Len(stream) + size /\ Len(wire') = Len(wire) + size /\ size \in Nat
    BY <1>2, <1>4, SendStream, AssemblyAssumption
  <2>2. split' = split /\ ioByte' = ioByte
    BY <1>4 DEF Send, loopVars
  <2>3. Processed' = Processed + 0
    BY <1>1, <2>1, <2>2 DEF Processed, Received
  <2> QED
    BY <1>3, <2>2, <2>3
<1>5. ASSUME NEW n \in 1 .. (IF Len(wire) < MAX_BUFFER THEN Len(wire) ELSE MAX_BUFFER), Receive(n)
      PROVE  Regular
  <2>1. n \in Nat /\ n <= Len(wire)
    BY <1>1, QueueAssumption
  <2>2. ioByte = 0 /\ ioByte' = n /\ stream' = stream /\ (split => split')
    BY <1>2, <1>5 DEF Receive, streamVars, LoopInv
  <2>3. Len(wire') = Len(wire) - n
    <3>1. wire \in Seq(Bytes) /\ wire' = SubSeq(wire, n + 1, Len(wire))
      BY <1>2, <1>5 DEF Receive, AssemblyInv, TypeOK
    <3> QED
      BY <1>1, <2>1, <3>1
  <2>4. Processed' = Processed + 0
    BY <1>1, <2>1, <2>2, <2>3 DEF Processed, Received
  <2> QED
    BY <1>3, <2>2, <2>4
<1>6. CASE Incomplete
  <2>1. UNCHANGED <<wire, stream, split>> /\ ioByte' = 0
    BY <1>6 DEF Incomplete, Reposts, streamVars
  <2>2. Processed' = Processed + ioByte
    BY <1>1, <2>1 DEF Processed, Received
  <2> QED
    BY <1>1, <1>3, <2>1, <2>2
<1>7. CASE Complete
  <2>1. UNCHANGED <<wire, stream, split>> /\ ioByte' = ioByte - Required /\ Required \in Nat
    BY <1>2, <1>7, SizesRead DEF Complete, streamVars
  <2>2. Processed' = Processed + Required
    BY <1>1, <2>1 DEF Processed, Received
  <2> QED
    BY <1>3, <2>1, <2>2
<1>8. CASE PacketProcess \/ Overruns \/ UNCHANGED vars
  <2>1. UNCHANGED <<wire, stream, split, ioByte>>
    BY <1>8 DEF PacketProcess, Overruns, vars, sessionVars, streamVars, loopVars
  <2>2. Processed' = Processed + 0
    BY <1>1, <2>1 DEF Processed, Received
  <2> QED
    BY <1>3, <2>1, <2>2
<1> QED
  BY <1>4, <1>5, <1>6, <1>7, <1>8 DEF Next

\* As long as no receive ended inside a size and the ring has not wrapped, the
\* assembly implements the stream of packets: each reaches the handler once,
\* in order and unchanged.
THEOREM AssemblyImplementsStream == Spec => ImplementsStream
<1>1. Init => Stream!StreamInit
  BY DEF Init, Stream!StreamInit
<1>2. AssemblyIInv /\ [Next]_vars => [Stream!StreamNext]_Stream!streamVars
  <2> SUFFICES ASSUME AssemblyIInv, [Next]_vars
               PROVE  [Stream!StreamNext]_Stream!streamVars
    OBVIOUS
  <2>1. AssemblyIInv' /\ StreamsInv /\ AssemblyInv
    BY NextIInv DEF AssemblyIInv, StreamsInv
  <2>2. CASE ~Regular'
    BY <2>2 DEF Stream!StreamNext, Stream!GiveUp, Stream!streamVars
  <2>3. ASSUME Regular', NEW size \in Sizes, Send(size)
        PROVE  Stream!StreamNext
    <3>1. Regular /\ delivered' = delivered
      BY <2>3, RegularBefore DEF Send
    <3>2. sent' = Append(sent, Packet(size, (Len(sent) + 1) % Base))
      BY <2>3 DEF Send
    <3>3. (Len(sent) + 1) % Base \in Bytes
      BY <2>1, FillerIsByte
    <3> QED
      BY <2>3, <3>1, <3>2, <3>3 DEF Stream!StreamNext, Stream!Submit
  <2>4. ASSUME Regular', PacketProcess
        PROVE  Stream!StreamNext
    <3>1. Regular /\ sent' = sent
      BY <2>4, RegularBefore DEF PacketProcess
    <3>2. /\ Len(delivered) < Len(sent)
          /\ delivered' = Append(delivered, sent[Len(delivered) + 1])
      BY <2>4, <3>1, ProcessRegular
    <3> QED
      BY <2>4, <3>1, <3>2 DEF Stream!StreamNext, Stream!Deliver
  <2>5. ASSUME Regular',
               \/ \E n \in 1 .. (IF Len(wire) < MAX_BUFFER THEN Len(wire) ELSE MAX_BUFFER) :
                    Receive(n)
               \/ Incomplete \/ Complete \/ Overruns \/ UNCHANGED vars
        PROVE  UNCHANGED Stream!streamVars
    <3>1. sent' = sent /\ delivered' = delivered
      BY <2>5 DEF Receive, Incomplete, Complete, Overruns, vars, sessionVars
    <3>2. Regular
      BY <2>5, RegularBefore
    <3> QED
      BY <2>5, <3>1, <3>2 DEF Stream!streamVars
  <2> QED
    BY <2>2, <2>3, <2>4, <2>5 DEF Next
<1> QED
  BY InitIInv, NextIInv, <1>1, <1>2, PTL DEF Spec, ImplementsStream, Stream!StreamSpec
===============================================================================
