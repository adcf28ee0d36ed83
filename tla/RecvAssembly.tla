---------------------------- MODULE RecvAssembly ----------------------------
(***************************************************************************)
(* How a worker assembles the packets of one session from the bytes that   *)
(* its receives return: the RECV_ branch of CServerManager::WorkerThread   *)
(* and PacketProcess (Server_Framework/ServerManager.cpp), with Buf_ of    *)
(* the session's IoContext_ and its RecvBuffer_.                           *)
(*                                                                         *)
(* A packet starts with its size, two bytes, the low one first.  TCP       *)
(* delivers the bytes in order and in chunks of any length.                *)
(***************************************************************************)
EXTENDS CircularQueue

CONSTANTS
  Base,           \* values of a byte; 256 in the code
  Sizes,          \* the sizes of the packets clients send, header included
  MaxPackets,     \* bound: packets a client sends on the session
  MaxHandled      \* bound: packets handled on the session

ASSUME AssemblyAssumption ==
  /\ Base \in Nat /\ Base > 1
  /\ Sizes \subseteq {n \in Nat : n > 2 /\ n < Base * Base /\ n < MAX_QUEUE}
  /\ MaxPackets \in Nat
  /\ MaxHandled \in Nat

VARIABLES
  sent,           \* the packets the client sent
  wire,           \* their bytes that no receive has returned yet
  Buf_,           \* [0 .. MAX_BUFFER - 1 -> bytes], kept between receives
  RecvBuffer_,    \* the queue
  pc,             \* "recv": a receive is pending; then "loop", "process"
  ioByte, pbuf, packetSize,   \* the variables of the loop
  delivered,      \* what the handler was given, packet by packet
  split,          \* did a chunk end between the two bytes of a size?
  stream,         \* what the client sent so far, byte by byte
  starts          \* starts[i]: the bytes sent before packet i

loopVars == <<ioByte, pbuf, packetSize>>
sessionVars == <<sent, wire, Buf_, RecvBuffer_, pc, loopVars, delivered, split>>

\* Not in the code: the variables that only the properties read, what was
\* sent as one stream of bytes and where its packets start.
streamVars == <<stream, starts>>
vars == <<sessionVars, streamVars>>

Bytes == 0 .. (Base - 1)
\* Not the code: the high byte shifted too far.
Size_ShiftedTwice(low, high) == low + Base * Base * high

Size(low, high) == low + Base * high

\* A packet is its bytes; a body is filled with one byte.
Packet(size, filler) ==
  <<size % Base, size \div Base>> \o [i \in 1 .. (size - 2) |-> filler]

TypeOK ==
  /\ wire \in Seq(Bytes)
  /\ Buf_ \in [0 .. (MAX_BUFFER - 1) -> Bytes]
  /\ RecvBuffer_ \in [Queue_ : [Cells -> Bytes],
                      FrontIndex_ : 0 .. (Word - 1), RearIndex_ : 0 .. (Word - 1)]
  /\ pc \in {"recv", "loop", "process", "overrun"}
  /\ ioByte \in 0 .. MAX_BUFFER
  /\ pbuf \in 0 .. MAX_BUFFER
  /\ packetSize \in 0 .. (Base * Base - 1)
  /\ sent \in Seq(Seq(Bytes))
  /\ delivered \in Seq(Seq(Bytes))
  /\ split \in BOOLEAN
  /\ stream \in Seq(Bytes)
  /\ starts \in Seq(Nat)

Init ==
  /\ sent = <<>> /\ wire = <<>> /\ delivered = <<>>
  /\ Buf_ = [i \in 0 .. (MAX_BUFFER - 1) |-> 0]
  /\ RecvBuffer_ = Cleared
  /\ pc = "recv"
  /\ ioByte = 0 /\ pbuf = 0 /\ packetSize = 0
  /\ split = FALSE
  /\ stream = <<>> /\ starts = <<0>>
----------------------------------------------------------------------------
(* What the code computes.                                                 *)

Held == GetNowQueueSize(RecvBuffer_)

\* The byte at GetAt(index): the byte after the last cell is the low one of
\* FrontIndex_, which follows Queue_ in memory.
At(index) ==
  LET i == First(RecvBuffer_) + index
  IN  IF i < MAX_QUEUE THEN RecvBuffer_.Queue_[i] ELSE RecvBuffer_.FrontIndex_ % Base

\* The byte after Buf_ is the low one of Type_, which is RECV_ = 0.
BufAt(i) == IF i < MAX_BUFFER THEN Buf_[i] ELSE 0

SizeInQueue == Size(At(0), At(1))
SizeInBuf == Size(BufAt(pbuf), BufAt(pbuf + 1))

\* Not the code: the size is always read from the chunk.
CurrentSize_FromBuf == SizeInBuf

\* packetSize in an iteration of the loop, and the bytes it asks for.
CurrentSize == IF packetSize = 0 THEN SizeInBuf ELSE packetSize
\* Not the code: a packet waits for one byte more.
Required_OneMore == U32(CurrentSize - Held) + 1

Required == U32(CurrentSize - Held)

Chunk(n) == [i \in 1 .. n |-> Buf_[pbuf + i - 1]]

\* The packet that PacketProcess hands over: a pointer to the first datum,
\* with the size read from there, up to the end of the array.
PacketIn(q, size) ==
  [i \in 1 .. (IF size <= MAX_QUEUE - First(q) THEN size ELSE MAX_QUEUE - First(q))
     |-> q.Queue_[First(q) + i - 1]]

----------------------------------------------------------------------------
(* How far the receives and the loop have come in the stream of bytes.     *)

Received == Len(stream) - Len(wire)
Processed == Received - ioByte
CutsHeader(n) == \E i \in 1 .. Len(sent) : Received + n = starts[i] + 1

----------------------------------------------------------------------------

Send(size) ==
  /\ Len(sent) < MaxPackets
  /\ LET p == Packet(size, (Len(sent) + 1) % Base)
     IN  /\ sent' = Append(sent, p) /\ wire' = wire \o p
         /\ stream' = stream \o p
         /\ starts' = Append(starts, Len(stream) + size)
  /\ UNCHANGED <<Buf_, RecvBuffer_, pc, loopVars, delivered, split>>

\* The receive returns n bytes, and the packet size is read from RecvBuffer_
\* when it holds something.
Receive(n) ==
  /\ pc = "recv"
  /\ split' = (split \/ CutsHeader(n))
  /\ Buf_' = [i \in DOMAIN Buf_ |-> IF i < n THEN wire[i + 1] ELSE Buf_[i]]
  /\ wire' = SubSeq(wire, n + 1, Len(wire))
  /\ ioByte' = n
  /\ pbuf' = 0
  /\ packetSize' = IF Held = 0 THEN 0 ELSE SizeInQueue
  /\ pc' = "loop"
  /\ UNCHANGED <<sent, RecvBuffer_, delivered, streamVars>>

\* The next WSARecv.
Reposts == ioByte' = 0 /\ pbuf' = 0 /\ packetSize' = 0 /\ pc' = "recv"

\* The chunk ends inside a packet.
Incomplete ==
  /\ pc = "loop"
  /\ ioByte < Required
  /\ ~EnqOverruns(RecvBuffer_, ioByte)
  /\ RecvBuffer_' = Enq(RecvBuffer_, Chunk(ioByte))
  /\ Reposts
  /\ UNCHANGED <<sent, wire, Buf_, delivered, split, streamVars>>

\* The packet is complete: it is handled and popped, and the loop goes on with
\* the rest of the chunk.
Complete ==
  /\ pc = "loop"
  /\ ioByte >= Required
  /\ ~EnqOverruns(RecvBuffer_, Required)
  /\ RecvBuffer_' = Enq(RecvBuffer_, Chunk(Required))
  /\ pc' = "process"
  /\ ioByte' = ioByte - Required
  /\ pbuf' = pbuf + Required
  /\ packetSize' = 0
  /\ UNCHANGED <<sent, wire, Buf_, delivered, split, streamVars>>

\* Not the code: pbuf is not advanced.
PacketProcess_SameChunk ==
  /\ pc = "process"
  /\ Len(delivered) < MaxHandled
  /\ delivered' = Append(delivered, PacketIn(RecvBuffer_, SizeInQueue))
  /\ RecvBuffer_' = Pop(RecvBuffer_, SizeInQueue)
  /\ pc' = IF ioByte = 0 THEN "recv" ELSE "loop"
  /\ pbuf' = 0
  /\ UNCHANGED <<sent, wire, Buf_, ioByte, packetSize, split, streamVars>>

PacketProcess ==
  /\ pc = "process"
  /\ Len(delivered) < MaxHandled
  /\ delivered' = Append(delivered, PacketIn(RecvBuffer_, SizeInQueue))
  /\ RecvBuffer_' = Pop(RecvBuffer_, SizeInQueue)
  /\ pc' = IF ioByte = 0 THEN "recv" ELSE "loop"
  /\ pbuf' = IF ioByte = 0 THEN 0 ELSE pbuf
  /\ UNCHANGED <<sent, wire, Buf_, ioByte, packetSize, split, streamVars>>

\* Enq copies past the end of the array.
Overruns ==
  /\ pc = "loop"
  /\ EnqOverruns(RecvBuffer_, IF ioByte < Required THEN ioByte ELSE Required)
  /\ pc' = "overrun"
  /\ UNCHANGED <<sent, wire, Buf_, RecvBuffer_, loopVars, delivered, split, streamVars>>

Next ==
  \/ \E size \in Sizes : Send(size)
  \/ \E n \in 1 .. (IF Len(wire) < MAX_BUFFER THEN Len(wire) ELSE MAX_BUFFER) : Receive(n)
  \/ Incomplete \/ Complete \/ PacketProcess \/ Overruns

Spec == Init /\ [][Next]_vars

----------------------------------------------------------------------------
(* Correctness.                                                            *)

\* No receive has ended inside a size, and the bytes that went through the
\* queue fit into it without using its last cell.
Regular == ~split /\ Processed < MAX_QUEUE - 1

\* As long as that is so, the assembly delivers the stream of packets.
Stream == INSTANCE PacketStream WITH
  Packets <- {Packet(size, filler) : size \in Sizes, filler \in Bytes},
  sent <- IF Regular THEN sent ELSE <<>>,
  delivered <- IF Regular THEN delivered ELSE <<>>
ImplementsStream == Stream!StreamSpec

\* Between two receives the queue holds exactly the bytes of the packet that
\* is being assembled, at the cells after FrontIndex_, and GetNowQueueSize
\* counts them.
QueueHoldsRest ==
  Regular /\ pc = "recv" =>
    LET i == Len(delivered) + 1
        rest == Processed - starts[i]
    IN  /\ Held = rest
        /\ \A j \in 0 .. (rest - 1) : At(j) = sent[i][j + 1]

\* When everything a client sent has been received, everything has been
\* handled.
NothingHeldBack ==
  Regular /\ pc = "recv" /\ wire = <<>> => Len(delivered) = Len(sent)

\* Whatever sizes the loop reads, also when a size was split or the ring has
\* wrapped, it passes every byte of a chunk to the queue once and in order,
\* and none from beyond the chunk.
LoopFollowsChunk ==
  pc \in {"loop", "process"} =>
    \A i \in 1 .. ioByte : BufAt(pbuf + i - 1) = stream[Processed + i]

\* required is "the number of bytes needed to complete the packet"
\* (ServerManager.cpp:355): what is still missing of the packet whose bytes
\* are being received.
RequiredIsMissing ==
  pc = "loop" /\ Len(delivered) < Len(sent)
    => Required = starts[Len(delivered) + 2] - Processed

\* It is, as long as no size was split and the ring has not wrapped.
RegularRequiredIsMissing == Regular => RequiredIsMissing

\* "The front cell is left empty" (CircularQueue.h:30): the bytes that were
\* enqueued last and belong to the packet being assembled are not in it.  It is
\* false after a chunk that ends at the last cell: with a RearIndex_ of U32(-1)
\* the sizes of the queue wrap around, and Enq accepts more than fits.
FrontVacant ==
  pc = "recv" /\ Len(delivered) <= Len(sent) =>
    \A j \in 0 .. (Processed - starts[Len(delivered) + 1] - 1) :
      (RecvBuffer_.RearIndex_ - j) % MAX_QUEUE # RecvBuffer_.FrontIndex_
=============================================================================
