----------------------------- MODULE PacketBuffer -----------------------------
(***************************************************************************)
(* CDataBuffer (DataBuffer.h, DataBuffer.cpp) and the packets that         *)
(* CPacketManager (Protocol.h) makes and reads in one: two bytes of size,  *)
(* one of type, then the data.  A write past the end of the block makes    *)
(* the sequence that stands for it longer than MaxSize_.                   *)
(***************************************************************************)
EXTENDS VectorDownward

PACKETSIZE_S == 2
PACKETTYPE_S == 1
BASICPACKETSIZE == PACKETSIZE_S + PACKETTYPE_S

SetBufferPointer(bytes, bufferSize) ==
  [pBuf_ |-> bytes, NowSize_ |-> 0, MaxSize_ |-> bufferSize]
AllocateBuffer(allocSize) == SetBufferPointer([i \in 1 .. allocSize |-> 0], allocSize)

memcpy(buf, offset, bytes) ==
  [i \in 1 .. Larger(Len(buf), offset + Len(bytes)) |->
     IF i - offset \in DOMAIN bytes THEN bytes[i - offset] ELSE buf[i]]

GetRemainingSize(d) == d.MaxSize_ - d.NowSize_

\* Not the code: room for the bytes is not asked for.
AppendData_Unchecked(d, bytes) ==
  [d EXCEPT !.pBuf_ = memcpy(@, d.NowSize_, bytes), !.NowSize_ = @ + Len(bytes)]

AppendData(d, bytes) ==
  IF Len(bytes) > GetRemainingSize(d) THEN d
  ELSE [d EXCEPT !.pBuf_ = memcpy(@, d.NowSize_, bytes), !.NowSize_ = @ + Len(bytes)]

\* The template: it writes at the start, and does not count what it wrote.
AppendValue(d, bytes) ==
  IF Len(bytes) > GetRemainingSize(d) THEN d ELSE [d EXCEPT !.pBuf_ = memcpy(@, 0, bytes)]

ClearBuffer(d) == AllocateBuffer(d.MaxSize_)

\* data are the bytes of a finished builder or of the caller's buffer; what
\* AppendData returns is not looked at.
AssemblePacketBuffer(d, data, type) ==
  LET sized == AppendData(d, Scalar(Len(data) + BASICPACKETSIZE, PACKETSIZE_S))
  IN  AppendData(AppendValue(sized, <<type>>), data)

----------------------------------------------------------------------------
(* The setters and getters, which do not ask for room either.              *)

SetAt(d, offset, bytes) == [d EXCEPT !.pBuf_ = memcpy(@, offset, bytes)]

SetSize(d, bytes) == SetAt(d, 0, Scalar(bytes, PACKETSIZE_S))

\* Not the code: the type is put where the data starts.
SetType_AtData(d, type) == SetAt(d, BASICPACKETSIZE, <<type>>)

SetType(d, type) == SetAt(d, PACKETSIZE_S, <<type>>)

SetData(d, data) == SetAt(d, BASICPACKETSIZE, data)

GetSize(d) == Value(SubSeq(d.pBuf_, 1, PACKETSIZE_S))
GetType(d) == d.pBuf_[PACKETSIZE_S + 1]

\* The size bytes at GetFlatDataPointer.
GetFlatData(d, bytes) == SubSeq(d.pBuf_, BASICPACKETSIZE + 1, BASICPACKETSIZE + bytes)
=============================================================================
