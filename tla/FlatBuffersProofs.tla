-------------------------- MODULE FlatBuffersProofs --------------------------
(***************************************************************************)
(* What holds of every client of the builder: what is written stays, the   *)
(* scratch pad is below the data, packets stay in their block and are read *)
(* back, and everything that was made is read back at its offset.          *)
(***************************************************************************)
EXTENDS LayoutProofs

----------------------------------------------------------------------------
(* Packets.                                                                *)

\* Buffers that nothing has been written past.
WholeBuffers ==
  {d \in [pBuf_ : Seq(Bytes), NowSize_ : Nat, MaxSize_ : Nat] :
     Len(d.pBuf_) = d.MaxSize_ /\ d.NowSize_ <= d.MaxSize_}

\* A packet uses the vector's operators.
LEMMA SameOperators ==
  /\ \A m, n : P!Larger(m, n) = Larger(m, n)
  /\ \A n, width : P!Scalar(n, width) = Scalar(n, width)
  /\ \A bytes : P!Value(bytes) = Value(bytes)
<1>1. P!Places = Places
  BY DEF P!Places, Places
<1> QED
  BY <1>1 DEF P!Larger, Larger, P!Scalar, Scalar, P!Value, Value

\* A copy that starts in the block writes its bytes and keeps the others.
LEMMA Copied ==
  ASSUME NEW b \in Seq(Bytes), NEW offset \in 0 .. Len(b), NEW bytes \in Seq(Bytes)
  PROVE  LET c == P!memcpy(b, offset, bytes)
         IN  /\ c \in Seq(Bytes) /\ Len(c) = Larger(Len(b), offset + Len(bytes))
             /\ \A i \in 1 .. Len(c) : c[i] = IF i - offset \in 1 .. Len(bytes)
                                             THEN bytes[i - offset] ELSE b[i]
<1> DEFINE n == Larger(Len(b), offset + Len(bytes))
           c == [i \in 1 .. n |-> IF i - offset \in DOMAIN bytes THEN bytes[i - offset] ELSE b[i]]
<1>1. /\ Len(b) \in Nat /\ Len(bytes) \in Nat /\ offset \in Nat /\ offset <= Len(b)
      /\ DOMAIN b = 1 .. Len(b) /\ DOMAIN bytes = 1 .. Len(bytes)
  OBVIOUS
<1>2. n \in Nat /\ n >= Len(b) /\ n <= Len(b) + Len(bytes)
      /\ (n = Len(b) \/ n = offset + Len(bytes))
  <2> DEFINE l == Len(b)
             m == Len(bytes)
  <2>1. l \in Nat /\ m \in Nat /\ offset \in Nat /\ offset <= l
        /\ n = IF l > offset + m THEN l ELSE offset + m
    BY <1>1 DEF Larger
  <2> HIDE DEF l, m, n
  <2>2. n \in Nat /\ n >= l /\ n <= l + m /\ (n = l \/ n = offset + m)
    BY <2>1
  <2> QED
    BY <2>2 DEF l, m
<1> HIDE DEF n
<1>3. ASSUME NEW i \in 1 .. n
      PROVE  (IF i - offset \in DOMAIN bytes THEN bytes[i - offset] ELSE b[i]) \in Bytes
  <2>1. CASE i - offset \in 1 .. Len(bytes)
    BY <1>1, <2>1
  <2>2. CASE ~(i - offset \in 1 .. Len(bytes))
    <3>1. i \in 1 .. Len(b)
      <4> DEFINE l == Len(b)
                 m == Len(bytes)
      <4>1. l \in Nat /\ m \in Nat /\ offset \in Nat /\ offset <= l /\ i \in 1 .. n
            /\ (n = l \/ n = offset + m) /\ ~(i - offset \in 1 .. m)
        BY <1>1, <1>2, <2>2
      <4> HIDE DEF l, m
      <4>2. i \in 1 .. l
        BY <4>1
      <4> QED
        BY <4>2 DEF l
    <3> QED
      BY <1>1, <2>2, <3>1
  <2> QED
    BY <2>1, <2>2
<1>4. c \in Seq(Bytes) /\ Len(c) = n
  BY <1>2, <1>3
<1>5. \A i \in 1 .. Len(c) : c[i] = IF i - offset \in 1 .. Len(bytes)
                                   THEN bytes[i - offset] ELSE b[i]
  BY <1>1, <1>4
<1>6. P!memcpy(b, offset, bytes) = c
  BY SameOperators DEF P!memcpy, n
<1> HIDE DEF c
<1> QED
  BY <1>4, <1>5, <1>6 DEF n

\* The parts of a buffer.
LEMMA BufferParts ==
  ASSUME NEW d \in WholeBuffers
  PROVE  /\ d.pBuf_ \in Seq(Bytes) /\ d.NowSize_ \in Nat /\ d.MaxSize_ \in Nat
         /\ Len(d.pBuf_) = d.MaxSize_ /\ d.NowSize_ <= d.MaxSize_
  BY DEF WholeBuffers

\* Appending leaves a whole buffer.
LEMMA Appended ==
  ASSUME NEW d \in WholeBuffers, NEW bytes \in Seq(Bytes)
  PROVE  P!AppendData(d, bytes) \in WholeBuffers /\ P!AppendValue(d, bytes) \in WholeBuffers
<1> DEFINE c == P!memcpy(d.pBuf_, d.NowSize_, bytes)
           now == d.NowSize_ + Len(bytes)
           v == P!memcpy(d.pBuf_, 0, bytes)
<1>1. /\ d.pBuf_ \in Seq(Bytes) /\ d.NowSize_ \in Nat /\ d.MaxSize_ \in Nat
      /\ Len(d.pBuf_) = d.MaxSize_ /\ d.NowSize_ <= d.MaxSize_ /\ Len(bytes) \in Nat
  BY BufferParts
<1>2. d.NowSize_ \in 0 .. Len(d.pBuf_) /\ 0 \in 0 .. Len(d.pBuf_)
  BY <1>1
<1>3. c \in Seq(Bytes) /\ Len(c) = Larger(d.MaxSize_, now)
  BY <1>1, <1>2, Copied
<1>4. v \in Seq(Bytes) /\ Len(v) = Larger(d.MaxSize_, 0 + Len(bytes))
  BY <1>1, <1>2, Copied
<1>5. d \in [pBuf_ : Seq(Bytes), NowSize_ : Nat, MaxSize_ : Nat]
  BY DEF WholeBuffers
<1>6. CASE Len(bytes) > P!GetRemainingSize(d)
  BY <1>6 DEF P!AppendData, P!AppendValue
<1>7. CASE ~(Len(bytes) > P!GetRemainingSize(d))
  <2>1. now <= d.MaxSize_ /\ now \in Nat /\ Len(bytes) <= d.MaxSize_
    BY <1>1, <1>7 DEF P!GetRemainingSize
  <2>2. Len(c) = d.MaxSize_ /\ Len(v) = d.MaxSize_
    BY <1>1, <1>3, <1>4, <2>1 DEF Larger
  <2>3. P!AppendData(d, bytes) = [d EXCEPT !.pBuf_ = c, !.NowSize_ = now]
    BY <1>5, <1>7 DEF P!AppendData
  <2>4. P!AppendValue(d, bytes) = [d EXCEPT !.pBuf_ = v]
    BY <1>7 DEF P!AppendValue
  <2> HIDE DEF c, v, now
  <2>5. [d EXCEPT !.pBuf_ = c, !.NowSize_ = now] \in WholeBuffers
    BY <1>3, <1>5, <2>1, <2>2 DEF WholeBuffers
  <2>6. [d EXCEPT !.pBuf_ = v] \in WholeBuffers
    BY <1>1, <1>4, <1>5, <2>2 DEF WholeBuffers
  <2> QED
    BY <2>3, <2>4, <2>5, <2>6
<1> QED
  BY <1>6, <1>7

\* A new buffer is whole.
LEMMA Allocated ==
  ASSUME NEW n \in Nat
  PROVE  P!AllocateBuffer(n) \in WholeBuffers /\ P!AllocateBuffer(n).MaxSize_ = n
<1>1. 0 \in Bytes
  BY VectorAssumption DEF Bytes
<1>2. [i \in 1 .. n |-> 0] \in Seq(Bytes) /\ Len([i \in 1 .. n |-> 0]) = n
  BY <1>1
<1> QED
  BY <1>2 DEF P!AllocateBuffer, P!SetBufferPointer, WholeBuffers

\* Assembling a packet leaves a whole buffer.
LEMMA Assembled ==
  ASSUME NEW d \in WholeBuffers, NEW data \in Seq(Bytes), NEW type \in Bytes
  PROVE  P!AssemblePacketBuffer(d, data, type) \in WholeBuffers
<1> DEFINE s == Scalar(Len(data) + P!BASICPACKETSIZE, P!PACKETSIZE_S)
           sized == P!AppendData(d, s)
           typed == P!AppendValue(sized, <<type>>)
<1>1. Len(data) + P!BASICPACKETSIZE \in Int /\ P!PACKETSIZE_S \in Nat
  BY DEF P!BASICPACKETSIZE, P!PACKETSIZE_S, P!PACKETTYPE_S
<1>2. s \in Seq(Bytes) /\ <<type>> \in Seq(Bytes)
  BY <1>1, ScalarBytes
<1>3. P!AssemblePacketBuffer(d, data, type) = P!AppendData(typed, data)
  BY SameOperators DEF P!AssemblePacketBuffer
<1> HIDE DEF s
<1>4. sized \in WholeBuffers
  BY <1>2, Appended
<1> HIDE DEF sized
<1>5. typed \in WholeBuffers
  BY <1>2, <1>4, Appended
<1> HIDE DEF typed
<1> QED
  BY <1>3, <1>5, Appended

\* A packet made with the setters: its size in two bytes, its type, its data.
SetPacket(d, data) ==
  /\ d \in WholeBuffers /\ data \in Seq(Bytes) /\ d.MaxSize_ = Len(data) + 3
  /\ d.pBuf_[1] = Scalar(d.MaxSize_, 2)[1] /\ d.pBuf_[2] = Scalar(d.MaxSize_, 2)[2]
  /\ d.pBuf_[3] = PacketType
  /\ \A i \in 1 .. Len(data) : d.pBuf_[i + 3] = data[i]

\* The setters fill a buffer of the size of the packet.
LEMMA SettersFill ==
  ASSUME NEW data \in Seq(Bytes)
  PROVE  LET d == P!AllocateBuffer(Len(data) + P!BASICPACKETSIZE)
         IN  SetPacket(P!SetData(P!SetType(P!SetSize(d, d.MaxSize_), PacketType), data), data)
<1> DEFINE n == Len(data) + 3
           d == P!AllocateBuffer(Len(data) + P!BASICPACKETSIZE)
           s == Scalar(n, 2)
           t == <<PacketType>>
           b0 == d.pBuf_
           b1 == P!memcpy(b0, 0, s)
           b2 == P!memcpy(b1, 2, t)
           b3 == P!memcpy(b2, 3, data)
           e == [d EXCEPT !.pBuf_ = b3]
<1>1. Len(data) \in Nat /\ n \in Nat /\ n >= 3 /\ P!BASICPACKETSIZE = 3 /\ P!PACKETSIZE_S = 2
  BY DEF P!BASICPACKETSIZE, P!PACKETSIZE_S, P!PACKETTYPE_S
<1>2. /\ d \in WholeBuffers /\ d.MaxSize_ = n
      /\ d \in [pBuf_ : Seq(Bytes), NowSize_ : Nat, MaxSize_ : Nat]
      /\ b0 \in Seq(Bytes) /\ Len(b0) = n
  BY <1>1, Allocated DEF WholeBuffers
<1>3. P!SetData(P!SetType(P!SetSize(d, d.MaxSize_), PacketType), data) = e
  <2>1. P!SetSize(d, d.MaxSize_) = [d EXCEPT !.pBuf_ = b1]
    BY <1>1, <1>2, SameOperators DEF P!SetSize, P!SetAt
  <2>2. P!SetType(P!SetSize(d, d.MaxSize_), PacketType) = [d EXCEPT !.pBuf_ = b2]
    BY <1>1, <1>2, <2>1 DEF P!SetType, P!SetAt
  <2>3. P!SetData(P!SetType(P!SetSize(d, d.MaxSize_), PacketType), data) = e
    BY <1>1, <1>2, <2>2 DEF P!SetData, P!SetAt
  <2> QED
    BY <2>3
<1> HIDE DEF d
<1>4. s \in Seq(Bytes) /\ Len(s) = 2
  <2>1. n \in Int /\ 2 \in Nat
    BY <1>1
  <2> QED
    BY <2>1, ScalarBytes
<1>5. t \in Seq(Bytes) /\ Len(t) = 1 /\ t[1] = PacketType
  <2>1. PacketType \in Bytes
    BY ClientAssumption, VectorAssumption DEF Bytes, PacketType
  <2> QED
    BY <2>1
<1> HIDE DEF s, t, b0
<1>6. /\ b1 \in Seq(Bytes) /\ Len(b1) = n
      /\ b1[1] = s[1] /\ b1[2] = s[2]
  <2>1. 0 \in 0 .. Len(b0)
    BY <1>1, <1>2
  <2>2. /\ b1 \in Seq(Bytes) /\ Len(b1) = Larger(Len(b0), 0 + Len(s))
        /\ \A i \in 1 .. Len(b1) : b1[i] = IF i - 0 \in 1 .. Len(s) THEN s[i - 0] ELSE b0[i]
    <3> DEFINE offset == 0
    <3>1. offset \in 0 .. Len(b0) /\ b0 \in Seq(Bytes) /\ s \in Seq(Bytes)
      BY <1>2, <1>4, <2>1
    <3> HIDE DEF offset
    <3>2. LET c == P!memcpy(b0, offset, s)
          IN  /\ c \in Seq(Bytes) /\ Len(c) = Larger(Len(b0), offset + Len(s))
              /\ \A i \in 1 .. Len(c) : c[i] = IF i - offset \in 1 .. Len(s)
                                              THEN s[i - offset] ELSE b0[i]
      <4> HIDE DEF b1
      <4> QED
        BY ONLY <3>1, Copied
    <3> QED
      BY <3>2 DEF offset
  <2> HIDE DEF b1
  <2>3. Len(b1) = n
    BY <1>1, <1>2, <1>4, <2>2 DEF Larger
  <2> QED
    BY <1>1, <1>4, <2>2, <2>3
<1> HIDE DEF b1
<1>7. /\ b2 \in Seq(Bytes) /\ Len(b2) = n
      /\ b2[1] = s[1] /\ b2[2] = s[2] /\ b2[3] = PacketType
  <2>1. 2 \in 0 .. Len(b1)
    BY <1>1, <1>6
  <2>2. /\ b2 \in Seq(Bytes) /\ Len(b2) = Larger(Len(b1), 2 + Len(t))
        /\ \A i \in 1 .. Len(b2) : b2[i] = IF i - 2 \in 1 .. Len(t) THEN t[i - 2] ELSE b1[i]
    BY <1>5, <1>6, <2>1, Copied
  <2> HIDE DEF b2
  <2>3. Len(b2) = n
    BY <1>1, <1>5, <1>6, <2>2 DEF Larger
  <2> QED
    BY <1>1, <1>5, <1>6, <2>2, <2>3
<1> HIDE DEF b2
<1>8. /\ b3 \in Seq(Bytes) /\ Len(b3) = n
      /\ b3[1] = s[1] /\ b3[2] = s[2] /\ b3[3] = PacketType
      /\ \A i \in 1 .. Len(data) : b3[i + 3] = data[i]
  <2>1. 3 \in 0 .. Len(b2)
    BY <1>1, <1>7
  <2>2. /\ b3 \in Seq(Bytes) /\ Len(b3) = Larger(Len(b2), 3 + Len(data))
        /\ \A i \in 1 .. Len(b3) : b3[i] = IF i - 3 \in 1 .. Len(data) THEN data[i - 3] ELSE b2[i]
    BY <1>7, <2>1, Copied
  <2> HIDE DEF b3
  <2>3. Len(b3) = n
    BY <1>1, <1>7, <2>2 DEF Larger
  <2>4. \A i \in 1 .. Len(data) : b3[i + 3] = data[i]
    <3>1. ASSUME NEW i \in 1 .. Len(data) PROVE b3[i + 3] = data[i]
      <4>1. i + 3 \in 1 .. Len(b3) /\ (i + 3) - 3 = i
        BY <1>1, <2>3
      <4> QED
        BY <2>2, <4>1
    <3> QED
      BY <3>1
  <2> QED
    BY <1>1, <1>7, <2>2, <2>3, <2>4
<1> HIDE DEF b3
<1>9. e \in WholeBuffers /\ e.MaxSize_ = n /\ e.pBuf_ = b3
  BY <1>2, <1>8 DEF WholeBuffers
<1> HIDE DEF e
<1>10. SetPacket(e, data)
  BY <1>8, <1>9 DEF SetPacket, s
<1> QED
  BY <1>3, <1>10 DEF d

\* A packet made with the setters is read back by the getters.
LEMMA SetPacketReadsBack ==
  ASSUME NEW d, NEW data, SetPacket(d, data), d.MaxSize_ < Base * Base
  PROVE  /\ P!GetSize(d) = d.MaxSize_ /\ P!GetType(d) = PacketType
         /\ P!GetFlatData(d, Len(data)) = data
<1> DEFINE b == d.pBuf_
           n == d.MaxSize_
           m == Len(data)
<1>1. b \in Seq(Bytes) /\ Len(b) = m + 3 /\ n = m + 3 /\ m \in Nat /\ data \in Seq(Bytes)
      /\ n \in Nat
  BY BufferParts DEF SetPacket
<1>2. b[1] + Base * b[2] = n
  <2>1. Scalar(n, 2)[1] + Base * Scalar(n, 2)[2] = n
    BY <1>1, TwoBytes
  <2> QED
    BY <2>1 DEF SetPacket
<1>3. b[3] = PacketType /\ \A i \in 1 .. m : b[i + 3] = data[i]
  BY DEF SetPacket
<1>4. P!PACKETSIZE_S = 2 /\ P!BASICPACKETSIZE = 3
  BY DEF P!PACKETSIZE_S, P!BASICPACKETSIZE, P!PACKETTYPE_S
<1>5. P!GetType(d) = PacketType
  BY <1>3, <1>4 DEF P!GetType
<1>6. P!GetSize(d) = Value(SubSeq(b, 1, 2)) /\ P!GetFlatData(d, m) = SubSeq(b, 4, m + 3)
  <2>1. P!GetSize(d) = Value(SubSeq(b, 1, 2))
    BY <1>4, SameOperators DEF P!GetSize
  <2>2. P!GetFlatData(d, m) = SubSeq(b, 3 + 1, 3 + m)
    BY <1>4 DEF P!GetFlatData
  <2> HIDE DEF m, b
  <2>3. 3 + 1 = 4 /\ 3 + m = m + 3
    BY <1>1
  <2> QED
    BY <2>1, <2>2, <2>3
<1> HIDE DEF b, n, m
<1>7. Len(SubSeq(b, 1, 2)) = 2 /\ SubSeq(b, 1, 2)[1] = b[1] /\ SubSeq(b, 1, 2)[2] = b[2]
  BY <1>1
<1>8. Value(SubSeq(b, 1, 2)) = n
  BY <1>2, <1>7 DEF Value
<1>9. SubSeq(b, 4, m + 3) = data
  <2> DEFINE s == SubSeq(b, 4, m + 3)
  <2>1. s \in Seq(Bytes) /\ Len(s) = m /\ \A i \in 1 .. m : s[i] = b[i + 3]
    BY <1>1
  <2> HIDE DEF s
  <2>2. Len(data) = m
    BY DEF m
  <2>3. DOMAIN s = 1 .. m /\ DOMAIN data = 1 .. m
    BY <1>1, <2>1, <2>2
  <2>4. \A i \in 1 .. m : s[i] = data[i]
    BY <1>3, <2>1
  <2>5. s = [i \in 1 .. m |-> s[i]] /\ data = [i \in 1 .. m |-> data[i]]
    BY <1>1, <2>1, <2>3
  <2>6. s = data
    BY <2>4, <2>5
  <2> QED
    BY <2>6 DEF s
<1> QED
  BY <1>5, <1>6, <1>8, <1>9 DEF n, m

----------------------------------------------------------------------------
(* The objects of the client.                                              *)

\* The list of the objects of a kind holds objects of that kind.
LEMMA OffsetsListed ==
  ASSUME NEW n \in Nat, DOMAIN objects \subseteq 1 .. n, NEW kind, NEW of
  PROVE  LET list == Offsets(kind, of)
         IN  /\ list \in Seq(Nat)
             /\ \A k \in 1 .. Len(list) : /\ list[k] \in DOMAIN objects
                                          /\ objects[list[k]].kind = kind
                                          /\ objects[list[k]].of = of
<1> DEFINE offs == {off \in DOMAIN objects : objects[off].kind = kind /\ objects[off].of = of}
           Below(off) == {o \in offs : o <= off}
           c == Cardinality(offs)
           f == [off \in offs |-> Cardinality(Below(off))]
           At(k) == CHOOSE off \in offs : Cardinality(Below(off)) = k
           list == [k \in 1 .. c |-> At(k)]
<1>1. /\ offs \subseteq 1 .. n /\ offs \subseteq Nat
      /\ \A off \in offs : off \in DOMAIN objects /\ objects[off].kind = kind
                           /\ objects[off].of = of
  OBVIOUS
<1>2. Offsets(kind, of) = list
  BY DEF Offsets
<1> HIDE DEF offs
<1>3. IsFiniteSet(offs)
  <2>1. 1 \in Int /\ n \in Int
    OBVIOUS
  <2>2. IsFiniteSet(1 .. n)
    BY <2>1, FS_Interval
  <2> QED
    BY <1>1, <2>2, FS_Subset
<1>4. c \in Nat
  BY <1>3, FS_CardinalityType
<1> HIDE DEF c
<1>5. ASSUME NEW off \in offs
      PROVE  IsFiniteSet(Below(off)) /\ Cardinality(Below(off)) \in 1 .. c
  <2>1. Below(off) \subseteq offs /\ off \in Below(off)
    BY <1>1
  <2> HIDE DEF Below
  <2>2. IsFiniteSet(Below(off)) /\ Cardinality(Below(off)) <= c
    BY <1>3, <2>1, FS_Subset DEF c
  <2>3. Cardinality(Below(off)) \in Nat /\ Cardinality(Below(off)) # 0
    BY <2>1, <2>2, FS_CardinalityType, FS_EmptySet
  <2> QED
    BY <1>4, <2>2, <2>3
<1>6. ASSUME NEW o \in offs, NEW p \in offs, o < p
      PROVE  Cardinality(Below(o)) # Cardinality(Below(p))
  <2>1. o \in Nat /\ p \in Nat
    BY <1>1
  <2>2. ASSUME NEW x \in Below(o) PROVE x \in Below(p)
    <3>1. x \in offs /\ x \in Nat /\ x <= o
      BY <1>1
    <3> QED
      BY <1>6, <2>1, <3>1
  <2>4. p \in Below(p) /\ p \notin Below(o)
    <3>1. p <= p /\ ~(p <= o)
      BY <1>6, <2>1
    <3> QED
      BY <3>1
  <2>3. IsFiniteSet(Below(p))
    BY <1>5
  <2> HIDE DEF Below
  <2> QED
    BY <2>2, <2>3, <2>4, FS_Subset
<1>7. f \in Injection(offs, 1 .. c)
  <2>1. f \in [offs -> 1 .. c]
    BY <1>5
  <2>2. ASSUME NEW o \in offs, NEW p \in offs, f[o] = f[p] PROVE o = p
    <3>1. o \in Nat /\ p \in Nat /\ Cardinality(Below(o)) = Cardinality(Below(p))
      BY <1>1, <2>2
    <3>2. ~(o < p) /\ ~(p < o)
      BY <1>6, <3>1
    <3> QED
      BY <3>1, <3>2
  <2> HIDE DEF f
  <2> QED
    BY <2>1, <2>2 DEF Injection, IsInjective
<1> HIDE DEF Below
<1>8. \A k \in 1 .. c : \E off \in offs : Cardinality(Below(off)) = k
  <2>1. IsFiniteSet(1 .. c) /\ Cardinality(1 .. c) = c
    <3>1. 1 \in Int /\ c \in Int
      BY <1>4
    <3>2. IsFiniteSet(1 .. c) /\ Cardinality(1 .. c) = IF 1 > c THEN 0 ELSE c - 1 + 1
      BY <3>1, FS_Interval
    <3> QED
      BY <1>4, <3>2
  <2>2. f \in Surjection(offs, 1 .. c)
    <3> HIDE DEF f
    <3> QED
      BY <1>7, <2>1, FS_Injection DEF c
  <2> QED
    BY <2>2 DEF Surjection
<1>9. \A k \in 1 .. c : At(k) \in offs
  BY <1>8
<1> HIDE DEF At
<1>10. list \in Seq(Nat) /\ Len(list) = c /\ \A k \in 1 .. Len(list) : list[k] \in offs
  <2>1. \A k \in 1 .. c : At(k) \in Nat
    BY <1>1, <1>9
  <2>2. list \in Seq(Nat) /\ Len(list) = c
    BY <1>4, <2>1
  <2>3. \A k \in 1 .. c : list[k] = At(k)
    OBVIOUS
  <2> HIDE DEF list
  <2> QED
    BY <1>9, <2>2, <2>3
<1> HIDE DEF list
<1> QED
  BY <1>1, <1>2, <1>10

\* The objects the client remembers, in n bytes of data.
Remembered(objs, n) ==
  /\ objs = [off \in DOMAIN objs |-> objs[off]] /\ DOMAIN objs \subseteq 1 .. n
  /\ \A off \in DOMAIN objs :
       /\ objs[off] = [kind |-> objs[off].kind, of |-> objs[off].of, value |-> objs[off].value]
       /\ objs[off].kind = "elements" => objs[off].value \in Seq(Seq(Bytes))

\* The table being made field by field, which the script is about.
Adding(a, t) ==
  a # <<>> =>
    /\ t # <<>> /\ Head(t) = <<"builder", "TestInfo">>
    /\ a = <<[start |-> a[1].start, name |-> a[1].name, level |-> a[1].level]>>
    /\ a[1].start \in Nat

\* The root is a table of a finished buffer.
RootOf(r, objs, b) ==
  r # NoRoot => /\ b.finished /\ r.type \in DOMAIN Tables
                /\ r.off \in DOMAIN objs /\ objs[r.off].kind = "table"

\* The packet is in a whole buffer.
PacketOf(p) ==
  /\ p.buffer \in WholeBuffers
  /\ p.via = "setters" => SetPacket(p.buffer, p.data)

\* The inductive invariant.
Inv ==
  /\ fbb \in GoodBuilders
  /\ fbb.nested = (adding # <<>>)
  /\ Adding(adding, todo)
  /\ Remembered(objects, GetSize(fbb))
  /\ ~fbb.finished => fbb.string_pool \subseteq DOMAIN objects
  /\ RootOf(root, objects, fbb)
  /\ PacketOf(packet)
  /\ received \in Seq(Bytes) /\ (received # <<>> => root # NoRoot)

\* A client starts with nothing.
LEMMA InitInv ==
  Init => Inv
<1> SUFFICES ASSUME Init PROVE Inv
  OBVIOUS
<1> USE DEF Init
<1>1. fbb \in GoodBuilders /\ GetSize(fbb) = 0
  BY NewIsGood
<1>2. fbb.nested = FALSE /\ fbb.string_pool = {}
  BY DEF NewBuilder
<1>3. Remembered(objects, GetSize(fbb))
  BY <1>1 DEF Nothing, Remembered
<1>4. PacketOf(packet)
  <2>1. 0 \in Nat
    OBVIOUS
  <2>2. P!AllocateBuffer(0) \in WholeBuffers
    BY <2>1, Allocated
  <2>3. packet.buffer = P!AllocateBuffer(0) /\ packet.via = "none"
    BY DEF NoPacket
  <2> QED
    BY <2>2, <2>3 DEF PacketOf
<1>5. Adding(adding, todo) /\ RootOf(root, objects, fbb) /\ received \in Seq(Bytes)
  BY DEF Adding, RootOf
<1> QED
  BY <1>1, <1>2, <1>3, <1>4, <1>5 DEF Inv

\* A call other than those that add to a table is made outside of tables.
LEMMA OutsideTables ==
  ASSUME Inv, NEW operation, NEW operand, Call(operation, operand), operation # "builder"
  PROVE  adding = <<>> /\ ~fbb.nested /\ fbb \in GoodBuilders
<1>1. ~(adding # <<>>)
  BY DEF Inv, Adding, Call
<1> QED
  BY <1>1 DEF Inv

\* What a step may do to the data, in the cases that WrittenStays lists.
Stays ==
  \/ Kept(buf, buf')
  \/ (Mutate \/ MutateVector) /\ Len(buf') = Len(buf)
  \/ ClearBuilder /\ buf' = <<>>

\* An object is remembered at an offset, in place of another that was there.
LEMMA RememberedWith ==
  ASSUME NEW n \in Nat, NEW m \in Nat, n <= m, Remembered(objects, n), NEW off \in 1 .. m,
         NEW o, o = [kind |-> o.kind, of |-> o.of, value |-> o.value],
         o.kind = "elements" => o.value \in Seq(Seq(Bytes))
  PROVE  Remembered(With(off, o), m) /\ DOMAIN With(off, o) = DOMAIN objects \cup {off}
<1> DEFINE objs == [p \in DOMAIN objects \cup {off} |-> IF p = off THEN o ELSE objects[p]]
<1>1. With(off, o) = objs
  BY DEF With
<1>2. /\ DOMAIN objs = DOMAIN objects \cup {off} /\ objs[off] = o
      /\ \A p \in DOMAIN objects : p # off => objs[p] = objects[p]
      /\ objs = [p \in DOMAIN objs |-> objs[p]]
  OBVIOUS
<1> HIDE DEF objs
<1>4. DOMAIN objs \subseteq 1 .. m
  <2>1. DOMAIN objects \subseteq 1 .. n
    BY DEF Remembered
  <2> QED
    BY <1>2, <2>1
<1>5. \A p \in DOMAIN objs :
        /\ objs[p] = [kind |-> objs[p].kind, of |-> objs[p].of, value |-> objs[p].value]
        /\ objs[p].kind = "elements" => objs[p].value \in Seq(Seq(Bytes))
  BY <1>2 DEF Remembered
<1>6. Remembered(objs, m)
  BY <1>2, <1>4, <1>5 DEF Remembered
<1> QED
  BY <1>1, <1>2, <1>6

\* A call that makes an object.
LEMMA MadeStep ==
  ASSUME Inv, NEW b, NEW kind, NEW of, NEW value, Made(b, kind, of, value),
         Makes(fbb, b), adding = <<>>,
         kind = "elements" => value \in Seq(Seq(Bytes))
  PROVE  Inv' /\ Kept(buf, buf')
<1> DEFINE n == GetSize(fbb)
           o == [kind |-> kind, of |-> of, value |-> value]
           off == b.result
           objs == [p \in DOMAIN objects \cup {off} |-> IF p = off THEN o ELSE objects[p]]
<1>1. /\ fbb' = b /\ objects' = objs /\ adding' = <<>> /\ root' = root /\ packet' = packet
      /\ received' = received
  BY DEF Made, With
<1>2. /\ Grows(fbb, b) /\ b \in GoodBuilders /\ off \in n + 1 .. GetSize(b)
      /\ n \in Nat /\ GetSize(b) \in Nat /\ n <= GetSize(b)
  BY GrowsUp DEF Makes
<1>3. b.nested = fbb.nested /\ b.finished = fbb.finished /\ b.string_pool = fbb.string_pool
      /\ Kept(fbb.buf_.data, b.buf_.data)
  BY <1>2 DEF Grows
<1>4. Remembered(objects, n)
  BY DEF Inv
<1>5. /\ DOMAIN objs = DOMAIN objects \cup {off}
      /\ \A p \in DOMAIN objects : objs[p] = objects[p]
  <2>1. off \notin DOMAIN objects
    BY <1>2, <1>4 DEF Remembered
  <2> QED
    BY <2>1
<1>6. Remembered(objs, GetSize(b))
  <2> DEFINE m == GetSize(b)
  <2>1. off \in 1 .. m /\ m \in Nat
    BY <1>2
  <2>2. /\ o = [kind |-> o.kind, of |-> o.of, value |-> o.value]
        /\ o.kind = "elements" => o.value \in Seq(Seq(Bytes))
    OBVIOUS
  <2>3. objs = With(off, o)
    BY DEF With
  <2> HIDE DEF o, objs, off, n, m
  <2>4. Remembered(With(off, o), m)
    BY <1>2, <1>4, <2>1, <2>2, RememberedWith DEF m
  <2> QED
    BY <2>3, <2>4 DEF m
<1> HIDE DEF objs, off, n
<1>7. RootOf(root, objs, b)
  BY <1>3, <1>5 DEF Inv, RootOf
<1>8. ~b.finished => b.string_pool \subseteq DOMAIN objs
  BY <1>3, <1>5 DEF Inv
<1>9. b.nested = FALSE
  BY <1>3 DEF Inv
<1>10. Inv'
  BY <1>1, <1>2, <1>6, <1>7, <1>8, <1>9 DEF Inv, Adding
<1> QED
  BY <1>1, <1>3, <1>10 DEF buf

\* Elements that a client makes.
LEMMA ElementsFilled ==
  ASSUME NEW n \in 0 .. 3, NEW width \in Nat
  PROVE  /\ Filled(n, width) \in Seq(Seq(Bytes)) /\ Len(Filled(n, width)) = n
         /\ \A i \in 1 .. Len(Filled(n, width)) : Len(Filled(n, width)[i]) = width
<1>1. n \in Nat /\ Base \in Nat
  BY VectorAssumption
<1>2. ASSUME NEW i \in 1 .. n
      PROVE  /\ Scalar(Base * i + n, width) \in Seq(Bytes)
             /\ Len(Scalar(Base * i + n, width)) = width
  <2>1. Base * i + n \in Int
    BY <1>1
  <2> QED
    BY <2>1, ScalarBytes
<1> DEFINE S == Seq(Bytes)
           At(i) == Scalar(Base * i + n, width)
<1>3. \A i \in 1 .. n : At(i) \in S /\ Len(At(i)) = width
  BY <1>2
<1>4. Filled(n, width) = [i \in 1 .. n |-> At(i)]
  BY DEF Filled
<1> HIDE DEF S, At
<1>5. Filled(n, width) \in Seq(S) /\ Len(Filled(n, width)) = n
  BY <1>1, <1>3, <1>4
<1>6. \A i \in 1 .. n : Len(Filled(n, width)[i]) = width
  BY <1>3, <1>4
<1> QED
  BY <1>5, <1>6 DEF S

\* Making a string.
LEMMA StringStep ==
  ASSUME Inv, String PROVE Inv' /\ Kept(buf, buf')
<1>1. PICK s \in Strings :
        Call("string", "") /\ Made(CreateString(fbb, s), "string", "-", s)
  BY DEF String
<1>2. adding = <<>> /\ fbb \in GoodBuilders
  BY <1>1, OutsideTables
<1>3. s \in Seq(Bytes)
  BY ClientAssumption
<1>4. Makes(fbb, CreateString(fbb, s))
  BY <1>2, <1>3, StringMade
<1> QED
  BY <1>1, <1>2, <1>4, MadeStep

\* Making vectors of scalars and of structs.
LEMMA VectorStep ==
  ASSUME Inv, Scalars \/ Structs \/ UninitializedStructs \/ AlignedVector
  PROVE  Inv' /\ Kept(buf, buf')
<1>1. CASE Scalars
  <2>1. PICK n \in 0 .. 2, width \in {2, 8} :
          /\ Call("scalars", "")
          /\ MadeElements(CreateVector(fbb, Filled(n, width), width), Filled(n, width), width)
    BY <1>1 DEF Scalars
  <2> DEFINE elems == Filled(n, width)
             b == CreateVector(fbb, elems, width)
  <2>2. adding = <<>> /\ fbb \in GoodBuilders /\ ~fbb.nested
    BY <2>1, OutsideTables
  <2>3. n \in 0 .. 3 /\ width \in Nat /\ width \in 1 .. 16
    OBVIOUS
  <2>4. elems \in Seq(Seq(Bytes)) /\ \A i \in 1 .. Len(elems) : Len(elems[i]) = width
    BY <2>3, ElementsFilled
  <2>5. Made(b, "elements", width, elems)
    BY <2>1 DEF MadeElements
  <2> HIDE DEF elems
  <2>6. Makes(fbb, b)
    BY <2>2, <2>3, <2>4, VectorMade
  <2> HIDE DEF b
  <2> QED
    BY <2>2, <2>4, <2>5, <2>6, MadeStep
<1>2. CASE Structs
  <2>1. PICK n \in 0 .. 2 :
          /\ Call("structs", "")
          /\ MadeElements(CreateVectorOfStructs(fbb, Filled(n, 12), 12, 4), Filled(n, 12), 4)
    BY <1>2 DEF Structs
  <2> DEFINE elems == Filled(n, 12)
             b == CreateVectorOfStructs(fbb, elems, 12, 4)
  <2>2. adding = <<>> /\ fbb \in GoodBuilders /\ ~fbb.nested
    BY <2>1, OutsideTables
  <2>3. n \in 0 .. 3 /\ 12 \in Nat /\ 4 \in 1 .. 16
    OBVIOUS
  <2>4. elems \in Seq(Seq(Bytes)) /\ \A i \in 1 .. Len(elems) : Len(elems[i]) = 12
    BY <2>3, ElementsFilled
  <2>5. Made(b, "elements", 4, elems)
    BY <2>1 DEF MadeElements
  <2> HIDE DEF elems
  <2>6. Makes(fbb, b)
    BY <2>2, <2>3, <2>4, VectorOfStructsMade
  <2> HIDE DEF b
  <2> QED
    BY <2>2, <2>4, <2>5, <2>6, MadeStep
<1>3. CASE UninitializedStructs
  <2>1. PICK n \in 1 .. 2 :
          /\ Call("structs", "uninitialized")
          /\ MadeElements(CreateUninitializedVectorOfStructs(fbb, Filled(n, 12), 12),
                          Filled(n, 12), 4)
    BY <1>3 DEF UninitializedStructs
  <2> DEFINE elems == Filled(n, 12)
             b == CreateVector(fbb, elems, 12)
  <2>2. adding = <<>> /\ fbb \in GoodBuilders /\ ~fbb.nested
    BY <2>1, OutsideTables
  <2>3. n \in 0 .. 3 /\ 12 \in Nat /\ 12 \in 1 .. 16
    OBVIOUS
  <2>4. elems \in Seq(Seq(Bytes)) /\ \A i \in 1 .. Len(elems) : Len(elems[i]) = 12
    BY <2>3, ElementsFilled
  <2>5. Made(b, "elements", 4, elems)
    BY <2>1 DEF MadeElements, CreateUninitializedVectorOfStructs
  <2> HIDE DEF elems
  <2>6. Makes(fbb, b)
    BY <2>2, <2>3, <2>4, VectorMade
  <2> HIDE DEF b
  <2> QED
    BY <2>2, <2>4, <2>5, <2>6, MadeStep
<1>4. CASE AlignedVector
  <2>1. PICK n \in 1 .. 3 :
          /\ Call("aligned", "")
          /\ MadeElements(CreateVector(PreAlign(fbb, n, MaxAlignment), Filled(n, 1), 1),
                          Filled(n, 1), MaxAlignment)
    BY <1>4 DEF AlignedVector
  <2> DEFINE elems == Filled(n, 1)
             c == PreAlign(fbb, n, 16)
             b == CreateVector(c, elems, 1)
  <2>2. adding = <<>> /\ fbb \in GoodBuilders /\ ~fbb.nested
    BY <2>1, OutsideTables
  <2>3. n \in 0 .. 3 /\ n \in Nat /\ 1 \in Nat /\ 1 \in 1 .. 16 /\ 16 \in 1 .. 16
    OBVIOUS
  <2>4. elems \in Seq(Seq(Bytes)) /\ \A i \in 1 .. Len(elems) : Len(elems[i]) = 1
    BY <2>3, ElementsFilled
  <2>5. Made(b, "elements", 16, elems)
    BY <2>1 DEF MadeElements, MaxAlignment
  <2> HIDE DEF elems
  <2>6. Writes(fbb, c)
    BY <2>2, <2>3, Aligned
  <2> HIDE DEF c
  <2>7. Grows(fbb, c) /\ c \in GoodBuilders
    BY <2>6, WritesGrows, WritesGood
  <2>8. ~c.nested
    BY <2>2, <2>7 DEF Grows
  <2>9. Makes(c, b)
    BY <2>3, <2>4, <2>7, <2>8, VectorMade
  <2> HIDE DEF b
  <2>10. Makes(fbb, b)
    BY <2>7, <2>9, MakesOn
  <2> QED
    BY <2>2, <2>4, <2>5, <2>10, MadeStep
<1> QED
  BY <1>1, <1>2, <1>3, <1>4

\* Making a struct.
LEMMA StructStep ==
  ASSUME Inv, Struct PROVE Inv' /\ Kept(buf, buf')
<1> DEFINE b == CreateStruct(fbb, Scalar(5, 8), 8)
<1>1. Call("struct", "") /\ Made(b, "struct", 8, Scalar(5, 8))
  BY DEF Struct
<1>2. adding = <<>> /\ fbb \in GoodBuilders
  BY <1>1, OutsideTables
<1>3. Scalar(5, 8) \in Seq(Bytes) /\ Len(Scalar(5, 8)) > 0
  <2>1. 5 \in Int /\ 8 \in Nat
    OBVIOUS
  <2>2. Scalar(5, 8) \in Seq(Bytes) /\ Len(Scalar(5, 8)) = 8
    BY <2>1, ScalarBytes
  <2> QED
    BY <2>2
<1>4. 8 \in 1 .. 16
  OBVIOUS
<1>5. Makes(fbb, b)
  BY <1>2, <1>3, <1>4, StructMade
<1> HIDE DEF b
<1> QED
  BY <1>1, <1>2, <1>5, MadeStep

\* Making a vector of strings.
LEMMA StringsStep ==
  ASSUME Inv, VectorOfStrings PROVE Inv' /\ Kept(buf, buf')
<1>1. PICK s \in Strings, t \in Strings :
        Call("strings", "") /\ Made(CreateVectorOfStrings(fbb, <<s, t>>), "strings", "-", <<s, t>>)
  BY DEF VectorOfStrings
<1>2. adding = <<>> /\ fbb \in GoodBuilders /\ ~fbb.nested
  BY <1>1, OutsideTables
<1> DEFINE S == Seq(Bytes)
           strings == <<s, t>>
<1>3. s \in S /\ t \in S
  BY ClientAssumption
<1> HIDE DEF S
<1>4. strings \in Seq(S)
  BY <1>3
<1> USE DEF S
<1> HIDE DEF strings
<1>5. Makes(fbb, CreateVectorOfStrings(fbb, strings))
  BY <1>2, <1>4, StringsMade
<1>6. Made(CreateVectorOfStrings(fbb, strings), "strings", "-", strings)
  BY <1>1 DEF strings
<1> QED
  BY <1>1, <1>2, <1>5, <1>6, MadeStep

\* The client's objects are at offsets of the data.
LEMMA ObjectsListed ==
  ASSUME Inv, NEW kind, NEW of
  PROVE  /\ Offsets(kind, of) \in Seq(Nat)
         /\ \A k \in 1 .. Len(Offsets(kind, of)) :
              LET off == Offsets(kind, of)[k]
              IN  off \in DOMAIN objects /\ objects[off].kind = kind
<1> DEFINE n == GetSize(fbb)
<1>1. n \in Nat
  BY BuilderParts DEF Inv
<1>2. DOMAIN objects \subseteq 1 .. n
  BY DEF Inv, Remembered
<1> HIDE DEF n
<1> QED
  BY <1>1, <1>2, OffsetsListed

\* Making a sorted vector.
LEMMA SortedStep ==
  ASSUME Inv, SortedVector PROVE Inv' /\ Kept(buf, buf')
<1>1. PICK type \in DOMAIN Tables :
        LET offs == Offsets("table", type)
        IN  /\ Call("sorted", type)
            /\ Made(CreateVectorOfSortedTables(fbb, type, offs), "sorted", type, ToSet(offs))
  BY DEF SortedVector
<1> DEFINE offs == Offsets("table", type)
           b == CreateVectorOfSortedTables(fbb, type, offs)
<1>2. adding = <<>> /\ fbb \in GoodBuilders /\ ~fbb.nested
  BY <1>1, OutsideTables
<1>3. offs \in Seq(Nat)
  BY ObjectsListed
<1>4. Makes(fbb, b)
  BY <1>2, <1>3, SortedMade
<1> HIDE DEF b
<1> QED
  BY <1>1, <1>2, <1>4, MadeStep DEF b

\* A string that is shared: a new one, or the one in the pool.
LEMMA SharedStep ==
  ASSUME Inv, SharedString PROVE Inv' /\ Kept(buf, buf')
<1>1. PICK s \in Strings :
        /\ Call("shared", "") /\ ~fbb.finished
        /\ Made(CreateSharedString(fbb, s), "string", "-", s)
  BY DEF SharedString, Finished
<1> DEFINE b == CreateSharedString(fbb, s)
           n == GetSize(fbb)
           m == GetSize(b)
           off == b.result
           objs == With(off, [kind |-> "string", of |-> "-", value |-> s])
<1>2. adding = <<>> /\ fbb \in GoodBuilders /\ ~fbb.nested
  BY <1>1, OutsideTables
<1>3. s \in Seq(Bytes)
  BY ClientAssumption
<1>4. Shares(fbb, b)
  BY <1>2, <1>3, SharedMade
<1>5. /\ fbb' = b /\ objects' = objs /\ adding' = <<>> /\ root' = root /\ packet' = packet
      /\ received' = received
  BY <1>1, <1>2 DEF Made
<1> HIDE DEF b
<1>6. b \in GoodBuilders /\ Kept(fbb.buf_.data, b.buf_.data) /\ b.nested = fbb.nested
      /\ b.finished = fbb.finished
  BY <1>4 DEF Shares
<1>7. n \in Nat /\ m \in Nat /\ n <= m
  <2>1. /\ n = Len(fbb.buf_.data) /\ m = Len(b.buf_.data) /\ n \in Nat /\ m \in Nat
    BY <1>2, <1>6, BuilderParts
  <2> QED
    BY <1>6, <2>1 DEF Kept
<1>8. fbb.string_pool \subseteq DOMAIN objects /\ Remembered(objects, n)
  BY <1>1 DEF Inv
<1>9. off \in 1 .. m
  <2>1. off \in fbb.string_pool \/ off \in n + 1 .. m
    BY <1>4 DEF Shares
  <2>2. DOMAIN objects \subseteq 1 .. n
    BY <1>8 DEF Remembered
  <2> HIDE DEF n, m, off
  <2>3. CASE off \in fbb.string_pool
    <3>1. off \in 1 .. n
      BY <1>8, <2>2, <2>3
    <3> QED
      BY <1>7, <3>1
  <2>4. CASE off \in n + 1 .. m
    BY <1>7, <2>4
  <2> QED
    BY <2>1, <2>3, <2>4
<1>10. Remembered(objs, m) /\ DOMAIN objs = DOMAIN objects \cup {off}
  <2> HIDE DEF n, m, off
  <2> DEFINE o == [kind |-> "string", of |-> "-", value |-> s]
  <2>1. /\ o = [kind |-> o.kind, of |-> o.of, value |-> o.value]
        /\ o.kind = "elements" => o.value \in Seq(Seq(Bytes))
    OBVIOUS
  <2> HIDE DEF o
  <2>2. Remembered(With(off, o), m) /\ DOMAIN With(off, o) = DOMAIN objects \cup {off}
    BY <1>7, <1>8, <1>9, <2>1, RememberedWith
  <2> QED
    BY <2>2 DEF o
<1>11. b.string_pool \subseteq DOMAIN objs
  BY <1>4, <1>8, <1>10 DEF Shares
<1>12. root = NoRoot
  BY <1>1 DEF Inv, RootOf
<1> HIDE DEF objs, off
<1>13. Inv'
  BY <1>2, <1>5, <1>6, <1>10, <1>11, <1>12 DEF Inv, Adding, RootOf
<1> QED
  BY <1>5, <1>6, <1>13 DEF buf

\* What a client gives for the fields of a table.
LEMMA GivenTyped ==
  ASSUME Inv, NEW type \in DOMAIN Tables, NEW how, NEW s \in Seq(Bytes)
  PROVE  GivenFor(type, Given(type, how, s))
<1> DEFINE fields == FieldsOf(type)
           names == {fields[i].name : i \in DOMAIN fields}
           Targets(f) == IF f.of = "string" THEN Offsets("string", "-") ELSE Offsets("table", f.of)
           Wanted(f) == how # "least" \/ f.name \in Tables[type].required
           FieldValue(f, i) ==
             CASE f.kind = "scalar" ->
                    IF how = "most" \/ (how = "some" /\ i % 2 = 0)
                    THEN Scalar(7, f.width) ELSE Scalar(f.default, f.width)
               [] f.kind = "string" -> IF Wanted(f) THEN <<s>> ELSE <<>>
               [] f.kind = "vector" -> IF Wanted(f) THEN <<Targets(f)>> ELSE <<>>
               [] f.kind = "table" ->
                    IF Wanted(f) /\ Targets(f) # <<>> THEN Targets(f)[Len(Targets(f))] ELSE 0
           given == [n \in names |-> FieldValue(fields[NumberOf(type, n)], NumberOf(type, n))]
<1>1. Given(type, how, s) = given
  BY DEF Given
<1>2. SUFFICES ASSUME NEW i \in 1 .. Len(fields)
               PROVE  LET f == fields[i]
                          arg == given[f.name]
                      IN  CASE f.kind = "scalar" -> arg \in Seq(Bytes) /\ Len(arg) = f.width
                            [] f.kind = "string" -> arg = <<>> \/ arg[1] \in Seq(Bytes)
                            [] f.kind = "vector" -> arg = <<>> \/ arg[1] \in Seq(Nat)
                            [] f.kind = "table" -> arg \in Nat
  BY <1>1 DEF GivenFor
<1> DEFINE f == fields[i]
<1>3. SchemaField(f) /\ i \in DOMAIN fields
  BY SchemaFields
<1>4. NumberOf(type, f.name) = i
  BY <1>3, NamesDiffer
<1> HIDE DEF FieldValue
<1>5. given[f.name] = FieldValue(f, i)
  <2>1. f.name \in names
    BY <1>3
  <2> HIDE DEF names
  <2> QED
    BY <1>4, <2>1
<1> HIDE DEF given, fields
<1>6. Targets(f) \in Seq(Nat)
  BY ObjectsListed
<1> HIDE DEF Targets, Wanted
<1>7. f.kind \in {"scalar", "string", "table", "vector"}
  BY <1>3 DEF SchemaField
<1>8. CASE f.kind = "scalar"
  <2>1. f.width \in Nat /\ f.default \in Int /\ 7 \in Int
    BY <1>3 DEF SchemaField
  <2>2. FieldValue(f, i) \in {Scalar(7, f.width), Scalar(f.default, f.width)}
    BY <1>8 DEF FieldValue
  <2>3. /\ Scalar(7, f.width) \in Seq(Bytes) /\ Len(Scalar(7, f.width)) = f.width
        /\ Scalar(f.default, f.width) \in Seq(Bytes) /\ Len(Scalar(f.default, f.width)) = f.width
    BY <2>1, ScalarBytes
  <2> QED
    BY <1>5, <1>8, <2>2, <2>3
<1>9. CASE f.kind = "string"
  <2>1. FieldValue(f, i) \in {<<s>>, <<>>}
    BY <1>9 DEF FieldValue
  <2> QED
    BY <1>5, <1>9, <2>1
<1>10. CASE f.kind = "vector"
  <2>1. FieldValue(f, i) \in {<<Targets(f)>>, <<>>}
    BY <1>10 DEF FieldValue
  <2> QED
    BY <1>5, <1>6, <1>10, <2>1
<1>11. CASE f.kind = "table"
  <2>1. \/ FieldValue(f, i) = 0
        \/ Targets(f) # <<>> /\ FieldValue(f, i) = Targets(f)[Len(Targets(f))]
    BY <1>11 DEF FieldValue
  <2>2. Targets(f) # <<>> => Targets(f)[Len(Targets(f))] \in Nat
    <3> DEFINE t == Targets(f)
    <3>1. t \in Seq(Nat)
      BY <1>6
    <3> HIDE DEF t
    <3>2. t # <<>> => t[Len(t)] \in Nat
      BY <3>1
    <3> QED
      BY <3>2 DEF t
  <2> QED
    BY <1>5, <1>11, <2>1, <2>2
<1> QED
  BY <1>7, <1>8, <1>9, <1>10, <1>11

\* Making a table at once.
LEMMA DirectStep ==
  ASSUME Inv, Direct PROVE Inv' /\ Kept(buf, buf')
<1>1. PICK type \in DOMAIN Tables, how \in {"least", "some", "most"}, s \in Strings :
        LET given == Given(type, how, s)
            b == CreateTableDirect(fbb, type, given)
        IN  /\ Call("direct", type) \/ (Call("named", type) /\ s = Name)
            /\ RequiredSet(b, type)
            /\ Made(b, "table", type, Given(type, how, CString(s)))
  BY DEF Direct
<1> DEFINE given == Given(type, how, s)
           taken == Given(type, how, CString(s))
           b == CreateTableDirect(fbb, type, given)
<1>2. adding = <<>> /\ fbb \in GoodBuilders /\ ~fbb.nested
  BY <1>1, OutsideTables
<1>3. s \in Seq(Bytes)
  BY ClientAssumption
<1>4. GivenFor(type, given)
  BY <1>3, GivenTyped
<1>5. Made(b, "table", type, taken)
  BY <1>1
<1> HIDE DEF given, taken
<1>6. Makes(fbb, b)
  BY <1>2, <1>4, DirectMade
<1> HIDE DEF b
<1> QED
  BY <1>2, <1>5, <1>6, MadeStep

\* v is what FieldsWith gives a field of the kind of f.
ForKind(f, v, str, vec) ==
  /\ f.kind = "scalar" => v = Scalar(7, f.width)
  /\ f.kind = "string" => v = str
  /\ f.kind = "vector" => v = vec
  /\ f.kind = "table" => v = 0

\* The function v has str for the strings of a table and vec for its vectors.
Many(type, v, str, vec) ==
  \A i \in 1 .. Len(FieldsOf(type)) :
    ForKind(FieldsOf(type)[i], v[FieldsOf(type)[i].name], str, vec)

\* FieldsWith gives each field of a table what is meant for its kind.
LEMMA FieldOfMany ==
  ASSUME NEW type \in DOMAIN Tables, NEW str, NEW vec
  PROVE  Many(type, FieldsWith(type, str, vec), str, vec)
<1> SUFFICES ASSUME NEW i \in 1 .. Len(FieldsOf(type))
             PROVE  ForKind(FieldsOf(type)[i], FieldsWith(type, str, vec)[FieldsOf(type)[i].name],
                         str, vec)
  BY DEF Many
<1> DEFINE fields == FieldsOf(type)
           names == {fields[j].name : j \in DOMAIN fields}
           FieldValue(f) ==
             CASE f.kind = "scalar" -> Scalar(7, f.width)
               [] f.kind = "string" -> str
               [] f.kind = "vector" -> vec
               [] f.kind = "table" -> 0
           v == [n \in names |-> FieldValue(fields[NumberOf(type, n)])]
           f == fields[i]
<1>1. FieldsWith(type, str, vec) = v
  BY DEF FieldsWith
<1>2. i \in DOMAIN fields /\ f.name \in names /\ NumberOf(type, f.name) = i
  BY SchemaFields, NamesDiffer
<1> HIDE DEF names, FieldValue
<1>3. v[f.name] = FieldValue(f)
  BY <1>2
<1> HIDE DEF fields, v
<1> QED
  BY <1>1, <1>3 DEF FieldValue, f, fields, ForKind

\* What is given to CreateX has the types of the fields.
LEMMA ManyTyped ==
  ASSUME NEW type \in DOMAIN Tables, NEW off \in Nat
  PROVE  Arguments(type, FieldsWith(type, off, 0))
<1> DEFINE args == FieldsWith(type, off, 0)
<1>1. SUFFICES ASSUME NEW i \in 1 .. Len(FieldsOf(type))
               PROVE  LET f == FieldsOf(type)[i]
                      IN  IF f.kind = "scalar"
                          THEN args[f.name] \in Seq(Bytes) /\ Len(args[f.name]) = f.width
                          ELSE args[f.name] \in Nat
  BY DEF Arguments
<1> DEFINE f == FieldsOf(type)[i]
<1>2. /\ f.kind = "scalar" => args[f.name] = Scalar(7, f.width)
      /\ f.kind = "string" => args[f.name] = off
      /\ f.kind = "vector" => args[f.name] = 0
      /\ f.kind = "table" => args[f.name] = 0
  <2>1. Many(type, args, off, 0)
    BY FieldOfMany
  <2> HIDE DEF args
  <2> QED
    BY <2>1 DEF Many, ForKind
<1>3. SchemaField(f)
  BY SchemaFields
<1> HIDE DEF args, f
<1>4. f.kind \in {"scalar", "string", "table", "vector"} /\ f.width \in Nat /\ 7 \in Int
  BY <1>3 DEF SchemaField
<1>5. Scalar(7, f.width) \in Seq(Bytes) /\ Len(Scalar(7, f.width)) = f.width
  BY <1>4, ScalarBytes
<1> QED
  BY <1>2, <1>4, <1>5 DEF f

\* The offset of an object of a kind.
LEMMA OffsetOf ==
  ASSUME Inv, NEW kind, NEW of, NEW off \in ToSet(Offsets(kind, of))
  PROVE  off \in DOMAIN objects /\ objects[off].kind = kind /\ off \in 1 .. GetSize(fbb)
<1> DEFINE list == Offsets(kind, of)
<1>1. /\ list \in Seq(Nat)
      /\ \A k \in 1 .. Len(list) : list[k] \in DOMAIN objects /\ objects[list[k]].kind = kind
  BY ObjectsListed
<1> HIDE DEF list
<1>2. off \in {list[k] : k \in DOMAIN list}
  BY DEF ToSet, list
<1>3. PICK k \in 1 .. Len(list) : off = list[k]
  BY <1>1, <1>2
<1>4. DOMAIN objects \subseteq 1 .. GetSize(fbb)
  BY DEF Inv, Remembered
<1> QED
  BY <1>1, <1>3, <1>4

\* Making a table of a string that exists.
LEMMA CreateStep ==
  ASSUME Inv, Create PROVE Inv' /\ Kept(buf, buf')
<1>1. PICK type \in DOMAIN Tables, off \in ToSet(Offsets("string", "-")) :
        LET b == CreateTable(fbb, type, FieldsWith(type, off, 0))
        IN  /\ Call("create", type)
            /\ RequiredSet(b, type)
            /\ Made(b, "table", type, FieldsWith(type, <<objects[off].value>>, <<>>))
  BY DEF Create
<1> DEFINE args == FieldsWith(type, off, 0)
           value == FieldsWith(type, <<objects[off].value>>, <<>>)
           b == CreateTable(fbb, type, args)
<1>2. adding = <<>> /\ fbb \in GoodBuilders /\ ~fbb.nested
  BY <1>1, OutsideTables
<1>3. off \in Nat
  BY OffsetOf
<1>4. Arguments(type, args)
  BY <1>3, ManyTyped
<1>5. Made(b, "table", type, value)
  BY <1>1
<1> HIDE DEF args, value
<1>6. Makes(fbb, b)
  BY <1>2, <1>4, TableMade
<1> HIDE DEF b
<1> QED
  BY <1>2, <1>5, <1>6, MadeStep

\* What is remembered stays when there is more data.
LEMMA RememberedOn ==
  ASSUME NEW n \in Nat, NEW m \in Nat, n <= m, NEW objs, Remembered(objs, n)
  PROVE  Remembered(objs, m)
<1>1. DOMAIN objs \subseteq 1 .. m
  <2>1. DOMAIN objs \subseteq 1 .. n
    BY DEF Remembered
  <2> QED
    BY <2>1
<1> QED
  BY <1>1 DEF Remembered

\* A call that changes the builder, and may add bytes in front of its data.
LEMMA GrowsStep ==
  ASSUME Inv, NEW b, Grows(fbb, b), fbb' = b, (adding' # <<>>) = (adding # <<>>),
         Adding(adding', todo'), UNCHANGED <<objects, root, packet, received>>
  PROVE  Inv' /\ Kept(buf, buf')
<1>1. /\ b \in GoodBuilders /\ b.nested = fbb.nested /\ b.finished = fbb.finished
      /\ b.string_pool = fbb.string_pool /\ Kept(fbb.buf_.data, b.buf_.data)
  BY DEF Grows
<1>2. Remembered(objects, GetSize(b))
  <2> DEFINE n == GetSize(fbb)
             m == GetSize(b)
  <2>1. n \in Nat /\ m \in Nat /\ n <= m
    BY GrowsUp
  <2>2. Remembered(objects, n)
    BY DEF Inv
  <2> HIDE DEF n, m
  <2>3. Remembered(objects, m)
    BY <2>1, <2>2, RememberedOn
  <2> QED
    BY <2>3 DEF m
<1>3. RootOf(root, objects, b) /\ (~b.finished => b.string_pool \subseteq DOMAIN objects)
  BY <1>1 DEF Inv, RootOf
<1>4. Inv'
  BY <1>1, <1>2, <1>3 DEF Inv
<1> QED
  BY <1>1, <1>4 DEF buf

\* A table is started.
LEMMA StartStep ==
  ASSUME Inv, StartTestInfo PROVE Inv' /\ Kept(buf, buf')
<1> DEFINE b == Nested(fbb, TRUE)
           n == GetSize(fbb)
           a == <<[start |-> n, name |-> <<>>, level |-> Scalar(0, 4)]>>
<1>1. /\ todo # <<>> /\ Head(todo) = <<"builder", "TestInfo">>
      /\ fbb' = b /\ adding' = a /\ UNCHANGED <<objects, todo, root, packet, received>>
  BY DEF StartTestInfo, Call, StartTable, Nested
<1>2. fbb \in GoodBuilders /\ TRUE \in BOOLEAN /\ (TRUE \/ fbb.num_field_loc = 0)
  BY DEF Inv
<1>3. /\ b \in GoodBuilders /\ b.buf_ = fbb.buf_ /\ b.nested = TRUE
      /\ b.finished = fbb.finished /\ b.string_pool = fbb.string_pool
  BY <1>2, NestedChanged
<1> HIDE DEF b
<1>4. a # <<>> /\ Adding(a, todo)
  <2>1. n \in Nat
    BY <1>2, BuilderParts
  <2> HIDE DEF n
  <2>2. a # <<>> /\ a = <<[start |-> a[1].start, name |-> a[1].name, level |-> a[1].level]>>
        /\ a[1].start = n
    OBVIOUS
  <2> HIDE DEF a
  <2> QED
    BY <1>1, <2>1, <2>2 DEF Adding
<1>5. b.buf_.data = fbb.buf_.data /\ GetSize(b) = GetSize(fbb)
  BY <1>3 DEF GetSize, size
<1>6. RootOf(root, objects, b)
  BY <1>3 DEF Inv, RootOf
<1> HIDE DEF a
<1>7. Inv'
  BY <1>1, <1>3, <1>4, <1>5, <1>6 DEF Inv
<1>8. Kept(fbb.buf_.data, b.buf_.data)
  BY <1>2, <1>5, BuilderParts, KeptSame
<1> QED
  BY <1>1, <1>7, <1>8 DEF buf

\* A field is added to the table.
LEMMA AddStep ==
  ASSUME Inv, AddName \/ AddLevel PROVE Inv' /\ Kept(buf, buf')
<1>1. ASSUME adding # <<>>, NEW a, adding' = <<a>>,
             a = [start |-> adding[1].start, name |-> a.name, level |-> a.level],
             todo' = todo
      PROVE  (adding' # <<>>) = (adding # <<>>) /\ Adding(adding', todo')
  <2>1. /\ todo # <<>> /\ Head(todo) = <<"builder", "TestInfo">> /\ adding[1].start \in Nat
    BY <1>1 DEF Inv, Adding
  <2>2. <<a>>[1] = a /\ <<a>> # <<>> /\ a.start = adding[1].start
    BY <1>1
  <2>3. Adding(<<a>>, todo)
    BY <1>1, <2>1, <2>2 DEF Adding
  <2> QED
    BY <1>1, <2>2, <2>3
<1>2. CASE AddName
  <2>1. PICK off \in ToSet(Offsets("string", "-")) :
          /\ adding # <<>>
          /\ fbb' = AddOffset(fbb, FieldIndexToOffset(0), off)
          /\ adding' = <<[adding[1] EXCEPT !.name = <<objects[off].value>>]>>
          /\ UNCHANGED <<objects, todo, root, packet, received>>
    BY <1>2 DEF AddName
  <2>2. off \in Int /\ FieldIndexToOffset(0) \in Nat
    <3> DEFINE list == Offsets("string", "-")
    <3>1. list \in Seq(Nat)
      BY ObjectsListed
    <3> HIDE DEF list
    <3>2. \A x \in ToSet(list) : x \in Nat
      BY <3>1 DEF ToSet
    <3>3. off \in Nat
      BY <3>2 DEF list
    <3> QED
      BY <3>3 DEF FieldIndexToOffset, voffset
  <2>3. fbb \in GoodBuilders /\ fbb.nested
    BY <2>1 DEF Inv
  <2>4. Grows(fbb, fbb')
    BY <2>1, <2>2, <2>3, OffsetAdded
  <2> DEFINE a == [adding[1] EXCEPT !.name = <<objects[off].value>>]
  <2>5. a = [start |-> adding[1].start, name |-> a.name, level |-> a.level]
    <3>1. adding[1] = [start |-> adding[1].start, name |-> adding[1].name,
                       level |-> adding[1].level]
      BY <2>1 DEF Inv, Adding
    <3> QED
      BY <3>1
  <2>6. adding' = <<a>>
    BY <2>1
  <2> HIDE DEF a
  <2>7. (adding' # <<>>) = (adding # <<>>) /\ Adding(adding', todo')
    BY <1>1, <2>1, <2>5, <2>6
  <2> QED
    BY <2>1, <2>4, <2>7, GrowsStep
<1>3. CASE AddLevel
  <2>1. PICK level \in {-1, 3} :
          /\ adding # <<>>
          /\ fbb' = AddElement(fbb, FieldIndexToOffset(1), Scalar(level, 4), Scalar(0, 4))
          /\ adding' = <<[adding[1] EXCEPT !.level = Scalar(level, 4)]>>
          /\ UNCHANGED <<objects, todo, root, packet, received>>
    BY <1>3 DEF AddLevel
  <2>2. FieldIndexToOffset(1) \in Nat
    BY DEF FieldIndexToOffset, voffset
  <2>3. fbb \in GoodBuilders /\ fbb.nested
    BY <2>1 DEF Inv
  <2>4. Scalar(level, 4) \in Seq(Bytes) /\ Len(Scalar(level, 4)) \in 1 .. 16
    <3>1. level \in Int /\ 4 \in Nat
      OBVIOUS
    <3>2. Scalar(level, 4) \in Seq(Bytes) /\ Len(Scalar(level, 4)) = 4
      BY <3>1, ScalarBytes
    <3> QED
      BY <3>2
  <2> DEFINE a == [adding[1] EXCEPT !.level = Scalar(level, 4)]
             e == Scalar(level, 4)
             def == Scalar(0, 4)
  <2>5. a = [start |-> adding[1].start, name |-> a.name, level |-> a.level]
    <3>1. adding[1] = [start |-> adding[1].start, name |-> adding[1].name,
                       level |-> adding[1].level]
      BY <2>1 DEF Inv, Adding
    <3> QED
      BY <3>1
  <2>6. adding' = <<a>> /\ fbb' = AddElement(fbb, FieldIndexToOffset(1), e, def)
    BY <2>1
  <2> HIDE DEF a
  <2>7. e \in Seq(Bytes) /\ Len(e) \in 1 .. 16
    BY <2>4
  <2> HIDE DEF e, def
  <2>8. Grows(fbb, fbb')
    BY <2>2, <2>3, <2>6, <2>7, ElementAdded
  <2>9. (adding' # <<>>) = (adding # <<>>) /\ Adding(adding', todo')
    BY <1>1, <2>1, <2>5, <2>6
  <2> QED
    BY <2>1, <2>8, <2>9, GrowsStep
<1> QED
  BY <1>2, <1>3

\* The table is finished.
LEMMA FinishTableStep ==
  ASSUME Inv, FinishTestInfo PROVE Inv' /\ Kept(buf, buf')
<1> DEFINE start == adding[1].start
           b == EndTable(fbb, start)
           n == GetSize(fbb)
           m == GetSize(b)
           off == b.result
           o == [kind |-> "table", of |-> "TestInfo",
                 value |-> [name |-> adding[1].name, level |-> adding[1].level]]
           objs == With(off, o)
<1>1. /\ adding # <<>> /\ fbb' = b /\ adding' = <<>> /\ objects' = objs
      /\ root' = root /\ packet' = packet /\ received' = received
  BY DEF FinishTestInfo
<1>2. fbb \in GoodBuilders /\ start \in Nat /\ Remembered(objects, n)
  BY <1>1 DEF Inv, Adding
<1>3. Ends(fbb, b)
  BY <1>2, TableEnded
<1> HIDE DEF b
<1>4. /\ b \in GoodBuilders /\ Kept(fbb.buf_.data, b.buf_.data) /\ b.nested = FALSE
      /\ b.finished = fbb.finished /\ b.string_pool = fbb.string_pool /\ off \in n + 1 .. m
  <2>1. b.nested \in BOOLEAN /\ ~b.nested
    BY <1>3, BuilderParts DEF Ends
  <2> QED
    BY <1>3, <2>1 DEF Ends
<1>5. n \in Nat /\ m \in Nat /\ n <= m
  <2>1. n = Len(fbb.buf_.data) /\ m = Len(b.buf_.data) /\ n \in Nat /\ m \in Nat
    BY <1>2, <1>4, BuilderParts
  <2> QED
    BY <1>4, <2>1 DEF Kept
<1>6. Remembered(objs, m) /\ DOMAIN objs = DOMAIN objects \cup {off}
  <2>1. off \in 1 .. m
    BY <1>4, <1>5
  <2>2. /\ o = [kind |-> o.kind, of |-> o.of, value |-> o.value]
        /\ o.kind = "elements" => o.value \in Seq(Seq(Bytes))
    OBVIOUS
  <2> HIDE DEF o, off, m, n
  <2> QED
    BY <1>2, <1>5, <2>1, <2>2, RememberedWith
<1>7. RootOf(root, objs, b)
  <2>1. o.kind = "table"
    OBVIOUS
  <2>2. \A p \in DOMAIN objects : objs[p] = o \/ objs[p] = objects[p]
    BY DEF With
  <2> HIDE DEF o, objs
  <2> QED
    BY <1>4, <1>6, <2>1, <2>2 DEF Inv, RootOf
<1>8. b.string_pool \subseteq DOMAIN objs \/ b.finished
  BY <1>4, <1>6 DEF Inv
<1> HIDE DEF objs, m
<1>9. Inv'
  BY <1>1, <1>4, <1>6, <1>7, <1>8 DEF Inv, Adding, m
<1> QED
  BY <1>1, <1>4, <1>9 DEF buf

\* Settings, and the move to another builder.
LEMMA SetStep ==
  ASSUME Inv, Settings \/ MoveBuilder PROVE Inv' /\ Kept(buf, buf')
<1>1. ASSUME NEW operation, NEW operand, operation # "builder", Call(operation, operand),
             NEW b, Set(b), Grows(fbb, b)
      PROVE  Inv' /\ Kept(buf, buf')
  <2>1. adding = <<>>
    BY <1>1, OutsideTables
  <2>2. fbb' = b /\ adding' = adding /\ UNCHANGED <<objects, root, packet, received>>
    BY <1>1 DEF Set
  <2>3. (adding' # <<>>) = (adding # <<>>) /\ Adding(adding', todo')
    BY <2>1, <2>2 DEF Adding
  <2> QED
    BY <1>1, <2>2, <2>3, GrowsStep
<1>2. fbb \in GoodBuilders /\ TRUE \in BOOLEAN /\ FALSE \in BOOLEAN
  BY DEF Inv
<1>3. CASE Call("force", "on") /\ Set(ForceDefaults(fbb, TRUE))
  <2>1. Grows(fbb, ForceDefaults(fbb, TRUE))
    BY <1>2, SetTyped
  <2> QED
    BY <1>1, <1>3, <2>1
<1>4. CASE Call("dedup", "off") /\ Set(DedupVtables(fbb, FALSE))
  <2>1. Grows(fbb, DedupVtables(fbb, FALSE))
    BY <1>2, SetTyped
  <2> QED
    BY <1>1, <1>4, <2>1
<1>5. CASE Call("move", "") /\ Set(Moved(fbb))
  <2>1. Grows(fbb, Moved(fbb))
    BY <1>2, SetTyped
  <2> QED
    BY <1>1, <1>5, <2>1
<1> QED
  BY <1>3, <1>4, <1>5 DEF Settings, MoveBuilder

\* The buffer is finished.
LEMMA FinishStep ==
  ASSUME Inv, FinishBuffer PROVE Inv' /\ Kept(buf, buf')
<1>1. PICK type \in DOMAIN Tables, prefixed \in BOOLEAN, identifier \in {<<>>, Identifier} :
        LET tables == Offsets("table", type)
            off == tables[Len(tables)]
        IN  /\ Call("finish", type) /\ tables # <<>>
            /\ fbb' = Finish(fbb, off, identifier, prefixed)
            /\ root' = [off |-> off, type |-> type, identifier |-> identifier,
                        prefixed |-> prefixed]
            /\ UNCHANGED <<objects, adding, packet, received>>
  BY DEF FinishBuffer
<1> DEFINE tables == Offsets("table", type)
           off == tables[Len(tables)]
           r == [off |-> off, type |-> type, identifier |-> identifier, prefixed |-> prefixed]
           b == Finish(fbb, off, identifier, prefixed)
<1>2. adding = <<>> /\ fbb \in GoodBuilders /\ ~fbb.nested
  BY <1>1, OutsideTables
<1>3. off \in Nat /\ off \in DOMAIN objects /\ objects[off].kind = "table"
  <2>1. /\ tables \in Seq(Nat) /\ tables # <<>>
        /\ \A k \in 1 .. Len(tables) :
             tables[k] \in DOMAIN objects /\ objects[tables[k]].kind = "table"
    BY <1>1, ObjectsListed
  <2> HIDE DEF tables
  <2>2. Len(tables) \in 1 .. Len(tables) /\ tables[Len(tables)] \in Nat
    BY <2>1
  <2> QED
    BY <2>1, <2>2
<1>4. identifier \in Seq(Bytes)
  <2>1. 11 \in Bytes /\ 12 \in Bytes
    BY VectorAssumption, ClientAssumption DEF Bytes
  <2> HIDE DEF b, r, off, tables
  <2>2. <<11, 12, 11, 12>> \in Seq(Bytes) /\ <<>> \in Seq(Bytes)
    BY <2>1
  <2> QED
    BY <2>2 DEF Identifier
<1> HIDE DEF off, tables
<1>5. Finishes(fbb, b)
  <2>1. off \in Int
    BY <1>3
  <2> QED
    BY <1>2, <1>4, <2>1, BufferFinished
<1>6. /\ fbb' = b /\ root' = r /\ objects' = objects /\ adding' = <<>> /\ packet' = packet
      /\ received' = received
  BY <1>1, <1>2 DEF off, tables
<1> HIDE DEF b
<1>7. /\ b \in GoodBuilders /\ Kept(fbb.buf_.data, b.buf_.data) /\ b.nested = fbb.nested
      /\ b.finished
  BY <1>5 DEF Finishes
<1>8. Remembered(objects, GetSize(b))
  <2> DEFINE n == GetSize(fbb)
             m == GetSize(b)
  <2>1. n = Len(fbb.buf_.data) /\ m = Len(b.buf_.data) /\ n \in Nat /\ m \in Nat
    BY <1>2, <1>7, BuilderParts
  <2>2. n <= m
    BY <1>7, <2>1 DEF Kept
  <2>3. Remembered(objects, n)
    BY DEF Inv
  <2> HIDE DEF n, m
  <2>4. Remembered(objects, m)
    BY <2>1, <2>2, <2>3, RememberedOn
  <2> QED
    BY <2>4 DEF m
<1>9. RootOf(r, objects, b) /\ r # NoRoot
  <2>1. r.off = off /\ r.type = type
    OBVIOUS
  <2>2. r # NoRoot
    <3>1. "none" \notin DOMAIN Tables
      BY DEF Tables
    <3> QED
      BY <2>1, <3>1 DEF NoRoot
  <2> HIDE DEF r
  <2> QED
    BY <1>3, <1>7, <2>1, <2>2 DEF RootOf
<1> HIDE DEF r
<1>10. Inv'
  BY <1>2, <1>6, <1>7, <1>8, <1>9 DEF Inv, Adding
<1> QED
  BY <1>6, <1>7, <1>10 DEF buf

\* Writing a scalar into a buffer changes neither its length nor that it is bytes.
LEMMA ScalarWritten ==
  ASSUME NEW d \in Seq(Bytes), NEW pos, NEW bytes \in Seq(Bytes)
  PROVE  WriteScalar(d, pos, bytes) \in Seq(Bytes) /\ Len(WriteScalar(d, pos, bytes)) = Len(d)
<1> DEFINE At(i) == IF i - pos \in DOMAIN bytes THEN bytes[i - pos] ELSE d[i]
<1>1. \A i \in 1 .. Len(d) : At(i) \in Bytes
  OBVIOUS
<1>2. WriteScalar(d, pos, bytes) = [i \in 1 .. Len(d) |-> At(i)]
  BY DEF WriteScalar
<1>3. Len(d) \in Nat
  OBVIOUS
<1> HIDE DEF At
<1> QED
  BY <1>1, <1>2, <1>3

\* A builder with other bytes in its data.
LEMMA DataChanged ==
  ASSUME Inv, NEW d \in Seq(Bytes), Len(d) = Len(buf)
  PROVE  LET b == [fbb EXCEPT !.buf_.data = d]
         IN  /\ b \in GoodBuilders /\ b.buf_.data = d /\ GetSize(b) = GetSize(fbb)
             /\ b.nested = fbb.nested /\ b.finished = fbb.finished
             /\ b.string_pool = fbb.string_pool /\ b.max_voffset_ = fbb.max_voffset_
             /\ b.buf_.scratch = fbb.buf_.scratch /\ b.num_field_loc = fbb.num_field_loc
<1> DEFINE v == [fbb.buf_ EXCEPT !.data = d]
           b == [fbb EXCEPT !.buf_ = v]
<1>1. /\ fbb \in GoodBuilders /\ fbb \in Builders /\ fbb.buf_ \in SoundVectors
      /\ fbb.buf_ \in Vectors
  BY BuilderParts DEF Inv
<1>2. v \in Vectors /\ v.data = d /\ v.scratch = fbb.buf_.scratch
      /\ v.reserved_ = fbb.buf_.reserved_
  BY <1>1 DEF Vectors
<1>3. v \in SoundVectors
  <2>1. Room(v) = Room(fbb.buf_) /\ Room(fbb.buf_) >= 0
    BY <1>1, <1>2 DEF Room, size, scratch_size, buf, SoundVectors
  <2> QED
    BY <1>2, <2>1 DEF SoundVectors
<1>4. [fbb EXCEPT !.buf_.data = d] = b
  BY <1>1 DEF Builders
<1> HIDE DEF v
<1>5. b \in Builders /\ b.buf_ = v /\ b.nested = fbb.nested /\ b.finished = fbb.finished
      /\ b.string_pool = fbb.string_pool /\ b.num_field_loc = fbb.num_field_loc
      /\ b.max_voffset_ = fbb.max_voffset_
  BY <1>1, <1>3 DEF Builders
<1> HIDE DEF b
<1>6. b \in GoodBuilders
  BY <1>1, <1>2, <1>5 DEF GoodBuilders
<1>7. GetSize(b) = GetSize(fbb)
  BY <1>2, <1>5 DEF GetSize, size, buf
<1> QED
  BY <1>2, <1>4, <1>5, <1>6, <1>7

\* A step that writes into the data.
LEMMA WriteStep ==
  ASSUME Inv, adding = <<>>, NEW d \in Seq(Bytes), Len(d) = Len(buf),
         fbb' = [fbb EXCEPT !.buf_.data = d],
         Remembered(objects', GetSize(fbb)), DOMAIN objects' = DOMAIN objects,
         \A off \in DOMAIN objects : objects'[off].kind = objects[off].kind,
         UNCHANGED <<adding, root, packet, received>>
  PROVE  Inv' /\ Len(buf') = Len(buf)
<1> DEFINE b == [fbb EXCEPT !.buf_.data = d]
<1>1. /\ b \in GoodBuilders /\ b.buf_.data = d /\ GetSize(b) = GetSize(fbb)
      /\ b.nested = fbb.nested /\ b.finished = fbb.finished
      /\ b.string_pool = fbb.string_pool
  BY DataChanged
<1>2. fbb' = b
  OBVIOUS
<1> HIDE DEF b
<1>3. RootOf(root, objects', b)
  BY <1>1 DEF Inv, RootOf
<1>4. Inv'
  BY <1>1, <1>2, <1>3 DEF Inv, Adding
<1> QED
  BY <1>1, <1>2, <1>4 DEF buf

\* A scalar of the root is set.
LEMMA MutateStep ==
  ASSUME Inv, Mutate PROVE Inv' /\ Len(buf') = Len(buf)
<1>1. /\ Call("mutate", "root") /\ root # NoRoot /\ adding = <<>>
      /\ UNCHANGED <<adding, root, packet, received>>
  <2>1. Call("mutate", "root") /\ root # NoRoot /\ UNCHANGED <<adding, root, packet, received>>
    BY DEF Mutate
  <2> QED
    BY <2>1, OutsideTables
<1>2. PICK i \in DOMAIN FieldsOf(root.type), n \in {0, 9} :
        LET f == FieldsOf(root.type)[i]
            field == FieldIndexToOffset(i - 1)
            bytes == Scalar(n, f.width)
            default == Scalar(f.default, f.width)
        IN  /\ fbb' = [fbb EXCEPT !.buf_.data = SetField(@, Pos(root.off), field, bytes, default)]
            /\ objects' = IF FieldIsSet(buf, Pos(root.off), field, bytes, default)
                          THEN [objects EXCEPT ![root.off].value[f.name] = bytes] ELSE objects
  BY DEF Mutate
<1> DEFINE f == FieldsOf(root.type)[i]
           field == FieldIndexToOffset(i - 1)
           bytes == Scalar(n, f.width)
           default == Scalar(f.default, f.width)
           pos == Pos(root.off)
           d == SetField(buf, pos, field, bytes, default)
           set == FieldIsSet(buf, pos, field, bytes, default)
           o == [objects[root.off] EXCEPT !.value[f.name] = bytes]
           objs == [objects EXCEPT ![root.off] = o]
<1>3. root.type \in DOMAIN Tables /\ root.off \in DOMAIN objects /\ objects[root.off].kind = "table"
  BY <1>1 DEF Inv, RootOf
<1>4. bytes \in Seq(Bytes)
  <2>1. SchemaField(f)
    BY <1>3, SchemaFields
  <2>2. f.width \in Nat /\ n \in Int
    BY <2>1 DEF SchemaField
  <2> QED
    BY <2>2, ScalarBytes
<1>5. fbb' = [fbb EXCEPT !.buf_.data = d] /\ objects' = IF set THEN objs ELSE objects
  <2>1. fbb' = [fbb EXCEPT !.buf_.data = SetField(@, pos, field, bytes, default)]
        /\ objects' = IF set THEN [objects EXCEPT ![root.off].value[f.name] = bytes] ELSE objects
    BY <1>2
  <2> QED
    BY <2>1 DEF buf
<1> HIDE DEF bytes, default, field, pos, set, f
<1>6. d \in Seq(Bytes) /\ Len(d) = Len(buf)
  <2>1. buf \in Seq(Bytes)
    BY BuilderParts DEF Inv, buf
  <2>2. d = buf \/ d = WriteScalar(buf, pos + GetOptionalFieldOffset(buf, pos, field), bytes)
    BY DEF SetField
  <2> QED
    BY <1>4, <2>1, <2>2, ScalarWritten
<1> HIDE DEF d
<1>7. Remembered(objects, GetSize(fbb))
  BY DEF Inv
<1>8. o = [kind |-> o.kind, of |-> o.of, value |-> o.value] /\ o.kind = "table"
  BY <1>3, <1>7 DEF Remembered
<1> HIDE DEF o
<1>9. Remembered(objs, GetSize(fbb)) /\ DOMAIN objs = DOMAIN objects
      /\ \A off \in DOMAIN objects : objs[off].kind = objects[off].kind
  <2>1. /\ DOMAIN objs = DOMAIN objects /\ objs[root.off] = o
        /\ \A p \in DOMAIN objects : p # root.off => objs[p] = objects[p]
        /\ objs = [p \in DOMAIN objs |-> objs[p]]
    BY <1>3
  <2> HIDE DEF objs
  <2>2. \A p \in DOMAIN objs :
          /\ objs[p] = [kind |-> objs[p].kind, of |-> objs[p].of, value |-> objs[p].value]
          /\ objs[p].kind = "elements" => objs[p].value \in Seq(Seq(Bytes))
    BY <1>7, <1>8, <2>1 DEF Remembered
  <2>3. DOMAIN objs \subseteq 1 .. GetSize(fbb)
    BY <1>7, <2>1 DEF Remembered
  <2>4. Remembered(objs, GetSize(fbb))
    BY <2>1, <2>2, <2>3 DEF Remembered
  <2> QED
    BY <1>3, <1>8, <2>1, <2>4
<1> HIDE DEF objs
<1>10. /\ Remembered(objects', GetSize(fbb)) /\ DOMAIN objects' = DOMAIN objects
       /\ \A off \in DOMAIN objects : objects'[off].kind = objects[off].kind
  BY <1>5, <1>7, <1>9
<1> QED
  BY <1>1, <1>5, <1>6, <1>10, WriteStep

\* An element of a vector is set.
LEMMA MutateVectorStep ==
  ASSUME Inv, MutateVector PROVE Inv' /\ Len(buf') = Len(buf)
<1>1. PICK off \in {o \in DOMAIN objects : objects[o].kind = "elements"} :
        /\ Call("mutate", "elements")
        /\ \E i \in DOMAIN objects[off].value :
             LET bytes == Scalar(9, Len(objects[off].value[i]))
             IN  /\ fbb' = [fbb EXCEPT !.buf_.data = MutateElement(@, Pos(off), i - 1, bytes)]
                 /\ objects' = [objects EXCEPT ![off].value[i] = bytes]
        /\ UNCHANGED <<adding, root, packet, received>>
  BY DEF MutateVector
<1>2. PICK i \in DOMAIN objects[off].value :
        LET bytes == Scalar(9, Len(objects[off].value[i]))
        IN  /\ fbb' = [fbb EXCEPT !.buf_.data = MutateElement(@, Pos(off), i - 1, bytes)]
            /\ objects' = [objects EXCEPT ![off].value[i] = bytes]
  BY <1>1
<1> DEFINE value == objects[off].value
           bytes == Scalar(9, Len(value[i]))
           changed == [value EXCEPT ![i] = bytes]
           o == [objects[off] EXCEPT !.value = changed]
           objs == [objects EXCEPT ![off] = o]
           d == MutateElement(buf, Pos(off), i - 1, bytes)
<1>3. adding = <<>> /\ UNCHANGED <<adding, root, packet, received>>
  BY <1>1, OutsideTables
<1>4. off \in DOMAIN objects /\ objects[off].kind = "elements" /\ Remembered(objects, GetSize(fbb))
  BY DEF Inv
<1>5. value \in Seq(Seq(Bytes)) /\ i \in DOMAIN value
  BY <1>4 DEF Remembered
<1>6. fbb' = [fbb EXCEPT !.buf_.data = d] /\ objects' = objs
  BY <1>2 DEF buf
<1> HIDE DEF value
<1>7. bytes \in Seq(Bytes)
  <2>1. value[i] \in Seq(Bytes)
    BY <1>5
  <2>2. 9 \in Int /\ Len(value[i]) \in Nat
    BY <2>1
  <2> QED
    BY <2>2, ScalarBytes
<1> HIDE DEF bytes
<1>8. d \in Seq(Bytes) /\ Len(d) = Len(buf)
  <2>1. buf \in Seq(Bytes)
    BY BuilderParts DEF Inv, buf
  <2>2. d = WriteScalar(buf, ElementAt(Pos(off), i - 1, Len(bytes)), bytes)
    BY DEF MutateElement
  <2> QED
    BY <1>7, <2>1, <2>2, ScalarWritten
<1> HIDE DEF d
<1>9. changed \in Seq(Seq(Bytes))
  <2> DEFINE S == Seq(Bytes)
  <2>1. value \in Seq(S) /\ bytes \in S
    BY <1>5, <1>7
  <2> HIDE DEF S
  <2>2. DOMAIN value = 1 .. Len(value) /\ Len(value) \in Nat
    BY <2>1
  <2>3. changed = [k \in 1 .. Len(value) |-> IF k = i THEN bytes ELSE value[k]]
    BY <1>5, <2>2 DEF changed
  <2>4. \A k \in 1 .. Len(value) : (IF k = i THEN bytes ELSE value[k]) \in S
    BY <2>1, <2>2
  <2> HIDE DEF changed
  <2>5. changed \in Seq(S)
    BY <2>2, <2>3, <2>4
  <2> QED
    BY <2>5 DEF S
<1> HIDE DEF changed
<1>10. o = [kind |-> o.kind, of |-> o.of, value |-> o.value] /\ o.kind = "elements"
       /\ o.value = changed
  BY <1>4 DEF Remembered
<1> HIDE DEF o
<1>11. Remembered(objs, GetSize(fbb)) /\ DOMAIN objs = DOMAIN objects
       /\ \A p \in DOMAIN objects : objs[p].kind = objects[p].kind
  <2>1. /\ DOMAIN objs = DOMAIN objects /\ objs[off] = o
        /\ \A p \in DOMAIN objects : p # off => objs[p] = objects[p]
        /\ objs = [p \in DOMAIN objs |-> objs[p]]
    BY <1>4
  <2> HIDE DEF objs
  <2>2. \A p \in DOMAIN objs :
          /\ objs[p] = [kind |-> objs[p].kind, of |-> objs[p].of, value |-> objs[p].value]
          /\ objs[p].kind = "elements" => objs[p].value \in Seq(Seq(Bytes))
    BY <1>4, <1>9, <1>10, <2>1 DEF Remembered
  <2>3. DOMAIN objs \subseteq 1 .. GetSize(fbb)
    BY <1>4, <2>1 DEF Remembered
  <2>4. Remembered(objs, GetSize(fbb))
    BY <2>1, <2>2, <2>3 DEF Remembered
  <2> QED
    BY <1>4, <1>10, <2>1, <2>4
<1> HIDE DEF objs
<1>12. /\ Remembered(objects', GetSize(fbb)) /\ DOMAIN objects' = DOMAIN objects
       /\ \A p \in DOMAIN objects : objects'[p].kind = objects[p].kind
  BY <1>6, <1>11
<1> QED
  BY <1>3, <1>6, <1>8, <1>12, WriteStep

\* The builder is emptied.
LEMMA ClearStep ==
  ASSUME Inv, ClearBuilder PROVE Inv' /\ buf' = <<>>
<1>1. ASSUME NEW operation, NEW operand, operation # "builder", Call(operation, operand),
             NEW b, Emptied(b), Empties(fbb, b)
      PROVE  Inv' /\ buf' = <<>>
  <2>1. adding = <<>>
    BY <1>1, OutsideTables
  <2>2. /\ fbb' = b /\ objects' = Nothing /\ root' = NoRoot /\ received' = <<>>
        /\ adding' = <<>> /\ packet' = packet
    BY <1>1, <2>1 DEF Emptied
  <2>3. /\ b \in GoodBuilders /\ b.buf_.data = <<>> /\ b.nested = FALSE
        /\ ~b.finished => b.string_pool = {}
    <3>1. b \in GoodBuilders /\ ~b.nested
      BY <1>1 DEF Empties
    <3>2. b.nested \in BOOLEAN
      BY <3>1, BuilderParts
    <3> QED
      BY <1>1, <3>1, <3>2 DEF Empties
  <2>4. Remembered(Nothing, GetSize(b))
    BY DEF Nothing, Remembered
  <2>5. Adding(adding', todo') /\ RootOf(root', objects', fbb') /\ received' \in Seq(Bytes)
    BY <2>2 DEF Adding, RootOf
  <2>6. PacketOf(packet')
    BY <2>2 DEF Inv
  <2>7. /\ fbb' \in GoodBuilders /\ fbb'.nested = (adding' # <<>>)
        /\ ~fbb'.finished => fbb'.string_pool \subseteq DOMAIN objects'
    BY <2>2, <2>3
  <2>8. Inv'
    BY <2>2, <2>4, <2>5, <2>6, <2>7 DEF Inv
  <2> QED
    BY <2>2, <2>3, <2>8 DEF buf
<1>2. ASSUME NEW operation, operation # "builder", Call(operation, "")
      PROVE  /\ Empties(fbb, Clear(fbb)) /\ Empties(fbb, Reset(fbb))
             /\ fbb.finished => Empties(fbb, Release(fbb))
  <2>1. fbb \in GoodBuilders /\ ~fbb.nested
    BY <1>2, OutsideTables
  <2> QED
    BY <2>1, Emptied3
<1>3. CASE Call("clear", "") /\ Emptied(Clear(fbb))
  <2>1. Empties(fbb, Clear(fbb))
    BY <1>2, <1>3
  <2> QED
    BY <1>1, <1>3, <2>1
<1>4. CASE Call("reset", "") /\ Emptied(Reset(fbb))
  <2>1. Empties(fbb, Reset(fbb))
    BY <1>2, <1>4
  <2> QED
    BY <1>1, <1>4, <2>1
<1>5. CASE Call("release", "") /\ Finished(fbb) /\ Emptied(Release(fbb))
  <2>1. Empties(fbb, Release(fbb))
    BY <1>2, <1>5 DEF Finished
  <2> QED
    BY <1>1, <1>5, <2>1
<1> QED
  BY <1>3, <1>4, <1>5 DEF ClearBuilder

\* The data are put into a packet.
LEMMA PacketStep ==
  ASSUME Inv, MakePacket PROVE Inv' /\ Kept(buf, buf')
<1>1. UNCHANGED <<fbb, objects, adding, root, received>>
  BY DEF MakePacket
<1>2. buf \in Seq(Bytes) /\ adding = <<>>
  <2>1. buf \in Seq(Bytes)
    BY BuilderParts DEF Inv, buf
  <2>2. Call("packet", "setters") \/ Call("packet", "assemble")
    BY DEF MakePacket
  <2> QED
    BY <2>1, <2>2, OutsideTables
<1>3. PacketOf(packet')
  <2>1. ASSUME NEW filled, SetPacket(filled, buf),
               packet' = [via |-> "setters", buffer |-> filled, data |-> buf]
        PROVE  PacketOf(packet')
    <3>1. packet'.buffer = filled /\ packet'.data = buf
      BY <2>1
    <3>2. filled \in WholeBuffers
      BY <2>1 DEF SetPacket
    <3> QED
      BY <2>1, <3>1, <3>2 DEF PacketOf
  <2>2. ASSUME NEW d \in WholeBuffers,
               packet' = [via |-> "assemble", data |-> buf,
                          buffer |-> P!AssemblePacketBuffer(d, buf, PacketType)]
        PROVE  PacketOf(packet')
    <3>1. PacketType \in Bytes
      BY VectorAssumption, ClientAssumption DEF PacketType, Bytes
    <3>2. P!AssemblePacketBuffer(d, buf, PacketType) \in WholeBuffers
      BY <1>2, <2>2, <3>1, Assembled
    <3>3. packet'.buffer = P!AssemblePacketBuffer(d, buf, PacketType) /\ packet'.via # "setters"
      BY <2>2
    <3> QED
      BY <3>2, <3>3 DEF PacketOf
  <2>3. /\ P!AllocateBuffer(PacketRoom) \in WholeBuffers
        /\ P!ClearBuffer(packet.buffer) \in WholeBuffers
    <3>1. PacketRoom \in Nat /\ packet.buffer.MaxSize_ \in Nat
      BY ClientAssumption, BufferParts DEF Inv, PacketOf
    <3> QED
      BY <3>1, Allocated DEF P!ClearBuffer
  <2>4. CASE packet' = LET d == P!AllocateBuffer(Len(buf) + P!BASICPACKETSIZE)
                           filled == P!SetData(P!SetType(P!SetSize(d, d.MaxSize_), PacketType), buf)
                       IN  [via |-> "setters", buffer |-> filled, data |-> buf]
    <3> DEFINE d == P!AllocateBuffer(Len(buf) + P!BASICPACKETSIZE)
               filled == P!SetData(P!SetType(P!SetSize(d, d.MaxSize_), PacketType), buf)
    <3>1. SetPacket(filled, buf)
      BY <1>2, SettersFill
    <3>2. packet' = [via |-> "setters", buffer |-> filled, data |-> buf]
      BY <2>4
    <3> HIDE DEF filled
    <3> QED
      BY <2>1, <3>1, <3>2
  <2>5. CASE packet' = LET d == IF packet.via = "assemble" THEN P!ClearBuffer(packet.buffer)
                                                           ELSE P!AllocateBuffer(PacketRoom)
                       IN  [via |-> "assemble", data |-> buf,
                            buffer |-> P!AssemblePacketBuffer(d, buf, PacketType)]
    <3> DEFINE d == IF packet.via = "assemble" THEN P!ClearBuffer(packet.buffer)
                                               ELSE P!AllocateBuffer(PacketRoom)
    <3>1. d \in WholeBuffers
      BY <2>3
    <3>2. packet' = [via |-> "assemble", data |-> buf,
                     buffer |-> P!AssemblePacketBuffer(d, buf, PacketType)]
      BY <2>5
    <3> HIDE DEF d
    <3> QED
      BY <2>2, <3>1, <3>2
  <2> QED
    BY <2>4, <2>5 DEF MakePacket
<1>4. Inv'
  BY <1>1, <1>2, <1>3 DEF Inv, Adding
<1> QED
  BY <1>1, <1>2, <1>4, KeptSame DEF buf

\* A reader receives the buffer, whole or not.
LEMMA ReceiveStep ==
  ASSUME Inv, Receive PROVE Inv' /\ Kept(buf, buf')
<1>1. /\ Call("receive", "") /\ root # NoRoot /\ UNCHANGED <<fbb, objects, adding, root, packet>>
  BY DEF Receive
<1>2. buf \in Seq(Bytes) /\ adding = <<>>
  <2>1. buf \in Seq(Bytes)
    BY BuilderParts DEF Inv, buf
  <2> QED
    BY <1>1, <2>1, OutsideTables
<1>3. received' \in Seq(Bytes)
  <2>1. CASE \E n \in 1 .. Len(buf) : received' = SubSeq(buf, 1, n)
    BY <1>2, <2>1
  <2>2. CASE \E i \in DOMAIN buf, x \in {0, 1, 8, Base - 2, Base - 1} :
               received' = [buf EXCEPT ![i] = x]
    <3>1. PICK i \in DOMAIN buf, x \in {0, 1, 8, Base - 2, Base - 1} :
            received' = [buf EXCEPT ![i] = x]
      BY <2>2
    <3>2. x \in Bytes
      BY VectorAssumption, ClientAssumption DEF Bytes
    <3> QED
      BY <1>2, <3>1, <3>2
  <2> QED
    BY <2>1, <2>2 DEF Receive
<1>4. Inv'
  BY <1>1, <1>2, <1>3 DEF Inv, Adding
<1> QED
  BY <1>1, <1>2, <1>4, KeptSame DEF buf

----------------------------------------------------------------------------
(* The verifier and the reader.                                            *)

\* A scalar of a buffer, read wherever it may be.
LEMMA ScalarRead ==
  ASSUME NEW bytes \in Seq(Bytes), NEW pos, NEW n \in {2, 4}
  PROVE  ReadScalar(bytes, pos, n) \in Nat /\ Signed(ReadBytes(bytes, pos, n)) \in Int
<1> DEFINE r == ReadBytes(bytes, pos, n)
           At(i) == IF pos + i \in DOMAIN bytes THEN bytes[pos + i] ELSE 0
<1>1. \A i \in 1 .. n : At(i) \in Bytes
  BY VectorAssumption DEF Bytes
<1>2. r = [i \in 1 .. n |-> At(i)]
  BY DEF ReadBytes
<1> HIDE DEF r, At
<1>3. Len(r) = n /\ \A i \in 1 .. n : r[i] \in Nat
  BY <1>1, <1>2 DEF Bytes
<1>4. \A x \in Nat, y \in Nat : x + Base * y \in Nat
  BY VectorAssumption
<1>5. Value(r) \in Nat
  <2>1. CASE n = 2
    BY <1>3, <1>4, <2>1 DEF Value
  <2>2. CASE n = 4
    <3>1. r[1] \in Nat /\ r[2] \in Nat /\ r[3] \in Nat /\ r[4] \in Nat
      BY <1>3, <2>2
    <3>2. r[3] + Base * r[4] \in Nat
      BY <1>4, <3>1
    <3>3. r[2] + Base * (r[3] + Base * r[4]) \in Nat
      BY <1>4, <3>1, <3>2
    <3>4. r[1] + Base * (r[2] + Base * (r[3] + Base * r[4])) \in Nat
      BY <1>4, <3>1, <3>3
    <3> QED
      BY <1>3, <2>2, <3>4 DEF Value
  <2> QED
    BY <2>1, <2>2
<1>6. Signed(r) \in Int
  <2> DEFINE place == Places[n + 1]
  <2>1. place \in Nat
    BY PlacesPositive
  <2>2. Signed(r) = IF 2 * Value(r) < place THEN Value(r) ELSE Value(r) - place
    BY <1>3 DEF Signed
  <2> HIDE DEF place
  <2> QED
    BY <1>5, <2>1, <2>2
<1> QED
  BY <1>5, <1>6 DEF r, ReadScalar

\* Where a table has its vtable, a field, and what a field refers to.
LEMMA TableRead ==
  ASSUME NEW bytes \in Seq(Bytes), NEW table \in Nat, NEW field
  PROVE  /\ GetVTable(bytes, table) \in Int
         /\ GetOptionalFieldOffset(bytes, table, field) \in Nat
         /\ Deref(bytes, table + GetOptionalFieldOffset(bytes, table, field)) \in Nat
         /\ GetPointer(bytes, table, field) \in Nat \cup {Null}
<1>1. 4 \in {2, 4} /\ 2 \in {2, 4}
  OBVIOUS
<1>2. GetVTable(bytes, table) \in Int
  BY <1>1, ScalarRead DEF GetVTable, uoffset
<1>3. GetOptionalFieldOffset(bytes, table, field) \in Nat
  BY <1>1, ScalarRead DEF GetOptionalFieldOffset, voffset
<1>4. Deref(bytes, table + GetOptionalFieldOffset(bytes, table, field)) \in Nat
  BY <1>1, <1>3, ScalarRead DEF Deref, uoffset
<1> QED
  BY <1>2, <1>3, <1>4 DEF GetPointer

\* What a vector refers to lies behind it.
LEMMA ReferenceRead ==
  ASSUME NEW bytes \in Seq(Bytes), NEW vec \in Nat, NEW i \in 0 .. VectorSize(bytes, vec) - 1
  PROVE  GetReference(bytes, vec, i) \in Nat /\ GetReference(bytes, vec, i) > vec
<1>1. 4 \in {2, 4}
  OBVIOUS
<1>2. VectorSize(bytes, vec) \in Nat
  BY <1>1, ScalarRead DEF VectorSize, uoffset
<1>3. i \in Nat
  BY <1>2
<1> DEFINE at == vec + 4 + i * 4
           r == ReadScalar(bytes, at, 4)
<1>4. GetReference(bytes, vec, i) = at + r
  BY DEF GetReference, Deref, ElementAt, uoffset
<1>5. r \in Nat
  BY <1>1, ScalarRead
<1> HIDE DEF r
<1> QED
  BY <1>3, <1>4, <1>5

\* The tables that a buffer may have.
TablePlaces == Nat \X DOMAIN Tables

\* The functions that the verifier and the reader compute.
VerifiedTables(bytes) ==
  LET tables[p \in Nat \X DOMAIN Tables] == TableVerifies(tables, bytes, p[1], p[2])
  IN  tables

ReadableTables(bytes) ==
  LET tables[p \in Nat \X DOMAIN Tables] == TableReadable(tables, bytes, p[1], p[2])
  IN  tables

\* U has all that T has.
Beyond(T, U) == \A s \in Nat, type \in DOMAIN Tables : T[<<s, type>>] => U[<<s, type>>]

\* With more tables, more verifies.
LEMMA VerifiesMore ==
  ASSUME NEW bytes \in Seq(Bytes), NEW T, NEW U, Beyond(T, U),
         NEW t \in Nat, NEW type \in DOMAIN Tables, TableVerifies(T, bytes, t, type)
  PROVE  TableVerifies(U, bytes, t, type)
<1>1. ASSUME NEW f, SchemaField(f), f.kind # "scalar", NEW target \in Nat \cup {Null},
             VerifyTarget(T, bytes, f, target)
      PROVE  VerifyTarget(U, bytes, f, target)
  <2>1. f.kind \in {"string", "table", "vector"}
    BY <1>1 DEF SchemaField
  <2>2. CASE target = Null
    BY <2>2 DEF VerifyTarget
  <2>3. CASE target # Null /\ f.kind = "string"
    <3>1. VerifyString(bytes, target)
      BY <1>1, <2>3 DEF VerifyTarget
    <3> QED
      BY <2>3, <3>1 DEF VerifyTarget
  <2>4. CASE target # Null /\ f.kind = "table"
    <3>1. T[<<target, f.of>>] /\ target \in Nat /\ f.of \in DOMAIN Tables
      BY <1>1, <2>4 DEF VerifyTarget, SchemaField
    <3>2. U[<<target, f.of>>]
      BY <3>1 DEF Beyond
    <3> QED
      BY <2>4, <3>2 DEF VerifyTarget
  <2>5. CASE target # Null /\ f.kind = "vector"
    <3>1. /\ VerifyVectorOrString(bytes, target, uoffset)
          /\ \A i \in 0 .. VectorSize(bytes, target) - 1 :
               IF f.of = "string" THEN VerifyString(bytes, GetReference(bytes, target, i))
               ELSE T[<<GetReference(bytes, target, i), f.of>>]
      BY <1>1, <2>5 DEF VerifyTarget
    <3>2. ASSUME NEW i \in 0 .. VectorSize(bytes, target) - 1, f.of # "string"
          PROVE  U[<<GetReference(bytes, target, i), f.of>>]
      <4>1. GetReference(bytes, target, i) \in Nat
        BY <2>5, ReferenceRead
      <4>2. f.of \in DOMAIN Tables
        BY <1>1, <2>5, <3>2 DEF SchemaField
      <4> QED
        BY <3>1, <3>2, <4>1, <4>2 DEF Beyond
    <3>3. \A i \in 0 .. VectorSize(bytes, target) - 1 :
            IF f.of = "string" THEN VerifyString(bytes, GetReference(bytes, target, i))
            ELSE U[<<GetReference(bytes, target, i), f.of>>]
      BY <3>1, <3>2
    <3> QED
      BY <2>5, <3>1, <3>3 DEF VerifyTarget
  <2> QED
    BY <2>1, <2>2, <2>3, <2>4, <2>5
<1>2. ASSUME NEW i \in DOMAIN FieldsOf(type)
      PROVE  LET f == FieldsOf(type)[i]
                 field == FieldIndexToOffset(i - 1)
             IN  IF f.kind = "scalar" THEN VerifyField(bytes, t, field, f.width)
                 ELSE /\ VerifyOffsetField(bytes, t, field, f.name \in Tables[type].required)
                      /\ VerifyTarget(U, bytes, f, GetPointer(bytes, t, field))
  <2> DEFINE f == FieldsOf(type)[i]
             field == FieldIndexToOffset(i - 1)
  <2>1. SchemaField(f) /\ GetPointer(bytes, t, field) \in Nat \cup {Null}
    BY SchemaFields, TableRead
  <2>2. IF f.kind = "scalar" THEN VerifyField(bytes, t, field, f.width)
        ELSE /\ VerifyOffsetField(bytes, t, field, f.name \in Tables[type].required)
             /\ VerifyTarget(T, bytes, f, GetPointer(bytes, t, field))
    BY DEF TableVerifies
  <2> HIDE DEF f, field
  <2>3. f.kind # "scalar" /\ VerifyTarget(T, bytes, f, GetPointer(bytes, t, field))
        => VerifyTarget(U, bytes, f, GetPointer(bytes, t, field))
    BY <1>1, <2>1
  <2>4. IF f.kind = "scalar" THEN VerifyField(bytes, t, field, f.width)
        ELSE /\ VerifyOffsetField(bytes, t, field, f.name \in Tables[type].required)
             /\ VerifyTarget(U, bytes, f, GetPointer(bytes, t, field))
    BY <2>2, <2>3
  <2> QED
    BY <2>4 DEF f, field
<1> QED
  BY <1>2 DEF TableVerifies

\* With more tables, more can be read.
LEMMA ReadsMore ==
  ASSUME NEW bytes \in Seq(Bytes), NEW T, NEW U, Beyond(T, U),
         NEW t \in Nat, NEW type \in DOMAIN Tables, TableReadable(T, bytes, t, type)
  PROVE  TableReadable(U, bytes, t, type)
<1>1. ASSUME NEW f, SchemaField(f), f.kind # "scalar", NEW target \in Nat,
             TargetReadable(T, bytes, f, target)
      PROVE  TargetReadable(U, bytes, f, target)
  <2>1. f.kind \in {"string", "table", "vector"}
    BY <1>1 DEF SchemaField
  <2>2. CASE f.kind = "string"
    BY <1>1, <2>2 DEF TargetReadable
  <2>3. CASE f.kind = "table"
    <3>1. T[<<target, f.of>>] /\ f.of \in DOMAIN Tables
      BY <1>1, <2>3 DEF TargetReadable, SchemaField
    <3>2. U[<<target, f.of>>]
      BY <3>1 DEF Beyond
    <3> QED
      BY <2>3, <3>2 DEF TargetReadable
  <2>4. CASE f.kind = "vector"
    <3>1. /\ InBuffer(bytes, target, uoffset)
          /\ InBuffer(bytes, target, uoffset * (1 + VectorSize(bytes, target)))
          /\ \A i \in 0 .. VectorSize(bytes, target) - 1 :
               IF f.of = "string" THEN StringReadable(bytes, GetReference(bytes, target, i))
               ELSE T[<<GetReference(bytes, target, i), f.of>>]
      BY <1>1, <2>4 DEF TargetReadable
    <3>2. ASSUME NEW i \in 0 .. VectorSize(bytes, target) - 1, f.of # "string"
          PROVE  U[<<GetReference(bytes, target, i), f.of>>]
      <4>1. GetReference(bytes, target, i) \in Nat
        BY ReferenceRead
      <4>2. f.of \in DOMAIN Tables
        BY <1>1, <2>4, <3>2 DEF SchemaField
      <4> QED
        BY <3>1, <3>2, <4>1, <4>2 DEF Beyond
    <3>3. \A i \in 0 .. VectorSize(bytes, target) - 1 :
            IF f.of = "string" THEN StringReadable(bytes, GetReference(bytes, target, i))
            ELSE U[<<GetReference(bytes, target, i), f.of>>]
      BY <3>1, <3>2
    <3> QED
      BY <2>4, <3>1, <3>3 DEF TargetReadable
  <2> QED
    BY <2>1, <2>2, <2>3, <2>4
<1>2. ASSUME NEW i \in DOMAIN FieldsOf(type)
      PROVE  LET f == FieldsOf(type)[i]
                 pointer == t + GetOptionalFieldOffset(bytes, t, FieldIndexToOffset(i - 1))
             IN  /\ SchemaField(f) /\ Deref(bytes, pointer) \in Nat
                 /\ f.kind # "scalar" /\ TargetReadable(T, bytes, f, Deref(bytes, pointer))
                    => TargetReadable(U, bytes, f, Deref(bytes, pointer))
  <2> DEFINE f == FieldsOf(type)[i]
             target ==
               Deref(bytes, t + GetOptionalFieldOffset(bytes, t, FieldIndexToOffset(i - 1)))
  <2>1. SchemaField(f) /\ target \in Nat
    BY SchemaFields, TableRead
  <2> HIDE DEF f, target
  <2>2. f.kind # "scalar" /\ TargetReadable(T, bytes, f, target)
        => TargetReadable(U, bytes, f, target)
    BY <1>1, <2>1
  <2> QED
    BY <2>1, <2>2 DEF f, target
<1> QED
  BY <1>2 DEF TableReadable

\* A monotone function on the subsets of a set has a fixed point.
LEMMA FixedPoint ==
  ASSUME NEW X, NEW step \in [SUBSET X -> SUBSET X],
         \A S, U \in SUBSET X : S \subseteq U => step[S] \subseteq step[U]
  PROVE  \E G \in SUBSET X : step[G] = G
<1> DEFINE Grown == {S \in SUBSET X : S \subseteq step[S]}
           G == UNION Grown
<1>1. G \in SUBSET X /\ step[G] \in SUBSET X
  OBVIOUS
<1>2. \A S \in Grown : S \in SUBSET X /\ S \subseteq G /\ S \subseteq step[S]
  OBVIOUS
<1> HIDE DEF G
<1>3. \A S \in Grown : S \subseteq step[G]
  <2> SUFFICES ASSUME NEW S \in Grown PROVE S \subseteq step[G]
    OBVIOUS
  <2>1. step[S] \subseteq step[G] /\ S \subseteq step[S]
    BY <1>1, <1>2
  <2> QED
    BY <2>1
<1>4. G \subseteq step[G]
  BY <1>3 DEF G
<1>5. step[G] \in Grown
  <2>1. step[G] \subseteq step[step[G]]
    BY <1>1, <1>4
  <2> QED
    BY <1>1, <2>1
<1>6. step[G] \subseteq G
  BY <1>5 DEF G
<1> QED
  BY <1>1, <1>4, <1>6

\* The function of a set of tables.
Marked(S) == [p \in TablePlaces |-> p \in S]

\* A greater set marks more.
LEMMA MarkedMore ==
  ASSUME NEW S, NEW U, S \subseteq U
  PROVE  Beyond(Marked(S), Marked(U))
<1> SUFFICES ASSUME NEW s \in Nat, NEW type \in DOMAIN Tables, Marked(S)[<<s, type>>]
             PROVE  Marked(U)[<<s, type>>]
  BY DEF Beyond
<1>1. <<s, type>> \in TablePlaces
  BY DEF TablePlaces
<1>2. <<s, type>> \in S
  BY <1>1 DEF Marked
<1> QED
  BY <1>1, <1>2 DEF Marked

\* The parts of the place of a table.
LEMMA PlaceParts ==
  ASSUME NEW p \in TablePlaces
  PROVE  p[1] \in Nat /\ p[2] \in DOMAIN Tables
BY DEF TablePlaces

\* The function that the verifier computes exists.
LEMMA VerifierExists ==
  ASSUME NEW bytes \in Seq(Bytes)
  PROVE  VerifiedTables(bytes) =
           [p \in TablePlaces |-> TableVerifies(VerifiedTables(bytes), bytes, p[1], p[2])]
<1> DEFINE Now(S) == {p \in TablePlaces : TableVerifies(Marked(S), bytes, p[1], p[2])}
           step == [S \in SUBSET TablePlaces |-> Now(S)]
<1>1. ASSUME NEW S, NEW U, S \subseteq U PROVE Now(S) \subseteq Now(U)
  <2> SUFFICES ASSUME NEW p \in Now(S) PROVE p \in Now(U)
    OBVIOUS
  <2>1. p \in TablePlaces /\ TableVerifies(Marked(S), bytes, p[1], p[2])
    OBVIOUS
  <2>2. TableVerifies(Marked(U), bytes, p[1], p[2])
    BY <1>1, <2>1, PlaceParts, MarkedMore, VerifiesMore
  <2> QED
    BY <2>1, <2>2
<1>2. \A S : Now(S) \in SUBSET TablePlaces
  OBVIOUS
<1>3. PICK G \in SUBSET TablePlaces : step[G] = G
  <2> HIDE DEF Now
  <2>1. step \in [SUBSET TablePlaces -> SUBSET TablePlaces]
    BY <1>2
  <2>2. \A S, U \in SUBSET TablePlaces : S \subseteq U => step[S] \subseteq step[U]
    BY <1>1
  <2> HIDE DEF step
  <2> QED
    BY <2>1, <2>2, FixedPoint
<1> DEFINE V == Marked(G)
           In(p) == p \in G
           Is(p) == TableVerifies(V, bytes, p[1], p[2])
<1>4. ASSUME NEW p \in TablePlaces PROVE In(p) = Is(p)
  <2>1. In(p) \in BOOLEAN /\ Is(p) \in BOOLEAN
    BY DEF TableVerifies
  <2>2. In(p) <=> Is(p)
    BY <1>3
  <2> HIDE DEF In, Is
  <2> QED
    BY <2>1, <2>2
<1>5. V = [p \in TablePlaces |-> In(p)]
  BY DEF Marked
<1>6. V = [p \in TablePlaces |-> TableVerifies(V, bytes, p[1], p[2])]
  <2> HIDE DEF V, In, Is
  <2>1. V = [p \in TablePlaces |-> Is(p)]
    BY <1>4, <1>5
  <2> QED
    BY <2>1 DEF Is
<1> HIDE DEF V
<1> QED
  BY <1>6 DEF VerifiedTables, TablePlaces

\* The function that says what can be read exists.
LEMMA ReaderExists ==
  ASSUME NEW bytes \in Seq(Bytes)
  PROVE  ReadableTables(bytes) =
           [p \in TablePlaces |-> TableReadable(ReadableTables(bytes), bytes, p[1], p[2])]
<1> DEFINE Now(S) == {p \in TablePlaces : TableReadable(Marked(S), bytes, p[1], p[2])}
           step == [S \in SUBSET TablePlaces |-> Now(S)]
<1>1. ASSUME NEW S, NEW U, S \subseteq U PROVE Now(S) \subseteq Now(U)
  <2> SUFFICES ASSUME NEW p \in Now(S) PROVE p \in Now(U)
    OBVIOUS
  <2>1. p \in TablePlaces /\ TableReadable(Marked(S), bytes, p[1], p[2])
    OBVIOUS
  <2>2. TableReadable(Marked(U), bytes, p[1], p[2])
    BY <1>1, <2>1, PlaceParts, MarkedMore, ReadsMore
  <2> QED
    BY <2>1, <2>2
<1>2. \A S : Now(S) \in SUBSET TablePlaces
  OBVIOUS
<1>3. PICK G \in SUBSET TablePlaces : step[G] = G
  <2> HIDE DEF Now
  <2>1. step \in [SUBSET TablePlaces -> SUBSET TablePlaces]
    BY <1>2
  <2>2. \A S, U \in SUBSET TablePlaces : S \subseteq U => step[S] \subseteq step[U]
    BY <1>1
  <2> HIDE DEF step
  <2> QED
    BY <2>1, <2>2, FixedPoint
<1> DEFINE R == Marked(G)
           In(p) == p \in G
           Is(p) == TableReadable(R, bytes, p[1], p[2])
<1>4. ASSUME NEW p \in TablePlaces PROVE In(p) = Is(p)
  <2>1. In(p) \in BOOLEAN /\ Is(p) \in BOOLEAN
    BY DEF TableReadable
  <2>2. In(p) <=> Is(p)
    BY <1>3
  <2> HIDE DEF In, Is
  <2> QED
    BY <2>1, <2>2
<1>5. R = [p \in TablePlaces |-> In(p)]
  BY DEF Marked
<1>6. R = [p \in TablePlaces |-> TableReadable(R, bytes, p[1], p[2])]
  <2> HIDE DEF R, In, Is
  <2>1. R = [p \in TablePlaces |-> Is(p)]
    BY <1>4, <1>5
  <2> QED
    BY <2>1 DEF Is
<1> HIDE DEF R
<1> QED
  BY <1>6 DEF ReadableTables, TablePlaces

\* What the verifier checks lies in the buffer.
LEMMA VerifiedInside ==
  ASSUME NEW bytes \in Seq(Bytes), NEW elem \in Int, NEW n \in Nat, Verify(bytes, elem, n)
  PROVE  InBuffer(bytes, elem, n)
<1> DEFINE l == Len(bytes)
<1>1. l \in Nat /\ elem >= 0 /\ elem <= l - n
  BY DEF Verify
<1> HIDE DEF l
<1>2. elem >= 0 /\ elem + n <= l
  BY <1>1
<1> QED
  BY <1>2 DEF InBuffer, l

\* A string that verifies can be read, with its terminator.
LEMMA StringReads ==
  ASSUME NEW bytes \in Seq(Bytes), NEW str \in Nat, VerifyString(bytes, str)
  PROVE  StringReadable(bytes, str)
<1> DEFINE n == VectorSize(bytes, str)
           l == Len(bytes)
<1>1. n \in Nat
  BY ScalarRead DEF VectorSize, uoffset
<1>2. Verify(bytes, str, 4) /\ Verify(bytes, str + 4 + n * 1, 1)
  BY DEF VerifyString, VerifyVectorOrString, VerifyScalar, ElementAt, uoffset
<1> HIDE DEF n
<1>3. InBuffer(bytes, str, 4) /\ InBuffer(bytes, str + 4 + n * 1, 1)
  <2>1. 4 \in Nat /\ 1 \in Nat /\ str \in Int /\ str + 4 + n * 1 \in Int
    BY <1>1
  <2> QED
    BY <1>2, <2>1, VerifiedInside
<1>4. InBuffer(bytes, str, 4 + n + 1)
  <2>1. str + 4 + n * 1 + 1 <= l /\ str >= 0 /\ l \in Nat
    BY <1>3 DEF InBuffer
  <2> HIDE DEF l
  <2>2. str + (4 + n + 1) <= l
    BY <1>1, <2>1
  <2> QED
    BY <2>1, <2>2 DEF InBuffer, l
<1> QED
  BY <1>3, <1>4 DEF StringReadable, uoffset, n

\* Of the tables behind place t, U has all that T has.
Behind(T, U, t) ==
  \A s \in Nat, type \in DOMAIN Tables : s > t /\ T[<<s, type>>] => U[<<s, type>>]

\* What a field of a table that verifies refers to can be read, if the tables behind
\* it can.
LEMMA TargetReads ==
  ASSUME NEW bytes \in Seq(Bytes), NEW T, NEW U, NEW t \in Nat, Behind(T, U, t),
         NEW f, SchemaField(f), f.kind # "scalar",
         NEW target \in Nat, target > t, VerifyTarget(T, bytes, f, target)
  PROVE  TargetReadable(U, bytes, f, target)
<1>1. f.kind \in {"string", "table", "vector"} /\ target # Null
  BY DEF SchemaField, Null
<1>2. CASE f.kind = "string"
  <2>1. VerifyString(bytes, target)
    BY <1>1, <1>2 DEF VerifyTarget
  <2>2. StringReadable(bytes, target)
    BY <2>1, StringReads
  <2> QED
    BY <1>2, <2>2 DEF TargetReadable
<1>3. CASE f.kind = "table"
  <2>1. T[<<target, f.of>>] /\ f.of \in DOMAIN Tables
    BY <1>1, <1>3 DEF VerifyTarget, SchemaField
  <2>2. U[<<target, f.of>>]
    BY <2>1 DEF Behind
  <2> QED
    BY <1>3, <2>2 DEF TargetReadable
<1>4. CASE f.kind = "vector"
  <2> DEFINE n == VectorSize(bytes, target)
             At(i) == GetReference(bytes, target, i)
  <2>1. /\ VerifyVectorOrString(bytes, target, 4)
        /\ \A i \in 0 .. n - 1 : IF f.of = "string" THEN VerifyString(bytes, At(i))
                                                    ELSE T[<<At(i), f.of>>]
    BY <1>1, <1>4 DEF VerifyTarget, uoffset
  <2>2. n \in Nat
    BY ScalarRead DEF VectorSize, uoffset
  <2>3. \A i \in 0 .. n - 1 : At(i) \in Nat /\ At(i) > target
    BY ReferenceRead
  <2>4. Verify(bytes, target, 4) /\ Verify(bytes, target, 4 + 4 * n)
    BY <2>1 DEF VerifyVectorOrString, VerifyScalar, uoffset
  <2> HIDE DEF n, At
  <2>5. InBuffer(bytes, target, 4) /\ InBuffer(bytes, target, 4 * (1 + n))
    <3>1. target \in Int /\ 4 \in Nat /\ 4 + 4 * n \in Nat /\ 4 * (1 + n) = 4 + 4 * n
      BY <2>2
    <3> HIDE DEF n
    <3>2. InBuffer(bytes, target, 4) /\ InBuffer(bytes, target, 4 + 4 * n)
      BY <2>4, <3>1, VerifiedInside
    <3> QED
      BY <3>1, <3>2
  <2>6. ASSUME NEW i \in 0 .. n - 1
        PROVE  IF f.of = "string" THEN StringReadable(bytes, At(i)) ELSE U[<<At(i), f.of>>]
    <3>1. At(i) \in Nat /\ At(i) > t
      BY <2>3
    <3>2. CASE f.of = "string"
      BY <2>1, <3>1, <3>2, StringReads
    <3>3. CASE f.of # "string"
      <4>1. f.of \in DOMAIN Tables /\ T[<<At(i), f.of>>]
        BY <1>4, <2>1, <3>3 DEF SchemaField
      <4>2. U[<<At(i), f.of>>]
        BY <3>1, <4>1 DEF Behind
      <4> QED
        BY <3>3, <4>2
    <3> QED
      BY <3>2, <3>3
  <2> QED
    BY <1>4, <2>5, <2>6 DEF TargetReadable, uoffset, n, At
<1> QED
  BY <1>1, <1>2, <1>3, <1>4

\* A table that verifies can be read, if the tables behind it can.
LEMMA TableReads ==
  ASSUME NEW bytes \in Seq(Bytes), NEW T, NEW U, NEW t \in Nat, Behind(T, U, t),
         NEW type \in DOMAIN Tables, TableVerifies(T, bytes, t, type)
  PROVE  TableReadable(U, bytes, t, type)
<1> DEFINE vtable == GetVTable(bytes, t)
           n == ReadScalar(bytes, vtable, 2)
           l == Len(bytes)
<1>1. VerifyTableStart(bytes, t) /\ l \in Nat
  BY DEF TableVerifies
<1>2. vtable \in Int /\ n \in Nat
  BY TableRead, ScalarRead
<1>3. /\ Verify(bytes, t, 4) /\ Verify(bytes, vtable, 2) /\ n % 2 = 0 /\ Verify(bytes, vtable, n)
  BY <1>1 DEF VerifyTableStart, VerifyScalar, VerifyAlignment, uoffset, voffset
<1> HIDE DEF vtable, n
<1>4. InBuffer(bytes, t, 4) /\ InBuffer(bytes, vtable, 2) /\ InBuffer(bytes, vtable, n)
  BY <1>2, <1>3, VerifiedInside
<1>5. ASSUME NEW i \in DOMAIN FieldsOf(type), FieldIndexToOffset(i - 1) < n
      PROVE  InBuffer(bytes, vtable + FieldIndexToOffset(i - 1), 2)
  <2>1. i \in Nat /\ FieldIndexToOffset(i - 1) = 2 * (i + 1)
    BY SchemaFields DEF FieldIndexToOffset, voffset
  <2>2. 2 * (i + 1) + 2 <= n
    BY <1>2, <1>3, <1>5, <2>1
  <2>3. vtable >= 0 /\ vtable + n <= l
    BY <1>4 DEF InBuffer
  <2> HIDE DEF l
  <2>4. vtable + 2 * (i + 1) >= 0 /\ vtable + 2 * (i + 1) + 2 <= l
    BY <1>1, <1>2, <2>1, <2>2, <2>3
  <2> QED
    BY <2>1, <2>4 DEF InBuffer, l
<1>6. ASSUME NEW i \in DOMAIN FieldsOf(type),
             CheckField(bytes, t, FieldIndexToOffset(i - 1))
      PROVE  LET f == FieldsOf(type)[i]
                 pointer == t + GetOptionalFieldOffset(bytes, t, FieldIndexToOffset(i - 1))
             IN  /\ InBuffer(bytes, pointer, f.width)
                 /\ f.kind # "scalar" => TargetReadable(U, bytes, f, Deref(bytes, pointer))
  <2> DEFINE f == FieldsOf(type)[i]
             field == FieldIndexToOffset(i - 1)
             pointer == t + GetOptionalFieldOffset(bytes, t, field)
             target == Deref(bytes, pointer)
             required == f.name \in Tables[type].required
  <2>1. SchemaField(f) /\ f.width \in Nat
    BY SchemaFields DEF SchemaField
  <2>2. pointer \in Nat /\ pointer >= t /\ target \in Nat
    <3>1. GetOptionalFieldOffset(bytes, t, field) \in Nat /\ target \in Nat
      BY TableRead
    <3> QED
      BY <3>1
  <2>3. IF f.kind = "scalar" THEN VerifyField(bytes, t, field, f.width)
        ELSE /\ VerifyOffsetField(bytes, t, field, required)
             /\ VerifyTarget(T, bytes, f, GetPointer(bytes, t, field))
    BY DEF TableVerifies
  <2>4. CheckField(bytes, t, field)
    BY <1>6
  <2>5. VerifyField(bytes, t, field, f.width) => Verify(bytes, pointer, f.width)
    BY <2>4 DEF VerifyField
  <2>6. VerifyOffsetField(bytes, t, field, required) => VerifyOffset(bytes, pointer)
    BY <2>4 DEF VerifyOffsetField
  <2>7. GetPointer(bytes, t, field) = target
    BY <2>4 DEF GetPointer
  <2>8. VerifyOffset(bytes, pointer) => /\ Verify(bytes, pointer, 4)
                                        /\ ReadScalar(bytes, pointer, 4) >= 1
    BY ScalarRead DEF VerifyOffset, VerifyScalar, uoffset
  <2>9. target = pointer + ReadScalar(bytes, pointer, 4) /\ ReadScalar(bytes, pointer, 4) \in Nat
    BY ScalarRead DEF Deref, uoffset
  <2> HIDE DEF f, field, pointer, target, required
  <2>10. CASE f.kind = "scalar"
    <3>1. Verify(bytes, pointer, f.width)
      BY <2>3, <2>5, <2>10
    <3>2. InBuffer(bytes, pointer, f.width)
      BY <2>1, <2>2, <3>1, VerifiedInside
    <3> QED
      BY <2>10, <3>2 DEF f, field, pointer
  <2>11. CASE f.kind # "scalar"
    <3>1. VerifyOffset(bytes, pointer) /\ VerifyTarget(T, bytes, f, target)
      BY <2>3, <2>6, <2>7, <2>11
    <3>2. f.width = 4 /\ 4 \in Nat /\ Verify(bytes, pointer, 4)
      BY <2>1, <2>8, <2>11, <3>1 DEF SchemaField
    <3>3. InBuffer(bytes, pointer, f.width)
      BY <2>2, <3>2, VerifiedInside
    <3>4. target > t
      <4> DEFINE r == ReadScalar(bytes, pointer, 4)
      <4>1. target = pointer + r /\ r \in Nat /\ r >= 1
        BY <2>8, <2>9, <3>1
      <4> HIDE DEF r
      <4> QED
        BY <2>2, <4>1
    <3>5. TargetReadable(U, bytes, f, target)
      BY <2>1, <2>2, <2>11, <3>1, <3>4, TargetReads
    <3> QED
      BY <3>3, <3>5 DEF f, field, pointer, target
  <2> QED
    BY <2>10, <2>11
<1> QED
  BY <1>4, <1>5, <1>6 DEF TableReadable, vtable, n, uoffset, voffset

\* Of any bytes, every table that verifies can be read.
LEMMA VerifiedReads ==
  ASSUME NEW bytes \in Seq(Bytes), NEW t \in Nat, NEW type \in DOMAIN Tables,
         VerifyTable(bytes, t, type)
  PROVE  Readable(bytes, t, type)
<1> DEFINE V == VerifiedTables(bytes)
           R == ReadableTables(bytes)
           l == Len(bytes)
           bad == {s \in Nat : \E of \in DOMAIN Tables : V[<<s, of>>] /\ ~R[<<s, of>>]}
           left == {l - s : s \in bad}
<1>1. ASSUME NEW s \in Nat, NEW of \in DOMAIN Tables
      PROVE  /\ V[<<s, of>>] = TableVerifies(V, bytes, s, of)
             /\ R[<<s, of>>] = TableReadable(R, bytes, s, of)
  <2>1. <<s, of>> \in TablePlaces /\ <<s, of>>[1] = s /\ <<s, of>>[2] = of
    BY DEF TablePlaces
  <2>2. V = [p \in TablePlaces |-> TableVerifies(V, bytes, p[1], p[2])]
    BY VerifierExists
  <2>3. R = [p \in TablePlaces |-> TableReadable(R, bytes, p[1], p[2])]
    BY ReaderExists
  <2> HIDE DEF V, R
  <2> QED
    BY <2>1, <2>2, <2>3
<1>2. V[<<t, type>>] /\ (R[<<t, type>>] = Readable(bytes, t, type))
  BY DEF VerifyTable, Readable, VerifiedTables, ReadableTables
<1> HIDE DEF V, R
<1>3. l \in Nat
  OBVIOUS
<1>4. ASSUME NEW s \in bad PROVE l - s \in Nat /\ s \in Nat
  <2>1. PICK of \in DOMAIN Tables : V[<<s, of>>]
    OBVIOUS
  <2>2. s \in Nat /\ VerifyTableStart(bytes, s)
    BY <1>1, <2>1 DEF TableVerifies
  <2>3. Verify(bytes, s, 4)
    BY <2>2 DEF VerifyTableStart, VerifyScalar, uoffset
  <2>4. s + 4 <= l
    <3>1. InBuffer(bytes, s, 4)
      BY <2>2, <2>3, VerifiedInside
    <3> QED
      BY <3>1 DEF InBuffer
  <2> HIDE DEF l, bad
  <2> QED
    BY <1>3, <2>2, <2>4
<1>5. bad = {}
  <2> SUFFICES ASSUME bad # {} PROVE FALSE
    OBVIOUS
  <2> HIDE DEF bad, l
  <2>1. left \subseteq Nat /\ left # {}
    BY <1>4
  <2> HIDE DEF left
  <2>2. PICK m \in left : \A k \in left : m <= k
    BY <2>1, SmallestMember
  <2>3. PICK s \in bad : m = l - s
    BY DEF left
  <2>4. s \in Nat
    BY <1>4
  <2>5. ASSUME NEW r \in Nat, r > s PROVE r \notin bad
    <3> SUFFICES ASSUME r \in bad PROVE FALSE
      OBVIOUS
    <3>1. l - r \in left
      BY DEF left
    <3>2. l - s <= l - r
      BY <2>2, <2>3, <3>1
    <3> QED
      BY <1>3, <2>4, <2>5, <3>2
  <2>6. Behind(V, R, s)
    BY <2>5 DEF Behind, bad
  <2>7. PICK of \in DOMAIN Tables : V[<<s, of>>] /\ ~R[<<s, of>>]
    BY DEF bad
  <2>8. TableVerifies(V, bytes, s, of)
    BY <1>1, <2>4, <2>7
  <2>9. TableReadable(R, bytes, s, of)
    BY <2>4, <2>6, <2>8, TableReads
  <2> QED
    BY <1>1, <2>4, <2>7, <2>9
<1>6. R[<<t, type>>]
  BY <1>2, <1>5
<1> QED
  BY <1>2, <1>6

----------------------------------------------------------------------------
(* Every step.                                                             *)

\* A step, or none, keeps the invariant, and writes as Stays says.
LEMMA NextStep ==
  ASSUME Inv, [Next]_vars PROVE Inv' /\ Stays
<1>1. CASE UNCHANGED vars
  <2>1. UNCHANGED <<fbb, objects, adding, todo, root, packet, received>>
    BY <1>1 DEF vars
  <2>2. buf \in Seq(Bytes) /\ buf' = buf
    BY <2>1, BuilderParts DEF Inv, buf
  <2>3. Inv'
    BY <2>1 DEF Inv
  <2> QED
    BY <2>2, <2>3, KeptSame DEF Stays
<1>2. CASE \/ String \/ SharedString \/ Struct \/ VectorOfStrings \/ SortedVector \/ Direct
           \/ Create \/ Scalars \/ Structs \/ UninitializedStructs \/ AlignedVector
           \/ StartTestInfo \/ AddName \/ AddLevel \/ FinishTestInfo
           \/ Settings \/ MoveBuilder \/ FinishBuffer \/ MakePacket \/ Receive
  <2>1. Inv' /\ Kept(buf, buf')
    BY <1>2, StringStep, SharedStep, StructStep, StringsStep, SortedStep, DirectStep, CreateStep,
       VectorStep, StartStep, AddStep, FinishTableStep, SetStep, FinishStep, PacketStep, ReceiveStep
  <2> QED
    BY <2>1 DEF Stays
<1>3. CASE Mutate
  BY <1>3, MutateStep DEF Stays
<1>4. CASE MutateVector
  BY <1>4, MutateVectorStep DEF Stays
<1>5. CASE ClearBuilder
  BY <1>5, ClearStep DEF Stays
<1> QED
  BY <1>1, <1>2, <1>3, <1>4, <1>5 DEF Next

\* The invariant holds of every client.
THEOREM ClientInvariant ==
  Spec => []Inv
<1>1. Init => Inv
  BY InitInv
<1>2. Inv /\ [Next]_vars => Inv'
  BY NextStep
<1> QED
  BY <1>1, <1>2, PTL DEF Spec

\* Whatever the script, the data are bytes, the alignment is one of the code's, a
\* table is open exactly while fields are added, objects are in the data, and the
\* fields of the open table are on the scratch pad.
THEOREM FlatTypes ==
  Spec => []TypeOK
<1>1. ASSUME Inv PROVE TypeOK
  <2>1. fbb \in GoodBuilders /\ fbb.minalign_ \in 1 .. 16 /\ buf \in Seq(Bytes)
    BY <1>1, BuilderParts DEF Inv, buf
  <2>2. ToSet(buf) \subseteq Bytes
    <3>1. \A i \in DOMAIN buf : buf[i] \in Bytes
      BY <2>1
    <3> QED
      BY <3>1 DEF ToSet
  <2>3. Len(fbb.buf_.scratch) >= 2 * fbb.num_field_loc
    BY <2>1 DEF GoodBuilders
  <2>4. fbb.nested = (adding # <<>>) /\ DOMAIN objects \subseteq 1 .. GetSize(fbb)
    BY <1>1 DEF Inv, Remembered
  <2> QED
    BY <2>1, <2>2, <2>3, <2>4 DEF TypeOK, MaxAlignment
<1> QED
  BY <1>1, ClientInvariant, PTL

\* Whatever is made in whatever order, the data and the scratch pad never meet.
THEOREM ScratchStaysBelow ==
  Spec => []ScratchBelowData
<1>1. ASSUME Inv PROVE ScratchBelowData
  <2>1. fbb.buf_ \in SoundVectors
    BY <1>1, BuilderParts DEF Inv
  <2> QED
    BY <2>1 DEF SoundVectors, ScratchBelowData
<1> QED
  BY <1>1, ClientInvariant, PTL

\* Whatever has been written stays where it is, but for what Mutate writes, until
\* the builder is emptied.
THEOREM WrittenIsKept ==
  Spec => WrittenStays
<1>1. Inv /\ [Next]_vars => [Stays]_vars
  BY NextStep
<1>2. Inv /\ [Next]_vars
      => [\/ Kept(buf, buf')
          \/ (Mutate \/ MutateVector) /\ Len(buf') = Len(buf)
          \/ ClearBuilder /\ buf' = <<>>]_vars
  BY <1>1 DEF Stays
<1> QED
  BY <1>2, ClientInvariant, PTL DEF Spec, WrittenStays

\* Whatever the data and the room, assembling a packet writes inside of its block.
THEOREM PacketsStayInside ==
  Spec => []PacketInside
<1>1. ASSUME Inv PROVE PacketInside
  BY <1>1, BufferParts DEF Inv, PacketOf, PacketInside
<1> QED
  BY <1>1, ClientInvariant, PTL

\* A packet made with the setters from any finished buffer is read back by the
\* getters, if its size fits in two bytes.
THEOREM PacketsReadBack ==
  Spec => []PacketReadsBack
<1>1. ASSUME Inv PROVE PacketReadsBack
  <2>1. ASSUME packet.via = "setters", packet.buffer.MaxSize_ < Base * Base
        PROVE  /\ P!GetSize(packet.buffer) = packet.buffer.MaxSize_
               /\ P!GetType(packet.buffer) = PacketType
               /\ P!GetFlatData(packet.buffer, Len(packet.data)) = packet.data
    <3>1. SetPacket(packet.buffer, packet.data)
      BY <1>1, <2>1 DEF Inv, PacketOf
    <3> QED
      BY <2>1, <3>1, SetPacketReadsBack
  <2> QED
    BY <2>1 DEF PacketReadsBack
<1> QED
  BY <1>1, ClientInvariant, PTL

\* Whatever of a finished buffer is cut off or damaged on its way, a buffer that
\* Verify accepts is read without leaving it.
THEOREM VerifiedCanBeRead ==
  Spec => []VerifiedIsReadable
<1>1. ASSUME Inv PROVE VerifiedIsReadable
  <2> DEFINE start == Prefix(root.prefixed)
             table == GetRoot(received, start)
  <2>1. SUFFICES ASSUME received # <<>>,
                        VerifyBuffer(received, root.type, root.identifier, root.prefixed)
                 PROVE  Readable(received, table, root.type)
    BY DEF VerifiedIsReadable
  <2>2. received \in Seq(Bytes) /\ root.type \in DOMAIN Tables
    BY <1>1, <2>1 DEF Inv, RootOf
  <2>3. start \in Nat
    BY DEF Prefix, uoffset
  <2> HIDE DEF start
  <2>4. table \in Nat
    BY <2>2, <2>3, ScalarRead DEF GetRoot, Deref, uoffset
  <2>5. VerifyTable(received, table, root.type)
    BY <2>1 DEF VerifyBuffer, VerifyBufferFromStart, start
  <2> HIDE DEF table
  <2> QED
    BY <2>2, <2>4, <2>5, VerifiedReads
<1> QED
  BY <1>1, ClientInvariant, PTL

----------------------------------------------------------------------------
(* The client.                                                             *)

\* The tags reach up to the table that is being built.
TaggedUpTo(b, a) == IF a = <<>> THEN GetSize(b) ELSE a[1].start

\* Everything the client remembers is where it remembers it.
AllLaid(d, W, objs) == \A off \in DOMAIN objs : ObjectLaid(d, W, off, objs[off])

\* The TestInfo that is being built has what was added to it.
InBuilding(b, W, start, name, level) ==
  /\ level \in Seq(Bytes) /\ Len(level) = 4
  /\ \E V, args, done :
       /\ InTable(b, V, start, "TestInfo", args, done) /\ LeftOut("TestInfo", args, done)
       /\ Means(b, W, "TestInfo", args, [name |-> name, level |-> level])
       /\ (name = <<>> => 1 \notin done) /\ (level = Scalar(0, 4) => 2 \notin done)

\* The bytes have tags by which everything is there.
Laid(b, objs, a) ==
  \E W \in [1 .. TaggedUpTo(b, a) -> Tags] :
    /\ VTables(b, W) /\ AllLaid(b.buf_.data, W, objs)
    /\ a # <<>> => InBuilding(b, W, a[1].start, a[1].name, a[1].level)

\* Objects are of the kinds that are made; those of the pool are strings, and the
\* root is of its type.
KindsKnown(b, objs, r) ==
  /\ \A off \in DOMAIN objs : objs[off].kind \in Kinds
  /\ ~b.finished => \A off \in b.string_pool : objs[off].kind = "string"
  /\ r # NoRoot => objs[r.off].of = r.type

\* Outside of tables no field has been seen.
NoField(b, a) == a = <<>> => b.max_voffset_ = 0

\* Of a builder whose data is no larger than a buffer may be, everything is there.
LaidInv ==
  /\ KindsKnown(fbb, objects, root) /\ NoField(fbb, adding)
  /\ Len(buf) <= MaxBufferSize => Laid(fbb, objects, adding)

\* Everything stays when bytes are put before the data.
LEMMA AllStay ==
  ASSUME NEW d \in Seq(Bytes), NEW e \in Seq(Bytes), Kept(d, e), NEW n \in Nat, NEW m \in Nat,
         n <= m, NEW W \in [1 .. n -> Tags], NEW X, Extends(W, n, X, m),
         NEW objs, \A off \in DOMAIN objs : objs[off].kind \in Kinds, AllLaid(d, W, objs)
  PROVE  AllLaid(e, X, objs)
<1> SUFFICES ASSUME NEW off \in DOMAIN objs PROVE ObjectLaid(e, X, off, objs[off])
  BY DEF AllLaid
<1>1. ObjectLaid(d, W, off, objs[off]) /\ objs[off].kind \in Kinds
  BY DEF AllLaid
<1>2. ASSUME NEW t \in TagsOf(off) PROVE Own(W, t) \subseteq Own(X, t) /\ Agree(d, e, Own(W, t))
  BY ExtendsOwn, KeptAgrees
<1>3. Stay(d, e, W, X, off)
  BY <1>2 DEF Stay
<1> HIDE DEF ObjectLaid, Stay
<1>4. objs[off].kind \in {"string", "strings", "elements", "struct", "sorted", "table"}
  BY <1>1 DEF Kinds
<1> QED
  BY <1>1, <1>3, <1>4, ObjectOn

\* With one more object that is there, everything is.
LEMMA WithLaid ==
  ASSUME NEW e, NEW X, AllLaid(e, X, objects), NEW off, NEW o, ObjectLaid(e, X, off, o)
  PROVE  AllLaid(e, X, With(off, o))
<1> HIDE DEF ObjectLaid
<1> QED
  BY DEF AllLaid, With

\* Where everything is there, c has an object more.
LaysHere(b, objs, c, o) ==
  \A W \in [1 .. GetSize(b) -> Tags] :
    Len(c.buf_.data) <= MaxBufferSize /\ VTables(b, W) /\ AllLaid(b.buf_.data, W, objs)
      => LaysOver(W, GetSize(b), c, o)

\* A call that makes an object which is there keeps everything.
LEMMA MadeLays ==
  ASSUME Inv, LaidInv, adding = <<>>, NEW b \in GoodBuilders, Kept(buf, b.buf_.data),
         NEW kind \in Kinds, NEW of, NEW value, Made(b, kind, of, value),
         b.max_voffset_ = 0, b.finished = fbb.finished,
         ~b.finished => \A off \in b.string_pool :
                          \/ off \in fbb.string_pool /\ off # b.result
                          \/ off = b.result /\ kind = "string",
         root # NoRoot => b.result # root.off,
         LaysHere(fbb, objects, b, Item(kind, of, value))
  PROVE  LaidInv'
<1> DEFINE o == Item(kind, of, value)
<1>1. /\ fbb' = b /\ objects' = With(b.result, o) /\ UNCHANGED <<adding, root>>
  BY DEF Made, Item
<1>2. fbb \in GoodBuilders /\ buf \in Seq(Bytes) /\ b.buf_.data \in Seq(Bytes)
  BY BuilderParts DEF Inv, buf
<1>3. o.kind = kind /\ o.of = of /\ o.value = value
  BY DEF Item
<1> HIDE DEF o
<1>4. /\ DOMAIN With(b.result, o) = DOMAIN objects \cup {b.result}
      /\ \A p \in DOMAIN objects : p # b.result => With(b.result, o)[p] = objects[p]
      /\ With(b.result, o)[b.result] = o
  BY DEF With
<1>5. KindsKnown(b, With(b.result, o), root)
  <2>1. \A off \in DOMAIN With(b.result, o) : With(b.result, o)[off].kind \in Kinds
    BY <1>3, <1>4 DEF LaidInv, KindsKnown
  <2>2. ASSUME ~b.finished, NEW off \in b.string_pool
        PROVE  With(b.result, o)[off].kind = "string"
    <3>1. CASE off = b.result /\ kind = "string"
      BY <3>1, <1>3, <1>4
    <3>2. CASE off \in fbb.string_pool /\ off # b.result
      <4>1. off \in DOMAIN objects /\ objects[off].kind = "string"
        BY <2>2, <3>2 DEF Inv, LaidInv, KindsKnown
      <4> QED
        BY <4>1, <3>2, <1>4
    <3> QED
      BY <2>2, <3>1, <3>2
  <2>3. ASSUME root # NoRoot PROVE With(b.result, o)[root.off].of = root.type
    <3>1. root.off \in DOMAIN objects /\ objects[root.off].of = root.type
      BY <2>3 DEF Inv, RootOf, LaidInv, KindsKnown
    <3> QED
      BY <2>3, <3>1, <1>4
  <2> QED
    BY <2>1, <2>2, <2>3 DEF KindsKnown
<1>6. ASSUME Len(b.buf_.data) <= MaxBufferSize PROVE Laid(b, With(b.result, o), <<>>)
  <2>1. /\ Len(buf) \in Nat /\ Len(b.buf_.data) \in Nat /\ MaxBufferSize \in Nat
        /\ Len(buf) <= Len(b.buf_.data)
    BY <1>2, BufferLimit DEF Kept
  <2>2. Len(buf) <= MaxBufferSize
    BY <2>1, <1>6
  <2>3. Laid(fbb, objects, <<>>)
    BY <2>2 DEF LaidInv
  <2>4. PICK W \in [1 .. GetSize(fbb) -> Tags] : VTables(fbb, W) /\ AllLaid(buf, W, objects)
    BY <2>3 DEF Laid, TaggedUpTo, buf
  <2>5. LaysOver(W, GetSize(fbb), b, o)
    BY <2>4, <1>6 DEF o, LaysHere, buf
  <2>6. PICK X : /\ Extends(W, GetSize(fbb), X, GetSize(b)) /\ VTables(b, X)
                 /\ ObjectLaid(b.buf_.data, X, b.result, o)
    BY <2>5 DEF LaysOver
  <2>7. GetSize(fbb) \in Nat /\ GetSize(b) \in Nat /\ GetSize(fbb) <= GetSize(b)
    BY <2>1, <1>2, BuilderParts DEF Inv, buf
  <2>8. \A off \in DOMAIN objects : objects[off].kind \in Kinds
    BY DEF LaidInv, KindsKnown
  <2>9. AllLaid(b.buf_.data, X, objects)
    BY <2>4, <2>6, <2>7, <2>8, <1>2, AllStay
  <2>10. AllLaid(b.buf_.data, X, With(b.result, o))
    BY <2>6, <2>9, WithLaid
  <2>11. X \in [1 .. GetSize(b) -> Tags]
    BY <2>6 DEF Extends
  <2> QED
    BY <2>6, <2>10, <2>11 DEF Laid, TaggedUpTo
<1>7. adding' = <<>> /\ root' = root /\ buf' = b.buf_.data
  BY <1>1 DEF buf
<1>8. KindsKnown(fbb, objects, root)' /\ NoField(fbb, adding)'
  BY <1>1, <1>5, <1>7 DEF NoField
<1>9. (Len(buf) <= MaxBufferSize => Laid(fbb, objects, adding))'
  BY <1>1, <1>6, <1>7
<1> QED
  BY <1>8, <1>9 DEF LaidInv

\* An object at a new offset, in a table made at once or by itself.
LEMMA NewLays ==
  ASSUME Inv, LaidInv, adding = <<>>, NEW b, Makes(fbb, b), b.max_voffset_ = 0,
         NEW kind \in Kinds, NEW of, NEW value, Made(b, kind, of, value),
         LaysHere(fbb, objects, b, Item(kind, of, value))
  PROVE  LaidInv'
<1>1. /\ b \in GoodBuilders /\ Kept(buf, b.buf_.data) /\ b.finished = fbb.finished
      /\ b.string_pool = fbb.string_pool /\ b.result \in GetSize(fbb) + 1 .. GetSize(b)
  BY DEF Makes, Grows, buf
<1>2. GetSize(fbb) \in Nat /\ DOMAIN objects \subseteq 1 .. GetSize(fbb)
  BY BuilderParts DEF Inv, Remembered
<1>3. b.result \notin DOMAIN objects
  BY <1>1, <1>2
<1>4. ASSUME ~b.finished, NEW off \in b.string_pool
      PROVE  off \in fbb.string_pool /\ off # b.result
  BY <1>1, <1>3, <1>4 DEF Inv
<1>5. root # NoRoot => b.result # root.off
  BY <1>3 DEF Inv, RootOf
<1> HIDE DEF Inv, LaidInv
<1> QED
  BY <1>1, <1>4, <1>5, MadeLays

\* An object that is laid by itself.
LEMMA LaysAlone ==
  ASSUME Inv, LaidInv, adding = <<>>, NEW b, Makes(fbb, b),
         NEW kind \in Kinds, NEW of, NEW value, Made(b, kind, of, value),
         Lays(fbb, b, Item(kind, of, value))
  PROVE  LaidInv'
<1>1. b.max_voffset_ = 0
  BY DEF Lays, LaidInv, NoField
<1>2. LaysHere(fbb, objects, b, Item(kind, of, value))
  BY DEF LaysHere, LaysOver, Lays
<1> HIDE DEF Inv, LaidInv
<1> QED
  BY <1>1, <1>2, NewLays

\* Making a string.
LEMMA StringLaysStep ==
  ASSUME Inv, LaidInv, String PROVE LaidInv'
<1>1. PICK s \in Strings : /\ Call("string", "")
                           /\ Made(CreateString(fbb, s), "string", "-", s)
  BY DEF String
<1>2. adding = <<>> /\ fbb \in GoodBuilders
  BY <1>1, OutsideTables
<1>3. s \in Seq(Bytes)
  BY ClientAssumption
<1>4. Makes(fbb, CreateString(fbb, s))
  BY <1>2, <1>3, StringMade
<1>5. Lays(fbb, CreateString(fbb, s), Item("string", "-", s))
  BY <1>2, <1>3, StringLays
<1>6. "string" \in Kinds
  BY DEF Kinds
<1> QED
  BY <1>1, <1>2, <1>4, <1>5, <1>6, LaysAlone

\* Elements of one width that are laid.
LEMMA ElementsStep ==
  ASSUME Inv, LaidInv, adding = <<>>, NEW b, Makes(fbb, b), NEW elems, NEW a,
         MadeElements(b, elems, a), Lays(fbb, b, Item("elements", a, elems))
  PROVE  LaidInv'
<1>1. Made(b, "elements", a, elems) /\ "elements" \in Kinds
  BY DEF MadeElements, Kinds
<1> QED
  BY <1>1, LaysAlone

\* Making vectors of scalars and of structs.
LEMMA VectorLaysStep ==
  ASSUME Inv, LaidInv, Scalars \/ Structs \/ UninitializedStructs \/ AlignedVector
  PROVE  LaidInv'
<1>1. CASE Scalars
  <2>1. PICK n \in 0 .. 2, width \in {2, 8} :
          /\ Call("scalars", "")
          /\ MadeElements(CreateVector(fbb, Filled(n, width), width), Filled(n, width), width)
    BY <1>1 DEF Scalars
  <2> DEFINE elems == Filled(n, width)
             b == CreateVector(fbb, elems, width)
  <2>2. adding = <<>> /\ fbb \in GoodBuilders /\ ~fbb.nested
    BY <2>1, OutsideTables
  <2>3. n \in 0 .. 3 /\ width \in Nat /\ width \in 1 .. 16
    OBVIOUS
  <2>4. elems \in Seq(Seq(Bytes)) /\ \A i \in 1 .. Len(elems) : Len(elems[i]) = width
    BY <2>3, ElementsFilled
  <2>5. MadeElements(b, elems, width)
    BY <2>1
  <2> HIDE DEF elems
  <2>6. Makes(fbb, b)
    BY <2>2, <2>3, <2>4, VectorMade
  <2>7. Lays(fbb, b, Item("elements", width, elems))
    BY <2>2, <2>3, <2>4, VectorLays
  <2> HIDE DEF b
  <2> QED
    BY <2>2, <2>5, <2>6, <2>7, ElementsStep
<1>2. CASE Structs
  <2>1. PICK n \in 0 .. 2 :
          /\ Call("structs", "")
          /\ MadeElements(CreateVectorOfStructs(fbb, Filled(n, 12), 12, 4), Filled(n, 12), 4)
    BY <1>2 DEF Structs
  <2> DEFINE elems == Filled(n, 12)
             b == CreateVectorOfStructs(fbb, elems, 12, 4)
  <2>2. adding = <<>> /\ fbb \in GoodBuilders /\ ~fbb.nested
    BY <2>1, OutsideTables
  <2>3. /\ n \in 0 .. 3 /\ 12 \in Nat /\ 4 \in 1 .. 16 /\ 3 \in Nat \ {0} /\ 12 = 3 * 4
    OBVIOUS
  <2>4. elems \in Seq(Seq(Bytes)) /\ \A i \in 1 .. Len(elems) : Len(elems[i]) = 12
    BY <2>3, ElementsFilled
  <2>5. MadeElements(b, elems, 4)
    BY <2>1
  <2> HIDE DEF elems
  <2>6. Makes(fbb, b)
    BY <2>2, <2>3, <2>4, VectorOfStructsMade
  <2>7. \A i \in 1 .. Len(elems) : Len(elems[i]) = 3 * 4
    BY <2>3, <2>4
  <2>8. Lays(fbb, CreateVectorOfStructs(fbb, elems, 3 * 4, 4), Item("elements", 4, elems))
    BY <2>2, <2>3, <2>4, <2>7, StructVectorLays
  <2>9. Lays(fbb, b, Item("elements", 4, elems))
    BY <2>3, <2>8
  <2> HIDE DEF b
  <2> QED
    BY <2>2, <2>5, <2>6, <2>9, ElementsStep
<1>3. CASE UninitializedStructs
  <2>1. PICK n \in 1 .. 2 :
          /\ Call("structs", "uninitialized")
          /\ MadeElements(CreateUninitializedVectorOfStructs(fbb, Filled(n, 12), 12),
                          Filled(n, 12), 4)
    BY <1>3 DEF UninitializedStructs
  <2> DEFINE elems == Filled(n, 12)
             b == CreateVector(fbb, elems, 12)
  <2>2. adding = <<>> /\ fbb \in GoodBuilders /\ ~fbb.nested
    BY <2>1, OutsideTables
  <2>3. n \in 0 .. 3 /\ 12 \in Nat /\ 12 \in 1 .. 16
    OBVIOUS
  <2>4. elems \in Seq(Seq(Bytes)) /\ \A i \in 1 .. Len(elems) : Len(elems[i]) = 12
    BY <2>3, ElementsFilled
  <2>5. MadeElements(b, elems, 4)
    BY <2>1 DEF CreateUninitializedVectorOfStructs
  <2> HIDE DEF elems
  <2>6. Makes(fbb, b)
    BY <2>2, <2>3, <2>4, VectorMade
  <2>7. Lays(fbb, b, Item("elements", 4, elems))
    BY <2>2, <2>3, <2>4, VectorLays
  <2> HIDE DEF b
  <2> QED
    BY <2>2, <2>5, <2>6, <2>7, ElementsStep
<1>4. CASE AlignedVector
  <2>1. PICK n \in 1 .. 3 :
          /\ Call("aligned", "")
          /\ MadeElements(CreateVector(PreAlign(fbb, n, MaxAlignment), Filled(n, 1), 1),
                          Filled(n, 1), MaxAlignment)
    BY <1>4 DEF AlignedVector
  <2> DEFINE elems == Filled(n, 1)
             c == PreAlign(fbb, n, 16)
             b == CreateVector(c, elems, 1)
  <2>2. adding = <<>> /\ fbb \in GoodBuilders /\ ~fbb.nested
    BY <2>1, OutsideTables
  <2>3. n \in 0 .. 3 /\ n \in Nat /\ 1 \in Nat /\ 1 \in 1 .. 16 /\ 16 \in 1 .. 16
    OBVIOUS
  <2>4. elems \in Seq(Seq(Bytes)) /\ \A i \in 1 .. Len(elems) : Len(elems[i]) = 1
    BY <2>3, ElementsFilled
  <2>5. MadeElements(b, elems, 16)
    BY <2>1 DEF MaxAlignment
  <2> HIDE DEF elems
  <2>6. Lays(fbb, b, Item("elements", 16, elems))
    BY <2>2, <2>3, <2>4, AlignedLays
  <2>7. Writes(fbb, c)
    BY <2>2, <2>3, Aligned
  <2> HIDE DEF c
  <2>8. Grows(fbb, c) /\ c \in GoodBuilders
    BY <2>7, WritesGrows, WritesGood
  <2>9. ~c.nested
    BY <2>2, <2>8 DEF Grows
  <2>10. Makes(c, b)
    BY <2>3, <2>4, <2>8, <2>9, VectorMade
  <2> HIDE DEF b
  <2>11. Makes(fbb, b)
    BY <2>8, <2>10, MakesOn
  <2> QED
    BY <2>2, <2>5, <2>6, <2>11, ElementsStep
<1> QED
  BY <1>1, <1>2, <1>3, <1>4

\* Making a struct.
LEMMA StructLaysStep ==
  ASSUME Inv, LaidInv, Struct PROVE LaidInv'
<1> DEFINE bytes == Scalar(5, 8)
           b == CreateStruct(fbb, bytes, 8)
<1>1. Call("struct", "") /\ Made(b, "struct", 8, bytes)
  BY DEF Struct
<1>2. adding = <<>> /\ fbb \in GoodBuilders
  BY <1>1, OutsideTables
<1>3. bytes \in Seq(Bytes) /\ Len(bytes) > 0
  <2>1. 5 \in Int /\ 8 \in Nat
    OBVIOUS
  <2>2. bytes \in Seq(Bytes) /\ Len(bytes) = 8
    BY <2>1, ScalarBytes
  <2> QED
    BY <2>2
<1>4. 8 \in 1 .. 16 /\ "struct" \in Kinds
  BY DEF Kinds
<1> HIDE DEF bytes
<1>5. Makes(fbb, b)
  BY <1>2, <1>3, <1>4, StructMade
<1>6. Lays(fbb, b, Item("struct", 8, bytes))
  BY <1>2, <1>3, <1>4, StructLays
<1> HIDE DEF b
<1> QED
  BY <1>1, <1>2, <1>4, <1>5, <1>6, LaysAlone

\* Making a vector of strings.
LEMMA StringsLaysStep ==
  ASSUME Inv, LaidInv, VectorOfStrings PROVE LaidInv'
<1>1. PICK s \in Strings, t \in Strings :
        Call("strings", "") /\ Made(CreateVectorOfStrings(fbb, <<s, t>>), "strings", "-", <<s, t>>)
  BY DEF VectorOfStrings
<1>2. adding = <<>> /\ fbb \in GoodBuilders /\ ~fbb.nested
  BY <1>1, OutsideTables
<1> DEFINE S == Seq(Bytes)
           strings == <<s, t>>
<1>3. s \in S /\ t \in S
  BY ClientAssumption
<1> HIDE DEF S
<1>4. strings \in Seq(S)
  BY <1>3
<1> USE DEF S
<1> HIDE DEF strings
<1>5. Makes(fbb, CreateVectorOfStrings(fbb, strings))
  BY <1>2, <1>4, StringsMade
<1>6. Made(CreateVectorOfStrings(fbb, strings), "strings", "-", strings)
  BY <1>1 DEF strings
<1>7. Lays(fbb, CreateVectorOfStrings(fbb, strings), Item("strings", "-", strings))
  BY <1>2, <1>4, StringsLays
<1>8. "strings" \in Kinds
  BY DEF Kinds
<1> QED
  BY <1>2, <1>5, <1>6, <1>7, <1>8, LaysAlone

\* What is listed of the client's objects is in the data.
LEMMA ListedBelow ==
  ASSUME Inv, NEW kind, NEW of
  PROVE  /\ Offsets(kind, of) \in Seq(Nat)
         /\ \A k \in 1 .. Len(Offsets(kind, of)) :
              LET off == Offsets(kind, of)[k]
              IN  /\ off \in DOMAIN objects /\ off \in 1 .. GetSize(fbb) /\ off <= GetSize(fbb)
                  /\ objects[off].kind = kind /\ objects[off].of = of
<1>1. GetSize(fbb) \in Nat
  BY BuilderParts DEF Inv
<1>2. DOMAIN objects \subseteq 1 .. GetSize(fbb)
  BY DEF Inv, Remembered
<1>3. /\ Offsets(kind, of) \in Seq(Nat)
      /\ \A k \in 1 .. Len(Offsets(kind, of)) :
           /\ Offsets(kind, of)[k] \in DOMAIN objects
           /\ objects[Offsets(kind, of)[k]].kind = kind
           /\ objects[Offsets(kind, of)[k]].of = of
  BY <1>1, <1>2, OffsetsListed
<1> QED
  BY <1>1, <1>2, <1>3

\* Making a sorted vector.
LEMMA SortedLaysStep ==
  ASSUME Inv, LaidInv, SortedVector PROVE LaidInv'
<1>1. PICK type \in DOMAIN Tables :
        LET offs == Offsets("table", type)
        IN  /\ Call("sorted", type)
            /\ Made(CreateVectorOfSortedTables(fbb, type, offs), "sorted", type, ToSet(offs))
  BY DEF SortedVector
<1> DEFINE offs == Offsets("table", type)
           b == CreateVectorOfSortedTables(fbb, type, offs)
           value == ToSet(offs)
<1>2. adding = <<>> /\ fbb \in GoodBuilders /\ ~fbb.nested
  BY <1>1, OutsideTables
<1>3. offs \in Seq(Nat) /\ \A i \in 1 .. Len(offs) : offs[i] <= GetSize(fbb)
  BY ListedBelow
<1>4. Makes(fbb, b)
  BY <1>2, <1>3, SortedMade
<1>5. Made(b, "sorted", type, value)
  BY <1>1
<1> HIDE DEF offs
<1>6. Lays(fbb, b, Item("sorted", type, value))
  BY <1>2, <1>3, SortedTablesLay
<1>7. "sorted" \in Kinds
  BY DEF Kinds
<1> HIDE DEF b, value
<1> QED
  BY <1>2, <1>4, <1>5, <1>6, <1>7, LaysAlone

\* A builder that ends a table has seen no field of another.
LEMMA NoFieldAfterTable ==
  ASSUME NEW b \in GoodBuilders, NEW start \in Nat
  PROVE  EndTable(b, start).max_voffset_ = 0
<1> DEFINE p == PushElement(b, Scalar(0, uoffset))
           loc == GetSize(p)
           vtable == VTable(b, start, loc)
           q == PushBytes(p, vtable)
           w == ClearOffsets(q)
           known == KnownVTable(w, vtable)
           use == IF known = 0 THEN GetSize(w) ELSE known
           kept == IF known = 0 THEN scratch_push(w.buf_, <<use>>) ELSE pop(w.buf_, Len(vtable))
           v == WriteAt(kept, loc, Scalar(use - loc, uoffset))
<1>1. EndTable(b, start) = [w EXCEPT !.buf_ = v, !.nested = FALSE, !.result = loc]
  BY DEF EndTable
<1>2. Scalar(0, uoffset) \in Seq(Bytes) /\ Len(Scalar(0, uoffset)) = 4
  <2>1. 0 \in Int /\ 4 \in Nat
    OBVIOUS
  <2> QED
    BY <2>1, ScalarBytes DEF uoffset
<1>3. Len(Scalar(0, uoffset)) \in 1 .. 16
  BY <1>2
<1>4. Writes(b, p)
  BY <1>2, <1>3, ElementPushed
<1> HIDE DEF p
<1>5. p \in GoodBuilders /\ loc \in Nat
  BY <1>4, WritesGood, BuilderParts
<1> HIDE DEF loc
<1>6. vtable \in Seq(Bytes)
  BY <1>5, VTableBytes
<1> HIDE DEF vtable
<1>7. Writes(p, q)
  BY <1>5, <1>6, BytesPushed
<1> HIDE DEF q
<1>8. q \in GoodBuilders
  BY <1>7, WritesGood
<1>9. w \in GoodBuilders /\ w.max_voffset_ = 0
  BY <1>8, PairsCleared DEF Adds
<1> HIDE DEF w, v
<1>10. w \in Builders
  BY <1>9, BuilderParts
<1>11. [w EXCEPT !.buf_ = v, !.nested = FALSE, !.result = loc].max_voffset_ = w.max_voffset_
  BY <1>10 DEF Builders
<1> QED
  BY <1>1, <1>9, <1>11

\* Nor has one that makes a table of its arguments.
LEMMA NoFieldAfterCreate ==
  ASSUME NEW c \in GoodBuilders, ~c.nested, NEW type \in DOMAIN Tables, NEW args,
         Arguments(type, args)
  PROVE  CreateTable(c, type, args).max_voffset_ = 0
<1> DEFINE s == Nested(c, TRUE)
           d == AddFields(s, type, args)
<1>1. s \in GoodBuilders /\ s.nested
  BY NestedChanged
<1>2. CreateTable(c, type, args) = EndTable(d, GetSize(c))
  BY DEF CreateTable, StartTable, Nested
<1> HIDE DEF s
<1>3. d \in GoodBuilders
  <2>1. Grows(s, d)
    BY <1>1, FieldsAdded
  <2> HIDE DEF d
  <2> QED
    BY <2>1, GrowsUp
<1> HIDE DEF d
<1>4. GetSize(c) \in Nat
  BY BuilderParts
<1> QED
  BY <1>2, <1>3, <1>4, NoFieldAfterTable

\* Nor has one that makes a table at once.
LEMMA NoFieldAfterDirect ==
  ASSUME NEW b \in GoodBuilders, ~b.nested, NEW type \in DOMAIN Tables, NEW given,
         GivenFor(type, given)
  PROVE  CreateTableDirect(b, type, given).max_voffset_ = 0
<1>1. PICK c, args :
        /\ c \in GoodBuilders /\ Grows(b, c) /\ ~c.nested /\ Arguments(type, args)
        /\ CreateTableDirect(b, type, given) = CreateTable(c, type, args)
  BY DirectIsTable
<1> QED
  BY <1>1, NoFieldAfterCreate

\* A string that is shared leaves open what fields there are.
LEMMA NoFieldShared ==
  ASSUME NEW b \in GoodBuilders, NEW str \in Seq(Bytes)
  PROVE  CreateSharedString(b, str).max_voffset_ = b.max_voffset_
<1> DEFINE s == CreateString(b, str)
           c == [s EXCEPT !.pool_buf = IF @ = "none" THEN "own" ELSE @]
<1>1. Writes(b, s)
  BY StringIsLaid
<1> HIDE DEF s
<1>2. s \in GoodBuilders /\ s.max_voffset_ = b.max_voffset_
  BY <1>1 DEF Writes
<1>3. s \in Builders
  BY <1>2, BuilderParts
<1>4. /\ c.max_voffset_ = s.max_voffset_
      /\ \A pool : [c EXCEPT !.string_pool = pool].max_voffset_ = s.max_voffset_
      /\ \A v, o : [[c EXCEPT !.buf_ = v] EXCEPT !.result = o].max_voffset_ = s.max_voffset_
  BY <1>3 DEF Builders
<1>5. \/ \E pool : CreateSharedString(b, str) = [c EXCEPT !.string_pool = pool]
      \/ \E v, o : CreateSharedString(b, str) = [[c EXCEPT !.buf_ = v] EXCEPT !.result = o]
  BY DEF CreateSharedString, Return, s
<1> HIDE DEF c
<1>6. CreateSharedString(b, str).max_voffset_ = s.max_voffset_
  <2>1. CASE \E pool : CreateSharedString(b, str) = [c EXCEPT !.string_pool = pool]
    <3>1. PICK pool : CreateSharedString(b, str) = [c EXCEPT !.string_pool = pool]
      BY <2>1
    <3> QED
      BY ONLY <3>1, <1>4
  <2>2. CASE \E v, o : CreateSharedString(b, str) = [[c EXCEPT !.buf_ = v] EXCEPT !.result = o]
    <3>1. PICK v, o : CreateSharedString(b, str) = [[c EXCEPT !.buf_ = v] EXCEPT !.result = o]
      BY <2>2
    <3> QED
      BY ONLY <3>1, <1>4
  <2> QED
    BY <1>5, <2>1, <2>2
<1> QED
  BY <1>2, <1>6

\* No string is longer than a buffer may be.
ShortStrings == \A s \in Strings : Len(s) <= MaxBufferSize

\* The strings of the pool of a builder that is not finished are there.
LEMMA PoolIsLaid ==
  ASSUME Inv, LaidInv, ~fbb.finished, Len(buf) <= MaxBufferSize,
         NEW W, AllLaid(buf, W, objects)
  PROVE  PoolLaid(fbb, W)
<1> SUFFICES ASSUME NEW off \in fbb.string_pool
             PROVE  \E s : /\ StringLaid(buf, Own(W, Fixed), off, s)
                           /\ Len(s) <= MaxBufferSize
  BY DEF PoolLaid, buf
<1>1. off \in DOMAIN objects /\ objects[off].kind = "string"
  BY DEF Inv, LaidInv, KindsKnown
<1>2. ObjectLaid(buf, W, off, objects[off])
  BY <1>1 DEF AllLaid
<1> DEFINE s == objects[off].value
<1>3. StringLaid(buf, Own(W, Fixed), off, s)
  BY <1>1, <1>2 DEF ObjectLaid
<1> HIDE DEF s
<1>4. buf \in Seq(Bytes)
  BY BuilderParts DEF Inv, buf
<1>5. Has(buf, Own(W, Fixed), off - 4, s) /\ Has(buf, Own(W, Fixed), off, Scalar(Len(s), 4))
  BY <1>3 DEF StringLaid
<1>6. Len(s) \in Nat /\ Len(buf) \in Nat /\ off - 4 \in Nat /\ Len(s) <= off - 4
      /\ off - 4 <= Len(buf)
  BY <1>4, <1>5, HasParts
<1>7. Len(s) <= MaxBufferSize
  <2> DEFINE o == off - 4
  <2>1. Len(s) \in Nat /\ Len(buf) \in Nat /\ o \in Nat /\ Len(s) <= o /\ o <= Len(buf)
    BY <1>6
  <2> HIDE DEF o
  <2>2. MaxBufferSize \in Nat
    BY BufferLimit
  <2> QED
    BY <2>1, <2>2
<1> QED
  BY <1>3, <1>7

\* Sharing a string.
LEMMA SharedLaysStep ==
  ASSUME Inv, LaidInv, ShortStrings, SharedString PROVE LaidInv'
<1>1. PICK s \in Strings :
        /\ Call("shared", "") /\ ~fbb.finished
        /\ Made(CreateSharedString(fbb, s), "string", "-", s)
  BY DEF SharedString, Finished
<1> DEFINE b == CreateSharedString(fbb, s)
           o == Item("string", "-", s)
<1>2. adding = <<>> /\ fbb \in GoodBuilders
  BY <1>1, OutsideTables
<1>3. s \in Seq(Bytes) /\ Len(s) <= MaxBufferSize
  BY ClientAssumption DEF ShortStrings
<1>4. Shares(fbb, b)
  BY <1>2, <1>3, SharedMade
<1>5. b.max_voffset_ = 0
  BY <1>2, <1>3, NoFieldShared DEF LaidInv, NoField
<1>6. ASSUME NEW W \in [1 .. GetSize(fbb) -> Tags], Len(b.buf_.data) <= MaxBufferSize,
             VTables(fbb, W), AllLaid(buf, W, objects)
      PROVE  LaysOver(W, GetSize(fbb), b, o)
  <2>1. Len(buf) <= MaxBufferSize
    <3> HIDE DEF b
    <3>1. Kept(buf, b.buf_.data) /\ buf \in Seq(Bytes) /\ b.buf_.data \in Seq(Bytes)
      BY <1>2, <1>4, BuilderParts DEF Shares, buf
    <3>2. Len(buf) \in Nat /\ Len(b.buf_.data) \in Nat /\ Len(buf) <= Len(b.buf_.data)
      BY <3>1 DEF Kept
    <3> QED
      BY <3>2, <1>6, BufferLimit
  <2>2. PoolLaid(fbb, W)
    BY <1>1, <1>6, <2>1, PoolIsLaid
  <2> QED
    BY <1>2, <1>3, <1>6, <2>2, SharedLays
<1>7. Made(b, "string", "-", s)
  BY <1>1
<1> HIDE DEF b, o
<1>8. LaysHere(fbb, objects, b, Item("string", "-", s))
  BY <1>6 DEF LaysHere, o, buf
<1>9. /\ b \in GoodBuilders /\ Kept(buf, b.buf_.data) /\ b.finished = fbb.finished
      /\ b.string_pool = fbb.string_pool \cup {b.result}
  BY <1>4 DEF Shares, buf
<1>10. ASSUME ~b.finished, NEW off \in b.string_pool
       PROVE  \/ off \in fbb.string_pool /\ off # b.result
              \/ off = b.result /\ "string" = "string"
  BY <1>9
<1>11. root = NoRoot /\ "string" \in Kinds
  BY <1>1 DEF Inv, RootOf, Kinds
<1> HIDE DEF Inv, LaidInv
<1> QED
  BY <1>2, <1>5, <1>7, <1>8, <1>9, <1>10, <1>11, MadeLays

\* What is taken of what is given, field by field.
TakenOf(type, given, taken) ==
  \A i \in 1 .. Len(FieldsOf(type)) :
    taken[FieldsOf(type)[i].name] = Taken(FieldsOf(type)[i], given[FieldsOf(type)[i].name])

\* The value of a table made at once is what is taken of what is given for its fields.
LEMMA GivenTaken ==
  ASSUME NEW type \in DOMAIN Tables, NEW how, NEW s
  PROVE  TakenOf(type, Given(type, how, s), Given(type, how, CString(s)))
<1> SUFFICES ASSUME NEW i \in 1 .. Len(FieldsOf(type))
             PROVE  Given(type, how, CString(s))[FieldsOf(type)[i].name] =
                      Taken(FieldsOf(type)[i], Given(type, how, s)[FieldsOf(type)[i].name])
  BY DEF TakenOf
<1> DEFINE fields == FieldsOf(type)
           names == {fields[j].name : j \in DOMAIN fields}
           Targets(f) == IF f.of = "string" THEN Offsets("string", "-") ELSE Offsets("table", f.of)
           Wanted(f) == how # "least" \/ f.name \in Tables[type].required
           FieldValue(f, j, str) ==
             CASE f.kind = "scalar" ->
                    IF how = "most" \/ (how = "some" /\ j % 2 = 0)
                    THEN Scalar(7, f.width) ELSE Scalar(f.default, f.width)
               [] f.kind = "string" -> IF Wanted(f) THEN <<str>> ELSE <<>>
               [] f.kind = "vector" -> IF Wanted(f) THEN <<Targets(f)>> ELSE <<>>
               [] f.kind = "table" ->
                    IF Wanted(f) /\ Targets(f) # <<>> THEN Targets(f)[Len(Targets(f))] ELSE 0
           Whole(str) == [n \in names |-> FieldValue(fields[NumberOf(type, n)], NumberOf(type, n),
                                                     str)]
           f == fields[i]
<1>1. \A str : Given(type, how, str) = Whole(str)
  BY DEF Given
<1>2. SchemaField(f) /\ f.name \in names /\ NumberOf(type, f.name) = i
  BY SchemaFields, NamesDiffer
<1> HIDE DEF names, FieldValue
<1>3. \A str : Whole(str)[f.name] = FieldValue(f, i, str)
  BY <1>2
<1> HIDE DEF Whole, fields
<1>4. FieldValue(f, i, CString(s)) = Taken(f, FieldValue(f, i, s))
  <2> HIDE DEF Targets, Wanted
  <2>1. f.kind \in {"scalar", "string", "table", "vector"}
    BY <1>2 DEF SchemaField
  <2>2. CASE f.kind = "string"
    <3>1. CASE Wanted(f)
      <4>1. FieldValue(f, i, CString(s)) = <<CString(s)>> /\ FieldValue(f, i, s) = <<s>>
        BY <2>2, <3>1 DEF FieldValue
      <4>2. <<s>> # <<>> /\ <<s>>[1] = s
        OBVIOUS
      <4> QED
        BY <2>2, <4>1, <4>2 DEF Taken
    <3>2. CASE ~Wanted(f)
      BY <2>2, <3>2 DEF FieldValue, Taken
    <3> QED
      BY <3>1, <3>2
  <2>3. CASE f.kind # "string"
    <3>1. FieldValue(f, i, CString(s)) = FieldValue(f, i, s)
      BY <2>1, <2>3 DEF FieldValue
    <3> QED
      BY <2>3, <3>1 DEF Taken
  <2> QED
    BY <2>2, <2>3
<1> QED
  BY <1>1, <1>3, <1>4 DEF f, fields

\* What a client gives for the fields of a table is of what it has made.
LEMMA GivenIsBelow ==
  ASSUME Inv, NEW type \in DOMAIN Tables, NEW how, NEW s \in Seq(Bytes)
  PROVE  /\ GivenBelow(fbb, type, Given(type, how, s))
         /\ ValueOf(type, Given(type, how, s))
<1> DEFINE fields == FieldsOf(type)
           names == {fields[i].name : i \in DOMAIN fields}
           Targets(f) == IF f.of = "string" THEN Offsets("string", "-") ELSE Offsets("table", f.of)
           Wanted(f) == how # "least" \/ f.name \in Tables[type].required
           FieldValue(f, i) ==
             CASE f.kind = "scalar" ->
                    IF how = "most" \/ (how = "some" /\ i % 2 = 0)
                    THEN Scalar(7, f.width) ELSE Scalar(f.default, f.width)
               [] f.kind = "string" -> IF Wanted(f) THEN <<s>> ELSE <<>>
               [] f.kind = "vector" -> IF Wanted(f) THEN <<Targets(f)>> ELSE <<>>
               [] f.kind = "table" ->
                    IF Wanted(f) /\ Targets(f) # <<>> THEN Targets(f)[Len(Targets(f))] ELSE 0
           given == [n \in names |-> FieldValue(fields[NumberOf(type, n)], NumberOf(type, n))]
<1>1. Given(type, how, s) = given
  BY DEF Given
<1>2. ValueOf(type, Given(type, how, s))
  <2>1. given = [n \in names |-> given[n]]
    <3> HIDE DEF FieldValue, names
    <3> QED
      OBVIOUS
  <2> QED
    BY <1>1, <2>1 DEF ValueOf
<1>3. ASSUME NEW i \in 1 .. Len(fields) PROVE GivenOne(fbb, fields[i], given[fields[i].name])
  <2> DEFINE f == fields[i]
  <2>1. SchemaField(f) /\ i \in DOMAIN fields
    BY SchemaFields
  <2>2. NumberOf(type, f.name) = i
    BY <2>1, NamesDiffer
  <2> HIDE DEF FieldValue
  <2>3. given[f.name] = FieldValue(f, i)
    <3>1. f.name \in names
      BY <2>1
    <3> HIDE DEF names
    <3> QED
      BY <2>2, <3>1
  <2> HIDE DEF given, fields
  <2> DEFINE t == Targets(f)
  <2>4. t \in Seq(Nat) /\ \A j \in 1 .. Len(t) : t[j] <= GetSize(fbb)
    BY ListedBelow
  <2>5. GetSize(fbb) \in Nat
    BY BuilderParts DEF Inv
  <2> HIDE DEF Targets, Wanted, t
  <2>6. f.kind \in {"scalar", "string", "table", "vector"}
    BY <2>1 DEF SchemaField
  <2>7. CASE f.kind = "scalar"
    <3>1. f.width \in Nat /\ f.default \in Int /\ 7 \in Int
      BY <2>1 DEF SchemaField
    <3>2. FieldValue(f, i) \in {Scalar(7, f.width), Scalar(f.default, f.width)}
      BY <2>7 DEF FieldValue
    <3>3. /\ Scalar(7, f.width) \in Seq(Bytes) /\ Len(Scalar(7, f.width)) = f.width
          /\ Scalar(f.default, f.width) \in Seq(Bytes)
          /\ Len(Scalar(f.default, f.width)) = f.width
      BY <3>1, ScalarBytes
    <3> QED
      BY <2>3, <2>7, <3>2, <3>3 DEF GivenOne
  <2>8. CASE f.kind = "string"
    <3>1. FieldValue(f, i) \in {<<s>>, <<>>}
      BY <2>8 DEF FieldValue
    <3> QED
      BY <2>3, <2>8, <3>1 DEF GivenOne
  <2>9. CASE f.kind = "vector"
    <3>1. FieldValue(f, i) \in {<<t>>, <<>>}
      BY <2>9 DEF FieldValue, t
    <3> QED
      BY <2>3, <2>4, <2>9, <3>1 DEF GivenOne
  <2>10. CASE f.kind = "table"
    <3>1. \/ FieldValue(f, i) = 0
          \/ t # <<>> /\ FieldValue(f, i) = t[Len(t)]
      BY <2>10 DEF FieldValue, t
    <3>2. t # <<>> => t[Len(t)] \in Nat /\ t[Len(t)] <= GetSize(fbb)
      BY <2>4
    <3>3. FieldValue(f, i) \in Nat /\ FieldValue(f, i) <= GetSize(fbb)
      BY <3>1, <3>2, <2>5
    <3> QED
      BY <2>3, <2>10, <3>3 DEF GivenOne
  <2> QED
    BY <2>6, <2>7, <2>8, <2>9, <2>10
<1>4. GivenBelow(fbb, type, given)
  <2> HIDE DEF given
  <2> QED
    BY <1>3 DEF GivenBelow
<1> QED
  BY <1>1, <1>2, <1>4

\* Making a table at once.
LEMMA DirectLaysStep ==
  ASSUME Inv, LaidInv, Direct PROVE LaidInv'
<1>1. PICK type \in DOMAIN Tables, how \in {"least", "some", "most"}, s \in Strings :
        LET given == Given(type, how, s)
            b == CreateTableDirect(fbb, type, given)
        IN  /\ Call("direct", type) \/ Call("named", type)
            /\ Made(b, "table", type, Given(type, how, CString(s)))
  BY DEF Direct
<1> DEFINE given == Given(type, how, s)
           taken == Given(type, how, CString(s))
           b == CreateTableDirect(fbb, type, given)
<1>2. adding = <<>> /\ fbb \in GoodBuilders /\ ~fbb.nested
  <2>1. "direct" # "builder" /\ "named" # "builder"
    OBVIOUS
  <2> QED
    BY <1>1, <2>1, OutsideTables
<1>3. s \in Seq(Bytes) /\ CString(s) \in Seq(Bytes)
  BY ClientAssumption, CStringTyped
<1>4. GivenFor(type, given)
  BY <1>3, GivenTyped
<1>5. GivenBelow(fbb, type, given) /\ ValueOf(type, taken)
  BY <1>3, GivenIsBelow
<1>6. Made(b, "table", type, taken)
  BY <1>1
<1>t. TakenOf(type, given, taken)
  BY GivenTaken
<1> HIDE DEF given, taken
<1>7. Makes(fbb, b)
  BY <1>2, <1>4, DirectMade
<1>8. b.max_voffset_ = 0
  BY <1>2, <1>4, NoFieldAfterDirect
<1>9. fbb.max_voffset_ = 0
  BY <1>2 DEF LaidInv, NoField
<1>10. ASSUME NEW W \in [1 .. GetSize(fbb) -> Tags], VTables(fbb, W)
       PROVE  LaysOver(W, GetSize(fbb), b, Item("table", type, taken))
  BY <1>2, <1>5, <1>9, <1>10, <1>t, DirectLays DEF TakenOf
<1>11. LaysHere(fbb, objects, b, Item("table", type, taken))
  BY <1>10 DEF LaysHere
<1>12. "table" \in Kinds
  BY DEF Kinds
<1> HIDE DEF b, Inv, LaidInv
<1> QED
  BY <1>2, <1>6, <1>7, <1>8, <1>11, <1>12, NewLays

\* What is given to CreateX is there, and means what is remembered.
LEMMA ManyMeans ==
  ASSUME NEW b, NEW W, NEW type \in DOMAIN Tables, NEW off \in Nat \ {0}, NEW str,
         StringLaid(b.buf_.data, Own(W, Fixed), off, str), off <= GetSize(b),
         GetSize(b) \in Nat
  PROVE  LET args == FieldsWith(type, off, 0)
             value == FieldsWith(type, <<str>>, <<>>)
         IN  /\ ValueOf(type, value) /\ Means(b, W, type, args, value)
             /\ \A i \in 1 .. Len(FieldsOf(type)) :
                  ArgumentFor(b, FieldsOf(type)[i], args[FieldsOf(type)[i].name])
<1> DEFINE args == FieldsWith(type, off, 0)
           value == FieldsWith(type, <<str>>, <<>>)
<1>1. ValueOf(type, value)
  <2> DEFINE names == {FieldsOf(type)[i].name : i \in DOMAIN FieldsOf(type)}
             FieldValue(f) ==
               CASE f.kind = "scalar" -> Scalar(7, f.width)
                 [] f.kind = "string" -> <<str>>
                 [] f.kind = "vector" -> <<>>
                 [] f.kind = "table" -> 0
             given == [n \in names |-> FieldValue(FieldsOf(type)[NumberOf(type, n)])]
  <2>1. value = given
    BY DEF FieldsWith
  <2>2. given = [n \in names |-> given[n]]
    <3> HIDE DEF FieldValue, names
    <3> QED
      OBVIOUS
  <2> QED
    BY <2>1, <2>2 DEF ValueOf
<1>2. ASSUME NEW i \in 1 .. Len(FieldsOf(type))
      PROVE  LET f == FieldsOf(type)[i]
             IN  /\ ArgumentFor(b, f, args[f.name])
                 /\ ArgumentMeans(b.buf_.data, Own(W, Fixed), f, args[f.name], value[f.name])
  <2> DEFINE f == FieldsOf(type)[i]
             x == args[f.name]
             y == value[f.name]
  <2>1. /\ f.kind = "scalar" => x = Scalar(7, f.width) /\ y = Scalar(7, f.width)
        /\ f.kind = "string" => x = off /\ y = <<str>>
        /\ f.kind = "vector" => x = 0 /\ y = <<>>
        /\ f.kind = "table" => x = 0 /\ y = 0
    <3>1. Many(type, args, off, 0) /\ Many(type, value, <<str>>, <<>>)
      BY FieldOfMany
    <3> HIDE DEF args, value
    <3> QED
      BY <3>1 DEF Many, ForKind
  <2>2. SchemaField(f)
    BY SchemaFields
  <2> HIDE DEF x, y, f, args, value
  <2>3. f.kind \in {"scalar", "string", "table", "vector"} /\ f.width \in Nat /\ 7 \in Int
    BY <2>2 DEF SchemaField
  <2>4. Scalar(7, f.width) \in Seq(Bytes) /\ Len(Scalar(7, f.width)) = f.width
    BY <2>3, ScalarBytes
  <2>5. ArgumentFor(b, f, x)
    BY <2>1, <2>3, <2>4 DEF ArgumentFor
  <2>6. ArgumentMeans(b.buf_.data, Own(W, Fixed), f, x, y)
    BY <2>1, <2>3 DEF ArgumentMeans
  <2> QED
    BY <2>5, <2>6 DEF x, y, f
<1> HIDE DEF args, value
<1>3. Means(b, W, type, args, value)
  BY <1>2 DEF Means
<1> QED
  BY <1>1, <1>2, <1>3 DEF args, value

\* Making a table of a string that exists.
LEMMA CreateLaysStep ==
  ASSUME Inv, LaidInv, Create PROVE LaidInv'
<1>1. PICK type \in DOMAIN Tables, off \in ToSet(Offsets("string", "-")) :
        LET b == CreateTable(fbb, type, FieldsWith(type, off, 0))
        IN  /\ Call("create", type)
            /\ RequiredSet(b, type)
            /\ Made(b, "table", type, FieldsWith(type, <<objects[off].value>>, <<>>))
  BY DEF Create
<1> DEFINE args == FieldsWith(type, off, 0)
           value == FieldsWith(type, <<objects[off].value>>, <<>>)
           b == CreateTable(fbb, type, args)
<1>2. adding = <<>> /\ fbb \in GoodBuilders /\ ~fbb.nested
  BY <1>1, OutsideTables
<1>3. off \in DOMAIN objects /\ objects[off].kind = "string" /\ off \in 1 .. GetSize(fbb)
  BY OffsetOf
<1>4. GetSize(fbb) \in Nat /\ off \in Nat \ {0} /\ off <= GetSize(fbb)
  BY <1>2, <1>3, BuilderParts
<1>5. Arguments(type, args)
  BY <1>4, ManyTyped
<1>6. Made(b, "table", type, value)
  BY <1>1
<1>7. fbb.max_voffset_ = 0
  BY <1>2 DEF LaidInv, NoField
<1>8. ASSUME NEW W \in [1 .. GetSize(fbb) -> Tags], VTables(fbb, W),
             AllLaid(fbb.buf_.data, W, objects)
      PROVE  LaysOver(W, GetSize(fbb), b, Item("table", type, value))
  <2>1. StringLaid(fbb.buf_.data, Own(W, Fixed), off, objects[off].value)
    BY <1>3, <1>8 DEF AllLaid, ObjectLaid
  <2>2. /\ ValueOf(type, value) /\ Means(fbb, W, type, args, value)
        /\ \A i \in 1 .. Len(FieldsOf(type)) :
             ArgumentFor(fbb, FieldsOf(type)[i], args[FieldsOf(type)[i].name])
    BY <1>4, <2>1, ManyMeans
  <2> HIDE DEF args, value
  <2> QED
    BY <1>2, <1>7, <1>8, <2>2, TableLays
<1> HIDE DEF args, value
<1>9. Makes(fbb, b)
  BY <1>2, <1>5, TableMade
<1>10. b.max_voffset_ = 0
  BY <1>2, <1>5, NoFieldAfterCreate
<1>11. LaysHere(fbb, objects, b, Item("table", type, value))
  BY <1>8 DEF LaysHere
<1>12. "table" \in Kinds
  BY DEF Kinds
<1> HIDE DEF b, Inv, LaidInv
<1> QED
  BY <1>2, <1>6, <1>9, <1>10, <1>11, <1>12, NewLays

\* The fields of a TestInfo.
LEMMA TestInfoFields ==
  /\ "TestInfo" \in DOMAIN Tables /\ Len(FieldsOf("TestInfo")) = 2
  /\ FieldsOf("TestInfo")[1] = Str("name") /\ FieldsOf("TestInfo")[2] = Num("level", 4, 0)
  /\ Str("name").name = "name" /\ Str("name").kind = "string"
  /\ Num("level", 4, 0).name = "level" /\ Num("level", 4, 0).kind = "scalar"
  /\ Num("level", 4, 0).width = 4 /\ Num("level", 4, 0).default = 0
  /\ 1 .. Len(FieldsOf("TestInfo")) = {1, 2}
<1>1. "TestInfo" \in DOMAIN Tables /\ FieldsOf("TestInfo") = <<Str("name"), Num("level", 4, 0)>>
  BY DEF FieldsOf, Tables, TestInfo, Table
<1>2. Len(FieldsOf("TestInfo")) = 2
  BY <1>1
<1>3. 1 .. 2 = {1, 2}
  OBVIOUS
<1>4. /\ FieldsOf("TestInfo")[1] = Str("name") /\ FieldsOf("TestInfo")[2] = Num("level", 4, 0)
  BY <1>1
<1>5. /\ Str("name").name = "name" /\ Str("name").kind = "string"
      /\ Num("level", 4, 0).name = "level" /\ Num("level", 4, 0).kind = "scalar"
      /\ Num("level", 4, 0).width = 4 /\ Num("level", 4, 0).default = 0
  BY DEF Str, Ref, Num
<1>6. 1 .. Len(FieldsOf("TestInfo")) = {1, 2}
  BY <1>2, <1>3
<1> QED
  BY <1>1, <1>2, <1>4, <1>5, <1>6

\* What is said of a table that is being built depends on the arguments of the fields
\* that it has.
LEMMA InTableArguments ==
  ASSUME NEW b, NEW V, NEW start, NEW type, NEW args, NEW done,
         InTable(b, V, start, type, args, done),
         NEW other, \A i \in done : other[FieldsOf(type)[i].name] = args[FieldsOf(type)[i].name]
  PROVE  InTable(b, V, start, type, other, done)
<1> HIDE DEF FieldLaid, NotStored
<1> QED
  BY DEF InTable

\* What the arguments of a TestInfo mean.
LEMMA TestInfoMeans ==
  ASSUME NEW b, NEW W, NEW args, NEW name, NEW level,
         \/ args.name = 0 /\ name = <<>>
         \/ /\ args.name # 0
            /\ \E s : name = <<s>> /\ StringLaid(b.buf_.data, Own(W, Fixed), args.name, s),
         args.level = level
  PROVE  Means(b, W, "TestInfo", args, [name |-> name, level |-> level])
<1> DEFINE value == [name |-> name, level |-> level]
<1>1. value.name = name /\ value.level = level
  OBVIOUS
<1> HIDE DEF value
<1>2. ArgumentMeans(b.buf_.data, Own(W, Fixed), Str("name"), args.name, value.name)
  BY <1>1, TestInfoFields DEF ArgumentMeans
<1>3. ArgumentMeans(b.buf_.data, Own(W, Fixed), Num("level", 4, 0), args.level, value.level)
  BY <1>1, TestInfoFields DEF ArgumentMeans
<1> HIDE DEF ArgumentMeans
<1>4. ASSUME NEW i \in 1 .. Len(FieldsOf("TestInfo"))
      PROVE  ArgumentMeans(b.buf_.data, Own(W, Fixed), FieldsOf("TestInfo")[i],
                           args[FieldsOf("TestInfo")[i].name], value[FieldsOf("TestInfo")[i].name])
  <2>1. i = 1 \/ i = 2
    BY TestInfoFields
  <2>2. CASE i = 1
    BY <2>2, <1>2, TestInfoFields
  <2>3. CASE i = 2
    BY <2>3, <1>3, TestInfoFields
  <2> QED
    BY <2>1, <2>2, <2>3
<1> QED
  BY <1>4 DEF Means, value

\* What was meant says so again.
LEMMA MeantTestInfo ==
  ASSUME NEW b, NEW W, NEW args, NEW name, NEW level,
         Means(b, W, "TestInfo", args, [name |-> name, level |-> level])
  PROVE  /\ \/ args.name = 0 /\ name = <<>>
            \/ /\ args.name # 0
               /\ \E s : name = <<s>> /\ StringLaid(b.buf_.data, Own(W, Fixed), args.name, s)
         /\ args.level = level
<1> DEFINE value == [name |-> name, level |-> level]
<1>1. value.name = name /\ value.level = level
  OBVIOUS
<1> HIDE DEF value, ArgumentMeans
<1>2. \A i \in 1 .. 2 :
        ArgumentMeans(b.buf_.data, Own(W, Fixed), FieldsOf("TestInfo")[i],
                      args[FieldsOf("TestInfo")[i].name], value[FieldsOf("TestInfo")[i].name])
  BY TestInfoFields DEF Means, value
<1>3. 1 \in 1 .. 2 /\ 2 \in 1 .. 2
  OBVIOUS
<1>4. /\ ArgumentMeans(b.buf_.data, Own(W, Fixed), Str("name"), args.name, value.name)
      /\ ArgumentMeans(b.buf_.data, Own(W, Fixed), Num("level", 4, 0), args.level, value.level)
  BY <1>2, <1>3, TestInfoFields
<1>5. args.level = level
  BY <1>1, <1>4, TestInfoFields DEF ArgumentMeans
<1>6. \/ args.name = 0 /\ name = <<>>
      \/ /\ args.name # 0
         /\ \E s : name = <<s>> /\ StringLaid(b.buf_.data, Own(W, Fixed), args.name, s)
  BY <1>1, <1>4, TestInfoFields DEF ArgumentMeans
<1> QED
  BY <1>5, <1>6

\* A TestInfo that is started has nothing.
LEMMA BuildingStarts ==
  ASSUME NEW b \in GoodBuilders, ~b.nested, b.max_voffset_ = 0, NEW W
  PROVE  LET c == StartTable(b)
         IN  /\ Adds(b, c) /\ c.buf_ = b.buf_
             /\ InBuilding(c, W, GetSize(b), <<>>, Scalar(0, 4))
<1> DEFINE c == StartTable(b)
           args == [name |-> 0, level |-> Scalar(0, 4)]
<1>1. args.name = 0 /\ args.level = Scalar(0, 4) /\ "TestInfo" \in DOMAIN Tables
  BY TestInfoFields
<1> HIDE DEF args
<1>2. /\ \E X : InTable(c, X, GetSize(b), "TestInfo", args, {})
      /\ Adds(b, c) /\ c.buf_ = b.buf_
  BY <1>1, TableIsStarted
<1> HIDE DEF c
<1>3. LeftOut("TestInfo", args, {})
  <2> SUFFICES ASSUME NEW i \in 1 .. Len(FieldsOf("TestInfo"))
               PROVE  NotStored(FieldsOf("TestInfo")[i], args[FieldsOf("TestInfo")[i].name])
    BY DEF LeftOut
  <2>1. i = 1 \/ i = 2
    BY TestInfoFields
  <2>2. CASE i = 1
    BY <1>1, <2>2, TestInfoFields DEF NotStored
  <2>3. CASE i = 2
    BY <1>1, <2>3, TestInfoFields DEF NotStored
  <2> QED
    BY <2>1, <2>2, <2>3
<1>4. Means(c, W, "TestInfo", args, [name |-> <<>>, level |-> Scalar(0, 4)])
  BY <1>1, TestInfoMeans
<1>5. InBuilding(c, W, GetSize(b), <<>>, Scalar(0, 4))
  <2> DEFINE level == Scalar(0, 4)
  <2> HIDE DEF level, LeftOut, Means
  <2>1. PICK X : InTable(c, X, GetSize(b), "TestInfo", args, {})
    BY <1>2
  <2>2. 1 \notin {} /\ 2 \notin {}
    OBVIOUS
  <2>3. Means(c, W, "TestInfo", args, [name |-> <<>>, level |-> level])
    BY <1>4 DEF level
  <2>4. level \in Seq(Bytes) /\ Len(level) = 4
    <3>1. 0 \in Int /\ 4 \in Nat
      OBVIOUS
    <3> QED
      BY <3>1, ScalarBytes DEF level
  <2> HIDE DEF InTable
  <2>5. InBuilding(c, W, GetSize(b), <<>>, level)
    BY <1>3, <2>1, <2>2, <2>3, <2>4 DEF InBuilding
  <2> QED
    BY <2>5 DEF level
<1> QED
  BY <1>2, <1>5 DEF c

\* What adds keeps the vtables.
LEMMA AddsVTables ==
  ASSUME NEW b, NEW c, Adds(b, c), NEW W, VTables(b, W)
  PROVE  VTables(c, W)
<1>1. b \in GoodBuilders /\ c \in GoodBuilders /\ Kept(b.buf_.data, c.buf_.data)
      /\ First(c) = First(b)
  BY DEF Adds
<1>2. b.buf_.data \in Seq(Bytes) /\ c.buf_.data \in Seq(Bytes)
  BY <1>1, BuilderParts
<1>3. Agree(b.buf_.data, c.buf_.data, Own(W, Fixed))
  BY <1>1, <1>2, KeptAgrees
<1>4. First(c) \in Nat
  BY <1>1, PairParts
<1>5. ASSUME NEW j \in 1 .. First(c)
      PROVE  j <= First(b) /\ c.buf_.scratch[j] = b.buf_.scratch[j]
  <2>1. j \in 1 .. First(b) /\ j <= First(b)
    BY <1>1, <1>4
  <2> QED
    BY <2>1 DEF Adds
<1>6. Own(W, Fixed) \subseteq Own(W, Fixed)
  OBVIOUS
<1> HIDE DEF VTables, Agree, Own, First
<1> QED
  BY <1>1, <1>3, <1>5, <1>6, VTablesOn

\* A field is added to a TestInfo.
LEMMA BuildingAdds ==
  ASSUME NEW b, NEW V, NEW start, NEW other, NEW done,
         InTable(b, V, start, "TestInfo", other, done), LeftOut("TestInfo", other, done),
         NEW i \in {1, 2}, i \notin done,
         NEW args, args.name \in Nat, args.name <= GetSize(b),
         args.level \in Seq(Bytes), Len(args.level) = 4,
         i = 1 => args.level = other.level, i = 2 => args.name = other.name,
         NEW c, c = AddField(b, FieldsOf("TestInfo")[i], FieldIndexToOffset(i - 1),
                             args[FieldsOf("TestInfo")[i].name])
  PROVE  /\ Adds(b, c)
         /\ \E X : InTable(c, X, start, "TestInfo", args, done \cup {i})
         /\ LeftOut("TestInfo", args, done \cup {i})
<1>1. i \in 1 .. Len(FieldsOf("TestInfo")) /\ "TestInfo" \in DOMAIN Tables
  BY TestInfoFields
<1>2. done \subseteq {1, 2}
  BY TestInfoFields DEF InTable
<1>3. ASSUME NEW j \in done
      PROVE  args[FieldsOf("TestInfo")[j].name] = other[FieldsOf("TestInfo")[j].name]
  <2>1. CASE i = 1
    <3>1. j = 2
      BY <1>2, <2>1
    <3> QED
      BY <2>1, <3>1, TestInfoFields
  <2>2. CASE i = 2
    <3>1. j = 1
      BY <1>2, <2>2
    <3> QED
      BY <2>2, <3>1, TestInfoFields
  <2> QED
    BY <2>1, <2>2
<1>4. InTable(b, V, start, "TestInfo", args, done)
  BY <1>3, InTableArguments
<1>5. ArgumentFor(b, FieldsOf("TestInfo")[i], args[FieldsOf("TestInfo")[i].name])
  <2>1. CASE i = 1
    BY <2>1, TestInfoFields DEF ArgumentFor
  <2>2. CASE i = 2
    BY <2>2, TestInfoFields DEF ArgumentFor
  <2> QED
    BY <2>1, <2>2
<1>6. ASSUME NEW j \in 1 .. Len(FieldsOf("TestInfo")), j \notin done \cup {i}
      PROVE  NotStored(FieldsOf("TestInfo")[j], args[FieldsOf("TestInfo")[j].name])
  <2>1. NotStored(FieldsOf("TestInfo")[j], other[FieldsOf("TestInfo")[j].name])
    BY <1>6 DEF LeftOut
  <2>2. args[FieldsOf("TestInfo")[j].name] = other[FieldsOf("TestInfo")[j].name]
    <3>1. j \in {1, 2}
      BY TestInfoFields
    <3>2. CASE i = 1
      <4>1. j = 2
        BY <1>6, <3>1, <3>2
      <4> QED
        BY <3>2, <4>1, TestInfoFields
    <3>3. CASE i = 2
      <4>1. j = 1
        BY <1>6, <3>1, <3>3
      <4> QED
        BY <3>3, <4>1, TestInfoFields
    <3> QED
      BY <3>2, <3>3
  <2> QED
    BY <2>1, <2>2
<1>7. LeftOut("TestInfo", args, done \cup {i})
  BY <1>6 DEF LeftOut
<1> HIDE DEF InTable, LeftOut
<1> QED
  BY <1>1, <1>4, <1>5, <1>7, FieldIsAdded

\* A name is added.
LEMMA BuildingName ==
  ASSUME NEW b, NEW W, NEW start, NEW level,
         InBuilding(b, W, start, <<>>, level),
         NEW off \in Nat, off <= GetSize(b), NEW s, StringLaid(b.buf_.data, Own(W, Fixed), off, s)
  PROVE  LET c == AddOffset(b, FieldIndexToOffset(0), off)
         IN  Adds(b, c) /\ InBuilding(c, W, start, <<s>>, level)
<1> DEFINE c == AddOffset(b, FieldIndexToOffset(0), off)
           args == [name |-> off, level |-> level]
<1>1. PICK V, other, done :
        /\ InTable(b, V, start, "TestInfo", other, done) /\ LeftOut("TestInfo", other, done)
        /\ Means(b, W, "TestInfo", other, [name |-> <<>>, level |-> level])
        /\ 1 \notin done /\ (level = Scalar(0, 4) => 2 \notin done)
        /\ level \in Seq(Bytes) /\ Len(level) = 4
  BY DEF InBuilding
<1>2. args.name = off /\ args.level = level
  OBVIOUS
<1> HIDE DEF args
<1>3. other.level = level
  BY <1>1, MeantTestInfo
<1>4. b \in GoodBuilders /\ b.buf_.data \in Seq(Bytes)
  BY <1>1, BuilderParts DEF InTable
<1>5. off # 0
  <2>1. Has(b.buf_.data, Own(W, Fixed), off, Scalar(Len(s), 4)) /\ Len(Scalar(Len(s), 4)) = 4
    BY DEF StringLaid, Scalar
  <2>2. 4 <= off
    BY <1>4, <2>1, HasParts
  <2> QED
    BY <2>2
<1>6. c = AddField(b, FieldsOf("TestInfo")[1], FieldIndexToOffset(1 - 1),
                   args[FieldsOf("TestInfo")[1].name])
  BY <1>2, TestInfoFields DEF AddField
<1> HIDE DEF c
<1>7. Adds(b, c) /\ (\E X : InTable(c, X, start, "TestInfo", args, done \cup {1}))
      /\ LeftOut("TestInfo", args, done \cup {1})
  <2> HIDE DEF InTable, LeftOut, Means
  <2>1. /\ 1 \in {1, 2} /\ args.name \in Nat /\ args.name <= GetSize(b)
        /\ args.level \in Seq(Bytes) /\ Len(args.level) = 4
        /\ (1 = 1 => args.level = other.level) /\ (1 = 2 => args.name = other.name)
    BY <1>1, <1>2, <1>3
  <2> QED
    BY ONLY <1>1, <1>6, <2>1, BuildingAdds
<1>8. StringLaid(c.buf_.data, Own(W, Fixed), off, s)
  <2>1. c.buf_.data \in Seq(Bytes) /\ Kept(b.buf_.data, c.buf_.data)
    BY <1>7, BuilderParts DEF Adds
  <2>2. Agree(b.buf_.data, c.buf_.data, Own(W, Fixed))
    BY <1>4, <2>1, KeptAgrees
  <2> HIDE DEF StringLaid, Agree, Own
  <2>3. Own(W, Fixed) \subseteq Own(W, Fixed)
    OBVIOUS
  <2> QED
    BY <1>4, <2>1, <2>2, <2>3, StringOn
<1>9. Means(c, W, "TestInfo", args, [name |-> <<s>>, level |-> level])
  BY <1>2, <1>5, <1>8, TestInfoMeans
<1>10. (<<s>> = <<>> => 1 \notin done \cup {1}) /\ (level = Scalar(0, 4) => 2 \notin done \cup {1})
  BY <1>1
<1> HIDE DEF InTable, LeftOut, Means
<1>11. InBuilding(c, W, start, <<s>>, level)
  BY <1>1, <1>7, <1>9, <1>10 DEF InBuilding
<1> QED
  BY <1>7, <1>11 DEF c

\* A level is added.
LEMMA BuildingLevel ==
  ASSUME NEW b, NEW W, NEW start, NEW name, InBuilding(b, W, start, name, Scalar(0, 4)),
         NEW level \in Seq(Bytes), Len(level) = 4, level # Scalar(0, 4)
  PROVE  LET c == AddElement(b, FieldIndexToOffset(1), level, Scalar(0, 4))
         IN  Adds(b, c) /\ InBuilding(c, W, start, name, level)
<1> DEFINE c == AddElement(b, FieldIndexToOffset(1), level, Scalar(0, 4))
           d == b.buf_.data
<1>1. PICK V, other, done :
        /\ InTable(b, V, start, "TestInfo", other, done) /\ LeftOut("TestInfo", other, done)
        /\ Means(b, W, "TestInfo", other, [name |-> name, level |-> Scalar(0, 4)])
        /\ (name = <<>> => 1 \notin done) /\ 2 \notin done
  BY DEF InBuilding
<1> DEFINE args == [name |-> other.name, level |-> level]
<1>2. args.name = other.name /\ args.level = level
  OBVIOUS
<1> HIDE DEF args
<1>3. b \in GoodBuilders /\ d \in Seq(Bytes) /\ GetSize(b) \in Nat /\ GetSize(b) = Len(d)
  BY <1>1, BuilderParts DEF InTable
<1>4. \/ args.name = 0 /\ name = <<>>
      \/ /\ args.name # 0
         /\ \E s : name = <<s>> /\ StringLaid(d, Own(W, Fixed), args.name, s)
  BY <1>1, <1>2, MeantTestInfo
<1>5. args.name \in Nat /\ args.name <= GetSize(b)
  <2>1. CASE args.name = 0
    BY <2>1, <1>3
  <2>2. CASE args.name # 0
    <3>1. PICK s : StringLaid(d, Own(W, Fixed), args.name, s)
      BY <1>4, <2>2
    <3>2. Has(d, Own(W, Fixed), args.name, Scalar(Len(s), 4))
      BY <3>1 DEF StringLaid
    <3> QED
      BY <1>3, <3>2, HasParts
  <2> QED
    BY <2>1, <2>2
<1>6. c = AddField(b, FieldsOf("TestInfo")[2], FieldIndexToOffset(2 - 1),
                   args[FieldsOf("TestInfo")[2].name])
  BY <1>2, TestInfoFields DEF AddField
<1> HIDE DEF c
<1>7. Adds(b, c) /\ (\E X : InTable(c, X, start, "TestInfo", args, done \cup {2}))
      /\ LeftOut("TestInfo", args, done \cup {2})
  <2> HIDE DEF InTable, LeftOut, Means
  <2>1. /\ 2 \in {1, 2} /\ args.name \in Nat /\ args.name <= GetSize(b)
        /\ args.level \in Seq(Bytes) /\ Len(args.level) = 4
        /\ (2 = 1 => args.level = other.level) /\ (2 = 2 => args.name = other.name)
    BY <1>2, <1>5
  <2> QED
    BY ONLY <1>1, <1>6, <2>1, BuildingAdds
<1>8. ASSUME NEW s, StringLaid(d, Own(W, Fixed), args.name, s)
      PROVE  StringLaid(c.buf_.data, Own(W, Fixed), args.name, s)
  <2>1. c.buf_.data \in Seq(Bytes) /\ Kept(d, c.buf_.data)
    BY <1>7, BuilderParts DEF Adds
  <2>2. Agree(d, c.buf_.data, Own(W, Fixed))
    BY <1>3, <2>1, KeptAgrees
  <2> HIDE DEF StringLaid, Agree, Own
  <2>3. Own(W, Fixed) \subseteq Own(W, Fixed)
    OBVIOUS
  <2> QED
    BY <1>3, <1>8, <2>1, <2>2, <2>3, StringOn
<1>9. Means(c, W, "TestInfo", args, [name |-> name, level |-> level])
  <2> HIDE DEF StringLaid, Own, d
  <2>1. \/ args.name = 0 /\ name = <<>>
        \/ /\ args.name # 0
           /\ \E s : name = <<s>> /\ StringLaid(c.buf_.data, Own(W, Fixed), args.name, s)
    BY <1>4, <1>8
  <2> QED
    BY <1>2, <2>1, TestInfoMeans
<1>10. (name = <<>> => 1 \notin done \cup {2}) /\ (level = Scalar(0, 4) => 2 \notin done \cup {2})
  BY <1>1
<1> HIDE DEF InTable, LeftOut, Means
<1>11. InBuilding(c, W, start, name, level)
  BY <1>7, <1>9, <1>10 DEF InBuilding
<1> QED
  BY <1>7, <1>11 DEF c

\* Where everything is there, c goes on with the table that is being built.
GoesOn(b, objs, a, c, next) ==
  \A W \in [1 .. next.start -> Tags] :
    /\ VTables(b, W) /\ AllLaid(b.buf_.data, W, objs)
    /\ a # <<>> => InBuilding(b, W, a[1].start, a[1].name, a[1].level)
    => Adds(b, c) /\ InBuilding(c, W, next.start, next.name, next.level)

\* A step that adds to the table that is being built, or starts it.
LEMMA BuildingStep ==
  ASSUME Inv, LaidInv, NEW b \in GoodBuilders, fbb' = b, Kept(buf, b.buf_.data),
         b.finished = fbb.finished, b.string_pool = fbb.string_pool, UNCHANGED <<objects, root>>,
         NEW a, adding' = <<a>>, a.start = TaggedUpTo(fbb, adding), a.start \in Nat,
         GoesOn(fbb, objects, adding, b, a)
  PROVE  LaidInv'
<1>1. fbb \in GoodBuilders
  BY DEF Inv
<1>2. /\ buf \in Seq(Bytes) /\ b.buf_.data \in Seq(Bytes) /\ buf' = b.buf_.data
  BY <1>1, BuilderParts DEF buf
<1>3. <<a>> # <<>> /\ <<a>>[1] = a
  OBVIOUS
<1>4. KindsKnown(b, objects, root)
  BY <1>1 DEF LaidInv, KindsKnown
<1>5. NoField(b, <<a>>)
  BY <1>3 DEF NoField
<1>6. ASSUME Len(b.buf_.data) <= MaxBufferSize PROVE Laid(b, objects, <<a>>)
  <2>1. Len(buf) <= MaxBufferSize
    <3>1. Len(buf) \in Nat /\ Len(b.buf_.data) \in Nat /\ Len(buf) <= Len(b.buf_.data)
      BY <1>1, <1>2 DEF Kept
    <3> QED
      BY <3>1, <1>6, BufferLimit
  <2>2. Laid(fbb, objects, adding)
    BY <2>1 DEF LaidInv
  <2>3. PICK W \in [1 .. a.start -> Tags] :
          /\ VTables(fbb, W) /\ AllLaid(buf, W, objects)
          /\ adding # <<>> =>
               InBuilding(fbb, W, adding[1].start, adding[1].name, adding[1].level)
    BY <2>2 DEF Laid, buf
  <2>4. Adds(fbb, b) /\ InBuilding(b, W, a.start, a.name, a.level)
    BY <2>3 DEF GoesOn, buf
  <2>5. VTables(b, W)
    BY <2>3, <2>4, AddsVTables
  <2>6. \A off \in DOMAIN objects : objects[off].kind \in Kinds
    BY DEF LaidInv, KindsKnown
  <2>7. Extends(W, a.start, W, a.start) /\ a.start <= a.start
    BY DEF Extends
  <2>8. AllLaid(b.buf_.data, W, objects)
    BY <1>1, <1>2, <2>3, <2>6, <2>7, AllStay
  <2>9. TaggedUpTo(b, <<a>>) = a.start
    BY <1>3 DEF TaggedUpTo
  <2> HIDE DEF InBuilding, AllLaid, VTables
  <2> QED
    BY <1>3, <2>4, <2>5, <2>8, <2>9 DEF Laid
<1>7. KindsKnown(fbb, objects, root)' /\ NoField(fbb, adding)'
  BY <1>4, <1>5
<1>8. (Len(buf) <= MaxBufferSize => Laid(fbb, objects, adding))'
  BY <1>2, <1>6
<1> QED
  BY <1>7, <1>8 DEF LaidInv

\* A TestInfo is started.
LEMMA StartLaysStep ==
  ASSUME Inv, LaidInv, StartTestInfo PROVE LaidInv'
<1> DEFINE b == StartTable(fbb)
           level == Scalar(0, 4)
           a == [start |-> GetSize(fbb), name |-> <<>>, level |-> level]
<1>1. ~fbb.nested /\ fbb' = b /\ adding' = <<a>> /\ UNCHANGED <<objects, root>>
  BY DEF StartTestInfo
<1>2. fbb \in GoodBuilders /\ adding = <<>>
  BY <1>1 DEF Inv
<1>3. fbb.max_voffset_ = 0
  BY <1>2 DEF LaidInv, NoField
<1>4. GetSize(fbb) \in Nat /\ TaggedUpTo(fbb, adding) = GetSize(fbb)
  BY <1>2, BuilderParts DEF TaggedUpTo
<1>5. a.start = GetSize(fbb) /\ a.name = <<>> /\ a.level = level
  OBVIOUS
<1> HIDE DEF a, b
<1>6. Adds(fbb, b)
  BY <1>1, <1>2, <1>3, BuildingStarts DEF b
<1>7. ASSUME NEW W PROVE InBuilding(b, W, GetSize(fbb), <<>>, level)
  BY <1>1, <1>2, <1>3, BuildingStarts DEF b
<1> HIDE DEF level
<1>8. GoesOn(fbb, objects, adding, b, a)
  BY <1>5, <1>6, <1>7 DEF GoesOn
<1>9. /\ b \in GoodBuilders /\ Kept(buf, b.buf_.data)
      /\ b.finished = fbb.finished /\ b.string_pool = fbb.string_pool
  BY <1>6 DEF Adds, buf
<1>10. a.start = TaggedUpTo(fbb, adding) /\ a.start \in Nat
  BY <1>4, <1>5
<1> QED
  BY <1>1, <1>8, <1>9, <1>10, BuildingStep

\* A level that is not the default.
LEMMA LevelsDiffer ==
  ASSUME NEW level \in {-1, 3}
  PROVE  /\ Scalar(level, 4) \in Seq(Bytes) /\ Len(Scalar(level, 4)) = 4
         /\ Scalar(level, 4) # Scalar(0, 4)
<1>1. level \in Int /\ 0 \in Int /\ 4 \in Nat
  OBVIOUS
<1>2. Scalar(level, 4) \in Seq(Bytes) /\ Len(Scalar(level, 4)) = 4
  BY <1>1, ScalarBytes
<1>3. Scalar(level, 4)[1] = (level \div 1) % Base /\ Scalar(0, 4)[1] = (0 \div 1) % Base
  BY DEF Scalar, Places
<1>4. level \div 1 = level /\ 0 \div 1 = 0
  OBVIOUS
<1>5. Base \in Nat /\ Base >= 16
  BY VectorAssumption, ClientAssumption
<1>6. 0 % Base = 0 /\ level % Base # 0
  <2> DEFINE m == Base
  <2>1. m \in Nat \ {0} /\ m \in Int /\ m >= 16
    BY <1>5
  <2> HIDE DEF m
  <2>2. 0 % m = 0
    BY <2>1
  <2>3. CASE level = 3
    <3>1. 3 \in 0 .. (m - 1) /\ 3 = m * 0 + 3 /\ 0 \in Int /\ 3 \in Int
      BY <2>1
    <3>2. 3 % m = 3
      BY ONLY <2>1, <3>1, DivisionUnique
    <3> QED
      BY <2>2, <2>3, <3>2 DEF m
  <2>4. CASE level = -1
    <3>1. m - 1 \in 0 .. (m - 1) /\ -1 = m * (-1) + (m - 1) /\ -1 \in Int /\ m - 1 \in Int
      BY <2>1
    <3>2. (-1) % m = m - 1
      BY ONLY <2>1, <3>1, DivisionUnique
    <3> QED
      BY <2>1, <2>2, <2>4, <3>2 DEF m
  <2> QED
    BY <2>3, <2>4
<1> QED
  BY <1>2, <1>3, <1>4, <1>6

\* A name or a level is added to the TestInfo.
LEMMA AddLaysStep ==
  ASSUME Inv, LaidInv, AddName \/ AddLevel PROVE LaidInv'
<1> DEFINE t == adding[1]
<1>1. adding # <<>>
  BY DEF AddName, AddLevel
<1>2. /\ t = [start |-> t.start, name |-> t.name, level |-> t.level] /\ t.start \in Nat
      /\ TaggedUpTo(fbb, adding) = t.start
  BY <1>1 DEF Inv, Adding, TaggedUpTo
<1>3. fbb \in GoodBuilders /\ fbb.nested /\ buf \in Seq(Bytes) /\ GetSize(fbb) = Len(buf)
  BY <1>1, BuilderParts DEF Inv, buf
<1>4. ASSUME NEW b, Grows(fbb, b)
      PROVE  /\ b \in GoodBuilders /\ Kept(buf, b.buf_.data)
             /\ b.finished = fbb.finished /\ b.string_pool = fbb.string_pool
  BY <1>4 DEF Grows, buf
<1>5. CASE AddName
  <2>1. PICK off \in ToSet(Offsets("string", "-")) :
          /\ t.name = <<>>
          /\ fbb' = AddOffset(fbb, FieldIndexToOffset(0), off)
          /\ adding' = <<[t EXCEPT !.name = <<objects[off].value>>]>>
          /\ UNCHANGED <<objects, root>>
    BY <1>5 DEF AddName
  <2>2. off \in DOMAIN objects /\ off \in 1 .. GetSize(fbb) /\ objects[off].kind = "string"
    <3> DEFINE list == Offsets("string", "-")
    <3>1. \A k \in 1 .. Len(list) : /\ list[k] \in DOMAIN objects
                                    /\ list[k] \in 1 .. GetSize(fbb)
                                    /\ objects[list[k]].kind = "string"
      BY ListedBelow
    <3>2. list \in Seq(Nat)
      BY ListedBelow
    <3> HIDE DEF list
    <3>3. \A x \in ToSet(list) : \E k \in 1 .. Len(list) : list[k] = x
      BY <3>2 DEF ToSet
    <3>4. off \in ToSet(list)
      BY DEF list
    <3> QED
      BY <3>1, <3>3, <3>4
  <2>3. off \in Nat /\ off \in Int /\ off <= GetSize(fbb) /\ FieldIndexToOffset(0) \in Nat
    BY <2>2, <1>3, BuilderParts DEF FieldIndexToOffset, voffset
  <2> DEFINE b == AddOffset(fbb, FieldIndexToOffset(0), off)
             s == objects[off].value
             a == [t EXCEPT !.name = <<s>>]
  <2>4. a.start = t.start /\ a.name = <<s>> /\ a.level = t.level
    BY <1>2
  <2>5. Grows(fbb, b)
    BY <1>3, <2>3, OffsetAdded
  <2>6. fbb' = b /\ adding' = <<a>>
    BY <2>1
  <2>7. ASSUME NEW W, AllLaid(buf, W, objects),
               InBuilding(fbb, W, t.start, t.name, t.level)
        PROVE  Adds(fbb, b) /\ InBuilding(b, W, t.start, <<s>>, t.level)
    <3>1. ObjectLaid(buf, W, off, objects[off])
      BY <2>2, <2>7 DEF AllLaid
    <3>2. StringLaid(fbb.buf_.data, Own(W, Fixed), off, s)
      BY <2>2, <3>1 DEF ObjectLaid, buf
    <3>3. InBuilding(fbb, W, t.start, <<>>, t.level)
      BY <2>1, <2>7
    <3> HIDE DEF s, t, b
    <3> QED
      BY <2>3, <3>2, <3>3, BuildingName DEF b
  <2> HIDE DEF a, b, s
  <2>8. GoesOn(fbb, objects, adding, b, a)
    BY <1>1, <2>4, <2>7 DEF GoesOn, buf
  <2> HIDE DEF t
  <2> QED
    BY <1>2, <1>4, <2>1, <2>4, <2>5, <2>6, <2>8, BuildingStep
<1>6. CASE AddLevel
  <2>1. PICK n \in {-1, 3} :
          /\ t.level = Scalar(0, 4)
          /\ fbb' = AddElement(fbb, FieldIndexToOffset(1), Scalar(n, 4), Scalar(0, 4))
          /\ adding' = <<[t EXCEPT !.level = Scalar(n, 4)]>>
          /\ UNCHANGED <<objects, root>>
    BY <1>6 DEF AddLevel
  <2> DEFINE level == Scalar(n, 4)
             def == Scalar(0, 4)
             b == AddElement(fbb, FieldIndexToOffset(1), level, def)
             a == [t EXCEPT !.level = level]
  <2>2. level \in Seq(Bytes) /\ Len(level) = 4 /\ level # def
    BY LevelsDiffer
  <2>3. fbb' = b /\ adding' = <<a>> /\ t.level = def
    BY <2>1
  <2> HIDE DEF level
  <2>4. a.start = t.start /\ a.name = t.name /\ a.level = level
    BY <1>2
  <2>5. Grows(fbb, b)
    <3>1. FieldIndexToOffset(1) \in Nat /\ Len(level) \in 1 .. 16
      BY <2>2 DEF FieldIndexToOffset, voffset
    <3> HIDE DEF def
    <3> QED
      BY <1>3, <2>2, <3>1, ElementAdded
  <2>6. ASSUME NEW W, InBuilding(fbb, W, t.start, t.name, t.level)
        PROVE  Adds(fbb, b) /\ InBuilding(b, W, t.start, t.name, level)
    <3>1. InBuilding(fbb, W, t.start, t.name, def)
      BY <2>3, <2>6
    <3> HIDE DEF t, b, InBuilding
    <3> QED
      BY <2>2, <3>1, BuildingLevel DEF b
  <2> HIDE DEF a, b, def
  <2>7. GoesOn(fbb, objects, adding, b, a)
    BY <1>1, <2>4, <2>6 DEF GoesOn
  <2> HIDE DEF t
  <2> QED
    BY <1>2, <1>4, <2>1, <2>3, <2>4, <2>5, <2>7, BuildingStep
<1> QED
  BY <1>5, <1>6

\* The TestInfo is finished.
LEMMA FinishTableLaysStep ==
  ASSUME Inv, LaidInv, FinishTestInfo PROVE LaidInv'
<1> DEFINE start == adding[1].start
           b == EndTable(fbb, start)
           value == [name |-> adding[1].name, level |-> adding[1].level]
           o == Item("table", "TestInfo", value)
           objs == With(b.result, o)
<1>1. /\ adding # <<>> /\ fbb' = b /\ adding' = <<>> /\ objects' = objs /\ root' = root
  BY DEF FinishTestInfo, Item
<1>2. fbb \in GoodBuilders /\ start \in Nat /\ TaggedUpTo(fbb, adding) = start
  BY <1>1 DEF Inv, Adding, TaggedUpTo
<1>3. Ends(fbb, b)
  BY <1>2, TableEnded
<1>4. b.max_voffset_ = 0
  BY <1>2, NoFieldAfterTable
<1>5. o.kind = "table" /\ o.kind \in Kinds
  BY DEF Item, Kinds
<1>6. ValueOf("TestInfo", value)
  <2>1. {FieldsOf("TestInfo")[i].name : i \in DOMAIN FieldsOf("TestInfo")} = {"name", "level"}
    BY DEF FieldsOf, Tables, TestInfo, Table, Str, Ref, Num
  <2>2. value = [n \in {"name", "level"} |-> value[n]]
    OBVIOUS
  <2> HIDE DEF value
  <2> QED
    BY <2>1, <2>2 DEF ValueOf
<1> HIDE DEF b, o, value
<1>7. /\ b \in GoodBuilders /\ b.finished = fbb.finished /\ b.string_pool = fbb.string_pool
      /\ Kept(buf, b.buf_.data) /\ buf \in Seq(Bytes) /\ b.buf_.data \in Seq(Bytes)
      /\ buf' = b.buf_.data
  BY <1>1, <1>2, <1>3, BuilderParts DEF Ends, buf
<1>8. b.result \notin DOMAIN objects
  <2>1. b.result \in GetSize(fbb) + 1 .. GetSize(b) /\ GetSize(fbb) \in Nat
    BY <1>2, <1>3, BuilderParts DEF Ends
  <2>2. DOMAIN objects \subseteq 1 .. GetSize(fbb)
    BY DEF Inv, Remembered
  <2> QED
    BY <2>1, <2>2
<1>9. /\ DOMAIN objs = DOMAIN objects \cup {b.result}
      /\ \A p \in DOMAIN objects : objs[p] = objects[p]
      /\ objs[b.result] = o
  BY <1>8 DEF With
<1> HIDE DEF objs
<1>10. KindsKnown(b, objs, root)
  <2>1. \A off \in DOMAIN objs : objs[off].kind \in Kinds
    BY <1>5, <1>9 DEF LaidInv, KindsKnown
  <2>2. ASSUME ~b.finished, NEW off \in b.string_pool PROVE objs[off].kind = "string"
    BY <1>7, <1>9, <2>2 DEF Inv, LaidInv, KindsKnown
  <2>3. root # NoRoot => objs[root.off].of = root.type
    BY <1>9 DEF Inv, RootOf, LaidInv, KindsKnown
  <2> QED
    BY <2>1, <2>2, <2>3 DEF KindsKnown
<1>11. ASSUME Len(b.buf_.data) <= MaxBufferSize PROVE Laid(b, objs, <<>>)
  <2>1. Len(buf) <= MaxBufferSize
    <3>1. Len(buf) \in Nat /\ Len(b.buf_.data) \in Nat /\ Len(buf) <= Len(b.buf_.data)
      BY <1>7 DEF Kept
    <3> QED
      BY <3>1, <1>11, BufferLimit
  <2>2. PICK W \in [1 .. start -> Tags] :
          /\ VTables(fbb, W) /\ AllLaid(buf, W, objects)
          /\ InBuilding(fbb, W, start, adding[1].name, adding[1].level)
    BY <1>1, <1>2, <2>1 DEF LaidInv, Laid, buf
  <2>3. PICK V, args, done :
          /\ InTable(fbb, V, start, "TestInfo", args, done) /\ LeftOut("TestInfo", args, done)
          /\ Means(fbb, W, "TestInfo", args, value)
    BY <2>2 DEF InBuilding, value
  <2>4. start <= GetSize(fbb)
    BY <2>3 DEF InTable
  <2>5. "TestInfo" \in DOMAIN Tables
    BY TestInfoFields
  <2> HIDE DEF start
  <2>6. LaysOver(W, start, b, o)
    BY <1>6, <2>2, <2>3, <2>5, TableEndLays DEF b, o
  <2>7. PICK X : /\ Extends(W, start, X, GetSize(b)) /\ VTables(b, X)
                 /\ ObjectLaid(b.buf_.data, X, b.result, o)
    BY <2>6 DEF LaysOver
  <2>8. start \in Nat /\ GetSize(b) \in Nat /\ start <= GetSize(b)
    <3>1. GetSize(fbb) = Len(buf) /\ GetSize(b) = Len(b.buf_.data) /\ GetSize(fbb) \in Nat
          /\ GetSize(b) \in Nat
      BY <1>2, <1>7, BuilderParts DEF buf
    <3>2. Len(buf) <= Len(b.buf_.data)
      BY <1>7 DEF Kept
    <3> QED
      BY <1>2, <2>4, <3>1, <3>2
  <2>9. \A off \in DOMAIN objects : objects[off].kind \in Kinds
    BY DEF LaidInv, KindsKnown
  <2>10. AllLaid(b.buf_.data, X, objects)
    BY <1>7, <2>2, <2>7, <2>8, <2>9, AllStay
  <2>11. AllLaid(b.buf_.data, X, objs)
    BY <2>7, <2>10, WithLaid DEF objs
  <2>12. X \in [1 .. GetSize(b) -> Tags]
    BY <2>7 DEF Extends
  <2> QED
    BY <2>7, <2>11, <2>12 DEF Laid, TaggedUpTo
<1>12. KindsKnown(fbb, objects, root)' /\ NoField(fbb, adding)'
  BY <1>1, <1>4, <1>10 DEF NoField
<1>13. (Len(buf) <= MaxBufferSize => Laid(fbb, objects, adding))'
  BY <1>1, <1>7, <1>11
<1> QED
  BY <1>12, <1>13 DEF LaidInv

\* A step that changes neither the data nor what is remembered.
LEMMA NothingLaidStep ==
  ASSUME Inv, LaidInv, NEW b \in GoodBuilders, fbb' = b, b.buf_ = fbb.buf_,
         b.num_field_loc = fbb.num_field_loc, b.max_voffset_ = fbb.max_voffset_,
         b.finished = fbb.finished, b.string_pool = fbb.string_pool,
         adding = <<>>, UNCHANGED <<objects, adding, root>>
  PROVE  LaidInv'
<1>1. buf' = buf /\ adding' = <<>> /\ objects' = objects /\ root' = root
      /\ b.buf_.data = buf
  BY DEF buf
<1>2. KindsKnown(b, objects, root) /\ NoField(b, <<>>)
  BY DEF LaidInv, KindsKnown, NoField
<1>3. GetSize(b) = GetSize(fbb) /\ First(b) = First(fbb)
  BY DEF GetSize, First
<1>4. ASSUME NEW W, VTables(fbb, W) PROVE VTables(b, W)
  BY <1>3, <1>4 DEF VTables
<1>5. ASSUME Laid(fbb, objects, <<>>) PROVE Laid(b, objects, <<>>)
  <2> HIDE DEF VTables, AllLaid
  <2>1. PICK W \in [1 .. GetSize(fbb) -> Tags] : VTables(fbb, W) /\ AllLaid(buf, W, objects)
    BY <1>5 DEF Laid, TaggedUpTo, buf
  <2>2. W \in [1 .. GetSize(b) -> Tags] /\ VTables(b, W) /\ AllLaid(b.buf_.data, W, objects)
    BY <1>1, <1>3, <1>4, <2>1
  <2> QED
    BY <2>2 DEF Laid, TaggedUpTo
<1>6. KindsKnown(fbb, objects, root)' /\ NoField(fbb, adding)'
  BY <1>1, <1>2
<1>7. (Len(buf) <= MaxBufferSize => Laid(fbb, objects, adding))'
  <2>1. Len(buf) <= MaxBufferSize => Laid(b, objects, <<>>)
    BY <1>5 DEF LaidInv
  <2> QED
    BY <1>1, <2>1
<1> QED
  BY <1>6, <1>7 DEF LaidInv

\* Settings, and the move to another builder.
LEMMA SetLaysStep ==
  ASSUME Inv, LaidInv, Settings \/ MoveBuilder PROVE LaidInv'
<1>1. PICK b \in {ForceDefaults(fbb, TRUE), DedupVtables(fbb, FALSE), Moved(fbb)} :
        /\ Set(b) /\ \E operation, operand : /\ Call(operation, operand)
                                             /\ operation \in {"force", "dedup", "move"}
  BY DEF Settings, MoveBuilder
<1>2. adding = <<>> /\ fbb \in GoodBuilders
  BY <1>1, OutsideTables
<1>3. b \in GoodBuilders
  BY <1>1, <1>2, SetTyped DEF Grows
<1>4. fbb \in Builders
  BY <1>2, BuilderParts
<1>5. /\ b.buf_ = fbb.buf_ /\ b.num_field_loc = fbb.num_field_loc
      /\ b.max_voffset_ = fbb.max_voffset_ /\ b.finished = fbb.finished
      /\ b.string_pool = fbb.string_pool
  BY <1>1, <1>4 DEF ForceDefaults, DedupVtables, Moved, Builders
<1>6. fbb' = b /\ UNCHANGED <<objects, adding, root>>
  BY <1>1 DEF Set
<1> QED
  BY <1>2, <1>3, <1>5, <1>6, NothingLaidStep

\* A packet is made, or received.
LEMMA PacketLaysStep ==
  ASSUME Inv, LaidInv, MakePacket \/ Receive PROVE LaidInv'
<1>1. UNCHANGED <<fbb, objects, adding, root>>
  BY DEF MakePacket, Receive
<1> QED
  BY <1>1 DEF LaidInv, buf

\* Bytes that are put before the data may all be Fixed.
LEMMA PlainExtends ==
  ASSUME NEW n \in Nat, NEW m \in Nat, n <= m, NEW W \in [1 .. n -> Tags]
  PROVE  Extends(W, n, Plain(W, n, m), m)
<1>1. Fixed \in Tags
  BY DEF Fixed, Tags
<1>2. \A o \in 1 .. m : o <= n => o \in 1 .. n
  OBVIOUS
<1>3. Plain(W, n, m) \in [1 .. m -> Tags]
  BY <1>1, <1>2 DEF Plain
<1>4. \A o \in 1 .. n : o <= n /\ o \in 1 .. m
  OBVIOUS
<1>5. \A o \in 1 .. n : Plain(W, n, m)[o] = W[o]
  BY <1>4 DEF Plain
<1> QED
  BY <1>3, <1>5 DEF Extends

\* A builder with an empty scratch pad has no vtables to keep.
LEMMA EmptyPad ==
  ASSUME NEW b, b.buf_.scratch = <<>>, b.num_field_loc = 0, NEW W
  PROVE  VTables(b, W)
<1>1. First(b) = 0
  BY DEF First
<1> QED
  BY <1>1 DEF VTables

\* A buffer is finished: its header is put before what is there.
LEMMA FinishLaysStep ==
  ASSUME Inv, LaidInv, FinishBuffer PROVE LaidInv'
<1>1. PICK type \in DOMAIN Tables, prefixed \in BOOLEAN, identifier \in {<<>>, Identifier} :
        LET tables == Offsets("table", type)
            off == tables[Len(tables)]
        IN  /\ Call("finish", type) /\ tables # <<>>
            /\ fbb' = Finish(fbb, off, identifier, prefixed)
            /\ root' = [off |-> off, type |-> type, identifier |-> identifier,
                        prefixed |-> prefixed]
            /\ UNCHANGED <<objects, adding, packet, received>>
  BY DEF FinishBuffer
<1> DEFINE tables == Offsets("table", type)
           off == tables[Len(tables)]
           r == [off |-> off, type |-> type, identifier |-> identifier, prefixed |-> prefixed]
           b == Finish(fbb, off, identifier, prefixed)
<1>2. adding = <<>> /\ fbb \in GoodBuilders /\ ~fbb.nested
  BY <1>1, OutsideTables
<1>3. off \in Nat /\ off \in DOMAIN objects /\ objects[off].of = type
  <2>1. /\ tables \in Seq(Nat) /\ tables # <<>>
        /\ \A k \in 1 .. Len(tables) : tables[k] \in DOMAIN objects /\ objects[tables[k]].of = type
    BY <1>1, ListedBelow
  <2> HIDE DEF tables
  <2>2. Len(tables) \in 1 .. Len(tables) /\ tables[Len(tables)] \in Nat
    BY <2>1
  <2> QED
    BY <2>1, <2>2
<1>4. identifier \in Seq(Bytes)
  <2>1. 11 \in Bytes /\ 12 \in Bytes
    BY VectorAssumption, ClientAssumption DEF Bytes
  <2> HIDE DEF b, r, off, tables
  <2>2. <<11, 12, 11, 12>> \in Seq(Bytes) /\ <<>> \in Seq(Bytes)
    BY <2>1
  <2> QED
    BY <2>2 DEF Identifier
<1> HIDE DEF off, tables
<1>5. Finishes(fbb, b)
  <2>1. off \in Int
    BY <1>3
  <2> QED
    BY <1>2, <1>4, <2>1, BufferFinished
<1>6. /\ fbb' = b /\ root' = r /\ objects' = objects /\ adding' = <<>>
  BY <1>1, <1>2 DEF off, tables
<1>7. r.off = off /\ r.type = type
  OBVIOUS
<1> HIDE DEF b, r
<1>8. /\ b \in GoodBuilders /\ Kept(buf, b.buf_.data) /\ b.finished
      /\ b.max_voffset_ = fbb.max_voffset_
  BY <1>5 DEF Finishes, buf
<1>9. buf \in Seq(Bytes) /\ b.buf_.data \in Seq(Bytes) /\ buf' = b.buf_.data
  BY <1>2, <1>6, <1>8, BuilderParts DEF buf
<1>10. KindsKnown(b, objects, r) /\ NoField(b, <<>>)
  BY <1>2, <1>3, <1>7, <1>8 DEF LaidInv, KindsKnown, NoField
<1>11. ASSUME Len(b.buf_.data) <= MaxBufferSize PROVE Laid(b, objects, <<>>)
  <2>1. /\ Len(buf) \in Nat /\ Len(b.buf_.data) \in Nat /\ MaxBufferSize \in Nat
        /\ Len(buf) <= Len(b.buf_.data)
    BY <1>8, <1>9, BufferLimit DEF Kept
  <2>2. Len(buf) <= MaxBufferSize
    BY <2>1, <1>11
  <2>3. Laid(fbb, objects, <<>>)
    BY <2>2, <1>2 DEF LaidInv
  <2>4. PICK W \in [1 .. GetSize(fbb) -> Tags] : AllLaid(buf, W, objects)
    BY <2>3 DEF Laid, TaggedUpTo, buf
  <2> DEFINE n == GetSize(fbb)
             m == GetSize(b)
             X == Plain(W, n, m)
  <2>5. n \in Nat /\ m \in Nat /\ n <= m
    BY <2>1, <1>2, <1>8, BuilderParts DEF buf
  <2> HIDE DEF n, m
  <2>6. Extends(W, n, X, m)
    BY <2>4, <2>5, PlainExtends DEF n
  <2>7. X \in [1 .. m -> Tags]
    BY <2>6 DEF Extends
  <2> HIDE DEF X
  <2>8. \A o \in DOMAIN objects : objects[o].kind \in Kinds
    BY DEF LaidInv, KindsKnown
  <2>9. AllLaid(b.buf_.data, X, objects)
    BY <2>4, <2>5, <2>6, <2>8, <1>8, <1>9, AllStay DEF n
  <2>10. VTables(b, X)
    BY <1>5, EmptyPad DEF Finishes
  <2> QED
    BY <2>7, <2>9, <2>10 DEF Laid, TaggedUpTo, m
<1>12. KindsKnown(fbb, objects, root)' /\ NoField(fbb, adding)'
  BY <1>6, <1>10
<1>13. (Len(buf) <= MaxBufferSize => Laid(fbb, objects, adding))'
  BY <1>6, <1>9, <1>11
<1> QED
  BY <1>12, <1>13 DEF LaidInv

----------------------------------------------------------------------------
(* Changes of what has been written.                                       *)

\* Bytes are written over others at their offset, and the rest stays.
LEMMA OverwriteLays ==
  ASSUME NEW d \in Seq(Bytes), NEW W, NEW tag, NEW loc, NEW old, Has(d, Own(W, tag), loc, old),
         NEW bytes \in Seq(Bytes), Len(bytes) = Len(old)
  PROVE  LET e == WriteScalar(d, Len(d) - loc, bytes)
         IN  /\ e \in Seq(Bytes) /\ Len(e) = Len(d) /\ Has(e, Own(W, tag), loc, bytes)
             /\ \A t : t # tag => Agree(d, e, Own(W, t))
<1> DEFINE n == Len(bytes)
           l == Len(d)
           pos == l - loc
           e == WriteScalar(d, pos, bytes)
<1>1. /\ n \in Nat /\ l \in Nat /\ loc \in Nat /\ n <= loc /\ loc <= l
      /\ loc - n + 1 .. loc \subseteq Own(W, tag)
  BY DEF Has
<1>2. e \in Seq(Bytes) /\ Len(e) = l
  BY ScalarWritten
<1>3. DOMAIN d = 1 .. l /\ DOMAIN bytes = 1 .. n
  OBVIOUS
<1>4. \A i \in 1 .. l : e[i] = IF i - pos \in 1 .. n THEN bytes[i - pos] ELSE d[i]
  BY <1>3 DEF WriteScalar
<1> HIDE DEF n, l, e
<1>5. \A i \in 1 .. n : e[l - loc + i] = bytes[i]
  <2> SUFFICES ASSUME NEW i \in 1 .. n PROVE e[l - loc + i] = bytes[i]
    OBVIOUS
  <2> DEFINE k == l - loc + i
  <2>1. k \in 1 .. l /\ k - pos = i
    BY <1>1
  <2> HIDE DEF k, pos
  <2>2. e[k] = bytes[k - pos]
    BY <1>4, <2>1
  <2> QED
    BY <2>1, <2>2 DEF k
<1>6. Has(e, Own(W, tag), loc, bytes)
  BY <1>1, <1>2, <1>5 DEF Has, n
<1>7. ASSUME NEW t, t # tag PROVE Agree(d, e, Own(W, t))
  <2> SUFFICES ASSUME NEW o \in Own(W, t), o \in 1 .. l PROVE e[l - o + 1] = d[l - o + 1]
    BY <1>1, <1>2 DEF Agree, l
  <2>1. o \notin loc - n + 1 .. loc
    BY <1>1, <1>7 DEF Own
  <2> DEFINE k == l - o + 1
  <2>2. k \in 1 .. l /\ k - pos \notin 1 .. n
    BY <1>1, <2>1
  <2> HIDE DEF k, pos
  <2> QED
    BY <1>4, <2>2 DEF k
<1> QED
  BY <1>2, <1>6, <1>7 DEF l, e

\* Where bytes of one object change, the others stay.
LEMMA OthersStay ==
  ASSUME NEW d \in Seq(Bytes), NEW e \in Seq(Bytes), NEW W, NEW off, NEW i \in Nat \ {0},
         \A t : t # <<off, i>> => Agree(d, e, Own(W, t)),
         NEW other, other # off, NEW o, o.kind \in Kinds, ObjectLaid(d, W, other, o)
  PROVE  ObjectLaid(e, W, other, o)
<1>1. ASSUME NEW t \in TagsOf(other) PROVE t # <<off, i>>
  BY <1>1 DEF TagsOf
<1>2. Stay(d, e, W, W, other)
  BY <1>1 DEF Stay
<1> QED
  BY <1>2, ObjectOn DEF Kinds

\* With bytes of one object changed in the data, everything is there.
WritesHere(d, objs) ==
  \A W \in [1 .. GetSize(fbb) -> Tags] :
    AllLaid(buf, W, objects) => Agree(buf, d, Own(W, Fixed)) /\ AllLaid(d, W, objs)

\* A step that writes over bytes of an object.
LEMMA OverwriteStep ==
  ASSUME Inv, LaidInv, adding = <<>>, NEW d \in Seq(Bytes), Len(d) = Len(buf),
         fbb' = [fbb EXCEPT !.buf_.data = d], NEW objs, objects' = objs,
         DOMAIN objs = DOMAIN objects,
         \A off \in DOMAIN objects : objs[off].kind = objects[off].kind
                                     /\ objs[off].of = objects[off].of,
         UNCHANGED <<adding, root>>,
         Len(buf) <= MaxBufferSize => WritesHere(d, objs)
  PROVE  LaidInv'
<1> DEFINE b == [fbb EXCEPT !.buf_.data = d]
<1>1. /\ b \in GoodBuilders /\ b.buf_.data = d /\ GetSize(b) = GetSize(fbb)
      /\ b.finished = fbb.finished
      /\ b.string_pool = fbb.string_pool /\ b.max_voffset_ = fbb.max_voffset_
      /\ b.buf_.scratch = fbb.buf_.scratch /\ b.num_field_loc = fbb.num_field_loc
  BY DataChanged
<1>2. fbb' = b /\ fbb \in GoodBuilders /\ adding' = <<>> /\ root' = root
  BY DEF Inv
<1> HIDE DEF b
<1>3. buf' = d
  BY <1>1, <1>2 DEF buf
<1>4. NoField(b, <<>>)
  BY <1>1 DEF LaidInv, NoField
<1>5. KindsKnown(b, objs, root)
  <2>1. \A off \in DOMAIN objs : objs[off].kind \in Kinds
    BY DEF LaidInv, KindsKnown
  <2>2. ~b.finished => \A off \in b.string_pool : objs[off].kind = "string"
    BY <1>1 DEF LaidInv, KindsKnown, Inv
  <2>3. root # NoRoot => objs[root.off].of = root.type
    BY DEF LaidInv, KindsKnown, Inv, RootOf
  <2> QED
    BY <2>1, <2>2, <2>3 DEF KindsKnown
<1>6. ASSUME Len(d) <= MaxBufferSize PROVE Laid(b, objs, <<>>)
  <2>1. Laid(fbb, objects, <<>>)
    BY <1>6 DEF LaidInv
  <2>2. PICK W \in [1 .. GetSize(fbb) -> Tags] : VTables(fbb, W) /\ AllLaid(buf, W, objects)
    BY <2>1 DEF Laid, TaggedUpTo, buf
  <2>3. Agree(buf, d, Own(W, Fixed)) /\ AllLaid(d, W, objs)
    BY <1>6, <2>2 DEF WritesHere
  <2>4. First(b) = First(fbb) /\ fbb.buf_.data = buf
    BY <1>1 DEF First, buf
  <2>5. VTables(b, W)
    <3>1. \A j \in 1 .. First(b) : j <= First(fbb) /\ b.buf_.scratch[j] = fbb.buf_.scratch[j]
      BY <1>1, <1>2, <2>4, PairParts
    <3>2. Agree(fbb.buf_.data, b.buf_.data, Own(W, Fixed))
      BY <1>1, <2>3, <2>4
    <3> QED
      BY <1>1, <1>2, <2>2, <3>1, <3>2, VTablesOn
  <2> QED
    BY <1>1, <2>2, <2>3, <2>5 DEF Laid, TaggedUpTo
<1>7. KindsKnown(fbb, objects, root)' /\ NoField(fbb, adding)'
  BY <1>2, <1>4, <1>5
<1>8. (Len(buf) <= MaxBufferSize => Laid(fbb, objects, adding))'
  BY <1>2, <1>3, <1>6
<1> QED
  BY <1>7, <1>8 DEF LaidInv

\* An element is changed.
LEMMA ElementChanged ==
  ASSUME NEW d \in Seq(Bytes), NEW W, NEW off \in Nat, NEW elems, ElementsLaid(d, W, off, elems),
         NEW i \in 1 .. Len(elems), NEW bytes \in Seq(Bytes), Len(bytes) = Len(elems[i])
  PROVE  LET e == MutateElement(d, Len(d) - off, i - 1, bytes)
         IN  /\ e \in Seq(Bytes) /\ Len(e) = Len(d)
             /\ \A t : t # <<off, i>> => Agree(d, e, Own(W, t))
             /\ ElementsLaid(e, W, off, [elems EXCEPT ![i] = bytes])
<1> DEFINE n == Len(elems)
           w == Len(elems[1])
           At(k) == off - 4 - (k - 1) * w
           e == MutateElement(d, Len(d) - off, i - 1, bytes)
           changed == [elems EXCEPT ![i] = bytes]
<1>1. /\ elems \in Seq(Seq(Bytes)) /\ n <= off /\ Has(d, Own(W, Fixed), off, Scalar(n, 4))
      /\ \A k \in 1 .. n : Len(elems[k]) = w /\ Has(d, Own(W, <<off, k>>), At(k), elems[k])
  BY DEF ElementsLaid
<1>2. n \in Nat /\ Len(d) \in Nat /\ i \in 1 .. n /\ DOMAIN elems = 1 .. n
  BY <1>1
<1>3. w \in Nat /\ Len(bytes) = w
  <2>1. Len(elems[i]) = w
    BY <1>1
  <2>2. Len(bytes) \in Nat
    OBVIOUS
  <2> QED
    BY <2>1, <2>2
<1> HIDE DEF w
<1>4. e = WriteScalar(d, Len(d) - At(i), bytes)
  <2> DEFINE x == (i - 1) * w
  <2>1. x \in Nat
    <3> DEFINE j == i - 1
    <3>1. j \in Nat
      BY <1>2
    <3> HIDE DEF j
    <3>2. j * w \in Nat
      BY <1>3, <3>1
    <3> QED
      BY <3>2 DEF j
  <2>2. e = WriteScalar(d, Len(d) - off + 4 + x, bytes)
    <3>1. Len(d) - off + 4 + (i - 1) * Len(bytes) = Len(d) - off + 4 + x
      BY <1>3
    <3> QED
      BY <3>1 DEF MutateElement, ElementAt, uoffset
  <2>3. At(i) = off - 4 - x
    OBVIOUS
  <2> HIDE DEF x, e, At
  <2>4. Len(d) - At(i) = Len(d) - off + 4 + x
    BY <1>2, <2>1, <2>3
  <2> QED
    BY <2>2, <2>4
<1>5. Has(d, Own(W, <<off, i>>), At(i), elems[i])
  BY <1>1, <1>2
<1> HIDE DEF n, e, At
<1>6. /\ e \in Seq(Bytes) /\ Len(e) = Len(d) /\ Has(e, Own(W, <<off, i>>), At(i), bytes)
      /\ \A t : t # <<off, i>> => Agree(d, e, Own(W, t))
  BY <1>4, <1>5, OverwriteLays
<1>7. changed \in Seq(Seq(Bytes)) /\ Len(changed) = n
      /\ \A k \in 1 .. n : changed[k] = IF k = i THEN bytes ELSE elems[k]
  <2> DEFINE S == Seq(Bytes)
  <2>1. elems \in Seq(S) /\ bytes \in S
    BY <1>1
  <2> HIDE DEF S
  <2>2. changed = [k \in 1 .. n |-> IF k = i THEN bytes ELSE elems[k]]
    BY <1>2 DEF changed
  <2>3. \A k \in 1 .. n : (IF k = i THEN bytes ELSE elems[k]) \in S
    BY <1>2, <2>1 DEF n
  <2> HIDE DEF changed
  <2>4. changed \in Seq(S) /\ Len(changed) = n
    BY <1>2, <2>2, <2>3
  <2> QED
    BY <2>2, <2>4 DEF S
<1> HIDE DEF changed
<1>8. Has(e, Own(W, Fixed), off, Scalar(n, 4))
  <2>1. Fixed # <<off, i>>
    BY <1>2 DEF Fixed
  <2> QED
    BY <1>1, <1>6, <2>1, HasOn
<1>9. ASSUME NEW k \in 1 .. n
      PROVE  Len(changed[k]) = w /\ Has(e, Own(W, <<off, k>>), At(k), changed[k])
  <2>1. CASE k = i
    BY <1>3, <1>6, <1>7, <2>1
  <2>2. CASE k # i
    <3>1. Agree(d, e, Own(W, <<off, k>>))
      BY <1>6, <2>2
    <3> QED
      BY <1>1, <1>6, <1>7, <2>2, <3>1, HasOn
  <2> QED
    BY <2>1, <2>2
<1>10. Len(changed[1]) = w
  <2>1. 1 \in 1 .. n
    BY <1>2
  <2> QED
    BY <1>9, <2>1
<1>11. ElementsLaid(e, W, off, changed)
  BY <1>1, <1>7, <1>8, <1>9, <1>10 DEF ElementsLaid, At, n
<1> QED
  BY <1>6, <1>11 DEF e, changed

\* An element of a vector is set.
LEMMA MutateVectorLaysStep ==
  ASSUME Inv, LaidInv, MutateVector PROVE LaidInv'
<1>1. PICK off \in {o \in DOMAIN objects : objects[o].kind = "elements"} :
        /\ Call("mutate", "elements")
        /\ \E i \in DOMAIN objects[off].value :
             LET bytes == Scalar(9, Len(objects[off].value[i]))
             IN  /\ fbb' = [fbb EXCEPT !.buf_.data = MutateElement(@, Pos(off), i - 1, bytes)]
                 /\ objects' = [objects EXCEPT ![off].value[i] = bytes]
        /\ UNCHANGED <<adding, root, packet, received>>
  BY DEF MutateVector
<1>2. PICK i \in DOMAIN objects[off].value :
        LET bytes == Scalar(9, Len(objects[off].value[i]))
        IN  /\ fbb' = [fbb EXCEPT !.buf_.data = MutateElement(@, Pos(off), i - 1, bytes)]
            /\ objects' = [objects EXCEPT ![off].value[i] = bytes]
  BY <1>1
<1> DEFINE value == objects[off].value
           bytes == Scalar(9, Len(value[i]))
           changed == [value EXCEPT ![i] = bytes]
           o == [objects[off] EXCEPT !.value = changed]
           objs == [objects EXCEPT ![off] = o]
           d == MutateElement(buf, Pos(off), i - 1, bytes)
<1>3. adding = <<>> /\ UNCHANGED <<adding, root>>
  BY <1>1, OutsideTables
<1>4. /\ off \in DOMAIN objects /\ objects[off].kind = "elements"
      /\ Remembered(objects, GetSize(fbb))
      /\ buf \in Seq(Bytes) /\ GetSize(fbb) = Len(buf) /\ Len(buf) \in Nat
  BY BuilderParts DEF Inv, buf
<1>5. /\ value \in Seq(Seq(Bytes)) /\ i \in DOMAIN value /\ i \in 1 .. Len(value)
      /\ off \in 1 .. Len(buf) /\ off \in Nat
  <2>1. value \in Seq(Seq(Bytes)) /\ off \in 1 .. Len(buf)
    BY <1>4 DEF Remembered
  <2> QED
    BY <1>4, <2>1
<1>6. fbb' = [fbb EXCEPT !.buf_.data = d] /\ objects' = objs
  BY <1>2 DEF buf
<1>7. /\ o.kind = "elements" /\ o.of = objects[off].of /\ o.value = changed
  BY <1>4 DEF Remembered
<1>8. /\ DOMAIN objs = DOMAIN objects /\ objs[off] = o
      /\ \A p \in DOMAIN objects : p # off => objs[p] = objects[p]
  BY <1>4
<1>9. Pos(off) = Len(buf) - off
  BY <1>4 DEF Pos, Position
<1> HIDE DEF value, o, objs
<1>10. bytes \in Seq(Bytes) /\ Len(bytes) = Len(value[i])
  <2>1. value[i] \in Seq(Bytes)
    BY <1>5
  <2>2. 9 \in Int /\ Len(value[i]) \in Nat
    BY <2>1
  <2> QED
    BY <2>2, ScalarBytes
<1> HIDE DEF bytes
<1>11. d \in Seq(Bytes) /\ Len(d) = Len(buf)
  <2>1. d = WriteScalar(buf, ElementAt(Pos(off), i - 1, Len(bytes)), bytes)
    BY DEF MutateElement
  <2> QED
    BY <1>4, <1>10, <2>1, ScalarWritten
<1> HIDE DEF d, changed
<1>12. ASSUME NEW W, AllLaid(buf, W, objects)
       PROVE  Agree(buf, d, Own(W, Fixed)) /\ AllLaid(d, W, objs)
  <2>1. ElementsLaid(buf, W, off, value)
    BY <1>4, <1>12 DEF AllLaid, ObjectLaid, value
  <2>2. /\ \A t : t # <<off, i>> => Agree(buf, d, Own(W, t))
        /\ ElementsLaid(d, W, off, changed)
    <3>1. /\ d = MutateElement(buf, Len(buf) - off, i - 1, bytes)
          /\ changed = [value EXCEPT ![i] = bytes]
      BY <1>9 DEF d, changed
    <3> QED
      BY <1>4, <1>5, <1>10, <2>1, <3>1, ElementChanged
  <2>3. Agree(buf, d, Own(W, Fixed))
    <3>1. Fixed # <<off, i>>
      BY <1>5 DEF Fixed
    <3> QED
      BY <2>2, <3>1
  <2>4. ObjectLaid(d, W, off, o)
    BY <1>7, <2>2 DEF ObjectLaid
  <2>5. ASSUME NEW p \in DOMAIN objs PROVE ObjectLaid(d, W, p, objs[p])
    <3>1. CASE p = off
      BY <1>8, <2>4, <3>1
    <3>2. CASE p # off
      <4>1. /\ p \in DOMAIN objects /\ objs[p] = objects[p] /\ objects[p].kind \in Kinds
            /\ ObjectLaid(buf, W, p, objects[p])
        BY <1>8, <1>12, <2>5, <3>2 DEF AllLaid, LaidInv, KindsKnown
      <4>2. i \in Nat \ {0}
        BY <1>5
      <4> QED
        BY <1>4, <1>11, <2>2, <3>2, <4>1, <4>2, OthersStay
    <3> QED
      BY <3>1, <3>2
  <2> QED
    BY <2>3, <2>5 DEF AllLaid
<1>13. WritesHere(d, objs)
  BY <1>12 DEF WritesHere
<1>14. \A p \in DOMAIN objects : objs[p].kind = objects[p].kind /\ objs[p].of = objects[p].of
  BY <1>4, <1>7, <1>8
<1> QED
  BY <1>3, <1>6, <1>8, <1>11, <1>13, <1>14, OverwriteStep

\* The value of a table of which a scalar is changed.
Changed(type, value, i, bytes) == [value EXCEPT ![FieldsOf(type)[i].name] = bytes]

\* It has its fields, and the others are as they were.
LEMMA ValueChanged ==
  ASSUME NEW type, NEW value, ValueOf(type, value), NEW i \in DOMAIN FieldsOf(type), NEW bytes
  PROVE  /\ ValueOf(type, Changed(type, value, i, bytes))
         /\ \A j \in DOMAIN FieldsOf(type) :
              Changed(type, value, i, bytes)[FieldsOf(type)[j].name]
                = IF FieldsOf(type)[j].name = FieldsOf(type)[i].name THEN bytes
                  ELSE value[FieldsOf(type)[j].name]
         /\ value[FieldsOf(type)[i].name] = bytes => Changed(type, value, i, bytes) = value
<1> DEFINE name == FieldsOf(type)[i].name
           names == {FieldsOf(type)[j].name : j \in DOMAIN FieldsOf(type)}
           changed == [value EXCEPT ![name] = bytes]
<1>1. value = [n \in names |-> value[n]] /\ name \in names
      /\ \A j \in DOMAIN FieldsOf(type) : FieldsOf(type)[j].name \in names
  BY DEF ValueOf
<1> HIDE DEF name, names
<1>2. DOMAIN value = names
  BY <1>1
<1>3. changed = [n \in names |-> IF n = name THEN bytes ELSE value[n]]
  BY <1>2 DEF changed
<1> HIDE DEF changed
<1>4. \A n \in names : changed[n] = IF n = name THEN bytes ELSE value[n]
  BY <1>3
<1>5. changed = [n \in names |-> changed[n]]
  BY <1>3
<1>6. ASSUME value[name] = bytes PROVE changed = value
  <2>1. \A n \in names : (IF n = name THEN bytes ELSE value[n]) = value[n]
    BY <1>6
  <2>2. changed = [n \in names |-> value[n]]
    BY <1>3, <2>1
  <2> QED
    BY <1>1, <2>2
<1>7. ValueOf(type, changed)
  BY <1>5 DEF ValueOf, names
<1> QED
  BY <1>1, <1>4, <1>6, <1>7 DEF changed, name, Changed

\* The fields of a table are where its vtable says.
FieldsLaid(d, W, off, type, entries, args) ==
  \A j \in 1 .. Len(FieldsOf(type)) :
    LET f == FieldsOf(type)[j]
        entry == EntryOf(entries, j)
    IN  IF entry = 0 THEN NotStored(f, args[f.name])
        ELSE FieldLaid(d, Own(W, <<off, j>>), Own(W, Fixed), f, off - entry, args[f.name])

\* The arguments of a table with another for a field.
OneChanged(type, other, args, i, bytes) ==
  \A j \in 1 .. Len(FieldsOf(type)) :
    other[FieldsOf(type)[j].name] = IF j = i THEN bytes ELSE args[FieldsOf(type)[j].name]

\* A field is changed that is stored.
LEMMA FieldChanged ==
  ASSUME NEW d \in Seq(Bytes), NEW e \in Seq(Bytes), NEW W, NEW off \in Nat,
         NEW type \in DOMAIN Tables,
         NEW i \in 1 .. Len(FieldsOf(type)), FieldsOf(type)[i].kind = "scalar",
         NEW bytes, Len(bytes) = FieldsOf(type)[i].width,
         \A t : t # <<off, i>> => Agree(d, e, Own(W, t)),
         NEW vt \in Nat, NEW entries \in Seq(Nat),
         Has(d, Own(W, Fixed), off, Scalar(vt - off, 4)), VTableLaid(d, Own(W, Fixed), vt, entries),
         EntryOf(entries, i) # 0, Has(e, Own(W, <<off, i>>), off - EntryOf(entries, i), bytes),
         NEW args, FieldsLaid(d, W, off, type, entries, args), NEW other,
         OneChanged(type, other, args, i, bytes)
  PROVE  TableLaid(e, W, off, type, other)
<1> DEFINE S(j) == Own(W, <<off, j>>)
           R == Own(W, Fixed)
           F(j) == FieldsOf(type)[j]
           E(j) == EntryOf(entries, j)
<1>1. Fixed # <<off, i>> /\ \A j : j # i => <<off, j>> # <<off, i>>
  BY DEF Fixed
<1>2. Agree(d, e, R) /\ \A j : j # i => Agree(d, e, S(j))
  BY <1>1
<1>3. Has(e, R, off, Scalar(vt - off, 4)) /\ VTableLaid(e, R, vt, entries)
  BY <1>2, HasOn, VTableOn
<1>4. ASSUME NEW j \in 1 .. Len(FieldsOf(type))
      PROVE  IF E(j) = 0 THEN NotStored(F(j), other[F(j).name])
             ELSE FieldLaid(e, S(j), R, F(j), off - E(j), other[F(j).name])
  <2>1. CASE j = i
    <3>1. other[F(j).name] = bytes /\ E(j) # 0
      BY <2>1 DEF OneChanged
    <3> QED
      BY <2>1, <3>1 DEF FieldLaid
  <2>2. CASE j # i
    <3>1. other[F(j).name] = args[F(j).name]
      BY <2>2 DEF OneChanged
    <3>2. CASE E(j) = 0
      BY <3>1, <3>2 DEF FieldsLaid
    <3>3. CASE E(j) # 0
      <4>1. FieldLaid(d, S(j), R, F(j), off - E(j), args[F(j).name])
        BY <3>3 DEF FieldsLaid
      <4>2. Agree(d, e, S(j)) /\ S(j) \subseteq S(j) /\ R \subseteq R
        BY <1>2, <2>2
      <4> HIDE DEF S, R, F, E
      <4>3. FieldLaid(e, S(j), R, F(j), off - E(j), args[F(j).name])
        BY <1>2, <4>1, <4>2, FieldOn
      <4> QED
        BY <3>1, <3>3, <4>3
    <3> QED
      BY <3>2, <3>3
  <2> QED
    BY <2>1, <2>2
<1> QED
  BY <1>3, <1>4 DEF TableLaid

\* After a change of one of its fields a table has the value that was set.
LEMMA ChangeMeans ==
  ASSUME NEW d \in Seq(Bytes), NEW e \in Seq(Bytes), NEW W, Agree(d, e, Own(W, Fixed)),
         NEW off, NEW type \in DOMAIN Tables, NEW i \in 1 .. Len(FieldsOf(type)),
         FieldsOf(type)[i].kind = "scalar", NEW bytes, NEW args, NEW value, ValueOf(type, value),
         \A j \in 1 .. Len(FieldsOf(type)) :
           ArgumentMeans(d, Own(W, Fixed), FieldsOf(type)[j], args[FieldsOf(type)[j].name],
                         value[FieldsOf(type)[j].name]),
         NEW other, TableLaid(e, W, off, type, other),
         \A j \in 1 .. Len(FieldsOf(type)) :
           other[FieldsOf(type)[j].name] = IF j = i THEN bytes ELSE args[FieldsOf(type)[j].name]
  PROVE  TableMeans(e, W, off, type, Changed(type, value, i, bytes))
<1> DEFINE F(j) == FieldsOf(type)[j]
           R == Own(W, Fixed)
           changed == Changed(type, value, i, bytes)
<1>1. DOMAIN FieldsOf(type) = 1 .. Len(FieldsOf(type))
  BY SchemaFields
<1>2. ASSUME NEW j \in 1 .. Len(FieldsOf(type)), F(j).name = F(i).name PROVE j = i
  <2>1. NumberOf(type, F(j).name) = j /\ NumberOf(type, F(i).name) = i
    BY <1>1, NamesDiffer
  <2> QED
    BY <1>2, <2>1
<1>3. /\ ValueOf(type, changed)
      /\ \A j \in 1 .. Len(FieldsOf(type)) :
           changed[F(j).name] = IF F(j).name = F(i).name THEN bytes ELSE value[F(j).name]
  BY <1>1, ValueChanged
<1> HIDE DEF changed
<1>4. ASSUME NEW j \in 1 .. Len(FieldsOf(type))
      PROVE  ArgumentMeans(e, R, F(j), other[F(j).name], changed[F(j).name])
  <2>1. CASE j = i
    <3>1. other[F(j).name] = bytes /\ changed[F(j).name] = bytes /\ F(j).kind = "scalar"
      BY <1>3, <2>1
    <3> QED
      BY <3>1 DEF ArgumentMeans
  <2>2. CASE j # i
    <3>1. other[F(j).name] = args[F(j).name] /\ changed[F(j).name] = value[F(j).name]
      BY <1>2, <1>3, <2>2
    <3>2. ArgumentMeans(d, R, F(j), args[F(j).name], value[F(j).name])
      OBVIOUS
    <3> HIDE DEF F, R
    <3>3. Agree(d, e, R) /\ R \subseteq R
      BY DEF R
    <3>4. ArgumentMeans(e, R, F(j), args[F(j).name], value[F(j).name])
      BY <3>2, <3>3, ArgumentOn
    <3> QED
      BY <3>1, <3>4
  <2> QED
    BY <2>1, <2>2
<1> QED
  BY <1>3, <1>4 DEF TableMeans, ValueOf, changed

\* The bytes and the value of a table after SetField.
SetAt(d, off, type, i, bytes) ==
  SetField(d, Len(d) - off, FieldIndexToOffset(i - 1), bytes,
           Scalar(FieldsOf(type)[i].default, FieldsOf(type)[i].width))
ValueAfter(d, off, type, i, bytes, value) ==
  IF FieldIsSet(d, Len(d) - off, FieldIndexToOffset(i - 1), bytes,
                Scalar(FieldsOf(type)[i].default, FieldsOf(type)[i].width))
  THEN Changed(type, value, i, bytes) ELSE value

\* An entry of a vtable is a number.
LEMMA EntryIsNat ==
  ASSUME NEW entries \in Seq(Nat), NEW i \in Nat \ {0}
  PROVE  EntryOf(entries, i) \in Nat
<1>1. ASSUME i + 2 <= Len(entries) PROVE entries[i + 2] \in Nat
  BY <1>1
<1> QED
  BY <1>1 DEF EntryOf

\* A scalar of a table is set.
LEMMA TableChanged ==
  ASSUME NEW d \in Seq(Bytes), Len(d) <= MaxBufferSize, NEW W, NEW off \in Nat,
         NEW type, NEW value, TableMeans(d, W, off, type, value),
         NEW i \in 1 .. Len(FieldsOf(type)), FieldsOf(type)[i].kind = "scalar",
         NEW bytes \in Seq(Bytes), Len(bytes) = FieldsOf(type)[i].width
  PROVE  LET e == SetAt(d, off, type, i, bytes)
         IN  /\ e \in Seq(Bytes) /\ Len(e) = Len(d)
             /\ \A t : t # <<off, i>> => Agree(d, e, Own(W, t))
             /\ TableMeans(e, W, off, type, ValueAfter(d, off, type, i, bytes, value))
<1> DEFINE f == FieldsOf(type)[i]
           field == FieldIndexToOffset(i - 1)
           default == Scalar(f.default, f.width)
           e == SetAt(d, off, type, i, bytes)
           set == FieldIsSet(d, Len(d) - off, field, bytes, default)
           changed == Changed(type, value, i, bytes)
           after == ValueAfter(d, off, type, i, bytes, value)
<1>1. type \in DOMAIN Tables /\ ValueOf(type, value)
  BY DEF TableMeans, ValueOf
<1>2. PICK args :
        /\ TableLaid(d, W, off, type, args)
        /\ \A j \in 1 .. Len(FieldsOf(type)) :
             ArgumentMeans(d, Own(W, Fixed), FieldsOf(type)[j], args[FieldsOf(type)[j].name],
                           value[FieldsOf(type)[j].name])
  BY DEF TableMeans
<1>3. PICK vt \in Nat, entries \in Seq(Nat) :
        /\ Has(d, Own(W, Fixed), off, Scalar(vt - off, 4))
        /\ VTableLaid(d, Own(W, Fixed), vt, entries)
        /\ \A j \in 1 .. Len(FieldsOf(type)) :
             LET g == FieldsOf(type)[j]
                 entry == EntryOf(entries, j)
             IN  IF entry = 0 THEN NotStored(g, args[g.name])
                 ELSE FieldLaid(d, Own(W, <<off, j>>), Own(W, Fixed), g, off - entry, args[g.name])
  BY <1>2 DEF TableLaid
<1> DEFINE entry == EntryOf(entries, i)
<1>4. GetOptionalFieldOffset(d, Len(d) - off, field) = entry /\ i \in Nat \ {0}
  <2>1. field = 2 * (i + 1) /\ Len(FieldsOf(type)) \in 1 .. 11
    BY <1>1, FieldNumbers
  <2>2. i \in Nat \ {0}
    BY <2>1
  <2> HIDE DEF field, entry
  <2>3. GetOptionalFieldOffset(d, Len(d) - off, 2 * (i + 1)) = entry
    BY <1>3, <2>2, FieldOffsetIsRead DEF entry
  <2> QED
    BY <2>1, <2>2, <2>3
<1>5. e = SetField(d, Len(d) - off, field, bytes, default)
      /\ after = IF set THEN changed ELSE value
  BY DEF SetAt, ValueAfter
<1> HIDE DEF field, e, after
<1>6. CASE entry = 0
  <2>1. e = d /\ set = (bytes = default)
    BY <1>4, <1>6, <1>5 DEF SetField, FieldIsSet, CheckField
  <2>2. \A t : Agree(d, e, Own(W, t))
    <3>1. Len(d) \in Nat
      OBVIOUS
    <3> QED
      BY <2>1, <3>1 DEF Agree
  <2>3. NotStored(f, args[f.name])
    BY <1>3, <1>6
  <2>4. value[f.name] = args[f.name]
    BY <1>2 DEF ArgumentMeans
  <2>5. ASSUME set PROVE changed = value
    <3>1. value[f.name] = bytes
      BY <2>1, <2>3, <2>4, <2>5 DEF NotStored
    <3>2. i \in DOMAIN FieldsOf(type)
      BY <1>1, SchemaFields
    <3> QED
      BY <1>1, <3>1, <3>2, ValueChanged
  <2> HIDE DEF set, changed
  <2>6. TableMeans(e, W, off, type, after)
    BY <1>5, <2>1, <2>5
  <2> QED
    BY <2>1, <2>2, <2>6 DEF e, after
<1>7. CASE entry # 0
  <2> DEFINE loc == off - entry
             old == args[f.name]
  <2>1. Len(old) = f.width /\ Has(d, Own(W, <<off, i>>), loc, old)
    <3>1. FieldLaid(d, Own(W, <<off, i>>), Own(W, Fixed), f, loc, old)
      BY <1>3, <1>7
    <3> QED
      BY <3>1 DEF FieldLaid
  <2>2. e = WriteScalar(d, Len(d) - off + entry, bytes) /\ set
    BY <1>4, <1>7, <1>5 DEF SetField, FieldIsSet, CheckField
  <2>3. Len(d) - off + entry = Len(d) - loc
    <3>1. entry \in Nat
      <4>1. entries \in Seq(Nat) /\ i \in Nat \ {0}
        BY <1>4
      <4> QED
        BY ONLY <4>1, EntryIsNat
    <3>2. Len(d) \in Nat
      OBVIOUS
    <3> HIDE DEF entry
    <3> QED
      BY <3>1, <3>2
  <2> HIDE DEF old, set, loc
  <2>4. /\ e \in Seq(Bytes) /\ Len(e) = Len(d) /\ Has(e, Own(W, <<off, i>>), loc, bytes)
        /\ \A t : t # <<off, i>> => Agree(d, e, Own(W, t))
    BY <2>1, <2>2, <2>3, OverwriteLays
  <2>5. Agree(d, e, Own(W, Fixed))
    <3>1. Fixed # <<off, i>>
      BY <1>4 DEF Fixed
    <3> QED
      BY <2>4, <3>1
  <2> DEFINE other == [n \in {FieldsOf(type)[j].name : j \in 1 .. Len(FieldsOf(type))} |->
                         IF n = f.name THEN bytes ELSE args[n]]
  <2>6. \A j \in 1 .. Len(FieldsOf(type)) :
          other[FieldsOf(type)[j].name] = IF j = i THEN bytes ELSE args[FieldsOf(type)[j].name]
    <3> SUFFICES ASSUME NEW j \in 1 .. Len(FieldsOf(type))
                 PROVE  other[FieldsOf(type)[j].name]
                          = IF j = i THEN bytes ELSE args[FieldsOf(type)[j].name]
      OBVIOUS
    <3>1. other[FieldsOf(type)[j].name]
            = IF FieldsOf(type)[j].name = f.name THEN bytes ELSE args[FieldsOf(type)[j].name]
      OBVIOUS
    <3>2. DOMAIN FieldsOf(type) = 1 .. Len(FieldsOf(type))
      BY <1>1, SchemaFields
    <3>3. NumberOf(type, FieldsOf(type)[j].name) = j /\ NumberOf(type, f.name) = i
      BY <1>1, <3>2, NamesDiffer
    <3> HIDE DEF other
    <3>4. (FieldsOf(type)[j].name = f.name) <=> (j = i)
      BY <3>3
    <3> QED
      BY <3>1, <3>4
  <2> HIDE DEF other
  <2>7. TableLaid(e, W, off, type, other)
    <3>1. Has(e, Own(W, <<off, i>>), off - EntryOf(entries, i), bytes) /\ EntryOf(entries, i) # 0
      BY <2>4, <1>7 DEF loc
    <3>2. FieldsLaid(d, W, off, type, entries, args)
      BY <1>3 DEF FieldsLaid
    <3>3. OneChanged(type, other, args, i, bytes)
      BY <2>6 DEF OneChanged
    <3>4. \A t : t # <<off, i>> => Agree(d, e, Own(W, t))
      BY <2>4
    <3>5. /\ Has(d, Own(W, Fixed), off, Scalar(vt - off, 4))
          /\ VTableLaid(d, Own(W, Fixed), vt, entries)
      BY <1>3
    <3>6. FieldsOf(type)[i].kind = "scalar" /\ Len(bytes) = FieldsOf(type)[i].width
      OBVIOUS
    <3>7. e \in Seq(Bytes) /\ vt \in Nat /\ entries \in Seq(Nat) /\ i \in 1 .. Len(FieldsOf(type))
          /\ d \in Seq(Bytes) /\ off \in Nat
      BY <2>4
    <3> HIDE DEF entry, f
    <3> QED
      BY ONLY <1>1, <3>1, <3>2, <3>3, <3>4, <3>5, <3>6, <3>7, FieldChanged
  <2>8. TableMeans(e, W, off, type, changed)
    BY <1>1, <1>2, <2>4, <2>5, <2>6, <2>7, ChangeMeans
  <2> QED
    BY <1>5, <2>2, <2>4, <2>8 DEF e, after
<1> QED
  BY <1>6, <1>7

\* A scalar of the root is set.
LEMMA MutateLaysStep ==
  ASSUME Inv, LaidInv, Mutate PROVE LaidInv'
<1>1. /\ root # NoRoot /\ adding = <<>> /\ UNCHANGED <<adding, root>>
  <2>1. Call("mutate", "root") /\ root # NoRoot /\ UNCHANGED <<adding, root, packet, received>>
    BY DEF Mutate
  <2> QED
    BY <2>1, OutsideTables
<1>2. PICK i \in DOMAIN FieldsOf(root.type), n \in {0, 9} :
        LET f == FieldsOf(root.type)[i]
            field == FieldIndexToOffset(i - 1)
            bytes == Scalar(n, f.width)
            default == Scalar(f.default, f.width)
        IN  /\ f.kind = "scalar"
            /\ fbb' = [fbb EXCEPT !.buf_.data = SetField(@, Pos(root.off), field, bytes, default)]
            /\ objects' = IF FieldIsSet(buf, Pos(root.off), field, bytes, default)
                          THEN [objects EXCEPT ![root.off].value[f.name] = bytes] ELSE objects
  BY DEF Mutate
<1> DEFINE type == root.type
           off == root.off
           f == FieldsOf(type)[i]
           field == FieldIndexToOffset(i - 1)
           bytes == Scalar(n, f.width)
           default == Scalar(f.default, f.width)
           value == objects[off].value
           d == SetAt(buf, off, type, i, bytes)
           set == FieldIsSet(buf, Pos(off), field, bytes, default)
           after == ValueAfter(buf, off, type, i, bytes, value)
           o == [objects[off] EXCEPT !.value = Changed(type, value, i, bytes)]
           objs == IF set THEN [objects EXCEPT ![off] = o] ELSE objects
<1>3. /\ type \in DOMAIN Tables /\ off \in DOMAIN objects /\ objects[off].kind = "table"
      /\ objects[off].of = type
  BY <1>1 DEF Inv, RootOf, LaidInv, KindsKnown
<1>4. /\ buf \in Seq(Bytes) /\ GetSize(fbb) = Len(buf) /\ Len(buf) \in Nat
      /\ Remembered(objects, GetSize(fbb)) /\ off \in 1 .. Len(buf) /\ off \in Nat
  <2>1. /\ buf \in Seq(Bytes) /\ GetSize(fbb) = Len(buf) /\ Len(buf) \in Nat
        /\ Remembered(objects, GetSize(fbb))
    BY BuilderParts DEF Inv, buf
  <2>2. off \in 1 .. Len(buf)
    BY <1>3, <2>1 DEF Remembered
  <2> QED
    BY <2>1, <2>2
<1>5. Pos(off) = Len(buf) - off
  BY <1>4 DEF Pos, Position
<1>6. bytes \in Seq(Bytes) /\ Len(bytes) = f.width /\ f.kind = "scalar"
      /\ i \in 1 .. Len(FieldsOf(type)) /\ i \in Nat \ {0}
  <2>1. SchemaField(f) /\ i \in 1 .. Len(FieldsOf(type))
    BY <1>3, SchemaFields
  <2>2. f.width \in Nat /\ n \in Int
    BY <2>1 DEF SchemaField
  <2> QED
    BY <1>2, <2>1, <2>2, ScalarBytes
<1>7. fbb' = [fbb EXCEPT !.buf_.data = d] /\ objects' = objs
  <2>1. fbb' = [fbb EXCEPT !.buf_.data = SetField(@, Pos(off), field, bytes, default)]
        /\ objects' = IF set THEN [objects EXCEPT ![off].value[f.name] = bytes] ELSE objects
    BY <1>2
  <2>2. d = SetField(buf, Pos(off), field, bytes, default)
    BY <1>5 DEF SetAt
  <2>3. [objects EXCEPT ![off].value[f.name] = bytes] = [objects EXCEPT ![off] = o]
    BY DEF Changed
  <2> HIDE DEF o, set, field, bytes, default, f, off, d
  <2> QED
    BY <2>1, <2>2, <2>3 DEF buf
<1>8. d \in Seq(Bytes) /\ Len(d) = Len(buf)
  <2>1. d = buf \/ \E pos : d = WriteScalar(buf, pos, bytes)
    BY DEF SetAt, SetField
  <2> HIDE DEF d, bytes
  <2> QED
    BY <1>4, <1>6, <2>1, ScalarWritten
<1>9. /\ o.kind = "table" /\ o.of = type /\ o.value = Changed(type, value, i, bytes)
  BY <1>3, <1>4 DEF Remembered
<1>10. after = IF set THEN Changed(type, value, i, bytes) ELSE value
  BY <1>5 DEF ValueAfter
<1> HIDE DEF o, set, bytes, d, after
<1>11. /\ DOMAIN objs = DOMAIN objects
       /\ \A p \in DOMAIN objects : p # off => objs[p] = objects[p]
       /\ objs[off].kind = "table" /\ objs[off].of = type /\ objs[off].value = after
  <2>1. CASE set
    BY <1>3, <1>9, <1>10, <2>1
  <2>2. CASE ~set
    BY <1>3, <1>10, <2>2
  <2> QED
    BY <2>1, <2>2
<1> HIDE DEF objs, value
<1>12. ASSUME Len(buf) <= MaxBufferSize, NEW W, AllLaid(buf, W, objects)
       PROVE  Agree(buf, d, Own(W, Fixed)) /\ AllLaid(d, W, objs)
  <2>1. TableMeans(buf, W, off, type, value)
    BY <1>3, <1>12 DEF AllLaid, ObjectLaid, value
  <2>2. /\ \A t : t # <<off, i>> => Agree(buf, d, Own(W, t))
        /\ TableMeans(d, W, off, type, after)
    <3> HIDE DEF type, off
    <3> QED
      BY <1>4, <1>6, <1>12, <2>1, TableChanged DEF d, after
  <2>3. Agree(buf, d, Own(W, Fixed))
    <3>1. Fixed # <<off, i>>
      BY <1>6 DEF Fixed
    <3> QED
      BY <2>2, <3>1
  <2>4. ObjectLaid(d, W, off, objs[off])
    BY <1>11, <2>2 DEF ObjectLaid
  <2>5. ASSUME NEW p \in DOMAIN objs PROVE ObjectLaid(d, W, p, objs[p])
    <3>1. CASE p = off
      BY <2>4, <3>1
    <3>2. CASE p # off
      <4>1. /\ p \in DOMAIN objects /\ objs[p] = objects[p] /\ objects[p].kind \in Kinds
            /\ ObjectLaid(buf, W, p, objects[p])
        BY <1>11, <1>12, <2>5, <3>2 DEF AllLaid, LaidInv, KindsKnown
      <4> QED
        BY <1>4, <1>6, <1>8, <2>2, <3>2, <4>1, OthersStay
    <3> QED
      BY <3>1, <3>2
  <2> QED
    BY <2>3, <2>5 DEF AllLaid
<1>13. Len(buf) <= MaxBufferSize => WritesHere(d, objs)
  BY <1>12 DEF WritesHere
<1>14. \A p \in DOMAIN objects : objs[p].kind = objects[p].kind /\ objs[p].of = objects[p].of
  BY <1>3, <1>11
<1> QED
  BY <1>1, <1>7, <1>8, <1>11, <1>13, <1>14, OverwriteStep

----------------------------------------------------------------------------
(* What is remembered can be read.                                         *)

\* Nothing is everywhere.
LEMMA NothingIsLaid ==
  ASSUME NEW b, GetSize(b) = 0, VTables(b, [o \in {} |-> Fixed])
  PROVE  Laid(b, Nothing, <<>>)
<1> DEFINE W == [o \in {} |-> Fixed]
<1>1. 1 .. TaggedUpTo(b, <<>>) = {}
  BY DEF TaggedUpTo
<1>2. W \in [1 .. TaggedUpTo(b, <<>>) -> Tags]
  BY <1>1
<1>3. DOMAIN Nothing = {}
  BY DEF Nothing
<1>4. AllLaid(b.buf_.data, W, Nothing)
  BY <1>3 DEF AllLaid
<1> HIDE DEF W
<1>5. VTables(b, W) /\ AllLaid(b.buf_.data, W, Nothing)
  BY <1>4 DEF W
<1> QED
  BY <1>2, <1>5 DEF Laid

\* The builder is emptied.
LEMMA ClearLaysStep ==
  ASSUME Inv, LaidInv, ClearBuilder PROVE LaidInv'
<1>1. ASSUME NEW operation, NEW operand, operation # "builder", Call(operation, operand),
             NEW b, Emptied(b), Empties(fbb, b)
      PROVE  LaidInv'
  <2>1. adding = <<>>
    BY <1>1, OutsideTables
  <2>2. fbb' = b /\ objects' = Nothing /\ root' = NoRoot /\ adding' = <<>>
    BY <1>1, <2>1 DEF Emptied
  <2>3. /\ b \in GoodBuilders /\ b.buf_.data = <<>> /\ b.max_voffset_ = 0
        /\ b.buf_.scratch = <<>> /\ b.num_field_loc = 0
        /\ ~b.finished => b.string_pool = {}
    BY <1>1, <2>1 DEF Empties, LaidInv, NoField
  <2>4. GetSize(b) = 0
    BY <2>3 DEF GetSize, size
  <2>5. Laid(b, Nothing, <<>>)
    BY <2>3, <2>4, EmptyPad, NothingIsLaid
  <2>6. DOMAIN Nothing = {}
    BY DEF Nothing
  <2>7. KindsKnown(b, Nothing, NoRoot) /\ NoField(b, <<>>)
    BY <2>3, <2>6 DEF KindsKnown, NoField
  <2>8. KindsKnown(fbb, objects, root)' /\ NoField(fbb, adding)' /\ Laid(fbb, objects, adding)'
    BY <2>2, <2>5, <2>7
  <2> QED
    BY <2>8 DEF LaidInv
<1>2. ASSUME NEW operation, operation # "builder", Call(operation, "")
      PROVE  /\ Empties(fbb, Clear(fbb)) /\ Empties(fbb, Reset(fbb))
             /\ fbb.finished => Empties(fbb, Release(fbb))
  <2>1. fbb \in GoodBuilders /\ ~fbb.nested
    BY <1>2, OutsideTables
  <2> QED
    BY <2>1, Emptied3
<1>3. CASE Call("clear", "") /\ Emptied(Clear(fbb))
  <2>1. Empties(fbb, Clear(fbb))
    BY <1>2, <1>3
  <2> QED
    BY <1>1, <1>3, <2>1
<1>4. CASE Call("reset", "") /\ Emptied(Reset(fbb))
  <2>1. Empties(fbb, Reset(fbb))
    BY <1>2, <1>4
  <2> QED
    BY <1>1, <1>4, <2>1
<1>5. CASE Call("release", "") /\ Finished(fbb) /\ Emptied(Release(fbb))
  <2>1. Empties(fbb, Release(fbb))
    BY <1>2, <1>5 DEF Finished
  <2> QED
    BY <1>1, <1>5, <2>1
<1> QED
  BY <1>3, <1>4, <1>5 DEF ClearBuilder

\* A client starts with nothing.
LEMMA InitLaid ==
  ASSUME Init PROVE LaidInv
<1>1. fbb = NewBuilder /\ objects = Nothing /\ adding = <<>> /\ root = NoRoot
  BY DEF Init
<1>2. /\ NewBuilder.max_voffset_ = 0 /\ NewBuilder.string_pool = {}
      /\ NewBuilder.num_field_loc = 0 /\ NewBuilder.buf_.scratch = <<>>
  BY DEF NewBuilder, Empty, Vector
<1>3. DOMAIN Nothing = {}
  BY DEF Nothing
<1>4. KindsKnown(NewBuilder, Nothing, NoRoot) /\ NoField(NewBuilder, <<>>)
  BY <1>2, <1>3 DEF KindsKnown, NoField
<1>5. Laid(NewBuilder, Nothing, <<>>)
  BY <1>2, NewIsGood, EmptyPad, NothingIsLaid
<1> QED
  BY <1>1, <1>4, <1>5 DEF LaidInv

\* Every step keeps everything where it is remembered.
LEMMA NextLays ==
  ASSUME Inv, LaidInv, ShortStrings, [Next]_vars PROVE LaidInv'
<1>1. CASE UNCHANGED vars
  <2>1. UNCHANGED <<fbb, objects, adding, root>>
    BY <1>1 DEF vars
  <2> QED
    BY <2>1 DEF LaidInv, buf
<1>2. CASE \/ String \/ SharedString \/ Struct \/ VectorOfStrings \/ SortedVector \/ Direct
           \/ Create \/ Scalars \/ Structs \/ UninitializedStructs \/ AlignedVector
  BY <1>2, StringLaysStep, SharedLaysStep, StructLaysStep, StringsLaysStep, SortedLaysStep,
     DirectLaysStep, CreateLaysStep, VectorLaysStep
<1>3. CASE \/ StartTestInfo \/ AddName \/ AddLevel \/ FinishTestInfo
           \/ Settings \/ MoveBuilder \/ FinishBuffer \/ MakePacket \/ Receive
  BY <1>3, StartLaysStep, AddLaysStep, FinishTableLaysStep, SetLaysStep, FinishLaysStep,
     PacketLaysStep
<1>4. CASE Mutate \/ MutateVector \/ ClearBuilder
  BY <1>4, MutateLaysStep, MutateVectorLaysStep, ClearLaysStep
<1> QED
  BY <1>1, <1>2, <1>3, <1>4 DEF Next

\* Where everything is there, it is read back.
LEMMA LaidIsRead ==
  ASSUME Inv, LaidInv, Len(buf) <= MaxBufferSize PROVE ReadsBack
<1>1. PICK W : AllLaid(buf, W, objects)
  BY DEF LaidInv, Laid, buf
<1>2. ASSUME NEW off \in DOMAIN objects PROVE Reads(off, objects[off])
  <2> DEFINE o == objects[off]
  <2>1. ObjectLaid(buf, W, off, o) /\ o.kind \in Kinds
    BY <1>1 DEF AllLaid, LaidInv, KindsKnown
  <2> HIDE DEF o
  <2>2. o.kind \in {"string", "strings", "elements", "struct", "sorted", "table"}
    BY <2>1 DEF Kinds
  <2>3. fbb \in GoodBuilders
    BY DEF Inv
  <2>4. Reads(off, o)
    BY <2>1, <2>2, <2>3, ObjectIsRead
  <2> QED
    BY <2>4 DEF o
<1> QED
  BY <1>2 DEF ReadsBack

\* Everything made since the builder was empty is found at the offset that was returned
\* for it, with the value it was given, as long as the buffer is no larger than the
\* format's offsets can reach.
THEOREM MadeIsReadBack ==
  ASSUME ShortStrings
  PROVE  Spec => [](Len(buf) <= MaxBufferSize => ReadsBack)
<1>1. Init => Inv /\ LaidInv
  BY InitInv, InitLaid
<1>2. Inv /\ LaidInv /\ [Next]_vars => Inv' /\ LaidInv'
  BY NextStep, NextLays
<1>3. Inv /\ LaidInv => (Len(buf) <= MaxBufferSize => ReadsBack)
  BY LaidIsRead
<1> QED
  BY <1>1, <1>2, <1>3, PTL DEF Spec
=============================================================================
