---------------------------- MODULE BuilderProofs ----------------------------
(***************************************************************************)
(* What the operations of the FlatBufferBuilder do to its vector.          *)
(***************************************************************************)
EXTENDS FlatBuffers, SequenceTheorems, FiniteSetTheorems, WellFoundedInduction, TLAPS

\* The values of a scalar's bytes.
LEMMA PlacesPositive ==
  Len(Places) = 5 /\ \A i \in 1 .. 5 : Places[i] \in Nat \ {0}
<1>1. Base \in Nat /\ Base > 1
  BY VectorAssumption
<1>2. Base * Base \in Nat /\ Base * Base > 0
  BY <1>1
<1>3. Base * Base * Base \in Nat /\ Base * Base * Base > 0
  BY <1>1, <1>2
<1>4. Base * Base * Base * Base \in Nat /\ Base * Base * Base * Base > 0
  BY <1>1, <1>3
<1> QED
  BY <1>1, <1>2, <1>3, <1>4 DEF Places

\* A remainder is below its divisor.
LEMMA RemainderBelow ==
  ASSUME NEW n \in Int, NEW m \in Nat \ {0}
  PROVE  n % m \in 0 .. (m - 1)
  OBVIOUS

\* Quotient and remainder of naturals.
LEMMA Divided ==
  ASSUME NEW n \in Nat, NEW m \in Nat \ {0}
  PROVE  n \div m \in Nat /\ n = m * (n \div m) + (n % m)
  OBVIOUS

\* Products of naturals grow with their factors.
LEMMA ProductGrows ==
  ASSUME NEW m \in Nat, NEW p \in Nat, NEW q \in Nat, p <= q
  PROVE  m * p <= m * q
<1>1. m * (q - p) \in Nat /\ m * q = m * p + m * (q - p)
  OBVIOUS
<1> QED
  BY <1>1

\* A scalar is as many bytes as it is wide.
LEMMA ScalarBytes ==
  ASSUME NEW n \in Int, NEW width \in Nat
  PROVE  Scalar(n, width) \in Seq(Bytes) /\ Len(Scalar(n, width)) = width
<1>1. ASSUME NEW i \in 1 .. width
      PROVE  (IF i <= 4 THEN (n \div Places[i]) % Base
              ELSE IF n < 0 THEN Base - 1 ELSE 0) \in Bytes
  <2>1. Base \in Nat \ {0}
    BY VectorAssumption
  <2>2. CASE i <= 4
    <3>1. Places[i] \in Nat \ {0}
      BY <2>2, PlacesPositive
    <3>2. n \div Places[i] \in Int
      BY <3>1
    <3>3. (n \div Places[i]) % Base \in 0 .. (Base - 1)
      BY <2>1, <3>2, RemainderBelow
    <3> QED
      BY <2>2, <3>3 DEF Bytes
  <2>3. CASE ~(i <= 4)
    BY <2>1, <2>3 DEF Bytes
  <2> QED
    BY <2>2, <2>3
<1> QED
  BY <1>1 DEF Scalar

----------------------------------------------------------------------------
(* The vector.                                                             *)

Vectors == [reserved_ : Nat, data : Seq(Bytes), scratch : Seq(Nat)]

\* Vectors whose data and scratch pad do not meet.
SoundVectors == {v \in Vectors : Room(v) >= 0}

\* The parts of a vector.
LEMMA VectorParts ==
  ASSUME NEW v \in Vectors
  PROVE  /\ v.reserved_ \in Nat /\ v.data \in Seq(Bytes) /\ v.scratch \in Seq(Nat)
         /\ Len(v.data) \in Nat /\ Len(v.scratch) \in Nat /\ size(v) = Len(v.data)
         /\ Room(v) = v.reserved_ - Len(v.data) - 4 * Len(v.scratch)
<1>1. v.reserved_ \in Nat /\ v.data \in Seq(Bytes) /\ v.scratch \in Seq(Nat)
  BY DEF Vectors
<1> QED
  BY <1>1 DEF size, scratch_size, Room, uoffset

\* The block grows by at least what is asked for, and keeps what it holds.
LEMMA Reallocated ==
  ASSUME NEW v \in SoundVectors, NEW len \in Nat
  PROVE  /\ reallocate(v, len) \in Vectors
         /\ reallocate(v, len).data = v.data /\ reallocate(v, len).scratch = v.scratch
         /\ Room(reallocate(v, len)) >= len
<1> DEFINE more == Larger(len, IF v.reserved_ > 0 THEN v.reserved_ \div 2 ELSE initial_size_)
           n == v.reserved_ + more
<1>1. v \in Vectors /\ Room(v) >= 0
  BY DEF SoundVectors
<1>2. v.reserved_ \in Nat /\ v.reserved_ \div 2 \in Nat
  BY <1>1, VectorParts
<1>3. more \in Nat /\ more >= len
  BY <1>2, VectorAssumption DEF Larger
<1> HIDE DEF more
<1>4. n \in Nat /\ n >= v.reserved_ + len
  BY <1>2, <1>3
<1>5. (-n) % buffer_minalign_ \in Nat
  BY <1>4, VectorAssumption, RemainderBelow
<1>6. RoundUp(n, buffer_minalign_) \in Nat /\ RoundUp(n, buffer_minalign_) >= v.reserved_ + len
  BY <1>2, <1>4, <1>5 DEF RoundUp
<1>7. reallocate(v, len) = [v EXCEPT !.reserved_ = RoundUp(n, buffer_minalign_)]
  BY DEF reallocate, more
<1>8. /\ reallocate(v, len) \in Vectors
      /\ reallocate(v, len).data = v.data /\ reallocate(v, len).scratch = v.scratch
      /\ reallocate(v, len).reserved_ >= v.reserved_ + len
  BY <1>1, <1>6, <1>7 DEF Vectors
<1>9. Room(reallocate(v, len)) = reallocate(v, len).reserved_ - Len(v.data) - 4 * Len(v.scratch)
  BY <1>8, VectorParts
<1>10. Room(v) = v.reserved_ - Len(v.data) - 4 * Len(v.scratch)
       /\ Len(v.data) \in Nat /\ Len(v.scratch) \in Nat
  BY <1>1, VectorParts
<1> QED
  BY <1>1, <1>2, <1>6, <1>7, <1>8, <1>9, <1>10 DEF Vectors

\* After ensure_space there is room for what is asked for.
LEMMA SpaceEnsured ==
  ASSUME NEW v \in SoundVectors, NEW len \in Nat
  PROVE  /\ ensure_space(v, len) \in Vectors
         /\ ensure_space(v, len).data = v.data /\ ensure_space(v, len).scratch = v.scratch
         /\ Room(ensure_space(v, len)) >= len
<1>1. v \in Vectors /\ Room(v) >= 0 /\ Room(v) \in Int
  BY VectorParts DEF SoundVectors
<1>2. CASE len > Room(v)
  BY <1>1, <1>2, Reallocated DEF ensure_space
<1>3. CASE ~(len > Room(v))
  BY <1>1, <1>3 DEF ensure_space
<1> QED
  BY <1>2, <1>3

\* What is pushed is put before the data.
LEMMA Pushed ==
  ASSUME NEW v \in SoundVectors, NEW bytes \in Seq(Bytes)
  PROVE  /\ push(v, bytes) \in SoundVectors
         /\ push(v, bytes).data = bytes \o v.data
         /\ push(v, bytes).scratch = v.scratch
         /\ size(push(v, bytes)) = size(v) + Len(bytes)
<1> DEFINE w == ensure_space(v, Len(bytes))
<1>1. /\ w \in Vectors /\ w.data = v.data /\ w.scratch = v.scratch /\ Room(w) >= Len(bytes)
  BY SpaceEnsured
<1>2. push(v, bytes) = [w EXCEPT !.data = bytes \o v.data]
  BY <1>1 DEF push
<1> HIDE DEF w
<1>3. v.data \in Seq(Bytes) /\ bytes \o v.data \in Seq(Bytes)
      /\ Len(bytes \o v.data) = Len(bytes) + Len(v.data)
  BY VectorParts DEF SoundVectors
<1>4. /\ push(v, bytes) \in Vectors
      /\ push(v, bytes).data = bytes \o v.data
      /\ push(v, bytes).scratch = v.scratch
      /\ push(v, bytes).reserved_ = w.reserved_
  BY <1>1, <1>2, <1>3 DEF Vectors
<1>5. Room(push(v, bytes)) >= 0 /\ v \in Vectors
  <2>1. Room(push(v, bytes)) =
          w.reserved_ - Len(bytes \o v.data) - 4 * Len(v.scratch)
    BY <1>4, VectorParts
  <2>2. Room(w) = w.reserved_ - Len(v.data) - 4 * Len(v.scratch) /\ w.reserved_ \in Nat
    BY <1>1, VectorParts
  <2>3. v \in Vectors /\ Len(v.data) \in Nat /\ Len(v.scratch) \in Nat /\ Len(bytes) \in Nat
    BY VectorParts DEF SoundVectors
  <2> QED
    BY <1>1, <1>3, <2>1, <2>2, <2>3
<1> QED
  BY <1>3, <1>4, <1>5 DEF SoundVectors, size

\* fill pushes zeros.
LEMMA Filled0 ==
  ASSUME NEW v \in SoundVectors, NEW n \in Nat
  PROVE  /\ fill(v, n) \in SoundVectors
         /\ fill(v, n).data = [i \in 1 .. n |-> 0] \o v.data
         /\ fill(v, n).scratch = v.scratch
         /\ size(fill(v, n)) = size(v) + n
<1>1. 0 \in Bytes
  BY VectorAssumption DEF Bytes
<1>2. [i \in 1 .. n |-> 0] \in Seq(Bytes) /\ Len([i \in 1 .. n |-> 0]) = n
  BY <1>1
<1> QED
  BY <1>2, Pushed DEF fill

\* The scratch pad grows by the words pushed.
LEMMA ScratchPushed ==
  ASSUME NEW v \in SoundVectors, NEW words \in Seq(Nat)
  PROVE  /\ scratch_push(v, words) \in SoundVectors
         /\ scratch_push(v, words).data = v.data
         /\ scratch_push(v, words).scratch = v.scratch \o words
<1> DEFINE w == ensure_space(v, 4 * Len(words))
<1>1. /\ w \in Vectors /\ w.data = v.data /\ w.scratch = v.scratch
      /\ Room(w) >= 4 * Len(words)
  BY SpaceEnsured
<1>2. scratch_push(v, words) = [w EXCEPT !.scratch = v.scratch \o words]
  BY <1>1 DEF scratch_push, uoffset
<1> HIDE DEF w
<1>3. v.scratch \in Seq(Nat) /\ v.scratch \o words \in Seq(Nat)
      /\ Len(v.scratch \o words) = Len(v.scratch) + Len(words)
  BY VectorParts DEF SoundVectors
<1>4. /\ scratch_push(v, words) \in Vectors
      /\ scratch_push(v, words).data = v.data
      /\ scratch_push(v, words).scratch = v.scratch \o words
      /\ scratch_push(v, words).reserved_ = w.reserved_
  BY <1>1, <1>2, <1>3 DEF Vectors
<1>5. Room(scratch_push(v, words)) >= 0
  <2>1. Room(scratch_push(v, words)) =
          w.reserved_ - Len(v.data) - 4 * Len(v.scratch \o words)
    BY <1>4, VectorParts
  <2>2. Room(w) = w.reserved_ - Len(v.data) - 4 * Len(v.scratch) /\ w.reserved_ \in Nat
    BY <1>1, VectorParts
  <2>3. Len(v.data) \in Nat /\ Len(v.scratch) \in Nat /\ Len(words) \in Nat
    BY VectorParts DEF SoundVectors
  <2> QED
    BY <1>1, <1>3, <2>1, <2>2, <2>3
<1> QED
  BY <1>4, <1>5 DEF SoundVectors

\* pop drops the first bytes.
LEMMA Popped ==
  ASSUME NEW v \in SoundVectors, NEW n \in 0 .. size(v)
  PROVE  /\ pop(v, n) \in SoundVectors
         /\ pop(v, n).data = SubSeq(v.data, n + 1, Len(v.data))
         /\ pop(v, n).scratch = v.scratch /\ size(pop(v, n)) = size(v) - n
<1>1. v \in Vectors /\ v.data \in Seq(Bytes) /\ n \in 0 .. Len(v.data) /\ Len(v.data) \in Nat
  BY VectorParts DEF SoundVectors
<1>2. /\ SubSeq(v.data, n + 1, Len(v.data)) \in Seq(Bytes)
      /\ Len(SubSeq(v.data, n + 1, Len(v.data))) = Len(v.data) - n
  BY <1>1
<1>3. pop(v, n) = [v EXCEPT !.data = SubSeq(v.data, n + 1, Len(v.data))]
  BY DEF pop
<1>4. /\ pop(v, n) \in Vectors /\ pop(v, n).data = SubSeq(v.data, n + 1, Len(v.data))
      /\ pop(v, n).scratch = v.scratch /\ pop(v, n).reserved_ = v.reserved_
  BY <1>1, <1>2, <1>3 DEF Vectors
<1>5. Room(pop(v, n)) >= 0
  <2>1. Room(pop(v, n)) = v.reserved_ - (Len(v.data) - n) - 4 * Len(v.scratch)
    BY <1>2, <1>4, VectorParts
  <2>2. /\ Room(v) = v.reserved_ - Len(v.data) - 4 * Len(v.scratch) /\ Room(v) >= 0
        /\ v.reserved_ \in Nat /\ Len(v.data) \in Nat /\ Len(v.scratch) \in Nat
    BY <1>1, VectorParts DEF SoundVectors
  <2> QED
    BY <1>1, <2>1, <2>2
<1> QED
  BY <1>2, <1>4, <1>5 DEF SoundVectors, size

\* scratch_pop drops the last words.
LEMMA ScratchPopped ==
  ASSUME NEW v \in SoundVectors, NEW n \in 0 .. Len(v.scratch)
  PROVE  /\ scratch_pop(v, n) \in SoundVectors
         /\ scratch_pop(v, n).data = v.data
         /\ scratch_pop(v, n).scratch = SubSeq(v.scratch, 1, Len(v.scratch) - n)
<1>1. v \in Vectors /\ v.scratch \in Seq(Nat) /\ Len(v.scratch) \in Nat
  BY VectorParts DEF SoundVectors
<1>2. /\ SubSeq(v.scratch, 1, Len(v.scratch) - n) \in Seq(Nat)
      /\ Len(SubSeq(v.scratch, 1, Len(v.scratch) - n)) = Len(v.scratch) - n
  BY <1>1
<1>3. scratch_pop(v, n) = [v EXCEPT !.scratch = SubSeq(v.scratch, 1, Len(v.scratch) - n)]
  BY DEF scratch_pop
<1>4. /\ scratch_pop(v, n) \in Vectors /\ scratch_pop(v, n).data = v.data
      /\ scratch_pop(v, n).scratch = SubSeq(v.scratch, 1, Len(v.scratch) - n)
      /\ scratch_pop(v, n).reserved_ = v.reserved_
  BY <1>1, <1>2, <1>3 DEF Vectors
<1>5. Room(scratch_pop(v, n)) >= 0
  <2>1. Room(scratch_pop(v, n)) = v.reserved_ - Len(v.data) - 4 * (Len(v.scratch) - n)
    BY <1>2, <1>4, VectorParts
  <2>2. /\ Room(v) = v.reserved_ - Len(v.data) - 4 * Len(v.scratch) /\ Room(v) >= 0
        /\ v.reserved_ \in Nat /\ Len(v.data) \in Nat /\ Len(v.scratch) \in Nat
    BY <1>1, VectorParts DEF SoundVectors
  <2> QED
    BY <1>1, <2>1, <2>2
<1> QED
  BY <1>4, <1>5 DEF SoundVectors

----------------------------------------------------------------------------
(* Functions defined by recursion over 0 .. n.                             *)

LessThan == {ss \in Nat \X Nat : ss[1] < ss[2]}

\* A nonempty set of naturals has a smallest element.
LEMMA SmallestMember ==
  ASSUME NEW S, S \subseteq Nat, S # {}
  PROVE  \E m \in S : \A k \in S : m <= k
<1>1. IsWellFoundedOn(LessThan, Nat)
  BY NatLessThanWellFounded DEF OpToRel, LessThan
<1>2. PICK m \in S : \A k \in S : ~(<<k, m>> \in LessThan)
  BY <1>1, WFMin
<1>3. ASSUME NEW k \in S PROVE m <= k
  <2>1. m \in Nat /\ k \in Nat
    OBVIOUS
  <2>2. <<k, m>> \in LessThan <=> k < m
    BY <2>1 DEF LessThan
  <2> QED
    BY <1>2, <2>1, <2>2
<1> QED
  BY <1>3

\* Induction up to n, for a set of numbers.
LEMMA UpTo ==
  ASSUME NEW n \in Nat, NEW S, 0 \in S, \A k \in 0 .. (n - 1) : k \in S => k + 1 \in S
  PROVE  \A k \in 0 .. n : k \in S
<1> DEFINE T == {k \in 0 .. n : k \notin S}
<1>1. SUFFICES ASSUME T # {} PROVE FALSE
  OBVIOUS
<1>2. T \subseteq Nat
  OBVIOUS
<1>3. PICK m \in T : \A k \in T : m <= k
  BY <1>1, <1>2, SmallestMember
<1>4. m \in 0 .. n /\ m \notin S /\ m # 0
  OBVIOUS
<1>5. m - 1 \in 0 .. (n - 1) /\ m - 1 \in 0 .. n /\ (m - 1) + 1 = m /\ ~(m <= m - 1)
  BY <1>4
<1>6. m - 1 \in S
  BY <1>3, <1>5
<1> QED
  BY <1>4, <1>5, <1>6

\* f takes n steps one after the other, from b.
Runs(f, X, n, b, step) ==
  /\ f \in [0 .. n -> X]
  /\ f[0] = b /\ \A i \in 1 .. n : f[i] = step[<<f[i - 1], i>>]

\* n steps can be taken one after the other, from b.
LEMMA StepsExist ==
  ASSUME NEW X, NEW n \in Nat, NEW b \in X, NEW step \in [X \X (1 .. n) -> X]
  PROVE  \E f : Runs(f, X, n, b, step)
<1> DEFINE Taken(k) == {f \in [0 .. k -> X] :
                          f[0] = b /\ \A i \in 1 .. k : f[i] = step[<<f[i - 1], i>>]}
           S == {k \in 0 .. n : Taken(k) # {}}
<1>1. Taken(0) # {}
  <2> DEFINE f == [i \in 0 .. 0 |-> b]
  <2>1. f \in [0 .. 0 -> X] /\ f[0] = b /\ \A i \in 1 .. 0 : f[i] = step[<<f[i - 1], i>>]
    OBVIOUS
  <2> QED
    BY <2>1
<1>2. ASSUME NEW k \in 0 .. (n - 1), Taken(k) # {} PROVE Taken(k + 1) # {}
  <2>1. PICK f \in [0 .. k -> X] :
          f[0] = b /\ \A i \in 1 .. k : f[i] = step[<<f[i - 1], i>>]
    BY <1>2
  <2> HIDE DEF Taken, S
  <2> DEFINE g == [i \in 0 .. (k + 1) |-> IF i <= k THEN f[i] ELSE step[<<f[k], k + 1>>]]
  <2>2. k \in Nat /\ k + 1 \in 1 .. n /\ f[k] \in X
    BY <2>1
  <2>3. step[<<f[k], k + 1>>] \in X
    BY <2>2
  <2>4. ASSUME NEW i \in 0 .. (k + 1) PROVE g[i] \in X
    BY <2>1, <2>2, <2>3
  <2>5. g \in [0 .. (k + 1) -> X]
    BY <2>4
  <2>6. g[0] = b
    BY <2>1, <2>2
  <2>7. ASSUME NEW i \in 1 .. (k + 1) PROVE g[i] = step[<<g[i - 1], i>>]
    <3>1. i - 1 \in 0 .. k /\ i \in 0 .. (k + 1) /\ i - 1 \in 0 .. (k + 1)
      BY <2>2
    <3>2. g[i - 1] = f[i - 1]
      BY <3>1, <2>2
    <3>3. CASE i <= k
      BY <2>1, <3>1, <3>2, <3>3
    <3>4. CASE i = k + 1
      BY <3>1, <3>2, <3>4, <2>2
    <3> QED
      BY <3>3, <3>4, <2>2
  <2> QED
    BY <2>5, <2>6, <2>7 DEF Taken
<1> HIDE DEF Taken
<1>3. 0 \in S /\ \A k \in 0 .. (n - 1) : k \in S => k + 1 \in S
  BY <1>1, <1>2
<1>4. n \in S
  <2> HIDE DEF S
  <2>1. n \in 0 .. n
    OBVIOUS
  <2>2. \A k \in 0 .. n : k \in S
    BY <1>3, UpTo
  <2> QED
    BY <2>1, <2>2
<1> QED
  BY <1>4 DEF Taken, Runs

----------------------------------------------------------------------------
(* Bytes in sequences.                                                     *)

\* Elements of one width make a sequence of bytes.
LEMMA JoinedBytes ==
  ASSUME NEW width \in Nat, NEW elems \in Seq(Seq(Bytes)),
         \A i \in 1 .. Len(elems) : Len(elems[i]) = width
  PROVE  Joined(elems, width) \in Seq(Bytes) /\ Len(Joined(elems, width)) = Len(elems) * width
<1> DEFINE n == Len(elems)
<1>1. n \in Nat /\ n * width \in Nat
  OBVIOUS
<1>2. ASSUME NEW i \in 1 .. (n * width)
      PROVE  elems[(i - 1) \div width + 1][((i - 1) % width) + 1] \in Bytes
  <2>1. width \in Nat \ {0} /\ i \in Nat /\ i >= 1 /\ i - 1 \in Nat
    <3>1. width # 0
      BY <1>1, <1>2
    <3> QED
      BY <1>1, <3>1
  <2> DEFINE q == (i - 1) \div width
             r == (i - 1) % width
  <2>2. q \in Nat /\ r \in 0 .. (width - 1) /\ i - 1 = width * q + r
    <3>1. i - 1 \in Nat /\ i - 1 \in Int /\ width \in Nat \ {0}
      BY <2>1
    <3>2. q \in Nat /\ i - 1 = width * q + r
      BY <3>1, Divided
    <3>3. r \in 0 .. (width - 1)
      BY <3>1, RemainderBelow
    <3> QED
      BY <3>2, <3>3
  <2> HIDE DEF q, r
  <2>3. q < n
    <3>1. SUFFICES ASSUME q >= n PROVE FALSE
      BY <1>1, <2>2
    <3>2. width * q >= width * n
      BY <1>1, <2>1, <2>2, <3>1, ProductGrows
    <3>3. i - 1 < n * width /\ n * width = width * n /\ i - 1 \in Nat
      BY <1>1, <1>2, <2>1
    <3>4. width * q <= i - 1 /\ width * q \in Nat /\ width * n \in Nat
      BY <1>1, <2>1, <2>2
    <3> QED
      BY <3>2, <3>3, <3>4
  <2>4. q + 1 \in 1 .. n /\ r + 1 \in 1 .. width
    BY <1>1, <2>1, <2>2, <2>3
  <2>5. elems[q + 1] \in Seq(Bytes) /\ Len(elems[q + 1]) = width
    BY <2>4
  <2>6. elems[q + 1][r + 1] \in Bytes
    BY <2>4, <2>5
  <2> QED
    BY <2>6 DEF q, r
<1> DEFINE m == n * width
           bytes == [i \in 1 .. m |-> elems[(i - 1) \div width + 1][((i - 1) % width) + 1]]
<1>3. bytes \in [1 .. m -> Bytes]
  BY <1>2
<1>4. Joined(elems, width) = bytes
  BY DEF Joined
<1>5. m = Len(elems) * width
  OBVIOUS
<1> HIDE DEF m, bytes
<1>6. m \in Nat
  BY <1>1, <1>5
<1>7. bytes \in Seq(Bytes) /\ Len(bytes) = m
  BY <1>3, <1>6
<1> QED
  BY <1>4, <1>5, <1>7

\* What was at the end of the bytes is at their end when others are put before them.
LEMMA KeptBehind ==
  ASSUME NEW d \in Seq(Bytes), NEW bytes \in Seq(Bytes)
  PROVE  Kept(d, bytes \o d)
<1>1. bytes \o d \in Seq(Bytes) /\ Len(bytes \o d) = Len(bytes) + Len(d)
      /\ Len(d) \in Nat /\ Len(bytes) \in Nat
  OBVIOUS
<1>2. ASSUME NEW i \in 1 .. Len(d) PROVE (bytes \o d)[Len(bytes) + i] = d[i]
  OBVIOUS
<1>3. Len(bytes \o d) - Len(d) = Len(bytes) /\ DOMAIN d = 1 .. Len(d)
  BY <1>1
<1> QED
  BY <1>1, <1>2, <1>3 DEF Kept

\* Keeping is transitive.
LEMMA KeptKept ==
  ASSUME NEW d \in Seq(Bytes), NEW e \in Seq(Bytes), NEW f \in Seq(Bytes),
         Kept(d, e), Kept(e, f)
  PROVE  Kept(d, f)
<1>1. /\ Len(d) \in Nat /\ Len(e) \in Nat /\ Len(f) \in Nat
      /\ Len(d) <= Len(e) /\ Len(e) <= Len(f)
      /\ DOMAIN d = 1 .. Len(d) /\ DOMAIN e = 1 .. Len(e)
  BY DEF Kept
<1>2. ASSUME NEW i \in DOMAIN d PROVE f[Len(f) - Len(d) + i] = d[i]
  <2> DEFINE j == Len(e) - Len(d) + i
  <2>1. j \in DOMAIN e /\ Len(f) - Len(e) + j = Len(f) - Len(d) + i
    BY <1>1
  <2>2. e[j] = d[i]
    BY DEF Kept
  <2> HIDE DEF j
  <2>3. f[Len(f) - Len(e) + j] = e[j]
    BY <2>1 DEF Kept
  <2> QED
    BY <2>1, <2>2, <2>3
<1> QED
  BY <1>1, <1>2 DEF Kept

\* Bytes are kept by themselves.
LEMMA KeptSame ==
  ASSUME NEW d \in Seq(Bytes)
  PROVE  Kept(d, d)
<1>1. Len(d) \in Nat /\ \A i \in DOMAIN d : Len(d) - Len(d) + i = i
  OBVIOUS
<1> QED
  BY <1>1 DEF Kept

\* A write changes bytes only.
LEMMA Written ==
  ASSUME NEW v \in SoundVectors, NEW off, NEW bytes \in Seq(Bytes)
  PROVE  LET w == WriteAt(v, off, bytes)
         IN  /\ w \in SoundVectors /\ w.scratch = v.scratch /\ size(w) = size(v)
             /\ \A i \in 1 .. size(v) :
                  w.data[i] = IF i - (size(v) - off) \in 1 .. Len(bytes)
                              THEN bytes[i - (size(v) - off)] ELSE v.data[i]
<1> DEFINE w == WriteAt(v, off, bytes)
           changed == [i \in DOMAIN v.data |->
                         LET j == i - (size(v) - off)
                         IN  IF j \in DOMAIN bytes THEN bytes[j] ELSE v.data[i]]
<1>1. v \in Vectors /\ v.data \in Seq(Bytes) /\ size(v) = Len(v.data) /\ Len(v.data) \in Nat
  BY VectorParts DEF SoundVectors
<1>2. DOMAIN v.data = 1 .. Len(v.data) /\ DOMAIN bytes = 1 .. Len(bytes)
  BY <1>1
<1>3. \A i \in 1 .. Len(v.data) : changed[i] \in Bytes
  BY <1>1, <1>2
<1>4. changed \in Seq(Bytes) /\ Len(changed) = Len(v.data)
  BY <1>1, <1>2, <1>3
<1>5. w = [v EXCEPT !.data = changed]
  BY DEF WriteAt
<1>6. \A i \in 1 .. size(v) : changed[i] = IF i - (size(v) - off) \in 1 .. Len(bytes)
                                           THEN bytes[i - (size(v) - off)] ELSE v.data[i]
  BY <1>1, <1>2
<1> HIDE DEF changed
<1>7. /\ w \in Vectors /\ w.data = changed /\ w.scratch = v.scratch
      /\ w.reserved_ = v.reserved_
  BY <1>1, <1>4, <1>5 DEF Vectors
<1>8. Room(w) = Room(v)
  <2>1. Room(w) = w.reserved_ - Len(w.data) - 4 * Len(w.scratch)
    BY <1>7, VectorParts
  <2>2. Room(v) = v.reserved_ - Len(v.data) - 4 * Len(v.scratch)
    BY <1>1, VectorParts
  <2> QED
    BY <1>4, <1>7, <2>1, <2>2
<1>9. size(w) = Len(w.data)
  BY <1>7, VectorParts
<1>10. w \in SoundVectors /\ w.scratch = v.scratch /\ size(w) = size(v)
  BY <1>1, <1>4, <1>7, <1>8, <1>9 DEF SoundVectors
<1> HIDE DEF w
<1> QED
  BY <1>6, <1>7, <1>10 DEF w

----------------------------------------------------------------------------
(* The builder.                                                            *)

\* Builders with fields of their types.
Builders ==
  [buf_ : SoundVectors, num_field_loc : Nat, max_voffset_ : Nat, nested : BOOLEAN,
   finished : BOOLEAN, minalign_ : 1 .. MaxAlignment, force_defaults_ : BOOLEAN,
   dedup_vtables_ : BOOLEAN, string_pool : SUBSET Nat,
   pool_buf : {"none", "own", "other"}, result : Nat]

\* The fields of the table being built are on the scratch pad, and outside of a
\* table there are none.
GoodBuilders ==
  {b \in Builders : /\ Len(b.buf_.scratch) >= 2 * b.num_field_loc
                    /\ ~b.nested => b.num_field_loc = 0}

\* c is b with bytes put before its data; minalign_ and result may differ.
Writes(b, c) ==
  /\ b \in GoodBuilders /\ c \in GoodBuilders
  /\ Kept(b.buf_.data, c.buf_.data)
  /\ c.buf_.scratch = b.buf_.scratch /\ c.num_field_loc = b.num_field_loc
  /\ c.max_voffset_ = b.max_voffset_ /\ c.nested = b.nested /\ c.finished = b.finished
  /\ c.force_defaults_ = b.force_defaults_ /\ c.dedup_vtables_ = b.dedup_vtables_
  /\ c.string_pool = b.string_pool /\ c.pool_buf = b.pool_buf

\* The parts of a builder.
LEMMA BuilderParts ==
  ASSUME NEW b \in GoodBuilders
  PROVE  /\ b \in Builders
         /\ b.buf_ \in SoundVectors /\ b.buf_ \in Vectors
         /\ b.buf_.data \in Seq(Bytes) /\ b.buf_.scratch \in Seq(Nat)
         /\ b.num_field_loc \in Nat /\ b.max_voffset_ \in Nat
         /\ b.nested \in BOOLEAN /\ b.minalign_ \in 1 .. 16 /\ b.result \in Nat
         /\ b.string_pool \subseteq Nat
         /\ GetSize(b) = Len(b.buf_.data) /\ GetSize(b) \in Nat
<1>1. b \in Builders /\ b.buf_ \in SoundVectors /\ b.buf_ \in Vectors
  BY DEF GoodBuilders, Builders, SoundVectors
<1>2. /\ b.buf_.data \in Seq(Bytes) /\ b.buf_.scratch \in Seq(Nat)
      /\ size(b.buf_) = Len(b.buf_.data) /\ Len(b.buf_.data) \in Nat
  BY <1>1, VectorParts
<1> QED
  BY <1>1, <1>2 DEF Builders, MaxAlignment, GetSize

\* A vector with more data takes the place of the builder's.
LEMMA VectorReplaced ==
  ASSUME NEW b \in GoodBuilders, NEW v \in SoundVectors, NEW m \in 1 .. 16,
         v.scratch = b.buf_.scratch, Kept(b.buf_.data, v.data)
  PROVE  /\ Writes(b, [b EXCEPT !.buf_ = v, !.minalign_ = m])
         /\ [b EXCEPT !.buf_ = v, !.minalign_ = m].buf_ = v
<1> DEFINE c == [b EXCEPT !.buf_ = v, !.minalign_ = m]
<1>1. b \in Builders
  BY BuilderParts
<1>2. c \in Builders /\ c.buf_ = v
  BY <1>1 DEF Builders, MaxAlignment
<1>3. /\ c.num_field_loc = b.num_field_loc /\ c.max_voffset_ = b.max_voffset_
      /\ c.nested = b.nested /\ c.finished = b.finished
      /\ c.force_defaults_ = b.force_defaults_ /\ c.dedup_vtables_ = b.dedup_vtables_
      /\ c.string_pool = b.string_pool /\ c.pool_buf = b.pool_buf
  BY <1>1 DEF Builders
<1> HIDE DEF c
<1>4. c \in GoodBuilders
  BY <1>2, <1>3 DEF GoodBuilders
<1>5. Writes(b, c)
  BY <1>2, <1>3, <1>4 DEF Writes
<1> QED
  BY <1>2, <1>5 DEF c

\* Writing is transitive.
LEMMA WritesOn ==
  ASSUME NEW b, NEW c, NEW d, Writes(b, c), Writes(c, d)
  PROVE  Writes(b, d)
<1>1. b \in GoodBuilders /\ c \in GoodBuilders /\ d \in GoodBuilders
  BY DEF Writes
<1>2. /\ b.buf_.data \in Seq(Bytes) /\ c.buf_.data \in Seq(Bytes) /\ d.buf_.data \in Seq(Bytes)
  BY <1>1, BuilderParts
<1>3. Kept(b.buf_.data, c.buf_.data) /\ Kept(c.buf_.data, d.buf_.data)
  BY DEF Writes
<1>4. Kept(b.buf_.data, d.buf_.data)
  BY <1>2, <1>3, KeptKept
<1> QED
  BY <1>1, <1>4 DEF Writes

\* What is returned does not matter.
LEMMA Returned ==
  ASSUME NEW b, NEW c, NEW off \in Nat, Writes(b, c)
  PROVE  /\ Writes(b, Return(c, off)) /\ Return(c, off).result = off
         /\ Return(c, off).buf_ = c.buf_
<1> DEFINE d == Return(c, off)
<1>1. b \in GoodBuilders /\ c \in GoodBuilders /\ c \in Builders
  BY BuilderParts DEF Writes
<1>2. d \in Builders /\ d.buf_ = c.buf_ /\ d.result = off
  BY <1>1 DEF Builders, Return
<1>3. /\ d.num_field_loc = c.num_field_loc /\ d.max_voffset_ = c.max_voffset_
      /\ d.nested = c.nested /\ d.finished = c.finished
      /\ d.force_defaults_ = c.force_defaults_ /\ d.dedup_vtables_ = c.dedup_vtables_
      /\ d.string_pool = c.string_pool /\ d.pool_buf = c.pool_buf
  BY <1>1 DEF Builders, Return
<1> HIDE DEF d
<1>4. d \in GoodBuilders
  BY <1>1, <1>2, <1>3 DEF GoodBuilders
<1>5. Writes(b, d)
  BY <1>1, <1>2, <1>3, <1>4 DEF Writes
<1> QED
  BY <1>2, <1>5 DEF d

\* A bit is 0 or 1.
LEMMA BitIsBit ==
  ASSUME NEW m \in Int, NEW p \in Nat \ {0}
  PROVE  (m \div p) % 2 \in {0, 1}
<1>1. m \div p \in Int /\ 2 \in Nat \ {0}
  OBVIOUS
<1>2. (m \div p) % 2 \in 0 .. (2 - 1)
  BY <1>1, RemainderBelow
<1> QED
  BY <1>2

\* Padding is a number of bytes.
LEMMA PaddingIsNat ==
  ASSUME NEW n \in Nat, NEW s \in Nat
  PROVE  PaddingBytes(n, s) \in Nat
<1> DEFINE Bit(m, p) == (m \div p) % 2
           And(p) == p * Bit(-n, p) * Bit(s - 1, p)
<1>1. ASSUME NEW p \in Nat \ {0} PROVE And(p) \in Nat
  <2>1. Bit(-n, p) \in {0, 1} /\ Bit(s - 1, p) \in {0, 1}
    BY BitIsBit
  <2> HIDE DEF Bit
  <2> QED
    BY <2>1
<1> HIDE DEF And
<1>2. And(1) \in Nat /\ And(2) \in Nat /\ And(4) \in Nat /\ And(8) \in Nat /\ And(16) \in Nat
  BY <1>1
<1>3. And(1) + And(2) + And(4) + And(8) + And(16) \in Nat
  BY <1>2
<1> QED
  BY <1>3 DEF PaddingBytes, And

\* Zeros are written, and the alignment is remembered.
LEMMA PaddingWritten ==
  ASSUME NEW b \in GoodBuilders, NEW n \in Nat, NEW a \in 1 .. 16
  PROVE  LET c == [TrackMinAlign(b, a) EXCEPT !.buf_ = fill(@, n)]
         IN  Writes(b, c) /\ GetSize(c) = GetSize(b) + n
<1> DEFINE m == Larger(b.minalign_, a)
           c == [b EXCEPT !.buf_ = fill(b.buf_, n), !.minalign_ = m]
<1>1. /\ b.buf_ \in SoundVectors /\ b.buf_.data \in Seq(Bytes) /\ m \in 1 .. 16
      /\ GetSize(b) = size(b.buf_)
  BY BuilderParts DEF Larger, GetSize
<1>2. /\ fill(b.buf_, n) \in SoundVectors /\ fill(b.buf_, n).scratch = b.buf_.scratch
      /\ fill(b.buf_, n).data = [i \in 1 .. n |-> 0] \o b.buf_.data
      /\ size(fill(b.buf_, n)) = size(b.buf_) + n
  BY <1>1, Filled0
<1>3. [i \in 1 .. n |-> 0] \in Seq(Bytes)
  BY VectorAssumption DEF Bytes
<1>4. Kept(b.buf_.data, fill(b.buf_, n).data)
  BY <1>1, <1>2, <1>3, KeptBehind
<1>5. Writes(b, c) /\ c.buf_ = fill(b.buf_, n)
  BY <1>1, <1>2, <1>4, VectorReplaced
<1>6. [TrackMinAlign(b, a) EXCEPT !.buf_ = fill(@, n)] = c
  BY BuilderParts DEF TrackMinAlign, Builders
<1> QED
  BY <1>1, <1>2, <1>5, <1>6 DEF GetSize

\* PreAlign and Align write zeros.
LEMMA Aligned ==
  ASSUME NEW b \in GoodBuilders, NEW len \in Nat, NEW a \in 1 .. 16
  PROVE  Writes(b, PreAlign(b, len, a)) /\ Writes(b, Align(b, a))
<1>1. b.buf_ = TrackMinAlign(b, a).buf_ /\ size(b.buf_) \in Nat
  BY BuilderParts DEF TrackMinAlign, Builders, GetSize
<1>2. size(b.buf_) + len \in Nat /\ a \in Nat
  BY <1>1
<1>3. PaddingBytes(size(b.buf_) + len, a) \in Nat /\ PaddingBytes(size(b.buf_), a) \in Nat
  BY <1>1, <1>2, PaddingIsNat
<1> QED
  BY <1>1, <1>3, PaddingWritten DEF PreAlign, Align

\* Bytes are written before the data.
LEMMA BytesPushed ==
  ASSUME NEW b \in GoodBuilders, NEW bytes \in Seq(Bytes)
  PROVE  /\ Writes(b, PushBytes(b, bytes)) /\ GetSize(PushBytes(b, bytes)) = GetSize(b) + Len(bytes)
         /\ PushBytes(b, bytes).buf_.data = bytes \o b.buf_.data
<1> DEFINE v == push(b.buf_, bytes)
           m == b.minalign_
           c == [b EXCEPT !.buf_ = v, !.minalign_ = m]
<1>1. /\ b.buf_ \in SoundVectors /\ b.buf_.data \in Seq(Bytes) /\ b.minalign_ \in 1 .. 16
      /\ GetSize(b) = size(b.buf_)
  BY BuilderParts DEF GetSize
<1>2. /\ push(b.buf_, bytes) \in SoundVectors /\ push(b.buf_, bytes).scratch = b.buf_.scratch
      /\ push(b.buf_, bytes).data = bytes \o b.buf_.data
      /\ size(push(b.buf_, bytes)) = size(b.buf_) + Len(bytes)
  BY <1>1, Pushed
<1>3. Kept(b.buf_.data, push(b.buf_, bytes).data)
  BY <1>1, <1>2, KeptBehind
<1>4. Writes(b, c) /\ c.buf_ = v
  <2> HIDE DEF v, m
  <2>1. v \in SoundVectors /\ v.scratch = b.buf_.scratch /\ Kept(b.buf_.data, v.data)
        /\ m \in 1 .. 16
    BY <1>1, <1>2, <1>3 DEF v, m
  <2> QED
    BY <2>1, VectorReplaced
<1>5. PushBytes(b, bytes) = c
  BY BuilderParts DEF PushBytes, Builders
<1> QED
  BY <1>1, <1>2, <1>4, <1>5 DEF GetSize

\* Only good builders write.
LEMMA WritesGood ==
  ASSUME NEW b, NEW c, Writes(b, c)
  PROVE  b \in GoodBuilders /\ c \in GoodBuilders
  BY DEF Writes

\* What is written is at least as much as before.
LEMMA WritesGrow ==
  ASSUME NEW b, NEW c, Writes(b, c)
  PROVE  GetSize(b) \in Nat /\ GetSize(c) \in Nat /\ GetSize(b) <= GetSize(c)
<1>1. /\ GetSize(b) = Len(b.buf_.data) /\ GetSize(c) = Len(c.buf_.data)
      /\ GetSize(b) \in Nat /\ GetSize(c) \in Nat
  BY BuilderParts DEF Writes
<1> QED
  BY <1>1 DEF Writes, Kept

\* A scalar is written, aligned to its width.
LEMMA ElementPushed ==
  ASSUME NEW b \in GoodBuilders, NEW scalar \in Seq(Bytes), Len(scalar) \in 1 .. 16
  PROVE  /\ Writes(b, PushElement(b, scalar))
         /\ GetSize(PushElement(b, scalar)) >= GetSize(b) + Len(scalar)
<1> DEFINE c == Align(b, Len(scalar))
<1>1. Writes(b, c) /\ c \in GoodBuilders
  BY Aligned DEF Writes
<1>2. /\ Writes(c, PushBytes(c, scalar))
      /\ GetSize(PushBytes(c, scalar)) = GetSize(c) + Len(scalar)
  BY <1>1, BytesPushed
<1>3. Writes(b, PushBytes(c, scalar)) /\ GetSize(b) <= GetSize(c)
      /\ GetSize(b) \in Nat /\ GetSize(c) \in Nat
  BY <1>1, <1>2, WritesOn, WritesGrow
<1>4. PushElement(b, scalar) = PushBytes(c, scalar)
  BY DEF PushElement
<1> HIDE DEF c
<1> QED
  BY <1>2, <1>3, <1>4

\* A reference is 4 bytes, aligned.
LEMMA OffsetPushed ==
  ASSUME NEW b \in GoodBuilders, NEW off \in Int
  PROVE  /\ Writes(b, PushOffset(b, off))
         /\ GetSize(PushOffset(b, off)) >= GetSize(b) + 4
<1> DEFINE c == Align(b, uoffset)
           s == Scalar(GetSize(c) - off + uoffset, uoffset)
<1>1. Writes(b, c) /\ c \in GoodBuilders
  BY Aligned DEF Writes, uoffset
<1>2. GetSize(b) <= GetSize(c) /\ GetSize(b) \in Nat /\ GetSize(c) \in Nat
  BY <1>1, WritesGrow
<1>3. s \in Seq(Bytes) /\ Len(s) = 4 /\ Len(s) \in 1 .. 16
  <2>1. GetSize(c) - off + uoffset \in Int /\ uoffset \in Nat
    BY <1>2 DEF uoffset
  <2>2. s \in Seq(Bytes) /\ Len(s) = uoffset
    BY <2>1, ScalarBytes
  <2> QED
    BY <2>2 DEF uoffset
<1>4. PushOffset(b, off) = PushElement(c, s)
  BY DEF PushOffset
<1> HIDE DEF c, s
<1>5. Writes(c, PushElement(c, s)) /\ GetSize(PushElement(c, s)) >= GetSize(c) + 4
  <2>1. GetSize(PushElement(c, s)) >= GetSize(c) + Len(s) /\ Writes(c, PushElement(c, s))
    BY <1>1, <1>3, ElementPushed
  <2> QED
    BY <1>3, <2>1
<1>6. GetSize(PushElement(c, s)) \in Nat
  BY <1>5, WritesGrow
<1> QED
  BY <1>1, <1>2, <1>4, <1>5, <1>6, WritesOn

\* A builder that writes nothing.
LEMMA WritesNothing ==
  ASSUME NEW b \in GoodBuilders
  PROVE  Writes(b, b)
  BY BuilderParts, KeptSame DEF Writes

\* References are written one before the other.
LEMMA OffsetsPushed ==
  ASSUME NEW b \in GoodBuilders, NEW offs \in Seq(Nat)
  PROVE  Writes(b, PushOffsets(b, offs))
<1> DEFINE n == Len(offs)
           after == CHOOSE f : f = [i \in 0 .. n |->
                      IF i = 0 THEN b ELSE PushOffset(f[i - 1], offs[n + 1 - i])]
           step == [x \in GoodBuilders \X (1 .. n) |-> PushOffset(x[1], offs[n + 1 - x[2]])]
<1>1. n \in Nat /\ \A i \in 1 .. n : offs[n + 1 - i] \in Nat
  OBVIOUS
<1>2. ASSUME NEW c \in GoodBuilders, NEW i \in 1 .. n
      PROVE  Writes(c, PushOffset(c, offs[n + 1 - i]))
             /\ PushOffset(c, offs[n + 1 - i]) \in GoodBuilders
  <2>1. offs[n + 1 - i] \in Int
    BY <1>1
  <2> QED
    BY <2>1, OffsetPushed DEF Writes
<1>3. step \in [GoodBuilders \X (1 .. n) -> GoodBuilders]
  BY <1>2
<1>4. PICK g \in [0 .. n -> GoodBuilders] :
        g[0] = b /\ \A i \in 1 .. n : g[i] = step[<<g[i - 1], i>>]
  <2> HIDE DEF step, n
  <2>1. n \in Nat /\ b \in GoodBuilders /\ step \in [GoodBuilders \X (1 .. n) -> GoodBuilders]
    BY <1>1, <1>3
  <2>2. PICK g : Runs(g, GoodBuilders, n, b, step)
    BY <2>1, StepsExist
  <2> QED
    BY <2>2 DEF Runs
<1>5. g = [i \in 0 .. n |-> IF i = 0 THEN b ELSE PushOffset(g[i - 1], offs[n + 1 - i])]
  <2>1. ASSUME NEW i \in 1 .. n PROVE g[i] = PushOffset(g[i - 1], offs[n + 1 - i])
    <3>1. g[i - 1] \in GoodBuilders
      <4>1. i - 1 \in 0 .. n
        BY <1>1
      <4> QED
        BY <1>4, <4>1
    <3>2. g[i] = step[<<g[i - 1], i>>]
      BY <1>4
    <3> QED
      BY <3>1, <3>2
  <2> HIDE DEF n, step
  <2> QED
    BY <1>1, <1>4, <2>1
<1>6. after = [i \in 0 .. n |-> IF i = 0 THEN b ELSE PushOffset(after[i - 1], offs[n + 1 - i])]
  <2> HIDE DEF n, step
  <2> QED
    BY <1>5
<1>7. PushOffsets(b, offs) = after[n]
  BY DEF PushOffsets
<1> HIDE DEF after, step
<1> DEFINE S == {k \in 0 .. n : Writes(b, after[k])}
<1>8. 0 \in S
  BY <1>1, <1>6, WritesNothing
<1>9. ASSUME NEW k \in 0 .. (n - 1), k \in S PROVE k + 1 \in S
  <2>1. k + 1 \in 1 .. n /\ k + 1 \in 0 .. n /\ (k + 1) - 1 = k
    BY <1>1
  <2>2. after[k + 1] = PushOffset(after[k], offs[n + 1 - (k + 1)])
    BY <1>6, <2>1
  <2>3. Writes(b, after[k]) /\ after[k] \in GoodBuilders
    BY <1>9 DEF Writes
  <2>4. Writes(after[k], after[k + 1])
    BY <1>2, <2>1, <2>2, <2>3
  <2> QED
    BY <2>1, <2>3, <2>4, WritesOn
<1>10. n \in S
  <2> HIDE DEF S
  <2>1. \A k \in 0 .. n : k \in S
    BY <1>1, <1>8, <1>9, UpTo
  <2> QED
    BY <1>1, <2>1
<1> QED
  BY <1>7, <1>10

----------------------------------------------------------------------------
(* Strings, vectors and structs.                                           *)

\* c is b with more data before its own; the scratch pad may differ.
Grows(b, c) ==
  /\ b \in GoodBuilders /\ c \in GoodBuilders
  /\ Kept(b.buf_.data, c.buf_.data)
  /\ c.nested = b.nested /\ c.finished = b.finished /\ c.string_pool = b.string_pool

\* What writes grows.
LEMMA WritesGrows ==
  ASSUME NEW b, NEW c, Writes(b, c)
  PROVE  Grows(b, c)
  BY DEF Writes, Grows

\* Growing is transitive.
LEMMA GrowsOn ==
  ASSUME NEW b, NEW c, NEW d, Grows(b, c), Grows(c, d)
  PROVE  Grows(b, d)
<1>1. b \in GoodBuilders /\ c \in GoodBuilders /\ d \in GoodBuilders
  BY DEF Grows
<1>2. /\ b.buf_.data \in Seq(Bytes) /\ c.buf_.data \in Seq(Bytes) /\ d.buf_.data \in Seq(Bytes)
  BY <1>1, BuilderParts
<1>3. Kept(b.buf_.data, c.buf_.data) /\ Kept(c.buf_.data, d.buf_.data)
  BY DEF Grows
<1>4. Kept(b.buf_.data, d.buf_.data)
  BY <1>2, <1>3, KeptKept
<1> QED
  BY <1>1, <1>4 DEF Grows

\* What grows is at least as much as before.
LEMMA GrowsUp ==
  ASSUME NEW b, NEW c, Grows(b, c)
  PROVE  /\ b \in GoodBuilders /\ c \in GoodBuilders
         /\ GetSize(b) \in Nat /\ GetSize(c) \in Nat /\ GetSize(b) <= GetSize(c)
<1>1. b \in GoodBuilders /\ c \in GoodBuilders
  BY DEF Grows
<1>2. /\ GetSize(b) = Len(b.buf_.data) /\ GetSize(c) = Len(c.buf_.data)
      /\ GetSize(b) \in Nat /\ GetSize(c) \in Nat
  BY <1>1, BuilderParts
<1> QED
  BY <1>1, <1>2 DEF Grows, Kept

\* c is b with an object put before its data, at the offset it returns.
Makes(b, c) == Grows(b, c) /\ c.result \in GetSize(b) + 1 .. GetSize(c)

\* An object has a place that was not used before.
LEMMA SizeReturned ==
  ASSUME NEW b, NEW c, Writes(b, c), GetSize(c) > GetSize(b)
  PROVE  Makes(b, ReturnSize(c)) /\ ReturnSize(c).result = GetSize(c)
<1>1. GetSize(b) \in Nat /\ GetSize(c) \in Nat
  BY WritesGrow
<1>2. /\ Writes(b, ReturnSize(c)) /\ ReturnSize(c).result = GetSize(c)
      /\ ReturnSize(c).buf_ = c.buf_
  BY <1>1, Returned DEF ReturnSize
<1>3. GetSize(ReturnSize(c)) = GetSize(c)
  BY <1>2 DEF GetSize
<1> QED
  BY <1>1, <1>2, <1>3, WritesGrows DEF Makes

\* A string is written, with its length before it.
LEMMA StringMade ==
  ASSUME NEW b \in GoodBuilders, NEW str \in Seq(Bytes)
  PROVE  Makes(b, CreateString(b, str))
<1> DEFINE p == PreAlign(b, Len(str) + 1, uoffset)
           v == push(fill(p.buf_, 1), str)
           m == p.minalign_
           c == [p EXCEPT !.buf_ = v, !.minalign_ = m]
           s == Scalar(Len(str), uoffset)
<1>1. Writes(b, p) /\ p \in GoodBuilders
  <2>1. Len(str) + 1 \in Nat /\ uoffset \in 1 .. 16
    BY DEF uoffset
  <2> QED
    BY <2>1, Aligned, WritesGood
<1>2. /\ p.buf_ \in SoundVectors /\ p.buf_.data \in Seq(Bytes) /\ m \in 1 .. 16
      /\ GetSize(p) = size(p.buf_) /\ p \in Builders
  BY <1>1, BuilderParts DEF GetSize
<1>3. c = [p EXCEPT !.buf_ = push(fill(@, 1), str)]
  BY <1>2 DEF Builders
<1> HIDE DEF p
<1>4. /\ fill(p.buf_, 1) \in SoundVectors /\ fill(p.buf_, 1).scratch = p.buf_.scratch
      /\ fill(p.buf_, 1).data = [i \in 1 .. 1 |-> 0] \o p.buf_.data
  BY <1>2, Filled0
<1>5. /\ v \in SoundVectors /\ v.scratch = p.buf_.scratch
      /\ v.data = str \o fill(p.buf_, 1).data
  BY <1>4, Pushed
<1>6. [i \in 1 .. 1 |-> 0] \in Seq(Bytes) /\ fill(p.buf_, 1).data \in Seq(Bytes)
      /\ v.data \in Seq(Bytes)
  <2>1. 0 \in Bytes
    BY VectorAssumption DEF Bytes
  <2> QED
    BY <1>4, <1>5, <2>1, VectorParts DEF SoundVectors
<1>7. Kept(p.buf_.data, fill(p.buf_, 1).data) /\ Kept(fill(p.buf_, 1).data, v.data)
  BY <1>2, <1>4, <1>5, <1>6, KeptBehind
<1>8. Kept(p.buf_.data, v.data)
  BY <1>2, <1>6, <1>7, KeptKept
<1> HIDE DEF v, m
<1>9. Writes(p, c) /\ c \in GoodBuilders
  <2>1. Writes(p, c)
    BY <1>1, <1>2, <1>5, <1>8, VectorReplaced
  <2> QED
    BY <2>1, WritesGood
<1>10. s \in Seq(Bytes) /\ Len(s) = 4 /\ Len(s) \in 1 .. 16
  <2>1. Len(str) \in Int /\ uoffset \in Nat
    BY DEF uoffset
  <2>2. s \in Seq(Bytes) /\ Len(s) = uoffset
    BY <2>1, ScalarBytes
  <2> QED
    BY <2>2 DEF uoffset
<1>11. CreateString(b, str) = ReturnSize(PushElement(c, s))
  BY <1>3 DEF CreateString, p
<1> HIDE DEF c, s
<1>12. Writes(c, PushElement(c, s)) /\ GetSize(PushElement(c, s)) >= GetSize(c) + Len(s)
  BY <1>9, <1>10, ElementPushed
<1>13. Writes(b, PushElement(c, s)) /\ GetSize(PushElement(c, s)) > GetSize(b)
  <2>1. Writes(b, c)
    BY <1>1, <1>9, WritesOn
  <2>2. Writes(b, PushElement(c, s))
    BY <1>12, <2>1, WritesOn
  <2>3. GetSize(b) <= GetSize(c) /\ GetSize(b) \in Nat /\ GetSize(c) \in Nat
        /\ GetSize(PushElement(c, s)) \in Nat
    BY <2>1, <2>2, WritesGrow
  <2> QED
    BY <1>10, <1>12, <2>2, <2>3
<1> QED
  BY <1>11, <1>13, SizeReturned

\* A struct is written, aligned.
LEMMA StructMade ==
  ASSUME NEW b \in GoodBuilders, NEW bytes \in Seq(Bytes), NEW a \in 1 .. 16, Len(bytes) > 0
  PROVE  Makes(b, CreateStruct(b, bytes, a))
<1> DEFINE c == Align(b, a)
<1>1. Writes(b, c) /\ c \in GoodBuilders
  BY Aligned DEF Writes
<1>2. CreateStruct(b, bytes, a) = ReturnSize(PushBytes(c, bytes))
  BY DEF CreateStruct
<1> HIDE DEF c
<1>3. /\ Writes(c, PushBytes(c, bytes))
      /\ GetSize(PushBytes(c, bytes)) = GetSize(c) + Len(bytes)
  BY <1>1, BytesPushed
<1>4. Writes(b, PushBytes(c, bytes)) /\ GetSize(b) <= GetSize(c)
      /\ GetSize(b) \in Nat /\ GetSize(c) \in Nat
  BY <1>1, <1>3, WritesOn, WritesGrow
<1> QED
  BY <1>2, <1>3, <1>4, SizeReturned

\* A builder with another nested.
Nested(b, nested) == [b EXCEPT !.nested = nested]

\* Outside of a table nested may change.
LEMMA NestedChanged ==
  ASSUME NEW b \in GoodBuilders, NEW nested \in BOOLEAN, nested \/ b.num_field_loc = 0
  PROVE  /\ Nested(b, nested) \in GoodBuilders /\ Nested(b, nested).buf_ = b.buf_
         /\ Nested(b, nested).nested = nested
         /\ Nested(b, nested).num_field_loc = b.num_field_loc
         /\ Nested(b, nested).max_voffset_ = b.max_voffset_
         /\ Nested(b, nested).finished = b.finished
         /\ Nested(b, nested).minalign_ = b.minalign_
         /\ Nested(b, nested).force_defaults_ = b.force_defaults_
         /\ Nested(b, nested).dedup_vtables_ = b.dedup_vtables_
         /\ Nested(b, nested).string_pool = b.string_pool
         /\ Nested(b, nested).pool_buf = b.pool_buf
         /\ Nested(b, nested).result = b.result
<1> DEFINE c == [b EXCEPT !.nested = nested]
<1>1. b \in Builders
  BY BuilderParts
<1>2. /\ c \in Builders /\ c.buf_ = b.buf_ /\ c.nested = nested
      /\ c.num_field_loc = b.num_field_loc
  BY <1>1 DEF Builders
<1>3. /\ c.max_voffset_ = b.max_voffset_ /\ c.finished = b.finished
      /\ c.force_defaults_ = b.force_defaults_ /\ c.dedup_vtables_ = b.dedup_vtables_
      /\ c.string_pool = b.string_pool /\ c.pool_buf = b.pool_buf
      /\ c.minalign_ = b.minalign_ /\ c.result = b.result
  BY <1>1 DEF Builders
<1>4. Nested(b, nested) = c
  BY DEF Nested
<1> HIDE DEF c
<1>5. c \in GoodBuilders
  BY <1>2 DEF GoodBuilders
<1> QED
  BY <1>2, <1>3, <1>4, <1>5

\* What is written between the start and the end of a vector.
LEMMA VectorEnded ==
  ASSUME NEW b \in GoodBuilders, ~b.nested, NEW d, Writes(Nested(b, TRUE), d), NEW len \in Nat
  PROVE  Makes(b, EndVector(d, len))
<1> DEFINE c == Nested(d, FALSE)
           s == Scalar(len, uoffset)
<1>1. /\ Nested(b, TRUE) \in GoodBuilders /\ Nested(b, TRUE).buf_ = b.buf_
      /\ Nested(b, TRUE).num_field_loc = b.num_field_loc /\ b.num_field_loc = 0
      /\ Nested(b, TRUE).max_voffset_ = b.max_voffset_
      /\ Nested(b, TRUE).finished = b.finished
      /\ Nested(b, TRUE).force_defaults_ = b.force_defaults_
      /\ Nested(b, TRUE).dedup_vtables_ = b.dedup_vtables_
      /\ Nested(b, TRUE).string_pool = b.string_pool
      /\ Nested(b, TRUE).pool_buf = b.pool_buf
  BY NestedChanged DEF GoodBuilders
<1>2. d \in GoodBuilders /\ d.num_field_loc = 0
  BY <1>1 DEF Writes
<1>3. /\ c \in GoodBuilders /\ c.buf_ = d.buf_ /\ c.nested = FALSE
      /\ c.num_field_loc = d.num_field_loc /\ c.max_voffset_ = d.max_voffset_
      /\ c.finished = d.finished /\ c.force_defaults_ = d.force_defaults_
      /\ c.dedup_vtables_ = d.dedup_vtables_ /\ c.string_pool = d.string_pool
      /\ c.pool_buf = d.pool_buf
  BY <1>2, NestedChanged
<1> HIDE DEF c
<1>4. Writes(b, c)
  BY <1>1, <1>3, BuilderParts DEF Writes
<1>5. s \in Seq(Bytes) /\ Len(s) = 4 /\ Len(s) \in 1 .. 16
  <2>1. len \in Int /\ uoffset \in Nat
    BY DEF uoffset
  <2>2. s \in Seq(Bytes) /\ Len(s) = uoffset
    BY <2>1, ScalarBytes
  <2> QED
    BY <2>2 DEF uoffset
<1>6. EndVector(d, len) = ReturnSize(PushElement(c, s))
  BY DEF EndVector, c, Nested
<1> HIDE DEF s
<1>7. Writes(c, PushElement(c, s)) /\ GetSize(PushElement(c, s)) >= GetSize(c) + Len(s)
  BY <1>3, <1>5, ElementPushed
<1>8. Writes(b, PushElement(c, s)) /\ GetSize(b) <= GetSize(c)
      /\ GetSize(b) \in Nat /\ GetSize(c) \in Nat /\ GetSize(PushElement(c, s)) \in Nat
  BY <1>4, <1>7, WritesOn, WritesGrow
<1>9. GetSize(PushElement(c, s)) > GetSize(b)
  BY <1>5, <1>7, <1>8
<1> QED
  BY <1>6, <1>8, <1>9, SizeReturned

\* The start of a vector writes zeros.
LEMMA VectorStarted ==
  ASSUME NEW b \in GoodBuilders, NEW len \in Nat, NEW elemsize \in 1 .. 16
  PROVE  Writes(Nested(b, TRUE), StartVector(b, len, elemsize))
<1> DEFINE bytes == len * elemsize
           c == PreAlign(b, bytes, uoffset)
           d == PreAlign(c, bytes, elemsize)
<1>1. bytes \in Nat /\ uoffset \in 1 .. 16
  BY DEF uoffset
<1>2. StartVector(b, len, elemsize) = Nested(d, TRUE)
  BY DEF StartVector, Nested
<1> HIDE DEF bytes
<1>3. Writes(b, c) /\ c \in GoodBuilders
  BY <1>1, Aligned, WritesGood
<1> HIDE DEF c
<1>4. Writes(c, d) /\ d \in GoodBuilders
  BY <1>1, <1>3, Aligned, WritesGood
<1> HIDE DEF d
<1>5. Writes(b, d)
  BY <1>3, <1>4, WritesOn
<1>6. Nested(b, TRUE) \in GoodBuilders /\ Nested(d, TRUE) \in GoodBuilders
      /\ Nested(b, TRUE).buf_ = b.buf_ /\ Nested(d, TRUE).buf_ = d.buf_
      /\ Nested(b, TRUE).nested = Nested(d, TRUE).nested
  BY <1>4, NestedChanged
<1>7. Nested(b, TRUE).num_field_loc = Nested(d, TRUE).num_field_loc
      /\ Nested(b, TRUE).max_voffset_ = Nested(d, TRUE).max_voffset_
      /\ Nested(b, TRUE).finished = Nested(d, TRUE).finished
      /\ Nested(b, TRUE).force_defaults_ = Nested(d, TRUE).force_defaults_
      /\ Nested(b, TRUE).dedup_vtables_ = Nested(d, TRUE).dedup_vtables_
      /\ Nested(b, TRUE).string_pool = Nested(d, TRUE).string_pool
      /\ Nested(b, TRUE).pool_buf = Nested(d, TRUE).pool_buf
  BY <1>4, <1>5, NestedChanged DEF Writes
<1> QED
  BY <1>2, <1>5, <1>6, <1>7 DEF Writes

\* A vector of elements of one width.
LEMMA VectorMade ==
  ASSUME NEW b \in GoodBuilders, ~b.nested, NEW width \in 1 .. 16, NEW elems \in Seq(Seq(Bytes)),
         \A i \in 1 .. Len(elems) : Len(elems[i]) = width
  PROVE  Makes(b, CreateVector(b, elems, width))
<1> DEFINE c == StartVector(b, Len(elems), width)
           d == PushBytes(c, Joined(elems, width))
<1>1. Len(elems) \in Nat /\ Joined(elems, width) \in Seq(Bytes)
  BY JoinedBytes
<1>2. Writes(Nested(b, TRUE), c) /\ c \in GoodBuilders
  BY <1>1, VectorStarted DEF Writes
<1>3. CreateVector(b, elems, width) = EndVector(d, Len(elems))
  BY DEF CreateVector
<1> HIDE DEF c
<1>4. Writes(c, d)
  BY <1>1, <1>2, BytesPushed
<1> HIDE DEF d
<1>5. Writes(Nested(b, TRUE), d)
  BY <1>2, <1>4, WritesOn
<1> QED
  BY <1>1, <1>3, <1>5, VectorEnded

\* A vector of references.
LEMMA VectorOfOffsetsMade ==
  ASSUME NEW b \in GoodBuilders, ~b.nested, NEW offs \in Seq(Nat)
  PROVE  Makes(b, CreateVectorOfOffsets(b, offs))
<1> DEFINE c == StartVector(b, Len(offs), uoffset)
           d == PushOffsets(c, offs)
<1>1. Len(offs) \in Nat /\ uoffset \in 1 .. 16
  BY DEF uoffset
<1>2. Writes(Nested(b, TRUE), c) /\ c \in GoodBuilders
  BY <1>1, VectorStarted DEF Writes
<1>3. CreateVectorOfOffsets(b, offs) = EndVector(d, Len(offs))
  BY DEF CreateVectorOfOffsets
<1> HIDE DEF c
<1>4. Writes(c, d)
  BY <1>2, OffsetsPushed
<1> HIDE DEF d
<1>5. Writes(Nested(b, TRUE), d)
  BY <1>2, <1>4, WritesOn
<1> QED
  BY <1>1, <1>3, <1>5, VectorEnded

\* A vector of structs.
LEMMA VectorOfStructsMade ==
  ASSUME NEW b \in GoodBuilders, ~b.nested, NEW width \in Nat, NEW a \in 1 .. 16,
         NEW structs \in Seq(Seq(Bytes)), \A i \in 1 .. Len(structs) : Len(structs[i]) = width
  PROVE  Makes(b, CreateVectorOfStructs(b, structs, width, a))
<1> DEFINE n == (Len(structs) * width) \div a
           c == StartVector(b, n, a)
           d == PushBytes(c, Joined(structs, width))
<1>1. Len(structs) \in Nat /\ Joined(structs, width) \in Seq(Bytes)
  BY JoinedBytes
<1>2. n \in Nat
  <2>1. Len(structs) * width \in Nat /\ a \in Nat \ {0}
    BY <1>1
  <2> QED
    BY <2>1, Divided
<1>3. CreateVectorOfStructs(b, structs, width, a) = EndVector(d, Len(structs))
  BY DEF CreateVectorOfStructs
<1> HIDE DEF n
<1>4. Writes(Nested(b, TRUE), c) /\ c \in GoodBuilders
  BY <1>2, VectorStarted DEF Writes
<1> HIDE DEF c
<1>5. Writes(c, d)
  BY <1>1, <1>4, BytesPushed
<1> HIDE DEF d
<1>6. Writes(Nested(b, TRUE), d)
  BY <1>4, <1>5, WritesOn
<1> QED
  BY <1>1, <1>3, <1>6, VectorEnded

----------------------------------------------------------------------------
(* Tables.                                                                 *)

\* A field is noted on the scratch pad.
LEMMA FieldTracked ==
  ASSUME NEW b \in GoodBuilders, b.nested, NEW field \in Nat, NEW off \in Nat
  PROVE  Grows(b, TrackField(b, field, off))
<1> DEFINE v == scratch_push(b.buf_, <<off, field>>)
           n == b.num_field_loc + 1
           m == Larger(b.max_voffset_, field)
           c == [b EXCEPT !.buf_ = v, !.num_field_loc = n, !.max_voffset_ = m]
<1>1. /\ b \in Builders /\ b.buf_ \in SoundVectors /\ n \in Nat /\ m \in Nat
      /\ b.buf_.data \in Seq(Bytes) /\ b.buf_.scratch \in Seq(Nat) /\ b.num_field_loc \in Nat
  BY BuilderParts DEF Larger
<1>2. <<off, field>> \in Seq(Nat) /\ Len(<<off, field>>) = 2
  OBVIOUS
<1>3. /\ v \in SoundVectors /\ v.data = b.buf_.data
      /\ v.scratch = b.buf_.scratch \o <<off, field>>
  BY <1>1, <1>2, ScratchPushed
<1>4. TrackField(b, field, off) = c
  BY <1>1 DEF TrackField, Builders
<1> HIDE DEF v, m
<1>5. Len(v.scratch) = Len(b.buf_.scratch) + 2 /\ Len(b.buf_.scratch) \in Nat
  <2> DEFINE words == b.buf_.scratch
             word == <<off, field>>
  <2>1. words \in Seq(Nat) /\ word \in Seq(Nat) /\ Len(word) = 2 /\ v.scratch = words \o word
    BY <1>1, <1>2, <1>3
  <2> HIDE DEF words, word
  <2>2. Len(words \o word) = Len(words) + Len(word) /\ Len(words) \in Nat
    <3>1. words \in Seq(Nat) /\ word \in Seq(Nat)
      BY <2>1
    <3> QED
      BY ONLY <3>1
  <2>3. Len(v.scratch) = Len(words) + 2
    BY <2>1, <2>2
  <2> QED
    BY <2>2, <2>3 DEF words
<1>6. Len(v.scratch) >= 2 * n
  <2> DEFINE k == b.num_field_loc
             l == Len(b.buf_.scratch)
  <2>1. l >= 2 * k /\ k \in Nat /\ l \in Nat /\ Len(v.scratch) = l + 2
    BY <1>1, <1>5 DEF GoodBuilders
  <2> HIDE DEF k, l
  <2>2. Len(v.scratch) >= 2 * (k + 1)
    BY <2>1
  <2> QED
    BY <2>2 DEF k
<1> HIDE DEF n
<1>7. /\ c \in Builders /\ c.buf_ = v /\ c.num_field_loc = n /\ c.nested = b.nested
      /\ c.finished = b.finished /\ c.string_pool = b.string_pool
  BY <1>1, <1>3 DEF Builders
<1> HIDE DEF c
<1>8. c \in GoodBuilders
  BY <1>6, <1>7 DEF GoodBuilders
<1>9. Kept(b.buf_.data, c.buf_.data)
  BY <1>1, <1>3, <1>7, KeptSame
<1> QED
  BY <1>4, <1>7, <1>8, <1>9 DEF Grows

\* Growing by nothing.
LEMMA GrowsNot ==
  ASSUME NEW b \in GoodBuilders
  PROVE  Grows(b, b)
  BY WritesNothing, WritesGrows

\* A scalar of a table is written, unless it is the default.
LEMMA ElementAdded ==
  ASSUME NEW b \in GoodBuilders, b.nested, NEW field \in Nat, NEW def,
         NEW e \in Seq(Bytes), Len(e) \in 1 .. 16
  PROVE  Grows(b, AddElement(b, field, e, def))
<1> DEFINE c == PushElement(b, e)
<1>1. Writes(b, c)
  BY ElementPushed
<1>2. Grows(b, c) /\ c \in GoodBuilders /\ c.nested /\ GetSize(c) \in Nat
  BY <1>1, WritesGrows, GrowsUp DEF Writes
<1> HIDE DEF c
<1>3. Grows(c, TrackField(c, field, GetSize(c)))
  BY <1>2, FieldTracked
<1>4. Grows(b, TrackField(c, field, GetSize(c)))
  BY <1>2, <1>3, GrowsOn
<1> QED
  BY <1>4, GrowsNot DEF AddElement, c

\* A reference of a table is written, unless there is none.
LEMMA OffsetAdded ==
  ASSUME NEW b \in GoodBuilders, b.nested, NEW field \in Nat, NEW off \in Int
  PROVE  Grows(b, AddOffset(b, field, off))
<1> DEFINE c == PushOffset(b, off)
<1>1. Writes(b, c)
  BY OffsetPushed
<1>2. Grows(b, c) /\ c \in GoodBuilders /\ c.nested /\ GetSize(c) \in Nat
  BY <1>1, WritesGrows, GrowsUp DEF Writes
<1> HIDE DEF c
<1>3. Grows(c, TrackField(c, field, GetSize(c)))
  BY <1>2, FieldTracked
<1>4. Grows(b, TrackField(c, field, GetSize(c)))
  BY <1>2, <1>3, GrowsOn
<1> QED
  BY <1>4, GrowsNot DEF AddOffset, c

\* The fields of the table being built have offsets.
LEMMA FieldLocsTyped ==
  ASSUME NEW b \in GoodBuilders
  PROVE  \A id \in DOMAIN FieldLocs(b) : FieldLocs(b)[id] \in Nat
<1> DEFINE words == b.buf_.scratch
           n == b.num_field_loc
           first == Len(words) - 2 * n
           Id(i) == words[first + 2 * i]
           ids == {Id(i) : i \in 1 .. n}
           At(id) == LET i == CHOOSE i \in 1 .. n : Id(i) = id IN words[first + 2 * i - 1]
<1>1. words \in Seq(Nat) /\ Len(words) \in Nat /\ n \in Nat /\ Len(words) >= 2 * n
  BY BuilderParts DEF GoodBuilders
<1>2. ASSUME NEW id \in ids PROVE At(id) \in Nat
  <2> DEFINE i == CHOOSE i \in 1 .. n : Id(i) = id
  <2>1. \E j \in 1 .. n : Id(j) = id
    OBVIOUS
  <2>2. i \in 1 .. n
    BY <2>1
  <2> HIDE DEF i
  <2>3. first + 2 * i - 1 \in 1 .. Len(words) /\ words[first + 2 * i - 1] \in Nat
    <3> HIDE DEF words, n
    <3>1. first + 2 * i - 1 \in 1 .. Len(words)
      BY <1>1, <2>2
    <3> HIDE DEF first
    <3> QED
      BY <1>1, <3>1
  <2> QED
    BY <2>3 DEF i
<1>3. FieldLocs(b) = [id \in ids |-> At(id)]
  BY DEF FieldLocs
<1> HIDE DEF ids, At
<1> QED
  BY <1>2, <1>3

\* A vtable is a sequence of bytes.
LEMMA VTableBytes ==
  ASSUME NEW b \in GoodBuilders, NEW start \in Nat, NEW loc \in Nat
  PROVE  VTable(b, start, loc) \in Seq(Bytes)
<1> DEFINE fields == FieldLocs(b)
           length == Larger(b.max_voffset_ + voffset, FieldIndexToOffset(0))
           n == length \div voffset
           Entry(k) == CASE k = 0 -> length
                         [] k = 1 -> loc - start
                         [] OTHER -> IF voffset * k \in DOMAIN fields
                                     THEN loc - fields[voffset * k] ELSE 0
           elems == [k \in 1 .. n |-> Scalar(Entry(k - 1), voffset)]
<1>1. voffset = 2 /\ length \in Nat
  BY BuilderParts DEF voffset, FieldIndexToOffset, Larger
<1>2. n \in Nat
  <2> HIDE DEF length
  <2>1. 2 \in Nat \ {0}
    OBVIOUS
  <2> QED
    BY <1>1, <2>1, Divided
<1>3. \A id \in DOMAIN fields : fields[id] \in Nat
  BY FieldLocsTyped
<1> HIDE DEF fields, length
<1>4. ASSUME NEW k \in 1 .. n
      PROVE  Scalar(Entry(k - 1), voffset) \in Seq(Bytes)
             /\ Len(Scalar(Entry(k - 1), voffset)) = 2
  <2>1. Entry(k - 1) \in Int
    BY <1>1, <1>3
  <2> HIDE DEF Entry
  <2> QED
    BY <1>1, <2>1, ScalarBytes
<1>5. VTable(b, start, loc) = Joined(elems, voffset)
  BY DEF VTable, fields, length
<1> HIDE DEF n, Entry
<1>6. elems \in Seq(Seq(Bytes)) /\ \A i \in 1 .. Len(elems) : Len(elems[i]) = voffset
  BY <1>1, <1>2, <1>4
<1> HIDE DEF elems
<1>7. voffset \in Nat
  BY <1>1
<1> QED
  BY <1>5, <1>6, <1>7, JoinedBytes

\* A vtable written before has an offset.
LEMMA KnownIsNat ==
  ASSUME NEW b \in GoodBuilders, NEW vtable
  PROVE  KnownVTable(b, vtable) \in Nat
<1> DEFINE words == b.buf_.scratch
           known == {i \in DOMAIN words : SameVTable(b.buf_, words[i], vtable)}
           Is(i) == i \in known /\ \A j \in known : i <= j
<1>1. words \in Seq(Nat) /\ known \subseteq 1 .. Len(words) /\ Len(words) \in Nat
  BY BuilderParts
<1>2. CASE known = {} \/ ~b.dedup_vtables_
  BY <1>2 DEF KnownVTable
<1>3. CASE ~(known = {} \/ ~b.dedup_vtables_)
  <2> HIDE DEF known
  <2>1. known \subseteq Nat /\ known # {}
    BY <1>1, <1>3
  <2>2. \E i \in known : \A j \in known : i <= j
    BY <2>1, SmallestMember
  <2> DEFINE first == CHOOSE i \in known : \A j \in known : i <= j
  <2>3. first \in known
    BY <2>2
  <2>4. words[first] \in Nat
    <3>1. first \in 1 .. Len(words)
      BY <1>1, <2>3
    <3> HIDE DEF first, words
    <3> QED
      BY <1>1, <3>1
  <2>5. KnownVTable(b, vtable) = words[first]
    BY <1>3 DEF KnownVTable, known
  <2> QED
    BY <2>4, <2>5
<1> QED
  BY <1>2, <1>3

\* Bytes are kept by what drops bytes before them only.
LEMMA KeptPopped ==
  ASSUME NEW d \in Seq(Bytes), NEW e \in Seq(Bytes), Kept(d, e), NEW n \in 0 .. Len(e) - Len(d)
  PROVE  Kept(d, SubSeq(e, n + 1, Len(e)))
<1> DEFINE f == SubSeq(e, n + 1, Len(e))
<1>1. Len(d) \in Nat /\ Len(e) \in Nat /\ DOMAIN d = 1 .. Len(d) /\ n \in Nat
      /\ n <= Len(e) - Len(d) /\ n <= Len(e)
  OBVIOUS
<1>2. Len(f) = Len(e) - n /\ \A k \in 1 .. Len(e) - n : f[k] = e[k + n]
  BY <1>1
<1> HIDE DEF f
<1>3. ASSUME NEW i \in DOMAIN d PROVE f[Len(f) - Len(d) + i] = d[i]
  <2>1. Len(f) - Len(d) + i \in 1 .. Len(e) - n
        /\ Len(f) - Len(d) + i + n = Len(e) - Len(d) + i
    BY <1>1, <1>2
  <2>2. f[Len(f) - Len(d) + i] = e[Len(e) - Len(d) + i]
    BY <1>2, <2>1
  <2> QED
    BY <2>2 DEF Kept
<1>4. Len(d) <= Len(f)
  BY <1>1, <1>2
<1>5. Kept(d, f)
  BY <1>3, <1>4 DEF Kept
<1> QED
  BY <1>5 DEF f

\* Bytes are kept by a write before them.
LEMMA KeptBehindWrite ==
  ASSUME NEW d \in Seq(Bytes), NEW v \in SoundVectors, Kept(d, v.data), NEW bytes \in Seq(Bytes),
         NEW off \in Nat, Len(d) + Len(bytes) <= off
  PROVE  Kept(d, WriteAt(v, off, bytes).data)
<1> DEFINE w == WriteAt(v, off, bytes)
<1>1. /\ w \in SoundVectors /\ size(w) = size(v)
      /\ \A i \in 1 .. size(v) :
           w.data[i] = IF i - (size(v) - off) \in 1 .. Len(bytes)
                       THEN bytes[i - (size(v) - off)] ELSE v.data[i]
  BY Written
<1> HIDE DEF w
<1>2. size(w) = Len(w.data) /\ size(v) = Len(v.data) /\ size(v) \in Nat
  BY <1>1, VectorParts DEF SoundVectors
<1>3. Len(d) \in Nat /\ Len(bytes) \in Nat /\ DOMAIN d = 1 .. Len(d) /\ Len(d) <= Len(v.data)
  BY DEF Kept
<1>4. ASSUME NEW i \in DOMAIN d PROVE w.data[Len(w.data) - Len(d) + i] = d[i]
  <2> DEFINE j == Len(v.data) - Len(d) + i
  <2>1. j \in 1 .. size(v) /\ ~(j - (size(v) - off) \in 1 .. Len(bytes))
        /\ j = Len(w.data) - Len(d) + i
    <3> DEFINE all == size(v)
               old == Len(d)
               new == Len(bytes)
    <3>1. all \in Nat /\ old \in Nat /\ new \in Nat /\ i \in 1 .. old /\ old <= all
          /\ old + new <= off /\ j = all - old + i /\ Len(w.data) = all
      BY <1>1, <1>2, <1>3
    <3> HIDE DEF all, old, new, j
    <3>2. j \in 1 .. all /\ j \in Int
      BY <3>1
    <3>3. j - (all - off) > new
      <4>1. i >= 1 /\ i \in Int /\ off \in Int
        BY <3>1
      <4>2. j - (all - off) = (off - old) + i
        BY <3>1, <4>1
      <4>3. off - old >= new
        BY <3>1, <4>1
      <4> QED
        BY <3>1, <4>1, <4>2, <4>3
    <3>4. ~(j - (all - off) \in 1 .. new) /\ j = Len(w.data) - old + i
      BY <3>1, <3>3
    <3> QED
      BY <3>2, <3>4 DEF all, old, new
  <2>2. v.data[j] = d[i]
    BY DEF Kept
  <2> HIDE DEF j
  <2>3. w.data[j] = v.data[j]
    BY <1>1, <2>1
  <2> QED
    BY <2>1, <2>2, <2>3
<1>5. Kept(d, w.data)
  BY <1>1, <1>2, <1>3, <1>4 DEF Kept
<1> QED
  BY <1>5 DEF w

\* The fields of a table leave the scratch pad with it.
LEMMA OffsetsCleared ==
  ASSUME NEW b \in GoodBuilders
  PROVE  /\ ClearOffsets(b) \in GoodBuilders
         /\ ClearOffsets(b).buf_.data = b.buf_.data
         /\ ClearOffsets(b).num_field_loc = 0 /\ ClearOffsets(b).max_voffset_ = 0
         /\ ClearOffsets(b).nested = b.nested /\ ClearOffsets(b).finished = b.finished
         /\ ClearOffsets(b).string_pool = b.string_pool
<1> DEFINE n == 2 * b.num_field_loc
           v == scratch_pop(b.buf_, n)
           c == [b EXCEPT !.buf_ = v, !.num_field_loc = 0, !.max_voffset_ = 0]
<1>1. /\ b \in Builders /\ b.buf_ \in SoundVectors /\ b.num_field_loc \in Nat
      /\ b.buf_.scratch \in Seq(Nat)
  BY BuilderParts
<1>2. n \in 0 .. Len(b.buf_.scratch)
  <2>1. Len(b.buf_.scratch) \in Nat /\ n <= Len(b.buf_.scratch) /\ n \in Nat
    BY <1>1 DEF GoodBuilders
  <2> QED
    BY <2>1
<1>3. ClearOffsets(b) = c
  BY <1>1 DEF ClearOffsets, Builders
<1> HIDE DEF n
<1>4. v \in SoundVectors /\ v.data = b.buf_.data
  BY <1>1, <1>2, ScratchPopped
<1>5. v.scratch \in Seq(Nat)
  BY <1>4, VectorParts DEF SoundVectors
<1> HIDE DEF v
<1>6. /\ c \in Builders /\ c.buf_ = v /\ c.num_field_loc = 0 /\ c.nested = b.nested
      /\ c.finished = b.finished /\ c.string_pool = b.string_pool /\ c.max_voffset_ = 0
  BY <1>1, <1>4 DEF Builders
<1> HIDE DEF c
<1>7. Len(c.buf_.scratch) >= 2 * c.num_field_loc
  <2>1. Len(v.scratch) \in Nat
    BY <1>5
  <2> QED
    BY <1>6, <2>1
<1>8. c \in GoodBuilders
  BY <1>6, <1>7 DEF GoodBuilders
<1> QED
  BY <1>3, <1>4, <1>6, <1>8

\* c is b with the table that was being built put before its data.
Ends(b, c) ==
  /\ b \in GoodBuilders /\ c \in GoodBuilders
  /\ Kept(b.buf_.data, c.buf_.data)
  /\ ~c.nested /\ c.finished = b.finished /\ c.string_pool = b.string_pool
  /\ c.result \in GetSize(b) + 1 .. GetSize(c)

\* The end of a table writes the offset of its vtable over its own first bytes
\* only, and takes back no more than the vtable.
LEMMA TableEnded ==
  ASSUME NEW b \in GoodBuilders, NEW start \in Nat
  PROVE  Ends(b, EndTable(b, start))
<1> DEFINE w == PushElement(b, Scalar(0, uoffset))
           loc == GetSize(w)
           vtable == VTable(w, start, loc)
           p == PushBytes(w, vtable)
           written == ClearOffsets(p)
           known == KnownVTable(written, vtable)
           vt_use == IF known = 0 THEN GetSize(written) ELSE known
           kept == IF known = 0 THEN scratch_push(written.buf_, <<vt_use>>)
                                ELSE pop(written.buf_, Len(vtable))
           s == Scalar(vt_use - loc, uoffset)
           v == WriteAt(kept, loc, s)
           c == [written EXCEPT !.buf_ = v, !.nested = FALSE, !.result = loc]
<1>0. VTable(w, start, loc) = VTable(b, start, loc) /\ EndTable(b, start) = c
  <2>1. Writes(b, w)
    <3>1. 0 \in Int /\ uoffset \in Nat /\ uoffset \in 1 .. 16
      BY DEF uoffset
    <3>2. Scalar(0, uoffset) \in Seq(Bytes) /\ Len(Scalar(0, uoffset)) = uoffset
      BY <3>1, ScalarBytes
    <3>3. Len(Scalar(0, uoffset)) \in 1 .. 16
      BY <3>1, <3>2
    <3> QED
      BY <3>2, <3>3, ElementPushed
  <2> HIDE DEF w
  <2>2. VTable(w, start, loc) = VTable(b, start, loc)
    BY <2>1 DEF Writes, VTable, FieldLocs
  <2> QED
    BY <2>2 DEF EndTable, w
<1>1. Writes(b, w) /\ w \in GoodBuilders /\ loc >= GetSize(b) + 4
      /\ GetSize(b) \in Nat /\ loc \in Nat
  <2>1. 0 \in Int /\ uoffset \in Nat /\ uoffset \in 1 .. 16 /\ uoffset = 4
    BY DEF uoffset
  <2>2. Scalar(0, uoffset) \in Seq(Bytes) /\ Len(Scalar(0, uoffset)) = uoffset
    BY <2>1, ScalarBytes
  <2>3. Len(Scalar(0, uoffset)) \in 1 .. 16
    BY <2>1, <2>2
  <2>4. Writes(b, w) /\ loc >= GetSize(b) + Len(Scalar(0, uoffset))
    BY <2>2, <2>3, ElementPushed
  <2> HIDE DEF w
  <2> QED
    BY <2>1, <2>2, <2>4, WritesGood, WritesGrow
<1> HIDE DEF w
<1>2. vtable \in Seq(Bytes) /\ Len(vtable) \in Nat
  <2> HIDE DEF loc
  <2>1. vtable \in Seq(Bytes)
    BY <1>1, VTableBytes
  <2> QED
    BY <2>1
<1>3. Writes(w, p) /\ p \in GoodBuilders /\ GetSize(p) = loc + Len(vtable) /\ Writes(b, p)
  <2> HIDE DEF vtable
  <2>1. Writes(w, p) /\ GetSize(p) = loc + Len(vtable)
    BY <1>1, <1>2, BytesPushed
  <2> QED
    BY <1>1, <2>1, WritesGood, WritesOn
<1> HIDE DEF vtable, p
<1>4. /\ written \in GoodBuilders /\ written.buf_.data = p.buf_.data
      /\ written.num_field_loc = 0 /\ written.finished = p.finished
      /\ written.string_pool = p.string_pool
  BY <1>3, OffsetsCleared
<1> HIDE DEF written
<1>5. known \in Nat
  BY <1>4, KnownIsNat
<1> HIDE DEF known
<1>6. vt_use \in Nat /\ <<vt_use>> \in Seq(Nat)
  BY <1>4, <1>5, BuilderParts
<1> HIDE DEF vt_use
<1>7. /\ b.buf_.data \in Seq(Bytes) /\ w.buf_.data \in Seq(Bytes)
      /\ written.buf_ \in SoundVectors /\ written.buf_.data \in Seq(Bytes)
      /\ size(written.buf_) = loc + Len(vtable)
      /\ Len(w.buf_.data) = loc /\ Len(b.buf_.data) = GetSize(b)
      /\ written \in Builders
  <2>1. /\ b.buf_.data \in Seq(Bytes) /\ w.buf_.data \in Seq(Bytes)
        /\ Len(w.buf_.data) = loc /\ Len(b.buf_.data) = GetSize(b)
    BY <1>1, BuilderParts
  <2>2. /\ written.buf_ \in SoundVectors /\ written.buf_.data \in Seq(Bytes)
        /\ written \in Builders /\ GetSize(written) = Len(written.buf_.data)
        /\ GetSize(p) = Len(p.buf_.data)
    BY <1>3, <1>4, BuilderParts
  <2> QED
    BY <1>3, <1>4, <2>1, <2>2 DEF GetSize
<1>8. kept \in SoundVectors /\ size(kept) >= loc /\ size(kept) \in Nat
      /\ Kept(b.buf_.data, kept.data)
  <2>1. Kept(b.buf_.data, written.buf_.data)
    BY <1>3, <1>4 DEF Writes
  <2>2. CASE known = 0
    <3> DEFINE k == scratch_push(written.buf_, <<vt_use>>)
    <3>1. k \in SoundVectors /\ k.data = written.buf_.data
      BY <1>6, <1>7, ScratchPushed
    <3>2. size(k) = size(written.buf_)
      BY <3>1 DEF size
    <3> HIDE DEF k
    <3> QED
      BY <1>1, <1>2, <1>7, <2>1, <2>2, <3>1, <3>2 DEF k
  <2>3. CASE known # 0
    <3> DEFINE k == pop(written.buf_, Len(vtable))
               e == written.buf_.data
               d == b.buf_.data
               n == Len(vtable)
    <3>1. n \in 0 .. size(written.buf_) /\ size(written.buf_) = Len(e)
      BY <1>1, <1>2, <1>7 DEF size
    <3>2. /\ k \in SoundVectors /\ k.data = SubSeq(e, n + 1, Len(e))
          /\ size(k) = size(written.buf_) - n
      BY <1>7, <3>1, Popped
    <3>3. n \in 0 .. Len(e) - Len(d)
      BY <1>1, <1>2, <1>7, <3>1
    <3>4. d \in Seq(Bytes) /\ e \in Seq(Bytes) /\ Kept(d, e)
      BY <1>7, <2>1
    <3> HIDE DEF d, e, n
    <3>5. Kept(d, k.data)
      BY <3>2, <3>3, <3>4, KeptPopped
    <3>6. size(k) >= loc /\ size(k) \in Nat
      BY <1>1, <1>2, <1>7, <3>2 DEF n
    <3> HIDE DEF k
    <3> QED
      BY <2>3, <3>2, <3>5, <3>6 DEF k, d, n
  <2> QED
    BY <2>2, <2>3
<1> HIDE DEF kept
<1>9. s \in Seq(Bytes) /\ Len(s) = 4
  <2>1. vt_use - loc \in Int /\ uoffset \in Nat /\ uoffset = 4
    BY <1>1, <1>6 DEF uoffset
  <2> QED
    BY <2>1, ScalarBytes
<1> HIDE DEF s
<1>10. v \in SoundVectors /\ size(v) = size(kept) /\ v.scratch \in Seq(Nat)
  <2>1. v \in SoundVectors /\ size(v) = size(kept)
    BY <1>8, <1>9, Written
  <2> QED
    BY <2>1, VectorParts DEF SoundVectors
<1>11. Kept(b.buf_.data, v.data)
  <2>1. Len(b.buf_.data) + Len(s) <= loc
    BY <1>1, <1>7, <1>9
  <2> QED
    BY <1>1, <1>7, <1>8, <1>9, <2>1, KeptBehindWrite
<1> HIDE DEF v
<1>12. /\ c \in Builders /\ c.buf_ = v /\ c.nested = FALSE /\ c.result = loc
       /\ c.num_field_loc = 0 /\ c.finished = written.finished
       /\ c.string_pool = written.string_pool
  BY <1>1, <1>4, <1>7, <1>10 DEF Builders
<1> HIDE DEF c
<1>13. c \in GoodBuilders
  <2>1. Len(v.scratch) \in Nat /\ 2 * 0 = 0
    BY <1>10
  <2> QED
    BY <1>12, <2>1 DEF GoodBuilders
<1>14. c.result \in GetSize(b) + 1 .. GetSize(c)
  <2>1. GetSize(c) = size(kept)
    BY <1>10, <1>12 DEF GetSize
  <2> QED
    BY <1>1, <1>8, <1>12, <2>1
<1>15. Ends(b, c)
  BY <1>3, <1>4, <1>11, <1>12, <1>13, <1>14 DEF Ends, Writes
<1> QED
  BY <1>0, <1>15

----------------------------------------------------------------------------
(* The generated functions.                                                *)

\* A field of a table of the schema.
SchemaField(f) ==
  /\ f.kind \in {"scalar", "string", "table", "vector"}
  /\ f.width \in {1, 2, 4, 8} /\ f.default \in Int
  /\ f.kind = "table" => f.of \in DOMAIN Tables
  /\ f.kind = "vector" => f.of = "string" \/ f.of \in DOMAIN Tables
  /\ f.kind # "scalar" => f.width = 4

\* The fields of the tables are well formed.
LEMMA SchemaFields ==
  ASSUME NEW type \in DOMAIN Tables
  PROVE  /\ Len(FieldsOf(type)) \in Nat \ {0}
         /\ DOMAIN FieldsOf(type) = 1 .. Len(FieldsOf(type))
         /\ \A i \in 1 .. Len(FieldsOf(type)) : SchemaField(FieldsOf(type)[i])
<1> DEFINE types == {"TestInfo", "Type", "KeyValue", "EnumVal", "Enum", "Field", "Object",
                     "RPCCall", "Service", "Schema"}
<1>1. DOMAIN Tables = types
  BY DEF Tables
<1> USE DEF FieldsOf, Table, Num, Ref, Str, Tab, Vec, Attributes, Documentation
<1>2. CASE type = "TestInfo"
  <2>1. FieldsOf(type) = TestInfo.fields
    BY <1>2 DEF Tables
  <2> QED
    BY <1>1, <2>1 DEF TestInfo, SchemaField
<1>3. CASE type = "Type"
  <2>1. FieldsOf(type) = Type.fields
    BY <1>3 DEF Tables
  <2> QED
    BY <1>1, <2>1 DEF Type, SchemaField
<1>4. CASE type = "KeyValue"
  <2>1. FieldsOf(type) = KeyValue.fields
    BY <1>4 DEF Tables
  <2> QED
    BY <1>1, <2>1 DEF KeyValue, SchemaField
<1>5. CASE type = "EnumVal"
  <2>1. FieldsOf(type) = EnumVal.fields
    BY <1>5 DEF Tables
  <2> QED
    BY <1>1, <2>1 DEF EnumVal, SchemaField
<1>6. CASE type = "Enum"
  <2>1. FieldsOf(type) = Enum.fields
    BY <1>6 DEF Tables
  <2> QED
    BY <1>1, <2>1 DEF Enum, SchemaField
<1>7. CASE type = "Field"
  <2>1. FieldsOf(type) = Field.fields
    BY <1>7 DEF Tables
  <2> QED
    BY <1>1, <2>1 DEF Field, SchemaField
<1>8. CASE type = "Object"
  <2>1. FieldsOf(type) = Object.fields
    BY <1>8 DEF Tables
  <2> QED
    BY <1>1, <2>1 DEF Object, SchemaField
<1>9. CASE type = "RPCCall"
  <2>1. FieldsOf(type) = RPCCall.fields
    BY <1>9 DEF Tables
  <2> QED
    BY <1>1, <2>1 DEF RPCCall, SchemaField
<1>10. CASE type = "Service"
  <2>1. FieldsOf(type) = Service.fields
    BY <1>10 DEF Tables
  <2> QED
    BY <1>1, <2>1 DEF Service, SchemaField
<1>11. CASE type = "Schema"
  <2>1. FieldsOf(type) = Schema.fields
    BY <1>11 DEF Tables
  <2> QED
    BY <1>1, <2>1 DEF Schema, SchemaField
<1> QED
  BY <1>1, <1>2, <1>3, <1>4, <1>5, <1>6, <1>7, <1>8, <1>9, <1>10, <1>11

\* The names of a table's fields differ.
LEMMA NamesDiffer ==
  ASSUME NEW type \in DOMAIN Tables, NEW i \in DOMAIN FieldsOf(type)
  PROVE  NumberOf(type, FieldsOf(type)[i].name) = i
<1> USE DEF FieldsOf, Table, Num, Ref, Str, Tab, Vec, Attributes, Documentation
<1>1. SUFFICES ASSUME NEW j \in DOMAIN FieldsOf(type),
                      FieldsOf(type)[j].name = FieldsOf(type)[i].name
               PROVE  j = i
  BY DEF NumberOf
<1>2. type \in {"TestInfo", "Type", "KeyValue", "EnumVal", "Enum", "Field", "Object",
                "RPCCall", "Service", "Schema"}
  BY DEF Tables
<1>3. CASE type = "TestInfo"
  BY <1>1, <1>3 DEF Tables, TestInfo
<1>4. CASE type = "Type"
  BY <1>1, <1>4 DEF Tables, Type
<1>5. CASE type = "KeyValue"
  BY <1>1, <1>5 DEF Tables, KeyValue
<1>6. CASE type = "EnumVal"
  BY <1>1, <1>6 DEF Tables, EnumVal
<1>7. CASE type = "Enum"
  BY <1>1, <1>7 DEF Tables, Enum
<1>8. CASE type = "Field"
  BY <1>1, <1>8 DEF Tables, Field
<1>9. CASE type = "Object"
  BY <1>1, <1>9 DEF Tables, Object
<1>10. CASE type = "RPCCall"
  BY <1>1, <1>10 DEF Tables, RPCCall
<1>11. CASE type = "Service"
  BY <1>1, <1>11 DEF Tables, Service
<1>12. CASE type = "Schema"
  BY <1>1, <1>12 DEF Tables, Schema
<1> QED
  BY <1>2, <1>3, <1>4, <1>5, <1>6, <1>7, <1>8, <1>9, <1>10, <1>11, <1>12

\* What a table is made of: the bytes of its scalars, the offsets of the rest.
Arguments(type, args) ==
  \A i \in 1 .. Len(FieldsOf(type)) :
    LET f == FieldsOf(type)[i]
    IN  IF f.kind = "scalar" THEN args[f.name] \in Seq(Bytes) /\ Len(args[f.name]) = f.width
                             ELSE args[f.name] \in Nat

\* A field is added.
LEMMA FieldAdded ==
  ASSUME NEW b \in GoodBuilders, b.nested, NEW f, SchemaField(f), NEW field \in Nat, NEW arg,
         IF f.kind = "scalar" THEN arg \in Seq(Bytes) /\ Len(arg) = f.width ELSE arg \in Nat
  PROVE  Grows(b, AddField(b, f, field, arg))
<1>1. CASE f.kind = "scalar"
  <2>1. arg \in Seq(Bytes) /\ Len(arg) \in 1 .. 16
    <3>1. f.width \in {1, 2, 4, 8}
      BY DEF SchemaField
    <3>2. arg \in Seq(Bytes) /\ Len(arg) = f.width
      BY <1>1
    <3>3. Len(arg) \in 1 .. 16
      BY <3>1, <3>2
    <3> QED
      BY <3>2, <3>3
  <2> QED
    BY <1>1, <2>1, ElementAdded DEF AddField
<1>2. CASE f.kind # "scalar"
  <2>1. arg \in Int
    BY <1>2
  <2> QED
    BY <1>2, <2>1, OffsetAdded DEF AddField
<1> QED
  BY <1>1, <1>2

\* The fields are added in four passes.
LEMMA FieldsAdded ==
  ASSUME NEW b \in GoodBuilders, b.nested, NEW type \in DOMAIN Tables, NEW args,
         Arguments(type, args)
  PROVE  Grows(b, AddFields(b, type, args))
<1> DEFINE fields == FieldsOf(type)
           n == Len(fields)
           Number(k) == n - ((k - 1) % n)
           Width(k) == <<8, 4, 2, 1>>[(k - 1) \div n + 1]
           Add(c, k) == IF fields[Number(k)].width # Width(k) THEN c
                        ELSE AddField(c, fields[Number(k)], FieldIndexToOffset(Number(k) - 1),
                                      args[fields[Number(k)].name])
           added == CHOOSE g : g = [k \in 0 .. 4 * n |-> IF k = 0 THEN b ELSE Add(g[k - 1], k)]
           X == {c \in GoodBuilders : c.nested}
           step == [x \in X \X (1 .. 4 * n) |-> Add(x[1], x[2])]
<1>1. n \in Nat \ {0} /\ 4 * n \in Nat /\ \A i \in 1 .. n : SchemaField(fields[i])
  BY SchemaFields
<1>2. AddFields(b, type, args) = added[4 * n]
  BY DEF AddFields
<1> HIDE DEF n
<1>3. ASSUME NEW c \in X, NEW k \in 1 .. 4 * n
      PROVE  Grows(c, Add(c, k)) /\ Add(c, k) \in X
  <2> DEFINE i == Number(k)
  <2>1. i \in 1 .. n
    <3>1. k - 1 \in Int
      OBVIOUS
    <3>2. (k - 1) % n \in 0 .. (n - 1)
      BY <1>1, <3>1, RemainderBelow
    <3> DEFINE r == (k - 1) % n
    <3> HIDE DEF r
    <3>3. n - r \in 1 .. n
      BY <1>1, <3>2 DEF r
    <3> QED
      BY <3>3 DEF r
  <2> HIDE DEF i
  <2>2. FieldIndexToOffset(i - 1) \in Nat
    BY <1>1, <2>1 DEF FieldIndexToOffset, voffset
  <2>3. IF fields[i].kind = "scalar"
        THEN args[fields[i].name] \in Seq(Bytes) /\ Len(args[fields[i].name]) = fields[i].width
        ELSE args[fields[i].name] \in Nat
    BY <2>1 DEF Arguments, n
  <2>4. Grows(c, AddField(c, fields[i], FieldIndexToOffset(i - 1), args[fields[i].name]))
    BY <1>1, <2>1, <2>2, <2>3, FieldAdded
  <2>5. Grows(c, Add(c, k))
    BY <2>4, GrowsNot DEF i
  <2>6. Add(c, k) \in X
    BY <2>5 DEF Grows
  <2> QED
    BY <2>5, <2>6
<1> HIDE DEF Add
<1>4. b \in X /\ step \in [X \X (1 .. 4 * n) -> X]
  BY <1>3
<1>5. PICK g : Runs(g, X, 4 * n, b, step)
  <2> HIDE DEF step, X
  <2> QED
    BY <1>1, <1>4, StepsExist
<1>6. g = [k \in 0 .. 4 * n |-> IF k = 0 THEN b ELSE Add(g[k - 1], k)]
  <2>1. g \in [0 .. 4 * n -> X] /\ g[0] = b
        /\ \A k \in 1 .. 4 * n : g[k] = step[<<g[k - 1], k>>]
    BY <1>5 DEF Runs
  <2>2. ASSUME NEW k \in 1 .. 4 * n PROVE g[k] = Add(g[k - 1], k)
    <3>1. k - 1 \in 0 .. 4 * n
      BY <1>1
    <3>2. g[k - 1] \in X /\ g[k] = step[<<g[k - 1], k>>]
      BY <2>1, <3>1
    <3> QED
      BY <3>2
  <2> HIDE DEF X, step
  <2> QED
    BY <1>1, <2>1, <2>2
<1>7. added = [k \in 0 .. 4 * n |-> IF k = 0 THEN b ELSE Add(added[k - 1], k)]
  <2> HIDE DEF X, step
  <2> QED
    BY <1>6
<1> HIDE DEF added, step
<1> DEFINE S == {k \in 0 .. 4 * n : added[k] \in X /\ Grows(b, added[k])}
<1>8. 0 \in S
  BY <1>1, <1>4, <1>7, GrowsNot
<1>9. ASSUME NEW k \in 0 .. (4 * n - 1), k \in S PROVE k + 1 \in S
  <2>1. k + 1 \in 1 .. 4 * n /\ k + 1 \in 0 .. 4 * n /\ (k + 1) - 1 = k
    BY <1>1
  <2> HIDE DEF X
  <2>2. added[k + 1] = Add(added[k], k + 1)
    <3> DEFINE l == k + 1
    <3>1. l \in 0 .. 4 * n /\ l # 0 /\ l - 1 = k
      BY <2>1
    <3> HIDE DEF l
    <3>2. added[l] = Add(added[l - 1], l)
      BY <1>7, <3>1
    <3> QED
      BY <3>1, <3>2 DEF l
  <2>3. Grows(added[k], added[k + 1]) /\ added[k + 1] \in X
    BY <1>3, <1>9, <2>1, <2>2
  <2> QED
    BY <1>9, <2>1, <2>3, GrowsOn
<1>10. 4 * n \in S
  <2> DEFINE m == 4 * n
  <2>1. m \in Nat /\ 0 \in S /\ \A k \in 0 .. (m - 1) : k \in S => k + 1 \in S
    BY <1>1, <1>8, <1>9
  <2> HIDE DEF m, S
  <2>2. \A k \in 0 .. m : k \in S
    BY <2>1, UpTo
  <2>3. m \in S
    BY <2>1, <2>2
  <2> QED
    BY <2>3 DEF m
<1> QED
  BY <1>2, <1>10

\* A table is started, filled and ended.
LEMMA TableMade ==
  ASSUME NEW b \in GoodBuilders, ~b.nested, NEW type \in DOMAIN Tables, NEW args,
         Arguments(type, args)
  PROVE  Makes(b, CreateTable(b, type, args))
<1> DEFINE c == Nested(b, TRUE)
           d == AddFields(c, type, args)
           e == EndTable(d, GetSize(b))
<1>1. /\ c \in GoodBuilders /\ c.buf_ = b.buf_ /\ c.nested /\ c.finished = b.finished
      /\ c.string_pool = b.string_pool
  BY NestedChanged
<1>2. CreateTable(b, type, args) = e
  BY DEF CreateTable, StartTable, Nested
<1> HIDE DEF c
<1>3. Grows(c, d) /\ d \in GoodBuilders
  BY <1>1, FieldsAdded, GrowsUp
<1> HIDE DEF d
<1>4. GetSize(b) \in Nat /\ GetSize(b) <= GetSize(d) /\ GetSize(d) \in Nat
  BY <1>1, <1>3, GrowsUp DEF GetSize
<1>5. Ends(d, e)
  BY <1>3, <1>4, TableEnded
<1> HIDE DEF e
<1>6. /\ b.buf_.data \in Seq(Bytes) /\ d.buf_.data \in Seq(Bytes) /\ e.buf_.data \in Seq(Bytes)
      /\ e \in GoodBuilders /\ GetSize(e) \in Nat
      /\ b.nested = FALSE /\ e.nested = FALSE
  BY <1>3, <1>5, BuilderParts DEF Ends
<1>7. Kept(b.buf_.data, d.buf_.data) /\ Kept(d.buf_.data, e.buf_.data)
  BY <1>1, <1>3, <1>5 DEF Grows, Ends
<1>8. Kept(b.buf_.data, e.buf_.data)
  BY <1>6, <1>7, KeptKept
<1>9. Grows(b, e)
  BY <1>1, <1>3, <1>5, <1>6, <1>8 DEF Grows, Ends
<1>10. e.result \in GetSize(b) + 1 .. GetSize(e)
  <2>1. e.result \in GetSize(d) + 1 .. GetSize(e)
    BY <1>5 DEF Ends
  <2> QED
    BY <1>4, <1>6, <2>1
<1> QED
  BY <1>2, <1>9, <1>10 DEF Makes

\* What the client gives for a table.
GivenFor(type, given) ==
  \A i \in 1 .. Len(FieldsOf(type)) :
    LET f == FieldsOf(type)[i]
        arg == given[f.name]
    IN  CASE f.kind = "scalar" -> arg \in Seq(Bytes) /\ Len(arg) = f.width
          [] f.kind = "string" -> arg = <<>> \/ arg[1] \in Seq(Bytes)
          [] f.kind = "vector" -> arg = <<>> \/ arg[1] \in Seq(Nat)
          [] f.kind = "table" -> arg \in Nat

\* A C string is a string, and no longer than what it is taken from.
LEMMA CStringTyped ==
  ASSUME NEW s \in Seq(Bytes)
  PROVE  CString(s) \in Seq(Bytes) /\ Len(CString(s)) <= Len(s)
<1> DEFINE kept == {i \in DOMAIN s : \A j \in 1 .. i : s[j] # 0}
           n == Cardinality(kept)
<1>1. Len(s) \in Nat /\ DOMAIN s = 1 .. Len(s)
  OBVIOUS
<1>2. IsFiniteSet(1 .. Len(s)) /\ Cardinality(1 .. Len(s)) = Len(s)
  <2>1. /\ IsFiniteSet(1 .. Len(s))
        /\ Cardinality(1 .. Len(s)) = IF 1 > Len(s) THEN 0 ELSE Len(s) - 1 + 1
    BY <1>1, FS_Interval
  <2> QED
    BY <1>1, <2>1
<1>3. kept \subseteq 1 .. Len(s)
  BY <1>1
<1>4. CString(s) = SubSeq(s, 1, n)
  BY DEF CString
<1> HIDE DEF kept
<1>5. n \in Nat /\ n <= Len(s)
  <2>1. IsFiniteSet(kept) /\ n <= Cardinality(1 .. Len(s))
    BY <1>2, <1>3, FS_Subset
  <2> QED
    BY <1>2, <2>1, FS_CardinalityType
<1> HIDE DEF n
<1>6. SubSeq(s, 1, n) \in Seq(Bytes) /\ Len(SubSeq(s, 1, n)) = n
  BY <1>1, <1>5, SubSeqProperties
<1> QED
  BY <1>4, <1>5, <1>6

\* The strings and vectors of a table are made before it.
LEMMA ArgumentMade ==
  ASSUME NEW b \in GoodBuilders, ~b.nested, NEW f, NEW arg,
         f.kind = "string" => arg = <<>> \/ arg[1] \in Seq(Bytes),
         f.kind = "vector" => arg = <<>> \/ arg[1] \in Seq(Nat)
  PROVE  Grows(b, MakeArgument(b, f, arg))
<1>1. CASE f.kind = "string" /\ arg # <<>>
  <2> DEFINE str == CString(arg[1])
  <2>1. str \in Seq(Bytes)
    BY <1>1, CStringTyped
  <2>2. MakeArgument(b, f, arg) = CreateString(b, str)
    BY <1>1 DEF MakeArgument
  <2> HIDE DEF str
  <2>3. Makes(b, CreateString(b, str))
    BY <2>1, StringMade
  <2> QED
    BY <2>2, <2>3 DEF Makes
<1>2. CASE f.kind = "vector" /\ arg # <<>>
  <2>1. Makes(b, CreateVectorOfOffsets(b, arg[1]))
    BY <1>2, VectorOfOffsetsMade
  <2> QED
    BY <1>2, <2>1 DEF MakeArgument, Makes
<1>3. CASE ~(f.kind = "string" /\ arg # <<>>) /\ ~(f.kind = "vector" /\ arg # <<>>)
  <2>1. Writes(b, Return(b, 0))
    BY WritesNothing, Returned
  <2> QED
    BY <1>3, <2>1, WritesGrows DEF MakeArgument
<1> QED
  BY <1>1, <1>2, <1>3

\* An object made after something else has been written.
LEMMA MakesOn ==
  ASSUME NEW b, NEW c, NEW d, Grows(b, c), Makes(c, d)
  PROVE  Makes(b, d)
<1>1. Grows(b, d) /\ d.result \in GetSize(c) + 1 .. GetSize(d)
  BY GrowsOn DEF Makes
<1>2. GetSize(b) \in Nat /\ GetSize(c) \in Nat /\ GetSize(d) \in Nat /\ GetSize(b) <= GetSize(c)
  BY <1>1, GrowsUp
<1> QED
  BY <1>1, <1>2 DEF Makes

\* A table is made at once of what was made of its strings and vectors.
LEMMA DirectIsTable ==
  ASSUME NEW b \in GoodBuilders, ~b.nested, NEW type \in DOMAIN Tables, NEW given,
         GivenFor(type, given)
  PROVE  \E c, args :
           /\ c \in GoodBuilders /\ Grows(b, c) /\ ~c.nested /\ Arguments(type, args)
           /\ CreateTableDirect(b, type, given) = CreateTable(c, type, args)
<1> DEFINE fields == FieldsOf(type)
           n == Len(fields)
           Make(c, k) == MakeArgument(c, fields[k], given[fields[k].name])
           made == CHOOSE g : g = [k \in 0 .. n |-> IF k = 0 THEN b ELSE Make(g[k - 1], k)]
           Argument(k) == IF fields[k].kind \in {"string", "vector"}
                          THEN made[k].result ELSE given[fields[k].name]
           names == {fields[i].name : i \in DOMAIN fields}
           args == [name \in names |-> Argument(NumberOf(type, name))]
           X == {c \in GoodBuilders : ~c.nested}
           step == [x \in X \X (1 .. n) |-> Make(x[1], x[2])]
<1>1. n \in Nat /\ DOMAIN fields = 1 .. n /\ \A i \in 1 .. n : SchemaField(fields[i])
  BY SchemaFields
<1>2. CreateTableDirect(b, type, given) = CreateTable(made[n], type, args)
  BY DEF CreateTableDirect
<1> HIDE DEF n
<1>3. ASSUME NEW c \in X, NEW k \in 1 .. n
      PROVE  Grows(c, Make(c, k)) /\ Make(c, k) \in X
  <2> DEFINE arg == given[fields[k].name]
             f == fields[k]
  <2>1. CASE f.kind = "string"
    <3>1. arg = <<>> \/ arg[1] \in Seq(Bytes)
      BY <2>1 DEF GivenFor, n
    <3> QED
      BY <2>1, <3>1, ArgumentMade DEF Grows
  <2>2. CASE f.kind = "vector"
    <3>1. arg = <<>> \/ arg[1] \in Seq(Nat)
      BY <2>2 DEF GivenFor, n
    <3> QED
      BY <2>2, <3>1, ArgumentMade DEF Grows
  <2>3. CASE f.kind # "string" /\ f.kind # "vector"
    BY <2>3, ArgumentMade DEF Grows
  <2> QED
    BY <2>1, <2>2, <2>3
<1> HIDE DEF Make
<1>4. b \in X /\ step \in [X \X (1 .. n) -> X]
  BY <1>3
<1>5. PICK g : Runs(g, X, n, b, step)
  <2> HIDE DEF step, X
  <2> QED
    BY <1>1, <1>4, StepsExist
<1>6. g = [k \in 0 .. n |-> IF k = 0 THEN b ELSE Make(g[k - 1], k)]
  <2>1. g \in [0 .. n -> X] /\ g[0] = b
        /\ \A k \in 1 .. n : g[k] = step[<<g[k - 1], k>>]
    BY <1>5 DEF Runs
  <2>2. ASSUME NEW k \in 1 .. n PROVE g[k] = Make(g[k - 1], k)
    <3>1. k - 1 \in 0 .. n
      BY <1>1
    <3>2. g[k - 1] \in X /\ g[k] = step[<<g[k - 1], k>>]
      BY <2>1, <3>1
    <3> QED
      BY <3>2
  <2> HIDE DEF X, step
  <2> QED
    BY <1>1, <2>1, <2>2
<1>7. made = [k \in 0 .. n |-> IF k = 0 THEN b ELSE Make(made[k - 1], k)]
  <2> HIDE DEF X, step
  <2> QED
    BY <1>6
<1> HIDE DEF made, step
<1> DEFINE S == {k \in 0 .. n : made[k] \in X /\ Grows(b, made[k])}
<1>8. 0 \in S
  BY <1>1, <1>4, <1>7, GrowsNot
<1>9. ASSUME NEW k \in 0 .. (n - 1), k \in S PROVE k + 1 \in S
  <2>1. k + 1 \in 1 .. n /\ k + 1 \in 0 .. n /\ (k + 1) - 1 = k
    BY <1>1
  <2> HIDE DEF X
  <2>2. made[k + 1] = Make(made[k], k + 1)
    <3> DEFINE l == k + 1
    <3>1. l \in 0 .. n /\ l # 0 /\ l - 1 = k
      BY <2>1
    <3> HIDE DEF l
    <3>2. made[l] = Make(made[l - 1], l)
      BY <1>7, <3>1
    <3> QED
      BY <3>1, <3>2 DEF l
  <2>3. Grows(made[k], made[k + 1]) /\ made[k + 1] \in X
    BY <1>3, <1>9, <2>1, <2>2
  <2> QED
    BY <1>9, <2>1, <2>3, GrowsOn
<1>10. \A k \in 0 .. n : k \in S
  <2> HIDE DEF S
  <2> QED
    BY <1>1, <1>8, <1>9, UpTo
<1>11. \A k \in 1 .. n : made[k].result \in Nat
  <2>1. ASSUME NEW k \in 1 .. n PROVE made[k].result \in Nat
    <3>1. made[k] \in GoodBuilders
      BY <1>10
    <3> QED
      BY <3>1, BuilderParts
  <2> QED
    BY <2>1
<1>12. ASSUME NEW i \in 1 .. n
       PROVE  args[fields[i].name] = Argument(i)
  BY <1>1, NamesDiffer
<1>13. Arguments(type, args)
  <2>1. ASSUME NEW i \in 1 .. n
        PROVE  IF fields[i].kind = "scalar"
               THEN args[fields[i].name] \in Seq(Bytes)
                    /\ Len(args[fields[i].name]) = fields[i].width
               ELSE args[fields[i].name] \in Nat
    <3> HIDE DEF args
    <3>1. CASE fields[i].kind = "scalar"
      BY <1>12, <3>1 DEF GivenFor, n
    <3>2. CASE fields[i].kind \in {"string", "vector"}
      BY <1>11, <1>12, <3>2
    <3>3. CASE fields[i].kind = "table"
      BY <1>12, <3>3 DEF GivenFor, n
    <3> QED
      BY <1>1, <3>1, <3>2, <3>3 DEF SchemaField
  <2> HIDE DEF args
  <2> QED
    BY <2>1 DEF Arguments, n
<1> HIDE DEF args
<1>14. made[n] \in GoodBuilders /\ ~made[n].nested /\ Grows(b, made[n])
  BY <1>1, <1>10
<1> HIDE DEF made
<1> QED
  BY <1>2, <1>13, <1>14

\* A table is made after its strings and vectors.
LEMMA DirectMade ==
  ASSUME NEW b \in GoodBuilders, ~b.nested, NEW type \in DOMAIN Tables, NEW given,
         GivenFor(type, given)
  PROVE  Makes(b, CreateTableDirect(b, type, given))
<1>1. PICK c, args :
        /\ c \in GoodBuilders /\ Grows(b, c) /\ ~c.nested /\ Arguments(type, args)
        /\ CreateTableDirect(b, type, given) = CreateTable(c, type, args)
  BY DirectIsTable
<1>2. Makes(c, CreateTable(c, type, args))
  BY <1>1, TableMade
<1> QED
  BY <1>1, <1>2, MakesOn

\* Strings are made one after the other, and then the vector that refers to them.
LEMMA StringsMade ==
  ASSUME NEW b \in GoodBuilders, ~b.nested, NEW strings \in Seq(Seq(Bytes))
  PROVE  Makes(b, CreateVectorOfStrings(b, strings))
<1> DEFINE n == Len(strings)
           Make(c, k) == CreateString(c, strings[k])
           made == CHOOSE g : g = [k \in 0 .. n |-> IF k = 0 THEN b ELSE Make(g[k - 1], k)]
           offs == [k \in DOMAIN strings |-> made[k].result]
           X == {c \in GoodBuilders : ~c.nested}
           step == [x \in X \X (1 .. n) |-> Make(x[1], x[2])]
<1>1. n \in Nat /\ DOMAIN strings = 1 .. n /\ \A i \in 1 .. n : strings[i] \in Seq(Bytes)
  OBVIOUS
<1>2. CreateVectorOfStrings(b, strings) = CreateVectorOfOffsets(made[n], offs)
  BY DEF CreateVectorOfStrings
<1> HIDE DEF n
<1>3. ASSUME NEW c \in X, NEW k \in 1 .. n
      PROVE  Grows(c, Make(c, k)) /\ Make(c, k) \in X
  <2>1. strings[k] \in Seq(Bytes)
    BY <1>1
  <2>2. Grows(c, Make(c, k))
    BY <2>1, StringMade DEF Makes
  <2> HIDE DEF Make
  <2> QED
    BY <2>2 DEF Grows
<1> HIDE DEF Make
<1>4. b \in X /\ step \in [X \X (1 .. n) -> X]
  BY <1>3
<1>5. PICK g : Runs(g, X, n, b, step)
  <2> HIDE DEF step, X
  <2> QED
    BY <1>1, <1>4, StepsExist
<1>6. g = [k \in 0 .. n |-> IF k = 0 THEN b ELSE Make(g[k - 1], k)]
  <2>1. g \in [0 .. n -> X] /\ g[0] = b
        /\ \A k \in 1 .. n : g[k] = step[<<g[k - 1], k>>]
    BY <1>5 DEF Runs
  <2>2. ASSUME NEW k \in 1 .. n PROVE g[k] = Make(g[k - 1], k)
    <3>1. k - 1 \in 0 .. n
      BY <1>1
    <3>2. g[k - 1] \in X /\ g[k] = step[<<g[k - 1], k>>]
      BY <2>1, <3>1
    <3> QED
      BY <3>2
  <2> HIDE DEF X, step
  <2> QED
    BY <1>1, <2>1, <2>2
<1>7. made = [k \in 0 .. n |-> IF k = 0 THEN b ELSE Make(made[k - 1], k)]
  <2> HIDE DEF X, step
  <2> QED
    BY <1>6
<1> HIDE DEF made, step
<1> DEFINE S == {k \in 0 .. n : made[k] \in X /\ Grows(b, made[k])}
<1>8. 0 \in S
  BY <1>1, <1>4, <1>7, GrowsNot
<1>9. ASSUME NEW k \in 0 .. (n - 1), k \in S PROVE k + 1 \in S
  <2>1. k + 1 \in 1 .. n /\ k + 1 \in 0 .. n /\ (k + 1) - 1 = k
    BY <1>1
  <2> HIDE DEF X
  <2>2. made[k + 1] = Make(made[k], k + 1)
    <3> DEFINE l == k + 1
    <3>1. l \in 0 .. n /\ l # 0 /\ l - 1 = k
      BY <2>1
    <3> HIDE DEF l
    <3>2. made[l] = Make(made[l - 1], l)
      BY <1>7, <3>1
    <3> QED
      BY <3>1, <3>2 DEF l
  <2>3. Grows(made[k], made[k + 1]) /\ made[k + 1] \in X
    BY <1>3, <1>9, <2>1, <2>2
  <2> QED
    BY <1>9, <2>1, <2>3, GrowsOn
<1>10. \A k \in 0 .. n : k \in S
  <2> HIDE DEF S
  <2> QED
    BY <1>1, <1>8, <1>9, UpTo
<1>11. offs \in Seq(Nat)
  <2>1. ASSUME NEW k \in 1 .. n PROVE made[k].result \in Nat
    <3>1. made[k] \in GoodBuilders
      BY <1>10
    <3> QED
      BY <3>1, BuilderParts
  <2> HIDE DEF S
  <2> QED
    BY <1>1, <2>1
<1> HIDE DEF offs
<1>12. made[n] \in GoodBuilders /\ ~made[n].nested /\ Grows(b, made[n])
  BY <1>1, <1>10
<1>13. Makes(made[n], CreateVectorOfOffsets(made[n], offs))
  BY <1>11, <1>12, VectorOfOffsetsMade
<1> QED
  BY <1>2, <1>12, <1>13, MakesOn

----------------------------------------------------------------------------
(* Shared strings.                                                         *)

\* c is b with a string that it returns: one of the pool, or one made and put
\* into the pool.
Shares(b, c) ==
  /\ b \in GoodBuilders /\ c \in GoodBuilders
  /\ Kept(b.buf_.data, c.buf_.data)
  /\ c.nested = b.nested /\ c.finished = b.finished
  /\ c.string_pool = b.string_pool \cup {c.result}
  /\ c.result \in b.string_pool \/ c.result \in GetSize(b) + 1 .. GetSize(c)

\* A shared string that the pool has is taken back.
LEMMA SharedMade ==
  ASSUME NEW b \in GoodBuilders, NEW str \in Seq(Bytes)
  PROVE  Shares(b, CreateSharedString(b, str))
<1> DEFINE a == CreateString(b, str)
           c == [a EXCEPT !.pool_buf = IF @ = "none" THEN "own" ELSE @]
           same == SharedWith(c)
           new == [c EXCEPT !.string_pool = @ \cup {c.result}]
           n == size(c.buf_) - GetSize(b)
           v == pop(c.buf_, n)
           o == CHOOSE o \in same : TRUE
           old == [c EXCEPT !.buf_ = v, !.result = o]
<1>0. Makes(b, a)
  BY StringMade
<1> HIDE DEF a
<1>1. a \in GoodBuilders /\ a \in Builders /\ GetSize(b) \in Nat
  BY <1>0, BuilderParts DEF Makes, Grows
<1>2. /\ c \in Builders /\ c.buf_ = a.buf_ /\ c.num_field_loc = a.num_field_loc
      /\ c.nested = a.nested /\ c.finished = a.finished /\ c.string_pool = a.string_pool
      /\ c.result = a.result
  BY <1>1 DEF Builders
<1>3. CreateSharedString(b, str) = IF same = {} THEN new ELSE old
  <2>1. [[c EXCEPT !.buf_ = pop(@, size(@) - GetSize(b))] EXCEPT !.result = o] = old
    BY <1>2 DEF Builders
  <2> QED
    BY <2>1 DEF CreateSharedString, Return, a
<1> HIDE DEF c
<1>4. c \in GoodBuilders
  BY <1>1, <1>2 DEF GoodBuilders
<1>5. Makes(b, c)
  <2>1. Grows(b, c)
    BY <1>0, <1>2, <1>4 DEF Makes, Grows
  <2>2. c.result \in GetSize(b) + 1 .. GetSize(c)
    BY <1>0, <1>2 DEF Makes, GetSize
  <2> QED
    BY <2>1, <2>2 DEF Makes
<1>6. /\ c \in Builders /\ c.buf_ \in SoundVectors
      /\ c.string_pool \subseteq Nat /\ c.result \in Nat
      /\ c.buf_.data \in Seq(Bytes) /\ b.buf_.data \in Seq(Bytes)
      /\ GetSize(c) = Len(c.buf_.data) /\ GetSize(b) = Len(b.buf_.data)
      /\ GetSize(c) \in Nat
  BY <1>4, BuilderParts
<1>7. Shares(b, new)
  <2>1. /\ new \in Builders /\ new.buf_ = c.buf_ /\ new.num_field_loc = c.num_field_loc
        /\ new.nested = c.nested /\ new.finished = c.finished /\ new.result = c.result
        /\ new.string_pool = c.string_pool \cup {c.result}
    BY <1>6 DEF Builders
  <2> HIDE DEF new
  <2>2. new \in GoodBuilders
    BY <1>4, <2>1 DEF GoodBuilders
  <2> QED
    BY <1>5, <2>1, <2>2 DEF Shares, Makes, Grows, GetSize
<1>8. ASSUME same # {} PROVE Shares(b, old)
  <2>1. o \in c.string_pool /\ o \in Nat
    <3>1. o \in same
      BY <1>8
    <3> QED
      BY <1>6, <3>1 DEF SharedWith
  <2>2. n \in 0 .. size(c.buf_) /\ n \in 0 .. Len(c.buf_.data) - Len(b.buf_.data)
        /\ Kept(b.buf_.data, c.buf_.data)
    <3>1. Kept(b.buf_.data, c.buf_.data) /\ size(c.buf_) = GetSize(c)
      BY <1>5 DEF Makes, Grows, GetSize
    <3>2. GetSize(b) <= GetSize(c)
      BY <1>5, GrowsUp DEF Makes
    <3> DEFINE l == Len(c.buf_.data)
               m == Len(b.buf_.data)
    <3>3. n = l - m /\ l \in Nat /\ m \in Nat /\ m <= l /\ size(c.buf_) = l
      BY <1>1, <1>6, <3>1, <3>2
    <3> HIDE DEF n, l, m
    <3>4. n \in 0 .. l /\ n \in 0 .. l - m
      BY <3>3
    <3> QED
      BY <3>1, <3>3, <3>4 DEF l, m
  <2> HIDE DEF n, o, same
  <2>3. /\ v \in SoundVectors /\ v.scratch = c.buf_.scratch
        /\ v.data = SubSeq(c.buf_.data, n + 1, Len(c.buf_.data))
    BY <1>6, <2>2, Popped
  <2>4. Kept(b.buf_.data, v.data)
    BY <1>6, <2>2, <2>3, KeptPopped
  <2> HIDE DEF v
  <2>5. /\ old \in Builders /\ old.buf_ = v /\ old.num_field_loc = c.num_field_loc
        /\ old.nested = c.nested /\ old.finished = c.finished /\ old.result = o
        /\ old.string_pool = c.string_pool
    BY <1>6, <2>1, <2>3 DEF Builders
  <2> HIDE DEF old
  <2>6. old \in GoodBuilders
    BY <1>4, <2>3, <2>5 DEF GoodBuilders
  <2>7. old.string_pool = b.string_pool \cup {old.result} /\ old.result \in b.string_pool
    BY <1>5, <2>1, <2>5 DEF Makes, Grows
  <2> QED
    BY <1>5, <2>4, <2>5, <2>6, <2>7 DEF Shares, Makes, Grows
<1> QED
  BY <1>3, <1>7, <1>8

----------------------------------------------------------------------------
(* Sorted vectors.                                                         *)

\* What is inserted is a sequence of offsets.
LEMMA InsertedTyped ==
  ASSUME NEW b, NEW type, NEW offs \in Seq(Nat), NEW off \in Nat
  PROVE  Inserted(b, type, offs, off) \in Seq(Nat)
<1> DEFINE Less(o, p) == KeyCompareLessThan(b.buf_.data, type, Position(b, o), Position(b, p))
           before == {i \in DOMAIN offs : ~Less(off, offs[i])}
           n == Cardinality(before)
<1>1. Len(offs) \in Nat /\ DOMAIN offs = 1 .. Len(offs)
  OBVIOUS
<1>2. IsFiniteSet(1 .. Len(offs)) /\ Cardinality(1 .. Len(offs)) = Len(offs)
  <2>1. 1 \in Int /\ Len(offs) \in Int
    BY <1>1
  <2>2. IsFiniteSet(1 .. Len(offs))
        /\ Cardinality(1 .. Len(offs)) = IF 1 > Len(offs) THEN 0 ELSE Len(offs) - 1 + 1
    BY <2>1, FS_Interval
  <2> QED
    BY <1>1, <2>2
<1>3. before \subseteq 1 .. Len(offs)
  BY <1>1
<1> HIDE DEF before
<1>4. n \in 0 .. Len(offs)
  <2>1. IsFiniteSet(before) /\ n <= Len(offs)
    BY <1>2, <1>3, FS_Subset
  <2>2. n \in Nat
    BY <2>1, FS_CardinalityType
  <2> QED
    BY <1>1, <2>1, <2>2
<1>5. Inserted(b, type, offs, off) =
        SubSeq(offs, 1, n) \o <<off>> \o SubSeq(offs, n + 1, Len(offs))
  BY DEF Inserted, before
<1> HIDE DEF n
<1>6. SubSeq(offs, 1, n) \in Seq(Nat) /\ SubSeq(offs, n + 1, Len(offs)) \in Seq(Nat)
      /\ <<off>> \in Seq(Nat)
  BY <1>1, <1>4
<1>7. SubSeq(offs, 1, n) \o <<off>> \in Seq(Nat)
  BY <1>6
<1>8. SubSeq(offs, 1, n) \o <<off>> \o SubSeq(offs, n + 1, Len(offs)) \in Seq(Nat)
  BY <1>6, <1>7
<1> QED
  BY <1>5, <1>8

\* What is sorted is a sequence of offsets.
LEMMA SortedTyped ==
  ASSUME NEW b, NEW type, NEW offs \in Seq(Nat)
  PROVE  SortedTables(b, type, offs) \in Seq(Nat)
<1> DEFINE n == Len(offs)
           Insert(s, k) == Inserted(b, type, s, offs[k])
           sorted == CHOOSE g :
                       g = [k \in 0 .. n |-> IF k = 0 THEN <<>> ELSE Insert(g[k - 1], k)]
           X == Seq(Nat)
           step == [x \in X \X (1 .. n) |-> Insert(x[1], x[2])]
<1>1. n \in Nat /\ \A k \in 1 .. n : offs[k] \in Nat
  OBVIOUS
<1>2. SortedTables(b, type, offs) = sorted[n]
  BY DEF SortedTables
<1> HIDE DEF n
<1>3. ASSUME NEW s \in X, NEW k \in 1 .. n PROVE Insert(s, k) \in X
  BY <1>1, InsertedTyped
<1> HIDE DEF Insert
<1>4. <<>> \in X /\ step \in [X \X (1 .. n) -> X]
  BY <1>3
<1> HIDE DEF X
<1>5. PICK g : Runs(g, X, n, <<>>, step)
  <2> DEFINE first == <<>>
  <2>1. n \in Nat /\ first \in X /\ step \in [X \X (1 .. n) -> X]
    BY <1>1, <1>4
  <2> HIDE DEF step, first
  <2>2. \E g : Runs(g, X, n, first, step)
    BY <2>1, StepsExist
  <2> QED
    BY <2>2 DEF first
<1>6. g = [k \in 0 .. n |-> IF k = 0 THEN <<>> ELSE Insert(g[k - 1], k)]
  <2>1. g \in [0 .. n -> X] /\ g[0] = <<>>
        /\ \A k \in 1 .. n : g[k] = step[<<g[k - 1], k>>]
    BY <1>5 DEF Runs
  <2>2. ASSUME NEW k \in 1 .. n PROVE g[k] = Insert(g[k - 1], k)
    <3>1. k - 1 \in 0 .. n
      BY <1>1
    <3>2. g[k - 1] \in X /\ g[k] = step[<<g[k - 1], k>>]
      BY <2>1, <3>1
    <3> QED
      BY <3>2
  <2> HIDE DEF step
  <2> QED
    BY <1>1, <2>1, <2>2
<1>7. sorted = [k \in 0 .. n |-> IF k = 0 THEN <<>> ELSE Insert(sorted[k - 1], k)]
  <2> HIDE DEF step
  <2> QED
    BY <1>6
<1> HIDE DEF sorted, step
<1> DEFINE S == {k \in 0 .. n : sorted[k] \in X}
<1>8. 0 \in S
  BY <1>1, <1>4, <1>7
<1>9. ASSUME NEW k \in 0 .. (n - 1), k \in S PROVE k + 1 \in S
  <2> DEFINE l == k + 1
  <2>1. l \in 0 .. n /\ l \in 1 .. n /\ l # 0 /\ l - 1 = k
    BY <1>1
  <2> HIDE DEF l
  <2>2. sorted[l] = Insert(sorted[k], l)
    BY <1>7, <2>1
  <2>3. sorted[l] \in X
    BY <1>3, <1>9, <2>1, <2>2
  <2> QED
    BY <2>1, <2>3 DEF l
<1>10. n \in S
  <2> HIDE DEF S
  <2>1. \A k \in 0 .. n : k \in S
    BY <1>1, <1>8, <1>9, UpTo
  <2> QED
    BY <1>1, <2>1
<1> QED
  BY <1>2, <1>10 DEF X

\* A sorted vector is a vector of references.
LEMMA SortedMade ==
  ASSUME NEW b \in GoodBuilders, ~b.nested, NEW type, NEW offs \in Seq(Nat)
  PROVE  Makes(b, CreateVectorOfSortedTables(b, type, offs))
  BY SortedTyped, VectorOfOffsetsMade DEF CreateVectorOfSortedTables

----------------------------------------------------------------------------
(* The builder as a whole.                                                 *)

\* A block without data is sound.
LEMMA NoData ==
  ASSUME NEW n \in Nat
  PROVE  /\ Vector(n, <<>>, <<>>) \in SoundVectors
         /\ Vector(n, <<>>, <<>>).data = <<>> /\ Vector(n, <<>>, <<>>).scratch = <<>>
<1> DEFINE v == Vector(n, <<>>, <<>>)
<1>1. /\ v \in Vectors /\ v.reserved_ = n /\ v.data = <<>> /\ v.scratch = <<>>
  BY DEF Vectors, Vector
<1> HIDE DEF v
<1>2. Room(v) = n
  BY <1>1, VectorParts
<1>3. v \in SoundVectors
  BY <1>1, <1>2 DEF SoundVectors
<1> QED
  BY <1>1, <1>3 DEF v

\* A new builder has nothing.
LEMMA NewIsGood ==
  NewBuilder \in GoodBuilders /\ GetSize(NewBuilder) = 0
<1>1. Empty \in SoundVectors /\ Empty.data = <<>> /\ Empty.scratch = <<>>
  BY NoData DEF Empty
<1> HIDE DEF Empty
<1>2. NewBuilder \in Builders /\ NewBuilder.buf_ = Empty /\ NewBuilder.num_field_loc = 0
  BY <1>1 DEF Builders, NewBuilder, MaxAlignment
<1>3. Len(NewBuilder.buf_.scratch) >= 2 * NewBuilder.num_field_loc
  BY <1>1, <1>2
<1> QED
  BY <1>1, <1>2, <1>3 DEF GoodBuilders, GetSize, size

\* A builder that has been emptied: what is left of the rest is the caller's.
Empties(b, c) ==
  /\ c \in GoodBuilders /\ c.buf_.data = <<>> /\ ~c.nested
  /\ ~c.finished => c.string_pool = {}
  /\ c.buf_.scratch = <<>> /\ c.num_field_loc = 0
  /\ b.max_voffset_ = 0 => c.max_voffset_ = 0

\* Clear, Reset and Release leave no data behind.
LEMMA Emptied3 ==
  ASSUME NEW b \in GoodBuilders, ~b.nested
  PROVE  /\ Empties(b, Clear(b)) /\ Empties(b, Reset(b))
         /\ b.finished => Empties(b, Release(b))
<1> DEFINE a == ClearOffsets(b)
           n == a.buf_.reserved_
           v == Vector(n, <<>>, <<>>)
           c == [a EXCEPT !.buf_ = v, !.nested = FALSE, !.finished = FALSE,
                          !.minalign_ = 1, !.string_pool = {}]
           d == [c EXCEPT !.buf_ = Empty]
           e == [b EXCEPT !.buf_ = Empty]
<1>1. a \in GoodBuilders /\ a.num_field_loc = 0 /\ a.max_voffset_ = 0
  BY OffsetsCleared
<1>2. Clear(b) = c /\ Release(b) = e
  BY DEF Clear, clear, Release, release
<1> HIDE DEF a
<1>3. a \in Builders /\ n \in Nat /\ b \in Builders /\ b.num_field_loc = 0
  <2>1. a \in Builders /\ a.buf_ \in Vectors /\ b \in Builders
    BY <1>1, BuilderParts
  <2> QED
    BY <2>1, VectorParts DEF GoodBuilders
<1> HIDE DEF n
<1>4. v \in SoundVectors /\ v.data = <<>> /\ v.scratch = <<>>
  BY <1>3, NoData
<1>5. Empty \in SoundVectors /\ Empty.data = <<>> /\ Empty.scratch = <<>>
  BY NoData DEF Empty
<1> HIDE DEF v, Empty
<1>6. /\ c \in Builders /\ c.buf_ = v /\ c.num_field_loc = 0 /\ c.nested = FALSE
      /\ c.string_pool = {} /\ c.max_voffset_ = 0
  <2>1. 1 \in 1 .. MaxAlignment /\ {} \in SUBSET Nat
    BY DEF MaxAlignment
  <2> QED
    BY <1>1, <1>3, <1>4, <2>1 DEF Builders
<1>7. Reset(b) = d
  BY <1>2 DEF Reset, reset
<1> HIDE DEF c
<1>8. /\ d \in Builders /\ d.buf_ = Empty /\ d.num_field_loc = 0 /\ d.nested = FALSE
      /\ d.string_pool = {} /\ d.max_voffset_ = 0
  BY <1>5, <1>6 DEF Builders
<1>9. /\ e \in Builders /\ e.buf_ = Empty /\ e.num_field_loc = 0 /\ e.nested = b.nested
      /\ e.finished = b.finished /\ e.max_voffset_ = b.max_voffset_
  BY <1>3, <1>5 DEF Builders
<1> HIDE DEF d, e
<1>10. c \in GoodBuilders /\ d \in GoodBuilders /\ e \in GoodBuilders
  BY <1>4, <1>5, <1>6, <1>8, <1>9 DEF GoodBuilders
<1> QED
  BY <1>2, <1>4, <1>5, <1>6, <1>7, <1>8, <1>9, <1>10 DEF Empties

\* The settings and the move of a builder change nothing that is written.
LEMMA SetTyped ==
  ASSUME NEW b \in GoodBuilders, NEW flag \in BOOLEAN
  PROVE  /\ Grows(b, ForceDefaults(b, flag)) /\ Grows(b, DedupVtables(b, flag))
         /\ Grows(b, Moved(b))
         /\ GetSize(ForceDefaults(b, flag)) = GetSize(b)
         /\ GetSize(DedupVtables(b, flag)) = GetSize(b) /\ GetSize(Moved(b)) = GetSize(b)
<1> DEFINE Like(c) == /\ c \in Builders /\ c.buf_ = b.buf_ /\ c.num_field_loc = b.num_field_loc
                      /\ c.nested = b.nested /\ c.finished = b.finished
                      /\ c.string_pool = b.string_pool
<1>1. b \in Builders /\ b.buf_.data \in Seq(Bytes)
  BY BuilderParts
<1>2. Kept(b.buf_.data, b.buf_.data)
  BY <1>1, KeptSame
<1>3. ASSUME NEW c, Like(c) PROVE Grows(b, c) /\ GetSize(c) = GetSize(b)
  BY <1>2, <1>3 DEF GoodBuilders, Grows, GetSize
<1>4. Like(ForceDefaults(b, flag))
  BY <1>1 DEF Builders, ForceDefaults
<1>5. Like(DedupVtables(b, flag))
  BY <1>1 DEF Builders, DedupVtables
<1>6. Like(Moved(b))
  BY <1>1 DEF Builders, Moved
<1> HIDE DEF Like
<1> QED
  BY <1>3, <1>4, <1>5, <1>6

\* c is b, finished: its scratch pad is empty.
Finishes(b, c) ==
  /\ c \in GoodBuilders /\ Kept(b.buf_.data, c.buf_.data)
  /\ c.nested = b.nested /\ c.finished
  /\ c.buf_.scratch = <<>> /\ c.num_field_loc = 0 /\ c.max_voffset_ = b.max_voffset_

\* The header of a finished buffer is put before the data.
LEMMA BufferFinished ==
  ASSUME NEW b \in GoodBuilders, ~b.nested, NEW off \in Int, NEW identifier \in Seq(Bytes),
         NEW prefixed \in BOOLEAN
  PROVE  Finishes(b, Finish(b, off, identifier, prefixed))
<1> DEFINE header == (IF prefixed THEN uoffset ELSE 0) + uoffset + Len(identifier)
           u == clear_scratch(b.buf_)
           d == [b EXCEPT !.buf_ = u]
           a == PreAlign(d, header, b.minalign_)
           i == PushBytes(a, identifier)
           c == PushOffset(i, off)
           s == Scalar(GetSize(c), uoffset)
           p == IF prefixed THEN PushElement(c, s) ELSE c
           f == [p EXCEPT !.finished = TRUE]
<1>1. /\ b \in Builders /\ b.buf_ \in SoundVectors /\ b.buf_ \in Vectors
      /\ b.buf_.data \in Seq(Bytes) /\ b.minalign_ \in 1 .. 16 /\ b.num_field_loc = 0
      /\ header \in Nat
  BY BuilderParts DEF GoodBuilders, uoffset
<1>2. Finish(b, off, identifier, prefixed) = f
  BY DEF Finish
<1>3. u \in SoundVectors /\ u.data = b.buf_.data /\ u.scratch = <<>>
  <2>1. u \in Vectors /\ u.data = b.buf_.data /\ u.scratch = <<>> /\ u.reserved_ = b.buf_.reserved_
    <3> DEFINE w == b.buf_
    <3>1. w \in Vectors /\ u = [w EXCEPT !.scratch = <<>>] /\ <<>> \in Seq(Nat)
      BY <1>1 DEF clear_scratch
    <3> HIDE DEF w, u
    <3>2. u \in Vectors /\ u.data = w.data /\ u.scratch = <<>> /\ u.reserved_ = w.reserved_
      BY <3>1 DEF Vectors
    <3> QED
      BY <3>2 DEF w
  <2> HIDE DEF u
  <2>2. Room(u) = b.buf_.reserved_ - Len(b.buf_.data) /\ Len(b.buf_.data) \in Nat
    BY <1>1, <2>1, VectorParts
  <2>3. /\ Room(b.buf_) = b.buf_.reserved_ - Len(b.buf_.data) - 4 * Len(b.buf_.scratch)
        /\ Room(b.buf_) >= 0 /\ b.buf_.reserved_ \in Nat /\ Len(b.buf_.scratch) \in Nat
    BY <1>1, VectorParts DEF SoundVectors
  <2>4. Room(u) >= 0
    BY <2>2, <2>3
  <2> QED
    BY <2>1, <2>4 DEF SoundVectors
<1> HIDE DEF u, header
<1>4. /\ d \in Builders /\ d.buf_ = u /\ d.num_field_loc = 0 /\ d.nested = b.nested
      /\ d.max_voffset_ = b.max_voffset_
  BY <1>1, <1>3 DEF Builders
<1> HIDE DEF d
<1>5. d \in GoodBuilders
  BY <1>3, <1>4 DEF GoodBuilders
<1>6. Writes(d, a) /\ a \in GoodBuilders
  BY <1>1, <1>5, Aligned, WritesGood
<1> HIDE DEF a
<1>7. Writes(a, i) /\ i \in GoodBuilders
  BY <1>6, BytesPushed, WritesGood
<1> HIDE DEF i
<1>8. Writes(i, c) /\ c \in GoodBuilders
  BY <1>7, OffsetPushed, WritesGood
<1> HIDE DEF c
<1>9. Writes(d, c)
  BY <1>6, <1>7, <1>8, WritesOn
<1>10. s \in Seq(Bytes) /\ Len(s) \in 1 .. 16
  <2>1. GetSize(c) \in Int /\ uoffset \in Nat /\ uoffset \in 1 .. 16
    BY <1>8, BuilderParts DEF uoffset
  <2> QED
    BY <2>1, ScalarBytes
<1> HIDE DEF s
<1>11. Writes(d, p)
  BY <1>8, <1>9, <1>10, ElementPushed, WritesOn
<1> HIDE DEF p
<1>12. p \in GoodBuilders /\ p \in Builders /\ p.nested = d.nested
       /\ Kept(d.buf_.data, p.buf_.data) /\ p.buf_.scratch = d.buf_.scratch
       /\ p.num_field_loc = d.num_field_loc /\ p.max_voffset_ = d.max_voffset_
  BY <1>11, BuilderParts DEF Writes
<1>13. /\ f \in Builders /\ f.buf_ = p.buf_ /\ f.num_field_loc = p.num_field_loc
       /\ f.nested = p.nested /\ f.finished /\ f.max_voffset_ = p.max_voffset_
  BY <1>12 DEF Builders
<1> HIDE DEF f
<1>14. f \in GoodBuilders
  BY <1>12, <1>13 DEF GoodBuilders
<1> QED
  BY <1>2, <1>3, <1>4, <1>12, <1>13, <1>14 DEF Finishes
=============================================================================
