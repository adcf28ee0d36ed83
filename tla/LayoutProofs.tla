---------------------------- MODULE LayoutProofs ----------------------------
(***************************************************************************)
(* What the builder writes is where the reader looks for it: strings,      *)
(* vectors, structs and tables, in a buffer no larger than the code allows,*)
(* and they stay there as long as the bytes they use do.                   *)
(***************************************************************************)
EXTENDS BuilderProofs

----------------------------------------------------------------------------
(* Numbers and scalars.                                                    *)

\* Two bytes hold a number below their range.
LEMMA TwoBytes ==
  ASSUME NEW n \in Nat, n < Base * Base
  PROVE  Scalar(n, 2)[1] + Base * Scalar(n, 2)[2] = n
<1> DEFINE q == n \div Base
           r == n % Base
           q1 == n \div 1
           p == q % Base
<1>1. Base \in Nat \ {0} /\ Base * Base \in Nat
  BY VectorAssumption
<1>2. q \in Nat /\ n = Base * q + r /\ r \in 0 .. (Base - 1)
  <2>1. n \in Int
    OBVIOUS
  <2> QED
    BY <1>1, <2>1, Divided, RemainderBelow
<1>3. q1 = n
  OBVIOUS
<1>4. q < Base
  <2> HIDE DEF q, r
  <2>1. SUFFICES ASSUME q >= Base PROVE FALSE
    BY <1>1, <1>2
  <2>2. Base * Base <= Base * q
    BY <1>1, <1>2, <2>1, ProductGrows
  <2>3. Base * q \in Nat
    BY <1>1, <1>2
  <2> QED
    BY <1>1, <1>2, <2>2, <2>3
<1>5. p = q
  <2> DEFINE k == q \div Base
  <2>1. k \in Nat /\ q = Base * k + p /\ p \in 0 .. (Base - 1)
    <3>1. q \in Nat /\ q \in Int
      BY <1>2
    <3> HIDE DEF q
    <3> QED
      BY <1>1, <3>1, Divided, RemainderBelow
  <2> HIDE DEF q, p, k
  <2>2. k = 0
    <3>1. SUFFICES ASSUME k >= 1 PROVE FALSE
      BY <2>1
    <3>2. Base * 1 <= Base * k /\ Base * 1 = Base /\ Base * k \in Nat
      BY <1>1, <2>1, <3>1, ProductGrows
    <3> QED
      BY <1>1, <1>2, <1>4, <2>1, <3>2
  <2> QED
    BY <1>1, <2>1, <2>2
<1>6. Scalar(n, 2)[1] = q1 % Base /\ Scalar(n, 2)[2] = p
  BY DEF Scalar, Places
<1>7. q1 % Base = r
  BY <1>3
<1> HIDE DEF q, r, q1, p
<1> QED
  <2>1. r + Base * q = n
    BY <1>1, <1>2
  <2> QED
    BY <1>5, <1>6, <1>7, <2>1

\* The only quotient and remainder.
LEMMA DivisionUnique ==
  ASSUME NEW n \in Int, NEW m \in Nat \ {0}, NEW q \in Int, NEW r \in 0 .. (m - 1),
         n = m * q + r
  PROVE  n \div m = q /\ n % m = r
  OBVIOUS

\* Quotient and remainder of integers.
LEMMA DividedInt ==
  ASSUME NEW n \in Int, NEW m \in Nat \ {0}
  PROVE  n \div m \in Int /\ n % m \in 0 .. (m - 1) /\ n = m * (n \div m) + (n % m)
  OBVIOUS

\* Dividing twice is dividing once.
LEMMA DividedTwice ==
  ASSUME NEW n \in Int, NEW m \in Nat \ {0}, NEW p \in Nat \ {0}
  PROVE  n \div (m * p) = (n \div m) \div p
<1> DEFINE q == n \div m
           r == n % m
           s == q \div p
           t == q % p
<1>1. q \in Int /\ r \in 0 .. (m - 1) /\ n = m * q + r
  BY DividedInt
<1> HIDE DEF q, r
<1>2. s \in Int /\ t \in 0 .. (p - 1) /\ q = p * s + t
  BY <1>1, DividedInt
<1> HIDE DEF s, t
<1>3. m * p \in Nat \ {0}
  OBVIOUS
<1>4. m * q = (m * p) * s + m * t
  BY <1>1, <1>2
<1>5. m * t + r \in 0 .. (m * p - 1)
  <2>1. t \in Nat /\ p - 1 \in Nat /\ m \in Nat /\ t <= p - 1
    BY <1>2
  <2>2. m * t <= m * (p - 1) /\ m * t \in Nat
    BY <2>1, ProductGrows
  <2>3. m * (p - 1) = m * p - m
    BY <2>1
  <2> QED
    BY <1>1, <1>3, <2>2, <2>3
<1>6. n = (m * p) * s + (m * t + r)
  BY <1>1, <1>2, <1>3, <1>4
<1>7. n \div (m * p) = s
  <2> DEFINE u == m * t + r
             k == m * p
  <2>1. n = k * s + u /\ u \in 0 .. (k - 1) /\ k \in Nat \ {0}
    BY <1>3, <1>5, <1>6
  <2> HIDE DEF u, k
  <2>2. n \div k = s
    BY <1>2, <2>1, DivisionUnique
  <2> QED
    BY <2>2 DEF k
<1> QED
  BY <1>7 DEF q, s

\* Four bytes are a number modulo the values of four bytes.
LEMMA FourBytes ==
  ASSUME NEW n \in Int
  PROVE  Value(Scalar(n, 4)) \in 0 .. (Places[5] - 1)
         /\ \E k \in Int : n = Places[5] * k + Value(Scalar(n, 4))
<1> DEFINE b == Base
           q1 == n \div b
           q2 == q1 \div b
           q3 == q2 \div b
           q4 == q3 \div b
           r1 == n % b
           r2 == q1 % b
           r3 == q2 % b
           r4 == q3 % b
           s == Scalar(n, 4)
<1>1. b \in Nat \ {0} /\ b * b \in Nat \ {0} /\ b * b * b \in Nat \ {0}
  BY VectorAssumption
<1>2. q1 \in Int /\ r1 \in 0 .. (b - 1) /\ n = b * q1 + r1
  BY <1>1, DividedInt
<1>3. q2 \in Int /\ r2 \in 0 .. (b - 1) /\ q1 = b * q2 + r2
  <2> HIDE DEF q1
  <2> QED
    BY <1>1, <1>2, DividedInt
<1>4. q3 \in Int /\ r3 \in 0 .. (b - 1) /\ q2 = b * q3 + r3
  <2> HIDE DEF q2
  <2> QED
    BY <1>1, <1>3, DividedInt
<1>5. q4 \in Int /\ r4 \in 0 .. (b - 1) /\ q3 = b * q4 + r4
  <2> HIDE DEF q3
  <2> QED
    BY <1>1, <1>4, DividedInt
<1>6. n \div 1 = n /\ n \div (b * b) = q2 /\ n \div (b * b * b) = q3
  <2>1. n \div (b * b) = q2
    BY <1>1, DividedTwice
  <2>2. n \div ((b * b) * b) = (n \div (b * b)) \div b
    BY <1>1, DividedTwice
  <2> QED
    BY <2>1, <2>2
<1>7. /\ Len(s) = 4 /\ s[1] = (n \div 1) % b /\ s[2] = (n \div b) % b
      /\ s[3] = (n \div (b * b)) % b /\ s[4] = (n \div (b * b * b)) % b
  BY DEF Scalar, Places
<1>8. s[1] = r1 /\ s[2] = r2 /\ s[3] = r3 /\ s[4] = r4
  BY <1>6, <1>7
<1>9. Value(s) = r1 + b * (r2 + b * (r3 + b * r4))
  BY <1>7, <1>8 DEF Value
<1> HIDE DEF b, q1, q2, q3, q4, r1, r2, r3, r4
<1> DEFINE v3 == r3 + b * r4
           v2 == r2 + b * v3
           v1 == r1 + b * v2
<1>10. /\ v3 \in 0 .. (b * b - 1) /\ v2 \in 0 .. (b * b * b - 1)
       /\ v1 \in 0 .. (b * b * b * b - 1)
  <2>1. ASSUME NEW m \in Nat \ {0}, NEW r \in 0 .. (b - 1), NEW v \in 0 .. (m - 1)
        PROVE  r + b * v \in 0 .. (m * b - 1)
    <3>1. v \in Nat /\ m - 1 \in Nat /\ v <= m - 1 /\ b \in Nat
      BY <1>1
    <3>2. b * v <= b * (m - 1) /\ b * v \in Nat
      BY <3>1, ProductGrows
    <3>3. b * (m - 1) = m * b - b /\ m * b \in Nat
      BY <1>1
    <3> QED
      BY <1>1, <3>2, <3>3
  <2>2. v3 \in 0 .. (b * b - 1)
    BY <1>1, <1>4, <1>5, <2>1
  <2> HIDE DEF v3
  <2>3. v2 \in 0 .. (b * b * b - 1)
    BY <1>1, <1>3, <2>1, <2>2
  <2> HIDE DEF v2
  <2>4. v1 \in 0 .. (b * b * b * b - 1)
    BY <1>1, <1>2, <2>1, <2>3
  <2> QED
    BY <2>2, <2>3, <2>4
<1>11. n = (b * b * b * b) * q4 + v1
  <2>1. b * q3 = (b * b) * q4 + b * r4
    BY <1>1, <1>5
  <2>2. q2 = (b * b) * q4 + v3
    BY <1>1, <1>4, <1>5, <2>1
  <2> HIDE DEF v3
  <2>3. b * q2 = (b * b * b) * q4 + b * v3
    BY <1>1, <1>10, <1>5, <2>2
  <2>4. q1 = (b * b * b) * q4 + v2
    BY <1>1, <1>3, <1>5, <1>10, <2>3
  <2> HIDE DEF v2
  <2>5. b * q1 = (b * b * b * b) * q4 + b * v2
    BY <1>1, <1>5, <1>10, <2>4
  <2> QED
    BY <1>1, <1>2, <1>5, <1>10, <2>5
<1>12. Places[5] = b * b * b * b
  BY DEF Places, b
<1>13. Value(s) = v1
  BY <1>9
<1> HIDE DEF v1, s
<1> QED
  BY <1>5, <1>10, <1>11, <1>12, <1>13 DEF s

\* A number that fits in four bytes is read back.
LEMMA ValueOfFour ==
  ASSUME NEW n \in 0 .. (Places[5] - 1)
  PROVE  Value(Scalar(n, 4)) = n
<1> DEFINE v == Value(Scalar(n, 4))
           p == Places[5]
<1>1. p \in Nat \ {0}
  BY PlacesPositive
<1>2. v \in 0 .. (p - 1) /\ \E k \in Int : n = p * k + v
  BY <1>1, FourBytes
<1> HIDE DEF v, p
<1>3. PICK k \in Int : n = p * k + v
  BY <1>2
<1>4. n \in Int /\ n \in 0 .. (p - 1) /\ n = p * 0 + n
  BY <1>1 DEF p
<1>5. n % p = v
  BY <1>1, <1>2, <1>3, <1>4, DivisionUnique
<1>6. n % p = n
  <2>1. 0 \in Int
    OBVIOUS
  <2> QED
    BY ONLY <1>1, <1>4, <2>1, DivisionUnique
<1> QED
  BY <1>5, <1>6 DEF v

\* A number that fits in two bytes is read back.
LEMMA ValueOfTwo ==
  ASSUME NEW n \in Nat, n < Base * Base
  PROVE  Value(Scalar(n, 2)) = n
<1>1. 2 \in Nat /\ n \in Int
  OBVIOUS
<1>2. Len(Scalar(n, 2)) = 2
  BY <1>1, ScalarBytes
<1> QED
  BY <1>2, TwoBytes DEF Value

\* What a buffer may be long, and how it compares with the values of four bytes.
LEMMA BufferLimit ==
  /\ MaxBufferSize \in Nat /\ Places[5] \in Nat \ {0}
  /\ 2 * MaxBufferSize + 2 <= Places[5] /\ 2 * MaxBufferSize + 3 >= Places[5]
<1> DEFINE p == Places[5]
<1>1. p \in Nat \ {0} /\ p > 1
  <2>1. Base \in Nat /\ Base >= 2
    BY VectorAssumption
  <2>2. Base * Base \in Nat /\ Base * Base >= 2
    BY <2>1
  <2>3. Base * Base * Base \in Nat /\ Base * Base * Base >= 2
    BY <2>1, <2>2
  <2>4. Base * Base * Base * Base \in Nat /\ Base * Base * Base * Base >= 2
    BY <2>1, <2>3
  <2> QED
    BY <2>4 DEF Places
<1>2. MaxBufferSize = p \div 2 - 1
  BY DEF MaxBufferSize, uoffset
<1> HIDE DEF p
<1>3. MaxBufferSize \in Nat /\ 2 * MaxBufferSize + 2 <= p /\ 2 * MaxBufferSize + 3 >= p
  BY <1>1, <1>2
<1> QED
  BY <1>1, <1>3 DEF p

\* A difference of two offsets is read back.
LEMMA SignedOf ==
  ASSUME NEW n \in Int, -MaxBufferSize <= n, n <= MaxBufferSize
  PROVE  Signed(Scalar(n, 4)) = n
<1> DEFINE v == Value(Scalar(n, 4))
           p == Places[5]
<1>1. p \in Nat \ {0} /\ v \in 0 .. (p - 1) /\ \E k \in Int : n = p * k + v
  BY FourBytes, PlacesPositive
<1>2. 2 * MaxBufferSize + 2 <= p /\ MaxBufferSize \in Nat
  BY BufferLimit
<1>3. Len(Scalar(n, 4)) + 1 = 5
  <2>1. 4 \in Nat /\ Len(Scalar(n, 4)) = 4
    BY ScalarBytes
  <2>2. 4 + 1 = 5
    OBVIOUS
  <2> QED
    BY ONLY <2>1, <2>2
<1>4. Signed(Scalar(n, 4)) = IF 2 * v < p THEN v ELSE v - p
  BY <1>3 DEF Signed
<1> HIDE DEF v, p
<1>5. PICK k \in Int : n = p * k + v
  BY <1>1
<1>6. v \in Int /\ v >= 0 /\ v < p
  BY <1>1
<1>7. k = 0 \/ k = -1
  <2>1. ~(k >= 1)
    <3>1. SUFFICES ASSUME k >= 1 PROVE FALSE
      OBVIOUS
    <3>2. p * 1 <= p * k /\ p * k \in Nat
      BY <1>1, <3>1, ProductGrows
    <3> QED
      BY <1>1, <1>2, <1>5, <1>6, <3>2
  <2>2. ~(k <= -2)
    <3>1. SUFFICES ASSUME k <= -2 PROVE FALSE
      OBVIOUS
    <3> DEFINE j == -k
    <3>2. j \in Nat /\ 2 <= j /\ p * k = -(p * j)
      BY <1>1, <3>1
    <3> HIDE DEF j
    <3>3. p * 2 <= p * j /\ p * j \in Nat
      BY <1>1, <3>2, ProductGrows
    <3> QED
      BY <1>1, <1>2, <1>5, <1>6, <3>2, <3>3
  <2> QED
    BY <2>1, <2>2
<1>8. CASE k = 0
  <2>1. n = v
    BY <1>1, <1>5, <1>6, <1>8
  <2> QED
    BY <1>1, <1>2, <1>4, <1>6, <2>1
<1>9. CASE k = -1
  <2>1. n = v - p
    BY <1>1, <1>5, <1>6, <1>9
  <2> QED
    BY <1>1, <1>2, <1>4, <1>6, <2>1
<1> QED
  BY <1>7, <1>8, <1>9

----------------------------------------------------------------------------
(* Alignment.                                                              *)

\* The padding before an object of at most 8 bytes is shorter than the object.
LEMMA PaddingBelow ==
  ASSUME NEW n \in Nat, NEW s \in {1, 2, 4, 8}
  PROVE  PaddingBytes(n, s) \in 0 .. (s - 1)
<1> DEFINE Bit(m, p) == (m \div p) % 2
           And(p) == p * Bit(-n, p) * Bit(s - 1, p)
<1>1. ASSUME NEW p \in {1, 2, 4, 8, 16}
      PROVE  And(p) \in 0 .. (p * Bit(s - 1, p)) /\ Bit(s - 1, p) \in {0, 1}
  <2>1. Bit(-n, p) \in {0, 1} /\ Bit(s - 1, p) \in {0, 1}
    BY BitIsBit
  <2> HIDE DEF Bit
  <2> QED
    BY <2>1
<1>2. PaddingBytes(n, s) = And(1) + And(2) + And(4) + And(8) + And(16)
  BY DEF PaddingBytes
<1>3. /\ Bit(s - 1, 1) + 2 * Bit(s - 1, 2) + 4 * Bit(s - 1, 4) + 8 * Bit(s - 1, 8)
           + 16 * Bit(s - 1, 16) = s - 1
  <2>1. CASE s = 1
    BY <2>1
  <2>2. CASE s = 2
    BY <2>2
  <2>3. CASE s = 4
    BY <2>3
  <2>4. CASE s = 8
    BY <2>4
  <2> QED
    BY <2>1, <2>2, <2>3, <2>4
<1> HIDE DEF Bit, And
<1>4. /\ And(1) \in 0 .. (1 * Bit(s - 1, 1)) /\ And(2) \in 0 .. (2 * Bit(s - 1, 2))
      /\ And(4) \in 0 .. (4 * Bit(s - 1, 4)) /\ And(8) \in 0 .. (8 * Bit(s - 1, 8))
      /\ And(16) \in 0 .. (16 * Bit(s - 1, 16))
      /\ Bit(s - 1, 1) \in {0, 1} /\ Bit(s - 1, 2) \in {0, 1} /\ Bit(s - 1, 4) \in {0, 1}
      /\ Bit(s - 1, 8) \in {0, 1} /\ Bit(s - 1, 16) \in {0, 1}
  BY <1>1
<1> QED
  BY <1>2, <1>3, <1>4

\* Padding to four bytes aligns to four bytes, and is not needed twice.
LEMMA PaddingOfFour ==
  ASSUME NEW n \in Nat
  PROVE  /\ \E k \in Nat : n + PaddingBytes(n, 4) = 4 * k
         /\ (\E k \in Nat : n = 4 * k) => PaddingBytes(n, 4) = 0
<1> DEFINE Bit(m, p) == (m \div p) % 2
           And(p) == p * Bit(-n, p) * Bit(4 - 1, p)
<1>1. PaddingBytes(n, 4) = And(1) + And(2) + And(4) + And(8) + And(16)
  BY DEF PaddingBytes
<1>2. ASSUME NEW p \in {1, 2, 4, 8, 16} PROVE Bit(-n, p) \in {0, 1}
  BY BitIsBit
<1>3. /\ Bit(4 - 1, 1) = 1 /\ Bit(4 - 1, 2) = 1 /\ Bit(4 - 1, 4) = 0 /\ Bit(4 - 1, 8) = 0
      /\ Bit(4 - 1, 16) = 0
  OBVIOUS
<1>4. And(1) = Bit(-n, 1) /\ And(2) = 2 * Bit(-n, 2) /\ And(4) = 0 /\ And(8) = 0 /\ And(16) = 0
  <2> HIDE DEF Bit
  <2> QED
    BY <1>2, <1>3
<1>5. PaddingBytes(n, 4) = Bit(-n, 1) + 2 * Bit(-n, 2)
  <2> HIDE DEF Bit, And
  <2> QED
    BY <1>1, <1>2, <1>4
<1> HIDE DEF And
<1>6. PaddingBytes(n, 4) = (-n) % 4
  BY <1>5
<1> DEFINE q == (-n) \div 4
<1>7. q \in Int /\ ((-n) % 4) \in 0 .. 3 /\ -n = 4 * q + ((-n) % 4)
  OBVIOUS
<1> HIDE DEF q
<1>8. -q \in Nat /\ n + PaddingBytes(n, 4) = 4 * (-q)
  BY <1>6, <1>7
<1>9. ASSUME NEW k \in Nat, n = 4 * k PROVE (-n) % 4 = 0
  BY <1>9
<1> QED
  BY <1>6, <1>8, <1>9

\* Padding keeps a multiple of four.
LEMMA PaddingKeepsFour ==
  ASSUME NEW k \in Nat, NEW s \in Nat
  PROVE  \E j \in Nat : PaddingBytes(4 * k, s) = 4 * j
<1> DEFINE n == 4 * k
           Bit(m, p) == (m \div p) % 2
           And(p) == p * Bit(-n, p) * Bit(s - 1, p)
<1>1. PaddingBytes(n, s) = And(1) + And(2) + And(4) + And(8) + And(16)
  BY DEF PaddingBytes
<1>2. ASSUME NEW m \in Int, NEW p \in {1, 2, 4, 8, 16} PROVE Bit(m, p) \in {0, 1}
  BY BitIsBit
<1>3. Bit(-n, 1) = 0 /\ Bit(-n, 2) = 0
  OBVIOUS
<1>4. -n \in Int /\ s - 1 \in Int
  OBVIOUS
<1> DEFINE f(p) == Bit(-n, p) * Bit(s - 1, p)
<1> HIDE DEF Bit, n
<1>5. \A p \in {1, 2, 4, 8, 16} : f(p) \in {0, 1} /\ And(p) = p * f(p)
  BY <1>2, <1>4
<1>6. f(1) = 0 /\ f(2) = 0
  BY <1>2, <1>3, <1>4
<1> HIDE DEF f, And
<1>7. /\ f(4) \in {0, 1} /\ f(8) \in {0, 1} /\ f(16) \in {0, 1}
      /\ And(1) = 0 /\ And(2) = 0 /\ And(4) = 4 * f(4) /\ And(8) = 8 * f(8)
      /\ And(16) = 16 * f(16)
  BY <1>5, <1>6
<1> DEFINE j == f(4) + 2 * f(8) + 4 * f(16)
<1>8. j \in Nat /\ PaddingBytes(n, s) = 4 * j
  BY <1>1, <1>7
<1> QED
  BY <1>8 DEF n

----------------------------------------------------------------------------
(* Bytes at offsets from the end of the data.                              *)

\* The bytes are in d, the first of them at an offset, and use offsets in S.
Has(d, S, off, bytes) ==
  /\ bytes \in Seq(Bytes) /\ off \in Nat /\ Len(bytes) <= off /\ off <= Len(d)
  /\ off - Len(bytes) + 1 .. off \subseteq S
  /\ \A i \in 1 .. Len(bytes) : d[Len(d) - off + i] = bytes[i]

\* At the offsets in S, e has the bytes of d.
Agree(d, e, S) ==
  /\ Len(d) <= Len(e)
  /\ \A o \in S : o \in 1 .. Len(d) => e[Len(e) - o + 1] = d[Len(d) - o + 1]

\* The parts of a sequence of bytes in the data.
LEMMA HasParts ==
  ASSUME NEW d \in Seq(Bytes), NEW S, NEW off, NEW bytes, Has(d, S, off, bytes)
  PROVE  /\ bytes \in Seq(Bytes) /\ Len(bytes) \in Nat /\ off \in Nat /\ Len(d) \in Nat
         /\ Len(bytes) <= off /\ off <= Len(d)
  BY DEF Has

\* What is there stays there when the bytes it uses stay.
LEMMA HasOn ==
  ASSUME NEW d \in Seq(Bytes), NEW e \in Seq(Bytes), NEW S, NEW T, NEW off, NEW bytes,
         Has(d, S, off, bytes), Agree(d, e, S), S \subseteq T
  PROVE  Has(e, T, off, bytes)
<1> DEFINE n == Len(bytes)
           l == Len(d)
           m == Len(e)
<1>1. /\ n \in Nat /\ off \in Nat /\ l \in Nat /\ m \in Nat /\ n <= off /\ off <= l /\ l <= m
      /\ bytes \in Seq(Bytes)
  BY HasParts DEF Agree
<1>2. off - n + 1 .. off \subseteq S /\ \A i \in 1 .. n : d[l - off + i] = bytes[i]
  BY DEF Has
<1>3. \A o \in S : o \in 1 .. l => e[m - o + 1] = d[l - o + 1]
  BY DEF Agree
<1> HIDE DEF n, l, m
<1>4. ASSUME NEW i \in 1 .. n PROVE e[m - off + i] = bytes[i]
  <2> DEFINE o == off - i + 1
  <2>1. /\ o \in off - n + 1 .. off /\ o \in 1 .. l
        /\ m - o + 1 = m - off + i /\ l - o + 1 = l - off + i
    BY <1>1
  <2> HIDE DEF o
  <2>2. o \in S
    BY <1>2, <2>1
  <2>3. e[m - o + 1] = d[l - o + 1]
    BY <1>3, <2>1, <2>2
  <2> QED
    BY <1>2, <2>1, <2>3
<1>5. off <= m /\ off - n + 1 .. off \subseteq T
  BY <1>1, <1>2
<1> QED
  BY <1>1, <1>4, <1>5 DEF Has, n, m

\* Everything stays when only bytes are put before the data.
LEMMA KeptAgrees ==
  ASSUME NEW d \in Seq(Bytes), NEW e \in Seq(Bytes), Kept(d, e), NEW S
  PROVE  Agree(d, e, S)
<1>1. /\ Len(d) \in Nat /\ Len(e) \in Nat /\ Len(d) <= Len(e) /\ DOMAIN d = 1 .. Len(d)
      /\ \A i \in DOMAIN d : e[Len(e) - Len(d) + i] = d[i]
  BY DEF Kept
<1>2. ASSUME NEW o \in 1 .. Len(d) PROVE e[Len(e) - o + 1] = d[Len(d) - o + 1]
  <2> DEFINE i == Len(d) - o + 1
  <2>1. i \in 1 .. Len(d) /\ Len(e) - Len(d) + i = Len(e) - o + 1
    BY <1>1
  <2> HIDE DEF i
  <2>2. e[Len(e) - Len(d) + i] = d[i]
    BY <1>1, <2>1
  <2> QED
    BY <2>1, <2>2 DEF i
<1> QED
  BY <1>1, <1>2 DEF Agree

\* What is there stays there when bytes are put before the data.
LEMMA HasKept ==
  ASSUME NEW d \in Seq(Bytes), NEW e \in Seq(Bytes), Kept(d, e), NEW S, NEW T, S \subseteq T,
         NEW off, NEW bytes, Has(d, S, off, bytes)
  PROVE  Has(e, T, off, bytes)
  BY KeptAgrees, HasOn

\* Bytes put before the data are there.
LEMMA HasFront ==
  ASSUME NEW d \in Seq(Bytes), NEW bytes \in Seq(Bytes)
  PROVE  Has(bytes \o d, Len(d) + 1 .. Len(d) + Len(bytes), Len(d) + Len(bytes), bytes)
<1> DEFINE e == bytes \o d
           off == Len(d) + Len(bytes)
<1>1. /\ e \in Seq(Bytes) /\ Len(e) = off /\ Len(d) \in Nat /\ Len(bytes) \in Nat /\ off \in Nat
      /\ \A i \in 1 .. Len(bytes) : e[i] = bytes[i]
  OBVIOUS
<1> HIDE DEF e
<1>2. off - Len(bytes) + 1 = Len(d) + 1 /\ Len(bytes) <= off /\ Len(e) - off = 0
  BY <1>1
<1> HIDE DEF off
<1>3. ASSUME NEW i \in 1 .. Len(bytes) PROVE e[Len(e) - off + i] = bytes[i]
  <2>1. Len(e) - off + i = i
    BY <1>1, <1>2
  <2> QED
    BY <1>1, <2>1
<1>4. Has(e, Len(d) + 1 .. off, off, bytes)
  BY <1>1, <1>2, <1>3 DEF Has
<1> QED
  BY <1>4 DEF e, off

\* The reader finds the bytes.
LEMMA HasRead ==
  ASSUME NEW d \in Seq(Bytes), NEW S, NEW off, NEW bytes, Has(d, S, off, bytes)
  PROVE  ReadBytes(d, Len(d) - off, Len(bytes)) = bytes
<1> DEFINE n == Len(bytes)
           l == Len(d)
<1>1. n \in Nat /\ off \in Nat /\ l \in Nat /\ n <= off /\ off <= l /\ DOMAIN d = 1 .. l
  BY HasParts
<1>2. \A i \in 1 .. n : d[l - off + i] = bytes[i]
  BY DEF Has
<1>3. \A i \in 1 .. n : l - off + i \in 1 .. l
  <2> HIDE DEF n, l
  <2> QED
    BY <1>1
<1>4. bytes = [i \in 1 .. n |-> bytes[i]]
  BY HasParts
<1>5. ReadBytes(d, l - off, n) = [i \in 1 .. n |-> bytes[i]]
  <2> HIDE DEF n, l
  <2> QED
    BY <1>1, <1>2, <1>3 DEF ReadBytes
<1> QED
  BY <1>4, <1>5

\* So does the builder.
LEMMA HasDataAt ==
  ASSUME NEW v, v.data \in Seq(Bytes), NEW S, NEW off, NEW bytes, Has(v.data, S, off, bytes)
  PROVE  data_at(v, off, Len(bytes)) = bytes
<1>1. data_at(v, off, Len(bytes)) = ReadBytes(v.data, Len(v.data) - off, Len(bytes))
  BY DEF data_at, ReadBytes, size
<1> QED
  BY <1>1, HasRead

\* A part of the bytes is there.
LEMMA HasSlice ==
  ASSUME NEW d \in Seq(Bytes), NEW S, NEW off, NEW bytes, Has(d, S, off, bytes),
         NEW k \in Nat, NEW part \in Seq(Bytes), k + Len(part) <= Len(bytes),
         \A i \in 1 .. Len(part) : part[i] = bytes[k + i]
  PROVE  Has(d, S, off - k, part)
<1> DEFINE n == Len(bytes)
           m == Len(part)
           l == Len(d)
<1>1. /\ n \in Nat /\ off \in Nat /\ l \in Nat /\ n <= off /\ off <= l /\ m \in Nat
      /\ k + m <= n
  BY HasParts
<1>2. off - n + 1 .. off \subseteq S /\ \A i \in 1 .. n : d[l - off + i] = bytes[i]
  BY DEF Has
<1> HIDE DEF n, m, l
<1>3. off - k \in Nat /\ m <= off - k /\ off - k <= l
  BY <1>1
<1>4. off - k - m + 1 .. off - k \subseteq off - n + 1 .. off
  BY <1>1
<1>5. ASSUME NEW i \in 1 .. m PROVE d[l - (off - k) + i] = part[i]
  <2>1. k + i \in 1 .. n /\ l - (off - k) + i = l - off + (k + i)
    BY <1>1
  <2>2. d[l - off + (k + i)] = bytes[k + i]
    BY <1>2, <2>1
  <2> QED
    BY <2>1, <2>2 DEF m
<1>6. off - k - m + 1 .. off - k \subseteq S
  BY <1>2, <1>4
<1> QED
  BY <1>3, <1>5, <1>6 DEF Has, m, l

\* Bytes that are there use offsets of S, also of a smaller set.
LEMMA HasWithin ==
  ASSUME NEW d \in Seq(Bytes), NEW S, NEW T, NEW off, NEW bytes, Has(d, S, off, bytes),
         off - Len(bytes) + 1 .. off \subseteq T
  PROVE  Has(d, T, off, bytes)
  BY DEF Has

\* Of joined elements each is at its place.
LEMMA JoinedAt ==
  ASSUME NEW width \in Nat, NEW elems \in Seq(Seq(Bytes)),
         \A i \in 1 .. Len(elems) : Len(elems[i]) = width,
         NEW i \in 1 .. Len(elems)
  PROVE  /\ (i - 1) * width \in Nat /\ (i - 1) * width + width <= Len(elems) * width
         /\ \A j \in 1 .. width : Joined(elems, width)[(i - 1) * width + j] = elems[i][j]
<1> DEFINE n == Len(elems)
           k == (i - 1) * width
<1>1. n \in Nat /\ i \in 1 .. n /\ i - 1 \in Nat /\ n * width \in Nat
  OBVIOUS
<1>2. k \in Nat /\ k + width <= n * width
  <2>1. width * i <= width * n /\ k + width = width * i /\ width * n = n * width
    <3>1. i \in Nat /\ i <= n
      BY <1>1
    <3> HIDE DEF n
    <3>2. width * i <= width * n
      BY <1>1, <3>1, ProductGrows
    <3> QED
      BY <1>1, <3>1, <3>2
  <2>2. k \in Nat
    BY <1>1
  <2> QED
    BY <1>1, <2>1, <2>2
<1>3. ASSUME NEW j \in 1 .. width PROVE Joined(elems, width)[k + j] = elems[i][j]
  <2> DEFINE m == k + j
  <2>1. m \in 1 .. (n * width) /\ m - 1 = width * (i - 1) + (j - 1)
    <3> DEFINE t == n * width
    <3>1. t \in Nat /\ k \in Nat /\ k + width <= t /\ width \in Nat
      BY <1>1, <1>2
    <3>4. k = width * (i - 1)
      BY <1>1
    <3> HIDE DEF k, t, n
    <3>2. j \in Nat /\ j >= 1 /\ j <= width
      BY ONLY j \in 1 .. width, width \in Nat
    <3>3. m \in 1 .. t /\ m - 1 = k + (j - 1)
      BY ONLY <3>1, <3>2
    <3> QED
      BY <3>3, <3>4 DEF t
  <2>2. Joined(elems, width)[m] = elems[(m - 1) \div width + 1][((m - 1) % width) + 1]
    BY <2>1 DEF Joined
  <2> HIDE DEF m
  <2>3. width \in Nat \ {0} /\ j - 1 \in 0 .. (width - 1) /\ i - 1 \in Int /\ m - 1 \in Int
    BY <1>1, <2>1
  <2>4. (m - 1) \div width = i - 1 /\ (m - 1) % width = j - 1
    BY <2>1, <2>3, DivisionUnique
  <2>5. (m - 1) \div width + 1 = i /\ ((m - 1) % width) + 1 = j
    BY <1>1, <2>4
  <2> QED
    BY <2>2, <2>5 DEF m
<1> QED
  BY <1>2, <1>3

\* Joined elements are in the data one after the other.
LEMMA HasJoined ==
  ASSUME NEW width \in Nat, NEW elems \in Seq(Seq(Bytes)),
         \A i \in 1 .. Len(elems) : Len(elems[i]) = width,
         NEW d \in Seq(Bytes), NEW S, NEW off, Has(d, S, off, Joined(elems, width)),
         NEW i \in 1 .. Len(elems)
  PROVE  Has(d, S, off - (i - 1) * width, elems[i])
<1> DEFINE k == (i - 1) * width
           all == Joined(elems, width)
           part == elems[i]
<1>1. /\ k \in Nat /\ k + width <= Len(elems) * width
      /\ \A j \in 1 .. width : all[k + j] = part[j]
  BY JoinedAt
<1>2. Len(all) = Len(elems) * width
  BY JoinedBytes
<1>3. part \in Seq(Bytes) /\ Len(part) = width
  OBVIOUS
<1> HIDE DEF k, all, part
<1>4. Has(d, S, off, all)
  BY DEF all
<1>5. Has(d, S, off - k, part)
  BY <1>1, <1>2, <1>3, <1>4, HasSlice
<1> QED
  BY <1>5 DEF k, part

----------------------------------------------------------------------------
(* What is written where.                                                  *)

\* The offsets of what c has before the data of b.
New(b, c) == GetSize(b) + 1 .. GetSize(c)

\* A string: its length and its characters.
StringLaid(d, S, off, s) == Has(d, S, off, Scalar(Len(s), 4)) /\ Has(d, S, off - 4, s)

\* A reference to what is at a target.
ReferenceLaid(d, S, off, target) ==
  target \in Nat /\ target <= off /\ Has(d, S, off, Scalar(off - target, 4))

\* A vector of references.
ReferencesLaid(d, S, off, offs) ==
  /\ offs \in Seq(Nat) /\ Has(d, S, off, Scalar(Len(offs), 4))
  /\ \A i \in 1 .. Len(offs) : ReferenceLaid(d, S, off - 4 * i, offs[i])

\* The words of a vtable.
Words(entries) == Joined([k \in 1 .. Len(entries) |-> Scalar(entries[k], 2)], 2)

\* Entries of a vtable: its size comes first, and all fit in two bytes.
Entries(entries) ==
  /\ entries \in Seq(Nat) /\ Len(entries) >= 2 /\ entries[1] = 2 * Len(entries)
  /\ \A k \in 1 .. Len(entries) : entries[k] < Base * Base

\* A vtable.
VTableLaid(d, S, off, entries) == Entries(entries) /\ Has(d, S, off, Words(entries))

\* Padding is written, and nothing else.
LEMMA AlignedBy ==
  ASSUME NEW b \in GoodBuilders, NEW len \in Nat, NEW a \in 1 .. 16
  PROVE  /\ Writes(b, PreAlign(b, len, a)) /\ Writes(b, Align(b, a))
         /\ GetSize(PreAlign(b, len, a)) = GetSize(b) + PaddingBytes(GetSize(b) + len, a)
         /\ GetSize(Align(b, a)) = GetSize(b) + PaddingBytes(GetSize(b), a)
         /\ PaddingBytes(GetSize(b) + len, a) \in Nat /\ PaddingBytes(GetSize(b), a) \in Nat
<1>1. /\ b.buf_ = TrackMinAlign(b, a).buf_ /\ size(b.buf_) \in Nat
      /\ GetSize(b) = size(b.buf_)
  BY BuilderParts DEF TrackMinAlign, Builders, GetSize
<1>2. size(b.buf_) + len \in Nat /\ a \in Nat
  BY <1>1
<1>3. PaddingBytes(size(b.buf_) + len, a) \in Nat /\ PaddingBytes(size(b.buf_), a) \in Nat
  BY <1>1, <1>2, PaddingIsNat
<1> QED
  BY <1>1, <1>3, PaddingWritten DEF PreAlign, Align

\* A scalar is written behind its padding.
LEMMA ElementLaid ==
  ASSUME NEW b \in GoodBuilders, NEW scalar \in Seq(Bytes), Len(scalar) \in 1 .. 16
  PROVE  LET c == PushElement(b, scalar)
         IN  /\ Writes(b, c) /\ c \in GoodBuilders
             /\ PaddingBytes(GetSize(b), Len(scalar)) \in Nat
             /\ GetSize(c) = GetSize(b) + PaddingBytes(GetSize(b), Len(scalar)) + Len(scalar)
             /\ Has(c.buf_.data, New(b, c), GetSize(c), scalar)
<1> DEFINE p == Align(b, Len(scalar))
           c == PushBytes(p, scalar)
<1>1. /\ Writes(b, p) /\ p \in GoodBuilders /\ PaddingBytes(GetSize(b), Len(scalar)) \in Nat
      /\ GetSize(p) = GetSize(b) + PaddingBytes(GetSize(b), Len(scalar))
  <2>1. 0 \in Nat
    OBVIOUS
  <2> QED
    BY <2>1, AlignedBy, WritesGood
<1>2. PushElement(b, scalar) = c
  BY DEF PushElement
<1> HIDE DEF p
<1>3. /\ Writes(p, c) /\ GetSize(c) = GetSize(p) + Len(scalar)
      /\ c.buf_.data = scalar \o p.buf_.data
  BY <1>1, BytesPushed
<1>4. p.buf_.data \in Seq(Bytes) /\ Len(p.buf_.data) = GetSize(p) /\ GetSize(p) \in Nat
      /\ GetSize(b) \in Nat
  BY <1>1, BuilderParts
<1> HIDE DEF c
<1>5. Writes(b, c) /\ c \in GoodBuilders
  BY <1>1, <1>3, WritesOn, WritesGood
<1>6. Has(c.buf_.data, GetSize(p) + 1 .. GetSize(p) + Len(scalar), GetSize(p) + Len(scalar), scalar)
  BY <1>3, <1>4, HasFront
<1>7. Has(c.buf_.data, New(b, c), GetSize(c), scalar)
  <2> DEFINE n == Len(scalar)
  <2>1. n \in Nat /\ GetSize(c) - n + 1 .. GetSize(c) \subseteq New(b, c)
        /\ GetSize(c) = GetSize(p) + n
    BY <1>1, <1>3, <1>4 DEF New
  <2>2. c.buf_.data \in Seq(Bytes)
    BY <1>5, BuilderParts
  <2> QED
    BY <1>6, <2>1, <2>2, HasWithin
<1> QED
  BY <1>1, <1>2, <1>3, <1>5, <1>7

\* A scalar of four bytes is written without padding where the data is aligned.
LEMMA WordLaid ==
  ASSUME NEW b \in GoodBuilders, NEW n \in Int, NEW k \in Nat, GetSize(b) = 4 * k
  PROVE  LET c == PushElement(b, Scalar(n, uoffset))
         IN  /\ Writes(b, c) /\ c \in GoodBuilders /\ GetSize(c) = GetSize(b) + 4
             /\ Has(c.buf_.data, New(b, c), GetSize(c), Scalar(n, 4))
<1> DEFINE s == Scalar(n, 4)
           c == PushElement(b, s)
<1>1. s \in Seq(Bytes) /\ Len(s) = 4
  <2>1. 4 \in Nat
    OBVIOUS
  <2> QED
    BY <2>1, ScalarBytes
<1>2. Len(s) \in 1 .. 16
  BY <1>1
<1>3. GetSize(b) \in Nat
  BY BuilderParts
<1>4. PaddingBytes(GetSize(b), 4) = 0
  BY <1>3, PaddingOfFour
<1>5. PushElement(b, Scalar(n, uoffset)) = c
  BY DEF uoffset
<1> HIDE DEF s
<1>6. /\ Writes(b, c) /\ c \in GoodBuilders
      /\ GetSize(c) = GetSize(b) + PaddingBytes(GetSize(b), Len(s)) + Len(s)
      /\ Has(c.buf_.data, New(b, c), GetSize(c), s)
  BY <1>1, <1>2, ElementLaid
<1> HIDE DEF c
<1>7. GetSize(c) = GetSize(b) + 4
  BY <1>1, <1>3, <1>4, <1>6
<1> QED
  BY <1>5, <1>6, <1>7 DEF s

\* What was written by the first of two steps.
LEMMA HasFirst ==
  ASSUME NEW b, NEW c, NEW e, Writes(b, c), Writes(c, e), NEW off, NEW bytes,
         Has(c.buf_.data, New(b, c), off, bytes)
  PROVE  Has(e.buf_.data, New(b, e), off, bytes)
<1>1. /\ c.buf_.data \in Seq(Bytes) /\ e.buf_.data \in Seq(Bytes)
      /\ Kept(c.buf_.data, e.buf_.data)
  BY BuilderParts DEF Writes
<1>2. New(b, c) \subseteq New(b, e)
  <2>1. GetSize(b) \in Nat /\ GetSize(c) \in Nat /\ GetSize(e) \in Nat /\ GetSize(c) <= GetSize(e)
    BY WritesGrow
  <2> QED
    BY <2>1 DEF New
<1> QED
  BY <1>1, <1>2, HasKept

\* What was written by the second of two steps.
LEMMA HasSecond ==
  ASSUME NEW b, NEW c, NEW e, Writes(b, c), Writes(c, e), NEW off, NEW bytes,
         Has(e.buf_.data, New(c, e), off, bytes)
  PROVE  Has(e.buf_.data, New(b, e), off, bytes)
<1>1. e.buf_.data \in Seq(Bytes) /\ Kept(e.buf_.data, e.buf_.data)
  BY BuilderParts, KeptSame DEF Writes
<1>2. New(c, e) \subseteq New(b, e)
  <2>1. GetSize(b) \in Nat /\ GetSize(c) \in Nat /\ GetSize(e) \in Nat /\ GetSize(b) <= GetSize(c)
    BY WritesGrow
  <2> QED
    BY <2>1 DEF New
<1> QED
  BY <1>1, <1>2, HasKept

\* Bytes are written before the data.
LEMMA BytesLaid ==
  ASSUME NEW b \in GoodBuilders, NEW bytes \in Seq(Bytes)
  PROVE  LET c == PushBytes(b, bytes)
         IN  /\ Writes(b, c) /\ c \in GoodBuilders /\ GetSize(c) = GetSize(b) + Len(bytes)
             /\ Has(c.buf_.data, New(b, c), GetSize(c), bytes)
<1> DEFINE c == PushBytes(b, bytes)
<1>1. /\ Writes(b, c) /\ GetSize(c) = GetSize(b) + Len(bytes)
      /\ c.buf_.data = bytes \o b.buf_.data
  BY BytesPushed
<1>2. b.buf_.data \in Seq(Bytes) /\ Len(b.buf_.data) = GetSize(b)
  BY BuilderParts
<1> HIDE DEF c
<1>3. Has(c.buf_.data, GetSize(b) + 1 .. GetSize(b) + Len(bytes), GetSize(b) + Len(bytes), bytes)
  BY <1>1, <1>2, HasFront
<1>4. Has(c.buf_.data, New(b, c), GetSize(c), bytes)
  BY <1>1, <1>3 DEF New
<1> QED
  BY <1>1, <1>4, WritesGood DEF c

\* An object of an aligned size follows when it has been padded for.
LEMMA PaddedFor ==
  ASSUME NEW b \in GoodBuilders, NEW len \in Nat
  PROVE  LET p == PreAlign(b, len, uoffset)
         IN  /\ Writes(b, p) /\ p \in GoodBuilders /\ GetSize(p) \in Nat
             /\ \E k \in Nat : GetSize(p) + len = 4 * k
<1> DEFINE p == PreAlign(b, len, 4)
           n == GetSize(b) + len
<1>1. 4 \in 1 .. 16 /\ uoffset = 4
  BY DEF uoffset
<1>2. /\ Writes(b, p) /\ GetSize(p) = GetSize(b) + PaddingBytes(n, 4)
      /\ PaddingBytes(n, 4) \in Nat
  BY <1>1, AlignedBy
<1>3. GetSize(b) \in Nat /\ n \in Nat
  BY BuilderParts
<1>4. PICK k \in Nat : n + PaddingBytes(n, 4) = 4 * k
  <2> HIDE DEF n
  <2> QED
    BY <1>3, PaddingOfFour
<1>5. GetSize(p) + len = 4 * k
  <2> HIDE DEF p
  <2> QED
    BY <1>2, <1>3, <1>4
<1> HIDE DEF p
<1> QED
  BY <1>1, <1>2, <1>5, WritesGood, WritesGrow DEF p

\* A string is where CreateString says.
LEMMA StringIsLaid ==
  ASSUME NEW b \in GoodBuilders, NEW str \in Seq(Bytes)
  PROVE  LET c == CreateString(b, str)
         IN  /\ Writes(b, c) /\ c \in GoodBuilders /\ c.result = GetSize(c)
             /\ GetSize(c) > GetSize(b) /\ GetSize(b) \in Nat /\ GetSize(c) \in Nat
             /\ StringLaid(c.buf_.data, New(b, c), GetSize(c), str)
<1> DEFINE p == PreAlign(b, Len(str) + 1, uoffset)
           zero == [i \in 1 .. 1 |-> 0]
           q == PushBytes(p, zero)
           r == PushBytes(q, str)
           e == PushElement(r, Scalar(Len(str), uoffset))
<1>1. Len(str) \in Nat /\ Len(str) + 1 \in Nat /\ GetSize(b) \in Nat
  BY BuilderParts
<1>2. /\ Writes(b, p) /\ p \in GoodBuilders /\ GetSize(p) \in Nat
      /\ \E k \in Nat : GetSize(p) + (Len(str) + 1) = 4 * k
  BY <1>1, PaddedFor
<1>3. CreateString(b, str) = ReturnSize(e)
  <2>1. p \in Builders /\ q = [p EXCEPT !.buf_ = fill(@, 1)]
    BY <1>2, BuilderParts DEF PushBytes, fill
  <2>2. [p EXCEPT !.buf_ = push(fill(@, 1), str)] = r
    <3> HIDE DEF p
    <3> QED
      BY <2>1 DEF PushBytes, Builders
  <2> QED
    BY <2>2 DEF CreateString
<1> HIDE DEF p
<1>4. zero \in Seq(Bytes) /\ Len(zero) = 1
  <2>1. 0 \in Bytes
    BY VectorAssumption DEF Bytes
  <2> QED
    BY <2>1
<1> HIDE DEF zero
<1>5. Writes(p, q) /\ q \in GoodBuilders /\ GetSize(q) = GetSize(p) + 1
  BY <1>2, <1>4, BytesLaid
<1> HIDE DEF q
<1>6. /\ Writes(q, r) /\ r \in GoodBuilders /\ GetSize(r) = GetSize(q) + Len(str)
      /\ Has(r.buf_.data, New(q, r), GetSize(r), str)
  BY <1>5, BytesLaid
<1> HIDE DEF r
<1>7. /\ Writes(r, e) /\ e \in GoodBuilders /\ GetSize(e) = GetSize(r) + 4
      /\ Has(e.buf_.data, New(r, e), GetSize(e), Scalar(Len(str), 4))
  <2>1. PICK k \in Nat : GetSize(p) + (Len(str) + 1) = 4 * k
    BY <1>2
  <2>2. GetSize(r) = 4 * k
    BY <1>1, <1>2, <1>5, <1>6, <2>1
  <2>3. Len(str) \in Int
    BY <1>1
  <2> QED
    BY <1>6, <2>2, <2>3, WordLaid
<1> HIDE DEF e
<1>8. Writes(b, q) /\ Writes(b, r) /\ Writes(b, e) /\ Writes(q, e)
  BY <1>2, <1>5, <1>6, <1>7, WritesOn
<1>9. GetSize(e) \in Nat /\ GetSize(r) \in Nat /\ GetSize(e) - 4 = GetSize(r)
      /\ GetSize(e) > GetSize(b)
  <2>1. GetSize(b) <= GetSize(r) /\ GetSize(r) \in Nat
    BY <1>8, WritesGrow
  <2> QED
    BY <1>1, <1>7, <2>1
<1>10. StringLaid(e.buf_.data, New(b, e), GetSize(e), str)
  <2>1. Has(e.buf_.data, New(b, e), GetSize(e), Scalar(Len(str), 4))
    BY <1>7, <1>8, HasSecond
  <2>2. Has(r.buf_.data, New(b, r), GetSize(r), str)
    BY <1>6, <1>8, HasSecond
  <2>3. Has(e.buf_.data, New(b, e), GetSize(r), str)
    BY <1>7, <1>8, <2>2, HasFirst
  <2> QED
    BY <1>9, <2>1, <2>3 DEF StringLaid
<1> DEFINE c == ReturnSize(e)
<1>11. /\ Writes(b, c) /\ c.result = GetSize(e) /\ c.buf_ = e.buf_
  BY <1>8, <1>9, Returned DEF ReturnSize
<1> HIDE DEF c
<1>12. GetSize(c) = GetSize(e) /\ New(b, c) = New(b, e)
  BY <1>11 DEF GetSize, New
<1>13. CreateString(b, str) = c
  BY <1>3 DEF c
<1> QED
  BY <1>1, <1>9, <1>10, <1>11, <1>12, <1>13, WritesGood

\* A vector starts such that its elements end at a multiple of four.
LEMMA VectorStartsAligned ==
  ASSUME NEW b \in GoodBuilders, NEW len \in Nat, NEW elemsize \in 1 .. 16
  PROVE  LET c == StartVector(b, len, elemsize)
         IN  /\ Writes(Nested(b, TRUE), c) /\ c \in GoodBuilders /\ GetSize(c) \in Nat
             /\ \E k \in Nat : GetSize(c) + len * elemsize = 4 * k
<1> DEFINE n == len * elemsize
           p == PreAlign(b, n, uoffset)
           q == PreAlign(p, n, elemsize)
           c == StartVector(b, len, elemsize)
<1>1. n \in Nat
  OBVIOUS
<1>2. c = [q EXCEPT !.nested = TRUE]
  BY DEF StartVector
<1>3. Writes(Nested(b, TRUE), c) /\ c \in GoodBuilders /\ GetSize(c) \in Nat
  BY VectorStarted, WritesGood, BuilderParts
<1> HIDE DEF n
<1>4. /\ p \in GoodBuilders /\ GetSize(p) \in Nat
      /\ \E k \in Nat : GetSize(p) + n = 4 * k
  BY <1>1, PaddedFor
<1> HIDE DEF p
<1>5. PICK k \in Nat : GetSize(p) + n = 4 * k
  BY <1>4
<1>6. Writes(p, q) /\ GetSize(q) = GetSize(p) + PaddingBytes(4 * k, elemsize)
  <2>1. Writes(p, q) /\ GetSize(q) = GetSize(p) + PaddingBytes(GetSize(p) + n, elemsize)
    BY <1>1, <1>4, AlignedBy
  <2> HIDE DEF q
  <2> QED
    BY <1>5, <2>1
<1>7. PICK j \in Nat : PaddingBytes(4 * k, elemsize) = 4 * j
  BY PaddingKeepsFour
<1>8. GetSize(c) = GetSize(q)
  <2>1. q \in Builders
    BY <1>6, WritesGood, BuilderParts
  <2> HIDE DEF c, q
  <2> QED
    BY <1>2, <2>1 DEF Builders, GetSize
<1> HIDE DEF c, q
<1>9. k + j \in Nat /\ GetSize(c) + n = 4 * (k + j)
  BY <1>1, <1>4, <1>5, <1>6, <1>7, <1>8
<1> QED
  BY <1>3, <1>9 DEF c, n

\* A vector ends with its length, next to its elements.
LEMMA VectorEndsLaid ==
  ASSUME NEW b \in GoodBuilders, ~b.nested, NEW d, Writes(Nested(b, TRUE), d), NEW len \in Nat,
         NEW k \in Nat, GetSize(d) = 4 * k
  PROVE  LET e == EndVector(d, len)
         IN  /\ Writes(b, e) /\ e \in GoodBuilders /\ e.result = GetSize(e)
             /\ GetSize(e) = GetSize(d) + 4 /\ GetSize(e) > GetSize(b)
             /\ GetSize(b) \in Nat /\ GetSize(d) \in Nat /\ GetSize(b) <= GetSize(d)
             /\ Kept(d.buf_.data, e.buf_.data)
             /\ Has(e.buf_.data, GetSize(d) + 1 .. GetSize(e), GetSize(e), Scalar(len, 4))
<1> DEFINE c == Nested(d, FALSE)
           f == PushElement(c, Scalar(len, uoffset))
           e == ReturnSize(f)
<1>1. /\ Nested(b, TRUE) \in GoodBuilders /\ Nested(b, TRUE).buf_ = b.buf_
      /\ Nested(b, TRUE).num_field_loc = b.num_field_loc /\ b.num_field_loc = 0
      /\ Nested(b, TRUE).max_voffset_ = b.max_voffset_
      /\ Nested(b, TRUE).finished = b.finished
      /\ Nested(b, TRUE).force_defaults_ = b.force_defaults_
      /\ Nested(b, TRUE).dedup_vtables_ = b.dedup_vtables_
      /\ Nested(b, TRUE).string_pool = b.string_pool
      /\ Nested(b, TRUE).pool_buf = b.pool_buf
  BY NestedChanged DEF GoodBuilders
<1>2. d \in GoodBuilders /\ d.num_field_loc = 0
  BY <1>1 DEF Writes
<1>3. /\ c \in GoodBuilders /\ c.buf_ = d.buf_ /\ c.nested = FALSE
      /\ c.num_field_loc = d.num_field_loc /\ c.max_voffset_ = d.max_voffset_
      /\ c.finished = d.finished /\ c.force_defaults_ = d.force_defaults_
      /\ c.dedup_vtables_ = d.dedup_vtables_ /\ c.string_pool = d.string_pool
      /\ c.pool_buf = d.pool_buf
  BY <1>2, NestedChanged
<1>4. EndVector(d, len) = e
  BY DEF EndVector, Nested
<1> HIDE DEF c
<1>5. Writes(b, c)
  BY <1>1, <1>3, BuilderParts DEF Writes
<1>6. GetSize(c) = GetSize(d) /\ GetSize(c) = 4 * k /\ len \in Int /\ GetSize(d) \in Nat
      /\ GetSize(b) \in Nat
  BY <1>2, <1>3, BuilderParts DEF GetSize
<1>7. /\ Writes(c, f) /\ f \in GoodBuilders /\ GetSize(f) = GetSize(c) + 4
      /\ Has(f.buf_.data, New(c, f), GetSize(f), Scalar(len, 4))
  BY <1>3, <1>6, WordLaid
<1> HIDE DEF f
<1>8. Writes(b, f) /\ GetSize(b) <= GetSize(c) /\ GetSize(f) \in Nat
  BY <1>5, <1>7, WritesOn, WritesGrow
<1>9. Writes(b, e) /\ e.result = GetSize(f) /\ e.buf_ = f.buf_
  BY <1>8, Returned DEF ReturnSize
<1> HIDE DEF e
<1>10. GetSize(e) = GetSize(f) /\ GetSize(e) = GetSize(d) + 4 /\ GetSize(e) > GetSize(b)
       /\ GetSize(b) <= GetSize(d)
  <2>1. GetSize(e) = GetSize(f)
    BY <1>9 DEF GetSize
  <2> QED
    BY <1>6, <1>7, <1>8, <2>1
<1>11. Has(e.buf_.data, GetSize(d) + 1 .. GetSize(e), GetSize(e), Scalar(len, 4))
  BY <1>6, <1>7, <1>9, <1>10 DEF New
<1>12. Kept(d.buf_.data, e.buf_.data)
  BY <1>3, <1>7, <1>9 DEF Writes
<1> QED
  BY <1>4, <1>6, <1>9, <1>10, <1>11, <1>12, WritesGood DEF e

\* A vector of elements that are written as they are: its length, and the elements
\* joined, four bytes below.
LEMMA ElementsAreLaid ==
  ASSUME NEW b \in GoodBuilders, ~b.nested, NEW n \in Nat, NEW len \in Nat, NEW a \in 1 .. 16,
         NEW bytes \in Seq(Bytes), Len(bytes) = len * a
  PROVE  LET e == EndVector(PushBytes(StartVector(b, len, a), bytes), n)
         IN  /\ Writes(b, e) /\ e \in GoodBuilders /\ e.result = GetSize(e)
             /\ GetSize(e) > GetSize(b) /\ GetSize(b) \in Nat /\ GetSize(e) \in Nat
             /\ Has(e.buf_.data, GetSize(e) - 3 .. GetSize(e), GetSize(e), Scalar(n, 4))
             /\ Has(e.buf_.data, GetSize(b) + 1 .. GetSize(e) - 4, GetSize(e) - 4, bytes)
             /\ GetSize(b) + Len(bytes) + 4 <= GetSize(e)
<1> DEFINE c == StartVector(b, len, a)
           d == PushBytes(c, bytes)
           e == EndVector(d, n)
<1>1. /\ Writes(Nested(b, TRUE), c) /\ c \in GoodBuilders /\ GetSize(c) \in Nat
      /\ \E k \in Nat : GetSize(c) + len * a = 4 * k
  BY VectorStartsAligned
<1> HIDE DEF c
<1>2. /\ Writes(c, d) /\ d \in GoodBuilders /\ GetSize(d) = GetSize(c) + Len(bytes)
      /\ Has(d.buf_.data, New(c, d), GetSize(d), bytes)
  BY <1>1, BytesLaid
<1> HIDE DEF d
<1>3. PICK k \in Nat : GetSize(d) = 4 * k
  BY <1>1, <1>2
<1>4. Writes(Nested(b, TRUE), d)
  BY <1>1, <1>2, WritesOn
<1>5. /\ Writes(b, e) /\ e \in GoodBuilders /\ e.result = GetSize(e)
      /\ GetSize(e) = GetSize(d) + 4 /\ GetSize(e) > GetSize(b)
      /\ GetSize(b) \in Nat /\ GetSize(d) \in Nat /\ GetSize(b) <= GetSize(d)
      /\ Kept(d.buf_.data, e.buf_.data)
      /\ Has(e.buf_.data, GetSize(d) + 1 .. GetSize(e), GetSize(e), Scalar(n, 4))
  BY <1>3, <1>4, VectorEndsLaid
<1> HIDE DEF e
<1>6. GetSize(d) + 1 = GetSize(e) - 3 /\ GetSize(d) = GetSize(e) - 4 /\ GetSize(e) \in Nat
  BY <1>5
<1>7. GetSize(b) <= GetSize(c)
  <2>1. b.num_field_loc = 0
    BY DEF GoodBuilders
  <2>2. Nested(b, TRUE).buf_ = b.buf_
    BY <2>1, NestedChanged
  <2>3. GetSize(Nested(b, TRUE)) = GetSize(b)
    BY <2>2 DEF GetSize
  <2> QED
    BY <1>1, <2>3, WritesGrow
<1>8. Has(e.buf_.data, GetSize(b) + 1 .. GetSize(d), GetSize(d), bytes)
  <2>1. New(c, d) \subseteq GetSize(b) + 1 .. GetSize(d)
    BY <1>1, <1>5, <1>7 DEF New
  <2>2. d.buf_.data \in Seq(Bytes) /\ e.buf_.data \in Seq(Bytes)
    BY <1>2, <1>5, BuilderParts
  <2> QED
    BY <1>2, <1>5, <2>1, <2>2, HasKept
<1>9. GetSize(b) + Len(bytes) + 4 <= GetSize(e)
  BY <1>1, <1>2, <1>5, <1>7
<1> QED
  BY <1>5, <1>6, <1>8, <1>9 DEF e, d, c

\* A reference is written behind its padding.
LEMMA OffsetLaid ==
  ASSUME NEW b \in GoodBuilders, NEW off \in Nat, off <= GetSize(b)
  PROVE  LET c == PushOffset(b, off)
         IN  /\ Writes(b, c) /\ c \in GoodBuilders
             /\ PaddingBytes(GetSize(b), 4) \in Nat
             /\ GetSize(c) = GetSize(b) + PaddingBytes(GetSize(b), 4) + 4
             /\ ReferenceLaid(c.buf_.data, New(b, c), GetSize(c), off)
<1> DEFINE p == Align(b, uoffset)
           n == GetSize(p) - off + uoffset
           c == PushElement(p, Scalar(n, uoffset))
<1>1. /\ Writes(b, p) /\ p \in GoodBuilders /\ PaddingBytes(GetSize(b), 4) \in Nat
      /\ GetSize(p) = GetSize(b) + PaddingBytes(GetSize(b), 4)
  <2>1. 0 \in Nat /\ 4 \in 1 .. 16 /\ uoffset = 4
    BY DEF uoffset
  <2> QED
    BY <2>1, AlignedBy, WritesGood
<1>2. PushOffset(b, off) = c
  BY DEF PushOffset
<1> HIDE DEF p
<1>3. GetSize(b) \in Nat /\ GetSize(p) \in Nat
  BY <1>1, BuilderParts
<1>4. PICK k \in Nat : GetSize(p) = 4 * k
  BY <1>1, <1>3, PaddingOfFour
<1>5. n \in Int /\ n = GetSize(p) + 4 - off
  BY <1>3 DEF uoffset
<1> HIDE DEF n
<1>6. /\ Writes(p, c) /\ c \in GoodBuilders /\ GetSize(c) = GetSize(p) + 4
      /\ Has(c.buf_.data, New(p, c), GetSize(c), Scalar(n, 4))
  BY <1>1, <1>4, <1>5, WordLaid
<1> HIDE DEF c
<1>7. Writes(b, c) /\ Has(c.buf_.data, New(b, c), GetSize(c), Scalar(n, 4))
  BY <1>1, <1>6, WritesOn, HasSecond
<1>8. n = GetSize(c) - off /\ off <= GetSize(c)
  BY <1>1, <1>3, <1>5, <1>6
<1>9. ReferenceLaid(c.buf_.data, New(b, c), GetSize(c), off)
  BY <1>7, <1>8 DEF ReferenceLaid
<1> QED
  BY <1>1, <1>2, <1>6, <1>7, <1>9

\* References are written one before the other, the last one first: the one at i is
\* 4 * (Len(offs) + 1 - i) above what was there.
LEMMA OffsetsLaid ==
  ASSUME NEW b \in GoodBuilders, NEW offs \in Seq(Nat),
         \A i \in 1 .. Len(offs) : offs[i] <= GetSize(b),
         NEW m \in Nat, GetSize(b) + 4 * Len(offs) = 4 * m
  PROVE  LET c == PushOffsets(b, offs)
         IN  /\ Writes(b, c) /\ c \in GoodBuilders /\ GetSize(c) = GetSize(b) + 4 * Len(offs)
             /\ \A i \in 1 .. Len(offs) :
                  ReferenceLaid(c.buf_.data, New(b, c), GetSize(c) - 4 * (i - 1), offs[i])
<1> DEFINE n == Len(offs)
           z == GetSize(b)
           after == CHOOSE f : f = [i \in 0 .. n |->
                      IF i = 0 THEN b ELSE PushOffset(f[i - 1], offs[n + 1 - i])]
           step == [x \in GoodBuilders \X (1 .. n) |-> PushOffset(x[1], offs[n + 1 - x[2]])]
<1>1. n \in Nat /\ z \in Nat /\ \A i \in 1 .. n : offs[n + 1 - i] \in Nat
  BY BuilderParts
<1>2. ASSUME NEW c \in GoodBuilders, NEW i \in 1 .. n
      PROVE  PushOffset(c, offs[n + 1 - i]) \in GoodBuilders
  <2>1. offs[n + 1 - i] \in Int
    BY <1>1
  <2> QED
    BY <2>1, OffsetPushed DEF Writes
<1>3. step \in [GoodBuilders \X (1 .. n) -> GoodBuilders]
  BY <1>2
<1>4. PICK g : Runs(g, GoodBuilders, n, b, step)
  <2> HIDE DEF step, n
  <2> QED
    BY <1>1, <1>3, StepsExist
<1>5. g = [i \in 0 .. n |-> IF i = 0 THEN b ELSE PushOffset(g[i - 1], offs[n + 1 - i])]
  <2>0. g \in [0 .. n -> GoodBuilders] /\ g[0] = b /\ \A i \in 1 .. n : g[i] = step[<<g[i - 1], i>>]
    BY <1>4 DEF Runs
  <2>1. ASSUME NEW i \in 1 .. n PROVE g[i] = PushOffset(g[i - 1], offs[n + 1 - i])
    <3>1. g[i - 1] \in GoodBuilders
      <4>1. i - 1 \in 0 .. n
        BY <1>1
      <4> QED
        BY <2>0, <4>1
    <3>2. g[i] = step[<<g[i - 1], i>>]
      BY <2>0
    <3> QED
      BY <3>1, <3>2
  <2> HIDE DEF n, step
  <2> QED
    BY <1>1, <2>0, <2>1
<1>6. after = [i \in 0 .. n |-> IF i = 0 THEN b ELSE PushOffset(after[i - 1], offs[n + 1 - i])]
  <2> HIDE DEF n, step
  <2> QED
    BY <1>5
<1>7. PushOffsets(b, offs) = after[n]
  BY DEF PushOffsets
<1> HIDE DEF after, step
<1> DEFINE Up(k) == /\ Writes(b, after[k]) /\ after[k] \in GoodBuilders
                    /\ GetSize(after[k]) = z + 4 * k
                    /\ \A i \in 1 .. k : ReferenceLaid(after[k].buf_.data, New(b, after[k]),
                                                       z + 4 * i, offs[n + 1 - i])
           S == {k \in 0 .. n : Up(k)}
<1>8. 0 \in S
  <2>1. after[0] = b
    BY <1>1, <1>6
  <2> QED
    BY <1>1, <2>1, WritesNothing
<1>9. ASSUME NEW k \in 0 .. (n - 1), k \in S PROVE k + 1 \in S
  <2> DEFINE c == after[k]
             e == after[k + 1]
             off == offs[n + 1 - (k + 1)]
  <2>1. k + 1 \in 1 .. n /\ k + 1 \in 0 .. n /\ (k + 1) - 1 = k /\ k \in Nat
    BY <1>1
  <2>2. e = PushOffset(c, off)
    BY <1>6, <2>1
  <2>3. /\ Writes(b, c) /\ c \in GoodBuilders /\ GetSize(c) = z + 4 * k
        /\ \A i \in 1 .. k : ReferenceLaid(c.buf_.data, New(b, c), z + 4 * i, offs[n + 1 - i])
    BY <1>9
  <2>4. off \in Nat /\ off <= GetSize(c)
    <3>1. n + 1 - (k + 1) \in 1 .. n
      BY <1>1, <2>1
    <3>2. off \in Nat /\ off <= z
      BY <1>1, <2>1, <3>1
    <3> HIDE DEF off, z
    <3> QED
      BY <1>1, <2>1, <2>3, <3>2
  <2> HIDE DEF c, e, off
  <2>5. /\ Writes(c, e) /\ e \in GoodBuilders
        /\ GetSize(e) = GetSize(c) + PaddingBytes(GetSize(c), 4) + 4
        /\ ReferenceLaid(e.buf_.data, New(c, e), GetSize(e), off)
    BY <2>2, <2>3, <2>4, OffsetLaid
  <2>6. PaddingBytes(GetSize(c), 4) = 0
    <3>1. GetSize(c) \in Nat /\ m - n + k \in Nat /\ GetSize(c) = 4 * (m - n + k)
      <4>1. z + 4 * n = 4 * m
        OBVIOUS
      <4> HIDE DEF z, n
      <4> QED
        BY <1>1, <2>1, <2>3, <4>1
    <3> QED
      BY <3>1, PaddingOfFour
  <2>7. Writes(b, e) /\ GetSize(e) = z + 4 * (k + 1)
    <3>1. Writes(b, e)
      BY <2>3, <2>5, WritesOn
    <3>2. GetSize(e) = z + 4 * (k + 1)
      <4> HIDE DEF z
      <4> QED
        BY <1>1, <2>1, <2>3, <2>5, <2>6
    <3> QED
      BY <3>1, <3>2
  <2>8. ASSUME NEW i \in 1 .. k + 1
        PROVE  ReferenceLaid(e.buf_.data, New(b, e), z + 4 * i, offs[n + 1 - i])
    <3>1. CASE i = k + 1
      <4>1. ReferenceLaid(e.buf_.data, New(b, e), GetSize(e), off)
        BY <2>3, <2>5, HasSecond DEF ReferenceLaid
      <4> QED
        BY <2>7, <3>1, <4>1 DEF off
    <3>2. CASE i # k + 1
      <4>1. i \in 1 .. k
        BY <2>1, <3>2
      <4>2. ReferenceLaid(c.buf_.data, New(b, c), z + 4 * i, offs[n + 1 - i])
        BY <2>3, <4>1
      <4> HIDE DEF z, n
      <4> QED
        BY <2>3, <2>5, <4>2, HasFirst DEF ReferenceLaid
    <3> QED
      BY <3>1, <3>2
  <2> QED
    BY <2>1, <2>5, <2>7, <2>8 DEF e
<1>10. n \in S
  <2> HIDE DEF S
  <2>1. \A k \in 0 .. n : k \in S
    BY <1>1, <1>8, <1>9, UpTo
  <2> QED
    BY <1>1, <2>1
<1> DEFINE c == after[n]
<1>11. /\ Writes(b, c) /\ c \in GoodBuilders /\ GetSize(c) = z + 4 * n
       /\ \A i \in 1 .. n : ReferenceLaid(c.buf_.data, New(b, c), z + 4 * i, offs[n + 1 - i])
  BY <1>10
<1> HIDE DEF c
<1>12. ASSUME NEW i \in 1 .. n
       PROVE  ReferenceLaid(c.buf_.data, New(b, c), GetSize(c) - 4 * (i - 1), offs[i])
  <2> DEFINE j == n + 1 - i
  <2>1. j \in 1 .. n /\ n + 1 - j = i /\ z + 4 * j = GetSize(c) - 4 * (i - 1)
    <3> HIDE DEF z, n
    <3> QED
      BY <1>1, <1>11
  <2> HIDE DEF j
  <2>2. ReferenceLaid(c.buf_.data, New(b, c), z + 4 * j, offs[n + 1 - j])
    BY <1>11, <2>1
  <2> QED
    BY <2>1, <2>2
<1> QED
  BY <1>7, <1>11, <1>12 DEF c

\* A string stays when the bytes it uses stay.
LEMMA StringOn ==
  ASSUME NEW d \in Seq(Bytes), NEW e \in Seq(Bytes), NEW S, NEW T, Agree(d, e, S), S \subseteq T,
         NEW off, NEW s, StringLaid(d, S, off, s)
  PROVE  StringLaid(e, T, off, s)
  BY HasOn DEF StringLaid

\* So does a reference.
LEMMA ReferenceOn ==
  ASSUME NEW d \in Seq(Bytes), NEW e \in Seq(Bytes), NEW S, NEW T, Agree(d, e, S), S \subseteq T,
         NEW off, NEW target, ReferenceLaid(d, S, off, target)
  PROVE  ReferenceLaid(e, T, off, target)
  BY HasOn DEF ReferenceLaid

\* So does a vector of references.
LEMMA ReferencesOn ==
  ASSUME NEW d \in Seq(Bytes), NEW e \in Seq(Bytes), NEW S, NEW T, Agree(d, e, S), S \subseteq T,
         NEW off, NEW offs, ReferencesLaid(d, S, off, offs)
  PROVE  ReferencesLaid(e, T, off, offs)
  BY HasOn, ReferenceOn DEF ReferencesLaid

\* So does a vtable.
LEMMA VTableOn ==
  ASSUME NEW d \in Seq(Bytes), NEW e \in Seq(Bytes), NEW S, NEW T, Agree(d, e, S), S \subseteq T,
         NEW off, NEW entries, VTableLaid(d, S, off, entries)
  PROVE  VTableLaid(e, T, off, entries)
  BY HasOn DEF VTableLaid

\* A vector of references is where CreateVector says.
LEMMA ReferencesAreLaid ==
  ASSUME NEW b \in GoodBuilders, ~b.nested, NEW offs \in Seq(Nat),
         \A i \in 1 .. Len(offs) : offs[i] <= GetSize(b)
  PROVE  LET e == CreateVectorOfOffsets(b, offs)
         IN  /\ Writes(b, e) /\ e \in GoodBuilders /\ e.result = GetSize(e)
             /\ GetSize(e) > GetSize(b) /\ GetSize(b) \in Nat /\ GetSize(e) \in Nat
             /\ ReferencesLaid(e.buf_.data, New(b, e), GetSize(e), offs)
<1> DEFINE n == Len(offs)
           c == StartVector(b, n, uoffset)
           d == PushOffsets(c, offs)
           e == EndVector(d, n)
<1>1. n \in Nat /\ uoffset = 4 /\ uoffset \in 1 .. 16
  BY DEF uoffset
<1>2. CreateVectorOfOffsets(b, offs) = e
  BY DEF CreateVectorOfOffsets
<1> HIDE DEF n
<1>3. /\ Writes(Nested(b, TRUE), c) /\ c \in GoodBuilders /\ GetSize(c) \in Nat
      /\ \E k \in Nat : GetSize(c) + n * uoffset = 4 * k
  BY <1>1, VectorStartsAligned
<1> HIDE DEF c
<1>4. GetSize(Nested(b, TRUE)) = GetSize(b) /\ GetSize(b) \in Nat /\ GetSize(b) <= GetSize(c)
  <2>1. b.num_field_loc = 0
    BY DEF GoodBuilders
  <2>2. Nested(b, TRUE).buf_ = b.buf_
    BY <2>1, NestedChanged
  <2>3. GetSize(Nested(b, TRUE)) = GetSize(b)
    BY <2>2 DEF GetSize
  <2> QED
    BY <1>3, <2>3, WritesGrow
<1>5. PICK m \in Nat : GetSize(c) + 4 * n = 4 * m
  BY <1>1, <1>3
<1>6. /\ Writes(c, d) /\ d \in GoodBuilders /\ GetSize(d) = GetSize(c) + 4 * n
      /\ \A i \in 1 .. n :
           ReferenceLaid(d.buf_.data, New(c, d), GetSize(d) - 4 * (i - 1), offs[i])
  <2>1. \A i \in 1 .. Len(offs) : offs[i] <= GetSize(c)
    <3>1. \A i \in 1 .. Len(offs) : offs[i] \in Nat /\ offs[i] <= GetSize(b)
      OBVIOUS
    <3> QED
      BY <1>3, <1>4, <3>1
  <2>2. GetSize(c) + 4 * Len(offs) = 4 * m
    BY <1>5 DEF n
  <2> HIDE DEF d
  <2>3. LET x == PushOffsets(c, offs)
        IN  /\ Writes(c, x) /\ x \in GoodBuilders /\ GetSize(x) = GetSize(c) + 4 * Len(offs)
            /\ \A i \in 1 .. Len(offs) :
                 ReferenceLaid(x.buf_.data, New(c, x), GetSize(x) - 4 * (i - 1), offs[i])
    BY <1>3, <2>1, <2>2, OffsetsLaid
  <2> QED
    BY <2>3 DEF n, d
<1> HIDE DEF d
<1>7. GetSize(d) = 4 * m
  BY <1>1, <1>3, <1>5, <1>6
<1>8. Writes(Nested(b, TRUE), d)
  BY <1>3, <1>6, WritesOn
<1>9. /\ Writes(b, e) /\ e \in GoodBuilders /\ e.result = GetSize(e)
      /\ GetSize(e) = GetSize(d) + 4 /\ GetSize(e) > GetSize(b)
      /\ GetSize(d) \in Nat /\ GetSize(b) <= GetSize(d)
      /\ Kept(d.buf_.data, e.buf_.data)
      /\ Has(e.buf_.data, GetSize(d) + 1 .. GetSize(e), GetSize(e), Scalar(n, 4))
  BY <1>1, <1>7, <1>8, VectorEndsLaid
<1> HIDE DEF e
<1>10. /\ d.buf_.data \in Seq(Bytes) /\ e.buf_.data \in Seq(Bytes)
       /\ Kept(e.buf_.data, e.buf_.data)
  BY <1>6, <1>9, BuilderParts, KeptSame
<1>11. /\ GetSize(d) + 1 .. GetSize(e) \subseteq New(b, e)
       /\ New(c, d) \subseteq New(b, e) /\ GetSize(e) \in Nat
  BY <1>3, <1>4, <1>9 DEF New
<1>12. Has(e.buf_.data, New(b, e), GetSize(e), Scalar(n, 4))
  BY <1>9, <1>10, <1>11, HasKept
<1>13. ASSUME NEW i \in 1 .. n
       PROVE  ReferenceLaid(e.buf_.data, New(b, e), GetSize(e) - 4 * i, offs[i])
  <2>1. GetSize(d) - 4 * (i - 1) = GetSize(e) - 4 * i
    BY <1>1, <1>9
  <2>2. ReferenceLaid(d.buf_.data, New(c, d), GetSize(e) - 4 * i, offs[i])
    BY <1>6, <2>1
  <2> DEFINE o == GetSize(e) - 4 * i
  <2> HIDE DEF o
  <2>3. ReferenceLaid(d.buf_.data, New(c, d), o, offs[i])
    BY <2>2 DEF o
  <2>4. Agree(d.buf_.data, e.buf_.data, New(c, d))
    BY <1>9, <1>10, KeptAgrees
  <2>5. ReferenceLaid(e.buf_.data, New(b, e), o, offs[i])
    BY <1>10, <1>11, <2>3, <2>4, ReferenceOn
  <2> QED
    BY <2>5 DEF o
<1>14. ReferencesLaid(e.buf_.data, New(b, e), GetSize(e), offs)
  BY <1>12, <1>13 DEF ReferencesLaid, n
<1> QED
  BY <1>2, <1>4, <1>9, <1>11, <1>14

\* A step keeps what there was, and what is new is of the step.
LEMMA NewAgrees ==
  ASSUME NEW b, NEW c, NEW e, Writes(b, c), Writes(c, e)
  PROVE  /\ b.buf_.data \in Seq(Bytes) /\ c.buf_.data \in Seq(Bytes) /\ e.buf_.data \in Seq(Bytes)
         /\ Writes(b, e) /\ Agree(c.buf_.data, e.buf_.data, New(b, c))
         /\ New(b, c) \subseteq New(b, e) /\ New(c, e) \subseteq New(b, e)
         /\ Agree(e.buf_.data, e.buf_.data, New(c, e))
<1>1. /\ b.buf_.data \in Seq(Bytes) /\ c.buf_.data \in Seq(Bytes) /\ e.buf_.data \in Seq(Bytes)
      /\ Kept(c.buf_.data, e.buf_.data)
  BY BuilderParts DEF Writes
<1>2. /\ Agree(c.buf_.data, e.buf_.data, New(b, c))
      /\ Agree(e.buf_.data, e.buf_.data, New(c, e))
  BY <1>1, KeptAgrees, KeptSame
<1>3. GetSize(b) \in Nat /\ GetSize(c) \in Nat /\ GetSize(e) \in Nat
      /\ GetSize(b) <= GetSize(c) /\ GetSize(c) <= GetSize(e)
  BY WritesGrow
<1>4. New(b, c) \subseteq New(b, e) /\ New(c, e) \subseteq New(b, e)
  BY <1>3 DEF New
<1> QED
  BY <1>1, <1>2, <1>4, WritesOn

\* A vector of strings is where it is said to be, with its strings.
LEMMA StringsAreLaid ==
  ASSUME NEW b \in GoodBuilders, ~b.nested, NEW strings \in Seq(Seq(Bytes))
  PROVE  LET e == CreateVectorOfStrings(b, strings)
         IN  /\ Writes(b, e) /\ e \in GoodBuilders /\ e.result = GetSize(e)
             /\ GetSize(e) > GetSize(b) /\ GetSize(b) \in Nat /\ GetSize(e) \in Nat
             /\ \E offs : /\ Len(offs) = Len(strings)
                          /\ ReferencesLaid(e.buf_.data, New(b, e), GetSize(e), offs)
                          /\ \A i \in 1 .. Len(strings) :
                               StringLaid(e.buf_.data, New(b, e), offs[i], strings[i])
<1> DEFINE n == Len(strings)
           made == CHOOSE f : f = [k \in 0 .. n |->
                     IF k = 0 THEN b ELSE CreateString(f[k - 1], strings[k])]
           offs == [k \in DOMAIN strings |-> made[k].result]
           step == [x \in GoodBuilders \X (1 .. n) |-> CreateString(x[1], strings[x[2]])]
<1>1. n \in Nat /\ DOMAIN strings = 1 .. n /\ \A i \in 1 .. n : strings[i] \in Seq(Bytes)
  OBVIOUS
<1>2. ASSUME NEW c \in GoodBuilders, NEW i \in 1 .. n
      PROVE  CreateString(c, strings[i]) \in GoodBuilders
  BY <1>1, StringIsLaid
<1>3. step \in [GoodBuilders \X (1 .. n) -> GoodBuilders]
  BY <1>2
<1>4. PICK g : Runs(g, GoodBuilders, n, b, step)
  <2> HIDE DEF step, n
  <2> QED
    BY <1>1, <1>3, StepsExist
<1>5. g = [k \in 0 .. n |-> IF k = 0 THEN b ELSE CreateString(g[k - 1], strings[k])]
  <2>0. g \in [0 .. n -> GoodBuilders] /\ g[0] = b /\ \A i \in 1 .. n : g[i] = step[<<g[i - 1], i>>]
    BY <1>4 DEF Runs
  <2>1. ASSUME NEW i \in 1 .. n PROVE g[i] = CreateString(g[i - 1], strings[i])
    <3>1. g[i - 1] \in GoodBuilders
      <4>1. i - 1 \in 0 .. n
        BY <1>1
      <4> QED
        BY <2>0, <4>1
    <3>2. g[i] = step[<<g[i - 1], i>>]
      BY <2>0
    <3> QED
      BY <3>1, <3>2
  <2> HIDE DEF n, step
  <2> QED
    BY <1>1, <2>0, <2>1
<1>6. made = [k \in 0 .. n |-> IF k = 0 THEN b ELSE CreateString(made[k - 1], strings[k])]
  <2> HIDE DEF n, step
  <2> QED
    BY <1>5
<1>7. CreateVectorOfStrings(b, strings) = CreateVectorOfOffsets(made[n], offs)
  BY DEF CreateVectorOfStrings
<1> HIDE DEF made, step
<1> DEFINE Up(k) == /\ Writes(b, made[k]) /\ made[k] \in GoodBuilders
                    /\ \A i \in 1 .. k : /\ made[i].result \in Nat
                                         /\ made[i].result <= GetSize(made[k])
                                         /\ StringLaid(made[k].buf_.data, New(b, made[k]),
                                                       made[i].result, strings[i])
           S == {k \in 0 .. n : Up(k)}
<1>8. 0 \in S
  <2>1. made[0] = b
    BY <1>1, <1>6
  <2> QED
    BY <1>1, <2>1, WritesNothing
<1>9. ASSUME NEW k \in 0 .. (n - 1), k \in S PROVE k + 1 \in S
  <2> DEFINE c == made[k]
             e == made[k + 1]
             s == strings[k + 1]
  <2>1. k + 1 \in 1 .. n /\ k + 1 \in 0 .. n /\ (k + 1) - 1 = k /\ k \in Nat
    BY <1>1
  <2>2. e = CreateString(c, s) /\ s \in Seq(Bytes)
    BY <1>1, <1>6, <2>1
  <2>3. /\ Writes(b, c) /\ c \in GoodBuilders
        /\ \A i \in 1 .. k : /\ made[i].result \in Nat /\ made[i].result <= GetSize(c)
                             /\ StringLaid(c.buf_.data, New(b, c), made[i].result, strings[i])
    BY <1>9
  <2> HIDE DEF c, s
  <2>5. /\ Writes(c, e) /\ e \in GoodBuilders /\ e.result = GetSize(e)
        /\ GetSize(e) > GetSize(c) /\ GetSize(c) \in Nat /\ GetSize(e) \in Nat
        /\ StringLaid(e.buf_.data, New(c, e), GetSize(e), s)
    BY <2>2, <2>3, StringIsLaid
  <2> HIDE DEF e
  <2>6. /\ c.buf_.data \in Seq(Bytes) /\ e.buf_.data \in Seq(Bytes)
        /\ Writes(b, e) /\ Agree(c.buf_.data, e.buf_.data, New(b, c))
        /\ New(b, c) \subseteq New(b, e) /\ New(c, e) \subseteq New(b, e)
        /\ Agree(e.buf_.data, e.buf_.data, New(c, e))
    BY <2>3, <2>5, NewAgrees
  <2>8. ASSUME NEW i \in 1 .. k + 1
        PROVE  /\ made[i].result \in Nat /\ made[i].result <= GetSize(e)
               /\ StringLaid(e.buf_.data, New(b, e), made[i].result, strings[i])
    <3>1. CASE i = k + 1
      <4>1. StringLaid(e.buf_.data, New(b, e), GetSize(e), s)
        BY <2>5, <2>6, StringOn
      <4>2. made[i].result = GetSize(e)
        BY <2>5, <3>1 DEF e
      <4> QED
        BY <2>5, <3>1, <4>1, <4>2 DEF s
    <3>2. CASE i # k + 1
      <4>1. i \in 1 .. k
        BY <2>1, <3>2
      <4>2. /\ made[i].result \in Nat /\ made[i].result <= GetSize(c)
            /\ StringLaid(c.buf_.data, New(b, c), made[i].result, strings[i])
        BY <2>3, <4>1
      <4>3. StringLaid(e.buf_.data, New(b, e), made[i].result, strings[i])
        BY <2>6, <4>2, StringOn
      <4> QED
        BY <2>5, <4>2, <4>3
    <3> QED
      BY <3>1, <3>2
  <2> QED
    BY <2>1, <2>5, <2>6, <2>8 DEF e
<1>10. n \in S
  <2> HIDE DEF S
  <2>1. \A k \in 0 .. n : k \in S
    BY <1>1, <1>8, <1>9, UpTo
  <2> QED
    BY <1>1, <2>1
<1> DEFINE c == made[n]
           e == CreateVectorOfOffsets(c, offs)
<1>11. /\ Writes(b, c) /\ c \in GoodBuilders
       /\ \A i \in 1 .. n : /\ offs[i] \in Nat /\ offs[i] <= GetSize(c)
                            /\ StringLaid(c.buf_.data, New(b, c), offs[i], strings[i])
  BY <1>1, <1>10
<1>12. offs \in Seq(Nat) /\ Len(offs) = n
  BY <1>1, <1>11
<1> HIDE DEF c, offs
<1>13. ~c.nested
  BY <1>11 DEF Writes
<1>14. /\ Writes(c, e) /\ e \in GoodBuilders /\ e.result = GetSize(e)
       /\ GetSize(e) > GetSize(c) /\ GetSize(c) \in Nat /\ GetSize(e) \in Nat
       /\ ReferencesLaid(e.buf_.data, New(c, e), GetSize(e), offs)
  <2>1. \A i \in 1 .. Len(offs) : offs[i] <= GetSize(c)
    BY <1>11, <1>12
  <2> HIDE DEF n
  <2> QED
    BY <1>11, <1>12, <1>13, <2>1, ReferencesAreLaid
<1> HIDE DEF e
<1>15. /\ c.buf_.data \in Seq(Bytes) /\ e.buf_.data \in Seq(Bytes)
       /\ Writes(b, e) /\ Agree(c.buf_.data, e.buf_.data, New(b, c))
       /\ New(b, c) \subseteq New(b, e) /\ New(c, e) \subseteq New(b, e)
       /\ Agree(e.buf_.data, e.buf_.data, New(c, e))
  BY <1>11, <1>14, NewAgrees
<1>16. ReferencesLaid(e.buf_.data, New(b, e), GetSize(e), offs)
  BY <1>14, <1>15, ReferencesOn
<1>17. \A i \in 1 .. n : StringLaid(e.buf_.data, New(b, e), offs[i], strings[i])
  BY <1>11, <1>15, StringOn
<1>18. GetSize(b) \in Nat /\ GetSize(b) <= GetSize(c)
  BY <1>11, WritesGrow
<1>19. GetSize(e) > GetSize(b)
  BY <1>14, <1>18
<1>20. CreateVectorOfStrings(b, strings) = e
  BY <1>7 DEF e, c, offs
<1> HIDE DEF n
<1>21. Len(offs) = Len(strings)
  BY <1>12 DEF n
<1>22. \A i \in 1 .. Len(strings) : StringLaid(e.buf_.data, New(b, e), offs[i], strings[i])
  BY <1>17 DEF n
<1> QED
  BY <1>14, <1>15, <1>16, <1>18, <1>19, <1>20, <1>21, <1>22

----------------------------------------------------------------------------
(* Tables while they are being built.                                      *)

\* Every byte has a tag: Fixed, or the scalar of which object it belongs to.
Tags == Nat \X Nat
Fixed == <<0, 0>>
Own(W, t) == {o \in DOMAIN W : W[o] = t}

\* A field that is stored at loc, a scalar in S and a reference in R.
FieldLaid(d, S, R, f, loc, arg) ==
  IF f.kind = "scalar" THEN Len(arg) = f.width /\ Has(d, S, loc, arg)
  ELSE arg # 0 /\ ReferenceLaid(d, R, loc, arg)

\* The argument of a field that is not stored.
NotStored(f, arg) == arg = IF f.kind = "scalar" THEN Scalar(f.default, f.width) ELSE 0

\* The words of the scratch pad: vtables first, then a pair for each field.
First(b) == Len(b.buf_.scratch) - 2 * b.num_field_loc
Pairs(b) == 1 .. b.num_field_loc
Loc(b, k) == b.buf_.scratch[First(b) + 2 * k - 1]
Id(b, k) == b.buf_.scratch[First(b) + 2 * k]

\* c has more data than b, and the same vtables.
Adds(b, c) ==
  /\ b \in GoodBuilders /\ c \in GoodBuilders /\ Kept(b.buf_.data, c.buf_.data)
  /\ c.finished = b.finished /\ c.string_pool = b.string_pool /\ First(c) = First(b)
  /\ \A j \in 1 .. First(b) : c.buf_.scratch[j] = b.buf_.scratch[j]

\* The table that is being built from start has the fields done; V has the number
\* of the scalar that each of its bytes belongs to, or 0.
InTable(b, V, start, type, args, done) ==
  LET fields == FieldsOf(type)
  IN  /\ b \in GoodBuilders /\ b.nested
      /\ start \in Nat /\ start <= GetSize(b) /\ V \in [start + 1 .. GetSize(b) -> Nat]
      /\ done \subseteq 1 .. Len(fields) /\ GetSize(b) - start <= 15 * Cardinality(done)
      /\ b.max_voffset_ \in {0} \cup {FieldIndexToOffset(i - 1) : i \in 1 .. Len(fields)}
      /\ \A k \in Pairs(b) :
           /\ Id(b, k) <= b.max_voffset_
           /\ \E i \in done :
                /\ Id(b, k) = FieldIndexToOffset(i - 1)
                /\ FieldLaid(b.buf_.data, Own(V, i), Own(V, 0), fields[i], Loc(b, k),
                             args[fields[i].name])
      /\ \A i \in done : \/ NotStored(fields[i], args[fields[i].name])
                         \/ \E k \in Pairs(b) : Id(b, k) = FieldIndexToOffset(i - 1)

\* Where the words of a pair are.
LEMMA PairPlaces ==
  ASSUME NEW first \in Nat, NEW n \in Nat, NEW k \in 1 .. n
  PROVE  first + 2 * k - 1 \in 1 .. first + 2 * n /\ first + 2 * k \in 1 .. first + 2 * n
  OBVIOUS

\* The pairs of a builder are on its scratch pad.
LEMMA PairParts ==
  ASSUME NEW b \in GoodBuilders
  PROVE  /\ First(b) \in Nat /\ Len(b.buf_.scratch) = First(b) + 2 * b.num_field_loc
         /\ \A k \in Pairs(b) : Loc(b, k) \in Nat /\ Id(b, k) \in Nat
<1>1. b.buf_.scratch \in Seq(Nat) /\ b.num_field_loc \in Nat
  BY BuilderParts
<1>2. Len(b.buf_.scratch) \in Nat /\ Len(b.buf_.scratch) >= 2 * b.num_field_loc
  BY <1>1 DEF GoodBuilders
<1> DEFINE len == Len(b.buf_.scratch)
           n == b.num_field_loc
<1> HIDE DEF len, n
<1>3. First(b) = len - 2 * n /\ len \in Nat /\ n \in Nat /\ len >= 2 * n
  BY <1>1, <1>2 DEF First, len, n
<1>4. First(b) \in Nat /\ len = First(b) + 2 * n
  BY <1>3
<1>5. ASSUME NEW k \in Pairs(b)
      PROVE  First(b) + 2 * k - 1 \in 1 .. len /\ First(b) + 2 * k \in 1 .. len
  BY <1>3, <1>4, PairPlaces DEF Pairs, n
<1>6. ASSUME NEW k \in Pairs(b) PROVE Loc(b, k) \in Nat /\ Id(b, k) \in Nat
  BY <1>1, <1>5 DEF Loc, Id, len
<1> QED
  BY <1>4, <1>6 DEF len, n

\* The field that is noted is the last pair.
LEMMA FieldNoted ==
  ASSUME NEW b \in GoodBuilders, b.nested, NEW field \in Nat, NEW off \in Nat
  PROVE  LET c == TrackField(b, field, off)
         IN  /\ Adds(b, c) /\ c.buf_.data = b.buf_.data /\ c.nested
             /\ c.num_field_loc = b.num_field_loc + 1
             /\ c.max_voffset_ = Larger(b.max_voffset_, field)
             /\ \A k \in Pairs(b) : Loc(c, k) = Loc(b, k) /\ Id(c, k) = Id(b, k)
             /\ Loc(c, c.num_field_loc) = off /\ Id(c, c.num_field_loc) = field
<1> DEFINE c == TrackField(b, field, off)
           s == b.buf_.scratch
           t == c.buf_.scratch
           n == b.num_field_loc
<1>1. Grows(b, c)
  BY FieldTracked
<1>2. b \in Builders /\ b.buf_ \in SoundVectors /\ s \in Seq(Nat) /\ n \in Nat
  BY BuilderParts
<1>3. <<off, field>> \in Seq(Nat)
  OBVIOUS
<1>4. /\ scratch_push(b.buf_, <<off, field>>).data = b.buf_.data
      /\ scratch_push(b.buf_, <<off, field>>).scratch = s \o <<off, field>>
  BY <1>2, <1>3, ScratchPushed
<1>5. /\ c.buf_ = scratch_push(b.buf_, <<off, field>>) /\ c.num_field_loc = n + 1
      /\ c.max_voffset_ = Larger(b.max_voffset_, field) /\ c.nested = b.nested
  BY <1>2 DEF TrackField, Builders
<1>6. t = s \o <<off, field>> /\ c.buf_.data = b.buf_.data
  BY <1>4, <1>5
<1>7. First(b) \in Nat /\ Len(s) = First(b) + 2 * n
  BY PairParts
<1>8. /\ Len(t) = Len(s) + 2 /\ t[Len(s) + 1] = off /\ t[Len(s) + 2] = field
      /\ \A j \in 1 .. Len(s) : t[j] = s[j]
  BY <1>2, <1>6
<1> HIDE DEF s, t, n
<1>9. First(c) = First(b)
  <2>1. First(c) = Len(t) - 2 * (n + 1)
    BY <1>5 DEF First, t
  <2>2. Len(s) \in Nat
    BY <1>2, <1>7
  <2> QED
    BY <1>2, <1>7, <1>8, <2>1, <2>2
<1>10. \A j \in 1 .. First(b) : t[j] = s[j]
  BY <1>2, <1>7, <1>8
<1>11. ASSUME NEW k \in Pairs(b) PROVE Loc(c, k) = Loc(b, k) /\ Id(c, k) = Id(b, k)
  <2>1. First(b) + 2 * k - 1 \in 1 .. Len(s) /\ First(b) + 2 * k \in 1 .. Len(s)
    <3>1. k \in 1 .. n
      BY DEF Pairs, n
    <3> QED
      BY <1>2, <1>7, <3>1, PairPlaces
  <2> QED
    BY <1>8, <1>9, <2>1 DEF Loc, Id, s, t
<1>12. Loc(c, n + 1) = off /\ Id(c, n + 1) = field
  <2>1. First(b) + 2 * (n + 1) - 1 = Len(s) + 1 /\ First(b) + 2 * (n + 1) = Len(s) + 2
    BY <1>2, <1>7
  <2> QED
    BY <1>8, <1>9, <2>1 DEF Loc, Id, t
<1> QED
  BY <1>1, <1>5, <1>6, <1>9, <1>10, <1>11, <1>12 DEF Adds, Grows, s, t, n

\* Adding is transitive, and writing is adding.
LEMMA AddsOn ==
  ASSUME NEW b, NEW c, NEW d, Adds(b, c), Adds(c, d)
  PROVE  Adds(b, d)
<1>1. b.buf_.data \in Seq(Bytes) /\ c.buf_.data \in Seq(Bytes) /\ d.buf_.data \in Seq(Bytes)
  BY BuilderParts DEF Adds
<1>2. Kept(b.buf_.data, d.buf_.data)
  BY <1>1, KeptKept DEF Adds
<1> QED
  BY <1>2 DEF Adds

\* What writes adds.
LEMMA WritesAdds ==
  ASSUME NEW b, NEW c, Writes(b, c)
  PROVE  /\ Adds(b, c) /\ First(c) = First(b) /\ Pairs(c) = Pairs(b)
         /\ \A k \in Pairs(b) : Loc(c, k) = Loc(b, k) /\ Id(c, k) = Id(b, k)
<1>1. Grows(b, c)
  BY WritesGrows
<1>2. c.buf_.scratch = b.buf_.scratch /\ c.num_field_loc = b.num_field_loc
  BY DEF Writes
<1> QED
  BY <1>1, <1>2 DEF Adds, Grows, First, Pairs, Loc, Id

\* A field stays when the bytes it uses stay.
LEMMA FieldOn ==
  ASSUME NEW d \in Seq(Bytes), NEW e \in Seq(Bytes), NEW S, NEW T, NEW R, NEW Q,
         Agree(d, e, S), S \subseteq T, Agree(d, e, R), R \subseteq Q,
         NEW f, NEW loc, NEW arg, FieldLaid(d, S, R, f, loc, arg)
  PROVE  FieldLaid(e, T, Q, f, loc, arg)
<1>1. CASE f.kind = "scalar"
  BY <1>1, HasOn DEF FieldLaid
<1>2. CASE f.kind # "scalar"
  BY <1>2, ReferenceOn DEF FieldLaid
<1> QED
  BY <1>1, <1>2

\* The fields of a table are at most 11, each with a number of its own.
LEMMA FieldNumbers ==
  ASSUME NEW type \in DOMAIN Tables
  PROVE  /\ Len(FieldsOf(type)) \in 1 .. 11
         /\ \A i \in 1 .. Len(FieldsOf(type)) : FieldIndexToOffset(i - 1) = 2 * (i + 1)
<1>1. Len(FieldsOf(type)) \in 1 .. 11
  BY DEF FieldsOf, Tables, TestInfo, Type, KeyValue, EnumVal, Enum, Field, Object, RPCCall,
         Service, Schema, Table
<1>2. \A i \in 1 .. Len(FieldsOf(type)) : FieldIndexToOffset(i - 1) = 2 * (i + 1)
  BY <1>1 DEF FieldIndexToOffset, voffset
<1> QED
  BY <1>1, <1>2

\* The bytes of a tag are still its own when others get tags.
LEMMA OwnMore ==
  ASSUME NEW V, NEW W, DOMAIN V \subseteq DOMAIN W, \A o \in DOMAIN V : W[o] = V[o], NEW t
  PROVE  Own(V, t) \subseteq Own(W, t)
  BY DEF Own

\* One more element is one more, at least for a bound.
LEMMA OneMore ==
  ASSUME NEW n \in Nat, NEW done, done \subseteq 1 .. n, NEW i \in 1 .. n, i \notin done
  PROVE  /\ Cardinality(done) \in Nat /\ Cardinality(done \cup {i}) = Cardinality(done) + 1
         /\ Cardinality(done) <= n
<1>1. IsFiniteSet(1 .. n) /\ Cardinality(1 .. n) = n
  BY FS_Interval
<1>2. IsFiniteSet(done) /\ Cardinality(done) <= n
  BY <1>1, FS_Subset
<1> QED
  BY <1>2, FS_AddElement, FS_CardinalityType

\* A field that has been written is noted.
LEMMA FieldStored ==
  ASSUME NEW b, NEW V, NEW start, NEW type \in DOMAIN Tables, NEW args, NEW done,
         InTable(b, V, start, type, args, done),
         NEW i \in 1 .. Len(FieldsOf(type)), i \notin done,
         NEW p, Writes(b, p), GetSize(p) <= GetSize(b) + 15,
         FieldLaid(p.buf_.data, New(b, p), New(b, p), FieldsOf(type)[i], GetSize(p),
                   args[FieldsOf(type)[i].name])
  PROVE  LET c == TrackField(p, FieldIndexToOffset(i - 1), GetSize(p))
         IN  /\ \E X : InTable(c, X, start, type, args, done \cup {i})
             /\ Adds(b, c)
<1> DEFINE fields == FieldsOf(type)
           field == FieldIndexToOffset(i - 1)
           c == TrackField(p, field, GetSize(p))
           t == IF fields[i].kind = "scalar" THEN i ELSE 0
           X == [o \in start + 1 .. GetSize(p) |-> IF o <= GetSize(b) THEN V[o] ELSE t]
           n == Len(fields)
<1>1. n \in Nat /\ i \in Nat /\ field \in Nat
  BY FieldNumbers
<1>2. /\ b \in GoodBuilders /\ b.nested /\ start \in Nat /\ start <= GetSize(b)
      /\ V \in [start + 1 .. GetSize(b) -> Nat]
      /\ done \subseteq 1 .. n /\ GetSize(b) - start <= 15 * Cardinality(done)
      /\ b.max_voffset_ \in {0} \cup {FieldIndexToOffset(j - 1) : j \in 1 .. n}
  BY DEF InTable
<1>3. /\ GetSize(b) \in Nat /\ GetSize(p) \in Nat /\ GetSize(b) <= GetSize(p) /\ p \in GoodBuilders
      /\ p.nested /\ p.num_field_loc = b.num_field_loc /\ p.max_voffset_ = b.max_voffset_
      /\ b.buf_.data \in Seq(Bytes) /\ p.buf_.data \in Seq(Bytes)
      /\ Kept(b.buf_.data, p.buf_.data)
  BY <1>2, WritesGrow, BuilderParts DEF Writes
<1>4. /\ Adds(p, c) /\ c.buf_.data = p.buf_.data /\ c.nested
      /\ c.num_field_loc = p.num_field_loc + 1
      /\ c.max_voffset_ = Larger(p.max_voffset_, field)
      /\ \A k \in Pairs(p) : Loc(c, k) = Loc(p, k) /\ Id(c, k) = Id(p, k)
      /\ Loc(c, c.num_field_loc) = GetSize(p) /\ Id(c, c.num_field_loc) = field
  BY <1>1, <1>3, FieldNoted
<1> HIDE DEF c
<1>5. /\ Adds(b, p) /\ Pairs(p) = Pairs(b)
      /\ \A k \in Pairs(b) : Loc(p, k) = Loc(b, k) /\ Id(p, k) = Id(b, k)
  BY WritesAdds
<1>6. Adds(b, c) /\ c \in GoodBuilders /\ GetSize(c) = GetSize(p)
  BY <1>4, <1>5, AddsOn DEF Adds, GetSize, size
<1>7. t \in Nat
  BY <1>1
<1> HIDE DEF t
<1>8. X \in [start + 1 .. GetSize(c) -> Nat]
  <2>1. ASSUME NEW o \in start + 1 .. GetSize(p), o <= GetSize(b) PROVE V[o] \in Nat
    <3>1. o \in start + 1 .. GetSize(b)
      BY ONLY <1>2, <1>3, <2>1
    <3> QED
      BY ONLY <1>2, <3>1
  <2> QED
    BY <1>6, <1>7, <2>1
<1>9. \A u : Own(V, u) \subseteq Own(X, u)
  <2>1. DOMAIN V \subseteq DOMAIN X /\ \A o \in DOMAIN V : X[o] = V[o]
    BY <1>2, <1>3
  <2> HIDE DEF X
  <2> QED
    BY <2>1, OwnMore
<1>10. New(b, p) \subseteq Own(X, t)
  BY <1>2, <1>3 DEF New, Own
<1> HIDE DEF X
<1>11. b.num_field_loc \in Nat /\ b.max_voffset_ \in Nat
  BY <1>2, BuilderParts
<1>12. /\ c.max_voffset_ \in {0} \cup {FieldIndexToOffset(j - 1) : j \in 1 .. n}
       /\ c.max_voffset_ >= b.max_voffset_ /\ c.max_voffset_ >= field
       /\ c.max_voffset_ \in Nat
  <2>1. c.max_voffset_ = IF b.max_voffset_ > field THEN b.max_voffset_ ELSE field
    BY <1>3, <1>4 DEF Larger
  <2>2. field \in {FieldIndexToOffset(j - 1) : j \in 1 .. n}
    OBVIOUS
  <2> DEFINE m == b.max_voffset_
  <2> HIDE DEF m, field
  <2>3. CASE m > field
    BY <1>1, <1>2, <1>11, <2>1, <2>3 DEF m
  <2>4. CASE ~(m > field)
    BY <1>1, <1>11, <2>1, <2>2, <2>4 DEF m
  <2> QED
    BY <2>3, <2>4
<1>13. ASSUME NEW k \in Pairs(b)
       PROVE  /\ Id(c, k) <= c.max_voffset_
              /\ \E j \in done \cup {i} :
                   /\ Id(c, k) = FieldIndexToOffset(j - 1)
                   /\ FieldLaid(c.buf_.data, Own(X, j), Own(X, 0), fields[j], Loc(c, k),
                                args[fields[j].name])
  <2>1. Id(c, k) = Id(b, k) /\ Loc(c, k) = Loc(b, k) /\ Id(b, k) \in Nat
    BY <1>2, <1>4, <1>5, PairParts
  <2>2. Id(b, k) <= b.max_voffset_
    BY DEF InTable
  <2>3. PICK j \in done :
          /\ Id(b, k) = FieldIndexToOffset(j - 1)
          /\ FieldLaid(b.buf_.data, Own(V, j), Own(V, 0), fields[j], Loc(b, k),
                       args[fields[j].name])
    BY DEF InTable
  <2>4. FieldLaid(c.buf_.data, Own(X, j), Own(X, 0), fields[j], Loc(b, k), args[fields[j].name])
    <3>1. /\ Agree(b.buf_.data, p.buf_.data, Own(V, j))
          /\ Agree(b.buf_.data, p.buf_.data, Own(V, 0))
      BY <1>3, KeptAgrees
    <3> HIDE DEF fields
    <3> QED
      BY <1>3, <1>4, <1>9, <2>3, <3>1, FieldOn
  <2> QED
    BY <1>11, <1>12, <2>1, <2>2, <2>3, <2>4
<1>14. FieldLaid(c.buf_.data, Own(X, i), Own(X, 0), fields[i], GetSize(p), args[fields[i].name])
  <2>1. Agree(p.buf_.data, p.buf_.data, New(b, p))
    BY <1>3, KeptSame, KeptAgrees
  <2>2. CASE fields[i].kind = "scalar"
    <3>1. New(b, p) \subseteq Own(X, i)
      BY <1>10, <2>2 DEF t
    <3> QED
      BY <1>3, <1>4, <2>1, <2>2, <3>1, HasOn DEF FieldLaid
  <2>3. CASE fields[i].kind # "scalar"
    <3>1. New(b, p) \subseteq Own(X, 0)
      BY <1>10, <2>3 DEF t
    <3> QED
      BY <1>3, <1>4, <2>1, <2>3, <3>1, ReferenceOn DEF FieldLaid
  <2> QED
    BY <2>2, <2>3
<1>15. ASSUME NEW k \in Pairs(c)
       PROVE  /\ Id(c, k) <= c.max_voffset_
              /\ \E j \in done \cup {i} :
                   /\ Id(c, k) = FieldIndexToOffset(j - 1)
                   /\ FieldLaid(c.buf_.data, Own(X, j), Own(X, 0), fields[j], Loc(c, k),
                                args[fields[j].name])
  <2>1. k \in Pairs(b) \/ k = c.num_field_loc
    BY <1>3, <1>4, <1>11 DEF Pairs
  <2>2. CASE k = c.num_field_loc
    BY <1>4, <1>12, <1>14, <2>2
  <2> QED
    BY <1>13, <2>1, <2>2
<1>16. ASSUME NEW j \in done \cup {i}
       PROVE  \/ NotStored(fields[j], args[fields[j].name])
              \/ \E k \in Pairs(c) : Id(c, k) = FieldIndexToOffset(j - 1)
  <2>1. Pairs(b) \subseteq Pairs(c) /\ c.num_field_loc \in Pairs(c)
    BY <1>3, <1>4, <1>11 DEF Pairs
  <2>2. \/ NotStored(fields[j], args[fields[j].name])
        \/ \E k \in Pairs(b) : Id(b, k) = FieldIndexToOffset(j - 1)
        \/ j = i
    BY DEF InTable
  <2> QED
    BY <1>4, <1>5, <2>1, <2>2
<1>17. GetSize(c) - start <= 15 * Cardinality(done \cup {i})
  <2>1. Cardinality(done) \in Nat /\ Cardinality(done \cup {i}) = Cardinality(done) + 1
    BY <1>1, <1>2, OneMore
  <2> QED
    BY <1>2, <1>3, <1>6, <2>1
<1>18. done \cup {i} \subseteq 1 .. n /\ start <= GetSize(c)
  BY <1>2, <1>3, <1>6
<1>19. InTable(c, X, start, type, args, done \cup {i})
  BY <1>2, <1>4, <1>6, <1>8, <1>12, <1>15, <1>16, <1>17, <1>18 DEF InTable
<1> QED
  BY <1>6, <1>19 DEF c

\* A field that has its default need not be stored.
LEMMA FieldLeftOut ==
  ASSUME NEW b, NEW V, NEW start, NEW type \in DOMAIN Tables, NEW args, NEW done,
         InTable(b, V, start, type, args, done),
         NEW i \in 1 .. Len(FieldsOf(type)), i \notin done,
         NotStored(FieldsOf(type)[i], args[FieldsOf(type)[i].name])
  PROVE  InTable(b, V, start, type, args, done \cup {i})
<1> DEFINE n == Len(FieldsOf(type))
<1>1. n \in Nat
  BY FieldNumbers
<1>2. /\ start \in Nat /\ b \in GoodBuilders
      /\ done \subseteq 1 .. n /\ GetSize(b) - start <= 15 * Cardinality(done)
  BY DEF InTable
<1>3. Cardinality(done) \in Nat /\ Cardinality(done \cup {i}) = Cardinality(done) + 1
  BY <1>1, <1>2, OneMore
<1>4. GetSize(b) \in Nat
  BY <1>2, BuilderParts
<1>5. GetSize(b) - start <= 15 * Cardinality(done \cup {i})
  BY <1>2, <1>3, <1>4
<1>6. done \cup {i} \subseteq 1 .. n
  BY <1>2
<1> QED
  BY <1>5, <1>6 DEF InTable

\* What is written takes at most 15 bytes with its padding.
LEMMA ShortField ==
  ASSUME NEW m \in Nat, NEW w \in {1, 2, 4, 8}
  PROVE  m + PaddingBytes(m, w) + w <= m + 15
<1>1. PaddingBytes(m, w) \in 0 .. (w - 1)
  BY PaddingBelow
<1> DEFINE p == PaddingBytes(m, w)
<1> HIDE DEF p
<1>2. p \in 0 .. (w - 1) /\ w <= 8
  BY <1>1 DEF p
<1>3. m + p + w <= m + 15
  BY <1>2
<1> QED
  BY <1>3 DEF p

\* The argument of a field: the bytes of a scalar, or the offset of something that
\* has been written.
ArgumentFor(b, f, arg) ==
  IF f.kind = "scalar" THEN arg \in Seq(Bytes) /\ Len(arg) = f.width
  ELSE arg \in Nat /\ arg <= GetSize(b)

\* A field is added to the table.
LEMMA FieldIsAdded ==
  ASSUME NEW b, NEW V, NEW start, NEW type \in DOMAIN Tables, NEW args, NEW done,
         InTable(b, V, start, type, args, done),
         NEW i \in 1 .. Len(FieldsOf(type)), i \notin done,
         ArgumentFor(b, FieldsOf(type)[i], args[FieldsOf(type)[i].name])
  PROVE  LET c == AddField(b, FieldsOf(type)[i], FieldIndexToOffset(i - 1),
                           args[FieldsOf(type)[i].name])
         IN  /\ \E X : InTable(c, X, start, type, args, done \cup {i})
             /\ Adds(b, c)
<1> DEFINE f == FieldsOf(type)[i]
           field == FieldIndexToOffset(i - 1)
           arg == args[f.name]
           c == AddField(b, f, field, arg)
           Goal == (\E X : InTable(c, X, start, type, args, done \cup {i})) /\ Adds(b, c)
<1>1. b \in GoodBuilders /\ GetSize(b) \in Nat
  BY BuilderParts DEF InTable
<1>2. f.width \in {1, 2, 4, 8}
  BY SchemaFields DEF SchemaField
<1>3. ArgumentFor(b, f, arg)
  OBVIOUS
<1>4. Adds(b, b)
  BY <1>1, WritesNothing, WritesAdds
<1>5. ASSUME NotStored(f, arg), c = b PROVE Goal
  BY <1>4, <1>5, FieldLeftOut
<1>6. ASSUME NEW p, Writes(b, p), GetSize(p) <= GetSize(b) + 15,
             c = TrackField(p, field, GetSize(p)),
             FieldLaid(p.buf_.data, New(b, p), New(b, p), f, GetSize(p), arg)
      PROVE  Goal
  <2> HIDE DEF c
  <2>1. LET d == TrackField(p, FieldIndexToOffset(i - 1), GetSize(p))
        IN  /\ \E X : InTable(d, X, start, type, args, done \cup {i})
            /\ Adds(b, d)
    BY <1>6, FieldStored
  <2> QED
    BY <1>6, <2>1
<1>7. ASSUME f.kind = "scalar" PROVE Goal
  <2> DEFINE def == Scalar(f.default, f.width)
             p == PushElement(b, arg)
  <2>1. c = AddElement(b, field, arg, def) /\ arg \in Seq(Bytes) /\ Len(arg) = f.width
    BY <1>3, <1>7 DEF AddField, ArgumentFor
  <2> HIDE DEF c
  <2>2. ASSUME arg = def /\ ~b.force_defaults_ PROVE Goal
    <3>1. c = b
      BY <2>1, <2>2 DEF AddElement
    <3>2. NotStored(f, arg)
      BY <1>7, <2>2 DEF NotStored
    <3> QED
      BY <1>5, <3>1, <3>2
  <2>3. ASSUME ~(arg = def /\ ~b.force_defaults_) PROVE Goal
    <3>1. c = TrackField(p, field, GetSize(p))
      BY <2>1, <2>3 DEF AddElement
    <3>2. Len(arg) \in 1 .. 16
      BY <1>2, <2>1
    <3> HIDE DEF arg
    <3>3. /\ Writes(b, p) /\ GetSize(p) = GetSize(b) + PaddingBytes(GetSize(b), Len(arg)) + Len(arg)
          /\ Has(p.buf_.data, New(b, p), GetSize(p), arg)
      BY <1>1, <2>1, <3>2, ElementLaid
    <3>4. GetSize(p) <= GetSize(b) + 15
      BY <1>1, <1>2, <2>1, <3>3, ShortField
    <3>5. FieldLaid(p.buf_.data, New(b, p), New(b, p), f, GetSize(p), arg)
      BY <1>7, <2>1, <3>3 DEF FieldLaid
    <3> HIDE DEF p, f, Goal
    <3> QED
      BY <1>6, <3>1, <3>3, <3>4, <3>5
  <2> QED
    BY <2>2, <2>3
<1>8. ASSUME f.kind # "scalar" PROVE Goal
  <2> DEFINE p == PushOffset(b, arg)
  <2>1. c = AddOffset(b, field, arg) /\ arg \in Nat /\ arg <= GetSize(b)
    BY <1>3, <1>8 DEF AddField, ArgumentFor
  <2> HIDE DEF c
  <2>2. ASSUME arg = 0 PROVE Goal
    <3>1. c = b
      BY <2>1, <2>2 DEF AddOffset
    <3>2. NotStored(f, arg)
      BY <1>8, <2>2 DEF NotStored
    <3> QED
      BY <1>5, <3>1, <3>2
  <2>3. ASSUME arg # 0 PROVE Goal
    <3>1. c = TrackField(p, field, GetSize(p))
      BY <2>1, <2>3 DEF AddOffset
    <3> HIDE DEF arg
    <3>3. /\ Writes(b, p) /\ GetSize(p) = GetSize(b) + PaddingBytes(GetSize(b), 4) + 4
          /\ ReferenceLaid(p.buf_.data, New(b, p), GetSize(p), arg)
      BY <1>1, <2>1, OffsetLaid
    <3>4. GetSize(p) <= GetSize(b) + 15
      BY <1>1, <3>3, ShortField
    <3>5. FieldLaid(p.buf_.data, New(b, p), New(b, p), f, GetSize(p), arg)
      BY <1>8, <2>3, <3>3 DEF FieldLaid
    <3> HIDE DEF p, f, Goal
    <3> QED
      BY <1>6, <3>1, <3>3, <3>4, <3>5
  <2> QED
    BY <2>2, <2>3
<1> QED
  BY <1>7, <1>8

\* A table that is started has no fields.
LEMMA TableIsStarted ==
  ASSUME NEW b \in GoodBuilders, ~b.nested, b.max_voffset_ = 0,
         NEW type \in DOMAIN Tables, NEW args
  PROVE  LET c == StartTable(b)
         IN  /\ \E X : InTable(c, X, GetSize(b), type, args, {})
             /\ Adds(b, c) /\ c.buf_ = b.buf_
<1> DEFINE c == StartTable(b)
           X == [o \in GetSize(b) + 1 .. GetSize(b) |-> 0]
<1>1. b.num_field_loc = 0 /\ GetSize(b) \in Nat /\ b.buf_.data \in Seq(Bytes)
  BY BuilderParts DEF GoodBuilders
<1>2. c = Nested(b, TRUE)
  BY DEF StartTable, Nested
<1>3. /\ c \in GoodBuilders /\ c.buf_ = b.buf_ /\ c.nested /\ c.num_field_loc = 0
      /\ c.max_voffset_ = 0
  <2>1. Nested(b, TRUE) \in GoodBuilders /\ Nested(b, TRUE).buf_ = b.buf_
        /\ Nested(b, TRUE).nested = TRUE
        /\ Nested(b, TRUE).num_field_loc = b.num_field_loc
        /\ Nested(b, TRUE).max_voffset_ = b.max_voffset_
    BY NestedChanged
  <2> QED
    BY <1>1, <1>2, <2>1
<1>10. c.finished = b.finished /\ c.string_pool = b.string_pool
  <2>1. b \in Builders
    BY BuilderParts
  <2> QED
    BY <2>1 DEF StartTable, Builders
<1> HIDE DEF c
<1>4. First(c) = First(b) /\ GetSize(c) = GetSize(b)
  BY <1>1, <1>3 DEF First, GetSize
<1>5. Adds(b, c)
  BY <1>1, <1>3, <1>4, <1>10, KeptSame DEF Adds
<1>6. Pairs(c) = {}
  BY <1>3 DEF Pairs
<1>7. X \in [GetSize(b) + 1 .. GetSize(b) -> Nat]
  OBVIOUS
<1>8. Cardinality({}) = 0
  BY FS_EmptySet
<1> HIDE DEF X
<1>9. InTable(c, X, GetSize(b), type, args, {})
  BY <1>1, <1>3, <1>4, <1>6, <1>7, <1>8 DEF InTable
<1> QED
  BY <1>3, <1>5, <1>9 DEF c

\* Turn k of four passes over n fields is for a field in a pass, and no other turn is.
LEMMA TurnIsOne ==
  ASSUME NEW n \in Nat \ {0}, NEW k \in 1 .. 4 * n
  PROVE  /\ n - ((k - 1) % n) \in 1 .. n /\ (k - 1) \div n + 1 \in 1 .. 4
         /\ \A j \in 1 .. 4 * n : /\ n - ((j - 1) % n) = n - ((k - 1) % n)
                                  /\ (j - 1) \div n = (k - 1) \div n
                                  => j = k
<1> DEFINE q == (k - 1) \div n
           r == (k - 1) % n
<1>1. k - 1 \in Nat /\ k - 1 < 4 * n
  OBVIOUS
<1>2. q \in Int /\ r \in 0 .. (n - 1) /\ k - 1 = n * q + r
  <2> DEFINE l == k - 1
  <2>1. l \in Int
    BY <1>1
  <2> HIDE DEF l
  <2>2. l \div n \in Int /\ l % n \in 0 .. (n - 1) /\ l = n * (l \div n) + (l % n)
    BY <2>1, DividedInt
  <2> QED
    BY <2>2 DEF l
<1> HIDE DEF q, r
<1>3. n - r \in 1 .. n
  BY <1>2
<1>4. q \in 0 .. 3
  <2>1. CASE q < 0
    <3>1. n * q <= -n
      <4>1. -1 - q \in Nat
        BY <1>2, <2>1
      <4>2. n * (-1 - q) \in Nat /\ n * (-1 - q) = -n - n * q
        BY <1>2, <4>1
      <4>3. n * q \in Int
        BY <1>2
      <4> QED
        BY <4>2, <4>3
    <3>2. n * q \in Int
      BY <1>2
    <3> DEFINE m == n * q
    <3> HIDE DEF m
    <3>3. m \in Int /\ m <= -n /\ k - 1 = m + r
      BY <1>2, <3>1, <3>2 DEF m
    <3> QED
      BY <1>1, <1>2, <3>3
  <2>2. CASE q > 3
    <3>1. n * q >= 4 * n
      <4>1. q - 4 \in Nat
        BY <1>2, <2>2
      <4>2. n * (q - 4) \in Nat /\ n * (q - 4) = n * q - 4 * n
        BY <1>2, <4>1
      <4>3. n * q \in Int
        BY <1>2
      <4> QED
        BY <4>2, <4>3
    <3>2. n * q \in Int
      BY <1>2
    <3> DEFINE m == n * q
    <3> HIDE DEF m
    <3>3. m \in Int /\ m >= 4 * n /\ k - 1 = m + r
      BY <1>2, <3>1, <3>2 DEF m
    <3> QED
      BY <1>1, <1>2, <3>3
  <2> QED
    BY <1>2, <2>1, <2>2
<1>5. ASSUME NEW j \in 1 .. 4 * n, n - ((j - 1) % n) = n - r, (j - 1) \div n = q
      PROVE  j = k
  <2> DEFINE s == (j - 1) % n
             t == (j - 1) \div n
  <2>1. j - 1 \in Int
    OBVIOUS
  <2>2. t \in Int /\ s \in 0 .. (n - 1) /\ j - 1 = n * t + s
    BY <2>1, DividedInt
  <2>3. n - s = n - r /\ t = q
    BY <1>5
  <2> HIDE DEF s, t
  <2>4. s = r
    BY <1>2, <2>2, <2>3
  <2>5. j - 1 = k - 1
    BY <1>2, <2>2, <2>3, <2>4
  <2> QED
    BY <2>5
<1> QED
  BY <1>3, <1>4, <1>5 DEF q, r

\* Turn k is that of field i of n in pass p.
Turn(n, k, i, p) == n - ((k - 1) % n) = i /\ (k - 1) \div n + 1 = p

\* Every field has its turn in every pass.
LEMMA TurnExists ==
  ASSUME NEW n \in Nat \ {0}, NEW i \in 1 .. n, NEW p \in 1 .. 4
  PROVE  \E k \in 1 .. 4 * n : Turn(n, k, i, p)
<1> DEFINE m == n * (p - 1)
           k == m + (n - i) + 1
<1>1. m \in Nat /\ m + n <= 4 * n
  <2>1. p = 1 \/ p = 2 \/ p = 3 \/ p = 4
    OBVIOUS
  <2> QED
    BY <2>1
<1>2. k - 1 \in Int /\ k - 1 = n * (p - 1) + (n - i) /\ n - i \in 0 .. (n - 1) /\ p - 1 \in Int
  <2> HIDE DEF m
  <2>1. k - 1 = m + (n - i)
    BY <1>1
  <2>2. k - 1 \in Int /\ n - i \in 0 .. (n - 1) /\ p - 1 \in Int
    BY <1>1
  <2> QED
    BY <2>1, <2>2 DEF m
<1>3. k \in 1 .. 4 * n
  <2> HIDE DEF m
  <2> QED
    BY <1>1
<1> HIDE DEF k, m
<1> DEFINE l == k - 1
           t == p - 1
           r == n - i
<1>4. l \in Int /\ l = n * t + r /\ r \in 0 .. (n - 1) /\ t \in Int
  BY <1>2
<1> HIDE DEF l, t, r
<1>5. l \div n = t /\ l % n = r
  BY <1>4, DivisionUnique
<1>6. n - ((k - 1) % n) = i /\ (k - 1) \div n + 1 = p
  BY <1>5 DEF l, t, r
<1> QED
  BY <1>3, <1>6 DEF Turn

\* All the fields are added, each in the pass of its width.
LEMMA FieldsAreAdded ==
  ASSUME NEW b \in GoodBuilders, NEW V, NEW start, NEW type \in DOMAIN Tables, NEW args,
         InTable(b, V, start, type, args, {}),
         \A i \in 1 .. Len(FieldsOf(type)) :
           ArgumentFor(b, FieldsOf(type)[i], args[FieldsOf(type)[i].name])
  PROVE  LET c == AddFields(b, type, args)
         IN  /\ \E X : InTable(c, X, start, type, args, 1 .. Len(FieldsOf(type)))
             /\ Adds(b, c)
<1> DEFINE fields == FieldsOf(type)
           n == Len(fields)
           Number(k) == n - ((k - 1) % n)
           Width(k) == <<8, 4, 2, 1>>[(k - 1) \div n + 1]
           Add(c, k) == IF fields[Number(k)].width # Width(k) THEN c
                        ELSE AddField(c, fields[Number(k)], FieldIndexToOffset(Number(k) - 1),
                                      args[fields[Number(k)].name])
           added == CHOOSE g : g = [k \in 0 .. 4 * n |-> IF k = 0 THEN b ELSE Add(g[k - 1], k)]
           X == {c \in GoodBuilders : c.nested}
           step == [x \in X \X (1 .. 4 * n) |-> Add(x[1], x[2])]
           Past(k) == {i \in 1 .. n : \E j \in 1 .. k : Number(j) = i /\ fields[i].width = Width(j)}
<1>1. n \in Nat \ {0} /\ 4 * n \in Nat /\ \A i \in 1 .. n : SchemaField(fields[i])
  BY SchemaFields
<1>2. AddFields(b, type, args) = added[4 * n]
  BY DEF AddFields
<1>3. b.nested /\ \A i \in 1 .. n : ArgumentFor(b, fields[i], args[fields[i].name])
  BY DEF InTable
<1> HIDE DEF n
<1>4. \A k \in 1 .. 4 * n : Number(k) \in 1 .. n /\ (k - 1) \div n + 1 \in 1 .. 4
  BY <1>1, TurnIsOne
<1>5. ASSUME NEW k \in 1 .. 4 * n, NEW j \in 1 .. 4 * n, Number(j) = Number(k),
             Width(j) = Width(k)
      PROVE  j = k
  <2>1. (j - 1) \div n + 1 \in 1 .. 4 /\ (k - 1) \div n + 1 \in 1 .. 4
    BY <1>4
  <2>2. (j - 1) \div n \in Int /\ (k - 1) \div n \in Int
    BY <1>1, DividedInt
  <2> DEFINE p == (j - 1) \div n
             q == (k - 1) \div n
  <2>3. <<8, 4, 2, 1>>[p + 1] = <<8, 4, 2, 1>>[q + 1]
    BY <1>5
  <2>4. p \in Int /\ q \in Int /\ p + 1 \in 1 .. 4 /\ q + 1 \in 1 .. 4
    BY <2>1, <2>2
  <2> HIDE DEF p, q
  <2>5. p = q
    BY <2>3, <2>4
  <2>6. (j - 1) \div n = (k - 1) \div n
    BY <2>5 DEF p, q
  <2> QED
    BY <1>1, <1>5, <2>6, TurnIsOne
<1>6. \A i \in 1 .. n : \E k \in 1 .. 4 * n : Number(k) = i /\ fields[i].width = Width(k)
  <2> TAKE i \in 1 .. n
  <2>1. \E p \in 1 .. 4 : fields[i].width = <<8, 4, 2, 1>>[p]
    <3>1. fields[i].width \in {1, 2, 4, 8}
      BY <1>1 DEF SchemaField
    <3>2. <<8, 4, 2, 1>>[1] = 8 /\ <<8, 4, 2, 1>>[2] = 4 /\ <<8, 4, 2, 1>>[3] = 2
          /\ <<8, 4, 2, 1>>[4] = 1
      OBVIOUS
    <3> QED
      BY <3>1, <3>2
  <2>2. PICK p \in 1 .. 4 : fields[i].width = <<8, 4, 2, 1>>[p]
    BY <2>1
  <2>3. PICK k \in 1 .. 4 * n : Turn(n, k, i, p)
    BY <1>1, TurnExists
  <2>4. Number(k) = i /\ Width(k) = <<8, 4, 2, 1>>[p]
    BY <2>3 DEF Turn
  <2> HIDE DEF Number, Width
  <2> QED
    BY <2>2, <2>4
<1>7. ASSUME NEW c \in X, NEW k \in 1 .. 4 * n PROVE Add(c, k) \in X
  <2> DEFINE i == Number(k)
  <2>1. i \in 1 .. n
    BY <1>4
  <2> HIDE DEF i
  <2>2. FieldIndexToOffset(i - 1) \in Nat
    BY <1>1, <2>1 DEF FieldIndexToOffset, voffset
  <2>3. IF fields[i].kind = "scalar"
        THEN args[fields[i].name] \in Seq(Bytes) /\ Len(args[fields[i].name]) = fields[i].width
        ELSE args[fields[i].name] \in Nat
    BY <1>3, <2>1 DEF ArgumentFor
  <2>4. Grows(c, AddField(c, fields[i], FieldIndexToOffset(i - 1), args[fields[i].name]))
    BY <1>1, <2>1, <2>2, <2>3, FieldAdded
  <2>5. Grows(c, Add(c, k))
    BY <2>4, GrowsNot DEF i
  <2> QED
    BY <2>5 DEF Grows
<1>8. b \in X /\ step \in [X \X (1 .. 4 * n) -> X]
  <2> HIDE DEF Add
  <2> QED
    BY <1>3, <1>7
<1>9. PICK g : Runs(g, X, 4 * n, b, step)
  <2> HIDE DEF step, X
  <2> QED
    BY <1>1, <1>8, StepsExist
<1>10. g = [k \in 0 .. 4 * n |-> IF k = 0 THEN b ELSE Add(g[k - 1], k)]
  <2>1. g \in [0 .. 4 * n -> X] /\ g[0] = b
        /\ \A k \in 1 .. 4 * n : g[k] = step[<<g[k - 1], k>>]
    BY <1>9 DEF Runs
  <2> HIDE DEF Add
  <2>2. ASSUME NEW k \in 1 .. 4 * n PROVE g[k] = Add(g[k - 1], k)
    <3>1. k - 1 \in 0 .. 4 * n
      BY <1>1
    <3>2. g[k - 1] \in X /\ g[k] = step[<<g[k - 1], k>>]
      BY <2>1, <3>1
    <3> QED
      BY <3>2
  <2> HIDE DEF X, step
  <2> QED
    BY <1>1, <2>1, <2>2
<1>11. added = [k \in 0 .. 4 * n |-> IF k = 0 THEN b ELSE Add(added[k - 1], k)]
  <2> HIDE DEF X, step, Add
  <2> QED
    BY <1>10
<1> HIDE DEF added, step, X
<1> DEFINE S == {k \in 0 .. 4 * n : /\ \E Y : InTable(added[k], Y, start, type, args, Past(k))
                                    /\ Adds(b, added[k])}
<1>12. 0 \in S
  <2>1. Past(0) = {} /\ added[0] = b
    BY <1>1, <1>11
  <2>2. Adds(b, b)
    BY WritesNothing, WritesAdds
  <2>3. InTable(added[0], V, start, type, args, Past(0))
    BY <2>1
  <2>4. 0 \in 0 .. 4 * n /\ Adds(b, added[0])
    BY <1>1, <2>1, <2>2
  <2> HIDE DEF Past
  <2> QED
    BY <2>3, <2>4
<1>13. ASSUME NEW k \in 0 .. (4 * n - 1), k \in S PROVE k + 1 \in S
  <2> DEFINE l == k + 1
             c == added[k]
             i == Number(l)
             f == fields[i]
  <2>1. l \in 1 .. 4 * n /\ l \in 0 .. 4 * n /\ l - 1 = k /\ k \in Nat /\ k < l
    BY <1>1
  <2>2. i \in 1 .. n
    BY <1>4, <2>1
  <2>3. added[l] = Add(c, l)
    <3> HIDE DEF l, Add
    <3>1. l # 0 /\ l \in 0 .. 4 * n
      BY <2>1
    <3>2. added[l] = Add(added[l - 1], l)
      BY <1>11, <3>1
    <3> QED
      BY <2>1, <3>2
  <2>4. Adds(b, c) /\ \E Y : InTable(c, Y, start, type, args, Past(k))
    BY <1>13
  <2>5. PICK Y : InTable(c, Y, start, type, args, Past(k))
    BY <2>4
  <2>6. \A j \in 1 .. l : j \in 1 .. k \/ j = l
    BY <2>1
  <2>7. 1 .. k \subseteq 1 .. l /\ l \in 1 .. l
    BY <2>1
  <2> HIDE DEF l, c, S
  <2>8. CASE f.width # Width(l)
    <3>1. added[l] = c
      BY <2>3, <2>8
    <3>2. Past(l) = Past(k)
      <4> HIDE DEF Width, Number
      <4> QED
        BY <2>6, <2>7, <2>8 DEF i
    <3> QED
      BY <2>1, <2>4, <3>1, <3>2 DEF l, S
  <2>9. CASE f.width = Width(l)
    <3>1. added[l] = AddField(c, f, FieldIndexToOffset(i - 1), args[f.name])
      BY <2>3, <2>9
    <3>2. Past(l) = Past(k) \cup {i}
      <4> HIDE DEF Width, Number
      <4> QED
        BY <2>2, <2>6, <2>7, <2>9
    <3>3. i \notin Past(k)
      <4>1. SUFFICES ASSUME NEW j \in 1 .. k, Number(j) = i, f.width = Width(j) PROVE FALSE
        BY DEF Past
      <4>2. j \in 1 .. 4 * n /\ j # l
        <5> DEFINE m == 4 * n
        <5>1. m \in Nat /\ l \in 1 .. m
          BY <1>1, <2>1
        <5> HIDE DEF m
        <5>2. j \in 1 .. m /\ j # l
          BY <2>1, <5>1
        <5> QED
          BY <5>2 DEF m
      <4> QED
        BY <1>5, <2>1, <2>9, <4>1, <4>2
    <3>4. ArgumentFor(c, f, args[f.name])
      <4>1. GetSize(b) \in Nat /\ GetSize(c) \in Nat /\ GetSize(b) <= GetSize(c)
        BY <2>4, BuilderParts DEF Adds, Kept
      <4>2. ArgumentFor(b, f, args[f.name])
        BY <1>3, <2>2
      <4> HIDE DEF f
      <4> QED
        BY <4>1, <4>2 DEF ArgumentFor
    <3> HIDE DEF i, Past
    <3>5. LET e == AddField(c, FieldsOf(type)[i], FieldIndexToOffset(i - 1),
                            args[FieldsOf(type)[i].name])
          IN  /\ \E Z : InTable(e, Z, start, type, args, Past(k) \cup {i})
              /\ Adds(c, e)
      BY <2>2, <2>5, <3>3, <3>4, FieldIsAdded DEF n
    <3>6. /\ \E Z : InTable(added[l], Z, start, type, args, Past(l))
          /\ Adds(c, added[l])
      BY <3>1, <3>2, <3>5
    <3>7. Adds(b, added[l])
      BY <2>4, <3>6, AddsOn
    <3> QED
      BY <2>1, <3>6, <3>7 DEF l, S
  <2> QED
    BY <2>8, <2>9
<1>14. 4 * n \in S
  <2> DEFINE m == 4 * n
  <2>1. m \in Nat
    BY <1>1
  <2> HIDE DEF m, S
  <2>2. 0 \in S /\ \A k \in 0 .. (m - 1) : k \in S => k + 1 \in S
    BY <1>12, <1>13 DEF m
  <2>3. \A k \in 0 .. m : k \in S
    BY <2>1, <2>2, UpTo
  <2>4. m \in S
    BY <2>1, <2>3
  <2> QED
    BY <2>4 DEF m
<1>15. Past(4 * n) = 1 .. n
  <2> HIDE DEF Number, Width
  <2> QED
    BY <1>6
<1> HIDE DEF Past
<1>16. /\ \E Y : InTable(added[4 * n], Y, start, type, args, 1 .. n)
       /\ Adds(b, added[4 * n])
  BY <1>14, <1>15
<1> QED
  BY <1>2, <1>16 DEF n

----------------------------------------------------------------------------
(* The end of a table.                                                     *)

\* Where a vtable says that field i is, 0 if it is not stored.
EntryOf(entries, i) == IF i + 2 <= Len(entries) THEN entries[i + 2] ELSE 0

\* A table: the way to its vtable, and each field where the vtable says.
TableLaid(d, W, off, type, args) ==
  \E vt \in Nat, entries \in Seq(Nat) :
    /\ Has(d, Own(W, Fixed), off, Scalar(vt - off, 4))
    /\ VTableLaid(d, Own(W, Fixed), vt, entries)
    /\ \A i \in 1 .. Len(FieldsOf(type)) :
         LET f == FieldsOf(type)[i]
             entry == EntryOf(entries, i)
         IN  IF entry = 0 THEN NotStored(f, args[f.name])
             ELSE FieldLaid(d, Own(W, <<off, i>>), Own(W, Fixed), f, off - entry, args[f.name])

\* The words that precede the pairs are the offsets of vtables.
VTables(b, W) ==
  \A j \in 1 .. First(b) :
    \E entries : VTableLaid(b.buf_.data, Own(W, Fixed), b.buf_.scratch[j], entries)

\* The fields of a table are those that were noted.
LEMMA LocsNoted ==
  ASSUME NEW b \in GoodBuilders
  PROVE  /\ \A k \in Pairs(b) : Id(b, k) \in DOMAIN FieldLocs(b)
         /\ \A id \in DOMAIN FieldLocs(b) :
              \E k \in Pairs(b) : Id(b, k) = id /\ FieldLocs(b)[id] = Loc(b, k)
<1> DEFINE n == b.num_field_loc
           words == b.buf_.scratch
           first == Len(words) - 2 * n
           Number(i) == words[first + 2 * i]
           At(i) == words[first + 2 * i - 1]
           ids == {Number(i) : i \in 1 .. n}
           locs == [id \in ids |-> At(CHOOSE i \in 1 .. n : Number(i) = id)]
<1>1. FieldLocs(b) = locs
  BY DEF FieldLocs
<1>2. \A k : Number(k) = Id(b, k) /\ At(k) = Loc(b, k)
  BY DEF Id, Loc, First
<1>3. 1 .. n = Pairs(b)
  BY DEF Pairs
<1> HIDE DEF Number, At, n
<1>4. DOMAIN locs = {Number(i) : i \in 1 .. n}
  OBVIOUS
<1>5. \A k \in Pairs(b) : Id(b, k) \in DOMAIN locs
  BY <1>2, <1>3, <1>4
<1>6. ASSUME NEW id \in ids
      PROVE  \E k \in Pairs(b) : Id(b, k) = id /\ locs[id] = Loc(b, k)
  <2> DEFINE k == CHOOSE i \in 1 .. n : Number(i) = id
  <2>1. k \in 1 .. n /\ Number(k) = id
    OBVIOUS
  <2>2. locs[id] = At(k)
    OBVIOUS
  <2> HIDE DEF k, locs
  <2> QED
    BY <1>2, <1>3, <2>1, <2>2
<1> QED
  BY <1>1, <1>4, <1>5, <1>6

\* The vtable of a table has an entry for each field that was noted.
LEMMA EntriesOfTable ==
  ASSUME NEW b \in GoodBuilders, NEW start \in Nat, NEW loc \in Nat,
         start < loc, loc <= start + 172,
         NEW n \in 1 .. 11, b.max_voffset_ \in {0} \cup {2 * (i + 1) : i \in 1 .. n},
         \A k \in Pairs(b) : Id(b, k) <= b.max_voffset_ /\ Loc(b, k) \in start + 1 .. loc - 1
  PROVE  \E entries :
           /\ Entries(entries)
           /\ VTable(b, start, loc) = Words(entries)
           /\ \A i \in 1 .. n :
                IF EntryOf(entries, i) = 0
                THEN \A k \in Pairs(b) : Id(b, k) # 2 * (i + 1)
                ELSE \E k \in Pairs(b) : /\ Id(b, k) = 2 * (i + 1)
                                         /\ EntryOf(entries, i) = loc - Loc(b, k)
<1> DEFINE fields == FieldLocs(b)
           length == Larger(b.max_voffset_ + voffset, FieldIndexToOffset(0))
           Entry(k) == CASE k = 0 -> length
                         [] k = 1 -> loc - start
                         [] OTHER -> IF voffset * k \in DOMAIN fields
                                     THEN loc - fields[voffset * k] ELSE 0
           len == length \div voffset
           entries == [k \in 1 .. len |-> Entry(k - 1)]
<1>1. VTable(b, start, loc) = Joined([k \in 1 .. len |-> Scalar(Entry(k - 1), voffset)], voffset)
  BY DEF VTable
<1>2. voffset = 2 /\ FieldIndexToOffset(0) = 4
  BY DEF FieldIndexToOffset, voffset
<1>3. /\ len \in 2 .. 13 /\ length = 2 * len
      /\ \A i \in 1 .. n : 2 * (i + 1) <= b.max_voffset_ => i + 2 <= len
  <2> DEFINE m == b.max_voffset_
  <2>1. m \in {0} \cup {2 * (i + 1) : i \in 1 .. n}
    OBVIOUS
  <2>2. length = Larger(m + 2, 4)
    BY <1>2
  <2>3. \E j \in 2 .. 13 : length = 2 * j /\ \A i \in 1 .. n : 2 * (i + 1) <= m => i + 2 <= j
    <3>1. CASE m = 0
      BY <2>2, <3>1 DEF Larger
    <3>2. ASSUME NEW i \in 1 .. n, m = 2 * (i + 1)
          PROVE  \E j \in 2 .. 13 :
                   length = 2 * j /\ \A h \in 1 .. n : 2 * (h + 1) <= m => h + 2 <= j
      <4>1. length = 2 * (i + 2) /\ i + 2 \in 2 .. 13
        BY <2>2, <3>2 DEF Larger
      <4>2. \A h \in 1 .. n : 2 * (h + 1) <= m => h + 2 <= i + 2
        BY <3>2
      <4> QED
        BY <4>1, <4>2
    <3> QED
      BY <2>1, <3>1, <3>2
  <2>4. PICK j \in 2 .. 13 :
          length = 2 * j /\ \A i \in 1 .. n : 2 * (i + 1) <= m => i + 2 <= j
    BY <2>3
  <2> HIDE DEF length, m
  <2>5. len = j
    BY <1>2, <2>4
  <2> QED
    BY <2>4, <2>5 DEF m
<1> HIDE DEF length, len
<1>4. \A id \in DOMAIN fields : \E k \in Pairs(b) : Id(b, k) = id /\ fields[id] = Loc(b, k)
  BY LocsNoted
<1>5. \A k \in Pairs(b) : Id(b, k) \in DOMAIN fields
  BY LocsNoted
<1> HIDE DEF fields
<1>6. Base * Base >= 256 /\ Base * Base \in Nat
  <2>1. Base \in Nat /\ Base >= 16
    BY ClientAssumption, VectorAssumption
  <2>2. 16 * Base <= Base * Base
    BY <2>1, ProductGrows
  <2>3. Base * Base \in Nat
    BY <2>1
  <2> DEFINE q == Base * Base
  <2> HIDE DEF q
  <2>4. q \in Nat /\ 16 * Base <= q
    BY <2>2, <2>3 DEF q
  <2>5. q >= 256
    BY <2>1, <2>4
  <2> QED
    BY <2>4, <2>5 DEF q
<1>7. ASSUME NEW k \in 0 .. (len - 1) PROVE Entry(k) \in 0 .. 172
  <2>1. CASE k = 0
    BY <1>3, <2>1
  <2>2. CASE k = 1
    BY <2>2
  <2>3. CASE k # 0 /\ k # 1
    <3>1. CASE voffset * k \in DOMAIN fields
      <4>1. PICK h \in Pairs(b) : fields[voffset * k] = Loc(b, h)
        BY <1>4, <3>1
      <4>2. Loc(b, h) \in start + 1 .. loc - 1
        OBVIOUS
      <4>3. Entry(k) = loc - Loc(b, h)
        BY <2>3, <3>1, <4>1
      <4> HIDE DEF Entry
      <4> QED
        BY <4>2, <4>3
    <3>2. CASE voffset * k \notin DOMAIN fields
      BY <2>3, <3>2
    <3> QED
      BY <3>1, <3>2
  <2> QED
    BY <2>1, <2>2, <2>3
<1>8. Entry(0) = length
  OBVIOUS
<1>9. ASSUME NEW k \in Nat, k > 1
      PROVE  Entry(k) = IF 2 * k \in DOMAIN fields THEN loc - fields[2 * k] ELSE 0
  BY <1>2, <1>9
<1> HIDE DEF Entry
<1>10. entries \in Seq(Nat) /\ Len(entries) = len
       /\ \A k \in 1 .. len : entries[k] = Entry(k - 1) /\ entries[k] \in 0 .. 172
  <2>1. \A k \in 1 .. len : Entry(k - 1) \in 0 .. 172
    BY <1>3, <1>7
  <2> QED
    BY <1>3, <2>1
<1> HIDE DEF entries
<1>11. Len(entries) >= 2 /\ entries[1] = 2 * Len(entries)
  BY <1>3, <1>8, <1>10
<1>12. \A k \in 1 .. Len(entries) : entries[k] < Base * Base
  <2> DEFINE q == Base * Base
  <2> HIDE DEF q
  <2>1. q >= 256 /\ q \in Nat
    BY <1>6 DEF q
  <2>2. ASSUME NEW k \in 1 .. Len(entries) PROVE entries[k] < q
    <3> DEFINE x == entries[k]
    <3>1. x \in 0 .. 172
      BY <1>10
    <3> HIDE DEF x
    <3>2. x < q
      BY <2>1, <3>1
    <3> QED
      BY <3>2 DEF x
  <2> QED
    BY <2>2 DEF q
<1>13. VTable(b, start, loc) = Words(entries)
  <2>1. [k \in 1 .. len |-> Scalar(Entry(k - 1), voffset)]
          = [k \in 1 .. Len(entries) |-> Scalar(entries[k], 2)]
    BY <1>2, <1>10
  <2> QED
    BY <1>1, <1>2, <2>1 DEF Words
<1>14. ASSUME NEW i \in 1 .. n
       PROVE  IF EntryOf(entries, i) = 0
              THEN \A k \in Pairs(b) : Id(b, k) # 2 * (i + 1)
              ELSE \E k \in Pairs(b) : /\ Id(b, k) = 2 * (i + 1)
                                       /\ EntryOf(entries, i) = loc - Loc(b, k)
  <2>1. CASE i + 2 <= len
    <3>1. i + 2 \in 1 .. len /\ (i + 2) - 1 = i + 1 /\ i + 1 \in Nat /\ i + 1 > 1
      BY <1>3, <2>1
    <3>2. EntryOf(entries, i) = Entry(i + 1)
      BY <1>10, <2>1, <3>1 DEF EntryOf
    <3>3. Entry(i + 1) = IF 2 * (i + 1) \in DOMAIN fields THEN loc - fields[2 * (i + 1)] ELSE 0
      BY <1>9, <3>1
    <3>4. CASE 2 * (i + 1) \in DOMAIN fields
      <4>1. PICK k \in Pairs(b) : Id(b, k) = 2 * (i + 1) /\ fields[2 * (i + 1)] = Loc(b, k)
        BY <1>4, <3>4
      <4>2. EntryOf(entries, i) = loc - Loc(b, k)
        BY <3>2, <3>3, <3>4, <4>1
      <4>3. Loc(b, k) \in start + 1 .. loc - 1
        OBVIOUS
      <4>4. loc - Loc(b, k) # 0
        BY <4>3
      <4> QED
        BY <4>1, <4>2, <4>4
    <3>5. CASE 2 * (i + 1) \notin DOMAIN fields
      BY <1>5, <3>2, <3>3, <3>5
    <3> QED
      BY <3>4, <3>5
  <2>2. CASE ~(i + 2 <= len)
    <3>1. EntryOf(entries, i) = 0
      BY <1>10, <2>2 DEF EntryOf
    <3>2. ~(2 * (i + 1) <= b.max_voffset_)
      BY <1>3, <2>2
    <3> QED
      BY <3>1, <3>2
  <2> QED
    BY <2>1, <2>2
<1> QED
  BY <1>10, <1>11, <1>12, <1>13, <1>14 DEF Entries

\* A write at an offset changes what it is over, and nothing else.
LEMMA Overwritten ==
  ASSUME NEW v \in SoundVectors, NEW bytes \in Seq(Bytes), NEW off \in Nat,
         Len(bytes) <= off, off <= size(v)
  PROVE  LET w == WriteAt(v, off, bytes)
         IN  /\ w.data \in Seq(Bytes) /\ Len(w.data) = Len(v.data) /\ v.data \in Seq(Bytes)
             /\ Has(w.data, off - Len(bytes) + 1 .. off, off, bytes)
             /\ \A S : (\A o \in S : o \notin off - Len(bytes) + 1 .. off)
                         => Agree(v.data, w.data, S)
<1> DEFINE w == WriteAt(v, off, bytes)
           n == Len(bytes)
           m == size(v)
<1>1. /\ w \in SoundVectors /\ size(w) = m
      /\ \A i \in 1 .. m :
           w.data[i] = IF i - (m - off) \in 1 .. n THEN bytes[i - (m - off)] ELSE v.data[i]
  BY Written
<1>2. /\ w.data \in Seq(Bytes) /\ v.data \in Seq(Bytes) /\ m = Len(v.data) /\ m = Len(w.data)
      /\ m \in Nat /\ n \in Nat
  BY <1>1, VectorParts DEF SoundVectors, size
<1> HIDE DEF w, n, m
<1>3. n <= off /\ off <= m
  BY DEF n, m
<1>4. ASSUME NEW i \in 1 .. n PROVE w.data[m - off + i] = bytes[i]
  <2> DEFINE j == m - off + i
  <2>1. j \in 1 .. m /\ j - (m - off) = i
    BY <1>2, <1>3
  <2> HIDE DEF j
  <2>2. w.data[j] = bytes[i]
    BY <1>1, <2>1
  <2> QED
    BY <2>2 DEF j
<1>5. Has(w.data, off - n + 1 .. off, off, bytes)
  BY <1>2, <1>3, <1>4 DEF Has, n
<1>6. ASSUME NEW S, \A o \in S : o \notin off - n + 1 .. off
      PROVE  Agree(v.data, w.data, S)
  <2>1. ASSUME NEW o \in S, o \in 1 .. m PROVE w.data[m - o + 1] = v.data[m - o + 1]
    <3> DEFINE j == m - o + 1
    <3>1. o \notin off - n + 1 .. off
      BY <1>6
    <3>2. j \in 1 .. m /\ j - (m - off) \notin 1 .. n
      BY <1>2, <1>3, <2>1, <3>1
    <3> HIDE DEF j
    <3>3. w.data[j] = v.data[j]
      BY <1>1, <3>2
    <3> QED
      BY <3>3 DEF j
  <2> QED
    BY <1>2, <2>1 DEF Agree
<1> QED
  BY <1>2, <1>5, <1>6 DEF w, n, m

\* The words of a vtable, two bytes each.
LEMMA WordsAre ==
  ASSUME NEW entries \in Seq(Nat)
  PROVE  /\ Words(entries) \in Seq(Bytes) /\ Len(Words(entries)) = 2 * Len(entries)
         /\ Len(entries) > 0 => /\ Words(entries)[1] = Scalar(entries[1], 2)[1]
                                /\ Words(entries)[2] = Scalar(entries[1], 2)[2]
<1> DEFINE elems == [k \in 1 .. Len(entries) |-> Scalar(entries[k], 2)]
<1>1. elems \in Seq(Seq(Bytes)) /\ Len(elems) = Len(entries)
      /\ \A i \in 1 .. Len(elems) : Len(elems[i]) = 2 /\ elems[i] = Scalar(entries[i], 2)
  <2>1. \A k \in 1 .. Len(entries) : Scalar(entries[k], 2) \in Seq(Bytes)
                                     /\ Len(Scalar(entries[k], 2)) = 2
    <3>1. \A k \in 1 .. Len(entries) : entries[k] \in Int
      OBVIOUS
    <3> QED
      BY <3>1, ScalarBytes
  <2> QED
    BY <2>1
<1>2. Words(entries) = Joined(elems, 2)
  BY DEF Words
<1> HIDE DEF elems
<1>3. Joined(elems, 2) \in Seq(Bytes) /\ Len(Joined(elems, 2)) = Len(elems) * 2
  BY <1>1, JoinedBytes
<1>4. ASSUME Len(entries) > 0
      PROVE  /\ Joined(elems, 2)[1] = Scalar(entries[1], 2)[1]
             /\ Joined(elems, 2)[2] = Scalar(entries[1], 2)[2]
  <2>1. 1 \in 1 .. Len(elems)
    BY <1>1, <1>4
  <2>2. \A j \in 1 .. 2 : Joined(elems, 2)[(1 - 1) * 2 + j] = elems[1][j]
    BY <1>1, <2>1, JoinedAt
  <2>3. Joined(elems, 2)[(1 - 1) * 2 + 1] = elems[1][1]
        /\ Joined(elems, 2)[(1 - 1) * 2 + 2] = elems[1][2]
    BY <2>2
  <2>4. (1 - 1) * 2 + 1 = 1 /\ (1 - 1) * 2 + 2 = 2
    OBVIOUS
  <2>5. elems[1] = Scalar(entries[1], 2)
    BY <1>1, <2>1
  <2> QED
    BY <2>3, <2>4, <2>5
<1> QED
  BY <1>1, <1>2, <1>3, <1>4

\* A vtable in the data of a vector.
HoldsVTable(v, S, off, entries) == v.data \in Seq(Bytes) /\ VTableLaid(v.data, S, off, entries)

\* A vtable that is the same as one that was written is written there.
LEMMA SameLayout ==
  ASSUME NEW v, NEW S, NEW off, NEW other, HoldsVTable(v, S, off, other),
         NEW entries, Entries(entries), SameVTable(v, off, Words(entries))
  PROVE  Words(entries) = Words(other)
<1> DEFINE a == Words(entries)
           o == Words(other)
<1>1. /\ other \in Seq(Nat) /\ Len(other) >= 2 /\ other[1] = 2 * Len(other)
      /\ other[1] < Base * Base /\ Has(v.data, S, off, o)
      /\ v.data \in Seq(Bytes)
  BY DEF HoldsVTable, VTableLaid, Entries
<1>0. /\ entries \in Seq(Nat) /\ Len(entries) >= 2 /\ entries[1] = 2 * Len(entries)
      /\ entries[1] < Base * Base
  BY DEF Entries
<1>2. /\ a \in Seq(Bytes) /\ Len(a) = 2 * Len(entries)
      /\ a[1] = Scalar(entries[1], 2)[1] /\ a[2] = Scalar(entries[1], 2)[2]
  <2>1. entries \in Seq(Nat) /\ Len(entries) > 0
    BY ONLY <1>0
  <2>2. /\ Words(entries) \in Seq(Bytes) /\ Len(Words(entries)) = 2 * Len(entries)
        /\ Len(entries) > 0 => /\ Words(entries)[1] = Scalar(entries[1], 2)[1]
                               /\ Words(entries)[2] = Scalar(entries[1], 2)[2]
    BY ONLY <2>1, WordsAre
  <2> QED
    BY <2>1, <2>2
<1>3. /\ o \in Seq(Bytes) /\ Len(o) = 2 * Len(other)
      /\ o[1] = Scalar(other[1], 2)[1] /\ o[2] = Scalar(other[1], 2)[2]
  <2>1. other \in Seq(Nat) /\ Len(other) > 0
    BY ONLY <1>1
  <2>2. /\ Words(other) \in Seq(Bytes) /\ Len(Words(other)) = 2 * Len(other)
        /\ Len(other) > 0 => /\ Words(other)[1] = Scalar(other[1], 2)[1]
                             /\ Words(other)[2] = Scalar(other[1], 2)[2]
    BY ONLY <2>1, WordsAre
  <2> QED
    BY <2>1, <2>2
<1>4. data_at(v, off, Len(o)) = o
  BY <1>1, HasDataAt
<1>5. data_at(v, off, 2) = SubSeq(a, 1, 2) /\ data_at(v, off, Len(a)) = a
  BY DEF SameVTable, voffset
<1> HIDE DEF a, o
<1> DEFINE At(i) == IF size(v) - off + i \in DOMAIN v.data THEN v.data[size(v) - off + i] ELSE 0
<1>6. \A n, i : n \in Nat /\ i \in 1 .. n => data_at(v, off, n)[i] = At(i)
  BY DEF data_at
<1> HIDE DEF At
<1>7. o[1] = a[1] /\ o[2] = a[2]
  <2>1. Len(o) \in Nat /\ 1 \in 1 .. Len(o) /\ 2 \in 1 .. Len(o) /\ 1 \in 1 .. 2 /\ 2 \in 1 .. 2
    BY <1>1, <1>3
  <2>2. data_at(v, off, Len(o))[1] = data_at(v, off, 2)[1]
        /\ data_at(v, off, Len(o))[2] = data_at(v, off, 2)[2]
    BY <1>6, <2>1
  <2>3. SubSeq(a, 1, 2)[1] = a[1] /\ SubSeq(a, 1, 2)[2] = a[2]
    BY <1>2
  <2> QED
    BY <1>4, <1>5, <2>2, <2>3
<1>8. Scalar(entries[1], 2) = Scalar(other[1], 2)
  <2> DEFINE p == Scalar(entries[1], 2)
             q == Scalar(other[1], 2)
  <2>1. entries[1] \in Int /\ other[1] \in Int
    BY <1>0, <1>1
  <2>2. p \in Seq(Bytes) /\ q \in Seq(Bytes) /\ Len(p) = 2 /\ Len(q) = 2
    BY <2>1, ScalarBytes
  <2>3. p[1] = q[1] /\ p[2] = q[2]
    BY <1>2, <1>3, <1>7
  <2> HIDE DEF p, q
  <2>4. p = q
    BY <2>2, <2>3
  <2> QED
    BY <2>4 DEF p, q
<1>9. entries[1] = other[1]
  <2>1. entries[1] \in Nat /\ entries[1] < Base * Base
    BY <1>0
  <2>2. other[1] \in Nat /\ other[1] < Base * Base
    BY <1>1
  <2>3. Value(Scalar(entries[1], 2)) = entries[1]
    BY <2>1, ValueOfTwo
  <2>4. Value(Scalar(other[1], 2)) = other[1]
    BY <2>2, ValueOfTwo
  <2> QED
    BY <1>8, <2>3, <2>4
<1>10. Len(o) = Len(a)
  BY <1>0, <1>1, <1>2, <1>3, <1>9
<1>11. a = o
  BY <1>4, <1>5, <1>10
<1> QED
  BY <1>11 DEF a, o

\* What agrees with what agrees agrees.
LEMMA AgreeOn ==
  ASSUME NEW d \in Seq(Bytes), NEW e \in Seq(Bytes), NEW f \in Seq(Bytes), NEW S,
         Agree(d, e, S), Agree(e, f, S)
  PROVE  Agree(d, f, S)
<1>1. Len(d) \in Nat /\ Len(e) \in Nat /\ Len(f) \in Nat /\ Len(d) <= Len(e) /\ Len(e) <= Len(f)
  BY DEF Agree
<1>2. ASSUME NEW o \in S, o \in 1 .. Len(d)
      PROVE  f[Len(f) - o + 1] = d[Len(d) - o + 1]
  <2>1. o \in 1 .. Len(e)
    BY <1>1, <1>2
  <2>2. e[Len(e) - o + 1] = d[Len(d) - o + 1]
    BY <1>2 DEF Agree
  <2>3. f[Len(f) - o + 1] = e[Len(e) - o + 1]
    BY <2>1 DEF Agree
  <2> QED
    BY <2>2, <2>3
<1> QED
  BY <1>1, <1>2 DEF Agree

\* What agrees at some offsets agrees at fewer.
LEMMA AgreeWithin ==
  ASSUME NEW d, NEW e, NEW S, NEW T, Agree(d, e, S), T \subseteq S
  PROVE  Agree(d, e, T)
  BY DEF Agree

\* With the fields of a table the pairs leave the scratch pad.
LEMMA PairsCleared ==
  ASSUME NEW b \in GoodBuilders
  PROVE  LET c == ClearOffsets(b)
         IN  /\ Adds(b, c) /\ c.num_field_loc = 0 /\ c.max_voffset_ = 0
             /\ c.buf_.data = b.buf_.data /\ Len(c.buf_.scratch) = First(b)
<1> DEFINE c == ClearOffsets(b)
           n == 2 * b.num_field_loc
           s == b.buf_.scratch
<1>1. /\ c \in GoodBuilders /\ c.buf_.data = b.buf_.data /\ c.num_field_loc = 0
      /\ c.finished = b.finished /\ c.string_pool = b.string_pool
  BY OffsetsCleared
<1>2. b \in Builders /\ s \in Seq(Nat) /\ b.num_field_loc \in Nat /\ b.buf_.data \in Seq(Bytes)
      /\ b.buf_ \in SoundVectors
  BY BuilderParts
<1>3. First(b) \in Nat /\ Len(s) = First(b) + n /\ n \in Nat
  BY <1>2, PairParts
<1>4. c.max_voffset_ = 0 /\ c.buf_ = scratch_pop(b.buf_, n)
  BY <1>2 DEF ClearOffsets, Builders
<1>5. c.buf_.scratch = SubSeq(s, 1, Len(s) - n)
  <2> HIDE DEF c
  <2>1. n \in 0 .. Len(s)
    <3> HIDE DEF s, n
    <3> QED
      BY <1>3
  <2> HIDE DEF n
  <2> QED
    BY <1>2, <1>4, <2>1, ScratchPopped
<1> HIDE DEF c, n, s
<1>6. Len(s) - n = First(b)
  BY <1>3
<1>7. Len(c.buf_.scratch) = First(b) /\ \A j \in 1 .. First(b) : c.buf_.scratch[j] = s[j]
  BY <1>2, <1>3, <1>5, <1>6
<1>8. First(c) = First(b)
  BY <1>1, <1>3, <1>7 DEF First
<1>9. Kept(b.buf_.data, c.buf_.data)
  BY <1>1, <1>2, KeptSame
<1> QED
  BY <1>1, <1>4, <1>7, <1>8, <1>9 DEF Adds, c, s

\* A vtable that is known is on the scratch pad.
LEMMA KnownIsWritten ==
  ASSUME NEW b \in GoodBuilders, NEW vtable, KnownVTable(b, vtable) # 0
  PROVE  \E i \in 1 .. Len(b.buf_.scratch) :
           /\ KnownVTable(b, vtable) = b.buf_.scratch[i]
           /\ SameVTable(b.buf_, b.buf_.scratch[i], vtable)
<1> DEFINE words == b.buf_.scratch
           known == {i \in DOMAIN words : SameVTable(b.buf_, words[i], vtable)}
           first == CHOOSE i \in known : \A j \in known : i <= j
<1>1. words \in Seq(Nat) /\ known \subseteq 1 .. Len(words) /\ Len(words) \in Nat
  BY BuilderParts
<1>2. ~(known = {} \/ ~b.dedup_vtables_)
  BY DEF KnownVTable
<1>3. KnownVTable(b, vtable) = words[first]
  BY <1>2 DEF KnownVTable
<1>4. \A i \in known : SameVTable(b.buf_, words[i], vtable)
  OBVIOUS
<1> HIDE DEF known
<1>5. known \subseteq Nat /\ known # {}
  BY <1>1, <1>2
<1>6. \E i \in known : \A j \in known : i <= j
  BY <1>5, SmallestMember
<1>7. first \in known
  BY <1>6
<1> QED
  BY <1>1, <1>3, <1>4, <1>7

\* A number is put behind others.
LEMMA OneAppended ==
  ASSUME NEW w \in Seq(Nat), NEW n \in Nat
  PROVE  LET x == w \o <<n>>
             m == Len(w)
         IN  Len(x) = m + 1 /\ x[m + 1] = n /\ \A j \in 1 .. m : x[j] = w[j]
<1> DEFINE x == w \o <<n>>
           m == Len(w)
<1>1. Len(x) = m + 1
  OBVIOUS
<1>2. x[m + 1] = n
  OBVIOUS
<1>3. \A j \in 1 .. m : x[j] = w[j]
  OBVIOUS
<1> QED
  BY <1>1, <1>2, <1>3

\* The end of a table: the way to its vtable is over its first bytes, and the vtable
\* is before them or was there, in R.
EndsTable(b, c, R, loc, entries) ==
  LET d == c.buf_.data
  IN  /\ c \in GoodBuilders /\ GetSize(c) >= loc /\ c.result = loc /\ GetSize(c) \in Nat
      /\ c.max_voffset_ = 0
      /\ Agree(b.buf_.data, d, 1 .. GetSize(b))
      /\ \E vt \in Nat :
           /\ Has(d, loc - 3 .. loc, loc, Scalar(vt - loc, 4))
           /\ VTableLaid(d, R \cup (loc + 1 .. GetSize(c)), vt, entries)
           /\ \A j \in 1 .. First(c) :
                \/ j <= First(b) /\ c.buf_.scratch[j] = b.buf_.scratch[j]
                \/ c.buf_.scratch[j] = vt

\* EndTable ends the table so.
LEMMA TableWritten ==
  ASSUME NEW b \in GoodBuilders, NEW start \in Nat, NEW W, VTables(b, W),
         NEW entries, Entries(entries),
         NEW p, p = PushElement(b, Scalar(0, uoffset)), NEW loc, loc = GetSize(p),
         VTable(b, start, loc) = Words(entries), Own(W, Fixed) \subseteq 1 .. GetSize(b)
  PROVE  EndsTable(b, EndTable(b, start), Own(W, Fixed), loc, entries)
<1> DEFINE vtable == Words(entries)
           q == PushBytes(p, vtable)
           written == ClearOffsets(q)
           known == KnownVTable(written, vtable)
           vt == IF known = 0 THEN GetSize(written) ELSE known
           kept == IF known = 0 THEN scratch_push(written.buf_, <<vt>>)
                                ELSE pop(written.buf_, Len(vtable))
           s == Scalar(vt - loc, uoffset)
           v == WriteAt(kept, loc, s)
           c == [written EXCEPT !.buf_ = v, !.nested = FALSE, !.result = loc]
           R == Own(W, Fixed)
<1>1. EndTable(b, start) = c
  BY DEF EndTable
<1>2. /\ Writes(b, p) /\ p \in GoodBuilders /\ loc \in Nat /\ loc >= GetSize(b) + 4
      /\ GetSize(b) \in Nat
  <2> DEFINE z == Scalar(0, uoffset)
  <2>1. z \in Seq(Bytes) /\ Len(z) = 4
    <3>1. uoffset = 4 /\ uoffset \in Nat /\ 0 \in Int
      BY DEF uoffset
    <3> QED
      BY <3>1, ScalarBytes
  <2>2. Len(z) \in 1 .. 16
    BY <2>1
  <2> HIDE DEF z
  <2>3. /\ Writes(b, PushElement(b, z)) /\ PushElement(b, z) \in GoodBuilders
        /\ PaddingBytes(GetSize(b), Len(z)) \in Nat
        /\ GetSize(PushElement(b, z)) = GetSize(b) + PaddingBytes(GetSize(b), Len(z)) + Len(z)
    BY <2>1, <2>2, ElementLaid
  <2>4. GetSize(b) \in Nat
    BY BuilderParts
  <2> DEFINE pad == PaddingBytes(GetSize(b), Len(z))
  <2>5. pad \in Nat /\ loc = GetSize(b) + pad + 4
    BY <2>1, <2>3 DEF z
  <2> HIDE DEF pad
  <2>6. loc \in Nat /\ loc >= GetSize(b) + 4
    BY <2>4, <2>5
  <2>7. Writes(b, p) /\ p \in GoodBuilders
    BY <2>3 DEF z
  <2> QED
    BY <2>4, <2>6, <2>7
<1>3. vtable \in Seq(Bytes) /\ Len(vtable) \in Nat
  BY WordsAre DEF Entries
<1>4. /\ Writes(p, q) /\ q \in GoodBuilders /\ GetSize(q) = loc + Len(vtable)
      /\ Has(q.buf_.data, New(p, q), GetSize(q), vtable)
      /\ q.buf_.data = vtable \o p.buf_.data
  <2> HIDE DEF vtable
  <2> QED
    BY <1>2, <1>3, BytesLaid, BytesPushed
<1>5. Adds(b, p) /\ First(p) = First(b) /\ Adds(p, q)
  BY <1>2, <1>4, WritesAdds
<1> HIDE DEF q, vtable
<1>6. /\ Adds(q, written) /\ written.num_field_loc = 0 /\ written.max_voffset_ = 0
      /\ written.buf_.data = q.buf_.data /\ Len(written.buf_.scratch) = First(q)
  BY <1>4, PairsCleared
<1> HIDE DEF written
<1>7. /\ Adds(b, written) /\ written \in GoodBuilders
      /\ Len(written.buf_.scratch) = First(b) /\ First(written) = First(b)
      /\ \A j \in 1 .. First(b) : written.buf_.scratch[j] = b.buf_.scratch[j]
  <2>1. Adds(b, q)
    BY <1>5, AddsOn
  <2>2. Adds(b, written)
    BY <1>6, <2>1, AddsOn
  <2>3. First(q) = First(b)
    BY <2>1 DEF Adds
  <2> QED
    BY <1>6, <2>2, <2>3 DEF Adds
<1>8. /\ b.buf_.data \in Seq(Bytes) /\ p.buf_.data \in Seq(Bytes) /\ q.buf_.data \in Seq(Bytes)
      /\ written.buf_ \in SoundVectors /\ written.buf_.scratch \in Seq(Nat)
      /\ Len(b.buf_.data) = GetSize(b) /\ Len(p.buf_.data) = loc
      /\ Len(q.buf_.data) = loc + Len(vtable) /\ size(written.buf_) = loc + Len(vtable)
      /\ GetSize(written) = loc + Len(vtable) /\ written \in Builders
      /\ First(b) \in Nat
  BY <1>2, <1>4, <1>6, <1>7, BuilderParts, PairParts DEF GetSize, size
<1>9. known \in Nat
  BY <1>7, KnownIsNat
<1>10. vt \in Nat /\ <<vt>> \in Seq(Nat)
  BY <1>3, <1>2, <1>8, <1>9
<1>11. known # 0 => VTableLaid(b.buf_.data, R, vt, entries)
  <2>1. SUFFICES ASSUME known # 0 PROVE VTableLaid(b.buf_.data, R, vt, entries)
    OBVIOUS
  <2>2. PICK i \in 1 .. Len(written.buf_.scratch) :
          /\ known = written.buf_.scratch[i]
          /\ SameVTable(written.buf_, written.buf_.scratch[i], vtable)
    BY <1>7, <2>1, KnownIsWritten
  <2>3. vt = b.buf_.scratch[i] /\ i \in 1 .. First(b) /\ SameVTable(written.buf_, vt, vtable)
    BY <1>7, <2>1, <2>2
  <2>4. PICK other : VTableLaid(b.buf_.data, R, b.buf_.scratch[i], other)
    BY <2>3 DEF VTables
  <2> HIDE DEF vt, R
  <2>5. Agree(b.buf_.data, written.buf_.data, R)
    BY <1>6, <1>7, <1>8, KeptAgrees DEF Adds
  <2>6. VTableLaid(written.buf_.data, R, vt, other)
    BY <1>6, <1>8, <2>3, <2>4, <2>5, VTableOn
  <2>7. written.buf_.data \in Seq(Bytes)
    BY <1>6, <1>8
  <2>8. Words(entries) = Words(other)
    <3> DEFINE w == written.buf_
    <3>1. SameVTable(w, vt, Words(entries)) /\ HoldsVTable(w, R, vt, other)
      BY <2>3, <2>6, <2>7 DEF vtable, HoldsVTable
    <3> HIDE DEF w
    <3> QED
      BY <3>1, SameLayout
  <2>9. Has(b.buf_.data, R, vt, Words(entries))
    BY <2>3, <2>4, <2>8 DEF VTableLaid
  <2> QED
    BY <2>9 DEF VTableLaid
<1> DEFINE T == R \cup (loc + 1 .. size(kept))
<1>12. /\ kept \in SoundVectors /\ size(kept) >= loc /\ size(kept) \in Nat
       /\ Agree(p.buf_.data, kept.data, 1 .. loc)
       /\ VTableLaid(kept.data, T, vt, entries)
       /\ Len(kept.scratch) \in Nat
       /\ \A j \in 1 .. Len(kept.scratch) :
            \/ j <= First(b) /\ kept.scratch[j] = b.buf_.scratch[j]
            \/ kept.scratch[j] = vt
  <2>1. CASE known = 0
    <3> DEFINE k == scratch_push(written.buf_, <<vt>>)
    <3>1. kept = k /\ vt = loc + Len(vtable)
      BY <1>8, <2>1
    <3> HIDE DEF vt
    <3>2. /\ k \in SoundVectors /\ k.data = written.buf_.data
          /\ k.scratch = written.buf_.scratch \o <<vt>>
      BY <1>8, <1>10, ScratchPushed
    <3>3. size(k) = loc + Len(vtable) /\ k.data = q.buf_.data
      BY <1>6, <1>8, <3>2 DEF size
    <3> HIDE DEF k, kept, T
    <3>4. Agree(p.buf_.data, k.data, 1 .. loc)
      BY <1>4, <1>8, <3>3, KeptAgrees DEF Writes
    <3>5. Has(k.data, T, vt, vtable)
      <4>1. New(p, q) \subseteq T
        BY <1>2, <1>4, <3>1, <3>3 DEF New, T
      <4>2. Has(k.data, New(p, q), vt, vtable)
        BY <1>4, <3>1, <3>3
      <4>3. Agree(k.data, k.data, New(p, q)) /\ k.data \in Seq(Bytes)
        BY <1>8, <3>3, KeptSame, KeptAgrees
      <4> QED
        BY <4>1, <4>2, <4>3, HasOn
    <3>6. VTableLaid(k.data, T, vt, entries)
      BY <3>5 DEF VTableLaid, vtable
    <3>7. \A j \in 1 .. Len(k.scratch) :
            \/ j <= First(b) /\ k.scratch[j] = b.buf_.scratch[j]
            \/ k.scratch[j] = vt
      <4> DEFINE w == written.buf_.scratch
      <4>1. w \in Seq(Nat) /\ Len(w) = First(b) /\ k.scratch = w \o <<vt>>
        BY <1>7, <1>8, <3>2
      <4>2. \A j \in 1 .. First(b) : w[j] = b.buf_.scratch[j]
        BY <1>7
      <4> DEFINE m == First(b)
                 x == k.scratch
      <4> HIDE DEF w, m, x
      <4>3. w \in Seq(Nat) /\ Len(w) = m /\ x = w \o <<vt>> /\ m \in Nat
        BY <1>8, <4>1 DEF m, x
      <4>4. Len(x) = m + 1 /\ x[m + 1] = vt /\ \A j \in 1 .. m : x[j] = w[j]
        <5> HIDE DEF vt
        <5> QED
          BY <1>10, <4>3, OneAppended
      <4>5. \A j \in 1 .. Len(x) : (j \in 1 .. m /\ j <= m) \/ j = m + 1
        BY <4>3, <4>4
      <4>6. \A j \in 1 .. m : x[j] = b.buf_.scratch[j]
        BY <4>2, <4>4 DEF m
      <4> QED
        BY <4>4, <4>5, <4>6 DEF m, x
    <3>8. Len(k.scratch) \in Nat
      BY <3>2, VectorParts DEF SoundVectors
    <3>9. size(k) >= loc /\ size(k) \in Nat
      BY <1>2, <1>3, <3>3
    <3> QED
      BY <3>1, <3>2, <3>4, <3>6, <3>7, <3>8, <3>9
  <2>2. CASE known # 0
    <3> DEFINE k == pop(written.buf_, Len(vtable))
    <3>1. kept = k
      BY <2>2
    <3>2. VTableLaid(b.buf_.data, R, vt, entries)
      BY <1>11, <2>2
    <3> HIDE DEF vt
    <3>3. Len(vtable) \in 0 .. size(written.buf_)
      BY <1>2, <1>3, <1>8
    <3>4. /\ k \in SoundVectors /\ k.scratch = written.buf_.scratch
          /\ k.data = SubSeq(written.buf_.data, Len(vtable) + 1, Len(written.buf_.data))
          /\ size(k) = size(written.buf_) - Len(vtable)
      BY <1>8, <3>3, Popped
    <3>5. size(k) = loc
      BY <1>2, <1>3, <1>8, <3>4
    <3>6. k.data = p.buf_.data
      <4> DEFINE x == p.buf_.data
                 m == Len(vtable)
      <4>1. k.data = SubSeq(vtable \o x, m + 1, Len(vtable \o x))
        BY <1>4, <1>6, <3>4
      <4>2. x \in Seq(Bytes)
        BY <1>8
      <4> HIDE DEF x
      <4>3. SubSeq(vtable \o x, m + 1, Len(vtable \o x)) = x
        BY <1>3, <4>2
      <4> QED
        BY <4>1, <4>3 DEF x
    <3> HIDE DEF k, kept, T, R
    <3>7. Agree(p.buf_.data, k.data, 1 .. loc)
      BY <1>8, <3>6, KeptSame, KeptAgrees
    <3>8. VTableLaid(k.data, T, vt, entries)
      <4>1. Agree(b.buf_.data, k.data, R)
        BY <1>2, <1>8, <3>6, KeptAgrees DEF Writes
      <4>2. R \subseteq T /\ k.data \in Seq(Bytes)
        BY <1>8, <3>6 DEF T
      <4> QED
        BY <1>8, <3>2, <4>1, <4>2, VTableOn
    <3>9. Len(k.scratch) = First(b) /\ \A j \in 1 .. First(b) : k.scratch[j] = b.buf_.scratch[j]
      BY <1>7, <3>4
    <3>10. \A j \in 1 .. Len(k.scratch) : j <= First(b) /\ k.scratch[j] = b.buf_.scratch[j]
      <4> DEFINE m == First(b)
      <4> HIDE DEF m
      <4>1. m \in Nat /\ Len(k.scratch) = m /\ \A j \in 1 .. m : k.scratch[j] = b.buf_.scratch[j]
        BY <1>8, <3>9 DEF m
      <4>2. \A j \in 1 .. m : j <= m
        OBVIOUS
      <4>3. \A j \in 1 .. Len(k.scratch) : j <= m /\ k.scratch[j] = b.buf_.scratch[j]
        BY <4>1, <4>2
      <4> QED
        BY <4>3 DEF m
    <3>11. Len(k.scratch) \in Nat /\ size(k) >= loc /\ size(k) \in Nat
      BY <1>2, <1>8, <3>5, <3>9
    <3> QED
      BY <3>1, <3>4, <3>7, <3>8, <3>10, <3>11
  <2> QED
    BY <2>1, <2>2
<1> HIDE DEF vt, T
<1>13. s \in Seq(Bytes) /\ Len(s) = 4 /\ s = Scalar(vt - loc, 4)
  <2>1. vt - loc \in Int
    BY <1>2, <1>10
  <2> QED
    BY <2>1, ScalarBytes DEF uoffset
<1> HIDE DEF s, kept
<1>14. /\ v.data \in Seq(Bytes) /\ Len(v.data) = Len(kept.data) /\ kept.data \in Seq(Bytes)
       /\ Has(v.data, loc - 3 .. loc, loc, s)
       /\ \A S : (\A o \in S : o \notin loc - 3 .. loc) => Agree(kept.data, v.data, S)
       /\ v.scratch = kept.scratch /\ v \in SoundVectors
  <2>1. Len(s) <= loc /\ loc <= size(kept) /\ loc - Len(s) + 1 = loc - 3
    BY <1>2, <1>12, <1>13
  <2>2. /\ v.data \in Seq(Bytes) /\ Len(v.data) = Len(kept.data) /\ kept.data \in Seq(Bytes)
        /\ Has(v.data, loc - Len(s) + 1 .. loc, loc, s)
        /\ \A S : (\A o \in S : o \notin loc - Len(s) + 1 .. loc) => Agree(kept.data, v.data, S)
    BY <1>2, <1>12, <1>13, <2>1, Overwritten
  <2>3. v.scratch = kept.scratch /\ v \in SoundVectors
    BY <1>12, <1>13, Written
  <2> QED
    BY <2>1, <2>2, <2>3
<1> HIDE DEF v
<1>15. /\ c.buf_ = v /\ c.num_field_loc = 0 /\ c.max_voffset_ = 0 /\ c.result = loc
  BY <1>6, <1>8 DEF Builders
<1>16. c \in GoodBuilders
  BY <1>1, TableEnded DEF Ends
<1> HIDE DEF c
<1>17. GetSize(c) = size(kept) /\ First(c) = Len(kept.scratch)
  BY <1>12, <1>14, <1>15 DEF GetSize, size, First
<1>18. Agree(b.buf_.data, v.data, 1 .. GetSize(b))
  <2>1. Agree(b.buf_.data, p.buf_.data, 1 .. GetSize(b))
    BY <1>2, <1>8, KeptAgrees DEF Writes
  <2>2. Agree(p.buf_.data, kept.data, 1 .. GetSize(b))
    <3>1. 1 .. GetSize(b) \subseteq 1 .. loc
      BY <1>2
    <3> QED
      BY <1>12, <3>1, AgreeWithin
  <2>3. Agree(kept.data, v.data, 1 .. GetSize(b))
    <3>1. \A o \in 1 .. GetSize(b) : o \notin loc - 3 .. loc
      BY <1>2
    <3> QED
      BY <1>14, <3>1
  <2> QED
    BY <1>8, <1>14, <2>1, <2>2, <2>3, AgreeOn
<1>19. VTableLaid(v.data, T, vt, entries)
  <2>1. \A o \in T : o \notin loc - 3 .. loc
    <3>1. \A o \in R : o \in 1 .. GetSize(b)
      OBVIOUS
    <3> HIDE DEF R
    <3> QED
      BY <1>2, <1>12, <3>1 DEF T
  <2>2. Agree(kept.data, v.data, T)
    BY <1>14, <2>1
  <2> QED
    BY <1>12, <1>14, <2>2, VTableOn
<1>20. T = R \cup (loc + 1 .. GetSize(c))
  BY <1>17 DEF T
<1>21. /\ vt \in Nat
       /\ Has(c.buf_.data, loc - 3 .. loc, loc, Scalar(vt - loc, 4))
       /\ VTableLaid(c.buf_.data, R \cup (loc + 1 .. GetSize(c)), vt, entries)
       /\ \A j \in 1 .. First(c) :
            \/ j <= First(b) /\ c.buf_.scratch[j] = b.buf_.scratch[j]
            \/ c.buf_.scratch[j] = vt
  BY <1>10, <1>12, <1>13, <1>14, <1>15, <1>17, <1>19, <1>20
<1> HIDE DEF R
<1>22. /\ c \in GoodBuilders /\ GetSize(c) >= loc /\ c.result = loc /\ GetSize(c) \in Nat
       /\ c.max_voffset_ = 0 /\ Agree(b.buf_.data, c.buf_.data, 1 .. GetSize(b))
  BY <1>12, <1>15, <1>16, <1>17, <1>18
<1>23. EndsTable(b, c, R, loc, entries)
  BY <1>21, <1>22 DEF EndsTable
<1> QED
  BY <1>1, <1>23 DEF R

\* A field uses its own place, behind the others that were written for the table.
LEMMA FieldPlace ==
  ASSUME NEW d \in Seq(Bytes), NEW V, NEW f, SchemaField(f), NEW t, NEW loc, NEW arg,
         FieldLaid(d, Own(V, t), Own(V, 0), f, loc, arg)
  PROVE  loc \in DOMAIN V /\ loc \in Nat
<1>1. \A S, bytes : Has(d, S, loc, bytes) /\ Len(bytes) \in Nat \ {0} => loc \in S /\ loc \in Nat
  BY DEF Has
<1>2. CASE f.kind = "scalar"
  <2>1. Len(arg) \in Nat \ {0} /\ Has(d, Own(V, t), loc, arg)
    BY <1>2 DEF FieldLaid, SchemaField
  <2> QED
    BY <1>1, <2>1 DEF Own
<1>3. CASE f.kind # "scalar"
  <2>1. arg \in Nat /\ loc \in Nat /\ Has(d, Own(V, 0), loc, Scalar(loc - arg, 4))
    BY <1>3 DEF FieldLaid, ReferenceLaid, Has
  <2>2. Len(Scalar(loc - arg, 4)) = 4
    <3>1. loc - arg \in Int
      BY <2>1
    <3> QED
      BY <3>1, ScalarBytes
  <2> DEFINE s == Scalar(loc - arg, 4)
  <2>3. Has(d, Own(V, 0), loc, s) /\ Len(s) \in Nat \ {0}
    BY <2>1, <2>2
  <2> HIDE DEF s
  <2> QED
    BY <1>1, <2>3 DEF Own
<1> QED
  BY <1>2, <1>3

\* The tags of a buffer with a table from start on, at loc: those there were, and the
\* numbers of its scalars.
Tagged(W, V, start, loc, m) ==
  [o \in 1 .. m |-> IF o <= start THEN W[o]
                    ELSE IF o \in DOMAIN V /\ V[o] # 0 THEN <<loc, V[o]>> ELSE Fixed]

\* Bytes keep their tags, and the scalars of the new table have its tags.
LEMMA TaggedOwns ==
  ASSUME NEW start \in Nat, NEW n \in Nat, NEW m \in Nat, NEW loc \in Nat,
         start <= n, n + 4 <= loc, loc <= m,
         NEW W \in [1 .. start -> Tags], NEW V \in [start + 1 .. n -> Nat]
  PROVE  LET X == Tagged(W, V, start, loc, m)
         IN  /\ X \in [1 .. m -> Tags] /\ \A o \in 1 .. start : X[o] = W[o]
             /\ \A t : Own(W, t) \subseteq Own(X, t)
             /\ Own(V, 0) \subseteq Own(X, Fixed)
             /\ \A i \in Nat \ {0} : Own(V, i) \subseteq Own(X, <<loc, i>>)
             /\ loc - 3 .. m \subseteq Own(X, Fixed)
<1> DEFINE X == Tagged(W, V, start, loc, m)
<1>1. DOMAIN X = 1 .. m /\ DOMAIN V = start + 1 .. n /\ DOMAIN W = 1 .. start
  BY DEF Tagged
<1>2. \A o \in 1 .. m : X[o] = IF o <= start THEN W[o]
                               ELSE IF o \in DOMAIN V /\ V[o] # 0 THEN <<loc, V[o]>> ELSE Fixed
  BY DEF Tagged
<1>3. X = [o \in 1 .. m |-> X[o]]
  BY DEF Tagged
<1> HIDE DEF X
<1>4. \A o \in 1 .. start : o \in 1 .. m /\ o <= start /\ X[o] = W[o]
  <2>1. \A o \in 1 .. start : o \in 1 .. m /\ o <= start
    OBVIOUS
  <2> QED
    BY <1>2, <2>1
<1>5. \A o \in start + 1 .. n : o \in 1 .. m /\ ~(o <= start) /\ V[o] \in Nat
  OBVIOUS
<1>6. \A o \in start + 1 .. n : X[o] = IF V[o] # 0 THEN <<loc, V[o]>> ELSE Fixed
  BY <1>1, <1>2, <1>5
<1>7. \A o \in n + 1 .. m : o \in 1 .. m /\ ~(o <= start) /\ o \notin start + 1 .. n
  OBVIOUS
<1>8. \A o \in n + 1 .. m : X[o] = Fixed
  BY <1>1, <1>2, <1>7
<1>9. X \in [1 .. m -> Tags]
  <2>1. \A o \in 1 .. m : o \in 1 .. start \/ o \in start + 1 .. n \/ o \in n + 1 .. m
    OBVIOUS
  <2>2. Fixed \in Tags /\ \A i \in Nat : <<loc, i>> \in Tags
    BY DEF Fixed, Tags
  <2>3. \A o \in 1 .. m : X[o] \in Tags
    BY <1>4, <1>5, <1>6, <1>8, <2>1, <2>2
  <2> QED
    BY <1>3, <2>3
<1>10. \A t : Own(W, t) \subseteq Own(X, t)
  BY <1>1, <1>4 DEF Own
<1>11. Own(V, 0) \subseteq Own(X, Fixed)
  BY <1>1, <1>5, <1>6 DEF Own
<1>12. \A i \in Nat \ {0} : Own(V, i) \subseteq Own(X, <<loc, i>>)
  BY <1>1, <1>5, <1>6 DEF Own
<1>13. loc - 3 .. m \subseteq Own(X, Fixed)
  <2>1. loc - 3 .. m \subseteq n + 1 .. m
    OBVIOUS
  <2> QED
    BY <1>1, <1>7, <1>8, <2>1 DEF Own
<1> QED
  BY <1>4, <1>9, <1>10, <1>11, <1>12, <1>13 DEF X

\* What was said of the vtables holds of more data and more tags.
LEMMA VTablesOn ==
  ASSUME NEW b \in GoodBuilders, NEW c \in GoodBuilders, NEW W, NEW X, VTables(b, W),
         Own(W, Fixed) \subseteq Own(X, Fixed),
         Agree(b.buf_.data, c.buf_.data, Own(W, Fixed)),
         \A j \in 1 .. First(c) :
           \/ j <= First(b) /\ c.buf_.scratch[j] = b.buf_.scratch[j]
           \/ \E entries : VTableLaid(c.buf_.data, Own(X, Fixed), c.buf_.scratch[j], entries)
  PROVE  VTables(c, X)
<1> SUFFICES ASSUME NEW j \in 1 .. First(c)
             PROVE  \E entries :
                      VTableLaid(c.buf_.data, Own(X, Fixed), c.buf_.scratch[j], entries)
  BY DEF VTables
<1>1. SUFFICES ASSUME j <= First(b), c.buf_.scratch[j] = b.buf_.scratch[j]
               PROVE  \E entries :
                        VTableLaid(c.buf_.data, Own(X, Fixed), c.buf_.scratch[j], entries)
  OBVIOUS
<1>2. First(b) \in Nat /\ First(c) \in Nat
  BY PairParts
<1>3. j \in 1 .. First(b)
  BY <1>1, <1>2
<1>4. PICK entries : VTableLaid(b.buf_.data, Own(W, Fixed), b.buf_.scratch[j], entries)
  BY <1>3 DEF VTables
<1>5. b.buf_.data \in Seq(Bytes) /\ c.buf_.data \in Seq(Bytes)
  BY BuilderParts
<1>6. VTableLaid(c.buf_.data, Own(X, Fixed), b.buf_.scratch[j], entries)
  BY <1>4, <1>5, VTableOn
<1> QED
  BY <1>1, <1>6

\* The fields that are not done are not stored.
LeftOut(type, args, done) ==
  \A i \in 1 .. Len(FieldsOf(type)) :
    i \notin done => NotStored(FieldsOf(type)[i], args[FieldsOf(type)[i].name])

\* c has a table at its result, and tags that go on from W.
HoldsTable(W, start, c, type, args) ==
  \E X \in [1 .. GetSize(c) -> Tags] :
    /\ \A o \in 1 .. start : X[o] = W[o]
    /\ TableLaid(c.buf_.data, X, c.result, type, args)
    /\ VTables(c, X)

\* The table that ends: its bytes get their tags, and it is where EndTable says.
LEMMA TableIsLaid ==
  ASSUME NEW b, NEW V, NEW start, NEW type \in DOMAIN Tables, NEW args, NEW done,
         InTable(b, V, start, type, args, done), LeftOut(type, args, done),
         NEW W \in [1 .. start -> Tags], VTables(b, W)
  PROVE  LET c == EndTable(b, start)
         IN  /\ c \in GoodBuilders /\ c.max_voffset_ = 0
             /\ c.result \in GetSize(b) + 1 .. GetSize(c)
             /\ HoldsTable(W, start, c, type, args)
<1> DEFINE fields == FieldsOf(type)
           n == Len(fields)
           z == Scalar(0, uoffset)
           p == PushElement(b, z)
           loc == GetSize(p)
           m == GetSize(b)
           pad == PaddingBytes(m, Len(z))
           card == Cardinality(done)
<1>1. /\ b \in GoodBuilders /\ start \in Nat /\ start <= m /\ V \in [start + 1 .. m -> Nat]
      /\ done \subseteq 1 .. n /\ m - start <= 15 * card
      /\ b.max_voffset_ \in {0} \cup {FieldIndexToOffset(i - 1) : i \in 1 .. n}
  BY DEF InTable
<1>2. n \in 1 .. 11 /\ \A i \in 1 .. n : FieldIndexToOffset(i - 1) = 2 * (i + 1)
  BY FieldNumbers
<1>3. m \in Nat /\ b.buf_.data \in Seq(Bytes)
  BY <1>1, BuilderParts
<1>4. card \in Nat /\ card <= 11
  <2>1. IsFiniteSet(1 .. n) /\ Cardinality(1 .. n) = n
    <3> HIDE DEF n
    <3>1. n \in Int /\ 1 <= n
      BY <1>2
    <3>2. IsFiniteSet(1 .. n) /\ Cardinality(1 .. n) = IF 1 > n THEN 0 ELSE n - 1 + 1
      BY <3>1, FS_Interval
    <3> QED
      BY <3>1, <3>2
  <2>2. card <= n /\ card \in Nat
    BY <1>1, <2>1, FS_Subset, FS_CardinalityType
  <2> HIDE DEF card, n, fields
  <2> QED
    BY <1>2, <2>2
<1>5. z \in Seq(Bytes) /\ Len(z) = 4
  <2>1. uoffset = 4 /\ uoffset \in Nat /\ 0 \in Int
    BY DEF uoffset
  <2> QED
    BY <2>1, ScalarBytes
<1>6. pad \in 0 .. 3
  <2>1. 4 \in {1, 2, 4, 8}
    OBVIOUS
  <2> HIDE DEF z, m
  <2>2. PaddingBytes(m, 4) \in 0 .. 3
    BY <1>3, <2>1, PaddingBelow
  <2> QED
    BY <1>5, <2>2
<1>7. loc = m + pad + Len(z) /\ p \in GoodBuilders
  <2>1. Len(z) \in 1 .. 16
    BY <1>5
  <2> HIDE DEF z
  <2> QED
    BY <1>1, <1>5, <2>1, ElementLaid
<1>8. loc = m + pad + 4
  BY <1>5, <1>7
<1>9. SUFFICES ASSUME NEW q, q = p, NEW where, where = loc
               PROVE  LET c == EndTable(b, start)
                      IN  /\ c \in GoodBuilders /\ c.max_voffset_ = 0
                          /\ c.result \in m + 1 .. GetSize(c)
                          /\ HoldsTable(W, start, c, type, args)
  OBVIOUS
<1>10. q = PushElement(b, Scalar(0, uoffset)) /\ where = GetSize(q) /\ where = m + pad + 4
  BY <1>8, <1>9
<1> HIDE DEF p, loc, z, m, pad, card, n, fields
<1>11. where \in Nat /\ start < where /\ where <= start + 172 /\ m + 4 <= where
  BY <1>1, <1>3, <1>4, <1>6, <1>10
<1>12. \A k \in Pairs(b) :
         /\ Id(b, k) <= b.max_voffset_
         /\ \E i \in done :
              /\ Id(b, k) = FieldIndexToOffset(i - 1)
              /\ FieldLaid(b.buf_.data, Own(V, i), Own(V, 0), fields[i], Loc(b, k),
                           args[fields[i].name])
  BY DEF InTable, fields
<1>13. \A k \in Pairs(b) :
         Id(b, k) <= b.max_voffset_ /\ Loc(b, k) \in start + 1 .. where - 1
  <2> SUFFICES ASSUME NEW k \in Pairs(b) PROVE Loc(b, k) \in start + 1 .. where - 1
    BY <1>12
  <2>1. PICK i \in done : FieldLaid(b.buf_.data, Own(V, i), Own(V, 0), fields[i], Loc(b, k),
                                    args[fields[i].name])
    BY <1>12
  <2>2. SchemaField(fields[i])
    BY <1>1, SchemaFields DEF fields, n
  <2>3. Loc(b, k) \in DOMAIN V /\ Loc(b, k) \in Nat
    BY <1>3, <2>1, <2>2, FieldPlace
  <2>4. Loc(b, k) \in start + 1 .. m
    BY <1>1, <2>3
  <2> QED
    BY <1>1, <1>3, <1>11, <2>4
<1>14. b.max_voffset_ \in {0} \cup {2 * (i + 1) : i \in 1 .. n}
  BY <1>1, <1>2
<1>15. PICK entries :
         /\ Entries(entries)
         /\ VTable(b, start, where) = Words(entries)
         /\ \A i \in 1 .. n :
              IF EntryOf(entries, i) = 0
              THEN \A k \in Pairs(b) : Id(b, k) # 2 * (i + 1)
              ELSE \E k \in Pairs(b) : /\ Id(b, k) = 2 * (i + 1)
                                       /\ EntryOf(entries, i) = where - Loc(b, k)
  BY <1>1, <1>2, <1>11, <1>13, <1>14, EntriesOfTable
<1> DEFINE c == EndTable(b, start)
           d == c.buf_.data
<1>16. Own(W, Fixed) \subseteq 1 .. GetSize(b)
  BY <1>1, <1>3 DEF Own, m
<1>17. /\ c \in GoodBuilders /\ GetSize(c) >= where /\ c.result = where /\ GetSize(c) \in Nat
       /\ c.max_voffset_ = 0
       /\ Agree(b.buf_.data, d, 1 .. GetSize(b))
       /\ \E vt \in Nat :
            /\ Has(d, where - 3 .. where, where, Scalar(vt - where, 4))
            /\ VTableLaid(d, Own(W, Fixed) \cup (where + 1 .. GetSize(c)), vt, entries)
            /\ \A j \in 1 .. First(c) :
                 \/ j <= First(b) /\ c.buf_.scratch[j] = b.buf_.scratch[j]
                 \/ c.buf_.scratch[j] = vt
  <2>1. /\ b \in GoodBuilders /\ start \in Nat /\ VTables(b, W) /\ Entries(entries)
        /\ q = PushElement(b, Scalar(0, uoffset)) /\ where = GetSize(q)
        /\ VTable(b, start, where) = Words(entries) /\ Own(W, Fixed) \subseteq 1 .. GetSize(b)
    BY <1>1, <1>10, <1>15, <1>16
  <2>2. EndsTable(b, EndTable(b, start), Own(W, Fixed), where, entries)
    BY <2>1, TableWritten
  <2> QED
    BY <2>2 DEF EndsTable
<1> HIDE DEF c
<1>18. PICK vt \in Nat :
         /\ Has(d, where - 3 .. where, where, Scalar(vt - where, 4))
         /\ VTableLaid(d, Own(W, Fixed) \cup (where + 1 .. GetSize(c)), vt, entries)
         /\ \A j \in 1 .. First(c) :
              \/ j <= First(b) /\ c.buf_.scratch[j] = b.buf_.scratch[j]
              \/ c.buf_.scratch[j] = vt
  BY <1>17
<1> DEFINE X == Tagged(W, V, start, where, GetSize(c))
<1>19. /\ X \in [1 .. GetSize(c) -> Tags] /\ \A o \in 1 .. start : X[o] = W[o]
       /\ \A t : Own(W, t) \subseteq Own(X, t)
       /\ Own(V, 0) \subseteq Own(X, Fixed)
       /\ \A i \in Nat \ {0} : Own(V, i) \subseteq Own(X, <<where, i>>)
       /\ where - 3 .. GetSize(c) \subseteq Own(X, Fixed)
  <2>1. /\ start \in Nat /\ m \in Nat /\ GetSize(c) \in Nat /\ where \in Nat
        /\ start <= m /\ m + 4 <= where /\ where <= GetSize(c)
        /\ V \in [start + 1 .. m -> Nat]
    BY <1>1, <1>3, <1>11, <1>17
  <2> QED
    BY <2>1, TaggedOwns
<1> HIDE DEF X, d
<1>20. d \in Seq(Bytes) /\ Agree(d, d, Own(W, Fixed) \cup (where + 1 .. GetSize(c)))
       /\ \A S : Agree(d, d, S)
  BY <1>17, BuilderParts, KeptSame, KeptAgrees DEF d
<1>21. /\ where - 3 .. where \subseteq Own(X, Fixed)
       /\ Own(W, Fixed) \cup (where + 1 .. GetSize(c)) \subseteq Own(X, Fixed)
  <2>1. /\ where - 3 .. where \subseteq where - 3 .. GetSize(c)
        /\ where + 1 .. GetSize(c) \subseteq where - 3 .. GetSize(c)
    BY <1>11, <1>17
  <2> QED
    BY <1>19, <2>1
<1>22. VTableLaid(d, Own(X, Fixed), vt, entries)
  BY <1>18, <1>20, <1>21, VTableOn
<1>23. Has(d, Own(X, Fixed), where, Scalar(vt - where, 4))
  BY <1>18, <1>20, <1>21, HasOn
<1>24. VTables(c, X)
  <2>1. Agree(b.buf_.data, d, Own(W, Fixed))
    BY <1>16, <1>17, AgreeWithin DEF d
  <2>2. \A j \in 1 .. First(c) :
          \/ j <= First(b) /\ c.buf_.scratch[j] = b.buf_.scratch[j]
          \/ \E e : VTableLaid(c.buf_.data, Own(X, Fixed), c.buf_.scratch[j], e)
    BY <1>18, <1>22 DEF d
  <2>3. Agree(b.buf_.data, c.buf_.data, Own(W, Fixed)) /\ Own(W, Fixed) \subseteq Own(X, Fixed)
    BY <1>19, <2>1 DEF d
  <2> QED
    BY <1>1, <1>17, <2>2, <2>3, VTablesOn
<1>25. ASSUME NEW i \in 1 .. n
       PROVE  LET f == fields[i]
                  entry == EntryOf(entries, i)
              IN  IF entry = 0 THEN NotStored(f, args[f.name])
                  ELSE FieldLaid(d, Own(X, <<where, i>>), Own(X, Fixed), f, where - entry,
                                 args[f.name])
  <2>1. CASE EntryOf(entries, i) = 0
    <3>1. \A k \in Pairs(b) : Id(b, k) # FieldIndexToOffset(i - 1)
      BY <1>2, <1>15, <2>1
    <3>2. i \in done => \/ NotStored(fields[i], args[fields[i].name])
                        \/ \E k \in Pairs(b) : Id(b, k) = FieldIndexToOffset(i - 1)
      BY DEF InTable, fields
    <3>3. i \notin done => NotStored(fields[i], args[fields[i].name])
      BY DEF fields, n, LeftOut
    <3> QED
      BY <2>1, <3>1, <3>2, <3>3
  <2>2. CASE EntryOf(entries, i) # 0
    <3>1. PICK k \in Pairs(b) : /\ Id(b, k) = 2 * (i + 1)
                                /\ EntryOf(entries, i) = where - Loc(b, k)
      BY <1>15, <2>2
    <3>2. PICK j \in done :
            /\ Id(b, k) = FieldIndexToOffset(j - 1)
            /\ FieldLaid(b.buf_.data, Own(V, j), Own(V, 0), fields[j], Loc(b, k),
                         args[fields[j].name])
      BY <1>12
    <3>3. j = i
      <4>1. j \in 1 .. n /\ 2 * (j + 1) = 2 * (i + 1)
        BY <1>1, <1>2, <3>1, <3>2
      <4> QED
        BY <1>2, <4>1
    <3>4. Loc(b, k) \in Nat
      BY <1>1, PairParts
    <3>5. where - EntryOf(entries, i) = Loc(b, k)
      BY <1>11, <3>1, <3>4
    <3>6. /\ Agree(b.buf_.data, d, Own(V, i)) /\ Agree(b.buf_.data, d, Own(V, 0))
      <4>1. Own(V, i) \subseteq 1 .. GetSize(b) /\ Own(V, 0) \subseteq 1 .. GetSize(b)
        BY <1>1, <1>3 DEF Own, m
      <4> QED
        BY <1>17, <4>1, AgreeWithin DEF d
    <3>7. FieldLaid(d, Own(X, <<where, i>>), Own(X, Fixed), fields[i], Loc(b, k),
                    args[fields[i].name])
      <4>1. i \in Nat \ {0}
        BY <1>2
      <4>2. Own(V, i) \subseteq Own(X, <<where, i>>) /\ Own(V, 0) \subseteq Own(X, Fixed)
        BY <1>19, <4>1
      <4> QED
        BY <1>3, <1>20, <3>2, <3>3, <3>6, <4>2, FieldOn
    <3> QED
      BY <2>2, <3>5, <3>7
  <2> QED
    BY <2>1, <2>2
<1>26. TableLaid(d, X, where, type, args)
  <2>1. entries \in Seq(Nat)
    BY <1>15 DEF Entries
  <2> QED
    BY <1>22, <1>23, <1>25, <2>1 DEF TableLaid, fields, n
<1>27. c.result \in m + 1 .. GetSize(c)
  BY <1>3, <1>11, <1>17
<1>28. HoldsTable(W, start, c, type, args)
  BY <1>11, <1>17, <1>19, <1>24, <1>26 DEF HoldsTable, d
<1> QED
  BY <1>17, <1>27, <1>28 DEF c

----------------------------------------------------------------------------
(* Reading what is there.                                                  *)

\* A number that is there is read.
LEMMA NumberRead ==
  ASSUME NEW d \in Seq(Bytes), Len(d) <= MaxBufferSize, NEW S, NEW off, NEW n \in Nat,
         n <= Len(d), Has(d, S, off, Scalar(n, 4))
  PROVE  /\ ReadScalar(d, Len(d) - off, 4) = n /\ off \in Nat /\ off <= Len(d)
         /\ Len(d) - off \in Nat
<1>1. Len(d) \in Nat /\ n \in Int /\ 4 \in Nat
  OBVIOUS
<1>2. n \in 0 .. (Places[5] - 1)
  BY <1>1, BufferLimit
<1>3. Len(Scalar(n, 4)) = 4
  BY <1>1, ScalarBytes
<1>4. ReadBytes(d, Len(d) - off, 4) = Scalar(n, 4)
  BY <1>3, HasRead
<1>5. ReadScalar(d, Len(d) - off, 4) = n
  BY <1>2, <1>4, ValueOfFour DEF ReadScalar
<1>6. off \in Nat /\ off <= Len(d)
  BY HasParts
<1> QED
  BY <1>1, <1>5, <1>6

\* A string that is there is read.
LEMMA StringIsRead ==
  ASSUME NEW d \in Seq(Bytes), Len(d) <= MaxBufferSize, NEW S, NEW off, NEW s,
         StringLaid(d, S, off, s)
  PROVE  GetString(d, Len(d) - off) = s /\ off \in Nat /\ off <= Len(d)
<1>1. Has(d, S, off, Scalar(Len(s), 4)) /\ Has(d, S, off - 4, s)
  BY DEF StringLaid
<1>2. Len(s) \in Nat /\ Len(s) <= off - 4 /\ off - 4 <= Len(d) /\ Len(d) \in Nat /\ s \in Seq(Bytes)
  BY <1>1, HasParts
<1>3. off \in Nat /\ off <= Len(d)
  BY <1>1, HasParts
<1>4. Len(s) <= Len(d)
  BY <1>2, <1>3
<1>5. VectorSize(d, Len(d) - off) = Len(s)
  BY <1>1, <1>2, <1>4, NumberRead DEF VectorSize, uoffset
<1>6. ReadBytes(d, Len(d) - (off - 4), Len(s)) = s
  BY <1>1, HasRead
<1>7. Len(d) - off + uoffset = Len(d) - (off - 4)
  BY <1>2, <1>3 DEF uoffset
<1> QED
  BY <1>3, <1>5, <1>6, <1>7 DEF GetString

\* A reference that is there leads to its target.
LEMMA ReferenceIsRead ==
  ASSUME NEW d \in Seq(Bytes), Len(d) <= MaxBufferSize, NEW S, NEW off, NEW target,
         ReferenceLaid(d, S, off, target)
  PROVE  /\ Deref(d, Len(d) - off) = Len(d) - target /\ target \in Nat /\ target <= Len(d)
         /\ off \in Nat /\ off <= Len(d)
<1>1. target \in Nat /\ target <= off /\ Has(d, S, off, Scalar(off - target, 4))
  BY DEF ReferenceLaid
<1>2. off \in Nat /\ off <= Len(d) /\ Len(d) \in Nat
  BY <1>1 DEF Has
<1>3. off - target \in Nat /\ off - target <= Len(d)
  BY <1>1, <1>2
<1>4. ReadScalar(d, Len(d) - off, 4) = off - target
  BY <1>1, <1>3, NumberRead
<1>5. Deref(d, Len(d) - off) = Len(d) - off + (off - target)
  BY <1>4 DEF Deref, uoffset
<1> QED
  BY <1>1, <1>2, <1>5

\* The elements of a vector of references are found where they are.
LEMMA ReferencesAreRead ==
  ASSUME NEW d \in Seq(Bytes), Len(d) <= MaxBufferSize, NEW S, NEW off, NEW offs,
         ReferencesLaid(d, S, off, offs)
  PROVE  /\ off \in Nat /\ off <= Len(d) /\ offs \in Seq(Nat)
         /\ VectorSize(d, Len(d) - off) = Len(offs)
         /\ References(d, Len(d) - off) = [i \in 1 .. Len(offs) |-> Len(d) - offs[i]]
         /\ \A i \in 1 .. Len(offs) : offs[i] \in Nat /\ offs[i] <= Len(d)
<1> DEFINE n == Len(offs)
<1>1. /\ offs \in Seq(Nat) /\ Has(d, S, off, Scalar(n, 4))
      /\ \A i \in 1 .. n : ReferenceLaid(d, S, off - 4 * i, offs[i])
  BY DEF ReferencesLaid
<1>2. n \in Nat /\ Len(d) \in Nat
  BY <1>1
<1> HIDE DEF n
<1>3. off \in Nat /\ off <= Len(d)
  BY <1>1 DEF Has
<1>4. ASSUME NEW i \in 1 .. n
      PROVE  /\ Deref(d, Len(d) - (off - 4 * i)) = Len(d) - offs[i]
             /\ offs[i] \in Nat /\ offs[i] <= Len(d) /\ off - 4 * i \in Nat
  BY <1>1, ReferenceIsRead
<1>5. n <= Len(d)
  <2>1. CASE n = 0
    BY <1>2, <2>1
  <2>2. CASE n # 0
    <3>1. n \in 1 .. n
      BY <1>2, <2>2
    <3>2. off - 4 * n \in Nat
      BY <1>4, <3>1
    <3> QED
      BY <1>2, <1>3, <3>2
  <2> QED
    BY <2>1, <2>2
<1>6. VectorSize(d, Len(d) - off) = n
  BY <1>1, <1>2, <1>5, NumberRead DEF VectorSize, uoffset
<1>7. ASSUME NEW i \in 1 .. n
      PROVE  GetReference(d, Len(d) - off, i - 1) = Len(d) - offs[i]
  <2>1. ElementAt(Len(d) - off, i - 1, uoffset) = Len(d) - (off - 4 * i)
    BY <1>2, <1>3 DEF ElementAt, uoffset
  <2> QED
    BY <1>4, <2>1 DEF GetReference
<1>8. References(d, Len(d) - off) = [i \in 1 .. n |-> GetReference(d, Len(d) - off, i - 1)]
  BY <1>6 DEF References
<1>9. References(d, Len(d) - off) = [i \in 1 .. n |-> Len(d) - offs[i]]
  BY <1>7, <1>8
<1> QED
  BY <1>1, <1>3, <1>4, <1>6, <1>9 DEF n

\* The words of a vtable are read one by one.
LEMMA EntryIsRead ==
  ASSUME NEW d \in Seq(Bytes), NEW S, NEW vt, NEW entries, VTableLaid(d, S, vt, entries),
         NEW k \in 1 .. Len(entries)
  PROVE  ReadScalar(d, Len(d) - vt + 2 * (k - 1), 2) = entries[k]
<1> DEFINE elems == [j \in 1 .. Len(entries) |-> Scalar(entries[j], 2)]
<1>1. /\ entries \in Seq(Nat) /\ Has(d, S, vt, Joined(elems, 2))
      /\ \A j \in 1 .. Len(entries) : entries[j] < Base * Base
  BY DEF VTableLaid, Entries, Words
<1>2. Len(entries) \in Nat /\ \A j \in 1 .. Len(entries) : entries[j] \in Nat
  BY <1>1
<1>3. \A j \in 1 .. Len(entries) : Scalar(entries[j], 2) \in Seq(Bytes)
                                   /\ Len(Scalar(entries[j], 2)) = 2
  <2>1. \A j \in 1 .. Len(entries) : entries[j] \in Int
    BY <1>2
  <2> QED
    BY <2>1, ScalarBytes
<1>4. /\ elems \in Seq(Seq(Bytes)) /\ Len(elems) = Len(entries)
      /\ \A j \in 1 .. Len(elems) : Len(elems[j]) = 2 /\ elems[j] = Scalar(entries[j], 2)
  BY <1>2, <1>3
<1> HIDE DEF elems
<1>5. Has(d, S, vt - (k - 1) * 2, elems[k])
  BY <1>1, <1>4, HasJoined
<1>6. elems[k] = Scalar(entries[k], 2) /\ Len(Scalar(entries[k], 2)) = 2
  BY <1>3, <1>4
<1>7. ReadBytes(d, Len(d) - (vt - (k - 1) * 2), 2) = Scalar(entries[k], 2)
  <2>1. Has(d, S, vt - (k - 1) * 2, Scalar(entries[k], 2))
    BY <1>5, <1>6
  <2> QED
    BY <1>6, <2>1, HasRead
<1>8. vt \in Nat /\ Len(d) \in Nat
  BY <1>1 DEF Has
<1>9. Len(d) - (vt - (k - 1) * 2) = Len(d) - vt + 2 * (k - 1)
  BY <1>2, <1>8
<1>10. entries[k] \in Nat /\ entries[k] < Base * Base
  BY <1>1, <1>2
<1> QED
  BY <1>7, <1>9, <1>10, ValueOfTwo DEF ReadScalar

\* The vtable of a table says where its fields are.
LEMMA FieldOffsetIsRead ==
  ASSUME NEW d \in Seq(Bytes), Len(d) <= MaxBufferSize, NEW S, NEW off, NEW vt \in Nat, NEW entries,
         Has(d, S, off, Scalar(vt - off, 4)), VTableLaid(d, S, vt, entries), NEW i \in Nat \ {0}
  PROVE  GetOptionalFieldOffset(d, Len(d) - off, 2 * (i + 1)) = EntryOf(entries, i)
<1>1. off \in Nat /\ off <= Len(d) /\ vt <= Len(d) /\ Len(d) \in Nat
  <2>1. Has(d, S, vt, Words(entries))
    BY DEF VTableLaid
  <2> QED
    BY <2>1 DEF Has
<1>2. vt - off \in Int /\ -MaxBufferSize <= vt - off /\ vt - off <= MaxBufferSize
  BY <1>1, BufferLimit
<1>3. ReadBytes(d, Len(d) - off, 4) = Scalar(vt - off, 4)
  <2>1. Len(Scalar(vt - off, 4)) = 4
    BY <1>2, ScalarBytes
  <2> QED
    BY <2>1, HasRead
<1>4. GetVTable(d, Len(d) - off) = Len(d) - vt
  <2>1. Signed(ReadBytes(d, Len(d) - off, 4)) = vt - off
    BY <1>2, <1>3, SignedOf
  <2>2. GetVTable(d, Len(d) - off) = Len(d) - off - (vt - off)
    BY <2>1 DEF GetVTable, uoffset
  <2> QED
    BY <1>1, <2>2
<1>5. entries \in Seq(Nat) /\ Len(entries) >= 2 /\ entries[1] = 2 * Len(entries)
  BY DEF VTableLaid, Entries
<1>6. ReadScalar(d, Len(d) - vt, 2) = 2 * Len(entries)
  <2>1. 1 \in 1 .. Len(entries)
    BY <1>5
  <2>2. ReadScalar(d, Len(d) - vt + 2 * (1 - 1), 2) = entries[1]
    BY <2>1, EntryIsRead
  <2>3. Len(d) - vt + 2 * (1 - 1) = Len(d) - vt
    BY <1>1
  <2> QED
    BY <1>5, <2>2, <2>3
<1>7. CASE i + 2 <= Len(entries)
  <2>1. i + 2 \in 1 .. Len(entries) /\ 2 * (i + 1) < 2 * Len(entries) /\ (i + 2) - 1 = i + 1
    BY <1>5, <1>7
  <2>2. ReadScalar(d, Len(d) - vt + 2 * (i + 1), 2) = entries[i + 2]
    BY <2>1, EntryIsRead
  <2> QED
    BY <1>4, <1>6, <1>7, <2>1, <2>2 DEF GetOptionalFieldOffset, EntryOf, voffset
<1>8. CASE ~(i + 2 <= Len(entries))
  <2>1. ~(2 * (i + 1) < 2 * Len(entries))
    BY <1>5, <1>8
  <2> QED
    BY <1>4, <1>6, <1>8, <2>1 DEF GetOptionalFieldOffset, EntryOf, voffset
<1> QED
  BY <1>7, <1>8

\* What an argument of a field means to the reader.
ArgumentMeans(d, S, f, arg, value) ==
  CASE f.kind = "string" -> \/ arg = 0 /\ value = <<>>
                            \/ /\ arg # 0
                               /\ \E s : value = <<s>> /\ StringLaid(d, S, arg, s)
    [] f.kind = "vector" -> \/ arg = 0 /\ value = <<>>
                            \/ /\ arg # 0
                               /\ \E offs : value = <<offs>> /\ ReferencesLaid(d, S, arg, offs)
    [] OTHER -> arg = value

\* A field of a table is read.
FieldRead(d, pos, f, field) ==
  LET target == GetPointer(d, pos, field)
  IN  CASE f.kind = "scalar" -> GetField(d, pos, field, f.width, Scalar(f.default, f.width))
        [] f.kind = "table" -> IF target = Null THEN 0 ELSE Len(d) - target
        [] f.kind = "string" -> IF target = Null THEN <<>> ELSE <<GetString(d, target)>>
        [] f.kind = "vector" ->
             IF target = Null THEN <<>>
             ELSE <<[i \in 1 .. VectorSize(d, target) |-> Len(d) - References(d, target)[i]]>>

\* A field that is stored is read.
LEMMA StoredIsRead ==
  ASSUME NEW d \in Seq(Bytes), Len(d) <= MaxBufferSize, NEW S, NEW R, NEW f, SchemaField(f),
         NEW off \in Nat, NEW field, NEW entry \in Nat \ {0}, NEW arg, NEW value,
         off <= Len(d), GetOptionalFieldOffset(d, Len(d) - off, field) = entry,
         FieldLaid(d, S, R, f, off - entry, arg), ArgumentMeans(d, R, f, arg, value)
  PROVE  FieldRead(d, Len(d) - off, f, field) = value
<1> DEFINE pos == Len(d) - off
           loc == off - entry
           target == GetPointer(d, pos, field)
<1>1. CheckField(d, pos, field) /\ pos + GetOptionalFieldOffset(d, pos, field) = Len(d) - loc
  BY DEF CheckField
<1>2. CASE f.kind = "scalar"
  <2>1. Len(arg) = f.width /\ Has(d, S, loc, arg) /\ arg = value
    BY <1>2 DEF FieldLaid, ArgumentMeans
  <2> HIDE DEF loc, pos
  <2>2. ReadBytes(d, Len(d) - loc, f.width) = arg
    BY <2>1, HasRead
  <2>3. GetField(d, pos, field, f.width, Scalar(f.default, f.width)) = arg
    BY <1>1, <2>2 DEF GetField
  <2> QED
    BY <1>2, <2>1, <2>3 DEF FieldRead, pos
<1>3. CASE f.kind # "scalar"
  <2>1. arg # 0 /\ ReferenceLaid(d, R, loc, arg)
    BY <1>3 DEF FieldLaid
  <2> HIDE DEF loc, pos
  <2>2. Deref(d, Len(d) - loc) = Len(d) - arg /\ arg \in Nat /\ arg <= Len(d)
    BY <2>1, ReferenceIsRead
  <2>3. target = Len(d) - arg
    BY <1>1, <2>2 DEF GetPointer
  <2>4. target # Null /\ Len(d) - target = arg /\ Len(d) \in Nat
    BY <2>2, <2>3 DEF Null
  <2> HIDE DEF target
  <2>5. CASE f.kind = "table"
    BY <1>3, <2>4, <2>5 DEF FieldRead, ArgumentMeans, pos, target
  <2>6. CASE f.kind = "string"
    <3>1. PICK s : value = <<s>> /\ StringLaid(d, R, arg, s)
      BY <2>1, <2>6 DEF ArgumentMeans
    <3>2. GetString(d, target) = s
      BY <2>3, <3>1, StringIsRead
    <3> QED
      BY <2>4, <2>6, <3>1, <3>2 DEF FieldRead, pos, target
  <2>7. CASE f.kind = "vector"
    <3>1. PICK offs : value = <<offs>> /\ ReferencesLaid(d, R, arg, offs)
      BY <2>1, <2>7 DEF ArgumentMeans
    <3>2. /\ VectorSize(d, target) = Len(offs) /\ offs \in Seq(Nat)
          /\ References(d, target) = [i \in 1 .. Len(offs) |-> Len(d) - offs[i]]
          /\ \A i \in 1 .. Len(offs) : offs[i] \in Nat /\ offs[i] <= Len(d)
      BY <2>3, <3>1, ReferencesAreRead
    <3>3. \A i \in 1 .. Len(offs) : Len(d) - References(d, target)[i] = offs[i]
      <4>1. \A i \in 1 .. Len(offs) : Len(d) - (Len(d) - offs[i]) = offs[i]
        BY <2>4, <3>2
      <4> QED
        BY <3>2, <4>1
    <3>4. [i \in 1 .. Len(offs) |-> Len(d) - References(d, target)[i]] = offs
      BY <3>2, <3>3
    <3> QED
      BY <2>4, <2>7, <3>1, <3>2, <3>4 DEF FieldRead, pos, target
  <2> QED
    BY <1>3, <2>5, <2>6, <2>7 DEF SchemaField
<1> QED
  BY <1>2, <1>3

\* A field that is not stored has its default.
LEMMA UnstoredIsRead ==
  ASSUME NEW d, NEW S, NEW f, SchemaField(f), NEW pos, NEW field, NEW arg, NEW value,
         GetOptionalFieldOffset(d, pos, field) = 0,
         NotStored(f, arg), ArgumentMeans(d, S, f, arg, value)
  PROVE  FieldRead(d, pos, f, field) = value
  BY DEF FieldRead, GetPointer, GetField, CheckField, NotStored, ArgumentMeans, SchemaField

----------------------------------------------------------------------------
(* Objects.                                                                *)

\* The elements of a vector: the number of them, and each with a tag of its own.
ElementsLaid(d, W, off, elems) ==
  /\ elems \in Seq(Seq(Bytes)) /\ Len(elems) <= off
  /\ Has(d, Own(W, Fixed), off, Scalar(Len(elems), 4))
  /\ \A i \in 1 .. Len(elems) :
       /\ Len(elems[i]) = Len(elems[1])
       /\ Has(d, Own(W, <<off, i>>), off - 4 - (i - 1) * Len(elems[1]), elems[i])

\* Strings, and the vector of them.
StringsLaid(d, S, off, strings) ==
  \E offs : /\ strings \in Seq(Seq(Bytes)) /\ Len(offs) = Len(strings)
            /\ ReferencesLaid(d, S, off, offs)
            /\ \A i \in 1 .. Len(strings) : StringLaid(d, S, offs[i], strings[i])

\* A table with the values of its fields.
TableMeans(d, W, off, type, value) ==
  LET fields == FieldsOf(type)
  IN  /\ type \in DOMAIN Tables
      /\ value = [n \in {fields[i].name : i \in DOMAIN fields} |-> value[n]]
      /\ \E args :
           /\ TableLaid(d, W, off, type, args)
           /\ \A i \in 1 .. Len(fields) :
                ArgumentMeans(d, Own(W, Fixed), fields[i], args[fields[i].name],
                              value[fields[i].name])

\* What the client remembers of an offset is there.
ObjectLaid(d, W, off, o) ==
  LET S == Own(W, Fixed)
  IN  CASE o.kind = "string" -> StringLaid(d, S, off, o.value)
        [] o.kind = "strings" -> StringsLaid(d, S, off, o.value)
        [] o.kind = "elements" -> ElementsLaid(d, W, off, o.value)
        [] o.kind = "struct" -> Has(d, S, off, o.value)
        [] o.kind = "sorted" ->
             \E offs : ReferencesLaid(d, S, off, offs) /\ ToSet(offs) = o.value
        [] o.kind = "table" -> TableMeans(d, W, off, o.of, o.value)

\* The tags of an object at an offset.
TagsOf(off) == {<<0, 0>>} \cup {<<off, i>> : i \in Nat}

\* An object stays when the bytes with its tags stay.
Stay(d, e, W, X, off) ==
  \A t \in TagsOf(off) : Own(W, t) \subseteq Own(X, t) /\ Agree(d, e, Own(W, t))

\* An argument means the same when the bytes it uses stay.
LEMMA ArgumentOn ==
  ASSUME NEW d \in Seq(Bytes), NEW e \in Seq(Bytes), NEW S, NEW T, Agree(d, e, S), S \subseteq T,
         NEW f, NEW arg, NEW value, ArgumentMeans(d, S, f, arg, value)
  PROVE  ArgumentMeans(e, T, f, arg, value)
<1>1. CASE f.kind = "string"
  BY <1>1, StringOn DEF ArgumentMeans
<1>2. CASE f.kind = "vector"
  BY <1>2, ReferencesOn DEF ArgumentMeans
<1>3. CASE f.kind \notin {"string", "vector"}
  BY <1>3 DEF ArgumentMeans
<1> QED
  BY <1>1, <1>2, <1>3

\* A table stays when the bytes with its tags stay.
LEMMA TableOn ==
  ASSUME NEW d \in Seq(Bytes), NEW e \in Seq(Bytes), NEW W, NEW X, NEW off, Stay(d, e, W, X, off),
         NEW type \in DOMAIN Tables, NEW args, TableLaid(d, W, off, type, args)
  PROVE  TableLaid(e, X, off, type, args)
<1> DEFINE fields == FieldsOf(type)
           n == Len(fields)
           S == Own(W, Fixed)
           T == Own(X, Fixed)
<1>1. /\ S \subseteq T /\ Agree(d, e, S)
      /\ \A i \in Nat : /\ Own(W, <<off, i>>) \subseteq Own(X, <<off, i>>)
                        /\ Agree(d, e, Own(W, <<off, i>>))
  BY DEF Stay, TagsOf, Fixed
<1>2. PICK vt \in Nat, entries \in Seq(Nat) :
        /\ Has(d, S, off, Scalar(vt - off, 4))
        /\ VTableLaid(d, S, vt, entries)
        /\ \A i \in 1 .. n :
             IF EntryOf(entries, i) = 0 THEN NotStored(fields[i], args[fields[i].name])
             ELSE FieldLaid(d, Own(W, <<off, i>>), S, fields[i], off - EntryOf(entries, i),
                            args[fields[i].name])
  BY DEF TableLaid
<1>3. n \in Nat
  BY SchemaFields
<1> HIDE DEF n, fields, S, T
<1>4. Has(e, T, off, Scalar(vt - off, 4)) /\ VTableLaid(e, T, vt, entries)
  BY <1>1, <1>2, HasOn, VTableOn
<1>5. ASSUME NEW i \in 1 .. n, EntryOf(entries, i) # 0
      PROVE  FieldLaid(e, Own(X, <<off, i>>), T, fields[i], off - EntryOf(entries, i),
                       args[fields[i].name])
  <2>1. i \in Nat
    BY <1>3
  <2>2. FieldLaid(d, Own(W, <<off, i>>), S, fields[i], off - EntryOf(entries, i),
                  args[fields[i].name])
    BY <1>2, <1>5
  <2> QED
    BY <1>1, <2>1, <2>2, FieldOn
<1>6. \A i \in 1 .. n :
        IF EntryOf(entries, i) = 0 THEN NotStored(fields[i], args[fields[i].name])
        ELSE FieldLaid(e, Own(X, <<off, i>>), T, fields[i], off - EntryOf(entries, i),
                       args[fields[i].name])
  BY <1>2, <1>5
<1> QED
  BY <1>4, <1>6 DEF TableLaid, n, fields, S, T

\* An object stays when the bytes with its tags stay.
LEMMA ObjectOn ==
  ASSUME NEW d \in Seq(Bytes), NEW e \in Seq(Bytes), NEW W, NEW X, NEW off, Stay(d, e, W, X, off),
         NEW o, ObjectLaid(d, W, off, o),
         o.kind \in {"string", "strings", "elements", "struct", "sorted", "table"}
  PROVE  ObjectLaid(e, X, off, o)
<1> DEFINE S == Own(W, Fixed)
           T == Own(X, Fixed)
<1>1. /\ S \subseteq T /\ Agree(d, e, S)
      /\ \A i \in Nat : /\ Own(W, <<off, i>>) \subseteq Own(X, <<off, i>>)
                        /\ Agree(d, e, Own(W, <<off, i>>))
  BY DEF Stay, TagsOf, Fixed
<1> HIDE DEF S, T
<1>2. CASE o.kind = "string"
  <2>1. StringLaid(d, S, off, o.value)
    BY <1>2 DEF ObjectLaid, S
  <2> QED
    BY <1>1, <1>2, <2>1, StringOn DEF ObjectLaid, T
<1>3. CASE o.kind = "strings"
  <2> DEFINE s == o.value
  <2>1. PICK offs : /\ s \in Seq(Seq(Bytes)) /\ Len(offs) = Len(s)
                    /\ ReferencesLaid(d, S, off, offs)
                    /\ \A i \in 1 .. Len(s) : StringLaid(d, S, offs[i], s[i])
    BY <1>3 DEF ObjectLaid, StringsLaid, S
  <2> HIDE DEF s
  <2>2. ReferencesLaid(e, T, off, offs)
    BY <1>1, <2>1, ReferencesOn
  <2>3. \A i \in 1 .. Len(s) : StringLaid(e, T, offs[i], s[i])
    BY <1>1, <2>1, StringOn
  <2>4. StringsLaid(e, T, off, s)
    BY <2>1, <2>2, <2>3 DEF StringsLaid
  <2> QED
    BY <1>3, <2>4 DEF ObjectLaid, s, T
<1>4. CASE o.kind = "elements"
  <2> DEFINE s == o.value
             At(i) == off - 4 - (i - 1) * Len(s[1])
  <2>1. /\ s \in Seq(Seq(Bytes)) /\ Len(s) <= off
        /\ Has(d, S, off, Scalar(Len(s), 4))
        /\ \A i \in 1 .. Len(s) : /\ Len(s[i]) = Len(s[1])
                                  /\ Has(d, Own(W, <<off, i>>), At(i), s[i])
    BY <1>4 DEF ObjectLaid, ElementsLaid, S
  <2>2. Len(s) \in Nat
    BY <2>1
  <2> HIDE DEF s, At
  <2>3. Has(e, T, off, Scalar(Len(s), 4))
    BY <1>1, <2>1, HasOn
  <2>4. ASSUME NEW i \in 1 .. Len(s) PROVE Has(e, Own(X, <<off, i>>), At(i), s[i])
    <3>1. i \in Nat /\ Has(d, Own(W, <<off, i>>), At(i), s[i])
      BY <2>1, <2>2
    <3> QED
      BY <1>1, <3>1, HasOn
  <2>5. ElementsLaid(e, X, off, s)
    BY <2>1, <2>3, <2>4 DEF ElementsLaid, T, At
  <2> QED
    BY <1>4, <2>5 DEF ObjectLaid, s
<1>5. CASE o.kind = "struct"
  <2>1. Has(d, S, off, o.value)
    BY <1>5 DEF ObjectLaid, S
  <2> QED
    BY <1>1, <1>5, <2>1, HasOn DEF ObjectLaid, T
<1>6. CASE o.kind = "sorted"
  <2>1. PICK offs : ReferencesLaid(d, S, off, offs) /\ ToSet(offs) = o.value
    BY <1>6 DEF ObjectLaid, S
  <2>2. ReferencesLaid(e, T, off, offs)
    BY <1>1, <2>1, ReferencesOn
  <2> QED
    BY <1>6, <2>1, <2>2 DEF ObjectLaid, T
<1>7. CASE o.kind = "table"
  <2> DEFINE fields == FieldsOf(o.of)
  <2>1. /\ o.of \in DOMAIN Tables
        /\ o.value = [n \in {fields[i].name : i \in DOMAIN fields} |-> o.value[n]]
        /\ \E args : /\ TableLaid(d, W, off, o.of, args)
                     /\ \A i \in 1 .. Len(fields) :
                          ArgumentMeans(d, S, fields[i], args[fields[i].name],
                                        o.value[fields[i].name])
    BY <1>7 DEF ObjectLaid, TableMeans, S
  <2>2. PICK args : /\ TableLaid(d, W, off, o.of, args)
                    /\ \A i \in 1 .. Len(fields) :
                         ArgumentMeans(d, S, fields[i], args[fields[i].name],
                                       o.value[fields[i].name])
    BY <2>1
  <2>3. TableLaid(e, X, off, o.of, args)
    BY <2>1, <2>2, TableOn
  <2> HIDE DEF fields
  <2>4. \A i \in 1 .. Len(fields) :
          ArgumentMeans(e, T, fields[i], args[fields[i].name], o.value[fields[i].name])
    BY <1>1, <2>2, ArgumentOn
  <2>5. TableMeans(e, X, off, o.of, o.value)
    BY <2>1, <2>3, <2>4 DEF TableMeans, fields, T
  <2> QED
    BY <1>7, <2>5 DEF ObjectLaid
<1> QED
  BY <1>2, <1>3, <1>4, <1>5, <1>6, <1>7

\* Elements are read as they are.
LEMMA ElementsAreRead ==
  ASSUME NEW d \in Seq(Bytes), Len(d) <= MaxBufferSize, NEW W, NEW off, NEW elems,
         ElementsLaid(d, W, off, elems)
  PROVE  /\ VectorSize(d, Len(d) - off) = Len(elems)
         /\ elems # <<>> => Elements(d, Len(d) - off, Len(elems[1])) = elems
<1> DEFINE n == Len(elems)
           w == Len(elems[1])
           pos == Len(d) - off
<1>1. /\ elems \in Seq(Seq(Bytes)) /\ n <= off /\ Has(d, Own(W, Fixed), off, Scalar(n, 4))
      /\ \A i \in 1 .. n : /\ Len(elems[i]) = w
                           /\ Has(d, Own(W, <<off, i>>), off - 4 - (i - 1) * w, elems[i])
  BY DEF ElementsLaid
<1>2. n \in Nat /\ Len(d) \in Nat
  BY <1>1
<1>3. off \in Nat /\ off <= Len(d)
  BY <1>1 DEF Has
<1> HIDE DEF n, w
<1>4. VectorSize(d, pos) = n
  <2>1. n <= Len(d)
    BY <1>1, <1>2, <1>3
  <2> QED
    BY <1>1, <1>2, <2>1, NumberRead DEF VectorSize, uoffset
<1>5. ASSUME elems # <<>> PROVE Elements(d, pos, w) = elems
  <2>1. w \in Nat
    <3>1. n > 0
      BY <1>1, <1>5 DEF n
    <3>2. elems[1] \in Seq(Bytes)
      BY <1>1, <3>1 DEF n
    <3> QED
      BY <3>2 DEF w
  <2>2. ASSUME NEW i \in 1 .. n PROVE GetElement(d, pos, i - 1, w) = elems[i]
    <3> DEFINE k == (i - 1) * w
    <3>1. k \in Nat
      <4>1. i - 1 \in Nat
        BY <1>2
      <4> QED
        BY <2>1, <4>1
    <3>2. Has(d, Own(W, <<off, i>>), off - 4 - k, elems[i]) /\ Len(elems[i]) = w
      BY <1>1
    <3>3. ElementAt(pos, i - 1, w) = pos + 4 + k
      BY DEF ElementAt, uoffset
    <3> HIDE DEF k
    <3>4. pos + 4 + k = Len(d) - (off - 4 - k)
      BY <1>2, <1>3, <3>1
    <3>5. ReadBytes(d, Len(d) - (off - 4 - k), w) = elems[i]
      BY <3>2, HasRead
    <3> QED
      BY <3>3, <3>4, <3>5 DEF GetElement
  <2>3. Elements(d, pos, w) = [i \in 1 .. n |-> GetElement(d, pos, i - 1, w)]
    BY <1>4 DEF Elements
  <2>4. elems = [i \in 1 .. n |-> elems[i]]
    BY <1>1 DEF n
  <2> QED
    BY <2>2, <2>3, <2>4
<1> QED
  BY <1>4, <1>5 DEF n, w

\* Every field of a table is read.
LEMMA FieldsAreRead ==
  ASSUME NEW d \in Seq(Bytes), Len(d) <= MaxBufferSize, NEW W, NEW off, NEW type, NEW value,
         TableMeans(d, W, off, type, value), NEW i \in 1 .. Len(FieldsOf(type))
  PROVE  FieldRead(d, Len(d) - off, FieldsOf(type)[i], FieldIndexToOffset(i - 1))
           = value[FieldsOf(type)[i].name]
<1> DEFINE fields == FieldsOf(type)
           n == Len(fields)
           f == fields[i]
           S == Own(W, Fixed)
           field == FieldIndexToOffset(i - 1)
<1>1. type \in DOMAIN Tables
  BY DEF TableMeans
<1>2. PICK args :
        /\ TableLaid(d, W, off, type, args)
        /\ \A j \in 1 .. n : ArgumentMeans(d, S, fields[j], args[fields[j].name],
                                           value[fields[j].name])
  BY DEF TableMeans
<1>3. PICK vt \in Nat, entries \in Seq(Nat) :
        /\ Has(d, S, off, Scalar(vt - off, 4))
        /\ VTableLaid(d, S, vt, entries)
        /\ \A j \in 1 .. n :
             IF EntryOf(entries, j) = 0 THEN NotStored(fields[j], args[fields[j].name])
             ELSE FieldLaid(d, Own(W, <<off, j>>), S, fields[j], off - EntryOf(entries, j),
                            args[fields[j].name])
  BY <1>2 DEF TableLaid
<1>4. SchemaField(f) /\ field = 2 * (i + 1) /\ i \in Nat \ {0}
  <2>1. n \in 1 .. 11 /\ field = 2 * (i + 1)
    BY <1>1, FieldNumbers
  <2>2. SchemaField(f)
    BY <1>1, SchemaFields
  <2> QED
    BY <2>1, <2>2
<1>5. off \in Nat /\ off <= Len(d)
  BY <1>3 DEF Has
<1> DEFINE arg == args[f.name]
           val == value[f.name]
           entry == EntryOf(entries, i)
<1>6. /\ ArgumentMeans(d, S, f, arg, val)
      /\ IF entry = 0 THEN NotStored(f, arg)
         ELSE FieldLaid(d, Own(W, <<off, i>>), S, f, off - entry, arg)
  BY <1>2, <1>3
<1>7. entry \in Nat
  <2>1. i + 2 <= Len(entries) => i + 2 \in 1 .. Len(entries)
    BY <1>4
  <2> QED
    BY <2>1 DEF EntryOf
<1>8. GetOptionalFieldOffset(d, Len(d) - off, field) = entry
  <2>1. GetOptionalFieldOffset(d, Len(d) - off, 2 * (i + 1)) = EntryOf(entries, i)
    <3> HIDE DEF S
    <3> QED
      BY <1>3, <1>4, FieldOffsetIsRead
  <2> QED
    BY <1>4, <2>1
<1> HIDE DEF fields, f, S, field, arg, val, entry
<1>9. FieldRead(d, Len(d) - off, f, field) = val
  <2>1. CASE entry = 0
    BY <1>4, <1>6, <1>8, <2>1, UnstoredIsRead
  <2>2. CASE entry # 0
    <3>1. entry \in Nat \ {0}
      BY <1>7, <2>2
    <3>2. FieldLaid(d, Own(W, <<off, i>>), S, f, off - entry, arg)
      BY <1>6, <2>2
    <3> QED
      BY <1>4, <1>5, <1>6, <1>8, <3>1, <3>2, StoredIsRead
  <2> QED
    BY <2>1, <2>2
<1> QED
  BY <1>9 DEF fields, f, field, val

\* What is there is read back.
LEMMA ObjectIsRead ==
  ASSUME fbb \in GoodBuilders, Len(buf) <= MaxBufferSize, NEW W, NEW off, NEW o,
         ObjectLaid(buf, W, off, o),
         o.kind \in {"string", "strings", "elements", "struct", "sorted", "table"}
  PROVE  Reads(off, o)
<1> DEFINE S == Own(W, Fixed)
           pos == Len(buf) - off
<1>1. buf \in Seq(Bytes) /\ Pos(off) = pos
  BY BuilderParts DEF buf, Pos, Position
<1> HIDE DEF buf, S, pos
<1>2. CASE o.kind = "string"
  <2>1. StringLaid(buf, S, off, o.value)
    BY <1>2 DEF ObjectLaid, S
  <2> QED
    BY <1>1, <1>2, <2>1, StringIsRead DEF Reads, pos
<1>3. CASE o.kind = "strings"
  <2> DEFINE s == o.value
  <2>1. PICK offs :
          /\ s \in Seq(Seq(Bytes)) /\ Len(offs) = Len(s) /\ ReferencesLaid(buf, S, off, offs)
          /\ \A i \in 1 .. Len(s) : StringLaid(buf, S, offs[i], s[i])
    BY <1>3 DEF ObjectLaid, StringsLaid, S
  <2>2. /\ VectorSize(buf, pos) = Len(s)
        /\ References(buf, pos) = [i \in 1 .. Len(s) |-> Len(buf) - offs[i]]
    BY <1>1, <2>1, ReferencesAreRead DEF pos
  <2>3. \A i \in 1 .. Len(s) : GetString(buf, Len(buf) - offs[i]) = s[i]
    BY <1>1, <2>1, StringIsRead
  <2>4. [i \in 1 .. VectorSize(buf, pos) |-> GetString(buf, References(buf, pos)[i])]
          = [i \in 1 .. Len(s) |-> s[i]]
    BY <2>2, <2>3
  <2>5. [i \in 1 .. Len(s) |-> s[i]] = s
    BY <2>1
  <2> QED
    BY <1>1, <1>3, <2>4, <2>5 DEF Reads
<1>4. CASE o.kind = "elements"
  <2>1. ElementsLaid(buf, W, off, o.value)
    BY <1>4 DEF ObjectLaid
  <2>2. /\ VectorSize(buf, pos) = Len(o.value)
        /\ o.value # <<>> => Elements(buf, pos, Len(o.value[1])) = o.value
    BY <1>1, <2>1, ElementsAreRead DEF pos
  <2> QED
    BY <1>1, <1>4, <2>2 DEF Reads
<1>5. CASE o.kind = "struct"
  <2>1. Has(buf, S, off, o.value)
    BY <1>5 DEF ObjectLaid, S
  <2>2. ReadBytes(buf, pos, Len(o.value)) = o.value
    BY <1>1, <2>1, HasRead DEF pos
  <2> QED
    BY <1>1, <1>5, <2>2 DEF Reads
<1>6. CASE o.kind = "sorted"
  <2>1. PICK offs : ReferencesLaid(buf, S, off, offs) /\ ToSet(offs) = o.value
    BY <1>6 DEF ObjectLaid, S
  <2>2. /\ References(buf, pos) = [i \in 1 .. Len(offs) |-> Len(buf) - offs[i]]
        /\ offs \in Seq(Nat) /\ \A i \in 1 .. Len(offs) : offs[i] \in Nat /\ offs[i] <= Len(buf)
    BY <1>1, <2>1, ReferencesAreRead DEF pos
  <2>3. \A i \in 1 .. Len(offs) : Len(buf) - References(buf, pos)[i] = offs[i]
    <3>1. Len(buf) \in Nat
      BY <1>1
    <3>2. \A i \in 1 .. Len(offs) : Len(buf) - (Len(buf) - offs[i]) = offs[i]
      BY <2>2, <3>1
    <3> QED
      BY <2>2, <3>2
  <2>4. /\ ToSet(References(buf, pos)) = {References(buf, pos)[i] : i \in 1 .. Len(offs)}
        /\ ToSet(offs) = {offs[i] : i \in 1 .. Len(offs)}
    <3>1. DOMAIN offs = 1 .. Len(offs) /\ DOMAIN References(buf, pos) = 1 .. Len(offs)
      BY <2>2
    <3> QED
      BY <3>1 DEF ToSet
  <2>5. {Len(buf) - p : p \in ToSet(References(buf, pos))} = ToSet(offs)
    BY <2>3, <2>4
  <2> QED
    BY <1>1, <1>6, <2>1, <2>5 DEF Reads
<1>7. CASE o.kind = "table"
  <2> DEFINE type == o.of
             fields == FieldsOf(type)
             names == {fields[i].name : i \in DOMAIN fields}
             FieldNamed(name) == FieldRead(buf, pos, fields[NumberOf(type, name)],
                                           FieldIndexToOffset(NumberOf(type, name) - 1))
  <2>1. TableMeans(buf, W, off, type, o.value)
    BY <1>7 DEF ObjectLaid
  <2>2. type \in DOMAIN Tables /\ o.value = [name \in names |-> o.value[name]]
    BY <2>1 DEF TableMeans
  <2>3. ReadTable(pos, type) = [name \in names |-> FieldNamed(name)]
    BY DEF ReadTable, FieldRead
  <2>4. ASSUME NEW name \in names PROVE FieldNamed(name) = o.value[name]
    <3>1. PICK i \in DOMAIN fields : name = fields[i].name
      OBVIOUS
    <3>2. NumberOf(type, name) = i /\ i \in 1 .. Len(fields)
      BY <2>2, <3>1, NamesDiffer, SchemaFields
    <3> HIDE DEF fields
    <3>3. FieldRead(buf, pos, fields[i], FieldIndexToOffset(i - 1)) = o.value[fields[i].name]
      BY <1>1, <2>1, <3>2, FieldsAreRead DEF fields, pos
    <3> QED
      BY <3>1, <3>2, <3>3
  <2> HIDE DEF FieldNamed, names, fields
  <2>5. ReadTable(pos, type) = o.value
    BY <2>2, <2>3, <2>4
  <2> QED
    BY <1>1, <1>7, <2>5 DEF Reads
<1> QED
  BY <1>2, <1>3, <1>4, <1>5, <1>6, <1>7

----------------------------------------------------------------------------
(* What is made is where it is said to be.                                 *)

Kinds == {"string", "strings", "elements", "struct", "sorted", "table"}

\* The tags of a buffer of n bytes that X has, and those that what is new got.
Extends(W, n, X, m) == X \in [1 .. m -> Tags] /\ \A o \in 1 .. n : X[o] = W[o]

\* c is b with an object: whatever the tags of b, those of c go on from them.
Lays(b, c, o) ==
  /\ b \in GoodBuilders /\ c \in GoodBuilders /\ Kept(b.buf_.data, c.buf_.data)
  /\ c.max_voffset_ = b.max_voffset_
  /\ \A W \in [1 .. GetSize(b) -> Tags] :
       VTables(b, W) => \E X : /\ Extends(W, GetSize(b), X, GetSize(c))
                               /\ VTables(c, X)
                               /\ ObjectLaid(c.buf_.data, X, c.result, o)

\* More tags have what the tags had.
LEMMA ExtendsOwn ==
  ASSUME NEW n \in Nat, NEW m \in Nat, n <= m, NEW W \in [1 .. n -> Tags], NEW X,
         Extends(W, n, X, m), NEW t
  PROVE  Own(W, t) \subseteq Own(X, t)
  BY DEF Own, Extends

\* The tags of what only writes are Fixed.
Plain(W, n, m) == [o \in 1 .. m |-> IF o <= n THEN W[o] ELSE Fixed]

\* Whatever tags the bytes get that are written, the vtables stay.
LEMMA WritesVTables ==
  ASSUME NEW b, NEW c, Writes(b, c), NEW W \in [1 .. GetSize(b) -> Tags], VTables(b, W),
         NEW X, Extends(W, GetSize(b), X, GetSize(c))
  PROVE  VTables(c, X)
<1>1. b \in GoodBuilders /\ c \in GoodBuilders /\ Kept(b.buf_.data, c.buf_.data)
  BY DEF Writes
<1>2. /\ GetSize(b) \in Nat /\ GetSize(c) \in Nat /\ GetSize(b) <= GetSize(c)
      /\ b.buf_.data \in Seq(Bytes) /\ c.buf_.data \in Seq(Bytes)
  BY <1>1, WritesGrow, BuilderParts
<1>3. Own(W, Fixed) \subseteq Own(X, Fixed)
  BY <1>2, ExtendsOwn
<1>4. Agree(b.buf_.data, c.buf_.data, Own(W, Fixed))
  BY <1>1, <1>2, KeptAgrees
<1>5. First(c) = First(b) /\ c.buf_.scratch = b.buf_.scratch /\ First(b) \in Nat
  BY <1>1, PairParts DEF Writes, First
<1>6. \A j \in 1 .. First(c) : j <= First(b) /\ c.buf_.scratch[j] = b.buf_.scratch[j]
  <2>1. \A j \in 1 .. First(b) : j <= First(b)
    BY <1>5
  <2> QED
    BY <1>5, <2>1
<1> QED
  BY <1>1, <1>3, <1>4, <1>6, VTablesOn

\* Plain tags are tags.
LEMMA PlainTags ==
  ASSUME NEW b, NEW c, Writes(b, c), NEW W \in [1 .. GetSize(b) -> Tags]
  PROVE  LET X == Plain(W, GetSize(b), GetSize(c))
         IN  /\ Extends(W, GetSize(b), X, GetSize(c)) /\ New(b, c) \subseteq Own(X, Fixed)
<1> DEFINE n == GetSize(b)
           m == GetSize(c)
           X == Plain(W, n, m)
<1>1. n \in Nat /\ m \in Nat /\ n <= m
  BY WritesGrow
<1> HIDE DEF n, m
<1>2. Fixed \in Tags
  BY DEF Fixed, Tags
<1>3. \A o \in 1 .. m : o <= n => o \in 1 .. n
  BY <1>1
<1>4. X \in [1 .. m -> Tags]
  BY <1>2, <1>3 DEF Plain, n
<1>5. \A o \in 1 .. n : o <= n /\ o \in 1 .. m
  BY <1>1
<1>6. \A o \in 1 .. n : X[o] = W[o]
  BY <1>5 DEF Plain
<1>7. \A o \in n + 1 .. m : ~(o <= n) /\ o \in 1 .. m
  BY <1>1
<1>8. \A o \in n + 1 .. m : o \in DOMAIN X /\ X[o] = Fixed
  BY <1>7 DEF Plain
<1> QED
  BY <1>4, <1>6, <1>8 DEF Extends, Own, New, n, m

\* An object all of whose bytes are Fixed.
LEMMA PlainLays ==
  ASSUME NEW b, NEW c, Writes(b, c), NEW o,
         \A S : New(b, c) \subseteq S =>
           \A X : Own(X, Fixed) = S => ObjectLaid(c.buf_.data, X, c.result, o)
  PROVE  Lays(b, c, o)
<1>1. /\ b \in GoodBuilders /\ c \in GoodBuilders /\ Kept(b.buf_.data, c.buf_.data)
      /\ c.max_voffset_ = b.max_voffset_
  BY DEF Writes
<1>2. ASSUME NEW W \in [1 .. GetSize(b) -> Tags], VTables(b, W)
      PROVE  \E X : /\ Extends(W, GetSize(b), X, GetSize(c))
                    /\ VTables(c, X)
                    /\ ObjectLaid(c.buf_.data, X, c.result, o)
  <2> DEFINE X == Plain(W, GetSize(b), GetSize(c))
  <2>1. Extends(W, GetSize(b), X, GetSize(c)) /\ New(b, c) \subseteq Own(X, Fixed)
    BY PlainTags
  <2> HIDE DEF X
  <2>2. VTables(c, X)
    BY <1>2, <2>1, WritesVTables
  <2>3. ObjectLaid(c.buf_.data, X, c.result, o)
    BY <2>1
  <2> QED
    BY <2>1, <2>2, <2>3
<1> QED
  BY <1>1, <1>2 DEF Lays

\* Something else may be written before.
LEMMA LaysAfter ==
  ASSUME NEW b, NEW c, NEW e, Writes(b, c), NEW o, Lays(c, e, o)
  PROVE  Lays(b, e, o)
<1>1. /\ b \in GoodBuilders /\ c \in GoodBuilders /\ Kept(b.buf_.data, c.buf_.data)
      /\ c.max_voffset_ = b.max_voffset_
  BY DEF Writes
<1>2. /\ e \in GoodBuilders /\ Kept(c.buf_.data, e.buf_.data) /\ e.max_voffset_ = b.max_voffset_
  BY <1>1 DEF Lays
<1>3. /\ b.buf_.data \in Seq(Bytes) /\ c.buf_.data \in Seq(Bytes) /\ e.buf_.data \in Seq(Bytes)
      /\ GetSize(b) \in Nat /\ GetSize(c) \in Nat /\ GetSize(b) <= GetSize(c)
  BY <1>1, <1>2, BuilderParts, WritesGrow
<1>4. Kept(b.buf_.data, e.buf_.data)
  BY <1>1, <1>2, <1>3, KeptKept
<1>5. ASSUME NEW W \in [1 .. GetSize(b) -> Tags], VTables(b, W)
      PROVE  \E X : /\ Extends(W, GetSize(b), X, GetSize(e))
                    /\ VTables(e, X)
                    /\ ObjectLaid(e.buf_.data, X, e.result, o)
  <2> DEFINE Y == Plain(W, GetSize(b), GetSize(c))
  <2>1. Extends(W, GetSize(b), Y, GetSize(c))
    BY PlainTags
  <2> HIDE DEF Y
  <2>2. VTables(c, Y) /\ Y \in [1 .. GetSize(c) -> Tags]
    <3>1. Y \in [1 .. GetSize(c) -> Tags]
      BY <2>1 DEF Extends
    <3>2. VTables(c, Y)
      BY <1>5, <2>1, WritesVTables
    <3> QED
      BY <3>1, <3>2
  <2>3. PICK X : /\ Extends(Y, GetSize(c), X, GetSize(e))
                 /\ VTables(e, X)
                 /\ ObjectLaid(e.buf_.data, X, e.result, o)
    BY <2>2 DEF Lays
  <2>4. \A i \in 1 .. GetSize(b) : i \in 1 .. GetSize(c)
    BY <1>3
  <2>5. Extends(W, GetSize(b), X, GetSize(e))
    BY <2>1, <2>3, <2>4 DEF Extends
  <2> QED
    BY <2>3, <2>5
<1> QED
  BY <1>1, <1>2, <1>4, <1>5 DEF Lays

\* What is remembered of an object.
Item(kind, of, value) == [kind |-> kind, of |-> of, value |-> value]

\* A string.
LEMMA StringLays ==
  ASSUME NEW b \in GoodBuilders, NEW str \in Seq(Bytes)
  PROVE  Lays(b, CreateString(b, str), Item("string", "-", str))
<1> DEFINE c == CreateString(b, str)
           o == Item("string", "-", str)
<1>1. Writes(b, c) /\ c.result = GetSize(c) /\ StringLaid(c.buf_.data, New(b, c), GetSize(c), str)
  BY StringIsLaid
<1> HIDE DEF c
<1>2. b.buf_.data \in Seq(Bytes) /\ c.buf_.data \in Seq(Bytes)
  BY <1>1, BuilderParts DEF Writes
<1>3. ASSUME NEW S, New(b, c) \subseteq S PROVE StringLaid(c.buf_.data, S, GetSize(c), str)
  BY <1>1, <1>2, <1>3, StringOn, KeptSame, KeptAgrees
<1>4. o.kind = "string" /\ o.value = str
  BY DEF Item
<1> HIDE DEF o
<1>5. \A S : New(b, c) \subseteq S =>
        \A X : Own(X, Fixed) = S => ObjectLaid(c.buf_.data, X, c.result, o)
  BY <1>1, <1>3, <1>4 DEF ObjectLaid
<1> QED
  BY <1>1, <1>5, PlainLays DEF c, o

\* A vector of strings.
LEMMA StringsLays ==
  ASSUME NEW b \in GoodBuilders, ~b.nested, NEW strings \in Seq(Seq(Bytes))
  PROVE  Lays(b, CreateVectorOfStrings(b, strings), Item("strings", "-", strings))
<1> DEFINE c == CreateVectorOfStrings(b, strings)
           o == Item("strings", "-", strings)
<1>1. /\ Writes(b, c) /\ c.result = GetSize(c)
      /\ \E offs : /\ Len(offs) = Len(strings)
                   /\ ReferencesLaid(c.buf_.data, New(b, c), GetSize(c), offs)
                   /\ \A i \in 1 .. Len(strings) :
                        StringLaid(c.buf_.data, New(b, c), offs[i], strings[i])
  BY StringsAreLaid
<1> HIDE DEF c
<1>2. b.buf_.data \in Seq(Bytes) /\ c.buf_.data \in Seq(Bytes)
  BY <1>1, BuilderParts DEF Writes
<1>3. PICK offs : /\ Len(offs) = Len(strings)
                  /\ ReferencesLaid(c.buf_.data, New(b, c), GetSize(c), offs)
                  /\ \A i \in 1 .. Len(strings) :
                       StringLaid(c.buf_.data, New(b, c), offs[i], strings[i])
  BY <1>1
<1>4. ASSUME NEW S, New(b, c) \subseteq S PROVE StringsLaid(c.buf_.data, S, GetSize(c), strings)
  <2>1. Agree(c.buf_.data, c.buf_.data, New(b, c))
    BY <1>2, KeptSame, KeptAgrees
  <2>2. ReferencesLaid(c.buf_.data, S, GetSize(c), offs)
    BY <1>2, <1>3, <1>4, <2>1, ReferencesOn
  <2>3. \A i \in 1 .. Len(strings) : StringLaid(c.buf_.data, S, offs[i], strings[i])
    BY <1>2, <1>3, <1>4, <2>1, StringOn
  <2> QED
    BY <1>3, <2>2, <2>3 DEF StringsLaid
<1>5. o.kind = "strings" /\ o.value = strings
  BY DEF Item
<1> HIDE DEF o
<1>6. \A S : New(b, c) \subseteq S =>
        \A X : Own(X, Fixed) = S => ObjectLaid(c.buf_.data, X, c.result, o)
  BY <1>1, <1>4, <1>5 DEF ObjectLaid
<1> QED
  BY <1>1, <1>6, PlainLays DEF c, o

\* A struct.
LEMMA StructLays ==
  ASSUME NEW b \in GoodBuilders, NEW bytes \in Seq(Bytes), NEW a \in 1 .. 16
  PROVE  Lays(b, CreateStruct(b, bytes, a), Item("struct", a, bytes))
<1> DEFINE p == Align(b, a)
           q == PushBytes(p, bytes)
           c == CreateStruct(b, bytes, a)
           o == Item("struct", a, bytes)
<1>1. Writes(b, p) /\ p \in GoodBuilders
  BY Aligned, WritesGood
<1> HIDE DEF p
<1>2. Writes(p, q) /\ q \in GoodBuilders /\ Has(q.buf_.data, New(p, q), GetSize(q), bytes)
  BY <1>1, BytesLaid
<1> HIDE DEF q
<1>3. Has(q.buf_.data, New(b, q), GetSize(q), bytes) /\ Writes(b, q) /\ GetSize(q) \in Nat
  BY <1>1, <1>2, HasSecond, WritesOn, WritesGrow
<1>4. c = Return(q, GetSize(q))
  BY DEF CreateStruct, ReturnSize, c, q, p
<1>5. Writes(b, c) /\ c.result = GetSize(q) /\ c.buf_ = q.buf_
  BY <1>3, <1>4, Returned
<1>6. GetSize(c) = GetSize(q) /\ New(b, c) = New(b, q)
  BY <1>5 DEF GetSize, New
<1> HIDE DEF c
<1>7. c.buf_.data \in Seq(Bytes)
  BY <1>5, BuilderParts DEF Writes
<1>8. ASSUME NEW S, New(b, c) \subseteq S PROVE Has(c.buf_.data, S, c.result, bytes)
  BY <1>3, <1>5, <1>6, <1>7, <1>8, HasOn, KeptSame, KeptAgrees
<1>9. o.kind = "struct" /\ o.value = bytes
  BY DEF Item
<1> HIDE DEF o
<1>10. \A S : New(b, c) \subseteq S =>
         \A X : Own(X, Fixed) = S => ObjectLaid(c.buf_.data, X, c.result, o)
  BY <1>8, <1>9 DEF ObjectLaid
<1> QED
  BY <1>5, <1>10, PlainLays DEF c, o

\* The vector of references to what offs lists, in whatever order.
LEMMA SortedLays ==
  ASSUME NEW b \in GoodBuilders, ~b.nested, NEW offs \in Seq(Nat),
         \A i \in 1 .. Len(offs) : offs[i] <= GetSize(b), NEW type
  PROVE  Lays(b, CreateVectorOfOffsets(b, offs), Item("sorted", type, ToSet(offs)))
<1> DEFINE c == CreateVectorOfOffsets(b, offs)
           o == Item("sorted", type, ToSet(offs))
<1>1. /\ Writes(b, c) /\ c.result = GetSize(c)
      /\ ReferencesLaid(c.buf_.data, New(b, c), GetSize(c), offs)
  BY ReferencesAreLaid
<1> HIDE DEF c
<1>2. b.buf_.data \in Seq(Bytes) /\ c.buf_.data \in Seq(Bytes)
  BY <1>1, BuilderParts DEF Writes
<1>3. ASSUME NEW S, New(b, c) \subseteq S PROVE ReferencesLaid(c.buf_.data, S, GetSize(c), offs)
  BY <1>1, <1>2, <1>3, ReferencesOn, KeptSame, KeptAgrees
<1>4. o.kind = "sorted" /\ o.value = ToSet(offs)
  BY DEF Item
<1> HIDE DEF o
<1>5. \A S : New(b, c) \subseteq S =>
        \A X : Own(X, Fixed) = S => ObjectLaid(c.buf_.data, X, c.result, o)
  BY <1>1, <1>3, <1>4 DEF ObjectLaid
<1> QED
  BY <1>1, <1>5, PlainLays DEF c, o

\* The tags of a buffer with a vector at off of k elements of w bytes: each element has
\* one of its own.
Numbered(W, n, off, k, w) ==
  [o \in 1 .. off |-> IF o <= n THEN W[o]
                      ELSE IF off - 4 - k * w < o /\ o <= off - 4
                           THEN <<off, (off - 4 - o) \div w + 1>> ELSE Fixed]

\* These are tags, and the bytes of an element have its tag.
LEMMA NumberedTags ==
  ASSUME NEW n \in Nat, NEW off \in Nat, n + 4 <= off, NEW W \in [1 .. n -> Tags],
         NEW w \in Nat \ {0}, NEW k \in Nat, n + k * w + 4 <= off
  PROVE  LET X == Numbered(W, n, off, k, w)
         IN  /\ Extends(W, n, X, off)
             /\ off - 3 .. off \subseteq Own(X, Fixed)
             /\ \A i \in 1 .. k :
                  off - 4 - (i - 1) * w - w + 1 .. off - 4 - (i - 1) * w
                    \subseteq Own(X, <<off, i>>)
<1> DEFINE X == Numbered(W, n, off, k, w)
           all == k * w
<1>1. all \in Nat
  OBVIOUS
<1>2. X = [o \in 1 .. off |-> IF o <= n THEN W[o]
                              ELSE IF off - 4 - all < o /\ o <= off - 4
                                   THEN <<off, (off - 4 - o) \div w + 1>> ELSE Fixed]
  BY DEF Numbered
<1>3. n + all + 4 <= off
  OBVIOUS
<1> HIDE DEF all, X
<1>4. ASSUME NEW o \in 1 .. off, o <= off - 4 PROVE (off - 4 - o) \div w + 1 \in Nat
  <2>1. off - 4 - o \in Nat
    BY <1>4
  <2> DEFINE r == off - 4 - o
  <2>2. r \div w \in Nat
    <3>1. r \in Nat
      BY <2>1
    <3> HIDE DEF r
    <3> QED
      BY <3>1
  <2> HIDE DEF r
  <2>3. r \div w + 1 \in Nat
    BY <2>2
  <2> QED
    BY <2>3 DEF r
<1>5. X \in [1 .. off -> Tags]
  <2>1. Fixed \in Tags /\ \A i \in Nat : <<off, i>> \in Tags
    BY DEF Fixed, Tags
  <2>2. \A o \in 1 .. off : o <= n => o \in 1 .. n
    OBVIOUS
  <2>3. \A o \in 1 .. n : W[o] \in Tags
    OBVIOUS
  <2> QED
    BY <1>2, <1>4, <2>1, <2>2, <2>3
<1>6. Extends(W, n, X, off)
  <2>1. \A o \in 1 .. n : o \in 1 .. off /\ o <= n
    OBVIOUS
  <2> QED
    BY <1>2, <1>5, <2>1 DEF Extends
<1>7. off - 3 .. off \subseteq Own(X, Fixed)
  <2>1. \A o \in off - 3 .. off : o \in 1 .. off /\ ~(o <= n) /\ ~(o <= off - 4)
    OBVIOUS
  <2> QED
    BY <1>2, <2>1 DEF Own
<1>8. ASSUME NEW i \in 1 .. k
      PROVE  off - 4 - (i - 1) * w - w + 1 .. off - 4 - (i - 1) * w \subseteq Own(X, <<off, i>>)
  <2> DEFINE before == (i - 1) * w
             after == (k - i) * w
  <2>1. before \in Nat /\ before + w <= all
    <3>1. i - 1 \in Nat /\ k - i \in Nat
      OBVIOUS
    <3>2. before \in Nat /\ after \in Nat
      BY <3>1
    <3>3. all = before + w + after
      BY DEF all
    <3> HIDE DEF before, after
    <3> QED
      BY <1>1, <3>2, <3>3
  <2>2. before = w * (i - 1)
    OBVIOUS
  <2> HIDE DEF before
  <2>3. ASSUME NEW o \in off - 4 - before - w + 1 .. off - 4 - before
        PROVE  o \in Own(X, <<off, i>>)
    <3>1. /\ o \in 1 .. off /\ ~(o <= n) /\ off - 4 - all < o /\ o <= off - 4
      BY <1>1, <1>3, <2>1
    <3>2. (off - 4 - o) \div w = i - 1
      <4> DEFINE r == off - 4 - o - before
      <4>1. r \in 0 .. (w - 1) /\ off - 4 - o = before + r
        BY <2>1
      <4>2. off - 4 - o = w * (i - 1) + r
        BY <2>2, <4>1
      <4> HIDE DEF r
      <4>3. off - 4 - o \in Int /\ i - 1 \in Int
        BY <3>1
      <4> QED
        BY <4>1, <4>2, <4>3, DivisionUnique
    <3>3. (off - 4 - o) \div w + 1 = i
      BY <3>2
    <3> QED
      BY <1>2, <3>1, <3>3 DEF Own
  <2> QED
    BY <2>3 DEF before
<1> QED
  BY <1>6, <1>7, <1>8 DEF X

\* A vector of elements that are written as they are.
LEMMA ElementsLay ==
  ASSUME NEW b \in GoodBuilders, ~b.nested, NEW n \in Nat, NEW w \in Nat \ {0},
         NEW elems \in Seq(Seq(Bytes)), Len(elems) = n,
         \A i \in 1 .. n : Len(elems[i]) = w, NEW of,
         NEW len \in Nat, NEW a \in 1 .. 16, n * w = len * a
  PROVE  Lays(b, EndVector(PushBytes(StartVector(b, len, a), Joined(elems, w)), n),
              Item("elements", of, elems))
<1> DEFINE bytes == Joined(elems, w)
           c == EndVector(PushBytes(StartVector(b, len, a), bytes), n)
           o == Item("elements", of, elems)
           off == GetSize(c)
           all == n * w
<1>1. bytes \in Seq(Bytes) /\ Len(bytes) = len * a /\ Len(bytes) = all
  BY JoinedBytes
<1> HIDE DEF bytes
<1>2. /\ Writes(b, c) /\ c \in GoodBuilders /\ c.result = off
      /\ GetSize(c) > GetSize(b) /\ GetSize(b) \in Nat /\ off \in Nat
      /\ Has(c.buf_.data, off - 3 .. off, off, Scalar(n, 4))
      /\ Has(c.buf_.data, GetSize(b) + 1 .. off - 4, off - 4, bytes)
      /\ GetSize(b) + Len(bytes) + 4 <= off
  <2>1. /\ b \in GoodBuilders /\ ~b.nested /\ n \in Nat /\ len \in Nat /\ a \in 1 .. 16
        /\ bytes \in Seq(Bytes) /\ Len(bytes) = len * a
    BY <1>1
  <2> QED
    BY ONLY <2>1, ElementsAreLaid
<1> HIDE DEF c
<1>3. /\ b.buf_.data \in Seq(Bytes) /\ c.buf_.data \in Seq(Bytes)
      /\ Kept(b.buf_.data, c.buf_.data) /\ c.max_voffset_ = b.max_voffset_
  BY <1>2, BuilderParts DEF Writes
<1>4. all \in Nat /\ n <= all
  <2>1. w - 1 \in Nat /\ n * (w - 1) \in Nat /\ n * w = n * (w - 1) + n
    <3>1. w - 1 \in Nat
      OBVIOUS
    <3>2. n * (w - 1) \in Nat
      BY <3>1
    <3> QED
      BY <3>1, <3>2
  <2> DEFINE rest == n * (w - 1)
  <2>2. rest \in Nat /\ all = rest + n
    BY <2>1
  <2> HIDE DEF rest, all
  <2> QED
    BY <2>2
<1> HIDE DEF all, off
<1>5. GetSize(b) + all + 4 <= off
  BY <1>1, <1>2
<1>6. ASSUME NEW W \in [1 .. GetSize(b) -> Tags], VTables(b, W)
      PROVE  \E X : /\ Extends(W, GetSize(b), X, off) /\ VTables(c, X)
                    /\ ObjectLaid(c.buf_.data, X, off, o)
  <2> DEFINE X == Numbered(W, GetSize(b), off, n, w)
             d == c.buf_.data
  <2>1. /\ Extends(W, GetSize(b), X, off)
        /\ off - 3 .. off \subseteq Own(X, Fixed)
        /\ \A i \in 1 .. n :
             off - 4 - (i - 1) * w - w + 1 .. off - 4 - (i - 1) * w \subseteq Own(X, <<off, i>>)
    <3>1. GetSize(b) + n * w + 4 <= off
      BY <1>5 DEF all
    <3>2. GetSize(b) + 4 <= off
      BY <1>2, <1>4, <1>5
    <3> QED
      BY <1>2, <3>1, <3>2, NumberedTags
  <2> HIDE DEF X
  <2>2. VTables(c, X)
    BY <1>2, <1>6, <2>1, WritesVTables DEF off
  <2>3. Has(d, Own(X, Fixed), off, Scalar(n, 4))
    <3>1. n \in Int
      OBVIOUS
    <3>2. Len(Scalar(n, 4)) = 4
      BY <3>1, ScalarBytes
    <3>3. off - Len(Scalar(n, 4)) + 1 .. off \subseteq Own(X, Fixed)
      <4>1. off - 4 + 1 = off - 3
        BY <1>2
      <4> QED
        BY <2>1, <3>2, <4>1
    <3> QED
      BY <1>2, <1>3, <3>3, HasWithin
  <2>4. ASSUME NEW i \in 1 .. n
        PROVE  Has(d, Own(X, <<off, i>>), off - 4 - (i - 1) * w, elems[i])
    <3>1. Has(d, GetSize(b) + 1 .. off - 4, off - 4 - (i - 1) * w, elems[i])
      BY <1>2, <1>3, HasJoined DEF bytes
    <3>2. off - 4 - (i - 1) * w - Len(elems[i]) + 1 .. off - 4 - (i - 1) * w
            \subseteq Own(X, <<off, i>>)
      BY <2>1
    <3> QED
      BY <1>3, <3>1, <3>2, HasWithin
  <2>5. ElementsLaid(d, X, off, elems)
    <3>1. n <= off
      BY <1>2, <1>4, <1>5
    <3>2. \A i \in 1 .. n : 1 \in 1 .. n
      OBVIOUS
    <3>3. ASSUME NEW i \in 1 .. n
          PROVE  /\ Len(elems[i]) = Len(elems[1])
                 /\ Has(d, Own(X, <<off, i>>), off - 4 - (i - 1) * Len(elems[1]), elems[i])
      <4>1. Len(elems[1]) = w /\ Len(elems[i]) = w
        BY <3>2
      <4> QED
        BY <2>4, <4>1
    <3> QED
      BY <2>3, <3>1, <3>3 DEF ElementsLaid
  <2>6. ObjectLaid(d, X, off, o)
    BY <2>5 DEF ObjectLaid, Item
  <2> QED
    BY <2>1, <2>2, <2>6
<1>7. Lays(b, c, o)
  <2>1. off = GetSize(c) /\ c.result = off
    BY <1>2 DEF off
  <2> QED
    BY <1>2, <1>3, <1>6, <2>1 DEF Lays
<1> QED
  BY <1>7 DEF c, o, bytes

\* A vector of elements of one width.
LEMMA VectorLays ==
  ASSUME NEW b \in GoodBuilders, ~b.nested, NEW w \in 1 .. 16, NEW elems \in Seq(Seq(Bytes)),
         \A i \in 1 .. Len(elems) : Len(elems[i]) = w, NEW of
  PROVE  Lays(b, CreateVector(b, elems, w), Item("elements", of, elems))
<1> DEFINE n == Len(elems)
<1>1. n \in Nat /\ w \in Nat \ {0} /\ w \in 1 .. 16
  OBVIOUS
<1>2. Lays(b, EndVector(PushBytes(StartVector(b, n, w), Joined(elems, w)), n),
           Item("elements", of, elems))
  <2>1. n = Len(elems) /\ \A i \in 1 .. n : Len(elems[i]) = w
    OBVIOUS
  <2> HIDE DEF n
  <2>2. /\ b \in GoodBuilders /\ ~b.nested /\ n \in Nat /\ w \in Nat \ {0} /\ w \in 1 .. 16
        /\ elems \in Seq(Seq(Bytes)) /\ Len(elems) = n /\ \A i \in 1 .. n : Len(elems[i]) = w
        /\ n * w = n * w
    BY <1>1, <2>1
  <2> QED
    BY ONLY <2>2, ElementsLay
<1> QED
  BY <1>2 DEF CreateVector

\* A vector of structs whose size is a multiple of their alignment.
LEMMA StructVectorLays ==
  ASSUME NEW b \in GoodBuilders, ~b.nested, NEW a \in 1 .. 16, NEW k \in Nat \ {0},
         NEW elems \in Seq(Seq(Bytes)),
         \A i \in 1 .. Len(elems) : Len(elems[i]) = k * a, NEW of
  PROVE  Lays(b, CreateVectorOfStructs(b, elems, k * a, a), Item("elements", of, elems))
<1> DEFINE n == Len(elems)
           w == k * a
           len == n * k
<1>1. n \in Nat /\ w \in Nat \ {0} /\ len \in Nat /\ n * w = len * a /\ a \in 1 .. 16
  <2>1. n \in Nat /\ a \in Nat \ {0}
    OBVIOUS
  <2>2. w \in Nat /\ w > 0
    BY <2>1
  <2>3. len \in Nat
    BY <2>1
  <2>4. n * w = len * a
    BY <2>1
  <2> QED
    BY <2>1, <2>2, <2>3, <2>4
<1>2. (n * w) \div a = len
  <2> DEFINE all == n * w
  <2>1. all \in Int /\ a \in Nat \ {0} /\ len \in Int /\ 0 \in 0 .. (a - 1) /\ all = a * len + 0
    <3>1. all = len * a /\ len * a = a * len
      BY <1>1
    <3> HIDE DEF all, len
    <3> QED
      BY <1>1, <3>1
  <2> HIDE DEF all, len
  <2> QED
    BY ONLY <2>1, DivisionUnique DEF all
<1>3. Lays(b, EndVector(PushBytes(StartVector(b, len, a), Joined(elems, w)), n),
           Item("elements", of, elems))
  <2>1. n = Len(elems) /\ \A i \in 1 .. n : Len(elems[i]) = w
    OBVIOUS
  <2> HIDE DEF n, len, w
  <2>2. /\ b \in GoodBuilders /\ ~b.nested /\ n \in Nat /\ w \in Nat \ {0} /\ a \in 1 .. 16
        /\ len \in Nat
        /\ elems \in Seq(Seq(Bytes)) /\ Len(elems) = n /\ \A i \in 1 .. n : Len(elems[i]) = w
        /\ n * w = len * a
    BY <1>1, <2>1
  <2> QED
    BY ONLY <2>2, ElementsLay
<1> QED
  BY <1>2, <1>3 DEF CreateVectorOfStructs

\* A vector that is aligned more than its elements need.
LEMMA AlignedLays ==
  ASSUME NEW b \in GoodBuilders, ~b.nested, NEW w \in 1 .. 16, NEW elems \in Seq(Seq(Bytes)),
         \A i \in 1 .. Len(elems) : Len(elems[i]) = w, NEW of, NEW len \in Nat, NEW a \in 1 .. 16
  PROVE  Lays(b, CreateVector(PreAlign(b, len, a), elems, w), Item("elements", of, elems))
<1> DEFINE c == PreAlign(b, len, a)
<1>1. Writes(b, c)
  BY AlignedBy
<1> HIDE DEF c
<1>2. c \in GoodBuilders /\ ~c.nested
  BY <1>1 DEF Writes
<1>3. Lays(c, CreateVector(c, elems, w), Item("elements", of, elems))
  BY <1>2, VectorLays
<1> QED
  BY <1>1, <1>3, LaysAfter DEF c

\* Two sequences joined: first the elements of one, then those of the other.
LEMMA SequencesJoined ==
  ASSUME NEW s \in Seq(Nat), NEW t \in Seq(Nat)
  PROVE  /\ s \o t \in Seq(Nat) /\ Len(s \o t) = Len(s) + Len(t)
         /\ Len(s) \in Nat /\ Len(t) \in Nat
         /\ \A i \in 1 .. Len(s) : (s \o t)[i] = s[i]
         /\ \A i \in 1 .. Len(t) : (s \o t)[Len(s) + i] = t[i]
  OBVIOUS

\* Of two sequences joined, the elements are those of both.
LEMMA ToSetJoined ==
  ASSUME NEW s \in Seq(Nat), NEW t \in Seq(Nat)
  PROVE  s \o t \in Seq(Nat) /\ ToSet(s \o t) = ToSet(s) \cup ToSet(t)
<1> DEFINE m == Len(s)
           n == Len(t)
           c == s \o t
<1>1. /\ c \in Seq(Nat) /\ Len(c) = m + n /\ m \in Nat /\ n \in Nat
      /\ \A i \in 1 .. m : c[i] = s[i]
      /\ \A i \in 1 .. n : c[m + i] = t[i]
  BY SequencesJoined
<1>2. DOMAIN c = 1 .. m + n /\ DOMAIN s = 1 .. m /\ DOMAIN t = 1 .. n
  BY <1>1
<1> HIDE DEF c, m, n
<1>3. ASSUME NEW i \in 1 .. m + n PROVE c[i] \in ToSet(s) \cup ToSet(t)
  <2>1. CASE i <= m
    <3>1. i \in 1 .. m
      BY <1>1, <2>1
    <3> QED
      BY <1>1, <1>2, <3>1 DEF ToSet
  <2>2. CASE i > m
    <3>1. i - m \in 1 .. n /\ m + (i - m) = i
      BY <1>1, <2>2
    <3>2. c[i] = t[i - m]
      BY <1>1, <3>1
    <3> QED
      BY <1>2, <3>1, <3>2 DEF ToSet
  <2> QED
    BY <1>1, <2>1, <2>2
<1>4. ASSUME NEW i \in 1 .. m PROVE s[i] \in ToSet(c)
  <2>1. i \in 1 .. m + n
    BY <1>1
  <2> QED
    BY <1>1, <1>2, <2>1 DEF ToSet
<1>5. ASSUME NEW i \in 1 .. n PROVE t[i] \in ToSet(c)
  <2>1. m + i \in 1 .. m + n
    BY <1>1
  <2> QED
    BY <1>1, <1>2, <2>1 DEF ToSet
<1>6. ToSet(c) \subseteq ToSet(s) \cup ToSet(t)
  BY <1>2, <1>3 DEF ToSet
<1>7. ToSet(s) \cup ToSet(t) \subseteq ToSet(c)
  <2>1. ToSet(s) \subseteq ToSet(c)
    <3>1. \A x \in ToSet(s) : \E i \in 1 .. m : x = s[i]
      BY <1>2 DEF ToSet
    <3> QED
      BY <1>4, <3>1
  <2>2. ToSet(t) \subseteq ToSet(c)
    <3>1. \A x \in ToSet(t) : \E i \in 1 .. n : x = t[i]
      BY <1>2 DEF ToSet
    <3> QED
      BY <1>5, <3>1
  <2> QED
    BY <2>1, <2>2
<1> QED
  BY <1>1, <1>6, <1>7 DEF c

\* What is inserted is among the rest.
LEMMA InsertedAmong ==
  ASSUME NEW b, NEW type, NEW offs \in Seq(Nat), NEW off \in Nat
  PROVE  LET c == Inserted(b, type, offs, off)
         IN  c \in Seq(Nat) /\ ToSet(c) = ToSet(offs) \cup {off}
<1> DEFINE Less(o, p) == KeyCompareLessThan(b.buf_.data, type, Position(b, o), Position(b, p))
           below == {i \in DOMAIN offs : ~Less(off, offs[i])}
           n == Cardinality(below)
           left == SubSeq(offs, 1, n)
           right == SubSeq(offs, n + 1, Len(offs))
           c == left \o <<off>> \o right
<1>1. n \in 0 .. Len(offs)
  <2>1. below \subseteq 1 .. Len(offs)
    OBVIOUS
  <2>2. IsFiniteSet(1 .. Len(offs)) /\ Cardinality(1 .. Len(offs)) = Len(offs)
    <3>1. Len(offs) \in Nat
      OBVIOUS
    <3> DEFINE m == Len(offs)
    <3>2. m \in Nat
      BY <3>1
    <3> HIDE DEF m
    <3>3. IsFiniteSet(1 .. m) /\ Cardinality(1 .. m) = m
      <4>1. Cardinality(1 .. m) = IF 1 > m THEN 0 ELSE m - 1 + 1
        BY <3>2, FS_Interval
      <4>2. IsFiniteSet(1 .. m)
        BY <3>2, FS_Interval
      <4> QED
        BY <3>2, <4>1, <4>2
    <3> QED
      BY <3>3 DEF m
  <2>3. IsFiniteSet(below) /\ Cardinality(below) <= Cardinality(1 .. Len(offs))
    BY <2>1, <2>2, FS_Subset
  <2>4. Cardinality(below) \in Nat
    BY <2>3, FS_CardinalityType
  <2> QED
    BY <2>2, <2>3, <2>4
<1>5. Inserted(b, type, offs, off) = c
  BY DEF Inserted
<1> HIDE DEF below, n
<1>2. left \in Seq(Nat) /\ right \in Seq(Nat) /\ left \o right = offs /\ <<off>> \in Seq(Nat)
  <2>1. /\ left \in Seq(Nat) /\ Len(left) = n /\ \A i \in 1 .. n : left[i] = offs[i]
        /\ n \in Nat /\ Len(offs) \in Nat
    BY <1>1
  <2>2. /\ right \in Seq(Nat) /\ Len(right) = Len(offs) - n
        /\ \A i \in 1 .. Len(offs) - n : right[i] = offs[n + i]
    BY <1>1
  <2> DEFINE both == left \o right
  <2> HIDE DEF left, right
  <2>3. /\ both \in Seq(Nat) /\ Len(both) = Len(offs)
        /\ \A i \in 1 .. n : both[i] = left[i]
        /\ \A i \in 1 .. Len(offs) - n : both[n + i] = right[i]
    <3>1. /\ both \in Seq(Nat) /\ Len(both) = Len(left) + Len(right)
          /\ \A i \in 1 .. Len(left) : both[i] = left[i]
          /\ \A i \in 1 .. Len(right) : both[Len(left) + i] = right[i]
      BY <2>1, <2>2, SequencesJoined
    <3> HIDE DEF both
    <3> QED
      BY <2>1, <2>2, <3>1
  <2> HIDE DEF both
  <2>4. ASSUME NEW i \in 1 .. Len(offs) PROVE both[i] = offs[i]
    <3>1. CASE i <= n
      <4>1. i \in 1 .. n
        BY <2>1, <3>1
      <4>2. both[i] = left[i]
        BY <2>3, <4>1
      <4> QED
        BY <2>1, <4>1, <4>2
    <3>2. CASE i > n
      <4>1. i - n \in 1 .. Len(offs) - n /\ n + (i - n) = i
        BY <2>1, <3>2
      <4>2. both[i] = right[i - n]
        BY <2>3, <4>1
      <4> QED
        BY <2>2, <4>1, <4>2
    <3> QED
      BY <2>1, <3>1, <3>2
  <2>5. both = offs
    BY <2>3, <2>4
  <2>6. <<off>> \in Seq(Nat)
    OBVIOUS
  <2> QED
    BY <2>1, <2>2, <2>5, <2>6 DEF both
<1> HIDE DEF left, right
<1>3. ToSet(<<off>>) = {off}
  BY DEF ToSet
<1>4. ToSet(offs) = ToSet(left) \cup ToSet(right)
  BY <1>2, ToSetJoined
<1>6. left \o <<off>> \in Seq(Nat) /\ ToSet(left \o <<off>>) = ToSet(left) \cup {off}
  <2> DEFINE one == <<off>>
  <2>1. one \in Seq(Nat) /\ left \in Seq(Nat) /\ ToSet(one) = {off}
    BY <1>2, <1>3
  <2> HIDE DEF one
  <2>2. left \o one \in Seq(Nat) /\ ToSet(left \o one) = ToSet(left) \cup ToSet(one)
    BY <2>1, ToSetJoined
  <2> QED
    BY <2>1, <2>2 DEF one
<1>7. c \in Seq(Nat) /\ ToSet(c) = ToSet(left \o <<off>>) \cup ToSet(right)
  BY <1>2, <1>6, ToSetJoined
<1> HIDE DEF c
<1>8. c \in Seq(Nat) /\ ToSet(c) = ToSet(offs) \cup {off}
  BY <1>4, <1>6, <1>7
<1> QED
  BY <1>5, <1>8

\* Sorting keeps what is sorted.
LEMMA SortedAmong ==
  ASSUME NEW b, NEW type, NEW offs \in Seq(Nat)
  PROVE  LET c == SortedTables(b, type, offs)
         IN  c \in Seq(Nat) /\ ToSet(c) = ToSet(offs)
<1> DEFINE n == Len(offs)
           Insert(s, k) == Inserted(b, type, s, offs[k])
           sorted == CHOOSE g :
                       g = [k \in 0 .. n |-> IF k = 0 THEN <<>> ELSE Insert(g[k - 1], k)]
           X == Seq(Nat)
           step == [x \in X \X (1 .. n) |-> Insert(x[1], x[2])]
           Among(k) == {offs[i] : i \in 1 .. k}
<1>1. n \in Nat /\ \A k \in 1 .. n : offs[k] \in Nat
  OBVIOUS
<1>2. SortedTables(b, type, offs) = sorted[n]
  BY DEF SortedTables
<1>a. ToSet(offs) = Among(n)
  BY DEF ToSet
<1> HIDE DEF n
<1>3. ASSUME NEW s \in X, NEW k \in 1 .. n
      PROVE  Insert(s, k) \in X /\ ToSet(Insert(s, k)) = ToSet(s) \cup {offs[k]}
  BY <1>1, InsertedAmong
<1> HIDE DEF Insert
<1>4. <<>> \in X /\ step \in [X \X (1 .. n) -> X]
  BY <1>3
<1>b. ToSet(<<>>) = {}
  BY DEF ToSet
<1> HIDE DEF X
<1>5. PICK g : Runs(g, X, n, <<>>, step)
  <2> DEFINE first == <<>>
  <2>1. n \in Nat /\ first \in X /\ step \in [X \X (1 .. n) -> X]
    BY <1>1, <1>4
  <2> HIDE DEF step, first
  <2>2. \E g : Runs(g, X, n, first, step)
    BY <2>1, StepsExist
  <2> QED
    BY <2>2 DEF first
<1>6. g = [k \in 0 .. n |-> IF k = 0 THEN <<>> ELSE Insert(g[k - 1], k)]
  <2>1. g \in [0 .. n -> X] /\ g[0] = <<>>
        /\ \A k \in 1 .. n : g[k] = step[<<g[k - 1], k>>]
    BY <1>5 DEF Runs
  <2>2. ASSUME NEW k \in 1 .. n PROVE g[k] = Insert(g[k - 1], k)
    <3>1. k - 1 \in 0 .. n
      BY <1>1
    <3>2. g[k - 1] \in X /\ g[k] = step[<<g[k - 1], k>>]
      BY <2>1, <3>1
    <3> QED
      BY <3>2
  <2> HIDE DEF step
  <2> QED
    BY <1>1, <2>1, <2>2
<1>7. sorted = [k \in 0 .. n |-> IF k = 0 THEN <<>> ELSE Insert(sorted[k - 1], k)]
  <2> HIDE DEF step
  <2> QED
    BY <1>6
<1> HIDE DEF sorted, step
<1> DEFINE S == {k \in 0 .. n : sorted[k] \in X /\ ToSet(sorted[k]) = Among(k)}
<1>8. 0 \in S
  <2>1. sorted[0] = <<>> /\ 0 \in 0 .. n
    BY <1>1, <1>7
  <2>2. Among(0) = {}
    OBVIOUS
  <2> QED
    BY <1>4, <1>b, <2>1, <2>2
<1>9. ASSUME NEW k \in 0 .. (n - 1), k \in S PROVE k + 1 \in S
  <2> DEFINE l == k + 1
  <2>1. l \in 0 .. n /\ l \in 1 .. n /\ l # 0 /\ l - 1 = k
    BY <1>1
  <2>0. Among(l) = Among(k) \cup {offs[l]}
    <3>1. \A i \in 1 .. l : i \in 1 .. k \/ i = l
      BY <1>1
    <3>2. l \in 1 .. l /\ \A i \in 1 .. k : i \in 1 .. l
      BY <1>1
    <3> HIDE DEF l
    <3> QED
      BY <3>1, <3>2
  <2> HIDE DEF l, Among
  <2>2. sorted[l] = Insert(sorted[k], l)
    BY <1>7, <2>1
  <2>3. sorted[l] \in X /\ ToSet(sorted[l]) = Among(l)
    BY <1>3, <1>9, <2>0, <2>1, <2>2
  <2> QED
    BY <2>1, <2>3 DEF l
<1>10. n \in S
  <2> HIDE DEF S
  <2>1. \A k \in 0 .. n : k \in S
    BY <1>1, <1>8, <1>9, UpTo
  <2> QED
    BY <1>1, <2>1
<1> QED
  BY <1>2, <1>10, <1>a DEF X

\* A sorted vector of tables.
LEMMA SortedTablesLay ==
  ASSUME NEW b \in GoodBuilders, ~b.nested, NEW offs \in Seq(Nat),
         \A i \in 1 .. Len(offs) : offs[i] <= GetSize(b), NEW type
  PROVE  Lays(b, CreateVectorOfSortedTables(b, type, offs), Item("sorted", type, ToSet(offs)))
<1> DEFINE c == SortedTables(b, type, offs)
<1>1. c \in Seq(Nat) /\ ToSet(c) = ToSet(offs)
  BY SortedAmong
<1> HIDE DEF c
<1>2. \A i \in 1 .. Len(c) : c[i] <= GetSize(b)
  <2>1. ASSUME NEW i \in 1 .. Len(c) PROVE c[i] <= GetSize(b)
    <3>1. c[i] \in ToSet(offs)
      <4>1. DOMAIN c = 1 .. Len(c)
        BY <1>1
      <4>2. c[i] \in ToSet(c)
        BY <4>1 DEF ToSet
      <4> QED
        BY <1>1, <4>2
    <3>2. PICK j \in 1 .. Len(offs) : c[i] = offs[j]
      BY <3>1 DEF ToSet
    <3> QED
      BY <3>2
  <2> QED
    BY <2>1
<1>3. Lays(b, CreateVectorOfOffsets(b, c), Item("sorted", type, ToSet(c)))
  BY <1>1, <1>2, SortedLays
<1> QED
  BY <1>1, <1>3 DEF CreateVectorOfSortedTables, c

\* c has an object, and tags that go on from W.
LaysOver(W, n, c, o) ==
  \E X : /\ Extends(W, n, X, GetSize(c)) /\ VTables(c, X)
         /\ ObjectLaid(c.buf_.data, X, c.result, o)

\* The fields of a table have the values given, with what b has.
Means(b, W, type, args, value) ==
  \A i \in 1 .. Len(FieldsOf(type)) :
    ArgumentMeans(b.buf_.data, Own(W, Fixed), FieldsOf(type)[i], args[FieldsOf(type)[i].name],
                  value[FieldsOf(type)[i].name])

\* The value of a table has its fields, and no other.
ValueOf(type, value) ==
  value = [n \in {FieldsOf(type)[i].name : i \in DOMAIN FieldsOf(type)} |-> value[n]]

\* A table that has been built and means something in what was there before it.
LEMMA TableEndLays ==
  ASSUME NEW b, NEW V, NEW start, NEW type \in DOMAIN Tables, NEW args, NEW done,
         InTable(b, V, start, type, args, done),
         LeftOut(type, args, done),
         NEW W \in [1 .. start -> Tags], VTables(b, W), NEW value, ValueOf(type, value),
         Means(b, W, type, args, value)
  PROVE  LET c == EndTable(b, start)
         IN  /\ c.max_voffset_ = 0
             /\ LaysOver(W, start, c, Item("table", type, value))
<1> DEFINE c == EndTable(b, start)
           d == c.buf_.data
           S == Own(W, Fixed)
<1>1. /\ c \in GoodBuilders /\ c.max_voffset_ = 0
      /\ c.result \in GetSize(b) + 1 .. GetSize(c)
      /\ HoldsTable(W, start, c, type, args)
  BY TableIsLaid
<1>2. Kept(b.buf_.data, d) /\ b \in GoodBuilders /\ start \in Nat /\ start <= GetSize(b)
  <2>1. b \in GoodBuilders /\ start \in Nat /\ start <= GetSize(b)
    BY DEF InTable
  <2> QED
    BY <2>1, TableEnded DEF Ends
<1> HIDE DEF c
<1>3. PICK X \in [1 .. GetSize(c) -> Tags] :
        /\ \A o \in 1 .. start : X[o] = W[o]
        /\ TableLaid(d, X, c.result, type, args)
        /\ VTables(c, X)
  BY <1>1 DEF HoldsTable
<1>4. /\ b.buf_.data \in Seq(Bytes) /\ d \in Seq(Bytes) /\ GetSize(b) \in Nat /\ GetSize(c) \in Nat
  BY <1>1, <1>2, BuilderParts
<1>5. Extends(W, start, X, GetSize(c))
  BY <1>3 DEF Extends
<1>6. S \subseteq Own(X, Fixed) /\ Agree(b.buf_.data, d, S)
  <2>1. start <= GetSize(c)
    BY <1>1, <1>2, <1>4
  <2> QED
    BY <1>2, <1>4, <1>5, <2>1, ExtendsOwn, KeptAgrees
<1>7. ASSUME NEW i \in 1 .. Len(FieldsOf(type))
      PROVE  ArgumentMeans(d, Own(X, Fixed), FieldsOf(type)[i], args[FieldsOf(type)[i].name],
                           value[FieldsOf(type)[i].name])
  <2>1. ArgumentMeans(b.buf_.data, S, FieldsOf(type)[i], args[FieldsOf(type)[i].name],
                      value[FieldsOf(type)[i].name])
    BY DEF Means
  <2> HIDE DEF S, d
  <2> QED
    BY <1>4, <1>6, <2>1, ArgumentOn
<1>8. TableMeans(d, X, c.result, type, value)
  <2>1. value = [n \in {FieldsOf(type)[i].name : i \in DOMAIN FieldsOf(type)} |-> value[n]]
    BY DEF ValueOf
  <2> HIDE DEF d
  <2> QED
    BY <1>3, <1>7, <2>1 DEF TableMeans
<1>9. ObjectLaid(d, X, c.result, Item("table", type, value))
  BY <1>8 DEF ObjectLaid, Item
<1>10. LaysOver(W, start, c, Item("table", type, value))
  BY <1>3, <1>5, <1>9 DEF LaysOver
<1> QED
  BY <1>1, <1>10 DEF c

\* A table that is made at once.
LEMMA TableLays ==
  ASSUME NEW b \in GoodBuilders, ~b.nested, b.max_voffset_ = 0, NEW type \in DOMAIN Tables,
         NEW args, \A i \in 1 .. Len(FieldsOf(type)) :
                     ArgumentFor(b, FieldsOf(type)[i], args[FieldsOf(type)[i].name]),
         NEW W \in [1 .. GetSize(b) -> Tags], VTables(b, W), NEW value, ValueOf(type, value),
         Means(b, W, type, args, value)
  PROVE  LET c == CreateTable(b, type, args)
         IN  /\ c.max_voffset_ = 0
             /\ LaysOver(W, GetSize(b), c, Item("table", type, value))
<1> DEFINE n == Len(FieldsOf(type))
           start == GetSize(b)
           p == StartTable(b)
           q == AddFields(p, type, args)
<1>1. (\E X : InTable(p, X, start, type, args, {})) /\ Adds(b, p) /\ p.buf_ = b.buf_
  BY TableIsStarted
<1>2. CreateTable(b, type, args) = EndTable(q, start)
  BY DEF CreateTable
<1> HIDE DEF p
<1>3. PICK X : InTable(p, X, start, type, args, {})
  BY <1>1
<1>4. \A i \in 1 .. n : ArgumentFor(p, FieldsOf(type)[i], args[FieldsOf(type)[i].name])
  <2>1. GetSize(p) = GetSize(b)
    BY <1>1 DEF GetSize
  <2> QED
    BY <2>1 DEF ArgumentFor
<1>5. (\E Y : InTable(q, Y, start, type, args, 1 .. n)) /\ Adds(p, q)
  <2>1. p \in GoodBuilders
    BY <1>1 DEF Adds
  <2> QED
    BY <1>3, <1>4, <2>1, FieldsAreAdded
<1> HIDE DEF q
<1>6. PICK V : InTable(q, V, start, type, args, 1 .. n)
  BY <1>5
<1>7. Adds(b, q)
  BY <1>1, <1>5, AddsOn
<1>8. /\ b.buf_.data \in Seq(Bytes) /\ q.buf_.data \in Seq(Bytes) /\ q \in GoodBuilders
      /\ Agree(b.buf_.data, q.buf_.data, Own(W, Fixed))
  BY <1>7, BuilderParts, KeptAgrees DEF Adds
<1>9. VTables(q, W)
  <2>1. First(q) = First(b) /\ First(b) \in Nat
    BY <1>7, PairParts DEF Adds
  <2>2. \A j \in 1 .. First(q) : j <= First(b) /\ q.buf_.scratch[j] = b.buf_.scratch[j]
    <3>1. \A j \in 1 .. First(b) : j <= First(b)
      BY <2>1
    <3> QED
      BY <1>7, <2>1, <3>1 DEF Adds
  <2> QED
    BY <1>8, <2>2, VTablesOn
<1>10. Means(q, W, type, args, value)
  <2>1. ASSUME NEW i \in 1 .. n
        PROVE  ArgumentMeans(q.buf_.data, Own(W, Fixed), FieldsOf(type)[i],
                             args[FieldsOf(type)[i].name], value[FieldsOf(type)[i].name])
    <3>1. ArgumentMeans(b.buf_.data, Own(W, Fixed), FieldsOf(type)[i],
                        args[FieldsOf(type)[i].name], value[FieldsOf(type)[i].name])
      BY DEF Means
    <3> DEFINE S == Own(W, Fixed)
               d == b.buf_.data
               e == q.buf_.data
    <3>2. d \in Seq(Bytes) /\ e \in Seq(Bytes) /\ Agree(d, e, S) /\ S \subseteq S
      BY <1>8
    <3> HIDE DEF S, d, e
    <3> QED
      BY <3>1, <3>2, ArgumentOn DEF S, d, e
  <2> QED
    BY <2>1 DEF Means
<1>11. LeftOut(type, args, 1 .. n)
  BY DEF LeftOut
<1>12. /\ EndTable(q, start).max_voffset_ = 0
       /\ LaysOver(W, start, EndTable(q, start), Item("table", type, value))
  BY <1>6, <1>9, <1>10, <1>11, TableEndLays
<1> QED
  BY <1>2, <1>12

\* What a client gives for a field: bytes, a string, a vector of what has been
\* written, or a table that has.
GivenOne(b, f, arg) ==
  CASE f.kind = "scalar" -> arg \in Seq(Bytes) /\ Len(arg) = f.width
    [] f.kind = "string" -> arg = <<>> \/ \E s \in Seq(Bytes) : arg = <<s>>
    [] f.kind = "vector" ->
         arg = <<>> \/ \E offs \in Seq(Nat) : /\ arg = <<offs>>
                                              /\ \A j \in 1 .. Len(offs) : offs[j] <= GetSize(b)
    [] f.kind = "table" -> arg \in Nat /\ arg <= GetSize(b)

GivenBelow(b, type, given) ==
  \A i \in 1 .. Len(FieldsOf(type)) :
    GivenOne(b, FieldsOf(type)[i], given[FieldsOf(type)[i].name])

\* What is stored of what is given: of a string what is before its first 0.
Taken(f, arg) == IF f.kind = "string" /\ arg # <<>> THEN <<CString(arg[1])>> ELSE arg

\* What was given may still be given when more has been written.
LEMMA GivenLater ==
  ASSUME NEW b, NEW c, Writes(b, c), NEW f, SchemaField(f), NEW arg, GivenOne(b, f, arg)
  PROVE  GivenOne(c, f, arg)
<1>1. GetSize(b) \in Nat /\ GetSize(c) \in Nat /\ GetSize(b) <= GetSize(c)
  BY WritesGrow
<1>2. f.kind \in {"scalar", "string", "table", "vector"}
  BY DEF SchemaField
<1>3. CASE f.kind = "vector"
  <2>1. CASE arg = <<>>
    BY <1>3, <2>1 DEF GivenOne
  <2>2. CASE arg # <<>>
    <3>1. PICK offs \in Seq(Nat) : /\ arg = <<offs>>
                                   /\ \A j \in 1 .. Len(offs) : offs[j] <= GetSize(b)
      BY <1>3, <2>2 DEF GivenOne
    <3>2. \A j \in 1 .. Len(offs) : offs[j] <= GetSize(c)
      BY <1>1, <3>1
    <3> QED
      BY <1>3, <3>1, <3>2 DEF GivenOne
  <2> QED
    BY <2>1, <2>2
<1>4. CASE f.kind = "table"
  <2>1. arg \in Nat /\ arg <= GetSize(b)
    BY <1>4 DEF GivenOne
  <2>2. arg <= GetSize(c)
    BY <1>1, <2>1
  <2> QED
    BY <1>4, <2>1, <2>2 DEF GivenOne
<1>5. CASE f.kind \in {"scalar", "string"}
  BY <1>5 DEF GivenOne
<1> QED
  BY <1>2, <1>3, <1>4, <1>5

\* The argument that is made for a string or a vector means what is taken of what was
\* given.
LEMMA ArgumentIsMade ==
  ASSUME NEW b \in GoodBuilders, ~b.nested, NEW f, SchemaField(f), NEW arg, GivenOne(b, f, arg)
  PROVE  LET e == MakeArgument(b, f, arg)
         IN  /\ Writes(b, e) /\ e.result \in Nat /\ e.result <= GetSize(e)
             /\ f.kind \in {"string", "vector"} =>
                  ArgumentMeans(e.buf_.data, New(b, e), f, e.result, Taken(f, arg))
<1> DEFINE e == MakeArgument(b, f, arg)
<1>1. CASE f.kind = "string" /\ arg # <<>>
  <2>1. PICK given \in Seq(Bytes) : arg = <<given>>
    BY <1>1 DEF GivenOne
  <2> DEFINE s == CString(given)
  <2>2. s \in Seq(Bytes) /\ Taken(f, arg) = <<s>>
    BY <1>1, <2>1, CStringTyped DEF Taken
  <2>3. e = CreateString(b, s)
    BY <1>1, <2>1 DEF MakeArgument
  <2> HIDE DEF e, s
  <2>4. /\ Writes(b, e) /\ e.result = GetSize(e)
        /\ GetSize(e) > GetSize(b) /\ GetSize(b) \in Nat /\ GetSize(e) \in Nat
        /\ StringLaid(e.buf_.data, New(b, e), GetSize(e), s)
    BY <2>2, <2>3, StringIsLaid
  <2>5. e.result # 0 /\ e.result \in Nat /\ e.result <= GetSize(e)
    BY <2>4
  <2>6. ArgumentMeans(e.buf_.data, New(b, e), f, e.result, Taken(f, arg))
    BY <1>1, <2>2, <2>4, <2>5 DEF ArgumentMeans
  <2> QED
    BY <2>4, <2>5, <2>6 DEF e
<1>2. CASE f.kind = "vector" /\ arg # <<>>
  <2>1. PICK offs \in Seq(Nat) : /\ arg = <<offs>>
                                 /\ \A j \in 1 .. Len(offs) : offs[j] <= GetSize(b)
    BY <1>2 DEF GivenOne
  <2>2. e = CreateVectorOfOffsets(b, offs)
    BY <1>2, <2>1 DEF MakeArgument
  <2> HIDE DEF e
  <2>3. /\ Writes(b, e) /\ e.result = GetSize(e)
        /\ GetSize(e) > GetSize(b) /\ GetSize(b) \in Nat /\ GetSize(e) \in Nat
        /\ ReferencesLaid(e.buf_.data, New(b, e), GetSize(e), offs)
    BY <2>1, <2>2, ReferencesAreLaid
  <2>4. e.result # 0 /\ e.result \in Nat /\ e.result <= GetSize(e)
    BY <2>3
  <2>5. Taken(f, arg) = arg
    BY <1>2 DEF Taken
  <2>6. ArgumentMeans(e.buf_.data, New(b, e), f, e.result, arg)
    BY <1>2, <2>1, <2>3, <2>4 DEF ArgumentMeans
  <2> QED
    BY <2>3, <2>4, <2>5, <2>6 DEF e
<1>3. CASE ~(f.kind = "string" /\ arg # <<>>) /\ ~(f.kind = "vector" /\ arg # <<>>)
  <2>1. e = Return(b, 0)
    BY <1>3 DEF MakeArgument
  <2> HIDE DEF e
  <2>2. Writes(b, e) /\ e.result = 0
    BY <2>1, WritesNothing, Returned
  <2>3. e.result \in Nat /\ e.result <= GetSize(e)
    BY <2>2, WritesGrow
  <2>4. f.kind \in {"string", "vector"} =>
          ArgumentMeans(e.buf_.data, New(b, e), f, e.result, Taken(f, arg))
    BY <1>3, <2>2 DEF ArgumentMeans, Taken
  <2> QED
    BY <2>2, <2>3, <2>4 DEF e
<1> QED
  BY <1>1, <1>2, <1>3

\* The argument that was made for a field, in c.
ArgumentIn(b, c, f, result, arg) ==
  /\ result \in Nat /\ result <= GetSize(c)
  /\ f.kind \in {"string", "vector"} => ArgumentMeans(c.buf_.data, New(b, c), f, result, arg)

\* An argument stays when more is written, and is one of all that is new.
LEMMA ArgumentLater ==
  ASSUME NEW b, NEW c, NEW e, Writes(b, c), Writes(c, e), NEW f, NEW result, NEW arg,
         ArgumentIn(b, c, f, result, arg)
  PROVE  ArgumentIn(b, e, f, result, arg)
<1>1. /\ c.buf_.data \in Seq(Bytes) /\ e.buf_.data \in Seq(Bytes)
      /\ Agree(c.buf_.data, e.buf_.data, New(b, c)) /\ New(b, c) \subseteq New(b, e)
  BY NewAgrees
<1>2. GetSize(c) \in Nat /\ GetSize(e) \in Nat /\ GetSize(c) <= GetSize(e)
  BY WritesGrow
<1>3. result \in Nat /\ result <= GetSize(c)
  BY DEF ArgumentIn
<1>4. result <= GetSize(e)
  BY <1>2, <1>3
<1>5. ASSUME f.kind \in {"string", "vector"}
      PROVE  ArgumentMeans(e.buf_.data, New(b, e), f, result, arg)
  <2>1. ArgumentMeans(c.buf_.data, New(b, c), f, result, arg)
    BY <1>5 DEF ArgumentIn
  <2> QED
    BY <1>1, <2>1, ArgumentOn
<1> QED
  BY <1>3, <1>4, <1>5 DEF ArgumentIn

\* An argument of the last step is one of all that is new.
LEMMA ArgumentSooner ==
  ASSUME NEW b, NEW c, NEW e, Writes(b, c), Writes(c, e), NEW f, NEW result, NEW arg,
         ArgumentIn(c, e, f, result, arg)
  PROVE  ArgumentIn(b, e, f, result, arg)
<1>1. /\ e.buf_.data \in Seq(Bytes)
      /\ Agree(e.buf_.data, e.buf_.data, New(c, e)) /\ New(c, e) \subseteq New(b, e)
  BY NewAgrees
<1>2. ASSUME f.kind \in {"string", "vector"}
      PROVE  ArgumentMeans(e.buf_.data, New(b, e), f, result, arg)
  <2>1. ArgumentMeans(e.buf_.data, New(c, e), f, result, arg)
    BY <1>2 DEF ArgumentIn
  <2> QED
    BY <1>1, <2>1, ArgumentOn
<1> QED
  BY <1>2 DEF ArgumentIn

\* A table with its strings and vectors.
LEMMA DirectLays ==
  ASSUME NEW b \in GoodBuilders, ~b.nested, b.max_voffset_ = 0, NEW type \in DOMAIN Tables,
         NEW given, GivenBelow(b, type, given), NEW value, ValueOf(type, value),
         \A i \in 1 .. Len(FieldsOf(type)) :
           value[FieldsOf(type)[i].name] = Taken(FieldsOf(type)[i], given[FieldsOf(type)[i].name]),
         NEW W \in [1 .. GetSize(b) -> Tags], VTables(b, W)
  PROVE  LET c == CreateTableDirect(b, type, given)
         IN  /\ c.max_voffset_ = 0
             /\ LaysOver(W, GetSize(b), c, Item("table", type, value))
<1> DEFINE fields == FieldsOf(type)
           n == Len(fields)
           Make(c, k) == MakeArgument(c, fields[k], given[fields[k].name])
           made == CHOOSE g : g = [k \in 0 .. n |-> IF k = 0 THEN b ELSE Make(g[k - 1], k)]
           Argument(k) == IF fields[k].kind \in {"string", "vector"}
                          THEN made[k].result ELSE given[fields[k].name]
           names == {fields[i].name : i \in DOMAIN fields}
           args == [name \in names |-> Argument(NumberOf(type, name))]
           X == {c \in GoodBuilders : Writes(b, c)}
           step == [x \in X \X (1 .. n) |-> Make(x[1], x[2])]
<1>1. n \in Nat /\ DOMAIN fields = 1 .. n /\ \A i \in 1 .. n : SchemaField(fields[i])
  BY SchemaFields
<1>2. CreateTableDirect(b, type, given) = CreateTable(made[n], type, args)
  BY DEF CreateTableDirect
<1>g. \A i \in 1 .. n : GivenOne(b, fields[i], given[fields[i].name])
  BY DEF GivenBelow
<1>t. \A i \in 1 .. n : value[fields[i].name] = Taken(fields[i], given[fields[i].name])
  OBVIOUS
<1> HIDE DEF n
<1>3. ASSUME NEW c \in X, NEW k \in 1 .. n
      PROVE  /\ Writes(c, Make(c, k)) /\ Make(c, k) \in X
             /\ ArgumentIn(c, Make(c, k), fields[k], Make(c, k).result, value[fields[k].name])
  <2> DEFINE arg == given[fields[k].name]
             f == fields[k]
             e == MakeArgument(c, f, arg)
             v == value[fields[k].name]
  <2>1. Writes(b, c) /\ c \in GoodBuilders
    OBVIOUS
  <2>2. ~c.nested
    BY <2>1 DEF Writes
  <2>3. SchemaField(f) /\ GivenOne(c, f, arg) /\ v = Taken(f, arg)
    BY <1>1, <1>g, <1>t, <2>1, GivenLater
  <2> HIDE DEF f, arg, v
  <2>4. /\ Writes(c, e) /\ e.result \in Nat /\ e.result <= GetSize(e)
        /\ f.kind \in {"string", "vector"} =>
             ArgumentMeans(e.buf_.data, New(c, e), f, e.result, v)
    BY <2>1, <2>2, <2>3, ArgumentIsMade
  <2> HIDE DEF e
  <2>5. Writes(b, e) /\ e \in GoodBuilders /\ ArgumentIn(c, e, f, e.result, v)
    BY <2>1, <2>4, WritesOn, WritesGood DEF ArgumentIn
  <2> QED
    BY <2>4, <2>5 DEF e, f, arg, v
<1> HIDE DEF Make
<1>4. b \in X /\ step \in [X \X (1 .. n) -> X]
  BY <1>3, WritesNothing
<1>5. PICK g : Runs(g, X, n, b, step)
  <2> HIDE DEF step, X
  <2> QED
    BY <1>1, <1>4, StepsExist
<1>6. g = [k \in 0 .. n |-> IF k = 0 THEN b ELSE Make(g[k - 1], k)]
  <2>1. g \in [0 .. n -> X] /\ g[0] = b
        /\ \A k \in 1 .. n : g[k] = step[<<g[k - 1], k>>]
    BY <1>5 DEF Runs
  <2>2. ASSUME NEW k \in 1 .. n PROVE g[k] = Make(g[k - 1], k)
    <3>1. k - 1 \in 0 .. n
      BY <1>1
    <3>2. g[k - 1] \in X /\ g[k] = step[<<g[k - 1], k>>]
      BY <2>1, <3>1
    <3> QED
      BY <3>2
  <2> HIDE DEF X, step
  <2> QED
    BY <1>1, <2>1, <2>2
<1>7. made = [k \in 0 .. n |-> IF k = 0 THEN b ELSE Make(made[k - 1], k)]
  <2> HIDE DEF X, step
  <2> QED
    BY <1>6
<1>13. ASSUME NEW i \in 1 .. n
       PROVE  args[fields[i].name] = Argument(i)
  BY <1>1, NamesDiffer
<1>14. \A i \in 1 .. n : fields[i].name \in names
  BY <1>1
<1> HIDE DEF made, step, args, fields
<1> DEFINE Told(k, i) == ArgumentIn(b, made[k], fields[i], made[i].result, value[fields[i].name])
           S == {k \in 0 .. n : made[k] \in X /\ \A i \in 1 .. k : Told(k, i)}
<1>8. 0 \in S
  <2>1. made[0] = b
    BY <1>1, <1>7
  <2> HIDE DEF X, Told
  <2> QED
    BY <1>1, <1>4, <2>1
<1>9. ASSUME NEW k \in 0 .. (n - 1), k \in S PROVE k + 1 \in S
  <2> DEFINE l == k + 1
  <2>1. /\ l \in 0 .. n /\ l \in 1 .. n /\ l # 0 /\ l - 1 = k
        /\ \A i \in 1 .. l : i = l \/ i \in 1 .. k
    BY <1>1
  <2> HIDE DEF l
  <2>2. made[l] = Make(made[k], l)
    BY <1>7, <2>1
  <2>3. made[k] \in X /\ \A i \in 1 .. k : Told(k, i)
    BY <1>9
  <2>4. /\ Writes(made[k], made[l]) /\ made[l] \in X
        /\ ArgumentIn(made[k], made[l], fields[l], made[l].result, value[fields[l].name])
    <3> HIDE DEF X
    <3> QED
      BY <1>3, <2>1, <2>2, <2>3
  <2>5. Writes(b, made[k])
    BY <2>3
  <2>6. ASSUME NEW i \in 1 .. l PROVE Told(l, i)
    <3>1. CASE i = l
      BY <2>4, <2>5, <3>1, ArgumentSooner
    <3>2. CASE i \in 1 .. k
      <4>1. ArgumentIn(b, made[k], fields[i], made[i].result, value[fields[i].name])
        BY <2>3, <3>2
      <4> QED
        BY <2>4, <2>5, <4>1, ArgumentLater
    <3> QED
      BY <2>1, <3>1, <3>2
  <2> HIDE DEF X, Told
  <2> QED
    BY <2>1, <2>4, <2>6 DEF l
<1>10. n \in S
  <2> HIDE DEF S
  <2>1. \A k \in 0 .. n : k \in S
    BY <1>1, <1>8, <1>9, UpTo
  <2> QED
    BY <1>1, <2>1
<1> DEFINE c == made[n]
           e == CreateTable(c, type, args)
<1>11. Writes(b, c) /\ c \in GoodBuilders /\ \A i \in 1 .. n : Told(n, i)
  BY <1>10
<1>12. ~c.nested /\ c.max_voffset_ = 0
  BY <1>11 DEF Writes
<1>15. GetSize(b) \in Nat /\ GetSize(c) \in Nat /\ GetSize(b) <= GetSize(c)
       /\ b.buf_.data \in Seq(Bytes) /\ c.buf_.data \in Seq(Bytes)
  BY <1>11, WritesGrow, BuilderParts
<1>16. CreateTableDirect(b, type, given) = e
  BY <1>2
<1> HIDE DEF c, S, X
<1>17. ASSUME NEW i \in 1 .. n
       PROVE  ArgumentFor(c, fields[i], args[fields[i].name])
  <2>1. fields[i].kind \in {"scalar", "string", "table", "vector"}
    BY <1>1 DEF SchemaField
  <2>2. GivenOne(b, fields[i], given[fields[i].name])
    BY <1>g
  <2>3. Told(n, i)
    BY <1>11
  <2>4. CASE fields[i].kind = "scalar"
    BY <1>13, <2>2, <2>4 DEF GivenOne, ArgumentFor
  <2>5. CASE fields[i].kind = "table"
    <3>1. given[fields[i].name] \in Nat /\ given[fields[i].name] <= GetSize(b)
      BY <2>2, <2>5 DEF GivenOne
    <3>2. given[fields[i].name] <= GetSize(c)
      BY <1>15, <3>1
    <3> QED
      BY <1>13, <2>5, <3>1, <3>2 DEF ArgumentFor
  <2>6. CASE fields[i].kind \in {"string", "vector"}
    <3>1. args[fields[i].name] = made[i].result
      BY <1>13, <2>6
    <3> QED
      BY <2>3, <2>6, <3>1 DEF ArgumentFor, ArgumentIn, c
  <2> QED
    BY <2>1, <2>4, <2>5, <2>6
<1> DEFINE Y == Plain(W, GetSize(b), GetSize(c))
<1>18. Extends(W, GetSize(b), Y, GetSize(c)) /\ New(b, c) \subseteq Own(Y, Fixed)
  BY <1>11, PlainTags
<1> HIDE DEF Y
<1>19. VTables(c, Y) /\ Y \in [1 .. GetSize(c) -> Tags]
  <2>1. Y \in [1 .. GetSize(c) -> Tags]
    BY <1>18 DEF Extends
  <2>2. VTables(c, Y)
    BY <1>11, <1>18, WritesVTables
  <2> QED
    BY <2>1, <2>2
<1>20. Means(c, Y, type, args, value)
  <2>1. ASSUME NEW i \in 1 .. n
        PROVE  ArgumentMeans(c.buf_.data, Own(Y, Fixed), fields[i], args[fields[i].name],
                             value[fields[i].name])
    <3>1. CASE fields[i].kind \in {"string", "vector"}
      <4>1. args[fields[i].name] = made[i].result
        BY <1>13, <3>1
      <4>2. ArgumentMeans(c.buf_.data, New(b, c), fields[i], made[i].result,
                          value[fields[i].name])
        BY <1>11, <3>1 DEF ArgumentIn, c
      <4>3. Agree(c.buf_.data, c.buf_.data, New(b, c))
        BY <1>15 DEF Agree
      <4> QED
        BY <1>15, <1>18, <4>1, <4>2, <4>3, ArgumentOn
    <3>2. CASE fields[i].kind \notin {"string", "vector"}
      <4>1. args[fields[i].name] = value[fields[i].name]
        BY <1>13, <1>t, <3>2 DEF Taken
      <4>2. fields[i].kind # "string" /\ fields[i].kind # "vector"
        BY <3>2
      <4> QED
        BY <4>1, <4>2 DEF ArgumentMeans
    <3> QED
      BY <3>1, <3>2
  <2> QED
    BY <2>1 DEF Means, fields, n
<1>21. e.max_voffset_ = 0 /\ LaysOver(Y, GetSize(c), e, Item("table", type, value))
  <2>1. \A i \in 1 .. Len(FieldsOf(type)) :
          ArgumentFor(c, FieldsOf(type)[i], args[FieldsOf(type)[i].name])
    BY <1>17 DEF fields, n
  <2> QED
    BY <1>11, <1>12, <1>19, <1>20, <2>1, TableLays
<1> HIDE DEF e
<1>22. LaysOver(W, GetSize(b), e, Item("table", type, value))
  <2>1. PICK Z : /\ Extends(Y, GetSize(c), Z, GetSize(e)) /\ VTables(e, Z)
                 /\ ObjectLaid(e.buf_.data, Z, e.result, Item("table", type, value))
    BY <1>21 DEF LaysOver
  <2>2. Extends(W, GetSize(b), Z, GetSize(e))
    <3>1. \A o \in 1 .. GetSize(b) : o \in 1 .. GetSize(c)
      BY <1>15
    <3> QED
      BY <1>18, <2>1, <3>1 DEF Extends
  <2> QED
    BY <2>1, <2>2 DEF LaysOver
<1> QED
  BY <1>16, <1>21, <1>22

\* The builder finds a string that is there.
LEMMA StringFound ==
  ASSUME NEW v, v.data \in Seq(Bytes), NEW S, NEW off, NEW s, StringLaid(v.data, S, off, s),
         Len(s) <= MaxBufferSize
  PROVE  StringAt(v, off) = s
<1>1. Has(v.data, S, off, Scalar(Len(s), 4)) /\ Has(v.data, S, off - 4, s)
  BY DEF StringLaid
<1>2. s \in Seq(Bytes) /\ Len(s) \in Nat
  BY <1>1 DEF Has
<1>3. Len(s) \in Int
  BY <1>2
<1>4. Len(Scalar(Len(s), 4)) = 4
  BY <1>3, ScalarBytes
<1>5. data_at(v, off, 4) = Scalar(Len(s), 4)
  BY <1>1, <1>4, HasDataAt
<1>6. Value(Scalar(Len(s), 4)) = Len(s)
  <2>1. Len(s) \in 0 .. (Places[5] - 1)
    BY <1>2, BufferLimit
  <2> QED
    BY <2>1, ValueOfFour
<1>7. data_at(v, off - 4, Len(s)) = s
  BY <1>1, HasDataAt
<1> QED
  BY <1>5, <1>6, <1>7 DEF StringAt, uoffset

\* The strings of the pool are there.
PoolLaid(b, W) ==
  \A off \in b.string_pool : \E s : /\ StringLaid(b.buf_.data, Own(W, Fixed), off, s)
                                    /\ Len(s) <= MaxBufferSize

\* A string that is shared: one that is new, or one of the pool with the same characters.
LEMMA SharedLays ==
  ASSUME NEW b \in GoodBuilders, NEW str \in Seq(Bytes), Len(str) <= MaxBufferSize,
         NEW W \in [1 .. GetSize(b) -> Tags], VTables(b, W), PoolLaid(b, W)
  PROVE  LET c == CreateSharedString(b, str)
         IN  /\ c.max_voffset_ = b.max_voffset_
             /\ LaysOver(W, GetSize(b), c, Item("string", "-", str))
<1> DEFINE a == CreateString(b, str)
           c == [a EXCEPT !.pool_buf = IF @ = "none" THEN "own" ELSE @]
           same == SharedWith(c)
           new == [c EXCEPT !.string_pool = @ \cup {c.result}]
           n == size(c.buf_) - GetSize(b)
           v == pop(c.buf_, n)
           o == CHOOSE o \in same : TRUE
           old == [c EXCEPT !.buf_ = v, !.result = o]
           item == Item("string", "-", str)
<1>1. /\ Writes(b, a) /\ a \in GoodBuilders /\ a.result = GetSize(a)
      /\ GetSize(a) > GetSize(b) /\ GetSize(b) \in Nat /\ GetSize(a) \in Nat
      /\ StringLaid(a.buf_.data, New(b, a), GetSize(a), str)
  BY StringIsLaid
<1>2. Lays(b, a, item)
  BY StringLays
<1> HIDE DEF a
<1>3. a \in Builders /\ b.buf_.data \in Seq(Bytes) /\ a.buf_.data \in Seq(Bytes)
  BY <1>1, BuilderParts
<1>4. /\ c \in Builders /\ c.buf_ = a.buf_ /\ c.num_field_loc = a.num_field_loc
      /\ c.max_voffset_ = a.max_voffset_ /\ c.string_pool = a.string_pool
      /\ c.result = a.result
  BY <1>3 DEF Builders
<1>5. CreateSharedString(b, str) = IF same = {} THEN new ELSE old
  <2>1. [[c EXCEPT !.buf_ = pop(@, size(@) - GetSize(b))] EXCEPT !.result = o] = old
    BY <1>4 DEF Builders
  <2> QED
    BY <2>1 DEF CreateSharedString, Return, a
<1> HIDE DEF c
<1>6. LaysOver(W, GetSize(b), a, item) /\ a.max_voffset_ = b.max_voffset_
  BY <1>2 DEF Lays, LaysOver
<1>7. new.max_voffset_ = b.max_voffset_ /\ LaysOver(W, GetSize(b), new, item)
  <2>1. /\ new.buf_ = a.buf_ /\ new.num_field_loc = a.num_field_loc /\ new.result = a.result
        /\ new.max_voffset_ = a.max_voffset_
    BY <1>4 DEF Builders
  <2> HIDE DEF new, item
  <2>2. PICK X : /\ Extends(W, GetSize(b), X, GetSize(a)) /\ VTables(a, X)
                 /\ ObjectLaid(a.buf_.data, X, a.result, item)
    BY <1>6 DEF LaysOver
  <2>3. GetSize(new) = GetSize(a)
    BY <2>1 DEF GetSize
  <2>4. VTables(new, X)
    BY <2>1, <2>2 DEF VTables, First
  <2> QED
    BY <1>6, <2>1, <2>2, <2>3, <2>4 DEF LaysOver
<1>8. ASSUME same # {} PROVE old.max_voffset_ = b.max_voffset_ /\ LaysOver(W, GetSize(b), old, item)
  <2>1. o \in a.string_pool /\ StringAt(c.buf_, o) = StringAt(c.buf_, c.result)
    <3>1. o \in same
      BY <1>8
    <3> QED
      BY <1>4, <3>1 DEF SharedWith
  <2>2. o \in b.string_pool
    BY <1>1, <2>1 DEF Writes
  <2>3. PICK s : StringLaid(b.buf_.data, Own(W, Fixed), o, s) /\ Len(s) <= MaxBufferSize
    BY <2>2 DEF PoolLaid
  <2>4. Kept(b.buf_.data, a.buf_.data)
    BY <1>1 DEF Writes
  <2>5. StringLaid(a.buf_.data, Own(W, Fixed), o, s)
    BY <1>3, <2>3, <2>4, KeptAgrees, StringOn
  <2>6. s = str
    <3>1. StringAt(a.buf_, o) = s
      BY <1>3, <2>3, <2>5, StringFound
    <3>2. StringAt(a.buf_, a.result) = str
      BY <1>1, <1>3, StringFound
    <3> QED
      BY <1>4, <2>1, <3>1, <3>2
  <2>7. /\ n \in Nat /\ n = Len(a.buf_.data) - Len(b.buf_.data)
        /\ Len(a.buf_.data) \in Nat /\ Len(b.buf_.data) \in Nat
        /\ Len(b.buf_.data) <= Len(a.buf_.data)
    BY <1>1, <1>3, <1>4 DEF GetSize, size
  <2> HIDE DEF n, o, same
  <2>8. SubSeq(a.buf_.data, n + 1, Len(a.buf_.data)) = b.buf_.data
    <3> DEFINE d == a.buf_.data
               e == b.buf_.data
               f == SubSeq(d, n + 1, Len(d))
    <3>1. d \in Seq(Bytes) /\ e \in Seq(Bytes) /\ n = Len(d) - Len(e) /\ n \in Nat
          /\ Len(d) \in Nat /\ Len(e) \in Nat
      BY <1>3, <2>7
    <3>2. \A i \in 1 .. Len(e) : d[Len(d) - Len(e) + i] = e[i]
      <4>1. DOMAIN e = 1 .. Len(e)
        BY <3>1
      <4> QED
        BY <2>4, <4>1 DEF Kept
    <3> HIDE DEF d, e
    <3>3. Len(f) = Len(e) /\ f \in Seq(Bytes) /\ \A i \in 1 .. Len(e) : f[i] = d[n + i]
      BY <3>1
    <3> HIDE DEF f
    <3>4. f = e
      BY <3>1, <3>2, <3>3
    <3> QED
      BY <3>4 DEF f, d, e
  <2>9. a.buf_ \in Vectors
    BY <1>1, BuilderParts
  <2>10. v.data = b.buf_.data /\ v.scratch = b.buf_.scratch
    <3>1. v = [a.buf_ EXCEPT !.data = SubSeq(@, n + 1, Len(@))]
      BY <1>4 DEF pop
    <3> HIDE DEF v
    <3>2. v.data = SubSeq(a.buf_.data, n + 1, Len(a.buf_.data)) /\ v.scratch = a.buf_.scratch
      BY <2>9, <3>1 DEF Vectors
    <3> QED
      BY <1>1, <2>8, <3>2 DEF Writes
  <2> HIDE DEF v
  <2>11. /\ old.buf_ = v /\ old.result = o /\ old.num_field_loc = b.num_field_loc
         /\ old.max_voffset_ = b.max_voffset_
    <3>1. c.num_field_loc = b.num_field_loc /\ c.max_voffset_ = b.max_voffset_
      BY <1>1, <1>4 DEF Writes
    <3> QED
      BY <1>4, <3>1 DEF Builders
  <2> HIDE DEF old
  <2>12. GetSize(old) = GetSize(b) /\ old.buf_.data = b.buf_.data
    BY <2>10, <2>11 DEF GetSize, size
  <2>13. VTables(old, W)
    <3>1. First(old) = First(b) /\ old.buf_.scratch = b.buf_.scratch
      BY <2>10, <2>11 DEF First
    <3> QED
      BY <2>12, <3>1 DEF VTables
  <2>14. ObjectLaid(old.buf_.data, W, old.result, item)
    BY <2>3, <2>6, <2>11, <2>12 DEF ObjectLaid, Item
  <2>15. Extends(W, GetSize(b), W, GetSize(old))
    BY <2>12 DEF Extends
  <2> QED
    BY <2>11, <2>13, <2>14, <2>15 DEF LaysOver
<1> QED
  BY <1>5, <1>7, <1>8
=============================================================================
