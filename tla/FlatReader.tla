------------------------------ MODULE FlatReader ------------------------------
(***************************************************************************)
(* Reading a finished buffer (flatbuffers.h: Table, Vector, String,        *)
(* Verifier).  A buffer is a sequence of bytes; a pointer into it is a     *)
(* position, 0 for its first byte.                                         *)
(***************************************************************************)
EXTENDS VectorDownward, FlatSchema, FiniteSets

\* What lies outside of the buffer is read as 0.
ReadBytes(buf, pos, n) ==
  [i \in 1 .. n |-> IF pos + i \in DOMAIN buf THEN buf[pos + i] ELSE 0]

ReadScalar(buf, pos, n) == Value(ReadBytes(buf, pos, n))
InBuffer(buf, pos, n) == pos >= 0 /\ pos + n <= Len(buf)

WriteScalar(buf, pos, bytes) ==
  [i \in DOMAIN buf |-> IF i - pos \in DOMAIN bytes THEN bytes[i - pos] ELSE buf[i]]

----------------------------------------------------------------------------
(* Tables.                                                                 *)

GetVTable(buf, table) == table - Signed(ReadBytes(buf, table, uoffset))

GetOptionalFieldOffset(buf, table, field) ==
  LET vtable == GetVTable(buf, table)
  IN  IF field < ReadScalar(buf, vtable, voffset)
      THEN ReadScalar(buf, vtable + field, voffset) ELSE 0

CheckField(buf, table, field) == GetOptionalFieldOffset(buf, table, field) # 0

GetField(buf, table, field, width, default) ==
  IF CheckField(buf, table, field)
  THEN ReadBytes(buf, table + GetOptionalFieldOffset(buf, table, field), width)
  ELSE default

Null == -1

Deref(buf, pos) == pos + ReadScalar(buf, pos, uoffset)

GetPointer(buf, table, field) ==
  IF CheckField(buf, table, field)
  THEN Deref(buf, table + GetOptionalFieldOffset(buf, table, field)) ELSE Null

\* The buffer after SetField, which a field that is not stored does not change.
SetField(buf, table, field, bytes, default) ==
  IF CheckField(buf, table, field)
  THEN WriteScalar(buf, table + GetOptionalFieldOffset(buf, table, field), bytes) ELSE buf

\* What SetField returns.
FieldIsSet(buf, table, field, bytes, default) ==
  CheckField(buf, table, field) \/ bytes = default

----------------------------------------------------------------------------
(* Vectors and strings.                                                    *)

VectorSize(buf, vec) == ReadScalar(buf, vec, uoffset)

\* Where element i (from 0) is stored.
ElementAt(vec, i, stride) == vec + uoffset + i * stride

GetElement(buf, vec, i, stride) == ReadBytes(buf, ElementAt(vec, i, stride), stride)
GetReference(buf, vec, i) == Deref(buf, ElementAt(vec, i, uoffset))

\* The buffer after Mutate.
MutateElement(buf, vec, i, bytes) == WriteScalar(buf, ElementAt(vec, i, Len(bytes)), bytes)

\* What an iteration from begin to end yields.
Elements(buf, vec, stride) ==
  [i \in 1 .. VectorSize(buf, vec) |-> GetElement(buf, vec, i - 1, stride)]
References(buf, vec) == [i \in 1 .. VectorSize(buf, vec) |-> GetReference(buf, vec, i - 1)]

GetString(buf, str) == ReadBytes(buf, str + uoffset, VectorSize(buf, str))

\* What strlen and strcmp take of the characters s, which a 0 follows: those before
\* the first 0.
CString(s) ==
  SubSeq(s, 1, Cardinality({i \in DOMAIN s : \A j \in 1 .. i : s[j] # 0}))

\* memcmp of the common length, then the lengths; also strcmp, of C strings.
StringLessThan(a, b) ==
  \/ \E i \in DOMAIN a \cap DOMAIN b :
       a[i] < b[i] /\ \A j \in 1 .. i - 1 : a[j] = b[j]
  \/ Len(a) < Len(b) /\ \A j \in DOMAIN a : a[j] = b[j]

\* A signed scalar from its highest byte, such that the order of the numbers is
\* the one of StringLessThan.
Ordered(bytes) ==
  [i \in DOMAIN bytes |->
     IF i = 1 THEN (bytes[Len(bytes)] + Base \div 2) % Base ELSE bytes[Len(bytes) + 1 - i]]

KeyField(type) == FieldsOf(type)[NumberOf(type, Tables[type].key)]

\* The key of a table: a string, whole or up to its first 0, or a scalar.
Key(buf, type, table, whole) ==
  LET field == FieldIndexToOffset(NumberOf(type, Tables[type].key) - 1)
      f == KeyField(type)
      str == GetPointer(buf, table, field)
  IN  IF f.kind = "scalar"
      THEN Ordered(GetField(buf, table, field, f.width, Scalar(f.default, f.width)))
      ELSE IF whole THEN GetString(buf, str) ELSE CString(GetString(buf, str))

KeyCompareLessThan(buf, type, a, b) ==
  StringLessThan(Key(buf, type, a, TRUE), Key(buf, type, b, TRUE))

\* What is compared of the value that a client looks up: a string is a const char*.
SearchKey(type, val) == IF KeyField(type).kind = "string" THEN CString(val) ELSE val

\* Negative, 0 or positive; strcmp stops at the first 0 of each string.
KeyCompareWithValue(buf, type, table, val) ==
  LET key == Key(buf, type, table, FALSE)
      wanted == SearchKey(type, val)
  IN  IF StringLessThan(key, wanted) THEN -1 ELSE IF StringLessThan(wanted, key) THEN 1 ELSE 0

\* bsearch: what it finds in the elements from low up to high, or Null.
BSearch(buf, vec, type, val) ==
  LET found[low \in Nat, high \in Nat] ==
        IF low = high THEN Null
        ELSE LET middle == (low + high) \div 2
                 table == GetReference(buf, vec, middle)
                 cmp == KeyCompareWithValue(buf, type, table, val)
             IN  IF cmp = 0 THEN table
                 ELSE IF cmp > 0 THEN found[low, middle] ELSE found[middle + 1, high]
  IN  found

LookupByKey(buf, vec, type, val) == BSearch(buf, vec, type, val)[0, VectorSize(buf, vec)]
=============================================================================
