----------------------------- MODULE FlatVerifier -----------------------------
(***************************************************************************)
(* Verifier (flatbuffers.h) and the Verify methods of the generated        *)
(* tables.  A position below 0 stands for one that wrapped around; the     *)
(* buffers are too small to reach the limits of VerifyComplexity (64       *)
(* levels, 1000000 tables).                                                *)
(***************************************************************************)
EXTENDS FlatReader

MaxBufferSize == Places[uoffset + 1] \div 2 - 1

Verify(buf, elem, elem_len) ==
  elem_len < Len(buf) /\ elem >= 0 /\ elem <= Len(buf) - elem_len

VerifyAlignment(elem, width) == elem % width = 0

VerifyScalar(buf, elem, width) == VerifyAlignment(elem, width) /\ Verify(buf, elem, width)

\* Whether VerifyOffset returns an offset other than 0.
VerifyOffset(buf, start) ==
  /\ VerifyScalar(buf, start, uoffset)
  /\ ReadScalar(buf, start, uoffset) \in 1 .. MaxBufferSize
  /\ Verify(buf, Deref(buf, start), 1)

VerifyVectorOrString(buf, vec, elem_size) ==
  /\ VerifyScalar(buf, vec, uoffset)
  /\ VectorSize(buf, vec) < MaxBufferSize \div elem_size
  /\ Verify(buf, vec, uoffset + elem_size * VectorSize(buf, vec))

VerifyString(buf, str) ==
  /\ VerifyVectorOrString(buf, str, 1)
  /\ LET end == ElementAt(str, VectorSize(buf, str), 1)
     IN  Verify(buf, end, 1) /\ ReadBytes(buf, end, 1) = <<0>>

\* Not the code: the size of the vtable is taken on trust.
VerifyTableStart_NoExtent(buf, table) ==
  /\ VerifyScalar(buf, table, uoffset)
  /\ VerifyScalar(buf, GetVTable(buf, table), voffset)

VerifyTableStart(buf, table) ==
  /\ VerifyScalar(buf, table, uoffset)
  /\ LET vtable == GetVTable(buf, table)
     IN  /\ VerifyScalar(buf, vtable, voffset)
         /\ VerifyAlignment(ReadScalar(buf, vtable, voffset), voffset)
         /\ Verify(buf, vtable, ReadScalar(buf, vtable, voffset))

\* VerifyField, which does not look at the alignment.
VerifyField(buf, table, field, width) ==
  CheckField(buf, table, field) =>
    Verify(buf, table + GetOptionalFieldOffset(buf, table, field), width)

\* VerifyOffset and VerifyOffsetRequired of a field.
VerifyOffsetField(buf, table, field, required) ==
  IF CheckField(buf, table, field)
  THEN VerifyOffset(buf, table + GetOptionalFieldOffset(buf, table, field)) ELSE ~required

\* What a field refers to; tables[<<t, of>>] says whether the table at t verifies.
VerifyTarget(tables, buf, f, target) ==
  target # Null =>
    CASE f.kind = "string" -> VerifyString(buf, target)
      [] f.kind = "table" -> tables[<<target, f.of>>]
      [] f.kind = "vector" ->
           /\ VerifyVectorOrString(buf, target, uoffset)
           /\ \A i \in 0 .. VectorSize(buf, target) - 1 :
                IF f.of = "string" THEN VerifyString(buf, GetReference(buf, target, i))
                ELSE tables[<<GetReference(buf, target, i), f.of>>]

\* The Verify method of a generated table: the start, then every field.
TableVerifies(tables, buf, table, type) ==
  /\ VerifyTableStart(buf, table)
  /\ \A i \in DOMAIN FieldsOf(type) :
       LET f == FieldsOf(type)[i]
           field == FieldIndexToOffset(i - 1)
       IN  IF f.kind = "scalar" THEN VerifyField(buf, table, field, f.width)
           ELSE /\ VerifyOffsetField(buf, table, field, f.name \in Tables[type].required)
                /\ VerifyTarget(tables, buf, f, GetPointer(buf, table, field))

VerifyTable(buf, table, type) ==
  LET tables[p \in Nat \X DOMAIN Tables] == TableVerifies(tables, buf, p[1], p[2])
  IN  tables[<<table, type>>]

----------------------------------------------------------------------------

GetRoot(buf, start) == Deref(buf, start)
Prefix(size_prefix) == IF size_prefix THEN uoffset ELSE 0

BufferHasIdentifier(buf, start, identifier) ==
  ReadBytes(buf, start + uoffset, Len(identifier)) = identifier

VerifyBufferFromStart(buf, type, identifier, start) ==
  /\ identifier # <<>> => /\ Len(buf) >= 2 * uoffset
                          /\ BufferHasIdentifier(buf, start, identifier)
  /\ VerifyOffset(buf, start)
  /\ VerifyTable(buf, GetRoot(buf, start), type)

VerifyBuffer(buf, type, identifier, size_prefix) ==
  /\ size_prefix => /\ VerifyScalar(buf, 0, uoffset)
                    /\ ReadScalar(buf, 0, uoffset) = Len(buf) - uoffset
  /\ VerifyBufferFromStart(buf, type, identifier, Prefix(size_prefix))

MaxAlignment == 16

\* The start of the buffer found from its root: one of the five words below the
\* root and its vtable that, read as an offset, leads to the root.
GetBufferStartFromRootPointer(buf, root) ==
  LET vtable == GetVTable(buf, root)
      lowest == IF vtable < root THEN vtable ELSE root
      Word(k) == (lowest - (lowest % uoffset)) - k * uoffset
      found == {k \in 1 .. MaxAlignment \div uoffset + 1 :
                  Word(k) >= 0 /\ Deref(buf, Word(k)) = root}
  IN  IF found = {} THEN Null ELSE Word(CHOOSE k \in found : \A l \in found : k <= l)
=============================================================================
