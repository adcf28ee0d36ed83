-------------------------- MODULE FlatBufferBuilder --------------------------
(***************************************************************************)
(* FlatBufferBuilder (flatbuffers.h): a buffer is written from its end to  *)
(* its start.  A builder is a record of the fields of the class, and an    *)
(* operation maps the builder before to the builder after, where result is *)
(* the offset it returned.                                                 *)
(*                                                                         *)
(* Scalars are sequences of bytes, strings sequences of characters.        *)
(* string_pool is {} also when there is none yet; pool_buf says whose      *)
(* buffer its comparator reads, "none", "own" or that of an "other"        *)
(* builder.                                                                *)
(***************************************************************************)
EXTENDS VectorDownward

NewBuilder ==
  [buf_ |-> Empty, num_field_loc |-> 0, max_voffset_ |-> 0, nested |-> FALSE,
   finished |-> FALSE, minalign_ |-> 1, force_defaults_ |-> FALSE,
   dedup_vtables_ |-> TRUE, string_pool |-> {}, pool_buf |-> "none", result |-> 0]

GetSize(b) == size(b.buf_)
Return(b, off) == [b EXCEPT !.result = off]
ReturnSize(b) == Return(b, GetSize(b))

\* The bytes of elements of the same width, one element after the other.
Joined(elems, width) ==
  [i \in 1 .. Len(elems) * width |-> elems[(i - 1) \div width + 1][((i - 1) % width) + 1]]

\* ((~n) + 1) & (s - 1), for s up to 32.
PaddingBytes(n, s) ==
  LET Bit(m, p) == (m \div p) % 2
      And(p) == p * Bit(-n, p) * Bit(s - 1, p)
  IN  And(1) + And(2) + And(4) + And(8) + And(16)

----------------------------------------------------------------------------

TrackMinAlign(b, elem_size) == [b EXCEPT !.minalign_ = Larger(@, elem_size)]

\* Not the code: the length of what follows is not counted.
PreAlign_NoLength(b, len, alignment) ==
  [TrackMinAlign(b, alignment) EXCEPT !.buf_ = fill(@, PaddingBytes(size(@), alignment))]

\* Aligns such that an object can follow when len bytes have been written.
PreAlign(b, len, alignment) ==
  [TrackMinAlign(b, alignment) EXCEPT !.buf_ = fill(@, PaddingBytes(size(@) + len, alignment))]

\* Not the code: the alignment is not remembered.
Align_Forgets(b, elem_size) ==
  [b EXCEPT !.buf_ = fill(@, PaddingBytes(size(@), elem_size))]

Align(b, elem_size) ==
  [TrackMinAlign(b, elem_size) EXCEPT !.buf_ = fill(@, PaddingBytes(size(@), elem_size))]

PushBytes(b, bytes) == [b EXCEPT !.buf_ = push(@, bytes)]

PushElement(b, scalar) == PushBytes(Align(b, Len(scalar)), scalar)

\* ReferTo, and PushElement of its result.
PushOffset(b, off) ==
  LET c == Align(b, uoffset)
  IN  PushElement(c, Scalar(GetSize(c) - off + uoffset, uoffset))

\* Every offset of a sequence, the last one first.
PushOffsets(b, offs) ==
  LET after[i \in 0 .. Len(offs)] ==
        IF i = 0 THEN b ELSE PushOffset(after[i - 1], offs[Len(offs) + 1 - i])
  IN  after[Len(offs)]

\* off and id of a FieldLoc, one word each.
TrackField(b, field, off) ==
  [b EXCEPT !.buf_ = scratch_push(@, <<off, field>>),
            !.num_field_loc = @ + 1,
            !.max_voffset_ = Larger(@, field)]

AddElement(b, field, e, def) ==
  IF e = def /\ ~b.force_defaults_ THEN b
  ELSE LET c == PushElement(b, e) IN TrackField(c, field, GetSize(c))

AddOffset(b, field, off) ==
  IF off = 0 THEN b
  ELSE LET c == PushOffset(b, off) IN TrackField(c, field, GetSize(c))

ClearOffsets(b) ==
  [b EXCEPT !.buf_ = scratch_pop(@, 2 * b.num_field_loc),
            !.num_field_loc = 0, !.max_voffset_ = 0]

\* The assertions of NotNested and Finished.
NotNested(b) == ~b.nested /\ b.num_field_loc = 0
Finished(b) == b.finished

\* Not the code: the start of a table is not noted.
StartTable_Unnoted(b) == b

StartTable(b) == [b EXCEPT !.nested = TRUE]

\* The fields of the table being built: a function from their ids to the
\* offsets at which they are.  (Setting a field twice is asserted against.)
FieldLocs(b) ==
  LET words == b.buf_.scratch
      first == Len(words) - 2 * b.num_field_loc
      Id(i) == words[first + 2 * i]
      ids == {Id(i) : i \in 1 .. b.num_field_loc}
  IN  [id \in ids |-> LET i == CHOOSE i \in 1 .. b.num_field_loc : Id(i) = id
                      IN  words[first + 2 * i - 1]]

\* The vtable of a table from loc down to start: its size, the size of the
\* table, and where each field is, 0 for those that are not stored.
VTable(b, start, loc) ==
  LET fields == FieldLocs(b)
      length == Larger(b.max_voffset_ + voffset, FieldIndexToOffset(0))
      Entry(k) == CASE k = 0 -> length
                    [] k = 1 -> loc - start
                    [] OTHER -> IF voffset * k \in DOMAIN fields
                                THEN loc - fields[voffset * k] ELSE 0
  IN  Joined([k \in 1 .. length \div voffset |-> Scalar(Entry(k - 1), voffset)], voffset)

\* Not the code: vtables of the same size are taken to be equal.
SameVTable_BySize(v, off, vtable) == data_at(v, off, voffset) = SubSeq(vtable, 1, voffset)

\* A vtable starts with its size.
SameVTable(v, off, vtable) ==
  /\ data_at(v, off, voffset) = SubSeq(vtable, 1, voffset)
  /\ data_at(v, off, Len(vtable)) = vtable

\* The offset of the first vtable written with the same layout, or 0.
KnownVTable(b, vtable) ==
  LET known == {i \in DOMAIN b.buf_.scratch : SameVTable(b.buf_, b.buf_.scratch[i], vtable)}
  IN  IF known = {} \/ ~b.dedup_vtables_ THEN 0
      ELSE b.buf_.scratch[CHOOSE i \in known : \A j \in known : i <= j]

\* The vtable is written and, if it is not new, popped again; then the table's
\* first field is set to point to it.
EndTable(b, start) ==
  LET withOffset == PushElement(b, Scalar(0, uoffset))
      loc == GetSize(withOffset)
      vtable == VTable(b, start, loc)
      written == ClearOffsets(PushBytes(withOffset, vtable))
      known == KnownVTable(written, vtable)
      vt_use == IF known = 0 THEN GetSize(written) ELSE known
      kept == IF known = 0 THEN scratch_push(written.buf_, <<vt_use>>)
                           ELSE pop(written.buf_, Len(vtable))
  IN  [written EXCEPT !.buf_ = WriteAt(kept, loc, Scalar(vt_use - loc, uoffset)),
                      !.nested = FALSE, !.result = loc]
----------------------------------------------------------------------------

\* Not the code: nothing follows the characters.
CreateString_Unterminated(b, str) ==
  LET c == [PreAlign(b, Len(str), uoffset) EXCEPT !.buf_ = push(@, str)]
  IN  ReturnSize(PushElement(c, Scalar(Len(str), uoffset)))

\* A 0 follows the characters.
CreateString(b, str) ==
  LET c == [PreAlign(b, Len(str) + 1, uoffset) EXCEPT !.buf_ = push(fill(@, 1), str)]
  IN  ReturnSize(PushElement(c, Scalar(Len(str), uoffset)))

\* The characters of the string at an offset.
StringAt(v, off) == data_at(v, off - uoffset, Value(data_at(v, off, uoffset)))

\* Strings are compared through the builder that made the pool.
PoolReadable(b) == b.pool_buf # "other" \/ b.string_pool = {}

SharedWith(b) == {o \in b.string_pool : StringAt(b.buf_, o) = StringAt(b.buf_, b.result)}

\* The string is written, and popped again if the pool has it; then the offset
\* of the one in the pool is returned.
CreateSharedString(b, str) ==
  LET c == [CreateString(b, str) EXCEPT !.pool_buf = IF @ = "none" THEN "own" ELSE @]
      same == SharedWith(c)
  IN  IF same = {} THEN [c EXCEPT !.string_pool = @ \cup {c.result}]
      ELSE Return([c EXCEPT !.buf_ = pop(@, size(@) - GetSize(b))], CHOOSE o \in same : TRUE)

StartVector(b, len, elemsize) ==
  [PreAlign(PreAlign(b, len * elemsize, uoffset), len * elemsize, elemsize)
     EXCEPT !.nested = TRUE]

EndVector(b, len) ==
  ReturnSize(PushElement([b EXCEPT !.nested = FALSE], Scalar(len, uoffset)))

\* Of scalars.
CreateVector(b, elems, elemsize) ==
  EndVector(PushBytes(StartVector(b, Len(elems), elemsize), Joined(elems, elemsize)), Len(elems))

CreateVectorOfOffsets(b, offs) ==
  EndVector(PushOffsets(StartVector(b, Len(offs), uoffset), offs), Len(offs))

\* Of structs of the given size and alignment.
CreateVectorOfStructs(b, structs, structSize, alignment) ==
  EndVector(PushBytes(StartVector(b, (Len(structs) * structSize) \div alignment, alignment),
                      Joined(structs, structSize)),
            Len(structs))

\* The vector aligns by the size of the struct, whatever its alignment; the
\* caller then writes the structs.
CreateUninitializedVectorOfStructs(b, structs, structSize) ==
  CreateVector(b, structs, structSize)

CreateStruct(b, bytes, alignment) == ReturnSize(PushBytes(Align(b, alignment), bytes))
----------------------------------------------------------------------------

\* An empty identifier stands for none.
Finish(b, root, identifier, size_prefix) ==
  LET header == (IF size_prefix THEN uoffset ELSE 0) + uoffset + Len(identifier)
      d == [b EXCEPT !.buf_ = clear_scratch(@)]
      c == PushOffset(PushBytes(PreAlign(d, header, b.minalign_), identifier), root)
  IN  [IF size_prefix THEN PushElement(c, Scalar(GetSize(c), uoffset)) ELSE c
         EXCEPT !.finished = TRUE]

\* Not the code: the pool of shared strings survives.
Clear_KeepsPool(b) ==
  [ClearOffsets(b) EXCEPT !.buf_ = clear(@), !.nested = FALSE, !.finished = FALSE,
                          !.minalign_ = 1]

\* force_defaults_ and dedup_vtables_ stay.
Clear(b) ==
  [ClearOffsets(b) EXCEPT !.buf_ = clear(@), !.nested = FALSE, !.finished = FALSE,
                          !.minalign_ = 1, !.string_pool = {}]

Reset(b) == [Clear(b) EXCEPT !.buf_ = reset(@)]

\* The buffer goes to the caller; finished, minalign_ and the pool stay.
Release(b) == [b EXCEPT !.buf_ = release(@)]

\* Not the code: the alignment stays behind.
Moved_LosesAlign(b) == [b EXCEPT !.minalign_ = 1]

\* A new builder after Swap with this one: every field, and the pool, whose
\* comparator goes on reading the buffer of the builder that was left.
Moved(b) == [b EXCEPT !.pool_buf = IF @ = "none" THEN @ ELSE "other"]

ForceDefaults(b, fd) == [b EXCEPT !.force_defaults_ = fd]
DedupVtables(b, dedup) == [b EXCEPT !.dedup_vtables_ = dedup]
=============================================================================
