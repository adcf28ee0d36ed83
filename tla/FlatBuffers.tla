------------------------------ MODULE FlatBuffers ------------------------------
(***************************************************************************)
(* A client of the FlatBufferBuilder of a session: it makes objects in the *)
(* order of a script, finishes the buffer, sends it in a packet, changes   *)
(* it, and uses the builder again.  objects remembers what was made at     *)
(* which offset; the reader must find the same there.                      *)
(***************************************************************************)
EXTENDS FlatCreate, SequencesExt

CONSTANTS
  Scripts,     \* sequences of calls <<operation, operand>>
  Strings,     \* the strings that calls choose from
  PacketRoom   \* MaxSize_ of the CDataBuffer a packet is assembled in

ASSUME ClientAssumption ==
  /\ Base >= 16
  /\ Strings \subseteq Seq(Bytes)
  /\ Scripts \subseteq Seq(STRING \X STRING)
  /\ PacketRoom \in Nat

VARIABLES fbb, objects, adding, todo, root, packet, received

vars == <<fbb, objects, adding, todo, root, packet, received>>

P == INSTANCE PacketBuffer

Nothing == [x \in {} |-> x]
NoRoot == [off |-> 0, type |-> "none", identifier |-> <<>>, prefixed |-> FALSE]
NoPacket == [via |-> "none", buffer |-> P!AllocateBuffer(0), data |-> <<>>]

buf == fbb.buf_.data
Pos(off) == Position(fbb, off)

Init ==
  /\ fbb = NewBuilder
  /\ objects = Nothing /\ adding = <<>>
  /\ todo \in Scripts
  /\ root = NoRoot /\ packet = NoPacket /\ received = <<>>

\* The next call of the script.
Call(operation, operand) == todo # <<>> /\ Head(todo) = <<operation, operand>>

Done == todo' = Tail(todo)

\* objects, with o at an offset.
With(off, o) ==
  [p \in DOMAIN objects \cup {off} |-> IF p = off THEN o ELSE objects[p]]

\* The builder after a call that made an object.
Made(b, kind, of, value) ==
  /\ Done
  /\ fbb' = b
  /\ objects' = With(b.result, [kind |-> kind, of |-> of, value |-> value])
  /\ UNCHANGED <<adding, root, packet, received>>

Set(b) ==
  /\ Done
  /\ fbb' = b
  /\ UNCHANGED <<objects, adding, root, packet, received>>

----------------------------------------------------------------------------
(* Strings, vectors and structs.                                           *)

String == \E s \in Strings :
  Call("string", "") /\ Made(CreateString(fbb, s), "string", "-", s)

\* Not once the buffer is finished: after Release, which warns against any further
\* use (flatbuffers.h:1026), the pool is of a buffer that is gone.
SharedString == \E s \in Strings :
  /\ Call("shared", "") /\ PoolReadable(fbb) /\ ~Finished(fbb)
  /\ Made(CreateSharedString(fbb, s), "string", "-", s)

\* n elements of a width.
Filled(n, width) == [i \in 1 .. n |-> Scalar(Base * i + n, width)]

\* Elements that must be at multiples of alignment.
MadeElements(b, elems, alignment) == Made(b, "elements", alignment, elems)

Scalars == \E n \in 0 .. 2, width \in {2, 8} :
  /\ Call("scalars", "")
  /\ MadeElements(CreateVector(fbb, Filled(n, width), width), Filled(n, width), width)

\* Structs of 12 bytes, aligned to 4.
Structs == \E n \in 0 .. 2 :
  /\ Call("structs", "")
  /\ MadeElements(CreateVectorOfStructs(fbb, Filled(n, 12), 12, 4), Filled(n, 12), 4)

UninitializedStructs == \E n \in 1 .. 2 :
  /\ Call("structs", "uninitialized")
  /\ MadeElements(CreateUninitializedVectorOfStructs(fbb, Filled(n, 12), 12), Filled(n, 12), 4)

\* ForceVectorAlignment, then a vector of bytes.
AlignedVector == \E n \in 1 .. 3 :
  /\ Call("aligned", "")
  /\ MadeElements(CreateVector(PreAlign(fbb, n, MaxAlignment), Filled(n, 1), 1),
                  Filled(n, 1), MaxAlignment)

Struct ==
  Call("struct", "") /\ Made(CreateStruct(fbb, Scalar(5, 8), 8), "struct", 8, Scalar(5, 8))

VectorOfStrings == \E s, t \in Strings :
  /\ Call("strings", "")
  /\ Made(CreateVectorOfStrings(fbb, <<s, t>>), "strings", "-", <<s, t>>)

\* The objects of a kind, in the order in which they were made.
Offsets(kind, of) ==
  LET offs == {off \in DOMAIN objects : objects[off].kind = kind /\ objects[off].of = of}
      Rank(off) == Cardinality({o \in offs : o <= off})
  IN  [k \in 1 .. Cardinality(offs) |-> CHOOSE off \in offs : Rank(off) = k]

SortedVector == \E type \in DOMAIN Tables :
  LET offs == Offsets("table", type)
  IN  /\ Call("sorted", type)
      /\ Made(CreateVectorOfSortedTables(fbb, type, offs), "sorted", type, ToSet(offs))

----------------------------------------------------------------------------
(* Tables: of any type by CreateXDirect or by CreateX with a string that   *)
(* exists, TestInfo also by its builder.                                   *)

\* What a client gives for a field: as little as it may, as much as it can, or
\* every other scalar.
Given(type, how, s) ==
  LET FieldValue(f, i) ==
        LET wanted == how # "least" \/ f.name \in Tables[type].required
            targets == IF f.of = "string" THEN Offsets("string", "-") ELSE Offsets("table", f.of)
        IN  CASE f.kind = "scalar" ->
                   IF how = "most" \/ (how = "some" /\ i % 2 = 0)
                   THEN Scalar(7, f.width) ELSE Scalar(f.default, f.width)
              [] f.kind = "string" -> IF wanted THEN <<s>> ELSE <<>>
              [] f.kind = "vector" -> IF wanted THEN <<targets>> ELSE <<>>
              [] f.kind = "table" ->
                   IF wanted /\ targets # <<>> THEN targets[Len(targets)] ELSE 0
  IN  [n \in {FieldsOf(type)[i].name : i \in DOMAIN FieldsOf(type)} |->
         FieldValue(FieldsOf(type)[NumberOf(type, n)], NumberOf(type, n))]

\* A script may leave the strings to choice, or have them all be Name.
Name == CHOOSE s \in Strings : TRUE

Direct == \E type \in DOMAIN Tables, how \in {"least", "some", "most"}, s \in Strings :
  LET given == Given(type, how, s)
      b == CreateTableDirect(fbb, type, given)
  IN  /\ Call("direct", type) \/ (Call("named", type) /\ s = Name)
      /\ RequiredSet(b, type)
      /\ Made(b, "table", type, Given(type, how, CString(s)))

\* The fields of a table: its scalars, str for its strings, vec for its vectors.
FieldsWith(type, str, vec) ==
  LET FieldValue(f) ==
        CASE f.kind = "scalar" -> Scalar(7, f.width)
          [] f.kind = "string" -> str
          [] f.kind = "vector" -> vec
          [] f.kind = "table" -> 0
  IN  [n \in {FieldsOf(type)[i].name : i \in DOMAIN FieldsOf(type)} |->
         FieldValue(FieldsOf(type)[NumberOf(type, n)])]

\* CreateX with the offset of a string, which may hold a 0, and without vectors.
Create == \E type \in DOMAIN Tables, off \in ToSet(Offsets("string", "-")) :
  LET b == CreateTable(fbb, type, FieldsWith(type, off, 0))
  IN  /\ Call("create", type)
      /\ RequiredSet(b, type)
      /\ Made(b, "table", type, FieldsWith(type, <<objects[off].value>>, <<>>))

StartTestInfo ==
  /\ Call("builder", "TestInfo") /\ ~fbb.nested
  /\ fbb' = StartTable(fbb)
  /\ adding' = <<[start |-> GetSize(fbb), name |-> <<>>, level |-> Scalar(0, 4)]>>
  /\ UNCHANGED <<objects, todo, root, packet, received>>

\* add_name and add_level, each at most once and in any order.
AddName == \E off \in ToSet(Offsets("string", "-")) :
  /\ adding # <<>> /\ adding[1].name = <<>>
  /\ fbb' = AddOffset(fbb, FieldIndexToOffset(0), off)
  /\ adding' = <<[adding[1] EXCEPT !.name = <<objects[off].value>>]>>
  /\ UNCHANGED <<objects, todo, root, packet, received>>

AddLevel == \E level \in {-1, 3} :
  /\ adding # <<>> /\ adding[1].level = Scalar(0, 4)
  /\ fbb' = AddElement(fbb, FieldIndexToOffset(1), Scalar(level, 4), Scalar(0, 4))
  /\ adding' = <<[adding[1] EXCEPT !.level = Scalar(level, 4)]>>
  /\ UNCHANGED <<objects, todo, root, packet, received>>

FinishTestInfo ==
  LET b == EndTable(fbb, adding[1].start)
  IN  /\ adding # <<>>
      /\ fbb' = b /\ adding' = <<>> /\ Done
      /\ objects' = With(b.result, [kind |-> "table", of |-> "TestInfo",
                       value |-> [name |-> adding[1].name, level |-> adding[1].level]])
      /\ UNCHANGED <<root, packet, received>>

----------------------------------------------------------------------------
(* The whole buffer.                                                       *)

\* Settings the client may change at any time.
Settings ==
  \/ Call("force", "on") /\ Set(ForceDefaults(fbb, TRUE))
  \/ Call("dedup", "off") /\ Set(DedupVtables(fbb, FALSE))

\* The client goes on with another builder, made from this one.
MoveBuilder == Call("move", "") /\ Set(Moved(fbb))

Identifier == <<11, 12, 11, 12>>

\* The last table made becomes the root.
FinishBuffer ==
  \E type \in DOMAIN Tables, prefixed \in BOOLEAN, identifier \in {<<>>, Identifier} :
    LET tables == Offsets("table", type)
        off == tables[Len(tables)]
    IN  /\ Call("finish", type) /\ ~Finished(fbb) /\ tables # <<>>
        /\ fbb' = Finish(fbb, off, identifier, prefixed)
        /\ root' = [off |-> off, type |-> type, identifier |-> identifier,
                    prefixed |-> prefixed]
        /\ Done
        /\ UNCHANGED <<objects, adding, packet, received>>

\* SetField of a scalar of the root.
Mutate ==
  /\ Call("mutate", "root") /\ root # NoRoot
  /\ \E i \in DOMAIN FieldsOf(root.type), n \in {0, 9} :
       LET f == FieldsOf(root.type)[i]
           field == FieldIndexToOffset(i - 1)
           bytes == Scalar(n, f.width)
           default == Scalar(f.default, f.width)
       IN  /\ f.kind = "scalar"
           /\ fbb' = [fbb EXCEPT !.buf_.data = SetField(@, Pos(root.off), field, bytes, default)]
           /\ objects' = IF FieldIsSet(buf, Pos(root.off), field, bytes, default)
                         THEN [objects EXCEPT ![root.off].value[f.name] = bytes] ELSE objects
  /\ Done
  /\ UNCHANGED <<adding, root, packet, received>>

\* Mutate of an element of a vector.
MutateVector == \E off \in {o \in DOMAIN objects : objects[o].kind = "elements"} :
  /\ Call("mutate", "elements")
  /\ \E i \in DOMAIN objects[off].value :
       LET bytes == Scalar(9, Len(objects[off].value[i]))
       IN  /\ fbb' = [fbb EXCEPT !.buf_.data = MutateElement(@, Pos(off), i - 1, bytes)]
           /\ objects' = [objects EXCEPT ![off].value[i] = bytes]
  /\ Done
  /\ UNCHANGED <<adding, root, packet, received>>

Emptied(b) ==
  /\ fbb' = b
  /\ objects' = Nothing /\ root' = NoRoot
  /\ Done
  /\ received' = <<>>
  /\ UNCHANGED <<adding, packet>>

ClearBuilder ==
  \/ Call("clear", "") /\ Emptied(Clear(fbb))
  \/ Call("reset", "") /\ Emptied(Reset(fbb))
  \/ Call("release", "") /\ Finished(fbb) /\ Emptied(Release(fbb))

PacketType == 5

MakePacket ==
  /\ Finished(fbb)
  /\ \/ /\ Call("packet", "setters")
        /\ LET d == P!AllocateBuffer(Len(buf) + P!BASICPACKETSIZE)
               filled == P!SetData(P!SetType(P!SetSize(d, d.MaxSize_), PacketType), buf)
           IN  packet' = [via |-> "setters", buffer |-> filled, data |-> buf]
     \/ /\ Call("packet", "assemble")
        /\ LET d == IF packet.via = "assemble" THEN P!ClearBuffer(packet.buffer)
                                               ELSE P!AllocateBuffer(PacketRoom)
           IN  packet' = [via |-> "assemble", data |-> buf,
                          buffer |-> P!AssemblePacketBuffer(d, buf, PacketType)]
  /\ Done
  /\ UNCHANGED <<fbb, objects, adding, root, received>>

\* A reader gets the buffer, its first bytes, or all but one of its bytes.
Receive ==
  /\ Call("receive", "") /\ root # NoRoot
  /\ \/ \E n \in 1 .. Len(buf) : received' = SubSeq(buf, 1, n)
     \/ \E i \in DOMAIN buf, x \in {0, 1, 8, Base - 2, Base - 1} : received' = [buf EXCEPT ![i] = x]
  /\ Done
  /\ UNCHANGED <<fbb, objects, adding, root, packet>>

Next ==
  \/ String \/ SharedString \/ Scalars \/ Structs \/ UninitializedStructs \/ AlignedVector
  \/ Struct \/ VectorOfStrings \/ SortedVector
  \/ Direct \/ Create \/ StartTestInfo \/ AddName \/ AddLevel \/ FinishTestInfo
  \/ Settings \/ MoveBuilder \/ FinishBuffer \/ Mutate \/ MutateVector \/ ClearBuilder
  \/ MakePacket \/ Receive

Spec == Init /\ [][Next]_vars

----------------------------------------------------------------------------
(* Reading back.                                                           *)

\* What the accessors of a table return, in the form in which it was given.
ReadTable(pos, type) ==
  LET Read(f, field) ==
        LET target == GetPointer(buf, pos, field)
        IN  CASE f.kind = "scalar" -> GetField(buf, pos, field, f.width, Scalar(f.default, f.width))
              [] f.kind = "table" -> IF target = Null THEN 0 ELSE Len(buf) - target
              [] f.kind = "string" -> IF target = Null THEN <<>> ELSE <<GetString(buf, target)>>
              [] f.kind = "vector" ->
                   IF target = Null THEN <<>>
                   ELSE <<[i \in 1 .. VectorSize(buf, target) |->
                             Len(buf) - References(buf, target)[i]]>>
  IN  [n \in {FieldsOf(type)[i].name : i \in DOMAIN FieldsOf(type)} |->
         Read(FieldsOf(type)[NumberOf(type, n)], FieldIndexToOffset(NumberOf(type, n) - 1))]

Reads(off, o) ==
  LET pos == Pos(off)
  IN  CASE o.kind = "string" -> GetString(buf, pos) = o.value
        [] o.kind = "strings" ->
             [i \in 1 .. VectorSize(buf, pos) |-> GetString(buf, References(buf, pos)[i])] = o.value
        [] o.kind = "elements" ->
             /\ VectorSize(buf, pos) = Len(o.value)
             /\ o.value # <<>> => Elements(buf, pos, Len(o.value[1])) = o.value
        [] o.kind = "struct" -> ReadBytes(buf, pos, Len(o.value)) = o.value
        [] o.kind = "sorted" -> {Len(buf) - p : p \in ToSet(References(buf, pos))} = o.value
        [] o.kind = "table" -> ReadTable(pos, o.of) = o.value

\* Everything made since the builder was empty is found at the offset that was
\* returned for it, with the value it was given, of a C string what is before its
\* first 0: what is written later, the growth of the block, a shared vtable or a
\* shared string do not change it.
ReadsBack == \A off \in DOMAIN objects : Reads(off, objects[off])

\* The bytes d are the last ones of e.
Kept(d, e) == Len(d) <= Len(e) /\ \A i \in DOMAIN d : e[Len(e) - Len(d) + i] = d[i]

\* What has been written stays where it is until the builder is emptied, and only
\* Mutate changes it: not the growth of the block, not the vtable or the shared
\* string that is written and taken back, not the offset set in a finished table.
WrittenStays ==
  [][\/ Kept(buf, buf')
     \/ (Mutate \/ MutateVector) /\ Len(buf') = Len(buf)
     \/ ClearBuilder /\ buf' = <<>>]_vars

\* The data and the scratch pad never meet, the assertion of ensure_space: the
\* block grows before they do, also from nothing.
ScratchBelowData == Room(fbb.buf_) >= 0

\* A finished buffer is accepted by Verify for the type of its root, with its
\* prefix and identifier; the root is the table it was finished with, and the
\* start is found back from the root.
FinishedVerifies ==
  root # NoRoot =>
    LET start == Prefix(root.prefixed)
    IN  /\ VerifyBuffer(buf, root.type, root.identifier, root.prefixed)
        /\ GetRoot(buf, start) = Pos(root.off)
        /\ GetBufferStartFromRootPointer(buf, Pos(root.off)) = start

\* Finish aligns the whole buffer: counted from its start, every scalar, struct
\* and element is at a multiple of its alignment, which Verify does not check.
\* (Provided no vector of structs was made with a size that is no power of two.)
ScalarsAligned ==
  root # NoRoot /\ fbb.minalign_ \in {1, 2, 4, 8, 16} =>
    \A off \in DOMAIN objects :
      LET o == objects[off]
          Offset(i) == GetOptionalFieldOffset(buf, Pos(off), FieldIndexToOffset(i - 1))
      IN  /\ o.kind = "struct" => Pos(off) % o.of = 0
          /\ o.kind = "elements" => (Pos(off) + uoffset) % o.of = 0
          /\ o.kind = "table" =>
               \A i \in DOMAIN FieldsOf(o.of) :
                 Offset(i) # 0 => (Pos(off) + Offset(i)) % FieldsOf(o.of)[i].width = 0

\* Values a client may look up.
Keys(type) ==
  IF KeyField(type).kind = "string" THEN Strings
  ELSE {Ordered(Scalar(n, KeyField(type).width)) : n \in {-1, 0, 7}}

\* A search in a sorted vector finds a table with the key if there is one, and
\* nothing otherwise; two strings are the same key if they are up to their first 0,
\* although the vector is sorted by all their characters.
LookupFinds ==
  \A off \in DOMAIN objects :
    objects[off].kind = "sorted" =>
      LET type == objects[off].of
      IN  \A k \in Keys(type) :
            LET hits == {Pos(o) : o \in {o \in objects[off].value :
                                           Key(buf, type, Pos(o), FALSE) = SearchKey(type, k)}}
            IN  LookupByKey(buf, Pos(off), type, k) \in IF hits = {} THEN {Null} ELSE hits

\* Every byte that the accessors of a table read is in the buffer.
StringReadable(bytes, str) ==
  /\ InBuffer(bytes, str, uoffset)
  /\ InBuffer(bytes, str, uoffset + VectorSize(bytes, str) + 1)

\* tables[<<t, of>>] says whether the table at t is readable.
TargetReadable(tables, bytes, f, target) ==
  CASE f.kind = "string" -> StringReadable(bytes, target)
    [] f.kind = "table" -> tables[<<target, f.of>>]
    [] f.kind = "vector" ->
         /\ InBuffer(bytes, target, uoffset)
         /\ InBuffer(bytes, target, uoffset * (1 + VectorSize(bytes, target)))
         /\ \A i \in 0 .. VectorSize(bytes, target) - 1 :
              IF f.of = "string" THEN StringReadable(bytes, GetReference(bytes, target, i))
              ELSE tables[<<GetReference(bytes, target, i), f.of>>]

TableReadable(tables, bytes, table, type) ==
  LET vtable == GetVTable(bytes, table)
      Pointer(field) == table + GetOptionalFieldOffset(bytes, table, field)
  IN  /\ InBuffer(bytes, table, uoffset) /\ InBuffer(bytes, vtable, voffset)
      /\ \A i \in DOMAIN FieldsOf(type) :
           LET f == FieldsOf(type)[i]
               field == FieldIndexToOffset(i - 1)
           IN  field < ReadScalar(bytes, vtable, voffset) =>
                 /\ InBuffer(bytes, vtable + field, voffset)
                 /\ CheckField(bytes, table, field) =>
                      /\ InBuffer(bytes, Pointer(field), f.width)
                      /\ f.kind # "scalar" =>
                           TargetReadable(tables, bytes, f, Deref(bytes, Pointer(field)))

Readable(bytes, table, type) ==
  LET tables[p \in Nat \X DOMAIN Tables] == TableReadable(tables, bytes, p[1], p[2])
  IN  tables[<<table, type>>]

\* A buffer that Verify accepts, though it was cut short or damaged on the way,
\* is read without leaving it.
VerifiedIsReadable ==
  received # <<>> /\ VerifyBuffer(received, root.type, root.identifier, root.prefixed) =>
    Readable(received, GetRoot(received, Prefix(root.prefixed)), root.type)

\* A packet made with the setters is read back by the getters; the data of the
\* finished buffer follow the header.
PacketReadsBack ==
  packet.via = "setters" /\ packet.buffer.MaxSize_ < Base * Base =>
    /\ P!GetSize(packet.buffer) = packet.buffer.MaxSize_
    /\ P!GetType(packet.buffer) = PacketType
    /\ P!GetFlatData(packet.buffer, Len(packet.data)) = packet.data

\* Assembling a packet never writes past the block, whatever does not fit.
PacketInside ==
  /\ Len(packet.buffer.pBuf_) = packet.buffer.MaxSize_
  /\ packet.buffer.NowSize_ <= packet.buffer.MaxSize_

TypeOK ==
  /\ ToSet(buf) \subseteq Bytes
  /\ fbb.minalign_ \in 1 .. MaxAlignment
  /\ fbb.nested = (adding # <<>>)
  /\ DOMAIN objects \subseteq 1 .. GetSize(fbb)
  /\ Len(fbb.buf_.scratch) >= 2 * fbb.num_field_loc
=============================================================================
