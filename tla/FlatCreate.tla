------------------------------ MODULE FlatCreate ------------------------------
(***************************************************************************)
(* The functions of the generated headers that build tables, and the sorted*)
(* vectors of flatbuffers.h, which read the tables they sort.              *)
(***************************************************************************)
EXTENDS FlatBufferBuilder, FlatVerifier

\* The position of an offset in the data written so far.
Position(b, off) == GetSize(b) - off

AddField(b, f, field, arg) ==
  IF f.kind = "scalar" THEN AddElement(b, field, arg, Scalar(f.default, f.width))
                       ELSE AddOffset(b, field, arg)

\* The add_ calls of CreateX, the widest fields first and of the same width the
\* last first: four passes over the fields, one for each width.
AddFields(b, type, args) ==
  LET fields == FieldsOf(type)
      n == Len(fields)
      added[k \in 0 .. 4 * n] ==
        IF k = 0 THEN b
        ELSE LET i == n - ((k - 1) % n)
                 width == <<8, 4, 2, 1>>[(k - 1) \div n + 1]
             IN  IF fields[i].width # width THEN added[k - 1]
                 ELSE AddField(added[k - 1], fields[i], FieldIndexToOffset(i - 1),
                               args[fields[i].name])
  IN  added[4 * n]

\* CreateX: args has the bytes of a scalar and the offset of another field.
CreateTable(b, type, args) == EndTable(AddFields(StartTable(b), type, args), GetSize(b))

\* The assertions of Required on the table just made.
RequiredSet(b, type) ==
  \A i \in DOMAIN FieldsOf(type) :
    FieldsOf(type)[i].name \in Tables[type].required =>
      CheckField(b.buf_.data, Position(b, b.result), FieldIndexToOffset(i - 1))

\* What CreateXDirect makes for a field whose string or vector is given; the string is
\* a const char*, and what follows its first 0 is not stored.
MakeArgument(b, f, arg) ==
  CASE f.kind = "string" /\ arg # <<>> -> CreateString(b, CString(arg[1]))
    [] f.kind = "vector" /\ arg # <<>> -> CreateVectorOfOffsets(b, arg[1])
    [] OTHER -> Return(b, 0)

\* CreateXDirect: strings and vectors are given by what they hold, <<x>>, or
\* as <<>> when absent, and are made in the order of the fields.
CreateTableDirect(b, type, given) ==
  LET fields == FieldsOf(type)
      made[k \in 0 .. Len(fields)] ==
        IF k = 0 THEN b ELSE MakeArgument(made[k - 1], fields[k], given[fields[k].name])
      Argument(k) == IF fields[k].kind \in {"string", "vector"} THEN made[k].result
                                                              ELSE given[fields[k].name]
      names == {fields[i].name : i \in DOMAIN fields}
  IN  CreateTable(made[Len(fields)], type, [n \in names |-> Argument(NumberOf(type, n))])

\* Not the code: the tables stay in the order given.
SortedTables_AsGiven(b, type, offs) == offs

\* The sequence with off inserted behind the tables that are not greater.
Inserted(b, type, offs, off) ==
  LET Less(o, p) == KeyCompareLessThan(b.buf_.data, type, Position(b, o), Position(b, p))
      n == Cardinality({i \in DOMAIN offs : ~Less(off, offs[i])})
  IN  SubSeq(offs, 1, n) \o <<off>> \o SubSeq(offs, n + 1, Len(offs))

SortedTables(b, type, offs) ==
  LET sorted[k \in 0 .. Len(offs)] ==
        IF k = 0 THEN <<>> ELSE Inserted(b, type, sorted[k - 1], offs[k])
  IN  sorted[Len(offs)]

CreateVectorOfSortedTables(b, type, offs) ==
  CreateVectorOfOffsets(b, SortedTables(b, type, offs))

\* The strings are made in order, then the vector.
CreateVectorOfStrings(b, strings) ==
  LET made[k \in 0 .. Len(strings)] ==
        IF k = 0 THEN b ELSE CreateString(made[k - 1], strings[k])
  IN  CreateVectorOfOffsets(made[Len(strings)], [k \in DOMAIN strings |-> made[k].result])
=============================================================================
