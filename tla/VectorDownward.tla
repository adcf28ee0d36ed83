--------------------------- MODULE VectorDownward ---------------------------
(***************************************************************************)
(* vector_downward (flatbuffers.h): a block of memory that holds data at   *)
(* its end, growing down, and a scratch pad at its start, growing up.      *)
(*                                                                         *)
(* A vector is a record: the size of the block, the data from cur_ to the  *)
(* end, and the scratch pad in words of 4 bytes.  buf_ is null exactly     *)
(* when reserved_ is 0.  An offset counts the bytes from the end.          *)
(***************************************************************************)
EXTENDS Integers, Sequences

CONSTANTS
  Base,              \* values of a byte; 256 in the code
  initial_size_,     \* 1024 by default
  buffer_minalign_   \* 8 by default

ASSUME VectorAssumption ==
  /\ Base \in Nat /\ Base > 1
  /\ initial_size_ \in Nat
  /\ buffer_minalign_ \in Nat \ {0}

Bytes == 0 .. (Base - 1)
uoffset == 4    \* sizeof(uoffset_t) and sizeof(soffset_t)
voffset == 2    \* sizeof(voffset_t)

Vector(reserved, data, scratch) ==
  [reserved_ |-> reserved, data |-> data, scratch |-> scratch]

\* A vtable starts with its size and the size of the table.
FieldIndexToOffset(field_id) == (field_id + 2) * voffset

Empty == Vector(0, <<>>, <<>>)

size(v) == Len(v.data)
scratch_size(v) == uoffset * Len(v.scratch)

\* cur_ - scratch_.
Room(v) == v.reserved_ - size(v) - scratch_size(v)

Larger(m, n) == IF m > n THEN m ELSE n

\* The mask of reallocate, for a power of two.
RoundUp(n, m) == n + ((-n) % m)

\* Not the code: an empty vector gets its initial size whatever is asked for.
reallocate_Initial(v, len) ==
  [v EXCEPT !.reserved_ = RoundUp(
     @ + (IF @ > 0 THEN Larger(len, @ \div 2) ELSE initial_size_), buffer_minalign_)]

\* The data and the scratch pad are copied to the ends of the new block.
reallocate(v, len) ==
  [v EXCEPT !.reserved_ = RoundUp(
     @ + Larger(len, IF @ > 0 THEN @ \div 2 ELSE initial_size_), buffer_minalign_)]

\* Room is compared as a size_t: below 0 it would be more than any length.
ensure_space(v, len) == IF len > Room(v) /\ Room(v) >= 0 THEN reallocate(v, len) ELSE v

\* make_space and the copy into it; fill(n) pushes n zeros.
push(v, bytes) ==
  LET w == ensure_space(v, Len(bytes)) IN [w EXCEPT !.data = bytes \o @]

fill(v, n) == push(v, [i \in 1 .. n |-> 0])

scratch_push(v, words) ==
  LET w == ensure_space(v, uoffset * Len(words)) IN [w EXCEPT !.scratch = @ \o words]

pop(v, n) == [v EXCEPT !.data = SubSeq(@, n + 1, Len(@))]
scratch_pop(v, words) == [v EXCEPT !.scratch = SubSeq(@, 1, Len(@) - words)]

clear_scratch(v) == [v EXCEPT !.scratch = <<>>]

\* clear keeps the block, reset frees it, release and release_raw give it away.
clear(v) == Vector(v.reserved_, <<>>, <<>>)
reset(v) == Empty
release(v) == Empty

\* The n bytes at data_at(off); what lies past the end is read as 0.
data_at(v, off, n) ==
  [i \in 1 .. n |-> IF size(v) - off + i \in DOMAIN v.data THEN v.data[size(v) - off + i] ELSE 0]

\* Not the code: the offset is counted from cur_.
WriteAt_FromStart(v, off, bytes) ==
  [v EXCEPT !.data = [i \in DOMAIN @ |-> IF i - off \in DOMAIN bytes THEN bytes[i - off] ELSE @[i]]]

\* A write at data_at(off).
WriteAt(v, off, bytes) ==
  [v EXCEPT !.data =
     [i \in DOMAIN @ |-> LET j == i - (size(v) - off)
                         IN  IF j \in DOMAIN bytes THEN bytes[j] ELSE @[i]]]

----------------------------------------------------------------------------
(* Scalars, the low byte first.                                            *)

\* What a one in each byte counts.
Places == <<1, Base, Base * Base, Base * Base * Base, Base * Base * Base * Base>>

\* A number that fits in 4 bytes, as a scalar of width bytes.
Scalar(n, width) ==
  [i \in 1 .. width |-> IF i <= 4 THEN (n \div Places[i]) % Base
                        ELSE IF n < 0 THEN Base - 1 ELSE 0]

\* Values of 4 and 2 bytes; Signed reads a two's complement.
Value(bytes) ==
  IF Len(bytes) = 2 THEN bytes[1] + Base * bytes[2]
  ELSE bytes[1] + Base * (bytes[2] + Base * (bytes[3] + Base * bytes[4]))

Signed(bytes) ==
  LET values == Places[Len(bytes) + 1]
  IN  IF 2 * Value(bytes) < values THEN Value(bytes) ELSE Value(bytes) - values
=============================================================================
