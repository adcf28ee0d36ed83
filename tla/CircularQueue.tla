--------------------------- MODULE CircularQueue ---------------------------
(***************************************************************************)
(* CCircularQueue (Common/CircularQueue.h, CircularQueue.hpp): a ring of   *)
(* MAX_QUEUE cells with two uint32_t indexes.  FrontIndex_ is the cell     *)
(* before the first datum and RearIndex_ the cell of the last one.         *)
(*                                                                         *)
(* A queue is a record of its three fields; an operation maps the queue    *)
(* before to the queue after.  Word is the number of values of a uint32_t. *)
(***************************************************************************)
EXTENDS Integers, Sequences

CONSTANTS MAX_QUEUE, MAX_BUFFER, Word

\* In the code MAX_QUEUE = MAX_BUFFER = 1024 and Word = 2^32.
ASSUME QueueAssumption ==
  /\ MAX_QUEUE \in Nat /\ MAX_QUEUE > 2
  /\ MAX_BUFFER = MAX_QUEUE
  /\ Word \in Nat /\ Word > 2 * MAX_QUEUE /\ Word % MAX_QUEUE = 0

Cells == 0 .. (MAX_QUEUE - 1)
U32(n) == n % Word

Ring(cells, front, rear) ==
  [Queue_ |-> cells, FrontIndex_ |-> front, RearIndex_ |-> rear]

\* Clear.
Cleared == Ring([i \in Cells |-> 0], 0, 0)

\* The cell that GetAt(0) points to.
First(q) == (q.FrontIndex_ + 1) % MAX_QUEUE

GetNowQueueSize(q) ==
  IF q.FrontIndex_ = q.RearIndex_ THEN 0
  ELSE IF First(q) <= q.RearIndex_ THEN U32(q.RearIndex_ - q.FrontIndex_)
  ELSE U32((MAX_QUEUE - First(q)) + q.RearIndex_)

GetRemainQueueSize(q) == U32((MAX_QUEUE - 1) - GetNowQueueSize(q))

----------------------------------------------------------------------------

EnqFits(q, n) == n <= GetRemainQueueSize(q)
EnqStart(q) == (q.RearIndex_ + 1) % MAX_QUEUE

\* The branch that copies in two parts, also when the data ends exactly at
\* the last cell: nothing is left for cell 0 then, and RearIndex_ is U32(-1).
EnqInTwo(q, n) == EnqStart(q) >= q.FrontIndex_ /\ MAX_QUEUE - EnqStart(q) <= n

\* memcpy goes past the last cell.
EnqOverruns(q, n) ==
  EnqFits(q, n) /\ ~EnqInTwo(q, n) /\ EnqStart(q) + n > MAX_QUEUE

Written(cells, start, data) ==
  [i \in Cells |-> LET j == (i - start) % MAX_QUEUE
                   IN  IF j < Len(data) THEN data[j + 1] ELSE cells[i]]

\* Not the code: RearIndex_ one too far.
Enq_RearTooFar(q, data) ==
  IF ~EnqFits(q, Len(data)) THEN q
  ELSE Ring(Written(q.Queue_, EnqStart(q), data), q.FrontIndex_, EnqStart(q) + Len(data))

\* For data that does not overrun; false, and no change, if it does not fit.
Enq(q, data) ==
  LET n == Len(data)
  IN  IF ~EnqFits(q, n) THEN q
      ELSE Ring(Written(q.Queue_, EnqStart(q), data), q.FrontIndex_,
                IF EnqInTwo(q, n) THEN U32(n - (MAX_QUEUE - EnqStart(q)) - 1)
                                  ELSE U32(EnqStart(q) + n - 1))

\* The count of cells to the end is short by one, and MAX_BUFFER is used.
PopToEnd(q) == U32(MAX_BUFFER - (First(q) + 1))

\* Not the code: nothing is popped.
Pop_Nothing(q, n) == q

Pop(q, n) ==
  IF n > GetNowQueueSize(q) THEN q
  ELSE [q EXCEPT !.FrontIndex_ =
          IF First(q) < q.RearIndex_ \/ n < PopToEnd(q)
          THEN U32(First(q) + (U32(n - 1) % MAX_QUEUE))
          ELSE U32(n - PopToEnd(q) - 1)]
=============================================================================
