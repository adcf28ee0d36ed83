----------------------------- MODULE BlockPool -----------------------------
(***************************************************************************)
(* What a memory pool promises: every block is free or lent to one         *)
(* borrower, a borrower gets a free block as long as there is one, and     *)
(* nothing is lent once the pool is gone.                                  *)
(***************************************************************************)
CONSTANT Blocks

VARIABLES free, lent

Init == free = {} /\ lent = {}

Fill == free = {} /\ lent = {} /\ free' = Blocks /\ lent' = {}

Lend ==
  \E b \in free : free' = free \ {b} /\ lent' = lent \cup {b}

TakeBack ==
  \E b \in lent : free' = free \cup {b} /\ lent' = lent \ {b}

Close == free' = {} /\ lent' = {}

Spec == Init /\ [][Fill \/ Lend \/ TakeBack \/ Close]_<<free, lent>>
=============================================================================
