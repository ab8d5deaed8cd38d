------------------------------- MODULE MCQuota -------------------------------
(* The instance of Quota for TLC: sizes 1, 2 and 2 against a cap of 2, so   *)
(* that each file fits, no two do, and the two large ones may overlap.      *)
(* Each file may be deleted, and b a second time.                           *)
EXTENDS Quota

CONSTANTS a, b, c, r1, r2

Sizes == [f \in Files |-> IF f = a THEN 1 ELSE 2]

OnlyOneRepeated == \A f \in Files : r2 \in Asked(f) => f = b
=============================================================================
