----------------------------- MODULE MCLifecycle -----------------------------
(* Instances of Lifecycle for TLC.  Each file has a size that shows         *)
(* something: two chunks (a middle and an end), one chunk, none at all.     *)
EXTENDS Lifecycle

CONSTANTS two, one, empty, sweep, sweep2, deferred

Counts     == [f \in Files |-> CASE f = two -> 2 [] f = one -> 1 [] f = empty -> 0]
Kinds      == [j \in Jobs |-> IF j \in {sweep, sweep2} THEN "sweep" ELSE "deferred"]
=============================================================================
