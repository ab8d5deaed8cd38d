------------------------------ MODULE MCSharing ------------------------------
(* Instances of Sharing for TLC.  The owner tries ranges of every form with *)
(* ends inside and outside of the file; visitors ask for one byte, which    *)
(* smaller files do not have.                                               *)
EXTENDS Sharing, TLC

OwnerAsks ==
    {Whole, Malformed, Span(1, 2), Span(2, 1), Span(0, 4), From(2), Suffix(2), Suffix(4), Suffix(0)}

AskSets == [d \in Downloads |-> IF d \in Owners THEN OwnerAsks ELSE {Span(1, 1)}]

Symmetry == Permutations(Visitors)
=============================================================================
