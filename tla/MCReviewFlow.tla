---------------------------- MODULE MCReviewFlow ----------------------------
(* Two flows of one operator over the same source and the same logs.       *)
EXTENDS ReviewFlow, TLC

CONSTANTS f1, f2, p1, p2

MCFlows == {f1, f2}
MCPatches == {p1, p2}

(* A second request in flight is left to histories without jobs, changes   *)
(* of the source and a third start.                                        *)
MCBound ==
    Cardinality(requests) < 2 \/ (made = 0 /\ changes = 0 /\ starts < 3)

MCSymmetry == Permutations(MCFlows) \cup Permutations(MCPatches)
=============================================================================
