---------------------------- MODULE StoredReview ----------------------------
(***************************************************************************)
(* The snapshots of a bundle's canonical graph (ReviewGate) hold what      *)
(* arbitration made of its claims and legacy targets (Promotion):          *)
(* resolve_canonical_review_graph_snapshot runs arbitrate_review_targets   *)
(* and saves its result.                                                   *)
(***************************************************************************)
EXTENDS ReviewGate, Promotion

(* What is stored was promoted soundly: no snapshot holds a primary        *)
(* candidate that the claims and legacy targets of its unit did not earn.  *)
StoredIsEarned == snapshots # {} => PrimaryIsEarned
=============================================================================
