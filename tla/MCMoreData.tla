----------------------------- MODULE MCMoreData -----------------------------
EXTENDS MoreData

PropositionLists == [t \in Targets |-> <<"p1", "p2">>]

(* A second fault, which may hit the except branch of the first, is left   *)
(* to histories of one request.                                            *)
MCBound == faults < 2 \/ requests < 2
=============================================================================
