---------------------------- MODULE ChunkSending ----------------------------
(***************************************************************************)
(* What the scheduler sends is what the plan of the bundle made: the       *)
(* chunks of the first pass and of the retries are those of                *)
(* _evidence_item_chunks, the pieces of a split those of                   *)
(* _adaptive_subchunks_for_failed_chunk.  The evidence of a call is a set  *)
(* of positions in the bundle.                                             *)
(***************************************************************************)
EXTENDS ChunkScheduler, ChunkPlan

CONSTANTS
    Bundle,      \* the run's evidence items
    Budget,      \* _chunk_target_tokens of the provider, 0 for none
    MergeSmall   \* _merge_small_semantic_chunks_enabled of the provider

SentPlan == Plan(Bundle, Budget, MergeSmall)

\* What a retry of the chunk would send: a chunk of one item is not cut.
Subplan(c) ==
    IF Len(SentPlan[c]) > 1 THEN Subchunks(Bundle, SentPlan[c], Budget, MergeSmall)
                            ELSE <<>>

ASSUME SendingAssumption ==
    /\ Bundle \in Bundles /\ Budget \in {0, TokenBudget} /\ MergeSmall \in BOOLEAN
    /\ Chunks = DOMAIN SentPlan
    /\ Cuts = [c \in Chunks |-> Len(Subplan(c))]

\* A whole chunk, or one of its subchunks.
Evidence == [p \in Pieces |-> Range(IF p[2] = 0 THEN SentPlan[p[1]] ELSE Subplan(p[1])[p[2]])]

-----------------------------------------------------------------------------
(* Properties.                                                             *)

\* No evidence item is in two calls at once.
CallsDisjoint ==
    \A p, q \in Pieces : at[p] = "calling" /\ at[q] = "calling" /\ p # q =>
        Evidence[p] \cap Evidence[q] = {}

\* What is sent after a split is some, but not all, of what failed.
PiecesPartial ==
    \A p \in Pieces : at[p] = "calling" /\ p[2] # 0 =>
        Evidence[p] # {} /\ Evidence[p] \subseteq Evidence[<<p[1], 0>>]
                         /\ Evidence[p] # Evidence[<<p[1], 0>>]

\* What the pool sends is planned soundly: the chunks of every bundle keep the limits and
\* lose no evidence when one is called, and its pieces, once it is split, are smaller;
\* whatever the pools do at the same time, no item is in two calls.
SentAsPlanned ==
    /\ (\E p \in Pieces : at[p] = "calling") => PlanKeepsLimits
    /\ (\E c \in Chunks : split[c]) => SplitShrinks
    /\ CallsDisjoint
    /\ PiecesPartial

AnsweredItems == UNION {Evidence[p] : p \in {q \in Pieces : got[q] = "ok"}}

\* A chunk that is said to be ok has been answered item by item, through its retries,
\* splits and merges; when all are, so has the bundle.
OkCoversEvidence ==
    /\ \A c \in Chunks : res[c] = "ok" => Range(SentPlan[c]) \subseteq AnsweredItems
    /\ (\A c \in Chunks : res[c] = "ok") => AnsweredItems = DOMAIN Bundle

\* What was sent was planned, and what is said to be ok was sent and answered.
SendingInv == SentAsPlanned /\ OkCoversEvidence
=============================================================================
