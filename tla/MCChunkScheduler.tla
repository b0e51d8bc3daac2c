-------------------------- MODULE MCChunkScheduler --------------------------
(* Two chunks, of which one or both are split in three, and the plans of    *)
(* all bundles of the same size.                                            *)
EXTENDS ChunkSending

CONSTANTS k1, k2

MCTwoChunks == 1 .. 2
MCFirstCut == [c \in MCTwoChunks |-> IF c = 1 THEN 3 ELSE 0]
MCBothCut == [c \in MCTwoChunks |-> 3]
MCSomeOutcomes ==
    {"ok", "rate_limited", "timeout", "safety_filter", "skipped_not_configured"}
MCNestedOutcomes == {"ok", "context_length"}

MCBuckets == {k1, k2}
MCOneBucket == {k1}
MCItemTokens == {1, 2, 5}
MCTwoTokens == {2}
MCTwoBuckets == [i \in 1 .. 4 |-> [bucket |-> IF i = 2 THEN k2 ELSE k1, tokens |-> 2]]
MCSixItems == [i \in 1 .. 6 |-> [bucket |-> k1, tokens |-> 2]]
=============================================================================
