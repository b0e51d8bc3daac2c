---------------------------- MODULE MCChunkStore ----------------------------
(* Two rows, one run and two claimers that ask for the rows of any provider.*)
EXTENDS ChunkStore

CONSTANTS c1, c2, run, w1, w2

MCContracts == {c1, c2}
MCCrossRun == {c1}
MCRunners == {run}
MCClaimers == {w1, w2}
MCScope == [w \in {w1, w2} |-> {c1, c2}]
MCOutcomes == {"ok", "rate_limited", "retry_exhausted"}
=============================================================================
