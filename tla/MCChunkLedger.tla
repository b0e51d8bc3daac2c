---------------------------- MODULE MCChunkLedger ----------------------------
(* Two chunks, one of them reusable across runs; two runs, one of which is   *)
(* started a second time.                                                    *)
EXTENDS ChunkLedger

CONSTANTS shared, private, r1, r2

MCContracts == {shared, private}
MCCrossRun == {shared}
MCRuns == {r1, r2}
MCMaxStarts == [r \in {r1, r2} |-> IF r = r1 THEN 2 ELSE 1]
MCOutcomes == {"ok", "provider_error"}
MCNoStatus == {}
==============================================================================
