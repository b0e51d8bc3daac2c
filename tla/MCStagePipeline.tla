-------------------------- MODULE MCStagePipeline --------------------------
(* One execution, one alternative provider.                                *)
EXTENDS StagePipeline

CONSTANT e1

MCExecutions == {e1}
MCAlternatives == <<"alternative">>

(* A second fault is left to histories of one second.                      *)
MCBound == faults < 2 \/ clock = 0
=============================================================================
