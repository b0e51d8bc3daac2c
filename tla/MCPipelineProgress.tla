---------------------------- MODULE MCPipelineProgress ----------------------------
(* One run with a few providers of either operation.                          *)
EXTENDS PipelineProgress

MCProviders == 2
=============================================================================
