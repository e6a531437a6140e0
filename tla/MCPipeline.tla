----------------------------- MODULE MCPipeline -----------------------------
(* Two API processes and two matches on one server; one call may go astray. *)
EXTENDS MatchPipeline, TLC
FairSpec == PipelineSpec /\ PipelineFairness
=============================================================================
