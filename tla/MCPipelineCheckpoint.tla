------------------------ MODULE MCPipelineCheckpoint ------------------------
(* Two programs; one of them may be a run that is resumed by the other. *)
EXTENDS PipelineCheckpoint, TLC

MCProcesses == {"writer", "reader"}
MCBuilds    == {"linear", "sourced"}
=============================================================================
