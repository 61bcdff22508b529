--------------------------- MODULE MCPipelineBands ---------------------------
(* Every state of up to three lines. *)
EXTENDS PipelineBands

MCLines == UNION {[1 .. n -> LineKinds] : n \in 1 .. 3}
=============================================================================
