-------------------------- MODULE MCSpatialPipeline --------------------------
(***************************************************************************)
(* SpatialPipeline for TLC: every mode, a source that may start at once or *)
(* strictly inside a step of three, one or two required passes.              *)
(***************************************************************************)
EXTENDS SpatialPipeline

MCPolicies ==
  [mode: {"ConstraintAware"}, start: {0, 2}, required: {1, 2}] \cup
  [mode: {"Unrestricted", "Disabled"}, start: {0, 2}, required: {1}]

MCTimeSteps == {1, 3}
=============================================================================
