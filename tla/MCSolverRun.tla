----------------------------- MODULE MCSolverRun -----------------------------
(* Chains of up to three legs and three steps. The causal start lies on a step,*)
(* or inside a step; two passes in a row are needed under the aware policy.   *)
EXTENDS SolverRun

MCPolicies ==
  {[mode |-> "ConstraintAware", start |-> 1, required |-> 2],
   [mode |-> "Unrestricted", start |-> 2, required |-> 1]}

\* More samples than checkpoints, more checkpoints than samples, no checkpoints.
MCSchedules ==
  {[diagnostic |-> 1, checkpoint |-> 2], [diagnostic |-> 2, checkpoint |-> 1],
   [diagnostic |-> 2, checkpoint |-> 0]}
=============================================================================
