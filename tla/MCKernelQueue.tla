---------------------------- MODULE MCKernelQueue ----------------------------
(* Constants for model-checking KernelQueue.  The parents are not closed     *)
(* under the change of sign, and mode -2 is stored for its mirror image only.*)
EXTENDS KernelQueue

MCModes   == {-2, -1, 0, 1, 2}
MCParents == {-1, 1, 2}
MCTargets == {0, 2}

MCPolicies ==
  {[mode |-> "Disabled",        start |-> 0, required |-> 1],
   [mode |-> "ConstraintAware", start |-> 1, required |-> 1],
   [mode |-> "Unrestricted",    start |-> 1, required |-> 1]}

MCTimeSteps == {1, 2}
=============================================================================
