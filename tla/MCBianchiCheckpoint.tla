------------------------- MODULE MCBianchiCheckpoint -------------------------
(* Constants for model-checking BianchiCheckpoint: programs and contents are  *)
(* interchangeable.                                                           *)
EXTENDS BianchiCheckpoint, TLC

MCBuilds   == {"one", "other"}
MCSymmetry == Permutations(Processes) \cup Permutations(Contents)
=============================================================================
