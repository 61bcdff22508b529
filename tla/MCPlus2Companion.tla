-------------------------- MODULE MCPlus2Companion --------------------------
(* One primary run, two sources, a chain of up to three processes. *)
EXTENDS Plus2Companion, TLC

MCModes == {"Concurrent", "Replay"}
MCReplay == {"Replay"}
MCSteps == {1, 2}
MCConfiguredSteps == {0, 1}

\* The sources are interchangeable.
Symmetry == Permutations(Sources) \cup Permutations(Paths)
=============================================================================
