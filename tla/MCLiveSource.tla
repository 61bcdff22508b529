---------------------------- MODULE MCLiveSource ----------------------------
(* Constants for model-checking LiveSource: a mode, its mirror image, and the *)
(* one that the two of them force; a target that no parents add up to; slots  *)
(* that overflow, one for each check, and two that no check looks at.        *)
EXTENDS LiveSource

MCModes   == {-1, 0, 1}
MCParents == {-1, 1}
MCTargets == {0, 1}
MCGenerations == 1 .. 2
MCHeights     == {1, 4}
MCFlawedModes == {0}
MCOverflows ==
  [ mode: {1},
    slot: { <<"profiles", Value("F1", 0)>>, <<"profiles", Value("F1", 2)>>,
            <<"curvature", Value("Z1", 2)>>, <<"derivatives", Quantity("delta", "Z1", 1)>>,
            <<"primitive", Value("Ta", 1)>>, <<"jk", Quantity("eth", "C", 0)>>,
            <<"q", Quantity("delta", "Sig", 0)>> } ] \cup
  [ mode: {0},
    slot: { <<"sums", Value("J", 1)>>, <<"outer", Quantity("eth", "K", 0)>>,
            <<"primitive", Value("Ta", 1)>>,
            <<"projected", Value("K", 0)>>, <<"projected", Value("J", 1)>>,
            <<"source", Value("OverR7", 0)>>, <<"source", Value("Forcing", 0)>> } ]
=============================================================================
