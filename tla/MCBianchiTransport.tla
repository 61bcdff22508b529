------------------------- MODULE MCBianchiTransport -------------------------
(* Constants for model-checking BianchiTransport: a mode and its mirror      *)
(* image, and a producer that can go wrong at a value or at a second rate.   *)
EXTENDS BianchiTransport

MCModes        == {-1, 1}
MCBoundaries   == {"here", "elsewhere"}
MCFaultyFields == {"H", "HTT"}
=============================================================================
