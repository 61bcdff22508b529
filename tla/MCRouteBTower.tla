--------------------------- MODULE MCRouteBTower ---------------------------
(* Constants for model-checking RouteBTower: a mode and its mirror image.    *)
EXTENDS RouteBTower

MCModes     == {-1, 1}
MCSupported == {1, 2}
=============================================================================
