--------------------------- MODULE MCTrafficInput ---------------------------
(* Symmetry for TrafficInput: stations are alike.                              *)
EXTENDS TrafficInput, TLC

Symmetry == Permutations(Stations)
=============================================================================
