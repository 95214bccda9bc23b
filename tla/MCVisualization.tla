--------------------------- MODULE MCVisualization ---------------------------
(* Small instances of Visualization for TLC. *)
EXTENDS Visualization, TLC

Symmetric == Permutations(Params)
=============================================================================
