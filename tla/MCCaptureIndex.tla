--------------------------- MODULE MCCaptureIndex ---------------------------
(* Small instances of CaptureIndex for TLC. *)
EXTENDS CaptureIndex, TLC

\* Two captures of the same place.
OnePlace == [c \in Captures |-> "place"]

Symmetric == Permutations(Requests)
=============================================================================
