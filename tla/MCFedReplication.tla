-------------------------- MODULE MCFedReplication --------------------------
(* Small instances of FedReplication for TLC. *)
EXTENDS FedReplication, TLC

Symmetric == Permutations(Peers) \cup Permutations(Workers)
=============================================================================
