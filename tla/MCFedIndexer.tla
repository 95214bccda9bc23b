---------------------------- MODULE MCFedIndexer ----------------------------
(* Small instances of FedIndexer for TLC. *)
EXTENDS FedIndexer, TLC

\* Threads are interchangeable in the safety properties.
Symmetric == Permutations(Handlers)
=============================================================================
