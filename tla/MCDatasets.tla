------------------------------ MODULE MCDatasets ------------------------------
(* Small instances of Datasets for TLC. *)
EXTENDS Datasets, TLC

CONSTANTS o, c, cap, file

\* One user has everything; the other one can become a co-owner of datasets.
OwnersAssets == cap :> o @@ file :> o

Symmetric == Permutations(Slots) \cup Permutations(Requests)
=============================================================================
