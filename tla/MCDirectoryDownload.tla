------------------------ MODULE MCDirectoryDownload ------------------------
(* A small instance of DirectoryDownload for TLC. *)
EXTENDS DirectoryDownload, TLC

\* Processes are interchangeable in the safety properties.
Symmetric == Permutations(Runs)
=============================================================================
