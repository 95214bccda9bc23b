---------------------------- MODULE MCFedStartup ----------------------------
(* Small instances of FedStartup for TLC. *)
EXTENDS FedStartup

CONSTANTS s1, s2, s3

\* s1 and s2 have each other in their configuration, s1 also has s3, which has nobody.
ChainOf == [s \in Sites |-> CASE s = s1 -> {s2, s3} [] s = s2 -> {s1} [] OTHER -> {}]

PairOf == [s \in Sites |-> Sites \ {s}]
=============================================================================
