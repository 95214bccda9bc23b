------------------------------ MODULE MCSharing ------------------------------
(* Small instances of Sharing for TLC. *)
EXTENDS Sharing, TLC

CONSTANTS o, c, g1, g2

\* Both groups belong to the owner of the item ...
OwnersGroups == g1 :> o @@ g2 :> o
\* ... or one to a collaborator.
MixedGroups == g1 :> o @@ g2 :> c
OneGroup == g1 :> o
=============================================================================
