--------------------------- MODULE VersionRegister ---------------------------
(***************************************************************************)
(* What a site's copy of a peer's asset promises, whatever the sync        *)
(* service does to keep it: it is a register that only moves to later      *)
(* versions, and an event may be acknowledged only when the register       *)
(* already holds that version or a later one.  FedIndexer is shown to      *)
(* implement this specification.                                           *)
(***************************************************************************)
EXTENDS Naturals

CONSTANTS Assets,      \* the assets the register has a slot for
          MaxTime      \* the largest event timestamp considered

VARIABLES latest,      \* [asset -> timestamp of the version held], 0 for none
          promised     \* [asset -> latest timestamp acknowledged to a sender]

Init == /\ latest = [a \in Assets |-> 0]
        /\ promised = [a \in Assets |-> 0]

\* The register moves to a strictly later version.
Advance(a, t) == /\ t > latest[a]
                 /\ latest' = [latest EXCEPT ![a] = t]
                 /\ UNCHANGED promised

\* A sender is told its event is taken care of.
Acknowledge(a, t) ==
  /\ t <= latest[a]
  /\ promised' = [promised EXCEPT ![a] = IF t > @ THEN t ELSE @]
  /\ UNCHANGED latest

Next == \E a \in Assets, t \in 1..MaxTime : Advance(a, t) \/ Acknowledge(a, t)

Spec == Init /\ [][Next]_<<latest, promised>>
==============================================================================
