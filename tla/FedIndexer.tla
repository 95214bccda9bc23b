----------------------------- MODULE FedIndexer -----------------------------
(***************************************************************************)
(* FederatedAssetIndexer (federation/sds_federation/services/fed_index.py) *)
(* and the two asset webhooks that run it in worker threads                *)
(* (routes/webhooks.py).  A site keeps one document per federated asset in *)
(* OpenSearch, stamped with federation_event_at; an event is to be applied *)
(* only when it is later than that stamp.  The lookup of the stamp goes    *)
(* through a process-local cache, and the lookup, the index write and the  *)
(* update of the cache are separate steps of a thread, with nothing that   *)
(* makes them one.                                                         *)
(*                                                                         *)
(* A document is represented by its stamp: of two documents of one asset   *)
(* the one with the later stamp is the newer.  Timestamps are 1..MaxTime,  *)
(* a bound of the model; 0 is "no document" in the store, "no entry" in    *)
(* the cache and None in prev.                                             *)
(***************************************************************************)
EXTENDS Naturals

CONSTANTS
  Assets,         \* document ids (site_name:uuid)
  Handlers,       \* worker threads that can run a webhook at the same time
  MaxTime,        \* latest event timestamp
  Overlap,        \* assets of which two events may be handled at the same time
  UnackedWrites   \* assets of which a write may be applied and yet raise a timeout

ASSUME BoundAssumption == MaxTime \in Nat

\* Assets whose events are handled one after the other, and those of them whose writes
\* fail only when nothing was written.
InTurn  == Assets \ Overlap
Orderly == InTurn \ UnackedWrites

VARIABLES
  store,    \* [asset -> federation_event_at in OpenSearch], survives a restart
  cache,    \* [asset -> _last_event entry], lost on a restart
  pc,       \* [handler -> next step of apply_asset_event]
  asset,    \* [handler -> asset of the event it handles]
  at,       \* [handler -> timestamp of that event]
  prev,     \* [handler -> local variable prev of _is_stale]
  acked,    \* [asset -> latest timestamp answered "accepted"]
  written   \* [asset -> latest timestamp ever indexed] (history)

vars == <<store, cache, pc, asset, at, prev, acked, written>>

None  == 0
Times == 1..MaxTime
Stamp == Times \cup {None}
Steps == {"idle", "cached", "get", "fill", "decide", "mark"}

Latest(t, u) == IF t > u THEN t ELSE u

Busy(h) == pc[h] # "idle"
Goto(h, step) == pc' = [pc EXCEPT ![h] = step]

TypeOK ==
  /\ store \in [Assets -> Stamp]
  /\ cache \in [Assets -> Stamp]
  /\ pc \in [Handlers -> Steps]
  /\ asset \in [Handlers -> Assets]
  /\ at \in [Handlers -> Times]
  /\ prev \in [Handlers -> Stamp]
  /\ acked \in [Assets -> Stamp]
  /\ written \in [Assets -> Stamp]

Init ==
  /\ store = [a \in Assets |-> None]
  /\ cache = [a \in Assets |-> None]
  /\ pc = [h \in Handlers |-> "idle"]
  /\ asset \in [Handlers -> Assets]
  /\ at \in [Handlers -> Times]
  /\ prev = [h \in Handlers |-> None]
  /\ acked = [a \in Assets |-> None]
  /\ written = [a \in Assets |-> None]

-----------------------------------------------------------------------------
\* A webhook that passed the route's checks is handed to a thread.
Deliver(h, a, t) ==
  /\ ~Busy(h)
  /\ a \in Overlap \/ \A g \in Handlers : Busy(g) => asset[g] # a
  /\ Goto(h, "cached")
  /\ asset' = [asset EXCEPT ![h] = a]
  /\ at' = [at EXCEPT ![h] = t]
  /\ UNCHANGED <<store, cache, prev, acked, written>>

\* prev = self._last_event.get(key)
ReadCache(h) ==
  /\ pc[h] = "cached"
  /\ prev' = [prev EXCEPT ![h] = cache[asset[h]]]
  /\ Goto(h, IF cache[asset[h]] = None THEN "get" ELSE "decide")
  /\ UNCHANGED <<store, cache, asset, at, acked, written>>

\* Fault: a stored stamp that cannot be read counts as no document.
GetStoredBlind(h) ==
  /\ pc[h] = "get"
  /\ prev' = [prev EXCEPT ![h] = None]
  /\ Goto(h, "decide")
  /\ UNCHANGED <<store, cache, asset, at, acked, written>>

\* On a cache miss the stamp is read from OpenSearch ...
GetStored(h) ==
  /\ pc[h] = "get"
  /\ prev' = [prev EXCEPT ![h] = store[asset[h]]]
  /\ Goto(h, IF store[asset[h]] = None THEN "decide" ELSE "fill")
  /\ UNCHANGED <<store, cache, asset, at, acked, written>>

\* Fault: the event's own timestamp is remembered, before it is written.
FillCacheEarly(h) ==
  /\ pc[h] = "fill"
  /\ cache' = [cache EXCEPT ![asset[h]] = at[h]]
  /\ Goto(h, "decide")
  /\ UNCHANGED <<store, asset, at, prev, acked, written>>

\* ... and remembered, in a later step of the thread.
FillCache(h) ==
  /\ pc[h] = "fill"
  /\ cache' = [cache EXCEPT ![asset[h]] = prev[h]]
  /\ Goto(h, "decide")
  /\ UNCHANGED <<store, asset, at, prev, acked, written>>

Stale(h) == prev[h] # None /\ at[h] <= prev[h]

\* The route answers "accepted" whether or not the event was stale.
Accepted(h) == acked' = [acked EXCEPT ![asset[h]] = Latest(at[h], @)]

\* A stale event: apply_asset_event returns False.
Skip(h) ==
  /\ pc[h] = "decide" /\ Stale(h)
  /\ Accepted(h)
  /\ Goto(h, "idle")
  /\ UNCHANGED <<store, cache, asset, at, prev, written>>

Put(h) == /\ store' = [store EXCEPT ![asset[h]] = at[h]]
          /\ written' = [written EXCEPT ![asset[h]] = Latest(at[h], @)]

\* client.index(..., refresh="wait_for")
Index(h) ==
  /\ pc[h] = "decide" /\ ~Stale(h)
  /\ Put(h)
  /\ Goto(h, "mark")
  /\ UNCHANGED <<cache, asset, at, prev, acked>>

\* _mark_applied, return True.
Mark(h) ==
  /\ pc[h] = "mark"
  /\ cache' = [cache EXCEPT ![asset[h]] = at[h]]
  /\ Accepted(h)
  /\ Goto(h, "idle")
  /\ UNCHANGED <<store, asset, at, prev, written>>

\* Fault: _mark_applied runs before the call that then fails.
CallFailsMarked(h) ==
  /\ pc[h] = "get" \/ (pc[h] = "decide" /\ ~Stale(h))
  /\ Goto(h, "idle")
  /\ cache' = [cache EXCEPT ![asset[h]] = at[h]]
  /\ UNCHANGED <<store, asset, at, prev, acked, written>>

\* The get or the index call raises and nothing was written: the route answers
\* 500 and the event is not delivered again.
CallFails(h) ==
  /\ pc[h] = "get" \/ (pc[h] = "decide" /\ ~Stale(h))
  /\ Goto(h, "idle")
  /\ UNCHANGED <<store, cache, asset, at, prev, acked, written>>

\* The index call raises a timeout although OpenSearch applied the write.
WriteUnacked(h) ==
  /\ asset[h] \in UnackedWrites
  /\ pc[h] = "decide" /\ ~Stale(h)
  /\ Put(h)
  /\ Goto(h, "idle")
  /\ UNCHANGED <<cache, asset, at, prev, acked>>

\* The sync process dies and starts again: requests in flight and the cache are
\* gone, OpenSearch is not.
Restart ==
  /\ cache' = [a \in Assets |-> None]
  /\ pc' = [h \in Handlers |-> "idle"]
  /\ UNCHANGED <<store, asset, at, prev, acked, written>>

Step(h) ==
  \/ \E a \in Assets, t \in Times : Deliver(h, a, t)
  \/ ReadCache(h)
  \/ GetStored(h)
  \/ FillCache(h)
  \/ Skip(h)
  \/ Index(h)
  \/ Mark(h)
  \/ CallFails(h)
  \/ WriteUnacked(h)

Next == Restart \/ \E h \in Handlers : Step(h)

Spec == Init /\ [][Next]_vars

-----------------------------------------------------------------------------
\* Between two events the cache agrees with OpenSearch wherever it has an entry,
\* so trusting it in _is_stale is the same as asking OpenSearch, of which the
\* comment in __init__ says that its federation_event_at is authoritative.
CacheMatchesStore ==
  \A a \in Orderly :
    (\A h \in Handlers : pc[h] = "mark" => asset[h] # a)
      => cache[a] \in {None, store[a]}

\* Once a sender was answered "accepted", the site holds that version of the
\* asset or a later one, whatever failures and restarts follow.
AckedIsStored == \A a \in InTurn : acked[a] <= store[a]

\* An event is turned away as stale only because it, or a later event of the
\* same asset, was really indexed: threads that race on the cache may not make
\* the indexer lose the newest version it was ever given.
SkippedOnlyIfIndexed ==
  /\ \A a \in Assets : cache[a] <= written[a] /\ acked[a] <= written[a]
  /\ \A h \in Handlers : pc[h] = "decide" => prev[h] <= written[asset[h]]

\* An index write never replaces a document by an older one: the indexer "skips
\* stale events" (the regression tests of the indexer, with and without a
\* restart in between).  No run states it, because overlapping events break it: see
\* "Disagreements" in the README.  ImplementsRegister has it for orderly assets.
StaleEventsSkipped == [][\A a \in Assets : store'[a] >= store[a]]_store

\* The documents of orderly assets behave as the register of VersionRegister, whatever
\* happens to other assets meanwhile.
Held     == [a \in Orderly |-> store[a]]
Promised == [a \in Orderly |-> acked[a]]
Register == INSTANCE VersionRegister WITH Assets <- Orderly, latest <- Held, promised <- Promised
ImplementsRegister == Register!Spec
=============================================================================
