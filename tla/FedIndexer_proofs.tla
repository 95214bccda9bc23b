------------------------- MODULE FedIndexer_proofs -------------------------
(***************************************************************************)
(* Theorems about FedIndexer, for any assets, handlers and timestamps.     *)
(*                                                                         *)
(* AckedIsStored is not inductive: whether Skip keeps it depends on what   *)
(* the handler read two steps earlier.  SerialInv adds what each step of a *)
(* handler knows about the store and the cache, which is lasting knowledge *)
(* only when no other handler works on the same asset (InTurn).            *)
(***************************************************************************)
EXTENDS FedIndexer, TLAPS

\* Type correctness: whatever is racing, every variable keeps its domain.
THEOREM TypeCorrect == Spec => []TypeOK
<1>1. Init => TypeOK
  BY DEF Init, TypeOK, Steps, Stamp, None
<1>2. TypeOK /\ [Next]_vars => TypeOK'
  <2> SUFFICES ASSUME TypeOK, [Next]_vars PROVE TypeOK'
    OBVIOUS
  <2> USE DEF TypeOK, Goto, Steps, Stamp, Times, None
  <2>1. CASE Restart
    BY <2>1 DEF Restart
  <2>2. ASSUME NEW h \in Handlers, NEW a \in Assets, NEW t \in Times, Deliver(h, a, t)
        PROVE  TypeOK'
    BY <2>2 DEF Deliver
  <2>3. ASSUME NEW h \in Handlers, ReadCache(h) PROVE TypeOK'
    BY <2>3 DEF ReadCache
  <2>4. ASSUME NEW h \in Handlers, GetStored(h) PROVE TypeOK'
    BY <2>4 DEF GetStored
  <2>5. ASSUME NEW h \in Handlers, FillCache(h) PROVE TypeOK'
    BY <2>5 DEF FillCache
  <2>6. ASSUME NEW h \in Handlers, Skip(h) PROVE TypeOK'
    BY <2>6 DEF Skip, Accepted, Latest
  <2>7. ASSUME NEW h \in Handlers, Index(h) PROVE TypeOK'
    BY <2>7 DEF Index, Put, Latest
  <2>8. ASSUME NEW h \in Handlers, Mark(h) PROVE TypeOK'
    BY <2>8 DEF Mark, Accepted, Latest
  <2>9. ASSUME NEW h \in Handlers, CallFails(h) PROVE TypeOK'
    BY <2>9 DEF CallFails
  <2>10. ASSUME NEW h \in Handlers, WriteUnacked(h) PROVE TypeOK'
    BY <2>10 DEF WriteUnacked, Put, Latest
  <2>11. CASE UNCHANGED vars
    BY <2>11 DEF vars
  <2> QED
    BY <2>1, <2>2, <2>3, <2>4, <2>5, <2>6, <2>7, <2>8, <2>9, <2>10, <2>11 DEF Next, Step
<1> QED
  BY <1>1, <1>2, PTL DEF Spec

-----------------------------------------------------------------------------
\* No two handlers work on one asset of InTurn.
Exclusive ==
  \A g, h \in Handlers :
    g # h /\ Busy(g) /\ Busy(h) /\ asset[g] \in InTurn => asset[g] # asset[h]

\* The guarantees of the webhook, with the part the cache plays in them.
Kept ==
  \A a \in InTurn :
    /\ acked[a] <= store[a]
    /\ cache[a] <= store[a]
    /\ cache[a] # None => acked[a] <= cache[a]

\* What a handler of an asset in turn knows at each of its steps.
Knows ==
  \A h \in Handlers : asset[h] \in InTurn =>
    /\ pc[h] = "get" => cache[asset[h]] = None
    /\ pc[h] = "fill" => cache[asset[h]] = None /\ prev[h] = store[asset[h]]
    /\ pc[h] = "decide" =>
         /\ cache[asset[h]] = prev[h]
         /\ acked[asset[h]] <= prev[h]
    /\ pc[h] = "mark" =>
         /\ store[asset[h]] = at[h]
         /\ acked[asset[h]] <= at[h]

SerialInv == Exclusive /\ Kept /\ Knows

LEMMA SerialInvInit == Init => SerialInv
  BY DEF Init, SerialInv, Exclusive, Kept, Knows, InTurn, Busy, None

LEMMA SerialInvStep ==
  ASSUME TypeOK, SerialInv, [Next]_vars
  PROVE  SerialInv'
<1> USE DEF InTurn, TypeOK, Goto, Steps, Stamp, Times, None, Busy, SerialInv, Exclusive, Kept, Knows
<1>1. CASE Restart
  BY <1>1 DEF Restart
<1>2. ASSUME NEW h \in Handlers, NEW a \in Assets, NEW t \in Times, Deliver(h, a, t)
      PROVE  SerialInv'
  BY <1>2 DEF Deliver
<1>3. ASSUME NEW h \in Handlers, ReadCache(h) PROVE SerialInv'
  BY <1>3 DEF ReadCache
<1>4. ASSUME NEW h \in Handlers, GetStored(h) PROVE SerialInv'
  BY <1>4 DEF GetStored
<1>5. ASSUME NEW h \in Handlers, FillCache(h) PROVE SerialInv'
  BY <1>5 DEF FillCache
<1>6. ASSUME NEW h \in Handlers, Skip(h) PROVE SerialInv'
  BY <1>6 DEF Skip, Stale, Accepted, Latest
<1>7. ASSUME NEW h \in Handlers, Index(h) PROVE SerialInv'
  BY <1>7 DEF Index, Stale, Put, Latest
<1>8. ASSUME NEW h \in Handlers, Mark(h) PROVE SerialInv'
  BY <1>8 DEF Mark, Accepted, Latest
<1>9. ASSUME NEW h \in Handlers, CallFails(h) PROVE SerialInv'
  BY <1>9 DEF CallFails
<1>10. ASSUME NEW h \in Handlers, WriteUnacked(h) PROVE SerialInv'
  BY <1>10 DEF WriteUnacked, Stale, Put, Latest
<1>11. CASE UNCHANGED vars
  BY <1>11 DEF vars
<1> QED
  BY <1>1, <1>2, <1>3, <1>4, <1>5, <1>6, <1>7, <1>8, <1>9, <1>10, <1>11 DEF Next, Step

\* AckedIsStored: as long as the events of one asset are handled one after the
\* other, an accepted event is never lost again, not by a restart between any two
\* steps and not by an index call that times out after it was applied.
THEOREM AckedStored == Spec => []AckedIsStored
<1>1. TypeOK /\ SerialInv /\ [Next]_vars => SerialInv'
  BY SerialInvStep
<1>2. SerialInv => AckedIsStored
  BY DEF SerialInv, Kept, AckedIsStored
<1> QED
  BY <1>1, <1>2, SerialInvInit, TypeCorrect, PTL DEF Spec

-----------------------------------------------------------------------------
(***************************************************************************)
(* The refinement needs more: that the comparison in _is_stale is made     *)
(* against what the store really holds, which an index call that times out *)
(* after it was applied would break (the cache is then behind the store).  *)
(***************************************************************************)
DecidesOnStore ==
  \A h \in Handlers :
    asset[h] \in Orderly /\ pc[h] = "decide" => prev[h] = store[asset[h]]

FaithfulInv == CacheMatchesStore /\ DecidesOnStore

LEMMA FaithfulInvStep ==
  ASSUME TypeOK, SerialInv, FaithfulInv, [Next]_vars
  PROVE  FaithfulInv'
<1> USE DEF Orderly, InTurn, TypeOK, Goto, Steps, Stamp, Times, None, Busy, SerialInv, Exclusive, Knows,
            FaithfulInv, CacheMatchesStore, DecidesOnStore
<1>1. CASE Restart
  BY <1>1 DEF Restart
<1>2. ASSUME NEW h \in Handlers, NEW a \in Assets, NEW t \in Times, Deliver(h, a, t)
      PROVE  FaithfulInv'
  BY <1>2 DEF Deliver
<1>3. ASSUME NEW h \in Handlers, ReadCache(h) PROVE FaithfulInv'
  BY <1>3 DEF ReadCache
<1>4. ASSUME NEW h \in Handlers, GetStored(h) PROVE FaithfulInv'
  BY <1>4 DEF GetStored
<1>5. ASSUME NEW h \in Handlers, FillCache(h) PROVE FaithfulInv'
  BY <1>5 DEF FillCache
<1>6. ASSUME NEW h \in Handlers, Skip(h) PROVE FaithfulInv'
  BY <1>6 DEF Skip
<1>7. ASSUME NEW h \in Handlers, Index(h) PROVE FaithfulInv'
  BY <1>7 DEF Index, Put
<1>8. ASSUME NEW h \in Handlers, Mark(h) PROVE FaithfulInv'
  BY <1>8 DEF Mark
<1>9. ASSUME NEW h \in Handlers, CallFails(h) PROVE FaithfulInv'
  BY <1>9 DEF CallFails
<1>10. ASSUME NEW h \in Handlers, WriteUnacked(h) PROVE FaithfulInv'
  BY <1>10 DEF WriteUnacked, Put
<1>11. CASE UNCHANGED vars
  BY <1>11 DEF vars
<1> QED
  BY <1>1, <1>2, <1>3, <1>4, <1>5, <1>6, <1>7, <1>8, <1>9, <1>10, <1>11 DEF Next, Step

\* A step that changes the store or the answers of one asset changes the register in
\* that asset alone, and not at all when the asset is not orderly.
LEMMA Elsewhere ==
  ASSUME TypeOK, NEW a \in Assets, NEW v,
         \/ store' = [store EXCEPT ![a] = v] /\ acked' = acked
         \/ acked' = [acked EXCEPT ![a] = v] /\ store' = store,
         a \notin Orderly
  PROVE  UNCHANGED <<Held, Promised>>
BY DEF TypeOK, Held, Promised, Orderly, InTurn

LEMMA RegisterStep ==
  ASSUME TypeOK, SerialInv, FaithfulInv, [Next]_vars
  PROVE  [Register!Next]_<<Held, Promised>>
<1> USE DEF TypeOK, Stamp, Times, None
<1>a. \A h \in Handlers : asset[h] \in Assets /\ at[h] \in 1..MaxTime
  OBVIOUS
<1>1. ASSUME NEW h \in Handlers, Skip(h) PROVE [Register!Next]_<<Held, Promised>>
  <2>1. CASE asset[h] \in Orderly
    <3>1. at[h] <= Held[asset[h]]
      BY <1>1, <2>1 DEF Skip, Stale, FaithfulInv, DecidesOnStore, Held
    <3>2. UNCHANGED Held
      BY <1>1 DEF Skip, Held
    <3>3. Promised' = [Promised EXCEPT ![asset[h]] = IF at[h] > @ THEN at[h] ELSE @]
      BY <1>1, <2>1 DEF Skip, Accepted, Latest, Promised, Orderly, InTurn
    <3> QED BY <3>1, <3>2, <3>3, <2>1, <1>a DEF Register!Next, Register!Acknowledge
  <2>2. CASE asset[h] \notin Orderly
    BY <1>1, <2>2, Elsewhere DEF Skip, Accepted
  <2> QED BY <2>1, <2>2
<1>2. ASSUME NEW h \in Handlers, Index(h) \/ WriteUnacked(h)
      PROVE  [Register!Next]_<<Held, Promised>>
  <2>1. CASE asset[h] \in Orderly
    <3>1. Index(h)
      BY <1>2, <2>1 DEF WriteUnacked, Orderly
    <3>2. store' = [store EXCEPT ![asset[h]] = at[h]] /\ UNCHANGED acked
      BY <3>1 DEF Index, Put
    <3>3. at[h] > Held[asset[h]]
      BY <3>1, <2>1, <1>a DEF Index, Stale, FaithfulInv, DecidesOnStore, Held, Orderly, InTurn
    <3>4. Held' = [Held EXCEPT ![asset[h]] = at[h]] /\ UNCHANGED Promised
      BY <3>2, <2>1 DEF Held, Promised, Orderly, InTurn
    <3> QED BY <3>3, <3>4, <2>1, <1>a DEF Register!Next, Register!Advance
  <2>2. CASE asset[h] \notin Orderly
    BY <1>2, <2>2, Elsewhere DEF Index, WriteUnacked, Put
  <2> QED BY <2>1, <2>2
<1>3. ASSUME NEW h \in Handlers, Mark(h) PROVE [Register!Next]_<<Held, Promised>>
  <2>1. CASE asset[h] \in Orderly
    <3>1. at[h] <= Held[asset[h]]
      BY <1>3, <2>1, <1>a DEF Mark, SerialInv, Knows, Held, Orderly
    <3>2. UNCHANGED Held
      BY <1>3 DEF Mark, Held
    <3>3. Promised' = [Promised EXCEPT ![asset[h]] = IF at[h] > @ THEN at[h] ELSE @]
      BY <1>3, <2>1 DEF Mark, Accepted, Latest, Promised, Orderly, InTurn
    <3> QED BY <3>1, <3>2, <3>3, <2>1, <1>a DEF Register!Next, Register!Acknowledge
  <2>2. CASE asset[h] \notin Orderly
    BY <1>3, <2>2, Elsewhere DEF Mark, Accepted
  <2> QED BY <2>1, <2>2
<1>4. ASSUME NEW h \in Handlers,
             \/ \E a \in Assets, t \in Times : Deliver(h, a, t)
             \/ ReadCache(h) \/ GetStored(h) \/ FillCache(h) \/ CallFails(h)
      PROVE  UNCHANGED <<store, acked>>
  BY <1>4 DEF Deliver, ReadCache, GetStored, FillCache, CallFails
<1>5. CASE Restart \/ UNCHANGED vars
  BY <1>5 DEF Restart, vars, Held, Promised
<1>6. UNCHANGED <<store, acked>> => UNCHANGED <<Held, Promised>>
  BY DEF Held, Promised
<1> QED
  BY <1>1, <1>2, <1>3, <1>4, <1>5, <1>6 DEF Next, Step

\* ImplementsRegister: for assets whose events are handled in turn and whose index
\* calls fail only when they wrote nothing, the thread steps, the cache, the restarts
\* and the threads of other assets are invisible: the documents are the register of
\* VersionRegister.
THEOREM RegisterRefined == Spec => ImplementsRegister
<1>1. Init => Register!Init /\ FaithfulInv
  BY DEF Init, Register!Init, None, FaithfulInv, CacheMatchesStore, DecidesOnStore,
         Held, Promised, Orderly, InTurn
<1>2. TypeOK /\ SerialInv /\ [Next]_vars => SerialInv'
  BY SerialInvStep
<1>3. TypeOK /\ SerialInv /\ FaithfulInv /\ [Next]_vars => FaithfulInv'
  BY FaithfulInvStep
<1>4. TypeOK /\ SerialInv /\ FaithfulInv /\ [Next]_vars => [Register!Next]_<<Held, Promised>>
  BY RegisterStep
<1> QED
  BY <1>1, <1>2, <1>3, <1>4, SerialInvInit, TypeCorrect, PTL
     DEF Spec, ImplementsRegister, Register!Spec

-----------------------------------------------------------------------------
\* Whatever overlaps or fails, what a thread has read was once written.
RaceInv ==
  /\ SkippedOnlyIfIndexed
  /\ \A a \in Assets : store[a] <= written[a]
  /\ \A h \in Handlers :
       /\ pc[h] = "fill" => prev[h] <= written[asset[h]]
       /\ pc[h] = "mark" => at[h] <= written[asset[h]]

LEMMA RaceInvStep ==
  ASSUME TypeOK, RaceInv, [Next]_vars
  PROVE  RaceInv'
<1> USE DEF TypeOK, Goto, Steps, Stamp, Times, None, RaceInv, SkippedOnlyIfIndexed
<1>1. CASE Restart
  BY <1>1 DEF Restart
<1>2. ASSUME NEW h \in Handlers, NEW a \in Assets, NEW t \in Times, Deliver(h, a, t)
      PROVE  RaceInv'
  BY <1>2 DEF Deliver
<1>3. ASSUME NEW h \in Handlers, ReadCache(h) PROVE RaceInv'
  BY <1>3 DEF ReadCache
<1>4. ASSUME NEW h \in Handlers, GetStored(h) PROVE RaceInv'
  BY <1>4 DEF GetStored
<1>5. ASSUME NEW h \in Handlers, FillCache(h) PROVE RaceInv'
  BY <1>5 DEF FillCache
<1>6. ASSUME NEW h \in Handlers, Skip(h) PROVE RaceInv'
  BY <1>6 DEF Skip, Stale, Accepted, Latest
<1>7. ASSUME NEW h \in Handlers, Index(h) \/ WriteUnacked(h) PROVE RaceInv'
  BY <1>7 DEF Index, WriteUnacked, Put, Latest
<1>8. ASSUME NEW h \in Handlers, Mark(h) PROVE RaceInv'
  BY <1>8 DEF Mark, Accepted, Latest
<1>9. ASSUME NEW h \in Handlers, CallFails(h) PROVE RaceInv'
  BY <1>9 DEF CallFails
<1>10. CASE UNCHANGED vars
  BY <1>10 DEF vars
<1> QED
  BY <1>1, <1>2, <1>3, <1>4, <1>5, <1>6, <1>7, <1>8, <1>9, <1>10 DEF Next, Step

\* SkippedOnlyIfIndexed: races of any number of threads, timeouts and restarts may
\* bring an older document back, but never make the indexer refuse a version
\* newer than everything it has indexed, so a later event repairs the document.
THEOREM NewestNeverRefused == Spec => []SkippedOnlyIfIndexed
<1>1. Init => RaceInv
  BY DEF Init, RaceInv, SkippedOnlyIfIndexed, None
<1>2. TypeOK /\ RaceInv /\ [Next]_vars => RaceInv'
  BY RaceInvStep
<1>3. RaceInv => SkippedOnlyIfIndexed
  BY DEF RaceInv
<1> QED
  BY <1>1, <1>2, <1>3, TypeCorrect, PTL DEF Spec

\* CacheMatchesStore: for the assets of RegisterRefined the comparison with a cache
\* entry is the comparison with OpenSearch.
THEOREM CacheFaithful == Spec => []CacheMatchesStore
<1>1. Init => FaithfulInv
  BY DEF Init, None, FaithfulInv, CacheMatchesStore, DecidesOnStore
<1>2. TypeOK /\ SerialInv /\ [Next]_vars => SerialInv'
  BY SerialInvStep
<1>3. TypeOK /\ SerialInv /\ FaithfulInv /\ [Next]_vars => FaithfulInv'
  BY FaithfulInvStep
<1>4. FaithfulInv => CacheMatchesStore
  BY DEF FaithfulInv
<1> QED
  BY <1>1, <1>2, <1>3, <1>4, SerialInvInit, TypeCorrect, PTL DEF Spec
=============================================================================
