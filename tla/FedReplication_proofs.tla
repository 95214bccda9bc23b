------------------------ MODULE FedReplication_proofs ------------------------
(***************************************************************************)
(* The safety properties of FedReplication for any peers and workers,      *)
(* number of changes and resolution of exported timestamps.  StampHonest,  *)
(* BootstrapCatchesUp and DraftsStayHome hold with all faults and          *)
(* restarts; DeletedIsWithdrawn and SettledIsCurrent where nothing fails,  *)
(* since an event that is lost is not sent again.                          *)
(***************************************************************************)
EXTENDS FedReplication, TLAPS

\* The type invariant is inductive once updated_at is known to move only together
\* with the version.
TypeInv == TypeOK /\ row.at <= row.ver + TicksPerSecond

LEMMA StampedDoc ==
  ASSUME NEW r, r.status \in RowState \cup {"none"}, r.ver \in Ver, r.at \in Tick,
         NEW t \in Tick
  PROVE  Stamped(r, t) \in Doc /\ Stamped(r, t).stamp = t /\ Stamped(r, t).at = r.at
BY DEF Stamped, Doc

LEMMA NoDocDoc == NoDoc \in Doc /\ NoDoc.stamp = 0 /\ NoDoc.at = 0
BY SizeAssumption DEF NoDoc, Doc, Tick, Ver

LEMMA RowFields ==
  ASSUME NEW r \in Row
  PROVE  r.status \in RowState \cup {"none"} /\ r.ver \in Ver /\ r.at \in Tick
BY DEF Row

LEMMA DocFields ==
  ASSUME NEW d \in Doc
  PROVE  /\ d.status \in RowState \cup {"none"}
         /\ d.ver \in Ver /\ d.at \in Tick /\ d.stamp \in Tick
BY DEF Doc

\* Cutting a timestamp to the second keeps it a timestamp and does not raise it.
LEMMA ToSecondBelow == \A t \in Tick : ToSecond(t) \in Tick /\ ToSecond(t) <= t
<1> TAKE t \in Tick
<1> DEFINE fraction == t % TicksPerSecond
<1>1. fraction \in 0..TicksPerSecond - 1
  BY SizeAssumption DEF Tick
<1>2. t < TicksPerSecond => fraction <= t
  <2> SUFFICES ASSUME t < TicksPerSecond PROVE fraction <= t
    OBVIOUS
  <2>1. t \div TicksPerSecond = 0
    BY SizeAssumption DEF Tick
  <2>2. t = TicksPerSecond * (t \div TicksPerSecond) + (t % TicksPerSecond)
    BY SizeAssumption DEF Tick
  <2> QED
    BY <2>1, <2>2, SizeAssumption DEF Tick
<1>3. ToSecond(t) = t - fraction
  BY DEF ToSecond
<1> HIDE DEF fraction
<1> QED
  BY <1>1, <1>2, <1>3, SizeAssumption DEF Tick
LEMMA EmptyQueue == <<>> \in Seq(Tick)
OBVIOUS

LEMMA TypeInvInit == Init => TypeInv
<1>1. ASSUME Init PROVE row \in Row /\ row.at <= row.ver + TicksPerSecond
  BY <1>1, SizeAssumption DEF Init, Row, RowState, Tick, Ver
<1>2. ASSUME Init PROVE TypeOK
  <2>1. chan \in Seq(Tick)
    BY <1>2, EmptyQueue DEF Init
  <2> QED
    BY <1>1, <1>2, <2>1, NoDocDoc DEF Init, TypeOK
<1> QED
  BY <1>1, <1>2 DEF TypeInv

\* The step of a peer keeps one of the two documents it compares.
LEMMA AppliedDoc ==
  ASSUME NEW old \in Doc, NEW new \in Doc
  PROVE  Applied(old, new) \in Doc
BY DEF Applied

\* What a committed transaction leaves of the row is a row.
LEMMA ChangedRow ==
  ASSUME TypeInv, row.ver < MaxVer, NEW s \in RowState, NEW t \in {row.at, row.at + 1}
  PROVE  /\ Changed(s, t) \in Row /\ Changed(s, t).at <= Changed(s, t).ver + TicksPerSecond
         /\ t \in Tick
BY SizeAssumption DEF TypeInv, TypeOK, Changed, Row, Tick, Ver

LEMMA TypeInvStep == TypeInv /\ [Next]_vars => TypeInv'
<1> SUFFICES ASSUME TypeInv, [Next]_vars PROVE TypeInv'
  OBVIOUS
<1> USE DEF TypeInv, TypeOK, services, history
<1>1. ASSUME NEW w \in Workers, NEW s \in RowState, Look(w, s) PROVE TypeInv'
  <2>1. [row EXCEPT !.status = s] \in Row
    BY DEF Row
  <2> QED
    BY <1>1, <2>1 DEF Look
<1>2. ASSUME NEW w \in Workers, Refused(w) PROVE TypeInv'
  BY <1>2 DEF Refused
<1>3. ASSUME NEW w \in Workers, Save(w) PROVE TypeInv'
  <2>1. /\ row'.at <= row'.ver + TicksPerSecond /\ row' \in Row
        /\ row.at + 1 \in Tick
    BY <1>3, ChangedRow DEF Save, Committed, Row
  <2>2. pc' \in [Workers -> {"idle", "save", "fresh", "decide", "index", "publish"}]
    BY <1>3 DEF Save, Committed
  <2>3. published' \in BOOLEAN /\ stale' \subseteq Tick /\ met' \subseteq Tick
    BY <1>3, <2>1 DEF Save, Committed
  <2> QED
    BY <1>3, <2>1, <2>2, <2>3 DEF Save, Committed
<1>4. ASSUME NEW w \in Workers, Relink(w) PROVE TypeInv'
  <2>1. row'.at <= row'.ver + TicksPerSecond /\ row' \in Row /\ row.at \in Tick
    BY <1>4, ChangedRow, RowFields DEF Relink, Committed, Row
  <2>2. published' \in BOOLEAN /\ unsaid' \subseteq Tick
    BY <1>4, <2>1 DEF Relink, Committed
  <2> QED
    BY <1>4, <2>1, <2>2 DEF Relink, Committed
<1>5. ASSUME NEW w \in Workers, Probe(w) PROVE TypeInv'
  BY <1>5 DEF Probe
<1>6. ASSUME NEW w \in Workers, Fresh(w) PROVE TypeInv'
  BY <1>6 DEF Fresh
<1>7. ASSUME NEW w \in Workers, Decide(w) PROVE TypeInv'
  <2>1. body[w].at \in Tick
    BY RowFields
  <2> QED
    BY <1>7, <2>1 DEF Decide
<1>8. ASSUME NEW w \in Workers, IndexLocal(w) PROVE TypeInv'
  <2>1. doc' \in Doc
    BY <1>8, RowFields, StampedDoc DEF IndexLocal
  <2> QED
    BY <1>8, <2>1 DEF IndexLocal
<1>9. ASSUME NEW w \in Workers, IndexLocalFails(w) PROVE TypeInv'
  BY <1>9 DEF IndexLocalFails
<1>10. ASSUME NEW w \in Workers, Publish(w) PROVE TypeInv'
  <2>1. body[w].at \in Tick
    BY RowFields
  <2>2. Append(chan, body[w].at) \in Seq(Tick)
    BY <2>1
  <2>3. chan' \in Seq(Tick)
    BY <1>10, <2>2 DEF Publish
  <2> QED
    BY <1>10, <2>3 DEF Publish
<1>11. CASE TakeEvent
  <2>1. chan' \in Seq(Tick) /\ Head(chan) \in Tick
    BY <1>11 DEF TakeEvent
  <2>2. msg' \in Doc
    BY <1>11, <2>1, DocFields, StampedDoc DEF TakeEvent
  <2> QED
    BY <1>11, <2>1, <2>2 DEF TakeEvent
<1>12. CASE SubscriberDies
  BY <1>12, EmptyQueue DEF SubscriberDies
<1>13. ASSUME NEW p \in Peers, Push(p) PROVE TypeInv'
  BY <1>13, AppliedDoc DEF Push
<1>14. CASE OwnerStops
  BY <1>14, NoDocDoc, EmptyQueue DEF OwnerStops
<1>15. CASE OwnerStarts
  <2>1. Stamped(row, ToSecond(row.at)) \in Doc
    BY RowFields, StampedDoc, ToSecondBelow
  <2>2. doc' \in Doc
    BY <1>15, <2>1, AppliedDoc DEF OwnerStarts
  <2> QED
    BY <1>15, <2>2 DEF OwnerStarts
<1>16. ASSUME NEW p \in Peers, PeerStops(p) \/ PeerStartsAlone(p) PROVE TypeInv'
  BY <1>16 DEF PeerStops, PeerStartsAlone
<1>17. ASSUME NEW p \in Peers, PeerPulls(p) PROVE TypeInv'
  <2>1. Listed \in Doc
    BY DocFields, StampedDoc, ToSecondBelow DEF Listed
  <2> QED
    BY <1>17, <2>1, AppliedDoc DEF PeerPulls
<1>18. CASE UNCHANGED vars
  BY <1>18 DEF vars
<1> QED
  BY <1>1, <1>2, <1>3, <1>4, <1>5, <1>6, <1>7, <1>8, <1>9, <1>10, <1>11, <1>12,
     <1>13, <1>14, <1>15, <1>16, <1>17, <1>18
  DEF Next, Commit, Callback, Fanout, Failure, Recovery

\* Type correctness of the replication path, from the database row to the peers.
THEOREM TypeCorrect == Spec => []TypeOK
<1>1. TypeInv => TypeOK
  BY DEF TypeInv
<1> QED
  BY <1>1, TypeInvInit, TypeInvStep, PTL DEF Spec

-----------------------------------------------------------------------------
(***************************************************************************)
(* StampHonest is about the peers, the last to know.  Upstream it rests on *)
(* what callbacks have read: between the body of a running one and the row *)
(* there are only saves that were committed while it was running, and so   *)
(* the owner's document is older than no event but those of such saves.    *)
(***************************************************************************)
HasRead(w) == pc[w] \in {"decide", "index", "publish"}

Kept(t, a) == t <= a \/ t \in met
Honest(d)  == Kept(d.stamp, d.at)

HonestInv ==
  /\ StampHonest
  /\ Honest(msg)
  /\ doc.stamp <= doc.at /\ doc.at <= row.at
  /\ \A w \in Workers : HasRead(w) =>
       /\ body[w].at <= row.at
       /\ \A t \in Tick : t <= row.at => Kept(t, body[w].at)
  /\ \A w \in Workers : pc[w] = "publish" => Kept(body[w].at, doc.at)
  /\ \A i \in 1..Len(chan) : chan[i] <= row.at /\ Kept(chan[i], doc.at)

LEMMA HonestInvInit == Init => HonestInv
BY NoDocDoc, SizeAssumption DEF Init, HonestInv, StampHonest, Honest, Kept, HasRead

LEMMA HonestInvStep ==
  ASSUME TypeInv, HonestInv, [Next]_vars
  PROVE  HonestInv'
<1> USE DEF TypeInv, TypeOK, HonestInv, StampHonest, Honest, Kept, HasRead, Tick, services, history
<1>0. /\ row.at \in Nat
      /\ doc.at \in Nat /\ doc.stamp \in Nat
      /\ msg.at \in Nat /\ msg.stamp \in Nat
      /\ \A w \in Workers : body[w].at \in Tick
      /\ \A p \in Peers : peer[p].at \in Nat /\ peer[p].stamp \in Nat
      /\ \A i \in 1..Len(chan) : chan[i] \in Tick
      /\ Tick \subseteq Nat
  BY RowFields, DocFields, SizeAssumption
<1>1. ASSUME NEW w \in Workers, NEW s \in RowState, Look(w, s) PROVE HonestInv'
  BY <1>0, <1>1 DEF Look, Busy
<1>2. ASSUME NEW w \in Workers,
             Refused(w) \/ Probe(w) \/ IndexLocalFails(w) \/ Decide(w)
      PROVE  HonestInv'
  BY <1>2 DEF Refused, Probe, IndexLocalFails, Decide
<1>3. ASSUME NEW w \in Workers, Save(w) PROVE HonestInv'
  <2>1. /\ row'.at = row.at + 1 /\ met \subseteq met'
        /\ UNCHANGED <<body, doc, chan, msg, peer>>
    BY <1>3 DEF Save, Committed, Changed
  <2>2. ASSUME NEW v \in Workers, HasRead(v)' PROVE HasRead(v) /\ row'.at \in met'
    <3>1. v # w /\ pc'[v] = pc[v]
      BY <1>3, <2>2 DEF Save, Committed
    <3>2. Runs(v)
      BY <2>2, <3>1 DEF Runs
    <3> QED
      BY <1>3, <2>1, <2>2, <3>1, <3>2 DEF Save
  <2>3. ASSUME NEW v \in Workers, pc'[v] = "publish" PROVE pc[v] = "publish"
    BY <1>3, <2>3 DEF Save, Committed
  <2>4. ASSUME NEW v \in Workers, HasRead(v)'
        PROVE  /\ body'[v].at <= row'.at
               /\ \A t \in Tick : t <= row'.at => t <= body'[v].at \/ t \in met'
    <3>1. HasRead(v) /\ row'.at \in met'
      BY <2>2, <2>4
    <3>2. \A t \in Tick : t <= row'.at => t <= row.at \/ t = row'.at
      BY <1>0, <2>1
    <3> QED
      BY <1>0, <2>1, <3>1, <3>2
  <2>5. StampHonest' /\ Honest(msg)' /\ doc'.at <= row'.at /\ doc'.stamp <= doc'.at
    BY <1>0, <2>1
  <2>6. (\A i \in 1..Len(chan) : chan[i] <= row.at /\ Kept(chan[i], doc.at))'
    BY <1>0, <2>1
  <2>7. \A v \in Workers : pc'[v] = "publish" => Kept(body[v].at, doc.at)'
    BY <2>1, <2>3
  <2> QED
    BY <2>4, <2>5, <2>6, <2>7
<1>4. ASSUME NEW w \in Workers, Relink(w) PROVE HonestInv'
  <2>1. row'.at = row.at
    BY <1>4 DEF Relink, Committed, Changed
  <2> QED
    BY <1>0, <1>4, <2>1 DEF Relink, Committed
<1>5. ASSUME NEW w \in Workers, Fresh(w) PROVE HonestInv'
  BY <1>0, <1>5 DEF Fresh
<1>6. ASSUME NEW w \in Workers, IndexLocal(w) PROVE HonestInv'
  <2>1. doc'.at = body[w].at /\ doc'.stamp = body[w].at
    BY <1>6 DEF IndexLocal, Stamped
  <2>2. /\ \A t \in Tick : t <= row.at => Kept(t, doc'.at)
        /\ body[w].at <= row.at
    BY <1>6, <2>1 DEF IndexLocal
  <2>3. \A v \in Workers : HasRead(v)' => HasRead(v)
    BY <1>6 DEF IndexLocal
  <2>4. UNCHANGED <<row, body, chan, msg, peer, met>>
    BY <1>6 DEF IndexLocal
  <2> QED
    BY <1>0, <2>1, <2>2, <2>3, <2>4
<1>7. ASSUME NEW w \in Workers, Publish(w) PROVE HonestInv'
  <2>0. /\ UNCHANGED <<row, body, doc, msg, peer, met>>
        /\ \A v \in Workers : pc'[v] \in {pc[v], "idle"}
        /\ Kept(body[w].at, doc.at) /\ body[w].at <= row.at
    BY <1>7 DEF Publish
  <2>1. CASE chan' = Append(chan, body[w].at)
    <3>2. Len(chan') = Len(chan) + 1
      BY <2>1
    <3>3. \A i \in 1..Len(chan) : chan'[i] = chan[i]
      BY <2>1
    <3>4. chan'[Len(chan) + 1] = body[w].at
      BY <2>1
    <3>5. \A i \in 1..Len(chan') : chan'[i] <= row.at /\ Kept(chan'[i], doc.at)
      BY <2>0, <3>2, <3>3, <3>4
    <3> QED
      BY <2>0, <3>5
  <2>2. CASE UNCHANGED chan
    BY <2>0, <2>2
  <2> QED
    BY <1>7, <2>1, <2>2 DEF Publish
<1>8. CASE TakeEvent
  <2>1. Head(chan) = chan[1] /\ 1 \in 1..Len(chan)
    BY <1>8 DEF TakeEvent
  <2>2. \A i \in 1..Len(chan') : chan'[i] <= row.at /\ Kept(chan'[i], doc.at)
    BY <1>0, <1>8 DEF TakeEvent
  <2>3. Honest(msg')
    <3>1. Stamped(doc, Head(chan)).stamp = Head(chan) /\ Stamped(doc, Head(chan)).at = doc.at
      BY DEF Stamped
    <3>2. msg' \in {msg, Stamped(doc, Head(chan))}
      BY <1>8 DEF TakeEvent
    <3> QED
      BY <2>1, <3>1, <3>2
  <2> QED
    BY <1>8, <2>2, <2>3 DEF TakeEvent
<1>9. CASE SubscriberDies
  BY <1>9 DEF SubscriberDies
<1>10. ASSUME NEW p \in Peers, Push(p) PROVE HonestInv'
  BY <1>10 DEF Push, Applied
<1>11. CASE OwnerStops
  BY <1>11, NoDocDoc DEF OwnerStops
<1>12. CASE OwnerStarts
  <2>1. LET new == Stamped(row, ToSecond(row.at))
        IN  new.at = row.at /\ new.stamp <= new.at
    BY <1>0, RowFields, StampedDoc, ToSecondBelow
  <2>2. doc'.stamp <= doc'.at /\ doc.at <= doc'.at /\ doc'.at <= row.at
    BY <1>0, <1>12, <2>1 DEF OwnerStarts, Applied
  <2>3. doc'.at \in Nat
    BY <1>0, <1>12, <2>1 DEF OwnerStarts, Applied
  <2>4. \A t \in Tick : Kept(t, doc.at) => Kept(t, doc'.at)
    BY <1>0, <2>2, <2>3
  <2> QED
    BY <1>0, <1>12, <2>2, <2>3, <2>4 DEF OwnerStarts
<1>13. ASSUME NEW p \in Peers, PeerStops(p) \/ PeerStartsAlone(p) PROVE HonestInv'
  BY <1>13 DEF PeerStops, PeerStartsAlone
<1>14. ASSUME NEW p \in Peers, PeerPulls(p) PROVE HonestInv'
  <2>1. Honest(Listed)
    <3>1. Listed.stamp = ToSecond(doc.at) /\ Listed.at = doc.at
      BY DEF Listed, Stamped
    <3>2. ToSecond(doc.at) <= doc.at
      BY DocFields, ToSecondBelow
    <3> QED
      BY <3>1, <3>2
  <2> QED
    BY <1>14, <2>1 DEF PeerPulls, Applied
<1>15. CASE UNCHANGED vars
  BY <1>15 DEF vars
<1> QED
  BY <1>1, <1>2, <1>3, <1>4, <1>5, <1>6, <1>7, <1>8, <1>9, <1>10, <1>11, <1>12,
     <1>13, <1>14, <1>15
  DEF Next, Commit, Callback, Fanout, Failure, Recovery

\* StampHonest: no fault, restart, relink or loss of precision makes a peer's stamp
\* promise more than its body delivers, only a save committed beside a callback.
THEOREM StampsHonest == Spec => []StampHonest
<1>1. TypeInv /\ HonestInv /\ [Next]_vars => HonestInv'
  BY HonestInvStep
<1>2. HonestInv => StampHonest
  BY DEF HonestInv
<1> QED
  BY <1>1, <1>2, TypeInvInit, TypeInvStep, HonestInvInit, PTL DEF Spec

\* BootstrapCatchesUp: what a starting peer pulls leaves it at least as recent as the
\* owner's index, to the second, unless a stamp it has was made beside a callback.
THEOREM BootstrapsCatchUp == Spec => BootstrapCatchesUp
<1>1. ASSUME TypeInv, HonestInv, [Next]_vars, NEW p \in Peers, PeerPulls(p)
      PROVE  peer'[p].at >= ToSecond(doc.at) \/ peer[p].stamp \in met
  <2> DEFINE listed == ToSecond(doc.at)
  <2>1. doc.at \in Nat /\ listed \in Nat /\ listed <= doc.at
    BY <1>1, DocFields, ToSecondBelow, SizeAssumption DEF TypeInv, TypeOK, Tick
  <2>2. Listed.stamp = listed /\ Listed.at = doc.at
    BY DEF Listed, Stamped
  <2>3. /\ peer[p].stamp \in Nat /\ peer[p].at \in Nat
        /\ peer[p].stamp <= peer[p].at \/ peer[p].stamp \in met
    BY <1>1, DocFields, SizeAssumption DEF TypeInv, TypeOK, HonestInv, StampHonest, Tick
  <2>4. peer'[p] = IF Listed.stamp > peer[p].stamp THEN Listed ELSE peer[p]
    BY <1>1 DEF PeerPulls, Applied, TypeInv, TypeOK
  <2> HIDE DEF listed
  <2>5. CASE Listed.stamp > peer[p].stamp
    BY <2>1, <2>2, <2>4, <2>5 DEF listed
  <2>6. CASE ~(Listed.stamp > peer[p].stamp)
    BY <2>1, <2>2, <2>3, <2>4, <2>6 DEF listed
  <2> QED
    BY <2>5, <2>6
<1>2. TypeInv /\ HonestInv /\ [Next]_vars =>
        [\A p \in Peers : PeerPulls(p) =>
           peer'[p].at >= ToSecond(doc.at) \/ peer[p].stamp \in met]_vars
  BY <1>1
<1>3. TypeInv /\ HonestInv /\ [Next]_vars => HonestInv'
  BY HonestInvStep
<1> QED
  BY <1>2, <1>3, TypeInvInit, TypeInvStep, HonestInvInit, PTL DEF Spec, BootstrapCatchesUp

-----------------------------------------------------------------------------
(***************************************************************************)
(* DraftsStayHome: what is indexed is what a callback has read, and a      *)
(* callback goes on with a draft only where there is a document already.   *)
(* Then the asset was published before the callback read the draft, which  *)
(* takes an outdated save, or after it, beside the callback.               *)
(***************************************************************************)
Excused(a) == (\E t \in stale : t <= a) \/ (\E t \in met : a < t)

Home(d) == /\ d # NoDoc => published
           /\ d.status = "draft" => Excused(d.at)

DraftInv ==
  /\ Home(doc) /\ Home(msg) /\ \A p \in Peers : Home(peer[p])
  /\ row.status = "public" => published
  /\ row.status = "draft" /\ published => \E t \in stale : t <= row.at
  /\ \A w \in Workers :
       /\ pc[w] = "save" => /\ body[w].ver <= row.ver
                            /\ body[w].ver = row.ver => <<row.status, body[w].status>> \in Permitted
       /\ HasRead(w) => /\ body[w].status = "public" => published
                        /\ body[w].status = "draft" /\ published => Excused(body[w].at)
                        /\ body[w].at <= row.at
       /\ pc[w] = "index" => published

LEMMA DraftInvInit == Init => DraftInv
BY DEF Init, DraftInv, Home, HasRead, NoDoc

LEMMA DraftInvStep == TypeOK /\ DraftInv /\ [Next]_vars => DraftInv'
<1> SUFFICES ASSUME TypeOK, DraftInv, [Next]_vars PROVE DraftInv'
  OBVIOUS
<1> USE DEF TypeOK, DraftInv, HasRead, services, history
<1>0. /\ \A d, t : Stamped(d, t).status = d.status /\ Stamped(d, t).at = d.at
      /\ row.at \in Nat /\ row.ver \in Nat /\ row.status \in RowState
      /\ \A w \in Workers : body[w].ver \in Nat /\ body[w].at \in Nat
  BY SizeAssumption DEF Stamped, Row, Tick, Ver
\* What is excused stays excused, and what is at home stays there.
<1>a. ASSUME stale \subseteq stale', met \subseteq met', published => published'
      PROVE  /\ \A a : Excused(a) => Excused(a)'
             /\ Home(doc) /\ UNCHANGED doc => Home(doc)'
             /\ Home(msg) /\ UNCHANGED msg => Home(msg)'
             /\ UNCHANGED peer => \A p \in Peers : Home(peer[p])'
  <2>1. \A a : Excused(a) => Excused(a)'
    BY <1>a DEF Excused
  <2> QED
    BY <1>a, <2>1 DEF Home
<1>1. ASSUME NEW w \in Workers, NEW s \in RowState, Look(w, s) PROVE DraftInv'
  <2>1. /\ UNCHANGED <<row, doc, msg, peer, published, stale, met>>
        /\ \A v \in Workers : v # w => pc'[v] = pc[v] /\ body'[v] = body[v]
        /\ pc'[w] = "save" /\ body'[w].ver = row.ver /\ body'[w].status = s
        /\ <<row.status, s>> \in Permitted
    BY <1>1 DEF Look, Row
  <2>2. ASSUME NEW v \in Workers
        PROVE  /\ pc'[v] = "save" =>
                    /\ body'[v].ver <= row.ver
                    /\ body'[v].ver = row.ver => <<row.status, body'[v].status>> \in Permitted
               /\ HasRead(v)' => HasRead(v) /\ body'[v] = body[v]
               /\ pc'[v] = "index" => published
    <3>1. CASE v = w
      BY <1>0, <2>1, <3>1
    <3>2. CASE v # w
      BY <2>1, <3>2
    <3> QED
      BY <3>1, <3>2
  <2> QED
    BY <1>a, <2>1, <2>2 DEF Excused
<1>2. ASSUME NEW w \in Workers,
             Refused(w) \/ Probe(w) \/ IndexLocalFails(w) \/ Publish(w)
      PROVE  DraftInv'
  BY <1>a, <1>2 DEF Refused, Probe, IndexLocalFails, Publish, Excused
<1>3. ASSUME NEW w \in Workers, Save(w) PROVE DraftInv'
  <2> DEFINE t == row.at + 1
  <2>1. /\ row'.status = body[w].status /\ row'.at = t /\ row'.ver = row.ver + 1
        /\ published' = (published \/ body[w].status = "public")
        /\ stale \subseteq stale' /\ met \subseteq met'
        /\ body[w].ver # row.ver => t \in stale'
        /\ pc[w] = "save" /\ pc'[w] \in {"fresh", "idle"}
        /\ \A v \in Workers : v # w => pc'[v] = pc[v]
        /\ UNCHANGED <<body, doc, msg, peer>>
    BY <1>3 DEF Save, Committed, Changed
  <2>2. Home(doc)' /\ Home(msg)' /\ \A p \in Peers : Home(peer[p])'
    BY <1>a, <2>1
  <2>3. row'.status = "draft" /\ published' => \E u \in stale' : u <= row'.at
    <3> SUFFICES ASSUME row'.status = "draft", published' PROVE \E u \in stale' : u <= row'.at
      OBVIOUS
    <3>1. published
      BY <2>1
    <3>2. CASE body[w].ver # row.ver
      BY <1>0, <2>1, <3>2
    <3>3. CASE body[w].ver = row.ver
      <4>1. row.status = "draft"
        BY <2>1, <3>3 DEF Permitted
      <4>2. PICK u \in stale : u <= row.at
        BY <3>1, <4>1
      <4>3. u \in Nat
        BY <4>2, SizeAssumption DEF Tick
      <4> QED
        BY <1>0, <2>1, <4>2, <4>3
    <3> QED
      BY <3>2, <3>3
  <2>4. ASSUME NEW v \in Workers, HasRead(v)'
        PROVE  /\ body'[v].status = "public" => published'
               /\ body'[v].status = "draft" /\ published' => Excused(body[v].at)'
               /\ body'[v].at <= row'.at
    <3>1. v # w /\ HasRead(v)
      BY <2>1, <2>4
    <3>2. Runs(v)
      BY <3>1 DEF Runs
    <3>3. t \in met'
      BY <1>3, <3>2 DEF Save
    <3>4. body[v].at <= row.at /\ body[v].at \in Nat
      BY <1>0, <3>1
    <3>5. body'[v] = body[v] /\ body[v].at < t /\ body[v].at <= row'.at
      BY <1>0, <2>1, <3>4
    <3>6. Excused(body[v].at)'
      BY <3>3, <3>5 DEF Excused
    <3>7. body[v].status = "public" => published'
      BY <2>1, <3>1
    <3> QED
      BY <3>5, <3>6, <3>7
  <2>5. ASSUME NEW v \in Workers
        PROVE  /\ pc'[v] = "save" =>
                    body'[v].ver <= row'.ver /\ body'[v].ver # row'.ver
               /\ pc'[v] = "index" => published'
    <3>1. pc'[v] \in {"save", "index"} => pc[v] = pc'[v]
      BY <2>1
    <3>2. pc[v] = "save" => body[v].ver <= row.ver /\ body[v].ver \in Nat
      BY <1>0
    <3>3. pc[v] = "save" => body[v].ver <= row'.ver /\ body[v].ver # row'.ver
      BY <1>0, <2>1, <3>2
    <3> QED
      BY <2>1, <3>1, <3>3
  <2>6. row'.status = "public" => published'
    BY <2>1
  <2> HIDE DEF t
  <2> QED
    BY <2>2, <2>3, <2>4, <2>5, <2>6
<1>4. ASSUME NEW w \in Workers, Relink(w) PROVE DraftInv'
  <2>1. /\ row.status = "public" /\ row'.status = "public" /\ row'.at = row.at
        /\ row'.ver = row.ver + 1
        /\ published /\ published' /\ pc'[w] = "fresh"
        /\ \A v \in Workers : v # w => pc'[v] = pc[v]
        /\ UNCHANGED <<body, doc, msg, peer, stale, met>>
    BY <1>4 DEF Relink, Committed, Changed
  <2> QED
    BY <1>0, <1>a, <2>1 DEF Excused
<1>5. ASSUME NEW w \in Workers, Fresh(w) PROVE DraftInv'
  <2>1. /\ UNCHANGED <<row, doc, msg, peer, published, stale, met>>
        /\ \A v \in Workers : v # w => pc'[v] = pc[v] /\ body'[v] = body[v]
        /\ pc'[w] = "decide" /\ body'[w] = row
    BY <1>5 DEF Fresh
  <2> QED
    BY <1>0, <1>a, <2>1 DEF Excused
<1>6. ASSUME NEW w \in Workers, Decide(w) PROVE DraftInv'
  <2>1. /\ UNCHANGED <<row, body, doc, msg, peer, published, stale, met>>
        /\ \A v \in Workers : v # w => pc'[v] = pc[v]
        /\ pc[w] = "decide" /\ pc'[w] \in {"index", "idle"}
        /\ pc'[w] = "index" => NeedsReindex(body[w])
    BY <1>6 DEF Decide
  <2>2. NeedsReindex(body[w]) => doc # NoDoc \/ body[w].status = "public"
    <3>1. body[w].status \in RowState
      BY DEF Row
    <3>2. body[w].status = "public" \/ (NeedsReindex(body[w]) => doc.status # "none")
      BY <3>1 DEF NeedsReindex, RowState
    <3>3. doc = NoDoc => doc.status = "none"
      BY DEF NoDoc
    <3> QED
      BY <3>2, <3>3
  <2>3. pc'[w] = "index" => published
    BY <2>1, <2>2 DEF Home
  <2> QED
    BY <1>a, <2>1, <2>3 DEF Excused
<1>7. ASSUME NEW w \in Workers, IndexLocal(w) PROVE DraftInv'
  <2>1. doc'.status = body[w].status /\ doc'.at = body[w].at /\ published
    BY <1>0, <1>7 DEF IndexLocal
  <2>2. UNCHANGED <<row, body, msg, peer, published, stale, met>>
    BY <1>7 DEF IndexLocal
  <2>3. body[w].status = "draft" => Excused(body[w].at)
    BY <1>7, <2>1 DEF IndexLocal
  <2>4. Home(doc)'
    BY <2>1, <2>2, <2>3 DEF Home, Excused
  <2> QED
    BY <1>7, <1>a, <2>2, <2>4 DEF IndexLocal, Excused
<1>8. CASE TakeEvent
  <2>1. /\ UNCHANGED <<row, pc, body, doc, peer, published, stale, met>>
        /\ msg' = msg \/ (doc # NoDoc /\ msg'.status = doc.status /\ msg'.at = doc.at)
    BY <1>0, <1>8 DEF TakeEvent
  <2>2. Home(msg)'
    BY <2>1 DEF Home, Excused
  <2> QED
    BY <1>a, <2>1, <2>2 DEF Excused
<1>9. CASE SubscriberDies
  BY <1>9, <1>a DEF SubscriberDies, Excused
<1>10. ASSUME NEW p \in Peers, Push(p) PROVE DraftInv'
  <2>1. /\ UNCHANGED <<row, pc, body, doc, msg, published, stale, met>>
        /\ \A q \in Peers : peer'[q] \in {peer[q], msg}
    BY <1>10 DEF Push, Applied
  <2>2. \A q \in Peers : Home(peer[q])'
    BY <2>1 DEF Home, Excused
  <2> QED
    BY <1>a, <2>1, <2>2 DEF Excused
<1>11. CASE OwnerStops
  <2>1. Home(msg)'
    BY <1>11 DEF OwnerStops, Home, NoDoc
  <2> QED
    BY <1>11, <1>a, <2>1 DEF OwnerStops, Excused
<1>12. CASE OwnerStarts
  <2>1. /\ UNCHANGED <<row, pc, body, msg, peer, published, stale, met>>
        /\ doc' = doc \/ (row.status = "public" /\ doc'.status = "public")
    BY <1>0, <1>12 DEF OwnerStarts, Applied
  <2>2. Home(doc)'
    BY <2>1 DEF Home, Excused
  <2> QED
    BY <1>a, <2>1, <2>2 DEF Excused
<1>13. ASSUME NEW p \in Peers, PeerStops(p) \/ PeerStartsAlone(p) PROVE DraftInv'
  BY <1>13, <1>a DEF PeerStops, PeerStartsAlone, Excused
<1>14. ASSUME NEW p \in Peers, PeerPulls(p) PROVE DraftInv'
  <2>1. /\ UNCHANGED <<row, pc, body, doc, msg, published, stale, met>>
        /\ \A q \in Peers : q # p => peer'[q] = peer[q]
        /\ peer'[p] = peer[p] \/ (peer'[p] = Listed /\ Listed.stamp > peer[p].stamp)
    BY <1>14 DEF PeerPulls, Applied
  <2>2. Listed.status = doc.status /\ Listed.at = doc.at /\ Listed.stamp = ToSecond(doc.at)
    BY DEF Listed, Stamped
  <2>3. Listed.stamp > peer[p].stamp => doc # NoDoc
    <3>1. peer[p].stamp \in Nat /\ doc.at \in Tick
      BY DocFields, SizeAssumption DEF Tick
    <3>2. ToSecond(doc.at) \in Nat /\ ToSecond(doc.at) <= doc.at
      BY <3>1, ToSecondBelow, SizeAssumption DEF Tick
    <3> QED
      BY <2>2, <3>1, <3>2, NoDocDoc, SizeAssumption DEF Tick
  <2>4. Home(peer[p])'
    BY <2>1, <2>2, <2>3 DEF Home, Excused
  <2>5. \A q \in Peers : Home(peer[q])'
    BY <2>1, <2>4 DEF Home, Excused
  <2> QED
    BY <1>a, <2>1, <2>5 DEF Excused
<1>15. CASE UNCHANGED vars
  BY <1>15, <1>a DEF vars, Excused
<1> QED
  BY <1>1, <1>2, <1>3, <1>4, <1>5, <1>6, <1>7, <1>8, <1>9, <1>10, <1>11, <1>12, <1>13,
     <1>14, <1>15
  DEF Next, Commit, Callback, Fanout, Failure, Recovery

\* DraftsStayHome: for any number of workers, outdated saves and every failure,
\* nothing is indexed of an asset that was never published, and a draft only where an
\* outdated save or a later save beside its callback is to blame.
THEOREM DraftsKept == Spec => []DraftsStayHome
<1>1. TypeInv => TypeOK
  BY DEF TypeInv
<1>2. DraftInv => DraftsStayHome
  BY DEF DraftInv, DraftsStayHome, Home, Excused
<1> QED
  BY <1>1, <1>2, TypeInvInit, TypeInvStep, DraftInvInit, DraftInvStep, PTL DEF Spec

-----------------------------------------------------------------------------
(***************************************************************************)
(* DeletedIsWithdrawn and SettledIsCurrent say what becomes of a change    *)
(* where nothing fails (Calm).  Whoever has the row's updated_at has its   *)
(* status, and if no other change had that stamp, its version.  The        *)
(* callback of a save that met no other one brings the row to the owner's  *)
(* index, and nothing older comes after it.                                *)
(***************************************************************************)
Calm == ~Faults /\ ~Restarts

AllUp ==
  /\ syncUp /\ alive
  /\ \A w \in Workers : operational[w]
  /\ \A p \in Peers : peerUp[p]

Same(d) == d.at = row.at => /\ d.status = row.status
                            /\ row.at \notin unsaid => d.ver = row.ver

\* Is a callback still to write the owner's document?
Writes(w) == pc[w] \in {"fresh", "decide", "index"}

CallbackInv ==
  /\ AllUp
  /\ row.at >= 1
  /\ doc.status = "none" => doc = NoDoc
  /\ Same(doc) /\ \A w \in Workers : HasRead(w) => Same(body[w])
  /\ row.at \notin met /\ (\A w \in Workers : ~Writes(w)) =>
       \/ doc.at = row.at
       \/ doc = NoDoc /\ row.status # "public"
       \/ row.status = "deleted" /\ doc.status = "deleted" /\ row.at \in unsaid

LEMMA CallbackInvInit == Init => CallbackInv
BY SizeAssumption DEF Init, CallbackInv, AllUp, Same, HasRead, NoDoc

LEMMA CallbackInvStep ==
  ASSUME Calm, TypeInv, HonestInv, CallbackInv, [Next]_vars
  PROVE  CallbackInv'
<1> USE DEF TypeInv, TypeOK, CallbackInv, AllUp, Calm, HasRead, Writes, services, history
<1>0. /\ row.at \in Nat /\ row.ver \in Nat /\ row.status \in RowState
      /\ doc.at \in Nat /\ doc.at <= row.at
      /\ \A w \in Workers : body[w].at \in Nat /\ body[w].status \in RowState
      /\ \A w \in Workers : HasRead(w) =>
           body[w].at <= row.at /\ (row.at \notin met => body[w].at = row.at)
  <2>1. /\ row.at \in Tick /\ row.ver \in Nat /\ row.status \in RowState
        /\ doc.at \in Nat
        /\ \A w \in Workers : body[w].at \in Nat /\ body[w].status \in RowState
    BY DocFields, SizeAssumption DEF Row, Tick, Ver
  <2>2. row.at \in Nat
    BY <2>1, SizeAssumption DEF Tick
  <2> QED
    BY <2>1, <2>2 DEF HonestInv, Kept
<1>1. ASSUME NEW w \in Workers, NEW s \in RowState, Look(w, s) PROVE CallbackInv'
  <2>1. /\ UNCHANGED <<row, doc, alive, syncUp, operational, peerUp, met, unsaid>>
        /\ \A v \in Workers : v # w => pc'[v] = pc[v] /\ body'[v] = body[v]
        /\ pc[w] = "idle" /\ pc'[w] = "save"
    BY <1>1 DEF Look, Busy
  <2> QED
    BY <2>1 DEF Same
<1>2. ASSUME NEW w \in Workers, Refused(w) PROVE CallbackInv'
  <2>1. /\ UNCHANGED <<row, body, doc, alive, syncUp, operational, peerUp, met, unsaid>>
        /\ \A v \in Workers : v # w => pc'[v] = pc[v]
        /\ pc[w] = "save" /\ pc'[w] = "idle"
    BY <1>2 DEF Refused
  <2> QED
    BY <2>1 DEF Same
<1>3. ASSUME NEW w \in Workers, Save(w) PROVE CallbackInv'
  <2>1. /\ row'.at = row.at + 1 /\ pc'[w] = "fresh"
        /\ \A v \in Workers : v # w => pc'[v] = pc[v]
        /\ UNCHANGED <<body, doc, alive, syncUp, operational, peerUp, unsaid>>
    BY <1>3 DEF Save, Committed, Changed
  <2>2. doc'.at # row'.at
    BY <1>0, <2>1
  <2>3. ASSUME NEW v \in Workers, HasRead(v)' PROVE body'[v].at # row'.at
    <3>1. HasRead(v)
      BY <2>1, <2>3
    <3> QED
      BY <1>0, <2>1, <3>1
  <2> QED
    BY <1>0, <2>1, <2>2, <2>3 DEF Same
<1>4. ASSUME NEW w \in Workers, Relink(w) PROVE CallbackInv'
  <2>1. /\ row'.at = row.at /\ row'.status = row.status /\ pc'[w] = "fresh"
        /\ row.at \in unsaid'
        /\ \A v \in Workers : v # w => pc'[v] = pc[v]
        /\ UNCHANGED <<body, doc, alive, syncUp, operational, peerUp, met>>
    BY <1>4 DEF Relink, Committed, Changed
  <2> QED
    BY <1>0, <2>1 DEF Same
<1>5. ASSUME NEW w \in Workers, Probe(w) PROVE CallbackInv'
  BY <1>5 DEF Probe, Same
<1>6. ASSUME NEW w \in Workers, Fresh(w) PROVE CallbackInv'
  <2>1. /\ UNCHANGED <<row, doc, alive, syncUp, operational, peerUp, met, unsaid>>
        /\ \A v \in Workers : v # w => pc'[v] = pc[v] /\ body'[v] = body[v]
        /\ pc'[w] = "decide" /\ body'[w] = row
    BY <1>6 DEF Fresh
  <2> QED
    BY <2>1 DEF Same
<1>7. ASSUME NEW w \in Workers, Decide(w) PROVE CallbackInv'
  <2>1. /\ UNCHANGED <<row, body, doc, alive, syncUp, operational, peerUp, met>>
        /\ unsaid \subseteq unsaid'
        /\ body[w].status = "deleted" /\ doc.status = "deleted" => body[w].at \in unsaid'
        /\ \A v \in Workers : v # w => pc'[v] = pc[v]
        /\ pc[w] = "decide" /\ pc'[w] = IF NeedsReindex(body[w]) THEN "index" ELSE "idle"
    BY <1>7 DEF Decide
  <2>2. Same(doc)' /\ \A v \in Workers : HasRead(v)' => Same(body[v])'
    BY <2>1 DEF Same
  <2>3. CASE NeedsReindex(body[w])
    BY <2>1, <2>2, <2>3
  <2>4. CASE ~NeedsReindex(body[w]) /\ row.at \notin met
    <3>1. body[w].at = row.at /\ body[w].status = row.status
      BY <1>0, <2>1, <2>4 DEF Same
    <3>2. \/ row.status = "deleted" /\ doc.status \in {"none", "deleted"}
          \/ row.status = "draft" /\ doc.status = "none"
      BY <1>0, <2>4, <3>1 DEF NeedsReindex, RowState
    <3> QED
      BY <2>1, <2>2, <3>1, <3>2
  <2>5. CASE ~NeedsReindex(body[w]) /\ row.at \in met
    BY <2>1, <2>2, <2>5
  <2> QED
    BY <2>3, <2>4, <2>5
<1>8. ASSUME NEW w \in Workers, IndexLocal(w) PROVE CallbackInv'
  <2>1. /\ UNCHANGED <<row, body, alive, syncUp, operational, peerUp, met, unsaid>>
        /\ \A v \in Workers : v # w => pc'[v] = pc[v]
        /\ pc[w] = "index" /\ pc'[w] = "publish"
        /\ doc'.at = body[w].at /\ doc'.status = body[w].status /\ doc'.ver = body[w].ver
    BY <1>8 DEF IndexLocal, Stamped
  <2>2. Same(doc)'
    BY <2>1 DEF Same
  <2>3. \A v \in Workers : HasRead(v)' => Same(body[v])'
    BY <2>1 DEF Same
  <2>4. doc'.status # "none"
    BY <1>0, <2>1 DEF RowState
  <2>5. row.at \notin met => doc'.at = row.at
    BY <1>0, <2>1
  <2> QED
    BY <2>1, <2>2, <2>3, <2>4, <2>5
<1>9. ASSUME NEW w \in Workers, IndexLocalFails(w) PROVE FALSE
  BY <1>9 DEF IndexLocalFails
<1>10. ASSUME NEW w \in Workers, Publish(w) PROVE CallbackInv'
  <2>1. /\ UNCHANGED <<row, body, doc, alive, syncUp, operational, peerUp, met, unsaid>>
        /\ \A v \in Workers : v # w => pc'[v] = pc[v]
        /\ pc[w] = "publish" /\ pc'[w] = "idle"
    BY <1>10 DEF Publish
  <2> QED
    BY <2>1 DEF Same
<1>11. CASE TakeEvent
  BY <1>11 DEF TakeEvent, Same
<1>12. ASSUME NEW p \in Peers, Push(p) PROVE CallbackInv'
  BY <1>12 DEF Push, Same
<1>13. SubscriberDies \/ OwnerStops \/ OwnerStarts => FALSE
  BY DEF SubscriberDies, OwnerStops, OwnerStarts
<1>14. ASSUME NEW p \in Peers, PeerStops(p) \/ PeerPulls(p) \/ PeerStartsAlone(p)
       PROVE  FALSE
  BY <1>14 DEF PeerStops, PeerPulls, PeerStartsAlone
<1>15. CASE UNCHANGED vars
  BY <1>15 DEF vars, Same
<1> QED
  BY <1>1, <1>2, <1>3, <1>4, <1>5, <1>6, <1>7, <1>8, <1>9, <1>10, <1>11, <1>12, <1>13,
     <1>14, <1>15
  DEF Next, Commit, Callback, Fanout, Failure, Recovery

\* DeletedIsWithdrawn: where nothing fails, a deleted asset does not stay in the
\* owner's index as public, for any number of workers, unless its deletion met the
\* callback of an earlier save.
THEOREM DeletedWithdrawn == ASSUME Calm PROVE Spec => []DeletedIsWithdrawn
<1>1. TypeInv /\ HonestInv /\ CallbackInv /\ [Next]_vars => CallbackInv'
  BY Calm, CallbackInvStep
<1>2. CallbackInv => DeletedIsWithdrawn
  BY DEF CallbackInv, DeletedIsWithdrawn, NoDoc, Same, Writes, Runs
<1>3. TypeInv /\ HonestInv /\ [Next]_vars => HonestInv'
  BY HonestInvStep
<1> QED
  BY <1>1, <1>2, <1>3, TypeInvInit, TypeInvStep, HonestInvInit, CallbackInvInit, PTL DEF Spec

\* The event of what the index has of the row is on its way to each peer or has
\* arrived there, and no copy has a stamp that lies ahead.
SettledInv ==
  /\ msg.stamp <= row.at /\ msg.at <= row.at /\ Same(msg)
  /\ doc = NoDoc => todo = {}
  /\ \A p \in Peers :
       /\ peer[p].stamp <= row.at /\ peer[p].at <= row.at /\ Same(peer[p])
       /\ doc = NoDoc => peer[p] = NoDoc
  /\ /\ doc.at = row.at /\ row.at \notin met
     /\ \A w \in Workers : pc[w] = "publish" => body[w].at # row.at
     => \A p \in Peers :
          \/ \E i \in 1..Len(chan) : chan[i] = row.at
          \/ p \in todo /\ msg.stamp = row.at
          \/ peer[p].stamp = row.at

LEMMA SettledInvInit == Init => SettledInv
BY SizeAssumption DEF Init, SettledInv, Same, NoDoc

LEMMA SettledInvStep ==
  ASSUME Calm, TypeInv, HonestInv, CallbackInv, SettledInv, [Next]_vars
  PROVE  SettledInv'
<1> USE DEF TypeInv, TypeOK, SettledInv, Calm, HasRead, services, history
<1>0. /\ row.at \in Nat /\ row.at >= 1
      /\ doc.at \in Nat /\ doc.at <= row.at
      /\ msg.at \in Nat /\ msg.stamp \in Nat
      /\ \A w \in Workers : body[w].at \in Nat
      /\ \A p \in Peers : peer[p].at \in Nat /\ peer[p].stamp \in Nat
      /\ \A i \in 1..Len(chan) : chan[i] \in Nat /\ chan[i] <= row.at
  BY RowFields, DocFields, SizeAssumption DEF Tick, HonestInv, CallbackInv
<1>1. ASSUME NEW w \in Workers, NEW s \in RowState, Look(w, s) PROVE SettledInv'
  <2>1. /\ UNCHANGED <<row, doc, chan, msg, todo, peer, met, unsaid>>
        /\ \A v \in Workers : v # w => pc'[v] = pc[v] /\ body'[v] = body[v]
        /\ pc[w] = "idle" /\ pc'[w] = "save"
    BY <1>1 DEF Look, Busy
  <2> QED
    BY <2>1 DEF Same
<1>2. ASSUME NEW w \in Workers, Refused(w) \/ Probe(w) PROVE SettledInv'
  BY <1>2 DEF Refused, Probe, Same
<1>3. ASSUME NEW w \in Workers, Save(w) PROVE SettledInv'
  <2>1. /\ row'.at = row.at + 1
        /\ UNCHANGED <<body, doc, chan, msg, todo, peer>>
    BY <1>3 DEF Save, Committed, Changed
  <2> QED
    BY <1>0, <2>1 DEF Same
<1>4. ASSUME NEW w \in Workers, Relink(w) PROVE SettledInv'
  <2>1. /\ row'.at = row.at /\ row'.status = row.status /\ row.at \in unsaid'
        /\ UNCHANGED <<body, doc, chan, msg, todo, peer, met>>
        /\ \A v \in Workers : pc'[v] = "publish" <=> pc[v] = "publish"
    BY <1>4 DEF Relink, Committed, Changed, Busy
  <2> QED
    BY <1>0, <2>1 DEF Same
<1>5. ASSUME NEW w \in Workers, Fresh(w) PROVE SettledInv'
  <2>1. /\ UNCHANGED <<row, doc, chan, msg, todo, peer, met, unsaid>>
        /\ \A v \in Workers : v # w => pc'[v] = pc[v] /\ body'[v] = body[v]
        /\ pc[w] = "fresh" /\ pc'[w] = "decide"
    BY <1>5 DEF Fresh
  <2> QED
    BY <2>1 DEF Same
<1>6. ASSUME NEW w \in Workers, Decide(w) PROVE SettledInv'
  <2>1. /\ UNCHANGED <<row, body, doc, chan, msg, todo, peer, met>>
        /\ unsaid \subseteq unsaid'
        /\ \A v \in Workers : pc'[v] = "publish" <=> pc[v] = "publish"
    BY <1>6 DEF Decide
  <2> QED
    BY <2>1 DEF Same
<1>7. ASSUME NEW w \in Workers, IndexLocal(w) PROVE SettledInv'
  <2>1. /\ UNCHANGED <<row, body, chan, msg, todo, peer, met, unsaid>>
        /\ pc'[w] = "publish" /\ doc'.at = body[w].at /\ doc'.status = body[w].status
        /\ \A v \in Workers : v # w => pc'[v] = pc[v]
    BY <1>7 DEF IndexLocal, Stamped
  <2>2. doc' # NoDoc
    <3>1. doc'.status \in RowState
      BY <2>1 DEF Row
    <3> QED
      BY <3>1 DEF NoDoc, RowState
  <2>3. doc'.at = row'.at => pc'[w] = "publish" /\ body'[w].at = row'.at
    BY <2>1
  <2> QED
    BY <2>1, <2>2, <2>3 DEF Same
<1>8. ASSUME NEW w \in Workers, IndexLocalFails(w) PROVE FALSE
  BY <1>8 DEF IndexLocalFails
<1>9. ASSUME NEW w \in Workers, Publish(w) PROVE SettledInv'
  <2>1. /\ UNCHANGED <<row, body, doc, msg, todo, peer, met, unsaid>>
        /\ chan' = Append(chan, body[w].at)
        /\ \A v \in Workers : v # w => pc'[v] = pc[v]
    BY <1>9 DEF Publish, CallbackInv, AllUp
  <2>2. /\ Len(chan) + 1 \in 1..Len(chan') /\ chan'[Len(chan) + 1] = body[w].at
        /\ \A i \in 1..Len(chan) : i \in 1..Len(chan') /\ chan'[i] = chan[i]
    BY <2>1
  <2>3. CASE body[w].at = row.at
    BY <2>1, <2>2, <2>3 DEF Same
  <2>4. CASE body[w].at # row.at
    <3>1. /\ \A v \in Workers : pc'[v] = "publish" => body'[v].at # row'.at
          => \A v \in Workers : pc[v] = "publish" => body[v].at # row.at
      BY <2>1, <2>4
    <3>2. ASSUME NEW p \in Peers
          PROVE  /\ peer'[p].stamp <= row'.at /\ peer'[p].at <= row'.at /\ Same(peer[p])'
                 /\ doc' = NoDoc => peer'[p] = NoDoc
      BY <2>1 DEF Same
    <3>3. msg'.stamp <= row'.at /\ msg'.at <= row'.at /\ Same(msg)'
      BY <2>1 DEF Same
    <3> QED
      BY <2>1, <2>2, <3>1, <3>2, <3>3
  <2> QED
    BY <2>3, <2>4
<1>10. CASE TakeEvent
  <2>1. /\ todo = {} /\ chan # <<>> /\ chan' = Tail(chan)
        /\ UNCHANGED <<row, pc, body, doc, peer, met, unsaid>>
    BY <1>10 DEF TakeEvent, SubIdle
  <2>2. \A p \in Peers :
          /\ peer'[p].stamp <= row'.at /\ peer'[p].at <= row'.at /\ Same(peer[p])'
          /\ doc' = NoDoc => peer'[p] = NoDoc
    BY <2>1 DEF Same
  <2>3. CASE doc = NoDoc
    <3>1. msg' = msg /\ todo' = {} /\ doc.at # row.at
      BY <1>0, <1>10, <2>1, <2>3, NoDocDoc DEF TakeEvent
    <3> QED
      BY <2>1, <2>2, <3>1 DEF Same
  <2>4. CASE doc # NoDoc
    <3>1. msg' = Stamped(doc, Head(chan)) /\ todo' = Peers
      BY <1>10, <2>4 DEF TakeEvent
    <3>2. /\ msg'.at = doc.at /\ msg'.ver = doc.ver /\ msg'.stamp = chan[1]
          /\ msg'.status = doc.status /\ 1 \in 1..Len(chan)
      BY <2>1, <3>1 DEF Stamped
    <3>3. msg'.stamp <= row'.at /\ msg'.at <= row'.at /\ Same(msg)'
      BY <1>0, <2>1, <3>2 DEF Same, CallbackInv
    <3>4. ASSUME NEW i \in 1..Len(chan), chan[i] = row.at
          PROVE  msg'.stamp = row.at \/ \E j \in 1..Len(chan') : chan'[j] = row.at
      <4>1. CASE i = 1
        BY <3>2, <3>4, <4>1
      <4>2. CASE i # 1
        <5>1. i - 1 \in 1..Len(chan') /\ chan'[i - 1] = row.at
          BY <2>1, <3>4, <4>2
        <5> QED
          BY <5>1
      <4> QED
        BY <4>1, <4>2
    <3> QED
      BY <2>1, <2>2, <2>4, <3>1, <3>3, <3>4
  <2> QED
    BY <2>3, <2>4
<1>11. ASSUME NEW p \in Peers, Push(p) PROVE SettledInv'
  <2>1. /\ peer' = [peer EXCEPT ![p] = Applied(peer[p], msg)]
        /\ todo' = todo \ {p}
        /\ UNCHANGED <<row, pc, body, doc, chan, msg, met, unsaid>>
    BY <1>11 DEF Push, CallbackInv, AllUp
  <2>2. \/ peer'[p] = peer[p] /\ ~(msg.stamp > peer[p].stamp)
        \/ peer'[p] = msg /\ msg.stamp > peer[p].stamp
    BY <2>1 DEF Applied
  <2>3. msg.stamp = row.at => peer'[p].stamp = row.at
    BY <1>0, <2>2
  <2>4. peer[p].stamp = row.at => peer'[p].stamp = row.at
    BY <1>0, <2>2
  <2>5. peer'[p].stamp <= row.at /\ peer'[p].at <= row.at
    BY <2>2
  <2>6. Same(peer[p])'
    BY <2>1, <2>2 DEF Same
  <2>7. doc # NoDoc
    BY <1>11 DEF Push
  <2>8. \A q \in Peers : q # p => peer'[q] = peer[q] /\ (q \in todo' <=> q \in todo)
    BY <2>1
  <2> QED
    BY <2>1, <2>3, <2>4, <2>5, <2>6, <2>7, <2>8 DEF Same
<1>12. SubscriberDies \/ OwnerStops \/ OwnerStarts => FALSE
  BY DEF SubscriberDies, OwnerStops, OwnerStarts, CallbackInv, AllUp
<1>13. ASSUME NEW p \in Peers, PeerStops(p) \/ PeerPulls(p) \/ PeerStartsAlone(p)
       PROVE  FALSE
  BY <1>13 DEF PeerStops, PeerPulls, PeerStartsAlone, CallbackInv, AllUp
<1>14. CASE UNCHANGED vars
  BY <1>14 DEF vars, Same
<1> QED
  BY <1>1, <1>2, <1>3, <1>4, <1>5, <1>6, <1>7, <1>8, <1>9, <1>10, <1>11, <1>12, <1>13,
     <1>14
  DEF Next, Commit, Callback, Fanout, Failure, Recovery

\* When the queue is empty and nobody runs, the row has arrived everywhere.
LEMMA SettledMeansCurrent ==
  ASSUME TypeInv, HonestInv, CallbackInv, SettledInv
  PROVE  SettledIsCurrent
<1> SUFFICES ASSUME \A w \in Workers : ~Runs(w), chan = <<>>, todo = {}, Told, NEW p \in Peers
             PROVE  Current(peer[p])
  BY DEF SettledIsCurrent
<1>0. /\ row.at \in Nat /\ row.at >= 1 /\ row.at \notin met /\ row.at \notin unsaid
      /\ peer[p].at \in Nat /\ peer[p].stamp \in Nat
      /\ \A w \in Workers : ~Writes(w) /\ pc[w] # "publish"
  BY RowFields, DocFields, SizeAssumption
  DEF Tick, TypeInv, TypeOK, CallbackInv, Told, Runs, Writes
<1>1. doc.at = row.at \/ (doc = NoDoc /\ row.status # "public")
  BY <1>0 DEF CallbackInv
<1>2. CASE doc = NoDoc /\ row.status # "public"
  BY <1>2 DEF SettledInv, Current
<1>3. CASE doc.at = row.at
  <2>1. peer[p].stamp = row.at
    BY <1>0, <1>3 DEF SettledInv
  <2>2. peer[p].at = row.at
    BY <1>0, <2>1 DEF SettledInv, HonestInv, StampHonest
  <2>3. peer[p].ver = row.ver
    BY <1>0, <2>2 DEF SettledInv, Same
  <2>4. peer[p] # NoDoc
    BY <1>0, <2>1, NoDocDoc
  <2> QED
    BY <2>3, <2>4 DEF Current
<1> QED
  BY <1>1, <1>2, <1>3

\* SettledIsCurrent: where nothing fails, any number of workers brings every change
\* that is told to every peer, and repairs what outdated saves, callbacks in the wrong
\* order and unlinked captures have left behind.
THEOREM SettledCurrent == ASSUME Calm PROVE Spec => []SettledIsCurrent
<1>1. TypeInv /\ HonestInv /\ [Next]_vars => HonestInv'
  BY HonestInvStep
<1>2. TypeInv /\ HonestInv /\ CallbackInv /\ [Next]_vars => CallbackInv'
  BY Calm, CallbackInvStep
<1>3. TypeInv /\ HonestInv /\ CallbackInv /\ SettledInv /\ [Next]_vars => SettledInv'
  BY Calm, SettledInvStep
<1>4. TypeInv /\ HonestInv /\ CallbackInv /\ SettledInv => SettledIsCurrent
  BY SettledMeansCurrent
<1> QED
  BY <1>1, <1>2, <1>3, <1>4, TypeInvInit, TypeInvStep, HonestInvInit, CallbackInvInit,
     SettledInvInit, PTL DEF Spec
=============================================================================
