--------------------------- MODULE Sharing_proofs ---------------------------
(***************************************************************************)
(* Theorems about Sharing, for any users, groups, levels, requests and any *)
(* number of overlaps.                                                     *)
(***************************************************************************)
EXTENDS Sharing, TLAPS

\* What the checks of a request establish about what it goes on to do.
Plan(kind, who, group, reads) ==
  /\ kind \in Kinds \ {"idle"} /\ who \in Users /\ group \subseteq Groups /\ reads \subseteq Keys
  /\ kind \in {"share", "relevel", "remove", "visit", "deleteItem"} => group = {}
  /\ kind \in {"relevel", "remove"} => \A k \in reads : Held(k)
  /\ kind \in {"share", "visit", "shareGroup", "deleteItem"} => live
  /\ kind = "deleteItem" => reads = {k \in Keys : Held(k)} /\ \A k \in Keys : ~Enabled(k)
  /\ kind \notin {"share", "relevel", "remove", "visit", "deleteItem"} =>
       \E g \in Groups \ gone : group = {g} /\
         /\ kind = "shareGroup" => reads = {GroupOwner[g]} \X members[g]
         /\ kind \in {"relevelGroup", "removeGroup"} => reads = {k \in LinkedTo(g) : perm[k].enabled}
         /\ kind = "deleteGroup" => reads = LinkedTo(g)
         /\ kind = "addMember" =>
              /\ reads = IF \E k \in LinkedTo(g) : perm[k].enabled THEN {<<GroupOwner[g], who>>} ELSE {}
              /\ who # GroupOwner[g] /\ who \notin members[g]
         /\ kind = "removeMember" =>
              /\ reads = {k \in LinkedTo(g) : k[2] = who /\ perm[k].enabled}
              /\ who # GroupOwner[g]

\* Every request begins by Start, as planned.
LEMMA Beginning ==
  ASSUME TypeOK, NEW r \in Requests, Begin(r)
  PROVE  \E kind, who, group, level, reads :
           Start(r, kind, who, group, level, reads) /\ Plan(kind, who, group, reads) /\ level \in Levels
<1> USE UserAssumption, LevelAssumption DEF TypeOK, Kinds, Granting, Levelling, Unlinking
<1>1. CASE \E s, u \in Users : \E level \in Offered : Share(r, s, u, level)
  <2> PICK s \in Users, u \in Users, level \in Offered : Share(r, s, u, level)
    BY <1>1
  <2> PICK k \in IF For(u) = {} THEN {<<s, u>>} ELSE For(u) : Start(r, "share", u, {}, level, {k})
    BY DEF Share
  <2>1. k \in Keys
    BY DEF For, Keys
  <2>2. Plan("share", u, {}, {k})
    BY <2>1 DEF Plan, Share, CanShare
  <2> QED BY <2>2
<1>2. CASE \E s, u \in Users : \E level \in Offered : Relevel(r, s, u, level)
  <2> PICK s \in Users, u \in Users, level \in Offered : Relevel(r, s, u, level)
    BY <1>2
  <2> PICK k \in For(u) : Start(r, "relevel", u, {}, level, {k})
    BY DEF Relevel
  <2>1. Plan("relevel", u, {}, {k})
    BY DEF Plan, For
  <2> QED BY <2>1
<1>3. CASE \E s, u \in Users : Remove(r, s, u)
  <2> PICK s \in Users, u \in Users : Remove(r, s, u)
    BY <1>3
  <2> PICK k \in For(u) : Start(r, "remove", u, {}, Viewer, {k})
    BY DEF Remove
  <2>1. Plan("remove", u, {}, {k})
    BY DEF Plan, For
  <2> QED BY <2>1
<1>4. CASE \E g \in Groups, level \in Offered : ShareGroup(r, g, level)
  <2> PICK g \in Groups, level \in Offered : ShareGroup(r, g, level)
    BY <1>4
  <2>1. Plan("shareGroup", GroupOwner[g], {g}, {GroupOwner[g]} \X members[g])
    BY DEF Plan, ShareGroup, CanShare, Keys
  <2> QED BY <2>1 DEF ShareGroup
<1>5. CASE \E g \in Groups, level \in Offered : RelevelGroup(r, g, level)
  <2> PICK g \in Groups, level \in Offered : RelevelGroup(r, g, level)
    BY <1>5
  <2>1. Plan("relevelGroup", GroupOwner[g], {g}, {k \in LinkedTo(g) : perm[k].enabled})
    BY DEF Plan, RelevelGroup, LinkedTo
  <2> QED BY <2>1 DEF RelevelGroup
<1>6. CASE \E g \in Groups : RemoveGroup(r, g)
  <2> PICK g \in Groups : RemoveGroup(r, g)
    BY <1>6
  <2>1. Plan("removeGroup", GroupOwner[g], {g}, {k \in LinkedTo(g) : perm[k].enabled})
    BY DEF Plan, RemoveGroup, LinkedTo
  <2> QED BY <2>1 DEF RemoveGroup
<1>7. CASE \E g \in Groups : DeleteGroup(r, g)
  <2> PICK g \in Groups : DeleteGroup(r, g)
    BY <1>7
  <2>1. Plan("deleteGroup", GroupOwner[g], {g}, LinkedTo(g))
    BY DEF Plan, DeleteGroup, LinkedTo
  <2> QED BY <2>1 DEF DeleteGroup
<1>8. CASE \E g \in Groups, u \in Users : AddMember(r, g, u)
  <2> PICK g \in Groups, u \in Users : AddMember(r, g, u)
    BY <1>8
  <2> DEFINE reads == IF \E k \in LinkedTo(g) : perm[k].enabled THEN {<<GroupOwner[g], u>>} ELSE {}
  <2>1. Plan("addMember", u, {g}, reads)
    BY DEF Plan, AddMember, Keys
  <2> QED BY <2>1 DEF AddMember
<1>9. CASE \E g \in Groups, u \in Users : RemoveMember(r, g, u)
  <2> PICK g \in Groups, u \in Users : RemoveMember(r, g, u)
    BY <1>9
  <2> DEFINE reads == {k \in LinkedTo(g) : k[2] = u /\ perm[k].enabled}
  <2>1. Plan("removeMember", u, {g}, reads)
    BY DEF Plan, RemoveMember, LinkedTo
  <2> QED BY <2>1 DEF RemoveMember
<1>10. CASE DeleteItem(r)
  <2>1. Plan("deleteItem", Owner, {}, {k \in Keys : Held(k)})
    BY <1>10 DEF Plan, DeleteItem
  <2> QED BY <2>1, <1>10 DEF DeleteItem
<1>11. CASE \E u \in Users : Visit(r, u)
  <2> PICK u \in Users : Visit(r, u)
    BY <1>11
  <2>1. Plan("visit", u, {}, {<<Owner, u>>})
    BY DEF Plan, Visit, Keys
  <2> QED BY <2>1 DEF Visit
<1> QED BY <1>1, <1>2, <1>3, <1>4, <1>5, <1>6, <1>7, <1>8, <1>9, <1>10, <1>11
  DEF Begin, ByName, ByGroup

-----------------------------------------------------------------------------
LEMMA SavedTyped ==
  ASSUME NEW q \in Request, NEW k \in Keys
  PROVE  Saved(q, k) \in Row
BY DEF Saved, New, Request, Row

LEMMA IdleTyped == Idle \in Request
BY UserAssumption, LevelAssumption DEF Idle, Request, Kinds, NoRow, Row

\* Type correctness: whatever the requests do, tables and copies keep their shape.
THEOREM TypeCorrect == Spec => []TypeOK
<1>1. Init => TypeOK
  <2> SUFFICES ASSUME Init PROVE TypeOK
    OBVIOUS
  <2>1. Copied \cup {NoRow} \subseteq Row
    <3>1. NoRow \in Row
      BY LevelAssumption DEF NoRow, Row
    <3>2. ASSUME NEW v \in Levels
          PROVE  [here |-> TRUE, enabled |-> TRUE, individual |-> TRUE, level |-> v,
                  deleted |-> FALSE] \in Row
      BY DEF Row
    <3>3. Copied \subseteq Row
      BY <3>2, LevelAssumption DEF Copied
    <3> QED BY <3>1, <3>3
  <2>2. perm \in [Keys -> Copied \cup {NoRow}]
    BY DEF Init
  <2>3. perm \in [Keys -> Row]
    BY <2>1, <2>2
  <2> QED BY <2>3, IdleTyped, UserAssumption, BoundAssumption DEF Init, TypeOK
<1>2. TypeOK /\ [Next]_vars => TypeOK'
  <2> SUFFICES ASSUME TypeOK, [Next]_vars PROVE TypeOK'
    OBVIOUS
  <2> USE DEF TypeOK
  <2>1. ASSUME NEW r \in Requests, Begin(r) PROVE TypeOK'
    <3> PICK kind, who, group, level, reads :
          Start(r, kind, who, group, level, reads) /\ Plan(kind, who, group, reads) /\ level \in Levels
      BY <2>1, Beginning
    <3>1. overlaps' \in 0..MaxOverlaps
      BY BoundAssumption DEF Start, Beside
    <3>2. req'[r] \in Request
      BY LevelAssumption DEF Start, Plan, Request, NoRow, Row, Kinds
    <3>3. req' \in [Requests -> Request]
      BY <3>2 DEF Start
    <3> QED BY <3>1, <3>3 DEF Start
  <2>2. ASSUME NEW r \in Requests, Recount(r) PROVE TypeOK'
    <3> DEFINE left == {k \in req[r].rows : GroupsOf(k) \ req[r].group # {}}
               q == [req[r] EXCEPT !.counted = TRUE, !.linked = left]
    <3>1. req[r] \in Request /\ left \subseteq Keys
      BY DEF Request
    <3> HIDE DEF left
    <3>2. q \in Request
      BY <3>1 DEF Request
    <3>3. req' = [req EXCEPT ![r] = q]
      BY <2>2 DEF Recount, left
    <3> HIDE DEF q
    <3>4. req' \in [Requests -> Request]
      BY <3>2, <3>3
    <3> QED BY <2>2, <3>4 DEF Recount
  <2>3. ASSUME NEW r \in Requests, Commit(r) PROVE TypeOK'
    <3>1. perm' \in [Keys -> Row]
      BY <2>3, SavedTyped DEF Commit
    <3>2. links' \subseteq Keys \X Groups
      BY <2>3 DEF Commit, SavedLinks, Request
    <3>3. members' \in [Groups -> SUBSET Users]
      BY <2>3 DEF Commit, Request
    <3>4. gone' \subseteq Groups /\ live' \in BOOLEAN /\ ousted' \subseteq Users
      BY <2>3 DEF Commit, Request, Keys
    <3>5. req' \in [Requests -> Request]
      BY <2>3, IdleTyped DEF Commit
    <3> QED BY <2>3, <3>1, <3>2, <3>3, <3>4, <3>5 DEF Commit
  <2>4. ASSUME NEW r \in Requests, Rollback(r) PROVE TypeOK'
    BY <2>4, IdleTyped DEF Rollback
  <2>5. CASE RevokeAll
    <3> Beside
      BY <2>5 DEF RevokeAll
    <3>1. overlaps' \in 0..MaxOverlaps
      BY BoundAssumption DEF Beside
    <3>2. perm' \in [Keys -> Row]
      <4>1. ASSUME NEW k \in Keys
            PROVE  [perm[k] EXCEPT !.enabled = FALSE, !.individual = FALSE] \in Row
        BY DEF Row
      <4> QED BY <2>5, <4>1 DEF RevokeAll
    <3> QED BY <2>5, <3>1, <3>2 DEF RevokeAll
  <2>6. CASE UNCHANGED vars
    BY <2>6 DEF vars
  <2> QED BY <2>1, <2>2, <2>3, <2>4, <2>5, <2>6 DEF Next
<1> QED BY <1>1, <1>2, PTL DEF Spec

-----------------------------------------------------------------------------
\* No request holds a copy of a deleted permission.  An item is deleted only while nothing
\* is shared, so that request's copies are of disabled permissions; whatever happens in
\* the meantime.
DeletionInv ==
  \A r \in Requests :
    /\ \A k \in Keys : ~req[r].copy[k].deleted
    /\ req[r].kind = "deleteItem" =>
         \A k \in req[r].rows : req[r].copy[k].here /\ ~req[r].copy[k].enabled

LEMMA DeletionInductive == TypeOK /\ DeletionInv /\ [Next]_vars => DeletionInv'
<1> SUFFICES ASSUME TypeOK, DeletionInv, [Next]_vars PROVE DeletionInv'
  OBVIOUS
<1> USE DEF TypeOK, DeletionInv
<1>1. ASSUME NEW r \in Requests, Begin(r) PROVE DeletionInv'
  <2> PICK kind, who, group, level, reads :
        Start(r, kind, who, group, level, reads) /\ Plan(kind, who, group, reads) /\ level \in Levels
    BY <1>1, Beginning
  <2>1. kind = "deleteItem" => \A k \in reads : Held(k) /\ ~perm[k].enabled
    BY DEF Plan, Enabled
  <2>2. /\ req'[r].kind = kind /\ req'[r].rows = reads
        /\ \A k \in Keys : req'[r].copy[k] = IF k \in reads /\ Held(k) THEN perm[k] ELSE NoRow
        /\ \A s \in Requests \ {r} : req'[s] = req[s]
    BY DEF Start
  <2>3. reads \subseteq Keys
    BY DEF Plan
  <2> QED BY <2>1, <2>2, <2>3 DEF Held, NoRow
<1>2. ASSUME NEW r \in Requests, Recount(r) PROVE DeletionInv'
  <2>1. /\ \A s \in Requests : req'[s].kind = req[s].kind
        /\ \A s \in Requests : req'[s].rows = req[s].rows
        /\ \A s \in Requests : req'[s].copy = req[s].copy
    BY <1>2 DEF Recount, Request
  <2> QED BY <2>1
<1>3. ASSUME NEW r \in Requests, Commit(r) \/ Rollback(r) PROVE DeletionInv'
  <2>1. req' = [req EXCEPT ![r] = Idle]
    BY <1>3 DEF Commit, Rollback
  <2> QED BY <2>1 DEF Idle, NoRow
<1>4. CASE RevokeAll
  BY <1>4 DEF RevokeAll
<1>5. CASE UNCHANGED vars
  BY <1>5 DEF vars
<1> QED BY <1>1, <1>2, <1>3, <1>4, <1>5 DEF Next

\* Individual shares are lost only to a removal by name, to the revocation of everything,
\* or to a request that read the row before it was shared by name: for any number of
\* overlapping requests.
THEOREM SharesSurvive == Spec => IndividualSurvives
<1>1. Init => DeletionInv
  BY DEF Init, DeletionInv, Idle, NoRow
<1>2. TypeOK /\ DeletionInv /\ [Next]_vars =>
        [\A k \in Keys : SharedByName(k) /\ ~SharedByName(k)' =>
           \/ req' = req /\ \A j \in Keys : ~Enabled(j)'
           \/ \E r \in Requests :
                /\ Busy(r) /\ ~Busy(r)' /\ k \in req[r].rows
                /\ req[r].kind = "remove" \/ ~ByNameIn(req[r].copy[k])]_vars
  <2> SUFFICES ASSUME TypeOK, DeletionInv, Next, NEW k \in Keys, SharedByName(k), ~SharedByName(k)'
               PROVE  \/ req' = req /\ \A j \in Keys : ~Enabled(j)'
                      \/ \E r \in Requests :
                           /\ Busy(r) /\ ~Busy(r)' /\ k \in req[r].rows
                           /\ req[r].kind = "remove" \/ ~ByNameIn(req[r].copy[k])
    OBVIOUS
  <2> USE DEF TypeOK, SharedByName, ByNameIn, Enabled, Held
  <2>1. CASE \E r \in Requests : Begin(r)
    <3> PICK r \in Requests : Begin(r)
      BY <2>1
    <3>1. perm' = perm
      BY Beginning DEF Start
    <3> QED BY <3>1
  <2>2. CASE \E r \in Requests : Recount(r) \/ Rollback(r)
    BY <2>2 DEF Recount, Rollback
  <2>3. ASSUME NEW r \in Requests, Commit(r)
        PROVE  /\ Busy(r) /\ ~Busy(r)' /\ k \in req[r].rows
               /\ req[r].kind = "remove" \/ ~ByNameIn(req[r].copy[k])
    <3>1. Busy(r) /\ ~Busy(r)'
      BY <2>3 DEF Commit, Busy, Idle
    <3>2. k \in req[r].rows /\ perm'[k] = Saved(req[r], k)
      BY <2>3 DEF Commit
    <3>3. SUFFICES ASSUME req[r].kind # "remove", ByNameIn(req[r].copy[k]) PROVE FALSE
      BY <3>1, <3>2
    <3>4. req[r].kind # "deleteItem" /\ ~req[r].copy[k].deleted
      BY <3>2, <3>3 DEF DeletionInv
    <3>5. Saved(req[r], k).here /\ Saved(req[r], k).individual /\ ~Saved(req[r], k).deleted
      BY <3>3, <3>4 DEF Saved
    <3>6. Saved(req[r], k).enabled
      BY <3>3, <3>4 DEF Saved
    <3> QED BY <3>2, <3>5, <3>6
  <2>4. CASE RevokeAll
    BY <2>4 DEF RevokeAll, Row
  <2> QED BY <2>1, <2>2, <2>3, <2>4 DEF Next
<1> QED BY <1>1, <1>2, DeletionInductive, TypeCorrect, PTL DEF Spec, IndividualSurvives

-----------------------------------------------------------------------------
\* What holds of the tables between two requests while none have overlapped.
Alike(g, u) ==
  LET owners == <<GroupOwner[g], GroupOwner[g]>>
      mine   == <<GroupOwner[g], u>>
  IN  /\ <<mine, g>> \in links <=> <<owners, g>> \in links /\ u \in members[g]
      /\ <<mine, g>> \in links => g \notin gone /\ Enabled(mine)
LinksInv   == \A k \in Keys : \A g \in GroupsOf(k) : perm[k].here /\ k[1] = GroupOwner[g]
DeletedInv == IF live THEN \A k \in Keys : ~perm[k].deleted ELSE \A k \in Keys : ~Held(k)
OwnersInv  == \A g \in Groups : GroupOwner[g] \in members[g]
GoneInv    == \A k \in Keys : Held(k) => GroupsOf(k) \cap gone = {}
AlikeInv   == live => \A g \in Groups : GroupOwner[g] \notin ousted => \A u \in Users : Alike(g, u)
TablesInv  == LinksInv /\ DeletedInv /\ OwnersInv /\ GoneInv /\ AlikeInv

\* A request that runs alone finds at its commit what it found at its start.
Current(q) ==
  /\ Plan(q.kind, q.who, q.group, q.rows)
  /\ \A k \in Keys : q.copy[k] = IF k \in q.rows /\ Held(k) THEN perm[k] ELSE NoRow
  /\ q.kind \in Unlinking /\ q.counted =>
       q.linked = {k \in q.rows : GroupsOf(k) \ q.group # {}}
AloneInv ==
  overlaps = 0 =>
    /\ \A r, s \in Requests : Busy(r) /\ Busy(s) => r = s
    /\ \A r \in Requests : Busy(r) => Current(req[r])
    /\ TablesInv

\* The effect of the commit of a request that ran alone.
LEMMA CommitAlone ==
  ASSUME TypeOK, TablesInv, NEW r \in Requests, Commit(r), Current(req[r])
  PROVE  TablesInv'
<1> DEFINE q == req[r]
<1> USE DEF TypeOK
<1>0. /\ q \in Request
      /\ Plan(q.kind, q.who, q.group, q.rows)
      /\ perm \in [Keys -> Row]
  BY DEF Current
<1>1. /\ \A k \in Keys : perm'[k] = IF k \in q.rows THEN Saved(q, k) ELSE perm[k]
      /\ \A k \in Keys, g \in Groups : <<k, g>> \in links' <=>
           \/ <<k, g>> \in links /\ ~(q.kind \in Unlinking /\ k \in q.rows /\ g \in q.group)
           \/ q.kind \in {"shareGroup", "addMember"} /\ k \in q.rows /\ g \in q.group
      /\ \A g \in Groups : members'[g] =
           IF g \notin q.group THEN members[g]
           ELSE (members[g] \cup (IF q.kind = "addMember" THEN {q.who} ELSE {}))
                  \ (IF q.kind = "removeMember" THEN {q.who} ELSE {})
      /\ gone' = IF q.kind = "deleteGroup" THEN gone \cup q.group ELSE gone
      /\ live' = (live /\ q.kind # "deleteItem")
      /\ ousted' = IF q.kind = "remove" THEN ousted \cup {k[1] : k \in q.rows} ELSE ousted
  BY <1>0 DEF Commit, SavedLinks, Unlinking
<1>2. ASSUME NEW k \in q.rows
      PROVE  /\ k \in Keys
             /\ Held(k) \/ ~perm[k].here
             /\ perm'[k].here
             /\ perm'[k].deleted <=> q.kind = "deleteItem"
             /\ q.kind \in Granting => perm'[k].enabled
             /\ q.kind \in Unlinking /\ k \in q.linked => perm'[k].enabled
             /\ q.kind = "relevelGroup" /\ Enabled(k) => perm'[k].enabled
  <2>1. k \in Keys
    BY <1>0 DEF Plan
  <2>2. q.copy[k] = IF Held(k) THEN perm[k] ELSE NoRow
    BY <2>1 DEF Current
  <2>3. Held(k) \/ ~perm[k].here
    BY <2>2 DEF Commit, Clashes, NoRow
  <2>4. perm'[k] = Saved(q, k)
    BY <1>1, <2>1
  <2>5. Saved(q, k).here /\ (Saved(q, k).deleted <=> q.kind = "deleteItem")
    <3>1. CASE Held(k)
      BY <2>1, <2>2, <3>1, <1>0 DEF Saved, Row, Held
    <3>2. CASE ~Held(k)
      <4>1. ~q.copy[k].here
        BY <2>2, <3>2 DEF NoRow
      <4>2. New(q).deleted = FALSE
        BY DEF New
      <4>3. Saved(q, k).deleted = (q.kind = "deleteItem" \/ New(q).deleted)
        BY <4>1 DEF Saved
      <4> QED BY <4>2, <4>3 DEF Saved
    <3> QED BY <3>1, <3>2
  <2>6. /\ q.kind \in Granting => Saved(q, k).enabled
        /\ q.kind \in Unlinking /\ k \in q.linked => Saved(q, k).enabled
        /\ q.kind = "relevelGroup" /\ Enabled(k) => Saved(q, k).enabled
    BY <2>1, <2>2 DEF Saved, New, NoRow, Held, Enabled, Granting, Levelling, Unlinking
  <2> QED BY <2>1, <2>3, <2>4, <2>5, <2>6
<1>3. LinksInv'
  <2> SUFFICES ASSUME NEW k \in Keys, NEW g \in Groups, <<k, g>> \in links'
               PROVE  perm'[k].here /\ k[1] = GroupOwner[g]
    BY DEF LinksInv, GroupsOf
  <2>1. CASE <<k, g>> \in links
    BY <2>1, <1>1, <1>2 DEF TablesInv, LinksInv, GroupsOf
  <2>2. CASE q.kind \in {"shareGroup", "addMember"} /\ k \in q.rows /\ g \in q.group
    <3>1. \/ q.rows = {GroupOwner[g]} \X members[g]
          \/ q.rows = {<<GroupOwner[g], q.who>>}
          \/ q.rows = {}
      BY <2>2, <1>0 DEF Plan
    <3>2. k[1] = GroupOwner[g]
      BY <3>1, <2>2
    <3> QED BY <3>2, <2>2, <1>2
  <2> QED BY <1>1, <2>1, <2>2
<1>4. DeletedInv'
  <2>1. CASE q.kind = "deleteItem"
    BY <2>1, <1>0, <1>1, <1>2 DEF DeletedInv, Plan, Held
  <2>2. CASE q.kind # "deleteItem" /\ live
    BY <2>2, <1>1, <1>2 DEF TablesInv, DeletedInv
  <2>3. CASE q.kind # "deleteItem" /\ ~live
    <3>1. q.rows = {}
      BY <2>3, <1>0 DEF Plan, TablesInv, DeletedInv, LinkedTo, Kinds, Levelling, Granting, Unlinking
    <3> QED BY <3>1, <2>3, <1>1 DEF TablesInv, DeletedInv, Held
  <2> QED BY <2>1, <2>2, <2>3
<1>5. OwnersInv'
  <2> SUFFICES ASSUME NEW g \in Groups PROVE GroupOwner[g] \in members'[g]
    BY DEF OwnersInv
  <2>1. GroupOwner[g] \in members[g]
    BY DEF TablesInv, OwnersInv
  <2>2. g \in q.group /\ q.kind = "removeMember" => q.who # GroupOwner[g]
    BY <1>0 DEF Plan
  <2> QED BY <2>1, <2>2, <1>1
<1>6. GoneInv'
  <2> SUFFICES ASSUME NEW k \in Keys, Held(k)', NEW g \in Groups, <<k, g>> \in links', g \in gone'
               PROVE  FALSE
    BY DEF GoneInv, GroupsOf
  <2>1. CASE <<k, g>> \notin links
    <3>1. q.kind \in {"shareGroup", "addMember"} /\ g \in q.group
      BY <2>1, <1>1
    <3> QED BY <3>1, <1>0, <1>1 DEF Plan
  <2>2. CASE <<k, g>> \in links
    <3>1. Held(k)
      BY <2>2, <1>1, <1>2 DEF Held, TablesInv, LinksInv, GroupsOf
    <3>2. g \notin gone
      BY <3>1, <2>2 DEF TablesInv, GoneInv, GroupsOf
    <3>3. q.kind = "deleteGroup" /\ g \in q.group
      BY <3>2, <1>1
    <3>4. k \in q.rows
      BY <3>1, <3>3, <2>2, <1>0 DEF Plan, LinkedTo
    <3> QED BY <3>3, <3>4, <1>1 DEF Unlinking
  <2> QED BY <2>1, <2>2
<1>7. AlikeInv'
  <2> SUFFICES ASSUME live', NEW g \in Groups, GroupOwner[g] \notin ousted', NEW u \in Users
               PROVE  Alike(g, u)'
    BY DEF AlikeInv
  <2> DEFINE s == GroupOwner[g]
             own == <<s, s>>
             mine == <<s, u>>
  <2>0. s \in Users /\ own \in Keys /\ mine \in Keys
    BY UserAssumption DEF Keys
  <2>1. live /\ q.kind # "deleteItem" /\ s \notin ousted
    BY <1>1
  <2>2. \A v \in Users : Alike(g, v)
    BY <2>1 DEF TablesInv, AlikeInv
  <2>3. /\ <<mine, g>> \in links <=> <<own, g>> \in links /\ u \in members[g]
        /\ <<mine, g>> \in links => g \notin gone /\ Enabled(mine)
        /\ <<own, g>> \in links => g \notin gone /\ Enabled(own)
    BY <2>2, <2>0 DEF Alike
  <2>4. SUFFICES /\ <<mine, g>> \in links' <=> <<own, g>> \in links' /\ u \in members'[g]
                 /\ <<mine, g>> \in links' => g \notin gone' /\ Enabled(mine)'
    BY DEF Alike
  <2>5. Enabled(mine) /\ mine \notin q.rows => Enabled(mine)'
    BY <1>1, <2>0 DEF Enabled, Held
  <2>6. mine \in q.rows /\ perm'[mine].enabled => Enabled(mine)'
    BY <1>2, <2>1 DEF Enabled, Held
  <2> HIDE DEF q
  <2>7. CASE q.kind \in {"share", "relevel", "visit", "relevelGroup"}
    <3>1. Enabled(mine) => Enabled(mine)'
      BY <2>5, <2>6, <2>7, <1>2 DEF Granting, Levelling
    <3>2. /\ <<mine, g>> \in links' <=> <<mine, g>> \in links
          /\ <<own, g>> \in links' <=> <<own, g>> \in links
          /\ members'[g] = members[g] /\ gone' = gone
      BY <1>1, <2>0, <2>7 DEF Unlinking
    <3> QED BY <3>1, <3>2, <2>3
  <2>8. CASE q.kind = "remove"
    <3>1. mine \notin q.rows
      BY <2>8, <1>1
    <3>2. /\ <<mine, g>> \in links' <=> <<mine, g>> \in links
          /\ <<own, g>> \in links' <=> <<own, g>> \in links
          /\ members'[g] = members[g] /\ gone' = gone
      BY <1>1, <2>0, <2>8 DEF Unlinking
    <3> QED BY <3>1, <3>2, <2>5, <2>3
  <2>9. CASE q.kind \in {"shareGroup", "addMember"} \cup Unlinking
    <3> PICK h \in Groups \ gone : q.group = {h} /\
         /\ q.kind = "shareGroup" => q.rows = {GroupOwner[h]} \X members[h]
         /\ q.kind = "removeGroup" => q.rows = {k \in LinkedTo(h) : perm[k].enabled}
         /\ q.kind = "deleteGroup" => q.rows = LinkedTo(h)
         /\ q.kind = "addMember" =>
              /\ q.rows = IF \E k \in LinkedTo(h) : perm[k].enabled THEN {<<GroupOwner[h], q.who>>} ELSE {}
              /\ q.who # GroupOwner[h] /\ q.who \notin members[h]
         /\ q.kind = "removeMember" =>
              /\ q.rows = {k \in LinkedTo(h) : k[2] = q.who /\ perm[k].enabled}
              /\ q.who # GroupOwner[h]
      BY <2>9, <1>0 DEF Plan, Unlinking
    <3>0. q.who \in Users
      BY <1>0 DEF Plan
    <3>1. CASE g # h
      <4>1. /\ <<mine, g>> \in links' <=> <<mine, g>> \in links
            /\ <<own, g>> \in links' <=> <<own, g>> \in links
            /\ members'[g] = members[g] /\ (g \in gone' <=> g \in gone)
        BY <1>1, <2>0, <3>1
      <4>2. <<mine, g>> \in links /\ mine \in q.rows => Enabled(mine)'
        <5> SUFFICES ASSUME <<mine, g>> \in links, mine \in q.rows PROVE perm'[mine].enabled
          BY <2>6
        <5>1. CASE q.kind \in Unlinking
          <6>1. mine \in q.linked
            BY <5>1, <3>1, <2>0 DEF Current, Commit, GroupsOf, q
          <6> QED BY <6>1, <5>1, <1>2
        <5>2. CASE q.kind \in {"shareGroup", "addMember"}
          BY <5>2, <1>2 DEF Granting, Levelling
        <5> QED BY <5>1, <5>2, <2>9
      <4> QED BY <4>1, <4>2, <2>3, <2>5
    <3>2. CASE g = h /\ q.kind = "shareGroup"
      <4>1. own \in q.rows /\ (mine \in q.rows <=> u \in members[g])
        BY <3>2, <2>0 DEF TablesInv, OwnersInv
      <4>2. /\ <<mine, g>> \in links' <=> u \in members[g]
            /\ <<own, g>> \in links' /\ members'[g] = members[g] /\ gone' = gone
        BY <4>1, <3>2, <2>0, <2>3, <1>1 DEF Unlinking
      <4>3. mine \in q.rows => Enabled(mine)'
        BY <2>6, <3>2, <1>2 DEF Granting, Levelling
      <4> QED BY <4>1, <4>2, <4>3, <3>2
    <3>3. CASE g = h /\ q.kind \in {"removeGroup", "deleteGroup"}
      <4>1. \A v \in Users : <<<<s, v>>, g>> \in links => <<s, v>> \in q.rows
        BY <3>3, <2>0, <2>2 DEF Alike, Enabled, LinkedTo, Keys
      <4>2. <<mine, g>> \notin links' /\ <<own, g>> \notin links'
        BY <4>1, <3>3, <2>0, <1>1 DEF Unlinking
      <4> QED BY <4>2
    <3>4. CASE g = h /\ q.kind = "removeMember"
      <4>1. own \notin q.rows /\ (u # q.who => mine \notin q.rows)
        BY <3>4
      <4>2. <<own, g>> \in links' <=> <<own, g>> \in links
        BY <4>1, <2>0, <1>1, <3>4
      <4>3. members'[g] = members[g] \ {q.who} /\ gone' = gone
        BY <1>1, <3>4
      <4>4. CASE u = q.who
        <5>1. <<mine, g>> \in links => mine \in q.rows
          BY <4>4, <3>4, <2>0, <2>3 DEF Enabled, LinkedTo
        <5>2. <<mine, g>> \notin links'
          BY <5>1, <3>4, <2>0, <1>1 DEF Unlinking
        <5> QED BY <5>2, <4>3, <4>4
      <4>5. CASE u # q.who
        <5>1. <<mine, g>> \in links' <=> <<mine, g>> \in links
          BY <4>1, <4>5, <3>4, <2>0, <1>1
        <5> QED BY <5>1, <4>1, <4>2, <4>3, <4>5, <2>3, <2>5
      <4> QED BY <4>4, <4>5
    <3>5. CASE g = h /\ q.kind = "addMember"
      <4>1. (\E k \in LinkedTo(g) : perm[k].enabled) <=> <<own, g>> \in links
        <5>1. <<own, g>> \in links => own \in LinkedTo(g) /\ perm[own].enabled
          BY <2>0, <2>3 DEF LinkedTo, Enabled
        <5>2. ASSUME NEW k \in LinkedTo(g) PROVE <<own, g>> \in links
          <6>1. k \in Keys /\ <<k, g>> \in links /\ k[1] = s
            BY DEF LinkedTo, TablesInv, LinksInv, GroupsOf
          <6>2. k = <<s, k[2]>> /\ k[2] \in Users
            BY <6>1 DEF Keys
          <6> QED BY <6>1, <6>2, <2>2 DEF Alike
        <5> QED BY <5>1, <5>2
      <4>2. /\ members'[g] = members[g] \cup {q.who} /\ gone' = gone
            /\ own \notin q.rows
            /\ mine \in q.rows <=> u = q.who /\ <<own, g>> \in links
        <5>1. members'[g] = members[g] \cup {q.who} /\ gone' = gone
          BY <3>5, <1>1
        <5>2. q.rows = IF <<own, g>> \in links THEN {<<s, q.who>>} ELSE {}
          BY <4>1, <3>5
        <5>3. s # q.who
          BY <3>5
        <5> QED BY <5>1, <5>2, <5>3
      <4>3. /\ <<own, g>> \in links' <=> <<own, g>> \in links
            /\ <<mine, g>> \in links' <=> <<mine, g>> \in links \/ mine \in q.rows
        BY <4>2, <3>5, <2>0, <1>1 DEF Unlinking
      <4>4. mine \in q.rows => Enabled(mine)'
        BY <2>6, <3>5, <1>2 DEF Granting, Levelling
      <4> QED BY <4>2, <4>3, <4>4, <3>5, <2>3, <2>5
    <3> QED BY <3>1, <3>2, <3>3, <3>4, <3>5, <2>9 DEF Unlinking
  <2> QED BY <2>1, <2>7, <2>8, <2>9, <1>0 DEF Plan, Kinds, Levelling, Granting, q
<1> QED BY <1>3, <1>4, <1>5, <1>6, <1>7 DEF TablesInv

LEMMA AloneInitially == Init => AloneInv
<1> SUFFICES ASSUME Init PROVE AloneInv
  OBVIOUS
<1> USE UserAssumption DEF Init
<1>1. \A r \in Requests : ~Busy(r)
  BY DEF Busy, Idle
<1>2. \A k \in Keys : ~perm[k].deleted
  <2>1. \A p \in Copied \cup {NoRow} : ~p.deleted
    BY DEF Copied, NoRow
  <2>2. perm \in [Keys -> Copied \cup {NoRow}]
    OBVIOUS
  <2> QED BY <2>1, <2>2
<1>3. LinksInv /\ DeletedInv /\ OwnersInv /\ GoneInv
  BY <1>2 DEF LinksInv, DeletedInv, OwnersInv, GoneInv, GroupsOf
<1>4. AlikeInv
  BY DEF AlikeInv, Alike
<1> QED BY <1>1, <1>3, <1>4 DEF AloneInv, TablesInv

LEMMA AloneInductive == TypeOK /\ AloneInv /\ [Next]_vars => AloneInv'
<1> SUFFICES ASSUME TypeOK, AloneInv, [Next]_vars, overlaps' = 0
             PROVE  /\ \A r, s \in Requests : Busy(r)' /\ Busy(s)' => r = s
                    /\ \A r \in Requests : Busy(r)' => Current(req[r])'
                    /\ TablesInv'
  BY DEF AloneInv
<1> USE DEF TypeOK
<1>1. ASSUME Beside PROVE overlaps = 0 /\ \A r \in Requests : ~Busy(r)
  <2>1. overlaps \in Nat
    BY BoundAssumption
  <2> QED BY <1>1, <2>1 DEF Beside
<1>2. ASSUME NEW r \in Requests, Begin(r)
      PROVE  /\ \A a, b \in Requests : Busy(a)' /\ Busy(b)' => a = b
             /\ \A a \in Requests : Busy(a)' => Current(req[a])'
             /\ TablesInv'
  <2> PICK kind, who, group, level, reads :
        Start(r, kind, who, group, level, reads) /\ Plan(kind, who, group, reads) /\ level \in Levels
    BY <1>2, Beginning
  <2>1. overlaps = 0 /\ \A a \in Requests : ~Busy(a)
    BY <1>1 DEF Start
  <2>2. \A a \in Requests : Busy(a)' => a = r
    BY <2>1 DEF Start, Busy
  <2>3. UNCHANGED <<perm, links, members, gone, live, ousted>>
    BY DEF Start
  <2>4. TablesInv'
    BY <2>1, <2>3 DEF AloneInv, TablesInv, LinksInv, DeletedInv, OwnersInv, GoneInv, AlikeInv, Alike,
       GroupsOf, Held, Enabled
  <2>5. Plan(kind, who, group, reads)'
    BY <2>3 DEF Plan, Held, Enabled, LinkedTo
  <2>6. /\ req'[r].kind = kind /\ req'[r].who = who /\ req'[r].group = group /\ req'[r].rows = reads
        /\ \A k \in Keys : req'[r].copy[k] = IF k \in reads /\ Held(k) THEN perm[k] ELSE NoRow
        /\ req'[r].counted = (kind \notin Unlinking)
    BY DEF Start
  <2>7. Plan(req[r].kind, req[r].who, req[r].group, req[r].rows)'
    BY <2>5, <2>6
  <2>8. Current(req[r])'
    BY <2>3, <2>6, <2>7 DEF Current, Held
  <2> QED BY <2>2, <2>4, <2>8
<1>3. ASSUME NEW r \in Requests, Recount(r)
      PROVE  /\ \A a, b \in Requests : Busy(a)' /\ Busy(b)' => a = b
             /\ \A a \in Requests : Busy(a)' => Current(req[a])'
             /\ TablesInv'
  <2>1. UNCHANGED <<perm, links, members, gone, live, overlaps, ousted>>
    BY <1>3 DEF Recount
  <2>2. TablesInv'
    BY <2>1 DEF AloneInv, TablesInv, LinksInv, DeletedInv, OwnersInv, GoneInv, AlikeInv, Alike,
       GroupsOf, Held, Enabled
  <2>3. \A a \in Requests : Busy(a)' => Busy(a)
    BY <1>3 DEF Recount, Busy
  <2>4. \A a \in Requests : Busy(a) => a = r
    BY <1>3, <2>1 DEF AloneInv, Recount
  <2>5. Current(req[r])
    BY <1>3, <2>1 DEF AloneInv, Recount
  <2>6. /\ req'[r].kind = req[r].kind /\ req'[r].who = req[r].who
        /\ req'[r].group = req[r].group /\ req'[r].rows = req[r].rows /\ req'[r].copy = req[r].copy
        /\ req'[r].linked = {k \in req[r].rows : GroupsOf(k) \ req[r].group # {}}
    <3> DEFINE left == {k \in req[r].rows : GroupsOf(k) \ req[r].group # {}}
    <3>1. req[r] \in Request
      OBVIOUS
    <3> HIDE DEF left
    <3>2. req' = [req EXCEPT ![r] = [req[r] EXCEPT !.counted = TRUE, !.linked = left]]
      BY <1>3 DEF Recount, left
    <3>3. req'[r] = [req[r] EXCEPT !.counted = TRUE, !.linked = left]
      BY <3>2
    <3>4. req'[r].linked = left
      BY <3>1, <3>3 DEF Request
    <3> QED BY <3>1, <3>3, <3>4 DEF Request, left
  <2>7. Plan(req[r].kind, req[r].who, req[r].group, req[r].rows)'
    <3>1. Plan(req[r].kind, req[r].who, req[r].group, req[r].rows)
      BY <2>5 DEF Current
    <3>2. \A kind, who, group, rows : Plan(kind, who, group, rows) <=> Plan(kind, who, group, rows)'
      BY <2>1 DEF Plan, Held, Enabled, LinkedTo
    <3> QED BY <3>1, <3>2, <2>6
  <2>8. Current(req[r])'
    BY <2>1, <2>5, <2>6, <2>7 DEF Current, Held, GroupsOf
  <2> QED BY <2>2, <2>3, <2>4, <2>8
<1>4. ASSUME NEW r \in Requests, Commit(r) \/ Rollback(r)
      PROVE  /\ \A a, b \in Requests : Busy(a)' /\ Busy(b)' => a = b
             /\ \A a \in Requests : Busy(a)' => Current(req[a])'
             /\ TablesInv'
  <2>1. overlaps = 0 /\ Busy(r) /\ req' = [req EXCEPT ![r] = Idle]
    BY <1>4 DEF Commit, Rollback
  <2>2. \A a \in Requests : ~Busy(a)'
    BY <2>1 DEF AloneInv, Busy, Idle
  <2>3. TablesInv /\ Current(req[r])
    BY <2>1 DEF AloneInv
  <2>4. CASE Commit(r)
    BY <2>2, <2>3, <2>4, CommitAlone
  <2>5. CASE Rollback(r)
    <3> UNCHANGED <<perm, links, members, gone, live, ousted>>
      BY <2>5 DEF Rollback
    <3>1. TablesInv'
      BY <2>3 DEF TablesInv, LinksInv, DeletedInv, OwnersInv, GoneInv, AlikeInv, Alike,
         GroupsOf, Held, Enabled
    <3> QED BY <2>2, <3>1
  <2> QED BY <1>4, <2>4, <2>5
<1>5. ASSUME RevokeAll
      PROVE  /\ \A r, s \in Requests : Busy(r)' /\ Busy(s)' => r = s
             /\ \A r \in Requests : Busy(r)' => Current(req[r])'
             /\ TablesInv'
  <2> DEFINE hit == {k \in Keys : Enabled(k)}
  <2>1. overlaps = 0 /\ \A r \in Requests : ~Busy(r)
    BY <1>1, <1>5 DEF RevokeAll
  <2>2. \A r \in Requests : ~Busy(r)'
    BY <1>5, <2>1 DEF RevokeAll, Busy
  <2>3. TablesInv
    BY <2>1 DEF AloneInv
  <2>4. /\ UNCHANGED <<members, gone, live, ousted>>
        /\ links' = {l \in links : l[1] \notin hit}
        /\ \A k \in Keys : /\ (perm'[k].here <=> perm[k].here)
                           /\ (perm'[k].deleted <=> perm[k].deleted)
                           /\ ~Enabled(k) => perm'[k] = perm[k]
    <3>1. perm' = [k \in Keys |->
            IF k \in hit THEN [perm[k] EXCEPT !.enabled = FALSE, !.individual = FALSE] ELSE perm[k]]
      BY <1>5 DEF RevokeAll
    <3>2. ASSUME NEW k \in Keys, k \in hit
          PROVE  (perm'[k].here <=> perm[k].here) /\ (perm'[k].deleted <=> perm[k].deleted)
      BY <3>1, <3>2 DEF Row
    <3> QED BY <1>5, <3>1, <3>2 DEF RevokeAll
  <2>5. \A k \in Keys, g \in Groups : <<k, g>> \in links' <=> <<k, g>> \in links /\ ~Enabled(k)
    BY <2>4
  <2>6. LinksInv' /\ DeletedInv' /\ OwnersInv' /\ GoneInv'
    <3> HIDE DEF hit
    <3>0. UNCHANGED <<members, gone, live>>
      BY <2>4
    <3>1. \A k \in Keys : (perm'[k].here <=> perm[k].here) /\ (perm'[k].deleted <=> perm[k].deleted)
      BY <2>4
    <3>2. LinksInv'
      BY <2>3, <2>5, <3>1 DEF TablesInv, LinksInv, GroupsOf
    <3>3. DeletedInv' /\ OwnersInv'
      BY <2>3, <3>0, <3>1 DEF TablesInv, DeletedInv, OwnersInv, Held
    <3>4. GoneInv'
      BY <2>3, <2>5, <3>0, <3>1 DEF TablesInv, GoneInv, GroupsOf, Held
    <3> QED BY <3>2, <3>3, <3>4
  <2>7. AlikeInv'
    <3> SUFFICES ASSUME live, NEW g \in Groups, GroupOwner[g] \notin ousted, NEW u \in Users
                 PROVE  Alike(g, u)'
      BY <2>4 DEF AlikeInv
    <3>1. Alike(g, u) /\ Alike(g, GroupOwner[g])
      BY <2>3, UserAssumption DEF TablesInv, AlikeInv
    <3>2. <<GroupOwner[g], u>> \in Keys /\ <<GroupOwner[g], GroupOwner[g]>> \in Keys
      BY UserAssumption DEF Keys
    <3> QED BY <2>5, <3>1, <3>2 DEF Alike
  <2> QED BY <2>2, <2>6, <2>7 DEF TablesInv
<1>6. CASE UNCHANGED vars
  <2> USE <1>6 DEF vars
  <2>1. TablesInv'
    BY DEF AloneInv, TablesInv, LinksInv, DeletedInv, OwnersInv, GoneInv, AlikeInv, Alike, GroupsOf, Held, Enabled
  <2>2. \A r \in Requests : Busy(r)' <=> Busy(r)
    BY DEF Busy
  <2>3. ASSUME NEW r \in Requests, Busy(r) PROVE Current(req[r])'
    <3>1. Current(req[r])
      BY <2>3 DEF AloneInv
    <3>2. \A kind, who, group, rows : Plan(kind, who, group, rows) <=> Plan(kind, who, group, rows)'
      BY DEF Plan, Held, Enabled, LinkedTo
    <3>3. Plan(req[r].kind, req[r].who, req[r].group, req[r].rows)'
      BY <3>1, <3>2 DEF Current
    <3> QED BY <3>1, <3>3 DEF Current, Held, GroupsOf
  <2> QED BY <2>1, <2>2, <2>3 DEF AloneInv
<1> QED BY <1>2, <1>3, <1>4, <1>5, <1>6 DEF Next

LEMMA Alone == Spec => []AloneInv
BY AloneInitially, AloneInductive, TypeCorrect, PTL DEF Spec

\* No permission in force is left with a deleted group.
THEOREM NoDeletedGroups == Spec => []DeletedGroupsUnlinked
<1>1. AloneInv => DeletedGroupsUnlinked
  BY DEF AloneInv, TablesInv, GoneInv, DeletedGroupsUnlinked
<1> QED BY <1>1, Alone, PTL

\* No permission is left of a deleted item.
THEOREM NothingOfDeleted == Spec => []DeletedItemUnshared
<1>1. AloneInv => DeletedItemUnshared
  BY DEF AloneInv, TablesInv, DeletedInv, DeletedItemUnshared
<1> QED BY <1>1, Alone, PTL

\* What is deleted, group or item, gives access to nobody.
THEOREM DeletedGivesNothingEver == Spec => []DeletedGivesNothing
BY NoDeletedGroups, NothingOfDeleted, PTL DEF DeletedGivesNothing

\* The members of a group have what its owner shared with it, and nobody else has.
THEOREM GroupsShareAlike == Spec => []MembersShareAlike
<1>1. AloneInv => MembersShareAlike
  BY DEF AloneInv, TablesInv, AlikeInv, Alike, MembersShareAlike
<1> QED BY <1>1, Alone, PTL
=============================================================================
