--------------------------- MODULE Datasets_proofs ---------------------------
(***************************************************************************)
(* Theorems about Datasets, for any users, assets, datasets and requests.  *)
(***************************************************************************)
EXTENDS Datasets, TLAPS

LEMMA NobodyThere == Nobody \in Users
BY UserAssumption DEF Nobody

LEMMA NoRowTyped == NoRow \in Row
BY NobodyThere DEF NoRow, Row

LEMMA IdleTyped == Idle \in Request
BY NobodyThere, NoRowTyped DEF Idle, Request, Kinds

\* What the checks of a request establish about what it goes on to do.
Plan(q) ==
  /\ q \in Request /\ q.kind # "idle" /\ ~q.checked
  /\ q.kind = "create" => q.ds = {} /\ q.from = {} /\ q.seen = NoRow
  /\ q.kind = "version" =>
       q.from = {} /\ q.ds # {} /\ \A d \in q.ds : Live(d) /\ q.ds = {d}
  /\ q.kind \in Saving => q.from \subseteq q.ds /\ \A d \in q.ds : Live(d) /\ q.copy = row[d]
  /\ q.kind = "detach" => q.ds = {} /\ q.from \subseteq q.drafts
  /\ q.kind = "deleteAsset" => q.ds = {} /\ q.drop \cap gone = {} /\ \A a \in q.drop : ~Blocked(a)

\* Every request begins by Start, as planned.
LEMMA Beginning ==
  ASSUME TypeOK, NEW r \in Requests, Begin(r)
  PROVE  \E q : Start(r, q) /\ Plan(q)
<1> USE NobodyThere, NoRowTyped DEF TypeOK
<1>1. CASE \E u \in Users, f \in Forms : \E A \in Picks(Owned(u)) : Create(r, u, f, A)
  <2> PICK u \in Users, f \in Forms : \E A \in Picks(Owned(u)) : Create(r, u, f, A)
    BY <1>1
  <2> PICK A \in Picks(Owned(u)) : Create(r, u, f, A)
    OBVIOUS
  <2> DEFINE q == [Idle EXCEPT !.kind = "create", !.who = u, !.final = f.final,
                               !.public = f.public, !.add = A]
  <2>1. f.final \in BOOLEAN /\ f.public \in BOOLEAN /\ A \subseteq Assets
    BY DEF Forms, Settings, Picks, Owned
  <2>2. Plan(q)
    BY <2>1 DEF Plan, Idle, Request, Kinds, Saving
  <2> QED BY <2>2 DEF Create
<1>2. CASE \E d \in Slots, f \in Settings : Publish(r, d, f)
  <2> PICK d \in Slots, f \in Settings : Publish(r, d, f)
    BY <1>2
  <2> DEFINE q == [Idle EXCEPT !.kind = "save", !.who = row[d].owner, !.ds = {d}, !.copy = row[d],
                               !.final = f.final, !.public = f.public, !.from = {d}]
  <2>1. f.final \in BOOLEAN /\ f.public \in BOOLEAN /\ row[d] \in Row /\ row[d].owner \in Users
    BY DEF Settings, Row
  <2>2. Live(d)
    BY DEF Publish, MayEdit
  <2>3. Plan(q)
    BY <2>1, <2>2 DEF Plan, Idle, Request, Kinds, Saving
  <2> QED BY <2>3 DEF Publish
<1>3. CASE \E d \in Slots, f \in Forms, A, D \in Picks(Assets) : Edit(r, d, f, A, D)
  <2> PICK d \in Slots, f \in Forms, A \in Picks(Assets), D \in Picks(Assets) : Edit(r, d, f, A, D)
    BY <1>3
  <2> DEFINE q == [Idle EXCEPT !.kind = "save", !.who = row[d].owner, !.ds = {d}, !.copy = row[d],
                               !.final = f.final, !.public = f.public, !.add = A, !.drop = D,
                               !.from = {d}]
  <2>1. f.final \in BOOLEAN /\ f.public \in BOOLEAN /\ row[d] \in Row /\ row[d].owner \in Users
    BY DEF Forms, Settings, Row
  <2>2. Live(d) /\ A \subseteq Assets /\ D \subseteq Assets
    BY DEF Edit, Picks
  <2>3. Plan(q)
    BY <2>1, <2>2 DEF Plan, Idle, Request, Kinds, Saving
  <2> QED BY <2>3 DEF Edit
<1>4. CASE \E d \in Slots : DeleteDataset(r, d)
  <2> PICK d \in Slots : DeleteDataset(r, d)
    BY <1>4
  <2> DEFINE q == [Idle EXCEPT !.kind = "deleteDataset", !.who = row[d].owner, !.ds = {d},
                               !.copy = row[d], !.final = row[d].final, !.public = row[d].public,
                               !.from = {d}]
  <2>1. row[d] \in Row /\ row[d].owner \in Users /\ row[d].final \in BOOLEAN /\ row[d].public \in BOOLEAN
    BY DEF Row
  <2>2. Live(d)
    BY DEF DeleteDataset
  <2>3. Plan(q)
    BY <2>1, <2>2 DEF Plan, Idle, Request, Kinds, Saving
  <2> QED BY <2>3 DEF DeleteDataset
<1>5. CASE \E d \in Slots, u \in Users : Version(r, u, d)
  <2> PICK d \in Slots, u \in Users : Version(r, u, d)
    BY <1>5
  <2> DEFINE q == [Idle EXCEPT !.kind = "version", !.who = u, !.ds = {d}]
  <2>1. Plan(q)
    BY DEF Plan, Idle, Request, Kinds, Saving, Version, MayEdit
  <2> QED BY <2>1 DEF Version
<1>6. CASE \E a \in Assets : Detach(r, a)
  <2> PICK a \in Assets : Detach(r, a)
    BY <1>6
  <2> DEFINE q == [Idle EXCEPT !.kind = "detach", !.who = AssetOwner[a], !.drop = {a},
                               !.from = Removable(a), !.drafts = {d \in In(a) : ~Published(d)}]
  <2>1. /\ AssetOwner[a] \in Users /\ Removable(a) \subseteq Slots
        /\ {d \in In(a) : ~Published(d)} \subseteq Slots
    BY AssetAssumption DEF Removable, In
  <2>2. Removable(a) \subseteq {d \in In(a) : ~Published(d)}
    BY DEF Removable
  <2>3. Plan(q)
    BY <2>1, <2>2 DEF Plan, Idle, Request, Kinds, Saving
  <2> QED BY <2>3 DEF Detach
<1>7. CASE \E a \in Assets : DeleteAsset(r, a)
  <2> PICK a \in Assets : DeleteAsset(r, a)
    BY <1>7
  <2> DEFINE q == [Idle EXCEPT !.kind = "deleteAsset", !.who = AssetOwner[a], !.drop = {a}]
  <2>1. AssetOwner[a] \in Users /\ a \notin gone /\ ~Blocked(a)
    BY AssetAssumption DEF DeleteAsset
  <2>2. Plan(q)
    BY <2>1 DEF Plan, Idle, Request, Kinds, Saving
  <2> QED BY <2>2 DEF DeleteAsset
<1> QED BY <1>1, <1>2, <1>3, <1>4, <1>5, <1>6, <1>7 DEF Begin

-----------------------------------------------------------------------------
LEMMA SavedTyped ==
  ASSUME NEW q \in Request
  PROVE  SavedRow(q) \in Row /\ SavedRow(q).here = q.copy.here /\ SavedRow(q).prev = q.copy.prev
         /\ SavedRow(q).owner = q.copy.owner /\ SavedRow(q).final = q.final
         /\ SavedRow(q).public = q.public
         /\ (SavedRow(q).deleted <=> q.kind = "deleteDataset" \/ q.copy.deleted)
BY DEF SavedRow, Request, Row

LEMMA TypeInitially == Init => TypeOK
<1> SUFFICES ASSUME Init PROVE TypeOK
  OBVIOUS
<1>1. row \in [Slots -> Row] /\ req \in [Requests -> Request]
  BY IdleTyped, NoRowTyped DEF Init
<1>2. started \in 0..MaxRequests
  BY BoundAssumption DEF Init
<1>3. met \subseteq Requests
  BY DEF Init
<1>4. links \subseteq Slots \X Assets /\ holds \subseteq Captures \X Files /\ gone \subseteq Assets
      /\ revived \subseteq Slots
  BY DEF Init
<1> QED BY <1>1, <1>2, <1>3, <1>4 DEF TypeOK

LEMMA TypeInductive == TypeOK /\ [Next]_vars => TypeOK'
<1> SUFFICES ASSUME TypeOK, [Next]_vars PROVE TypeOK'
  OBVIOUS
<1> USE DEF TypeOK
<1>1. ASSUME NEW r \in Requests, Begin(r) PROVE TypeOK'
  <2> PICK q : Start(r, q) /\ Plan(q)
    BY <1>1, Beginning
  <2>1. started' \in 0..MaxRequests /\ met' \subseteq Requests
    BY BoundAssumption DEF Start, Beside
  <2>2. req' \in [Requests -> Request]
    BY DEF Start, Plan
  <2> QED BY <2>1, <2>2 DEF Start, Tables
<1>2. ASSUME NEW r \in Requests, Check(r) PROVE TypeOK'
  <2> DEFINE q == req[r]
             add == (q.add \cap Owned(q.who)) \ gone
             drop(d) == IF q.kind = "deleteDataset" THEN Of(d) ELSE q.drop \ gone
             p(d) == [q EXCEPT !.checked = TRUE, !.seen = row[d], !.add = add, !.drop = drop(d)]
  <2>1. q \in Request /\ q.ds \subseteq Slots
    BY DEF Request
  <2>2. add \subseteq Assets /\ \A d \in q.ds : drop(d) \subseteq Assets /\ row[d] \in Row
    BY <2>1 DEF Request, Of
  <2>3. PICK d \in q.ds : req' = [req EXCEPT ![r] = p(d)]
    BY <1>2 DEF Check
  <2>4. UNCHANGED <<Tables, started, met>>
    BY <1>2 DEF Check
  <2> HIDE DEF add, drop, q
  <2>5. p(d) \in Request
    BY <2>1, <2>2 DEF Request
  <2> QED BY <2>3, <2>4, <2>5 DEF Tables
<1>3. ASSUME NEW r \in Requests, Select(r) PROVE TypeOK'
  <2> DEFINE q == req[r]
             p(A) == [q EXCEPT !.checked = TRUE, !.add = A]
  <2>0. q \in Request
    OBVIOUS
  <2>1. PICK A \in SUBSET Assets : req' = [req EXCEPT ![r] = p(A)]
    BY <1>3, <2>0 DEF Select, Request, Assets
  <2> HIDE DEF q
  <2>3. p(A) \in Request
    BY <2>0 DEF Request
  <2>2. req' \in [Requests -> Request]
    BY <2>1, <2>3
  <2> QED BY <1>3, <2>2 DEF Select, Tables
<1>4. ASSUME NEW r \in Requests, Lock(r) PROVE TypeOK'
  <2> DEFINE q == req[r]
             p(d) == [q EXCEPT !.checked = TRUE, !.seen = row[d], !.add = Of(d)]
  <2>0. q \in Request
    OBVIOUS
  <2>1. PICK d \in q.ds : \/ req' = [req EXCEPT ![r] = Idle]
                         \/ req' = [req EXCEPT ![r] = p(d)]
    BY <1>4 DEF Lock
  <2>2. row[d] \in Row /\ Of(d) \subseteq Assets
    BY <2>0 DEF Request, Of
  <2> HIDE DEF q
  <2>4. p(d) \in Request
    BY <2>0, <2>2 DEF Request
  <2>3. req' \in [Requests -> Request]
    BY <2>1, <2>4, IdleTyped
  <2> QED BY <1>4, <2>3 DEF Lock, Tables
<1>5. ASSUME NEW r \in Requests, Done(r) PROVE req' \in [Requests -> Request]
  BY <1>5, IdleTyped DEF Done
<1>6. ASSUME NEW r \in Requests, Save(r) PROVE TypeOK'
  <2>1. req[r] \in Request /\ SavedRow(req[r]) \in Row
    BY SavedTyped
  <2>2. row' \in [Slots -> Row] /\ revived' \subseteq Slots
    BY <1>6, <2>1 DEF Save, Request
  <2>3. links' \subseteq Slots \X Assets
    BY <1>6, <2>1 DEF Save, Relink, Request
  <2> QED BY <1>5, <1>6, <2>2, <2>3 DEF Save, Done
<1>7. ASSUME NEW r \in Requests, NEW d \in Slots, Insert(r, d) PROVE TypeOK'
  <2> DEFINE q == req[r]
             new == [here |-> TRUE, final |-> q.final, public |-> q.public,
                     deleted |-> q.seen.deleted, owner |-> q.who, prev |-> q.ds]
  <2>1. q \in Request
    OBVIOUS
  <2>2. new \in Row
    BY <2>1 DEF Request, Row
  <2>3. row' = [row EXCEPT ![d] = new]
    BY <1>7 DEF Insert
  <2> HIDE DEF new
  <2>4. links' \subseteq Slots \X Assets
    BY <1>7, <2>1 DEF Insert, Relink, Request
  <2> QED BY <1>5, <1>7, <2>2, <2>3, <2>4 DEF Insert, Done
<1>8. ASSUME NEW r \in Requests, Detached(r) PROVE TypeOK'
  <2>1. links' \subseteq Slots \X Assets
    BY <1>8 DEF Detached, Relink, Request
  <2> QED BY <1>5, <1>8, <2>1 DEF Detached, Done
<1>9. ASSUME NEW r \in Requests, Removed(r) PROVE TypeOK'
  <2>1. gone' \subseteq Assets /\ holds' \subseteq Captures \X Files
    BY <1>9 DEF Removed, Request
  <2> QED BY <1>5, <1>9, <2>1 DEF Removed, Done
<1>10. ASSUME NEW r \in Requests, Rollback(r) PROVE TypeOK'
  BY <1>5, <1>10 DEF Rollback, Done, Tables
<1>11. CASE UNCHANGED vars
  BY <1>11 DEF vars
<1> QED BY <1>1, <1>2, <1>3, <1>4, <1>6, <1>7, <1>8, <1>9, <1>10, <1>11 DEF Next, End

\* Type correctness: whatever the requests do, tables and copies keep their shape.
THEOREM TypeCorrect == Spec => []TypeOK
BY TypeInitially, TypeInductive, PTL DEF Spec

-----------------------------------------------------------------------------
\* The inductive invariant: what a request holds fits the tables, rows that were
\* never inserted are empty, and a lock is held by one request, for which the row
\* stays as it was and gets no other version.
Fits(r) ==
  /\ req[r].kind = "create" => req[r].ds = {} /\ req[r].from = {} /\ ~req[r].seen.deleted
  /\ req[r].kind = "detach" => req[r].from \subseteq req[r].drafts
  /\ req[r].kind = "version" =>
       req[r].from = {} /\ req[r].ds # {} /\ \A d \in req[r].ds : row[d].here /\ req[r].ds = {d}
  /\ req[r].kind \in Saving =>
       /\ req[r].from \subseteq req[r].ds
       /\ \A d \in req[r].ds : /\ row[d].here /\ req[r].copy.here
                              /\ req[r].copy.prev = row[d].prev /\ req[r].copy.owner = row[d].owner
  /\ req[r].kind \in Saving /\ req[r].checked =>
       (req[r].seen.final => req[r].final) /\ (req[r].seen.public => req[r].public)

Locks(r) == req[r].kind = "version" /\ req[r].checked
Frozen(r) ==
  Locks(r) => \A d \in req[r].ds : /\ req[r].seen = row[d] /\ row[d].here
                                  /\ \A m \in Slots : VersionOf(m, d, req[r].who) => m \in revived

Coherent ==
  /\ \A r \in Requests : Fits(r) /\ Frozen(r)
  /\ \A r, s \in Requests : Locks(r) /\ Locks(s) /\ r # s => req[r].ds \cap req[s].ds = {}
  /\ \A d \in Slots : ~row[d].here => row[d] = NoRow /\ Of(d) = {}

LEMMA CoherentInitially == Init => Coherent
BY DEF Init, Coherent, Fits, Locks, Frozen, Idle, Saving, Of, NoRow

\* A request that ends, or one about which nothing is claimed yet.
LEMMA IdleFits ==
  ASSUME NEW r \in Requests, req'[r] = Idle
  PROVE  Fits(r)' /\ Frozen(r)' /\ ~Locks(r)'
BY DEF Fits, Frozen, Locks, Idle, Saving

\* Steps that leave the tables alone have only their own request to look at.
LEMMA CoherentAlone ==
  ASSUME TypeOK, Coherent, NEW r \in Requests, NEW q, req' = [req EXCEPT ![r] = q],
         UNCHANGED <<row, revived>>, links' \subseteq links, Fits(r)', Frozen(r)',
         \A s \in Requests : Locks(r)' /\ Locks(s) /\ r # s => q.ds \cap req[s].ds = {}
  PROVE  Coherent'
<1>1. \A s \in Requests : s # r => req'[s] = req[s]
  BY DEF TypeOK
<1>2. req'[r] = q
  BY DEF TypeOK
<1>3. \A m, d, u : VersionOf(m, d, u)' <=> VersionOf(m, d, u)
  BY DEF VersionOf, Live
<1>4. \A s \in Requests : s # r => Fits(s)' /\ Frozen(s)' /\ (Locks(s)' <=> Locks(s))
  BY <1>1, <1>3 DEF Coherent, Fits, Frozen, Locks
<1>5. \A s, t \in Requests : Locks(s)' /\ Locks(t)' /\ s # t => req'[s].ds \cap req'[t].ds = {}
  BY <1>1, <1>2, <1>4 DEF Coherent
<1>6. \A d \in Slots : ~row'[d].here => row'[d] = NoRow /\ Of(d)' = {}
  BY DEF Coherent, Of
<1> QED BY <1>4, <1>5, <1>6 DEF Coherent

LEMMA CoherentInductive ==
  ASSUME TypeOK, TypeOK', Coherent, [Next]_vars
  PROVE  Coherent'
<1> USE DEF TypeOK
<1>1. ASSUME NEW r \in Requests, Begin(r) PROVE Coherent'
  <2> PICK q : Start(r, q) /\ Plan(q)
    BY <1>1, Beginning
  <2>1. req' = [req EXCEPT ![r] = q] /\ UNCHANGED Tables /\ req'[r] = q
    BY DEF Start
  <2>2. Fits(r)' /\ ~Locks(r)'
    BY <2>1 DEF Fits, Locks, Plan, Live, Tables, NoRow, Saving
  <2>3. Frozen(r)'
    BY <2>2 DEF Frozen
  <2> HIDE DEF TypeOK
  <2> QED BY <2>1, <2>2, <2>3, CoherentAlone DEF Tables
<1>2. ASSUME NEW r \in Requests, Check(r) PROVE Coherent'
  <2> DEFINE q == req[r]
             add == (q.add \cap Owned(q.who)) \ gone
             drop(d) == IF q.kind = "deleteDataset" THEN Of(d) ELSE q.drop \ gone
             p(d) == [q EXCEPT !.checked = TRUE, !.seen = row[d], !.add = add, !.drop = drop(d)]
  <2>1. PICK d \in q.ds : req' = [req EXCEPT ![r] = p(d)] /\ Clean(q, d)
    BY <1>2 DEF Check
  <2>2. UNCHANGED Tables /\ q.kind \in Saving /\ q \in Request
    BY <1>2 DEF Check
  <2> HIDE DEF add, drop
  <2>3. req'[r] = p(d)
    BY <2>1
  <2>4. ASSUME NEW x \in Request, NEW S, NEW A, NEW y
        PROVE  LET z == [x EXCEPT !.checked = TRUE, !.seen = y, !.add = A, !.drop = S]
               IN  /\ z.kind = x.kind /\ z.ds = x.ds /\ z.from = x.from /\ z.copy = x.copy
                   /\ z.seen = y /\ z.final = x.final /\ z.public = x.public
    BY DEF Request
  <2>9. /\ p(d).kind = q.kind /\ p(d).ds = q.ds /\ p(d).from = q.from /\ p(d).copy = q.copy
        /\ p(d).seen = row[d] /\ p(d).final = q.final /\ p(d).public = q.public
    BY <2>2, <2>4
  <2> DEFINE new == p(d)
  <2>5. req'[r] = new
    BY <2>3
  <2> HIDE DEF new
  <2>6. Fits(r)
    BY DEF Coherent
  <2>7. Fits(r)'
    BY <2>1, <2>2, <2>9, <2>5, <2>6 DEF Fits, Clean, Saving, Tables, new
  <2>8. ~Locks(r)' /\ Frozen(r)'
    BY <2>2, <2>9, <2>5 DEF Locks, Frozen, Saving, new
  <2> HIDE DEF TypeOK
  <2> QED BY <2>1, <2>2, <2>7, <2>8, CoherentAlone DEF Tables
<1>3. ASSUME NEW r \in Requests, Select(r) PROVE Coherent'
  <2> DEFINE q == req[r]
             p(A) == [q EXCEPT !.checked = TRUE, !.add = A]
  <2>1. PICK A : req' = [req EXCEPT ![r] = p(A)]
    BY <1>3 DEF Select
  <2>2. UNCHANGED Tables /\ q.kind = "create" /\ q \in Request
    BY <1>3 DEF Select
  <2>3. ASSUME NEW x \in Request
        PROVE  LET z == [x EXCEPT !.checked = TRUE, !.add = A]
               IN  z.kind = x.kind /\ z.ds = x.ds /\ z.from = x.from /\ z.seen = x.seen
    BY DEF Request
  <2>4. p(A).kind = q.kind /\ p(A).ds = q.ds /\ p(A).from = q.from /\ p(A).seen = q.seen
    BY <2>2, <2>3
  <2> DEFINE new == p(A)
  <2>5. req'[r] = new
    BY <2>1
  <2> HIDE DEF new
  <2>6. Fits(r)
    BY DEF Coherent
  <2>7. Fits(r)' /\ ~Locks(r)' /\ Frozen(r)'
    BY <2>2, <2>4, <2>5, <2>6 DEF Fits, Locks, Frozen, Saving, Tables, new
  <2> HIDE DEF TypeOK
  <2> QED BY <2>1, <2>2, <2>7, CoherentAlone DEF Tables
<1>4. ASSUME NEW r \in Requests, Lock(r) PROVE Coherent'
  <2> DEFINE q == req[r]
             p(d) == [q EXCEPT !.checked = TRUE, !.seen = row[d], !.add = Of(d)]
  <2>1. PICK d \in q.ds : /\ ~LockedByOther(r, d)
                         /\ IF \E m \in Slots : VersionOf(m, d, q.who) THEN req' = [req EXCEPT ![r] = Idle]
                            ELSE req' = [req EXCEPT ![r] = p(d)]
    BY <1>4 DEF Lock
  <2>2. UNCHANGED Tables /\ q.kind = "version" /\ q \in Request
    BY <1>4 DEF Lock
  <2>3. CASE req' = [req EXCEPT ![r] = Idle]
    <3>1. req'[r] = Idle
      BY <2>3
    <3>2. Fits(r)' /\ Frozen(r)' /\ ~Locks(r)'
      BY <3>1, IdleFits
    <3> HIDE DEF TypeOK
    <3> QED BY <2>2, <2>3, <3>2, CoherentAlone DEF Tables
  <2>4. CASE ~\E m \in Slots : VersionOf(m, d, q.who)
    <3>1. ASSUME NEW x \in Request, NEW A, NEW y
          PROVE  LET z == [x EXCEPT !.checked = TRUE, !.seen = y, !.add = A]
                 IN  z.kind = x.kind /\ z.ds = x.ds /\ z.from = x.from /\ z.seen = y /\ z.who = x.who
      BY DEF Request
    <3> DEFINE new == p(d)
    <3>2. new.kind = q.kind /\ new.ds = q.ds /\ new.from = q.from /\ new.seen = row[d] /\ new.who = q.who
      BY <2>2, <3>1
    <3>3. req' = [req EXCEPT ![r] = new]
      BY <2>1, <2>4
    <3> HIDE DEF new
    <3>4. req'[r] = new
      BY <3>3
    <3>5. q.ds = {d} /\ q.from = {} /\ row[d].here
      BY <2>1, <2>2 DEF Coherent, Fits
    <3>6. Fits(r)'
      BY <2>2, <3>2, <3>4, <3>5 DEF Fits, Saving, Tables
    <3>7. \A m \in Slots, u \in Users : VersionOf(m, d, u)' <=> VersionOf(m, d, u)
      BY <2>2 DEF VersionOf, Live, Tables
    <3>8. Frozen(r)'
      BY <2>2, <2>4, <3>2, <3>4, <3>5, <3>7 DEF Frozen, Tables, Request
    <3>9. \A s \in Requests : Locks(s) /\ r # s => new.ds \cap req[s].ds = {}
      BY <2>1, <3>2, <3>5 DEF LockedByOther, Locks
    <3> HIDE DEF TypeOK
    <3> QED BY <2>2, <3>3, <3>6, <3>8, <3>9, CoherentAlone DEF Tables
  <2> QED BY <2>1, <2>3, <2>4
<1>5. ASSUME NEW r \in Requests, Rollback(r) \/ Removed(r) \/ Detached(r) PROVE Coherent'
  <2>1. req' = [req EXCEPT ![r] = Idle] /\ UNCHANGED <<row, revived>>
    BY <1>5 DEF Rollback, Removed, Detached, Done, Tables
  <2>2. links' \subseteq links
    BY <1>5 DEF Rollback, Removed, Detached, Relink, Tables
  <2>3. req'[r] = Idle
    BY <2>1
  <2>4. Fits(r)' /\ Frozen(r)' /\ ~Locks(r)'
    BY <2>3, IdleFits
  <2> HIDE DEF TypeOK
  <2> QED BY <2>1, <2>2, <2>4, CoherentAlone
<1>6. ASSUME NEW r \in Requests, Save(r) PROVE Coherent'
  <2> DEFINE q == req[r]
             new == SavedRow(q)
  <2>1. req' = [req EXCEPT ![r] = Idle]
    BY <1>6 DEF Save, Done
  <2>2. req'[r] = Idle /\ \A s \in Requests : s # r => req'[s] = req[s]
    BY <2>1
  <2>3. Fits(r)' /\ Frozen(r)' /\ ~Locks(r)'
    BY <2>2, IdleFits
  <2>4. \A d \in Slots : row'[d] = IF d \in q.ds THEN new ELSE row[d]
    BY <1>6 DEF Save
  <2>5. q \in Request /\ q.kind \in Saving
    BY <1>6 DEF Save
  <2>6. \A d \in q.ds : /\ d \in Slots /\ row[d].here /\ new.here
                       /\ new.prev = row[d].prev /\ new.owner = row[d].owner
    BY <2>5, SavedTyped DEF Coherent, Fits, Request
  <2> HIDE DEF new
  <2>7. \A d \in Slots : /\ row'[d].here <=> row[d].here
                        /\ row'[d].prev = row[d].prev /\ row'[d].owner = row[d].owner
    BY <2>4, <2>6
  <2>8. \A s \in Requests : s # r => Fits(s)' /\ (Locks(s)' <=> Locks(s))
    <3> TAKE s \in Requests
    <3> HAVE s # r
    <3>1. req[s] \in Request /\ Fits(s) /\ req'[s] = req[s] /\ req[s].ds \subseteq Slots
      BY <2>2 DEF Coherent, Request
    <3> QED BY <3>1, <2>7 DEF Fits, Locks
  <2>9. \A m, d \in Slots, u \in Users : VersionOf(m, d, u)' => VersionOf(m, d, u) \/ m \in revived'
    <3> TAKE m \in Slots, d \in Slots, u \in Users
    <3> HAVE VersionOf(m, d, u)'
    <3>1. CASE m \notin q.ds
      BY <3>1, <2>4 DEF VersionOf, Live
    <3>2. CASE m \in q.ds /\ row[m].deleted
      <4>1. ~new.deleted
        BY <3>2, <2>4 DEF VersionOf, Live
      <4> QED BY <4>1, <3>2, <1>6 DEF Save, new
    <3>3. CASE m \in q.ds /\ ~row[m].deleted
      BY <3>3, <2>4, <2>6, <2>7 DEF VersionOf, Live
    <3> QED BY <3>1, <3>2, <3>3
  <2>10. \A s \in Requests : s # r => Frozen(s)'
    <3> SUFFICES ASSUME NEW s \in Requests, s # r, Locks(s)' PROVE Frozen(s)'
      BY DEF Frozen
    <3>1. Locks(s) /\ req'[s] = req[s] /\ req[s] \in Request
      BY <2>2 DEF Locks
    <3>2. \A d \in req[s].ds : d \in Slots /\ d \notin q.ds /\ row'[d] = row[d]
      BY <1>6, <2>4, <3>1 DEF Save, LockedByOther, Locks, Request
    <3>3. req[s].who \in Users /\ Frozen(s) /\ revived \subseteq revived'
      BY <1>6, <3>1 DEF Request, Coherent, Save
    <3> QED BY <2>9, <3>1, <3>2, <3>3 DEF Frozen
  <2>11. \A d \in Slots : ~row'[d].here => row'[d] = NoRow /\ Of(d)' = {}
    <3> SUFFICES ASSUME NEW d \in Slots, ~row'[d].here PROVE row'[d] = NoRow /\ Of(d)' = {}
      OBVIOUS
    <3>1. ~row[d].here /\ d \notin q.ds /\ row'[d] = row[d]
      BY <2>4, <2>6, <2>7
    <3>2. row[d] = NoRow /\ Of(d) = {}
      BY <3>1 DEF Coherent
    <3>3. \A a : <<d, a>> \in links' => <<d, a>> \in links
      BY <1>6, <3>1 DEF Save, Relink
    <3> QED BY <3>1, <3>2, <3>3 DEF Of
  <2>12. \A s, t \in Requests : Locks(s)' /\ Locks(t)' /\ s # t => req'[s].ds \cap req'[t].ds = {}
    BY <2>2, <2>3, <2>8 DEF Coherent
  <2> QED BY <2>3, <2>8, <2>10, <2>11, <2>12 DEF Coherent
<1>7. ASSUME NEW r \in Requests, NEW n \in Slots, Insert(r, n) PROVE Coherent'
  <2> DEFINE q == req[r]
  <2>1. req' = [req EXCEPT ![r] = Idle]
    BY <1>7 DEF Insert, Done
  <2>2. req'[r] = Idle /\ \A s \in Requests : s # r => req'[s] = req[s]
    BY <2>1
  <2>3. Fits(r)' /\ Frozen(r)' /\ ~Locks(r)'
    BY <2>2, IdleFits
  <2>4. /\ \A d \in Slots : d # n => row'[d] = row[d]
        /\ row'[n].here /\ row'[n].prev = q.ds /\ ~row[n].here /\ revived' = revived
    BY <1>7 DEF Insert
  <2>5. \A s \in Requests : s # r => Fits(s)' /\ (Locks(s)' <=> Locks(s))
    <3> TAKE s \in Requests
    <3> HAVE s # r
    <3>1. req[s] \in Request /\ Fits(s) /\ req'[s] = req[s] /\ req[s].ds \subseteq Slots
      BY <2>2 DEF Coherent, Request
    <3> QED BY <3>1, <2>4 DEF Fits, Locks
  <2>6. \A s \in Requests : s # r => Frozen(s)'
    <3> SUFFICES ASSUME NEW s \in Requests, s # r, Locks(s)' PROVE Frozen(s)'
      BY DEF Frozen
    <3>1. Locks(s) /\ req'[s] = req[s] /\ req[s] \in Request /\ Frozen(s)
      BY <2>2 DEF Locks, Coherent
    <3>2. \A d \in req[s].ds : d \in Slots /\ d # n /\ row'[d] = row[d]
      BY <2>4, <3>1 DEF Frozen, Request
    <3>3. ~\E d \in req[s].ds : q.ds = {d}
      <4>1. CASE q.kind = "create"
        BY <4>1 DEF Coherent, Fits
      <4>2. CASE q.kind = "version"
        BY <1>7, <3>1, <4>2 DEF Insert, Coherent, Locks
      <4> QED BY <1>7, <4>1, <4>2 DEF Insert
    <3>4. ASSUME NEW m \in Slots, NEW d \in req[s].ds, VersionOf(m, d, req[s].who)'
          PROVE  VersionOf(m, d, req[s].who)
      <4>1. m # n
        BY <2>4, <3>1, <3>3, <3>4 DEF VersionOf
      <4> QED BY <2>4, <3>1, <3>4, <4>1 DEF VersionOf, Live
    <3> QED BY <2>4, <3>1, <3>2, <3>4 DEF Frozen
  <2>7. \A d \in Slots : ~row'[d].here => row'[d] = NoRow /\ Of(d)' = {}
    <3> SUFFICES ASSUME NEW d \in Slots, ~row'[d].here PROVE row'[d] = NoRow /\ Of(d)' = {}
      OBVIOUS
    <3>1. d # n /\ row'[d] = row[d] /\ row[d] = NoRow /\ Of(d) = {}
      BY <2>4 DEF Coherent
    <3>2. \A a : <<d, a>> \in links' => <<d, a>> \in links
      BY <1>7, <3>1 DEF Insert, Relink
    <3> QED BY <3>1, <3>2 DEF Of
  <2>8. \A s, t \in Requests : Locks(s)' /\ Locks(t)' /\ s # t => req'[s].ds \cap req'[t].ds = {}
    BY <2>2, <2>3, <2>5 DEF Coherent
  <2> QED BY <2>3, <2>5, <2>6, <2>7, <2>8 DEF Coherent
<1>8. CASE UNCHANGED vars
  <2>1. \A r \in Requests : (Fits(r)' <=> Fits(r)) /\ (Frozen(r)' <=> Frozen(r)) /\ (Locks(r)' <=> Locks(r))
    BY <1>8 DEF vars, Fits, Frozen, Locks, VersionOf, Live
  <2> QED BY <1>8, <2>1 DEF vars, Coherent, Of
<1> QED BY <1>1, <1>2, <1>3, <1>4, <1>5, <1>6, <1>7, <1>8 DEF Next, End

-----------------------------------------------------------------------------
LEMMA AlwaysCoherent == Spec => [](TypeOK /\ Coherent)
<1>1. Init => TypeOK /\ Coherent
  BY TypeInitially, CoherentInitially
<1>2. TypeOK /\ Coherent /\ [Next]_vars => (TypeOK /\ Coherent)'
  BY TypeInductive, CoherentInductive
<1> QED BY <1>1, <1>2, PTL DEF Spec

\* The rows change only when a request saves or inserts one.
LEMMA RowsChange ==
  ASSUME TypeOK, [Next]_vars, NEW d \in Slots, row'[d] # row[d]
  PROVE  \E r \in Requests : (Save(r) /\ d \in req[r].ds) \/ Insert(r, d)
<1>1. ASSUME NEW r \in Requests, Begin(r) PROVE FALSE
  BY <1>1, Beginning DEF Start, Tables
<1>2. ASSUME NEW r \in Requests, NEW n \in Slots, Insert(r, n), n # d PROVE FALSE
  BY <1>2 DEF Insert, TypeOK
<1>3. ASSUME NEW r \in Requests, Save(r), d \notin req[r].ds PROVE FALSE
  BY <1>3 DEF Save, TypeOK
<1> QED
  BY <1>1, <1>2, <1>3
  DEF Next, End, Check, Select, Lock, Detached, Removed, Rollback, Tables, vars

\* Published and deleted datasets stay what they are, except for a save whose look
\* at the status, or whose copy of the row, was outdated.
THEOREM StaysPublished == Spec => NeverGoesBack
<1> DEFINE Back(d) ==
      /\ (row[d].final /\ ~row[d].final') \/ (row[d].public /\ ~row[d].public') =>
           \E r \in Requests : Ends(r) /\ d \in req[r].ds /\ req[r].seen # row[d]
      /\ row[d].deleted /\ ~row[d].deleted' =>
           \E r \in Requests : Ends(r) /\ d \in req[r].ds /\ req[r].copy # row[d]
<1>1. ASSUME TypeOK, Coherent, [Next]_vars, NEW d \in Slots PROVE Back(d)
  <2>1. CASE row'[d] = row[d]
    BY <2>1
  <2>2. CASE row'[d] # row[d]
    <3> PICK r \in Requests : (Save(r) /\ d \in req[r].ds) \/ Insert(r, d)
      BY <1>1, <2>2, RowsChange
    <3>1. CASE Insert(r, d)
      BY <1>1, <3>1 DEF Insert, Coherent, NoRow
    <3>2. CASE Save(r) /\ d \in req[r].ds
      <4> DEFINE q == req[r]
      <4>1. q \in Request /\ row'[d] = SavedRow(q) /\ q.kind \in Saving /\ q.checked
        BY <1>1, <3>2 DEF Save, TypeOK
      <4>2. Ends(r)
        BY <1>1, <3>2, <4>1 DEF Ends, Busy, Save, Done, Saving, TypeOK, Idle
      <4>3. (q.seen.final => q.final) /\ (q.seen.public => q.public)
        BY <1>1, <4>1 DEF Coherent, Fits
      <4>4. (row[d].final /\ ~row'[d].final) \/ (row[d].public /\ ~row'[d].public) => q.seen # row[d]
        BY <4>1, <4>3, SavedTyped
      <4>5. row[d].deleted /\ ~row'[d].deleted => q.copy # row[d]
        BY <4>1, SavedTyped
      <4> QED BY <3>2, <4>2, <4>4, <4>5
    <3> QED BY <3>1, <3>2
  <2> QED BY <2>1, <2>2
<1>2. TypeOK /\ Coherent /\ [Next]_vars => [\A d \in Slots : Back(d)]_vars
  BY <1>1
<1> QED BY <1>2, AlwaysCoherent, PTL DEF Spec, NeverGoesBack

\* The lock makes versions unique, and none is made of a deleted dataset.
THEOREM VersionsUnique == Spec => VersionsOnce
<1> DEFINE Made(n, d) ==
      ~row[n].here /\ row[n].here' /\ row[n].prev' = {d} /\ ~row[n].deleted' =>
        /\ Live(d)
        /\ \A m \in Slots : VersionOf(m, d, row[n].owner') => m \in revived
<1>1. ASSUME TypeOK, Coherent, [Next]_vars, NEW n \in Slots, NEW d \in Slots PROVE Made(n, d)
  <2> SUFFICES ASSUME ~row[n].here, row'[n].here, row'[n].prev = {d}, ~row'[n].deleted
               PROVE  Live(d) /\ \A m \in Slots : VersionOf(m, d, row'[n].owner) => m \in revived
    OBVIOUS
  <2> PICK r \in Requests : (Save(r) /\ n \in req[r].ds) \/ Insert(r, n)
    BY <1>1, RowsChange
  <2>1. ~(Save(r) /\ n \in req[r].ds)
    BY <1>1 DEF Coherent, Fits, Save
  <2>2. /\ req[r].kind \in {"create", "version"} /\ req[r].checked /\ req[r].ds = {d}
        /\ row'[n].owner = req[r].who /\ ~req[r].seen.deleted
    BY <1>1, <2>1 DEF Insert, TypeOK
  <2>3. Locks(r)
    BY <1>1, <2>2 DEF Coherent, Fits, Locks
  <2>4. req[r].seen = row[d] /\ row[d].here /\ \A m \in Slots : VersionOf(m, d, req[r].who) => m \in revived
    BY <1>1, <2>2, <2>3 DEF Coherent, Frozen
  <2> QED BY <2>2, <2>4 DEF Live
<1>2. TypeOK /\ Coherent /\ [Next]_vars => [\A n, d \in Slots : Made(n, d)]_vars
  BY <1>1
<1> QED BY <1>2, AlwaysCoherent, PTL DEF Spec, VersionsOnce

-----------------------------------------------------------------------------
\* What holds besides of a request that has met no other: it is the only one in flight,
\* and what it read is what the tables say.
Current(r) ==
  /\ req[r].kind \in Saving => \A d \in req[r].ds : req[r].copy = row[d]
  /\ req[r].kind \in Saving /\ req[r].checked => req[r].add \cap gone = {}
  /\ req[r].kind = "create" /\ req[r].checked => req[r].add \cap Captures \cap gone = {}
  /\ req[r].kind = "version" =>
       \A d \in req[r].ds : Live(d) /\ (req[r].checked => req[r].add = Of(d))
  /\ req[r].kind = "deleteAsset" => \A a \in req[r].drop : ~Blocked(a)

Solo ==
  \A r \in Requests \ met : /\ Busy(r) => \A s \in Requests : Busy(s) => s = r
                            /\ Current(r)

LEMMA SoloInitially == Init => Solo
BY DEF Init, Solo, Current, Busy, Idle, Saving

\* A request that takes a step that leaves the tables alone ...
LEMMA SoloStep ==
  ASSUME TypeOK, Solo, NEW r \in Requests, NEW q, req' = [req EXCEPT ![r] = q],
         UNCHANGED <<Tables, met>>, Busy(r), r \notin met => Current(r)'
  PROVE  Solo'
<1>1. \A s \in Requests : s # r => req'[s] = req[s] /\ (Busy(s)' <=> Busy(s))
  BY DEF TypeOK, Busy
<1>2. ASSUME NEW s \in Requests \ met, s # r
      PROVE  ~Busy(s)' /\ Current(s)'
  <2>1. ~Busy(s) /\ req'[s].kind = "idle"
    BY <1>1, <1>2 DEF Solo, Busy
  <2> QED BY <1>1, <1>2, <2>1 DEF Current, Saving
<1>3. r \notin met => \A s \in Requests : Busy(s)' => s = r
  BY <1>1 DEF Solo
<1> QED BY <1>2, <1>3 DEF Solo

\* ... and one that ends.
LEMMA SoloEnd ==
  ASSUME TypeOK, Solo, NEW r \in Requests, Done(r), Busy(r)
  PROVE  Solo'
<1>1. /\ req'[r].kind = "idle" /\ met' = met
      /\ \A s \in Requests : s # r => req'[s] = req[s]
  BY DEF TypeOK, Done, Idle
<1>2. ASSUME NEW s \in Requests \ met
      PROVE  ~Busy(s)' /\ Current(s)'
  <2>1. req'[s].kind = "idle"
    BY <1>1, <1>2 DEF Solo, Busy
  <2> QED BY <2>1 DEF Busy, Current, Saving
<1> QED BY <1>1, <1>2 DEF Solo

LEMMA SoloInductive ==
  ASSUME TypeOK, Coherent, Solo, [Next]_vars
  PROVE  Solo'
<1>1. ASSUME NEW r \in Requests, Begin(r) PROVE Solo'
  <2> PICK q : Start(r, q) /\ Plan(q)
    BY <1>1, Beginning
  <2>1. ASSUME NEW s \in Requests \ met', s # r PROVE ~Busy(s) /\ (r \in met' \/ ~Busy(s)')
    BY <2>1 DEF Start, Beside, Busy, TypeOK
  <2>2. req'[r] = q /\ UNCHANGED Tables /\ \A s \in Requests : s # r => req'[s] = req[s]
    BY DEF Start, TypeOK
  <2>3. \A s \in Requests \ met' : s # r => req'[s].kind = "idle"
    BY <2>1, <2>2 DEF Busy
  <2>4. \A s \in Requests \ met' : s # r => ~Busy(s)' /\ Current(s)'
    BY <2>3 DEF Busy, Current, Saving
  <2>5. /\ \A d \in Slots : Live(d)' <=> Live(d)
        /\ \A a \in Assets : Blocked(a)' <=> Blocked(a)
    BY <2>2 DEF Live, Blocked, In, Tables
  <2>6. q.from \subseteq Slots /\ q.ds \subseteq Slots /\ q.drop \subseteq Assets
    BY DEF Plan, Request
  <2>7. Current(r)'
    BY <2>2, <2>5, <2>6 DEF Plan, Current, Saving, Tables
  <2>8. r \notin met' => \A s \in Requests : Busy(s)' => s = r
    <3> SUFFICES ASSUME r \notin met', NEW s \in Requests, s # r PROVE ~Busy(s)'
      OBVIOUS
    <3>1. ~Busy(s)
      BY DEF Start, Beside
    <3> QED BY <2>2, <3>1 DEF Busy
  <2> QED BY <2>4, <2>7, <2>8 DEF Solo
<1>2. ASSUME NEW r \in Requests, Check(r) PROVE Solo'
  <2> DEFINE q == req[r]
             add == (q.add \cap Owned(q.who)) \ gone
             drop(d) == IF q.kind = "deleteDataset" THEN Of(d) ELSE q.drop \ gone
             p(d) == [q EXCEPT !.checked = TRUE, !.seen = row[d], !.add = add, !.drop = drop(d)]
  <2>1. PICK d \in q.ds : req' = [req EXCEPT ![r] = p(d)]
    BY <1>2 DEF Check
  <2>2. UNCHANGED <<Tables, met>> /\ q.kind \in Saving /\ q \in Request /\ Busy(r)
    BY <1>2 DEF Check, TypeOK, Saving, Busy
  <2>3. add \cap gone = {}
    OBVIOUS
  <2> HIDE DEF add, drop
  <2>4. ASSUME NEW x \in Request, NEW S, NEW A, NEW y
        PROVE  LET z == [x EXCEPT !.checked = TRUE, !.seen = y, !.add = A, !.drop = S]
               IN  z.kind = x.kind /\ z.ds = x.ds /\ z.copy = x.copy /\ z.add = A
    BY DEF Request
  <2>5. p(d).kind = q.kind /\ p(d).ds = q.ds /\ p(d).copy = q.copy /\ p(d).add = add
    BY <2>2, <2>4
  <2> DEFINE new == p(d)
  <2>6. req'[r] = new /\ req' = [req EXCEPT ![r] = new]
    BY <2>1 DEF TypeOK
  <2> HIDE DEF new
  <2>7. r \notin met => Current(r)'
    BY <2>2, <2>3, <2>5, <2>6 DEF Current, Solo, Saving, Tables, new
  <2> QED BY <2>2, <2>6, <2>7, SoloStep
<1>3. ASSUME NEW r \in Requests, Select(r) PROVE Solo'
  <2> DEFINE q == req[r]
             p(A) == [q EXCEPT !.checked = TRUE, !.add = A]
             captures == q.add \cap Captures
             Found == IF captures \cap gone = {} THEN {q.add} ELSE SUBSET (captures \ gone)
  <2>0. PICK A \in Found : req' = [req EXCEPT ![r] = p(A)]
    BY <1>3 DEF Select
  <2>7. A \cap Captures \cap gone = {}
    OBVIOUS
  <2>1. req' = [req EXCEPT ![r] = p(A)] /\ A \cap Captures \cap gone = {}
    BY <2>0, <2>7
  <2>2. UNCHANGED <<Tables, met>> /\ q.kind = "create" /\ q \in Request /\ Busy(r)
    BY <1>3 DEF Select, TypeOK, Busy
  <2>3. ASSUME NEW x \in Request
        PROVE  LET z == [x EXCEPT !.checked = TRUE, !.add = A] IN z.kind = x.kind /\ z.add = A
    BY DEF Request
  <2>4. p(A).kind = "create" /\ p(A).add = A
    BY <2>2, <2>3
  <2> DEFINE new == p(A)
  <2>5. req'[r] = new /\ req' = [req EXCEPT ![r] = new]
    BY <2>1 DEF TypeOK
  <2> HIDE DEF new
  <2>6. Current(r)'
    BY <2>1, <2>2, <2>4, <2>5 DEF Current, Saving, Tables, new
  <2> QED BY <2>2, <2>5, <2>6, SoloStep
<1>4. ASSUME NEW r \in Requests, Lock(r) PROVE Solo'
  <2> DEFINE q == req[r]
             p(d) == [q EXCEPT !.checked = TRUE, !.seen = row[d], !.add = Of(d)]
  <2>1. PICK d \in q.ds : req' = [req EXCEPT ![r] = Idle] \/ req' = [req EXCEPT ![r] = p(d)]
    BY <1>4 DEF Lock
  <2>2. UNCHANGED <<Tables, met>> /\ q.kind = "version" /\ q \in Request /\ Busy(r)
    BY <1>4 DEF Lock, TypeOK, Busy
  <2>3. CASE req' = [req EXCEPT ![r] = Idle]
    <3>1. req'[r].kind = "idle"
      BY <2>3 DEF TypeOK, Idle
    <3>2. Current(r)'
      BY <3>1 DEF Current, Saving
    <3> QED BY <2>2, <2>3, <3>2, SoloStep
  <2>4. CASE req' = [req EXCEPT ![r] = p(d)]
    <3>1. ASSUME NEW x \in Request, NEW A, NEW y
          PROVE  LET z == [x EXCEPT !.checked = TRUE, !.seen = y, !.add = A]
                 IN  z.kind = x.kind /\ z.ds = x.ds /\ z.add = A
      BY DEF Request
    <3> DEFINE new == p(d)
    <3>2. new.kind = "version" /\ new.ds = q.ds /\ new.add = Of(d)
      BY <2>2, <3>1
    <3>3. req' = [req EXCEPT ![r] = new] /\ req'[r] = new
      BY <2>4 DEF TypeOK
    <3> HIDE DEF new
    <3>4. \A e \in q.ds : e = d
      BY <1>4, <2>1, <2>2 DEF Coherent, Fits
    <3>5. r \notin met => Live(d)
      BY <2>1, <2>2 DEF Solo, Current
    <3>6. Of(d)' = Of(d) /\ (Live(d)' <=> Live(d))
      BY <2>2 DEF Of, Live, Tables
    <3>7. r \notin met => Current(r)'
      BY <2>2, <3>2, <3>3, <3>4, <3>5, <3>6 DEF Current, Saving
    <3> QED BY <2>2, <3>3, <3>7, SoloStep
  <2> QED BY <2>1, <2>3, <2>4
<1>5. ASSUME NEW r \in Requests, End(r) PROVE Solo'
  <2>1. Done(r) /\ Busy(r)
    BY <1>5 DEF End, Save, Insert, Detached, Removed, Rollback, Busy, Saving
  <2> QED BY <2>1, SoloEnd
<1>6. CASE UNCHANGED vars
  <2>1. \A r \in Requests : (Busy(r)' <=> Busy(r)) /\ (Current(r)' <=> Current(r))
    BY <1>6 DEF vars, Busy, Current, Live, Of, Blocked, In
  <2> QED BY <1>6, <2>1 DEF vars, Solo
<1> QED
  BY <1>1, <1>2, <1>3, <1>4, <1>5, <1>6 DEF Next

LEMMA AlwaysSolo == Spec => [](TypeOK /\ Coherent /\ Solo)
<1>1. Init => TypeOK /\ Coherent /\ Solo
  BY TypeInitially, CoherentInitially, SoloInitially
<1>2. TypeOK /\ Coherent /\ Solo /\ [Next]_vars => (TypeOK /\ Coherent /\ Solo)'
  BY TypeInductive, CoherentInductive, SoloInductive
<1> QED BY <1>1, <1>2, PTL DEF Spec

\* The request that ends in a step takes it; when the step does more than to answer, it is
\* one of these.
LEMMA EndsBy ==
  ASSUME TypeOK, [Next]_vars, NEW r \in Requests, Ends(r)
  PROVE  End(r) \/ UNCHANGED <<row, links, holds, gone>>
<1>1. ASSUME NEW s \in Requests, Begin(s) \/ Check(s) \/ Select(s) \/ Lock(s)
      PROVE  UNCHANGED <<row, links, holds, gone>>
  BY <1>1, Beginning DEF Start, Check, Select, Lock, Tables
<1>2. ASSUME NEW s \in Requests, End(s) PROVE s = r
  BY <1>2 DEF End, Save, Insert, Detached, Removed, Rollback, Done, Ends, Busy, TypeOK
<1> QED BY <1>1, <1>2 DEF Next, vars

\* Alone, a request lets no dataset or capture in use lose an asset to a deletion, and
\* gives a dataset no deleted asset but those that the form or the previous version had.
THEOREM NothingInUseDeleted == Spec => LiveAssets
<1> DEFINE Kept(r) ==
      Ends(r) /\ r \notin met =>
       /\ \A c \in Captures, f \in Files : Incomplete(c, f)' => Incomplete(c, f)
       /\ \A d \in Slots, a \in Assets : WithDeleted(d, a)' /\ ~WithDeleted(d, a) =>
            /\ ~row[d].here
            /\ \/ req[r].kind = "create" /\ a \in Files \cap gone
               \/ req[r].kind = "version" /\ \E e \in req[r].ds : WithDeleted(e, a)
<1>1. ASSUME TypeOK, Coherent, Solo, [Next]_vars, NEW r \in Requests PROVE Kept(r)
  <2> SUFFICES ASSUME Ends(r), r \notin met
               PROVE  /\ \A c \in Captures, f \in Files : Incomplete(c, f)' => Incomplete(c, f)
                      /\ \A d \in Slots, a \in Assets : WithDeleted(d, a)' /\ ~WithDeleted(d, a) =>
                           /\ ~row[d].here
                           /\ \/ req[r].kind = "create" /\ a \in Files \cap gone
                              \/ req[r].kind = "version" /\ \E e \in req[r].ds : WithDeleted(e, a)
    OBVIOUS
  <2>0. req[r] \in Request /\ Current(r)
    BY <1>1 DEF TypeOK, Solo
  <2>1. CASE UNCHANGED <<row, links, holds, gone>>
    BY <2>1 DEF Incomplete, WithDeleted, Live
  <2>2. CASE Save(r)
    <3>1. UNCHANGED <<holds, gone>> /\ req[r].add \cap gone = {}
      BY <2>0, <2>2 DEF Save, Current
    <3>2. ASSUME NEW d \in Slots, Live(d)' PROVE Live(d)
      <4>1. CASE d \in req[r].ds
        <5>1. row'[d] = SavedRow(req[r]) /\ req[r].copy = row[d]
          BY <1>1, <2>0, <2>2, <4>1 DEF Save, Current, TypeOK
        <5>2. SavedRow(req[r]).here = row[d].here /\ (row[d].deleted => SavedRow(req[r]).deleted)
          BY <2>0, <5>1, SavedTyped
        <5> QED BY <3>2, <5>1, <5>2 DEF Live
      <4>2. CASE d \notin req[r].ds
        BY <1>1, <2>2, <3>2, <4>2 DEF Save, Live, TypeOK
      <4> QED BY <4>1, <4>2
    <3>3. \A d \in Slots, a \in Assets : <<d, a>> \in links' => <<d, a>> \in links \/ a \in req[r].add
      BY <2>2 DEF Save, Relink
    <3> QED BY <3>1, <3>2, <3>3 DEF Incomplete, WithDeleted
  <2>3. ASSUME NEW n \in Slots, Insert(r, n)
        PROVE  /\ \A c \in Captures, f \in Files : Incomplete(c, f)' => Incomplete(c, f)
               /\ \A d \in Slots, a \in Assets : WithDeleted(d, a)' /\ ~WithDeleted(d, a) =>
                    /\ ~row[d].here
                    /\ \/ req[r].kind = "create" /\ a \in Files \cap gone
                       \/ req[r].kind = "version" /\ \E e \in req[r].ds : WithDeleted(e, a)
    <3>1. UNCHANGED <<holds, gone>> /\ req[r].kind \in {"create", "version"} /\ req[r].checked /\ ~row[n].here
      BY <2>3 DEF Insert
    <3>2. \A d \in Slots : d # n => (Live(d)' <=> Live(d))
      BY <1>1, <2>3 DEF Insert, Live, TypeOK
    <3>3. \A d \in Slots, a \in Assets : <<d, a>> \in links' => <<d, a>> \in links \/ (d = n /\ a \in req[r].add)
      BY <2>3 DEF Insert, Relink
    <3>4. \A a : <<n, a>> \notin links \/ a \notin Assets
      BY <1>1, <3>1 DEF Coherent, Of
    <3> SUFFICES ASSUME NEW d \in Slots, NEW a \in Assets, WithDeleted(d, a)', ~WithDeleted(d, a)
                 PROVE  /\ ~row[d].here
                        /\ \/ req[r].kind = "create" /\ a \in Files \cap gone
                           \/ req[r].kind = "version" /\ \E e \in req[r].ds : WithDeleted(e, a)
      BY <3>1 DEF Incomplete
    <3>5. d = n /\ a \in req[r].add /\ a \in gone
      BY <3>1, <3>2, <3>3, <3>4 DEF WithDeleted
    <3>6. CASE req[r].kind = "create"
      BY <2>0, <3>1, <3>5, <3>6 DEF Current, Assets
    <3>7. CASE req[r].kind = "version"
      <4>1. PICK e \in req[r].ds : TRUE
        BY <1>1, <3>1, <3>5, <3>7 DEF Coherent, Fits, Locks, Frozen
      <4>2. Live(e) /\ a \in Of(e)
        BY <2>0, <3>1, <3>5, <3>7, <4>1 DEF Current
      <4> QED BY <3>1, <3>5, <3>7, <4>1, <4>2 DEF WithDeleted, Of
    <3> QED BY <3>1, <3>6, <3>7
  <2>4. CASE Detached(r)
    <3>1. UNCHANGED <<row, holds, gone>> /\ links' \subseteq links
      BY <2>4 DEF Detached, Relink
    <3> QED BY <3>1 DEF Incomplete, WithDeleted, Live
  <2>5. CASE Removed(r)
    <3>1. UNCHANGED <<row, links>> /\ gone' = gone \cup req[r].drop /\ holds' \subseteq holds
      BY <2>5 DEF Removed
    <3>2. \A a \in req[r].drop : ~Blocked(a)
      BY <2>0, <2>5 DEF Current, Removed
    <3>3. \A d \in Slots : Live(d)' <=> Live(d)
      BY <3>1 DEF Live
    <3> QED BY <3>1, <3>2, <3>3 DEF Incomplete, WithDeleted, Blocked, In
  <2>6. CASE Rollback(r)
    BY <2>1, <2>6 DEF Rollback, Tables
  <2> QED BY <1>1, <2>1, <2>2, <2>3, <2>4, <2>5, <2>6, EndsBy DEF End
<1>2. TypeOK /\ Coherent /\ Solo /\ [Next]_vars => [\A r \in Requests : Kept(r)]_vars
  BY <1>1
<1> QED BY <1>2, AlwaysSolo, PTL DEF Spec, LiveAssets

\* Published datasets lose assets only to saves of their own, or to a detach that began
\* while they were drafts.
THEOREM PublishedKept == Spec => PublishedKeepsAssets
<1> DEFINE Kept(d, a) ==
      Live(d) /\ Published(d) /\ <<d, a>> \in links /\ <<d, a>> \notin links' =>
        \E r \in Requests : Ends(r) /\ (d \in req[r].ds \/ d \in req[r].drafts)
<1>1. ASSUME TypeOK, Coherent, [Next]_vars, NEW d \in Slots, NEW a \in Assets PROVE Kept(d, a)
  <2> SUFFICES ASSUME Published(d), <<d, a>> \in links, <<d, a>> \notin links'
               PROVE  \E r \in Requests : Ends(r) /\ (d \in req[r].ds \/ d \in req[r].drafts)
    OBVIOUS
  <2>1. ASSUME NEW r \in Requests, Save(r) PROVE Ends(r) /\ d \in req[r].ds
    <3>1. Ends(r)
      BY <1>1, <2>1 DEF Ends, Busy, Save, Done, Saving, TypeOK, Idle
    <3>2. d \in req[r].from /\ req[r].from \subseteq req[r].ds
      BY <1>1, <2>1 DEF Save, Relink, Coherent, Fits
    <3> QED BY <3>1, <3>2
  <2>2. ASSUME NEW r \in Requests, NEW n \in Slots, Insert(r, n) PROVE FALSE
    BY <1>1, <2>2 DEF Insert, Relink, Coherent, Fits
  <2>3. ASSUME NEW r \in Requests, Detached(r) PROVE Ends(r) /\ d \in req[r].drafts
    <3>1. Ends(r)
      BY <1>1, <2>3 DEF Ends, Busy, Detached, Done, TypeOK, Idle
    <3>2. d \in req[r].from
      BY <2>3 DEF Detached, Relink
    <3> QED BY <1>1, <2>3, <3>1, <3>2 DEF Coherent, Fits, Detached
  <2>4. ASSUME NEW r \in Requests, Begin(r) PROVE FALSE
    BY <1>1, <2>4, Beginning DEF Start, Tables
  <2> QED BY <1>1, <2>1, <2>2, <2>3, <2>4 DEF Next, End, Check, Select, Lock, Removed, Rollback, Tables, vars
<1>2. TypeOK /\ Coherent /\ [Next]_vars => [\A d \in Slots, a \in Assets : Kept(d, a)]_vars
  BY <1>1
<1> QED BY <1>2, AlwaysCoherent, PTL DEF Spec, PublishedKeepsAssets
=============================================================================
