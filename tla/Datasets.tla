------------------------------ MODULE Datasets ------------------------------
(***************************************************************************)
(* Datasets and the captures and files in them: creation, edits,           *)
(* publication, versions and deletion (users/views/datasets.py,            *)
(* api_methods/models.py and the destroy and detach endpoints).            *)
(*                                                                         *)
(* A request is one transaction at READ COMMITTED: Start reads, Check and  *)
(* Lock read again what the code reads right before it writes, and the     *)
(* last step commits.  save() writes every column of a row it has read     *)
(* before, preceded by full_clean(), whose clean() compares the new status *)
(* and visibility with those in the database at that moment.               *)
(*                                                                         *)
(* Who is a co-owner of what is the business of Sharing: here a user that  *)
(* may be one is, or is not, at the moment of each request.  The version   *)
(* number is left out: it is one more than that of the previous version,   *)
(* by which versions are told apart.                                       *)
(***************************************************************************)
EXTENDS Naturals, FiniteSets

CONSTANTS
  Users,
  CoOwners,     \* users that datasets of others may be shared with
  Captures, Files,
  AssetOwner,   \* [Assets -> Users]
  Slots,        \* rows of the table of datasets, used one after the other
  Requests,     \* requests that can be in flight at the same time
  MaxRequests,  \* bound: how many requests start
  MaxPicked     \* bound on the assets that one form adds or removes

Assets == Captures \cup Files

ASSUME AssetAssumption == AssetOwner \in [Assets -> Users] /\ Captures \cap Files = {}
ASSUME UserAssumption  == Users # {} /\ CoOwners \subseteq Users
ASSUME BoundAssumption == MaxRequests \in Nat /\ MaxPicked \in Nat

VARIABLES
  row,      \* [slot -> row of Dataset]
  links,    \* captures and files in datasets: pairs of a slot and an asset
  holds,    \* files of captures: pairs of a capture and a file
  gone,     \* soft-deleted captures and files
  req,      \* [request -> what it is doing]
  started,  \* how many requests have started
  met,      \* requests in flight that have run beside another one (history)
  revived   \* deleted datasets that a save has brought back (history)

vars == <<row, links, holds, gone, req, started, met, revived>>

Row == [here : BOOLEAN, final : BOOLEAN, public : BOOLEAN, deleted : BOOLEAN,
        owner : Users, prev : SUBSET Slots]
Nobody == CHOOSE u \in Users : TRUE
NoRow == [here |-> FALSE, final |-> FALSE, public |-> FALSE, deleted |-> FALSE,
          owner |-> Nobody, prev |-> {}]

Saving == {"save", "deleteDataset"}
Kinds  == Saving \cup {"create", "version", "detach", "deleteAsset", "idle"}
Idle   == [kind |-> "idle", checked |-> FALSE, who |-> Nobody, ds |-> {}, copy |-> NoRow,
           seen |-> NoRow, final |-> FALSE, public |-> FALSE, add |-> {}, drop |-> {}, from |-> {},
           drafts |-> {}]

Busy(r) == req[r].kind # "idle"
Live(d) == row[d].here /\ ~row[d].deleted
Published(d) == row[d].final \/ row[d].public
Of(d) == {a \in Assets : <<d, a>> \in links}
In(a) == {d \in Slots : <<d, a>> \in links}
Owned(u) == {a \in Assets : AssetOwner[a] = u}

\* get_user_permission_level for editing, publishing and versions: the owner of a
\* dataset that is not deleted, or a co-owner; its deletion ends all permissions.
MayEdit(u, d) == Live(d) /\ (u = row[d].owner \/ u \in CoOwners)

\* DatasetInfoForm: a public dataset is a final one.  PublishDatasetView means to ask the
\* same, but only of a value that `is True`: any other true value makes a draft public.
Settings == [final : BOOLEAN, public : BOOLEAN]
Forms == {f \in Settings : f.public => f.final}
Picks(S) == {A \in SUBSET S : Cardinality(A) <= MaxPicked}

Init ==
  /\ row = [d \in Slots |-> NoRow]
  /\ links = {}
  /\ holds \in SUBSET (Captures \X Files)
  /\ gone = {}
  /\ req = [r \in Requests |-> Idle]
  /\ started = 0
  /\ met = {}
  /\ revived = {}

-----------------------------------------------------------------------------
\* A request starts alone or beside others.
Beside(r) ==
  LET others == {s \in Requests : Busy(s)}
  IN  /\ started < MaxRequests /\ started' = started + 1
      /\ met' = IF others = {} THEN {} ELSE met \cup others \cup {r}

Tables == <<row, links, holds, gone, revived>>

Start(r, q) ==
  /\ ~Busy(r) /\ Beside(r)
  /\ req' = [req EXCEPT ![r] = q]
  /\ UNCHANGED Tables

\* _handle_dataset_creation: the form names captures and files of the requester, or
\* none, since an empty field is read as a list of one empty name.
Create(r, u, f, A) ==
  Start(r, [Idle EXCEPT !.kind = "create", !.who = u, !.final = f.final, !.public = f.public,
                        !.add = A])

\* _handle_dataset_edit: only for the owner, since _get_dataset filters by owner.  That a
\* published dataset cannot be edited is checked when the page is opened, not here.
Edit(r, d, f, A, D) ==
  /\ Live(d) /\ Cardinality(A \cup D) <= MaxPicked /\ A \cap D = {}
  /\ Start(r, [Idle EXCEPT !.kind = "save", !.who = row[d].owner, !.ds = {d}, !.copy = row[d],
                           !.final = f.final, !.public = f.public, !.add = A, !.drop = D,
                           !.from = {d}])

\* PublishDatasetView.post: _handle_400_errors compares the form with the row read.
Publish(r, d, f) ==
  /\ \E u \in Users : MayEdit(u, d)
  /\ (row[d].final => f.final) /\ (row[d].public => f.public)
  /\ Start(r, [Idle EXCEPT !.kind = "save", !.who = row[d].owner, !.ds = {d}, !.copy = row[d],
                           !.final = f.final, !.public = f.public, !.from = {d}])

\* DatasetVersioningView.post, up to the lock.
Version(r, u, d) ==
  /\ MayEdit(u, d)
  /\ Start(r, [Idle EXCEPT !.kind = "version", !.who = u, !.ds = {d}])

\* DatasetViewSet.destroy, when nobody shares the dataset at that moment.
DeleteDataset(r, d) ==
  /\ Live(d)
  /\ Start(r, [Idle EXCEPT !.kind = "deleteDataset", !.who = row[d].owner, !.ds = {d},
                           !.copy = row[d], !.final = row[d].final, !.public = row[d].public,
                           !.from = {d}])

\* Fault: published datasets are not left out.
RemovableAll(a) == {d \in In(a) : Live(d)}

\* _datasets_removable_from_item
Removable(a) == {d \in In(a) : Live(d) /\ ~Published(d)}

\* detach_from_datasets of a capture or a file (drafts: history, for PublishedKeepsAssets).
Detach(r, a) ==
  /\ a \notin gone
  /\ Start(r, [Idle EXCEPT !.kind = "detach", !.who = AssetOwner[a], !.drop = {a},
                           !.from = Removable(a), !.drafts = {d \in In(a) : ~Published(d)}])

\* Fault: only the captures of a file are asked about, never its datasets.
BlockedByCaptures(a) == \E c \in Captures \ gone : <<c, a>> \in holds

\* raise_if_file_deletion_is_blocked and raise_if_capture_deletion_is_blocked.
Blocked(a) ==
  \/ \E d \in In(a) : Live(d)
  \/ \E c \in Captures \ gone : <<c, a>> \in holds

\* destroy of a capture or a file.
DeleteAsset(r, a) ==
  /\ a \notin gone /\ ~Blocked(a)
  /\ Start(r, [Idle EXCEPT !.kind = "deleteAsset", !.who = AssetOwner[a], !.drop = {a}])

-----------------------------------------------------------------------------
\* Fault: clean() lets the status of a final dataset change.
CleanVisibility(q, d) == row[d].public => q.public

\* Dataset.clean()
Clean(q, d) == (row[d].final => q.final) /\ (row[d].public => q.public)

\* save() cleans, then the assets of an edit are looked up: a form adds the
\* owner's own, and takes out any, that are not deleted.  A deletion has removed
\* the links by now, those it could see (disconnect_assets).
Check(r) ==
  LET q == req[r]
  IN  /\ q.kind \in Saving /\ ~q.checked
      /\ \E d \in q.ds :
           /\ Clean(q, d)
           /\ req' = [req EXCEPT ![r].checked = TRUE, ![r].seen = row[d],
                                 ![r].add = (q.add \cap Owned(q.who)) \ gone,
                                 ![r].drop = IF q.kind = "deleteDataset" THEN Of(d) ELSE q.drop \ gone]
      /\ UNCHANGED <<Tables, started, met>>

\* The new row's assets.  A capture that is not found ends the request with an
\* error response, which commits what was done so far; files are not asked
\* whether they are deleted.
Select(r) ==
  LET q == req[r]
      captures == q.add \cap Captures
  IN  /\ q.kind = "create" /\ ~q.checked
      /\ \E A \in IF captures \cap gone = {} THEN {q.add} ELSE SUBSET (captures \ gone) :
           req' = [req EXCEPT ![r].checked = TRUE, ![r].add = A]
      /\ UNCHANGED <<Tables, started, met>>

\* A row that select_for_update has locked stays so until the request ends.
LockedByOther(r, d) ==
  \E s \in Requests \ {r} : req[s].kind = "version" /\ req[s].checked /\ d \in req[s].ds

VersionOf(m, d, u) == row[m].prev = {d} /\ row[m].owner = u /\ Live(m)

\* Fault: the row is not locked before existing versions are looked for.
LockFree(r) ==
  LET q == req[r]
  IN  /\ q.kind = "version" /\ ~q.checked
      /\ \E d \in q.ds :
           IF \E m \in Slots : VersionOf(m, d, q.who) THEN req' = [req EXCEPT ![r] = Idle]
           ELSE req' = [req EXCEPT ![r].checked = TRUE, ![r].seen = row[d], ![r].add = Of(d)]
      /\ UNCHANGED <<Tables, started, met>>

\* _copy_dataset_with_relations: select_for_update, then the look for a version
\* that the same user made meanwhile, which is the answer when there is one.
Lock(r) ==
  LET q == req[r]
  IN  /\ q.kind = "version" /\ ~q.checked
      /\ \E d \in q.ds :
           /\ ~LockedByOther(r, d)
           /\ IF \E m \in Slots : VersionOf(m, d, q.who) THEN req' = [req EXCEPT ![r] = Idle]
              ELSE req' = [req EXCEPT ![r].checked = TRUE, ![r].seen = row[d], ![r].add = Of(d)]
      /\ UNCHANGED <<Tables, started, met>>

Done(r) == req' = [req EXCEPT ![r] = Idle] /\ UNCHANGED <<started, met>>
Relink(q, D) == links' = (links \ (q.from \X q.drop)) \cup (D \X q.add)

\* The whole row, as it was read, with what the request changes.
SavedRow(q) == [q.copy EXCEPT !.final = q.final, !.public = q.public,
                              !.deleted = (q.kind = "deleteDataset") \/ @]

\* UPDATE and commit.
Save(r) ==
  LET q == req[r]
  IN  /\ q.kind \in Saving /\ q.checked
      /\ \A d \in q.ds : ~LockedByOther(r, d)
      /\ row' = [d \in Slots |-> IF d \in q.ds THEN SavedRow(q) ELSE row[d]]
      /\ revived' = revived \cup {d \in q.ds : row[d].deleted /\ ~SavedRow(q).deleted}
      /\ Relink(q, q.ds) /\ Done(r)
      /\ UNCHANGED <<holds, gone>>

\* INSERT of a new dataset or of a version, which copies is_deleted.
Insert(r, d) ==
  LET q == req[r]
  IN  /\ q.kind \in {"create", "version"} /\ q.checked /\ ~row[d].here
      /\ row' = [row EXCEPT ![d] = [here |-> TRUE, final |-> q.final, public |-> q.public,
                                    deleted |-> q.seen.deleted, owner |-> q.who, prev |-> q.ds]]
      /\ Relink(q, {d}) /\ Done(r)
      /\ UNCHANGED <<holds, gone, revived>>

\* item.datasets.remove(...)
Detached(r) ==
  /\ req[r].kind = "detach"
  /\ Relink(req[r], {}) /\ Done(r)
  /\ UNCHANGED <<row, holds, gone, revived>>

\* soft_delete of a file, or of a capture, whose files are disconnected.
Removed(r) ==
  /\ req[r].kind = "deleteAsset"
  /\ gone' = gone \cup req[r].drop
  /\ holds' = {h \in holds : h[1] \notin req[r].drop}
  /\ Done(r)
  /\ UNCHANGED <<row, links, revived>>

\* ValidationError of clean(), a database error, a process that died.
Rollback(r) == Busy(r) /\ Done(r) /\ UNCHANGED Tables

\* Bounds: who creates a dataset owns something, and an edit changes the status and visibility of a dataset, or its assets.
OneChange(d, f, picked) == picked # {} <=> f = [final |-> row[d].final, public |-> row[d].public]

Begin(r) ==
  \/ \E u \in Users, f \in Forms :
       \E A \in Picks(Owned(u)) : Owned(u) # {} /\ Create(r, u, f, A)
  \/ \E d \in Slots, f \in Settings : Publish(r, d, f)
  \/ \E d \in Slots, f \in Forms :
       \E A, D \in Picks(Assets) : Edit(r, d, f, A, D) /\ OneChange(d, f, A \cup D)
  \/ \E d \in Slots : DeleteDataset(r, d) \/ \E u \in Users : Version(r, u, d)
  \/ \E a \in Assets : Detach(r, a) \/ DeleteAsset(r, a)

End(r) ==
  \/ Save(r) \/ Detached(r) \/ Removed(r) \/ Rollback(r)
  \/ \E d \in Slots : Insert(r, d)

Next == \E r \in Requests : Begin(r) \/ Check(r) \/ Select(r) \/ Lock(r) \/ End(r)

Spec == Init /\ [][Next]_vars

-----------------------------------------------------------------------------
Request == [kind : Kinds, checked : BOOLEAN, who : Users, ds : SUBSET Slots, copy : Row,
            seen : Row, final : BOOLEAN, public : BOOLEAN, add : SUBSET Assets,
            drop : SUBSET Assets, from : SUBSET Slots, drafts : SUBSET Slots]

\* Types of the tables and of the requests in flight.
TypeOK ==
  /\ row \in [Slots -> Row]
  /\ links \subseteq Slots \X Assets
  /\ holds \subseteq Captures \X Files
  /\ gone \subseteq Assets
  /\ req \in [Requests -> Request]
  /\ started \in 0..MaxRequests
  /\ met \subseteq Requests
  /\ revived \subseteq Slots

Ends(r) == Busy(r) /\ ~Busy(r)'

\* A final dataset stays final and a public one public, unless it became so after
\* clean() had looked; a deleted one stays deleted, unless a save holds a copy of
\* the row from before the deletion.
NeverGoesBack ==
  [][\A d \in Slots :
       /\ (row[d].final /\ ~row[d].final') \/ (row[d].public /\ ~row[d].public') =>
            \E r \in Requests : Ends(r) /\ d \in req[r].ds /\ req[r].seen # row[d]
       /\ row[d].deleted /\ ~row[d].deleted' =>
            \E r \in Requests : Ends(r) /\ d \in req[r].ds /\ req[r].copy # row[d]]_vars

\* However requests overlap, a user makes one next version of a dataset, and none
\* of a deleted dataset: a new version that is live has no live twin, except for
\* one that was deleted and that an outdated save brought back.
VersionsOnce ==
  [][\A n, d \in Slots : ~row[n].here /\ row[n].here' /\ row[n].prev' = {d} /\ ~row[n].deleted' =>
       /\ Live(d)
       /\ \A m \in Slots : VersionOf(m, d, row[n].owner') => m \in revived]_vars

\* Nothing leaves a published dataset but by a save of that very dataset, or by a detach
\* that began while it was a draft: it was published after its link had been listed for
\* removal.  No detach takes anything from a dataset that was published when it began,
\* whatever other requests do meanwhile or did before.
PublishedKeepsAssets ==
  [][\A d \in Slots, a \in Assets :
       Live(d) /\ Published(d) /\ <<d, a>> \in links /\ <<d, a>> \notin links' =>
         \E r \in Requests : Ends(r) /\ (d \in req[r].ds \/ d \in req[r].drafts)]_vars

\* A request that runs alone, whatever overlapped before it, leaves no dataset in use with
\* a deleted asset and no capture in use with a deleted file that was not so already.  The
\* only ones it makes are in a new dataset: a file that was deleted when the form named it
\* (files are not asked), or what the previous version had.
WithDeleted(d, a) == Live(d) /\ <<d, a>> \in links /\ a \in gone
Incomplete(c, f) == <<c, f>> \in holds /\ c \notin gone /\ f \in gone
LiveAssets ==
  [][\A r \in Requests : Ends(r) /\ r \notin met =>
       /\ \A c \in Captures, f \in Files : Incomplete(c, f)' => Incomplete(c, f)
       /\ \A d \in Slots, a \in Assets : WithDeleted(d, a)' /\ ~WithDeleted(d, a) =>
            /\ ~row[d].here
            /\ \/ req[r].kind = "create" /\ a \in Files \cap gone
               \/ req[r].kind = "version" /\ \E e \in req[r].ds : WithDeleted(e, a)]_vars
=============================================================================
