------------------------------- MODULE Sharing -------------------------------
(***************************************************************************)
(* Sharing of one item (a dataset or a capture): UserSharePermission and   *)
(* ShareGroup (api_methods/models.py), the requests that change them       *)
(* (users/views/sharing.py, users/views/share_groups.py, the revoke and    *)
(* delete endpoints) and the post_save handlers of soft deletions.         *)
(*                                                                         *)
(* Every request is one transaction (ATOMIC_REQUESTS, config/settings/     *)
(* base.py) at PostgreSQL's READ COMMITTED: it reads what is committed at  *)
(* that moment, and its writes appear at its commit.  save() writes every  *)
(* column of a row, so a row goes back to what the request has read except *)
(* for what it changed; a many-to-many link is a row of its own.  A request*)
(* is therefore two or three steps: Start checks and reads, Recount looks  *)
(* for remaining groups (update_enabled_status), Commit writes.  A POST    *)
(* with several changes is a sequence of such requests in one transaction. *)
(*                                                                         *)
(* A permission is named by the user who shared (owner) and the user it is *)
(* for (shared_with); unique_together makes that a key.                    *)
(***************************************************************************)
EXTENDS Naturals, FiniteSets

CONSTANTS
  Users,
  Owner,       \* owner of the item
  Groups,
  GroupOwner,  \* [Groups -> Users]
  Levels,      \* permission levels; the two below are told apart
  Viewer, CoOwner,
  Offered,     \* the levels requests ask for (a bound on the inputs)
  Requests,    \* requests that can be in flight at the same time
  MaxOverlaps  \* bound: how often a request may start beside another one

ASSUME UserAssumption  == Owner \in Users /\ GroupOwner \in [Groups -> Users]
ASSUME LevelAssumption == Viewer \in Levels /\ CoOwner \in Levels /\ Offered \subseteq Levels
ASSUME BoundAssumption == MaxOverlaps \in Nat

VARIABLES
  perm,     \* [key -> row of UserSharePermission, NoRow when there is none]
  links,    \* rows of its share_groups table: pairs of a key and a group
  members,  \* [group -> its members]
  gone,     \* soft-deleted groups
  live,     \* is the item not soft-deleted?
  req,      \* [request -> what it is doing]
  overlaps, \* how often requests have overlapped
  ousted    \* users some permission of whom was switched off by name (history)

vars == <<perm, links, members, gone, live, req, overlaps, ousted>>

Keys == Users \X Users          \* <<owner, shared_with>>
Row  == [here : BOOLEAN, enabled : BOOLEAN, individual : BOOLEAN, level : Levels,
         deleted : BOOLEAN]
NoRow == [here |-> FALSE, enabled |-> FALSE, individual |-> FALSE, level |-> Viewer,
          deleted |-> FALSE]

\* What a request does, and the group or user it is about.
Levelling == {"share", "relevel", "shareGroup", "addMember", "relevelGroup"}
Granting  == (Levelling \ {"relevelGroup"}) \cup {"visit"}
Unlinking == {"removeGroup", "removeMember", "deleteGroup"}
Kinds == Levelling \cup Granting \cup Unlinking \cup {"remove", "deleteItem", "idle"}
Idle  == [kind |-> "idle", who |-> Owner, group |-> {}, level |-> Viewer, rows |-> {},
          copy |-> [k \in Keys |-> NoRow], linked |-> {}, counted |-> TRUE]

Busy(r) == req[r].kind # "idle"
Held(k) == perm[k].here /\ ~perm[k].deleted     \* is_deleted=False
Enabled(k) == Held(k) /\ perm[k].enabled
GroupsOf(k) == {g \in Groups : <<k, g>> \in links}
LinkedTo(g) == {k \in Keys : Held(k) /\ <<k, g>> \in links}
\* What a request by name finds for a user: any permission, whoever shared.
For(u) == {k \in Keys : k[2] = u /\ Held(k)}

\* get_user_permission_level for a user with the right to share: the owner, or
\* one whose permission (any, when several owners shared with that user) says so.
CanShare(u) ==
  live /\ (u = Owner \/ \E k \in For(u) : perm[k].enabled /\ perm[k].level = CoOwner)

\* What _copy_shared_users gives a new version of a dataset: permissions without groups
\* that count as given by name (the default of is_individual_share), whatever the ground
\* of the permission that is copied.
Copied == {[here |-> TRUE, enabled |-> TRUE, individual |-> TRUE, level |-> v,
            deleted |-> FALSE] : v \in Offered}

Init ==
  /\ perm \in [Keys -> Copied \cup {NoRow}] /\ \A k \in Keys : perm[k].here => k[1] = Owner
  /\ links = {}
  /\ members = [g \in Groups |-> {GroupOwner[g]}]   \* _create_share_group
  /\ gone = {}
  /\ live = TRUE
  /\ req = [r \in Requests |-> Idle]
  /\ overlaps = 0
  /\ ousted = {}

-----------------------------------------------------------------------------
\* A request runs alone or beside others, as often as the bound allows.
Beside ==
  IF \E s \in Requests : Busy(s)
  THEN overlaps < MaxOverlaps /\ overlaps' = overlaps + 1
  ELSE overlaps' = overlaps

\* Start of a request: its checks passed, and it holds copies of the rows of
\* `reads` (NoRow where the query found none).
Start(r, kind, who, group, level, reads) ==
  /\ ~Busy(r) /\ Beside
  /\ req' = [req EXCEPT ![r] =
       [kind |-> kind, who |-> who, group |-> group, level |-> level, rows |-> reads,
        copy |-> [k \in Keys |-> IF k \in reads /\ Held(k) THEN perm[k] ELSE NoRow],
        linked |-> {}, counted |-> kind \notin Unlinking]]
  /\ UNCHANGED <<perm, links, members, gone, live, ousted>>

\* _add_individual_user_to_item: nothing to do when already shared by name.
Share(r, s, u, level) ==
  /\ CanShare(s) /\ s # u
  /\ \E k \in IF For(u) = {} THEN {<<s, u>>} ELSE For(u) :
       /\ ~(Enabled(k) /\ perm[k].individual)
       /\ Start(r, "share", u, {}, level, {k})

\* _update_individual_permission
Relevel(r, s, u, level) ==
  CanShare(s) /\ \E k \in For(u) : Start(r, "relevel", u, {}, level, {k})

\* _remove_individual_access
Remove(r, s, u) ==
  CanShare(s) /\ \E k \in For(u) : Start(r, "remove", u, {}, Viewer, {k})

\* SPXDACDatasetAltView.get: whoever opens the competition's page gets its dataset.
Visit(r, u) ==
  /\ live /\ u # Owner /\ ~Enabled(<<Owner, u>>)
  /\ Start(r, "visit", u, {}, Viewer, {<<Owner, u>>})

\* _add_group_to_item: a permission for every member, by the group's owner.
ShareGroup(r, g, level) ==
  /\ CanShare(GroupOwner[g]) /\ g \notin gone
  /\ Start(r, "shareGroup", GroupOwner[g], {g}, level, {GroupOwner[g]} \X members[g])

\* _update_group_permission and _remove_group_access look at enabled ones only.
RelevelGroup(r, g, level) ==
  LET found == {k \in LinkedTo(g) : perm[k].enabled}
  IN  /\ CanShare(GroupOwner[g]) /\ g \notin gone /\ found # {}
      /\ Start(r, "relevelGroup", GroupOwner[g], {g}, level, found)

RemoveGroup(r, g) ==
  LET found == {k \in LinkedTo(g) : perm[k].enabled}
  IN  /\ CanShare(GroupOwner[g]) /\ g \notin gone /\ found # {}
      /\ Start(r, "removeGroup", GroupOwner[g], {g}, Viewer, found)

\* _process_user_addition: the new member gets what the group has.
AddMember(r, g, u) ==
  LET shared == \E k \in LinkedTo(g) : perm[k].enabled
  IN  /\ g \notin gone /\ u # GroupOwner[g] /\ u \notin members[g]
      /\ Start(r, "addMember", u, {g}, Viewer, IF shared THEN {<<GroupOwner[g], u>>} ELSE {})

\* _process_user_removal
RemoveMember(r, g, u) ==
  /\ g \notin gone /\ u # GroupOwner[g] /\ u \in members[g]
  /\ Start(r, "removeMember", u, {g}, Viewer,
           {k \in LinkedTo(g) : k[2] = u /\ perm[k].enabled})

\* Fault: the handler of a group's deletion looks at enabled permissions only.
DeleteGroupEnabled(r, g) ==
  /\ g \notin gone
  /\ Start(r, "deleteGroup", GroupOwner[g], {g}, Viewer, {k \in LinkedTo(g) : perm[k].enabled})

\* soft_delete of a group; its post_save handler goes over all its permissions.
DeleteGroup(r, g) ==
  g \notin gone /\ Start(r, "deleteGroup", GroupOwner[g], {g}, Viewer, LinkedTo(g))

\* destroy of a capture or dataset: refused while shared; the post_save handler
\* soft-deletes the permissions that are left.
DeleteItem(r) ==
  /\ live /\ \A k \in Keys : ~Enabled(k)
  /\ Start(r, "deleteItem", Owner, {}, Viewer, {k \in Keys : Held(k)})

-----------------------------------------------------------------------------
\* share_groups.exists() of update_enabled_status, once the group is removed.
Recount(r) ==
  /\ Busy(r) /\ ~req[r].counted
  /\ req' = [req EXCEPT ![r].counted = TRUE,
                        ![r].linked = {k \in req[r].rows : GroupsOf(k) \ req[r].group # {}}]
  /\ UNCHANGED <<perm, links, members, gone, live, overlaps, ousted>>

\* The row an insert makes: by name for a share by name and, because the field's default is
\* True, for a visit of the competition's page.
New(q) == [here |-> TRUE, enabled |-> TRUE, individual |-> q.kind \in {"share", "visit"},
           level |-> q.level, deleted |-> FALSE]

\* Fault: removing the group decides alone, whatever was shared by name.
SavedByGroups(q, k) ==
  LET old == IF q.copy[k].here THEN q.copy[k] ELSE New(q)
  IN  [here |-> TRUE,
       enabled |-> IF q.kind \in Unlinking THEN k \in q.linked ELSE
                   q.kind \in Granting \/ (q.kind # "remove" /\ old.enabled),
       individual |-> q.kind = "share" \/ old.individual,
       level      |-> IF q.kind \in Levelling THEN q.level ELSE old.level,
       deleted    |-> q.kind = "deleteItem" \/ old.deleted]

\* The row that request q saves over k: the row it read, changed by its kind.
Saved(q, k) ==
  LET old == IF q.copy[k].here THEN q.copy[k] ELSE New(q)
  IN  [here |-> TRUE,
       enabled |-> IF q.kind \in Unlinking THEN old.individual \/ k \in q.linked ELSE
                   q.kind \in Granting \/ (q.kind # "remove" /\ old.enabled),
       individual |-> q.kind = "share" \/ old.individual,
       level      |-> IF q.kind \in Levelling THEN q.level ELSE old.level,
       deleted    |-> q.kind = "deleteItem" \/ old.deleted]

\* The row was inserted by another request, or belongs to a deleted item.
Clashes(q) == \E k \in q.rows : perm[k].here /\ ~q.copy[k].here

\* Fault: a new member is added to the group, but not to what it shares.
SavedLinksMissing(q) == IF q.kind = "shareGroup" THEN q.rows \X q.group ELSE {}

\* update_or_create_user_group_share_permissions: share_groups.add(group)
SavedLinks(q) ==
  IF q.kind \in {"shareGroup", "addMember"} THEN q.rows \X q.group ELSE {}

Commit(r) ==
  LET q == req[r]
  IN  /\ Busy(r) /\ q.counted /\ ~Clashes(q)
      /\ perm' = [k \in Keys |-> IF k \in q.rows THEN Saved(q, k) ELSE perm[k]]
      /\ links' = (IF q.kind \in Unlinking THEN links \ (q.rows \X q.group) ELSE links)
                    \cup SavedLinks(q)
      /\ members' = [g \in Groups |->
           IF g \notin q.group THEN members[g]
           ELSE (members[g] \cup (IF q.kind = "addMember" THEN {q.who} ELSE {}))
                  \ (IF q.kind = "removeMember" THEN {q.who} ELSE {})]
      /\ gone' = IF q.kind = "deleteGroup" THEN gone \cup q.group ELSE gone
      /\ live' = (live /\ q.kind # "deleteItem")
      /\ ousted' = IF q.kind = "remove" THEN ousted \cup {k[1] : k \in q.rows} ELSE ousted
      /\ req' = [req EXCEPT ![r] = Idle]
      /\ UNCHANGED overlaps

\* IntegrityError of unique_together, a deadlock that the database broke, a
\* process that died: the transaction is rolled back.
Rollback(r) ==
  /\ Busy(r)
  /\ req' = [req EXCEPT ![r] = Idle]
  /\ UNCHANGED <<perm, links, members, gone, live, overlaps, ousted>>

\* revoke_share_permissions: two statements on the enabled rows, nothing is read
\* before; it is ordered with the saves of other requests by the rows' locks.
RevokeAll ==
  LET hit == {k \in Keys : Enabled(k)}
  IN  /\ live /\ Beside
      /\ perm' = [k \in Keys |->
           IF k \in hit THEN [perm[k] EXCEPT !.enabled = FALSE, !.individual = FALSE] ELSE perm[k]]
      /\ links' = {l \in links : l[1] \notin hit}
      /\ UNCHANGED <<members, gone, live, req, ousted>>

ByName(r) ==
  \E s, u \in Users :
    \/ \E level \in Offered : Share(r, s, u, level) \/ Relevel(r, s, u, level)
    \/ Remove(r, s, u) \/ Visit(r, u)

ByGroup(r) ==
  \E g \in Groups :
    \/ \E level \in Offered : ShareGroup(r, g, level) \/ RelevelGroup(r, g, level)
    \/ RemoveGroup(r, g) \/ DeleteGroup(r, g)
    \/ \E u \in Users : AddMember(r, g, u) \/ RemoveMember(r, g, u)

Begin(r) == ByName(r) \/ ByGroup(r) \/ DeleteItem(r)

Next ==
  \/ \E r \in Requests : Begin(r) \/ Recount(r) \/ Commit(r) \/ Rollback(r)
  \/ RevokeAll

Spec == Init /\ [][Next]_vars

-----------------------------------------------------------------------------
\* What a request holds while it runs.
Request == [kind : Kinds, who : Users, group : SUBSET Groups, level : Levels,
            rows : SUBSET Keys, copy : [Keys -> Row], linked : SUBSET Keys, counted : BOOLEAN]

\* Types of the tables and of the requests in flight.
TypeOK ==
  /\ perm \in [Keys -> Row]
  /\ links \subseteq Keys \X Groups
  /\ members \in [Groups -> SUBSET Users]
  /\ gone \subseteq Groups
  /\ live \in BOOLEAN
  /\ req \in [Requests -> Request]
  /\ overlaps \in 0..MaxOverlaps
  /\ ousted \subseteq Users

\* Individual shares survive the removal, the change and the deletion of groups: one is
\* lost only to a removal by name, to the revocation of everything, or to a request that
\* read the row before the share was made and saves it afterwards, which writes its older
\* is_enabled and is_individual_share back.  A request that read the share keeps it,
\* whatever else in its copy is outdated and however many others it runs beside.
ByNameIn(row) == row.here /\ row.enabled /\ row.individual
SharedByName(k) == Held(k) /\ ByNameIn(perm[k])
IndividualSurvives ==
  [][\A k \in Keys : SharedByName(k) /\ ~SharedByName(k)' =>
       \/ req' = req /\ \A j \in Keys : ~Enabled(j)'   \* revoke_share_permissions
       \/ \E r \in Requests :
            /\ Busy(r) /\ ~Busy(r)' /\ k \in req[r].rows
            /\ req[r].kind = "remove" \/ ~ByNameIn(req[r].copy[k])]_vars

\* No permission that counts is left with a deleted group, which would keep it
\* enabled (update_enabled_status counts groups without looking at is_deleted):
\* true as long as no two requests overlap.
DeletedGroupsUnlinked ==
  overlaps = 0 => \A k \in Keys : Held(k) => GroupsOf(k) \cap gone = {}

\* A deleted item leaves no permission behind that get_user_permission_level would
\* find; again as long as no two requests overlap.
DeletedItemUnshared == overlaps = 0 /\ ~live => \A k \in Keys : ~Held(k)

\* What is deleted, group or item, gives access to nobody.
DeletedGivesNothing == DeletedGroupsUnlinked /\ DeletedItemUnshared

\* Members of a group are alike: what a group's owner shared with it, each of its
\* members has and nobody else, although sharing and membership change by separate
\* requests; unless one of that owner's permissions was switched off by name.
MembersShareAlike ==
  overlaps = 0 /\ live => \A g \in Groups : GroupOwner[g] \notin ousted =>
    \A u \in Users :
      LET owners == <<GroupOwner[g], GroupOwner[g]>>
          mine   == <<GroupOwner[g], u>>
      IN  /\ <<mine, g>> \in links <=> <<owners, g>> \in links /\ u \in members[g]
          /\ <<mine, g>> \in links => g \notin gone /\ Enabled(mine)

\* Only a request that shares gives access: nothing that takes a group away from a
\* permission, or a member out of a group, may enable it again.  No run states it,
\* because the code does not keep it: see "Disagreements" in the README.
RevokingNeverGrants ==
  [][\A k \in Keys : ~Enabled(k) /\ Enabled(k)' =>
       \E r \in Requests : Busy(r) /\ ~Busy(r)' /\ req[r].kind \in Granting]_vars
=============================================================================
