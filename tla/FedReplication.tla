--------------------------- MODULE FedReplication ---------------------------
(***************************************************************************)
(* How a change to an asset travels from the gateway of its owner site to  *)
(* the copies its peers keep:                                              *)
(*                                                                         *)
(*   database row --on_commit--> fed-* document --Redis pub/sub--> sync    *)
(*   service of the owner --webhook--> sync service of each peer           *)
(*                                                                         *)
(* (gateway api_methods/federation/{signals,reindex,fed_index,events}.py,  *)
(* federation services/{local_events,peer_sync,bootstrap}.py).  One asset: *)
(* assets share nothing but the queue of the subscriber.  A peer's own     *)
(* indexing is one step here; FedIndexer opens it up, and its theorem      *)
(* RegisterRefined says when taking it as one step is justified.           *)
(*                                                                         *)
(* A body is the version of the exported content (ver), the row's          *)
(* updated_at (at) and its status.  updated_at is taken to grow in the     *)
(* order of the commits; MaxVer bounds the number of changes.              *)
(***************************************************************************)
EXTENDS Naturals, Sequences

CONSTANTS
  Peers,          \* the peers of the owner site (config.peers)
  Workers,        \* gateway threads and tasks that save assets
  MaxVer,         \* changes considered
  TicksPerSecond, \* clock ticks in the one second export timestamps resolve
  Relinks,        \* may the export change without a save of the row?
  Faults,         \* may OpenSearch, Redis and peers fail single calls?
  Restarts        \* may sync services stop and start?

ASSUME SizeAssumption == MaxVer \in Nat \ {0} /\ TicksPerSecond \in Nat \ {0}
ASSUME FlagAssumption == {Relinks, Faults, Restarts} \subseteq BOOLEAN

VARIABLES
  row,      \* the asset in the gateway's database
  pc,       \* [worker -> next step of the on_commit callback it runs]
  body,     \* [worker -> the row its save is to write, or its callback has read]
  doc,      \* the owner's fed-* document in OpenSearch
  chan,     \* event timestamps delivered to the subscriber and not yet handled
  alive,    \* has the subscriber task not died of an exception?
  msg,      \* the payload the subscriber pushes
  todo,     \* the peers it still has to push it to
  syncUp,   \* is the owner's sync service running?
  operational, \* [worker -> its process believes federation is operational]
  peerUp,   \* [peer -> is its sync service running?]
  peer,     \* [peer -> the document it keeps of the asset]
  \* History, for the properties only; all but the first are sets of updated_at.
  published, \* has the asset ever been public?
  stale,    \* saves that wrote over a row changed since clean() had looked
  met,      \* saves committed while the callback of another one was running
  unsaid    \* changes that no event of their own tells from the one before

services == <<alive, msg, todo, syncUp, operational, peerUp, peer>>
history  == <<published, stale, met, unsaid>>
vars     == <<row, pc, body, doc, chan, services, history>>

Ver      == 0..MaxVer
Tick     == 0..MaxVer + TicksPerSecond
RowState == {"draft", "public", "deleted"}
Row      == [status : RowState, ver : Ver, at : Tick]
Doc      == [status : RowState \cup {"none"}, ver : Ver, at : Tick, stamp : Tick]
NoDoc    == [status |-> "none", ver |-> 0, at |-> 0, stamp |-> 0]

\* The body compiled from row r, stamped with federation_event_at t.
Stamped(r, t) == [status |-> r.status, ver |-> r.ver, at |-> r.at, stamp |-> t]

\* updated_at is exported with "%Y-%m-%d %H:%M:%S%z": the fraction is cut off.
ToSecond(t) == t - (t % TicksPerSecond)

TypeOK ==
  /\ row \in Row
  /\ pc \in [Workers -> {"idle", "save", "fresh", "decide", "index", "publish"}]
  /\ body \in [Workers -> Row]
  /\ doc \in Doc
  /\ chan \in Seq(Tick)
  /\ alive \in BOOLEAN
  /\ msg \in Doc
  /\ todo \subseteq Peers
  /\ syncUp \in BOOLEAN
  /\ operational \in [Workers -> BOOLEAN]
  /\ peerUp \in [Peers -> BOOLEAN]
  /\ peer \in [Peers -> Doc]
  /\ published \in BOOLEAN
  /\ stale \subseteq Tick /\ met \subseteq Tick /\ unsaid \subseteq Tick

\* The clock has left the second 0, the stamp of what is not there.
Init ==
  /\ row = [status |-> "draft", ver |-> 1, at |-> TicksPerSecond]
  /\ pc = [w \in Workers |-> "idle"]
  /\ body = [w \in Workers |-> row]
  /\ doc = NoDoc
  /\ chan = <<>>
  /\ alive = TRUE
  /\ msg = NoDoc
  /\ todo = {}
  /\ syncUp = TRUE
  /\ operational = [w \in Workers |-> TRUE]
  /\ peerUp = [p \in Peers |-> TRUE]
  /\ peer = [p \in Peers |-> NoDoc]
  /\ published = FALSE
  /\ stale = {} /\ met = {} /\ unsaid = {}

-----------------------------------------------------------------------------
(* The gateway.                                                            *)

Busy(w) == pc[w] # "idle"
Runs(w) == pc[w] \in {"fresh", "decide", "index", "publish"}

\* refresh_federation_operational_state: a process asks the sync service for its
\* health at most once a minute, so what it believes may be out of date.
Probe(w) ==
  /\ operational' = [operational EXCEPT ![w] = syncUp /\ alive]
  /\ UNCHANGED <<row, pc, body, doc, chan, alive, msg, todo, syncUp, peerUp, peer, history>>

\* What Dataset.clean lets a save make of a row: a published asset cannot be
\* withdrawn, only soft deleted; requests do not load deleted rows.
Permitted == {<<"draft", "draft">>, <<"draft", "public">>, <<"public", "public">>,
              <<"draft", "deleted">>, <<"public", "deleted">>}

\* Fault: clean() compares nothing.
LookUnchecked(w, s) ==
  /\ ~Busy(w)
  /\ row.status # "deleted"
  /\ body' = [body EXCEPT ![w] = [row EXCEPT !.status = s]]
  /\ pc' = [pc EXCEPT ![w] = "save"]
  /\ UNCHANGED <<row, doc, chan, services, history>>

\* A request loads the row, changes it and calls save(), whose clean() looks at the
\* database again.  The load counts as part of the look: an older copy is refused
\* by clean() or writes what one loaded at the look would.
Look(w, s) ==
  /\ ~Busy(w)
  /\ <<row.status, s>> \in Permitted
  /\ body' = [body EXCEPT ![w] = [row EXCEPT !.status = s]]
  /\ pc' = [pc EXCEPT ![w] = "save"]
  /\ UNCHANGED <<row, doc, chan, services, history>>

\* The request's transaction is rolled back.
Refused(w) ==
  /\ pc[w] = "save"
  /\ pc' = [pc EXCEPT ![w] = "idle"]
  /\ UNCHANGED <<row, body, doc, chan, services, history>>

\* The next version of the row.
Changed(s, t) == [status |-> s, ver |-> row.ver + 1, at |-> t]

\* A transaction of worker w commits; if it registered one, its on_commit callback
\* runs next.
Committed(w, r, callback) ==
  /\ row.ver < MaxVer
  /\ row' = r
  /\ pc' = [pc EXCEPT ![w] = IF callback THEN "fresh" ELSE "idle"]
  /\ published' = (published \/ r.status = "public")
  /\ UNCHANGED <<body, doc, chan, services>>

\* The UPDATE of every column, whatever became of the row since the look, and the
\* commit: auto_now moves updated_at, and the post_save signal has registered the
\* callback if federation is operational.
Save(w) ==
  LET t == row.at + 1
  IN  /\ pc[w] = "save"
      /\ Committed(w, Changed(body[w].status, t), operational[w])
      /\ stale' = IF body[w].ver # row.ver THEN stale \cup {t} ELSE stale
      /\ met' = IF \E v \in Workers : Runs(v) THEN met \cup {t} ELSE met
      /\ UNCHANGED unsaid

\* disconnect_captures_from_dataset: the public_dataset_ids that the capture
\* exports change, by bulk queries that leave its updated_at alone.
Relink(w) ==
  /\ Relinks
  /\ ~Busy(w)
  /\ row.status = "public"
  /\ Committed(w, Changed(row.status, row.at), TRUE)
  /\ unsaid' = unsaid \cup {row.at}
  /\ UNCHANGED <<stale, met>>

\* The callback reads the row afresh ...
Fresh(w) ==
  /\ pc[w] = "fresh"
  /\ pc' = [pc EXCEPT ![w] = "decide"]
  /\ body' = [body EXCEPT ![w] = row]
  /\ UNCHANGED <<row, doc, chan, services, history>>

\* Fault: only what may be exported is reindexed, so a deletion is not.
NeedsReindexPublic(r) == r.status = "public"

NeedsReindex(r) ==
  CASE r.status = "deleted" -> doc.status \notin {"none", "deleted"}
    [] r.status = "public"  -> TRUE
    [] r.status = "draft"   -> doc.status # "none"

\* ... asks OpenSearch whether that row needs reindexing, and compiles the body.
Decide(w) ==
  /\ pc[w] = "decide"
  /\ pc' = [pc EXCEPT ![w] = IF NeedsReindex(body[w]) /\ operational[w] THEN "index" ELSE "idle"]
  /\ unsaid' = IF {body[w].status, doc.status} = {"deleted"}
                 THEN unsaid \cup {body[w].at} ELSE unsaid
  /\ UNCHANGED <<row, body, doc, chan, services, published, stale, met>>

\* LocalFederatedIndexer.apply_local_event: an unconditional write.
IndexLocal(w) ==
  /\ pc[w] = "index"
  /\ doc' = Stamped(body[w], body[w].at)
  /\ pc' = [pc EXCEPT ![w] = "publish"]
  /\ UNCHANGED <<row, body, chan, services, history>>

\* The write raises: a warning is logged, nothing is published.
IndexLocalFails(w) ==
  /\ Faults
  /\ pc[w] = "index"
  /\ pc' = [pc EXCEPT ![w] = "idle"]
  /\ UNCHANGED <<row, body, doc, chan, services, history>>

\* Fault: only public assets are announced, a deletion is not.
PublishPublic(w) ==
  /\ pc[w] = "publish"
  /\ chan' = IF body[w].status = "public" THEN Append(chan, body[w].at)
             ELSE chan
  /\ pc' = [pc EXCEPT ![w] = "idle"]
  /\ UNCHANGED <<row, body, doc, services, history>>

\* publish_federation_event: whoever is subscribed gets the event, and nobody
\* else ever will; an error of Redis is logged and swallowed.
Publish(w) ==
  /\ pc[w] = "publish"
  /\ \/ /\ operational[w] /\ syncUp /\ alive
        /\ chan' = Append(chan, body[w].at)
     \/ /\ ~operational[w] \/ ~syncUp \/ ~alive \/ Faults
        /\ UNCHANGED chan
  /\ pc' = [pc EXCEPT ![w] = "idle"]
  /\ UNCHANGED <<row, body, doc, services, history>>

-----------------------------------------------------------------------------
(* The owner's sync service.                                               *)

SubIdle == syncUp /\ alive /\ todo = {}

\* handle_redis_asset_event: the event says when, the body is whatever OpenSearch
\* holds now.
TakeEvent ==
  /\ SubIdle /\ chan # <<>>
  /\ chan' = Tail(chan)
  /\ IF doc = NoDoc
       THEN UNCHANGED <<msg, todo>>
       ELSE msg' = Stamped(doc, Head(chan)) /\ todo' = Peers
  /\ UNCHANGED <<row, pc, body, doc, alive, syncUp, operational, peerUp, peer, history>>

\* Reading OpenSearch or the connection to Redis raises: nothing catches it, the
\* task ends and is not started again before the next restart.
SubscriberDies ==
  /\ Faults
  /\ SubIdle
  /\ chan' = <<>>
  /\ alive' = FALSE
  /\ UNCHANGED <<row, pc, body, doc, msg, todo, syncUp, operational, peerUp, peer, history>>

\* Fault: a document that is there already is left alone.
AppliedOnce(old, new) == IF old.status = "none" THEN new ELSE old

\* FederatedAssetIndexer.apply_asset_event, as one step.
Applied(old, new) == IF new.stamp > old.stamp THEN new ELSE old

\* Fault: the loop over the peers ends after the first of them.
PushFirst(p) ==
  /\ syncUp /\ p \in todo
  /\ peerUp[p]
  /\ peer' = [peer EXCEPT ![p] = Applied(@, msg)]
  /\ todo' = {}
  /\ UNCHANGED <<row, pc, body, doc, chan, alive, msg, syncUp, operational, peerUp, history>>

\* push_asset_updated_to_peers: one webhook per peer, an error is logged.
Push(p) ==
  /\ syncUp /\ p \in todo
  /\ \/ /\ peerUp[p]
        /\ peer' = [peer EXCEPT ![p] = Applied(@, msg)]
     \/ /\ ~peerUp[p] \/ Faults
        /\ UNCHANGED peer
  /\ todo' = todo \ {p}
  /\ UNCHANGED <<row, pc, body, doc, chan, alive, msg, syncUp, operational, peerUp, history>>

\* The service stops: the subscription and a half finished fan-out are gone.
OwnerStops ==
  /\ Restarts /\ syncUp
  /\ syncUp' = FALSE
  /\ chan' = <<>>
  /\ alive' = TRUE /\ msg' = NoDoc /\ todo' = {}
  /\ UNCHANGED <<row, pc, body, doc, operational, peerUp, peer, history>>

\* It starts: bootstrap_local_site applies the gateway's export list (public
\* assets, timestamps cut to the second), which the gateway refuses (503) while it
\* believes federation is not operational; then the subscriber is created.
OwnerStarts ==
  /\ ~syncUp
  /\ syncUp' = TRUE
  /\ \/ /\ \E w \in Workers : operational[w]
        /\ doc' = IF row.status = "public"
                    THEN Applied(doc, Stamped(row, ToSecond(row.at)))
                    ELSE doc
     \/ /\ Faults \/ \E w \in Workers : ~operational[w]
        /\ UNCHANGED doc
  /\ UNCHANGED <<row, pc, body, chan, alive, msg, todo, operational, peerUp, peer, history>>

-----------------------------------------------------------------------------
(* The peers.                                                              *)

PeerStops(p) ==
  /\ Restarts /\ peerUp[p]
  /\ peerUp' = [peerUp EXCEPT ![p] = FALSE]
  /\ UNCHANGED <<row, pc, body, doc, chan, alive, msg, todo, syncUp, operational, peer, history>>

\* Fault: every listed document is stamped with the time of the bootstrap.
ListedNow == Stamped(doc, MaxVer + TicksPerSecond)

\* The documents in the owner's list carry no federation_event_at; the body's
\* updated_at takes its place.
Listed == Stamped(doc, ToSecond(doc.at))

\* bootstrap_peer_sync_list when the owner answers.
PeerPulls(p) ==
  /\ ~peerUp[p] /\ syncUp
  /\ peerUp' = [peerUp EXCEPT ![p] = TRUE]
  /\ peer' = [peer EXCEPT ![p] = Applied(@, Listed)]
  /\ UNCHANGED <<row, pc, body, doc, chan, alive, msg, todo, syncUp, operational, history>>

\* ... and when it does not: the error is logged and the service starts anyway.
PeerStartsAlone(p) ==
  /\ ~peerUp[p] /\ (~syncUp \/ Faults)
  /\ peerUp' = [peerUp EXCEPT ![p] = TRUE]
  /\ UNCHANGED <<row, pc, body, doc, chan, alive, msg, todo, syncUp, operational, peer, history>>

-----------------------------------------------------------------------------
Commit(w)   == Save(w) \/ Refused(w) \/ Relink(w) \/ \E s \in RowState : Look(w, s)
Callback(w) == Fresh(w) \/ Decide(w) \/ IndexLocal(w) \/ IndexLocalFails(w) \/ Publish(w)
Fanout   == TakeEvent \/ \E p \in Peers : Push(p)
Failure  == SubscriberDies \/ OwnerStops \/ \E p \in Peers : PeerStops(p)
Recovery == OwnerStarts \/ \E p \in Peers : PeerPulls(p) \/ PeerStartsAlone(p)

Next == \/ Fanout \/ Failure \/ Recovery
        \/ \E w \in Workers : Commit(w) \/ Callback(w) \/ Probe(w)

Spec == Init /\ [][Next]_vars

\* A committed transaction runs its callback, and the subscriber takes and pushes
\* what it received; nobody has to save, to stop or to start a service.
FairSpec == Spec /\ (\A w \in Workers : WF_vars(Callback(w))) /\ WF_vars(Fanout)

-----------------------------------------------------------------------------
\* A document is current when it shows the row as it is; a site without one is
\* right as long as the asset is not public.
Current(d) == IF d = NoDoc THEN row.status # "public" ELSE d.ver = row.ver

\* The newest change is a save that an event of its own announces, and when it was
\* committed no callback was running that could still write an older body.
Told == row.at \notin met \cup unsaid

\* When no callback is running and nothing is under way any more, every peer shows
\* the asset as it is: whatever outdated saves, callbacks in the wrong order and
\* unlinked captures have done before, the next save that is told repairs it.
SettledIsCurrent ==
  ((\A w \in Workers : ~Runs(w)) /\ chan = <<>> /\ todo = {} /\ Told) =>
    \A p \in Peers : Current(peer[p])

\* ... and that state is reached: after the last change all copies converge.
Converges == <>[](Told => \A p \in Peers : Current(peer[p]))

\* The stamp by which a peer judges later events never promises more than the
\* body delivers; a peer whose stamp ran ahead of its body would refuse the very
\* event that brings the body it lacks.  Only the stamp of a save that was
\* committed while another callback was running can be such a promise.
StampHonest == \A p \in Peers : peer[p].stamp <= peer[p].at \/ peer[p].stamp \in met

\* What has never been published is in no fed-* document, at home or at a peer.  The
\* contents of a draft get into one in two ways only: an outdated save has put a
\* published asset back to draft before, or its callback was still running when a
\* later save was committed.
DraftsStayHome ==
  \A d \in {doc} \cup {peer[p] : p \in Peers} :
    /\ d # NoDoc => published
    /\ d.status = "draft" => (\E t \in stale : t <= d.at) \/ (\E t \in met : d.at < t)

\* A deleted asset, once the gateway is done with it, is not offered as public by
\* the owner's own index, which peers pull from, unless the callback of an earlier
\* save was still running when the deletion was committed.
DeletedIsWithdrawn ==
  (row.status = "deleted" /\ (\A w \in Workers : ~Runs(w)) /\ row.at \notin met) =>
    doc.status # "public"

\* A peer that starts and can reach the owner ends up with a body as recent as the
\* owner's index, whatever it missed while it was down.  That is: as recent as the
\* list can tell, whose timestamps have whole seconds; a second change within one
\* second is not noticed, nor what a stamp that StampHonest excuses hides.
BootstrapCatchesUp ==
  [][\A p \in Peers : PeerPulls(p) =>
       peer'[p].at >= ToSecond(doc.at) \/ peer[p].stamp \in met]_vars
=============================================================================
