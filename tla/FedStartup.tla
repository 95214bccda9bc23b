----------------------------- MODULE FedStartup -----------------------------
(***************************************************************************)
(* How the sync services of several sites start, restart and find each     *)
(* other (federation main.py lifespan, services/bootstrap.py,              *)
(* routes/webhooks.py site_hello).  A start has three parts: pull the own  *)
(* gateway's export list, pull every peer's list, say hello to every peer. *)
(* The lifespan runs them BEFORE the server answers requests; a peer that  *)
(* receives a hello registers the caller and pulls the caller's list.      *)
(*                                                                         *)
(* A site's public catalogue is its version, 0 while it is empty.          *)
(* Announcing a change to the peers that serve is one step here;           *)
(* FedReplication opens it up.  MaxVer bounds the number of changes.       *)
(***************************************************************************)
EXTENDS Naturals

CONSTANTS
  Sites,
  Peers,   \* [site -> the sites in its config.peers]
  MaxVer,  \* versions of a catalogue considered
  Faults   \* may calls fail or time out, and a bootstrap raise?

ASSUME PeersAssumption ==
  Peers \in [Sites -> SUBSET Sites] /\ \A s \in Sites : s \notin Peers[s]
ASSUME BoundAssumption == MaxVer \in Nat \ {0}
ASSUME FaultAssumption == Faults \in BOOLEAN

VARIABLES
  db,     \* [site -> the catalogue in its gateway's database]
  has,    \* [site -> [site -> the version of that site's catalogue it indexed]]
  phase,  \* [site -> how far its sync service has come]
  todo,   \* [site -> peers the current part of its start has not reached]
  await,  \* [site -> peers whose reply to its hello it waits for]
  known,  \* [site -> sites in its peer registry, in memory]
  asked,  \* <<p, s>>: p has requested the list of s
  lists,  \* answers received and not indexed yet
  base    \* history: [site -> [peer -> what the peer, serving and reached by every
          \* call ever since, had indexed of its own when this site started; 0 else]]

vars == <<db, has, phase, todo, await, known, asked, lists, base>>

Ver   == 0..MaxVer
Phase == {"down", "local", "pull", "hello", "up"}
List  == [to : Sites, of : Sites, ver : Ver]

PeersOf(s) == Peers[s]

\* The server accepts connections only when the lifespan has finished starting.
Serves(s) == phase[s] = "up"

\* Fault: a list is indexed without comparing stamps.
NewerAlways(old, new) == new

\* FederatedAssetIndexer.apply_asset_event: the newer stamp wins.
Newer(old, new) == IF new > old THEN new ELSE old

TypeOK ==
  /\ db \in [Sites -> Ver]
  /\ has \in [Sites -> [Sites -> Ver]]
  /\ phase \in [Sites -> Phase]
  /\ todo \in [Sites -> SUBSET Sites] /\ \A s \in Sites : s \notin todo[s]
  /\ await \in [Sites -> SUBSET Sites]
  /\ known \in [Sites -> SUBSET Sites] /\ \A s \in Sites : s \notin known[s]
  /\ asked \subseteq Sites \X Sites
  /\ lists \subseteq List
  /\ base \in [Sites -> [Sites -> Ver]]

Init ==
  /\ db = [s \in Sites |-> 0]
  /\ has = [s \in Sites |-> [t \in Sites |-> 0]]
  /\ phase = [s \in Sites |-> "down"]
  /\ todo = [s \in Sites |-> {}]
  /\ await = [s \in Sites |-> {}]
  /\ known = [s \in Sites |-> {}]
  /\ asked = {} /\ lists = {}
  /\ base = [s \in Sites |-> [t \in Sites |-> 0]]

-----------------------------------------------------------------------------
(* Catalogues change.                                                      *)

\* A public asset of s is saved.  When its sync service is up the change is indexed
\* and pushed to the peers that serve and know s; otherwise nobody hears of it, and it is
\* indexed only if the gateway still believes federation is operational.
Change(s) ==
  /\ db[s] < MaxVer
  /\ db' = [db EXCEPT ![s] = @ + 1]
  /\ \/ /\ Serves(s)
        /\ has' = [t \in Sites |->
                     IF t = s \/ (t \in PeersOf(s) /\ s \in PeersOf(t) /\ Serves(t))
                       THEN [has[t] EXCEPT ![s] = db'[s]]
                       ELSE has[t]]
     \/ /\ ~Serves(s)
        /\ has' \in {has, [has EXCEPT ![s][s] = db'[s]]}
  /\ UNCHANGED <<phase, todo, await, known, asked, lists, base>>

-----------------------------------------------------------------------------
(* Starting.                                                               *)

Pulling(s) == (\E p \in Sites : <<s, p>> \in asked) \/ (\E l \in lists : l.to = s)

Start(s) ==
  /\ phase[s] = "down"
  /\ phase' = [phase EXCEPT ![s] = "local"]
  /\ base' = [base EXCEPT ![s] = [p \in Sites |->
                  IF p \in PeersOf(s) /\ Serves(p) THEN has[p][p] ELSE 0]]
  /\ UNCHANGED <<db, has, todo, await, known, asked, lists>>

\* bootstrap_local_site: a refused request (503, see FedReplication) is logged and
\* the start goes on.
PullLocal(s) ==
  /\ phase[s] = "local"
  /\ has' \in {has, [has EXCEPT ![s][s] = db[s]]}
  /\ phase' = [phase EXCEPT ![s] = "pull"]
  /\ todo' = [todo EXCEPT ![s] = PeersOf(s)]
  /\ UNCHANGED <<db, await, known, asked, lists, base>>

\* bootstrap_all_peers: one peer after the other.
PullPeer(s, p) ==
  /\ phase[s] = "pull" /\ p \in todo[s] /\ ~Pulling(s)
  /\ asked' = asked \cup {<<s, p>>}
  /\ todo' = [todo EXCEPT ![s] = @ \ {p}]
  /\ UNCHANGED <<db, has, phase, await, known, lists, base>>

PullsDone(s) ==
  /\ phase[s] = "pull" /\ todo[s] = {} /\ ~Pulling(s)
  /\ phase' = [phase EXCEPT ![s] = "hello"]
  /\ todo' = [todo EXCEPT ![s] = PeersOf(s)]
  /\ UNCHANGED <<db, has, await, known, asked, lists, base>>

\* Fault: the first peer that does not answer ends the round of hellos.
HelloBreaks(s, p) ==
  /\ phase[s] = "hello" /\ p \in todo[s] /\ await[s] = {}
  /\ IF Serves(p) /\ s \in PeersOf(p)
       THEN /\ known' = [known EXCEPT ![p] = @ \cup {s}]
            /\ asked' = asked \cup {<<p, s>>}
            /\ await' = [await EXCEPT ![s] = {p}]
            /\ todo' = [todo EXCEPT ![s] = @ \ {p}]
       ELSE todo' = [todo EXCEPT ![s] = {}] /\ UNCHANGED <<known, asked, await>>
  /\ UNCHANGED <<db, has, phase, lists, base>>

\* Fault: a hello is repeated until the peer answers it.
HelloInsists(s, p) ==
  /\ phase[s] = "hello" /\ p \in todo[s] /\ await[s] = {}
  /\ todo' = [todo EXCEPT ![s] = @ \ {p}]
  /\ Serves(p) /\ s \in PeersOf(p)
  /\ known' = [known EXCEPT ![p] = @ \cup {s}]
  /\ asked' = asked \cup {<<p, s>>}
  /\ await' = [await EXCEPT ![s] = {p}]
  /\ UNCHANGED <<db, has, phase, lists, base>>

\* register_with_peers; a serving peer that has the caller in its own configuration
\* registers it and requests its list before it replies (site_hello).
Hello(s, p) ==
  /\ phase[s] = "hello" /\ p \in todo[s] /\ await[s] = {}
  /\ todo' = [todo EXCEPT ![s] = @ \ {p}]
  /\ \/ /\ Serves(p) /\ s \in PeersOf(p)
        /\ known' = [known EXCEPT ![p] = @ \cup {s}]
        /\ asked' = asked \cup {<<p, s>>}
        /\ await' = [await EXCEPT ![s] = {p}]
        /\ UNCHANGED base
     \/ /\ ~Serves(p) \/ s \notin PeersOf(p) \/ Faults
        /\ base' = [base EXCEPT ![s][p] = 0]
        /\ UNCHANGED <<known, asked, await>>
  /\ UNCHANGED <<db, has, phase, lists>>

\* The handler of the hello of s at p is still pulling.
Backfilling(p, s) ==
  Serves(p) /\ (<<p, s>> \in asked \/ \E l \in lists : l.to = p /\ l.of = s)

\* The peer has replied, has gone, or the call timed out.
Replied(s) ==
  /\ \E p \in await[s] : Faults \/ ~Backfilling(p, s)
  /\ await' = [await EXCEPT ![s] = {}]
  /\ UNCHANGED <<db, has, phase, todo, known, asked, lists, base>>

\* The subscriber is created, the lifespan yields and the server starts to answer.
Up(s) ==
  /\ phase[s] = "hello" /\ todo[s] = {} /\ await[s] = {}
  /\ phase' = [phase EXCEPT ![s] = "up"]
  /\ UNCHANGED <<db, has, todo, await, known, asked, lists, base>>

\* Anything but an HTTP error leaves run_bootstrap; the lifespan logs it and goes on
\* to serve.
BootstrapRaises(s) ==
  /\ Faults
  /\ phase[s] \in {"local", "pull", "hello"}
  /\ phase' = [phase EXCEPT ![s] = "up"]
  /\ todo' = [todo EXCEPT ![s] = {}]
  /\ await' = [await EXCEPT ![s] = {}]
  /\ asked' = {a \in asked : a[1] # s}
  /\ lists' = {l \in lists : l.to # s}
  /\ base' = [base EXCEPT ![s] = [p \in Sites |-> 0]]
  /\ UNCHANGED <<db, has, known>>

\* The registry and every call in progress are in memory.
Stop(s) ==
  /\ phase[s] # "down"
  /\ phase' = [phase EXCEPT ![s] = "down"]
  /\ todo' = [todo EXCEPT ![s] = {}]
  /\ await' = [await EXCEPT ![s] = {}]
  /\ known' = [known EXCEPT ![s] = {}]
  /\ asked' = {a \in asked : a[1] # s}
  /\ lists' = {l \in lists : l.to # s}
  /\ base' = [t \in Sites |-> [base[t] EXCEPT ![s] = 0]]
  /\ UNCHANGED <<db, has>>

-----------------------------------------------------------------------------
(* Pulling a list, from bootstrap_peer_sync_list in either role.           *)

\* Fault: a peer that does not answer ends the loop over the peers.
AnswerBreaks(p, s) ==
  /\ <<p, s>> \in asked
  /\ asked' = asked \ {<<p, s>>}
  /\ \/ /\ Serves(s)
        /\ lists' = lists \cup {[to |-> p, of |-> s, ver |-> has[s][s]]}
        /\ UNCHANGED todo
     \/ /\ ~Serves(s) \/ Faults
        /\ todo' = [todo EXCEPT ![p] = {}]
        /\ UNCHANGED lists
  /\ UNCHANGED <<db, has, phase, await, known, base>>

\* s answers with what its own index holds, or the request of p fails.
Answer(p, s) ==
  /\ <<p, s>> \in asked
  /\ asked' = asked \ {<<p, s>>}
  /\ \/ /\ Serves(s)
        /\ lists' = lists \cup {[to |-> p, of |-> s, ver |-> has[s][s]]}
        /\ UNCHANGED base
     \/ /\ ~Serves(s) \/ Faults
        /\ base' = [base EXCEPT ![p][s] = 0]
        /\ UNCHANGED lists
  /\ UNCHANGED <<db, has, phase, todo, await, known>>

\* _index_export_docs.
IndexList(l) ==
  /\ l \in lists
  /\ lists' = lists \ {l}
  /\ has' = [has EXCEPT ![l.to][l.of] = Newer(@, l.ver)]
  /\ UNCHANGED <<db, phase, todo, await, known, asked, base>>

-----------------------------------------------------------------------------
Starting(s) ==
  \/ PullLocal(s) \/ PullsDone(s) \/ Replied(s) \/ Up(s)
  \/ \E p \in Sites : PullPeer(s, p) \/ Hello(s, p)

Calls(s) == (\E p \in Sites : Answer(s, p)) \/ \E l \in lists : l.to = s /\ IndexList(l)

Next == \E s \in Sites :
  Change(s) \/ Start(s) \/ Stop(s) \/ Starting(s) \/ BootstrapRaises(s) \/ Calls(s)

Spec == Init /\ [][Next]_vars

\* A start that has begun goes on, and a request ends one way or the other; nothing
\* need change, start, stop or raise.
FairSpec == Spec /\ \A s \in Sites : WF_vars(Starting(s)) /\ WF_vars(Calls(s))

-----------------------------------------------------------------------------
\* A list that was fetched before an event arrived does not undo the event, and no
\* restart loses a version: copies only ever move forward.
NeverBackwards == [][\A s, t \in Sites : has'[s][t] >= has[s][t]]_vars

\* A site that has started knows, of every peer that has served all the while, at
\* least the catalogue that peer had when the start began; what other peers did in
\* the meantime does not matter.
StartLearns ==
  \A s, p \in Sites : Serves(s) => has[s][p] >= base[s][p]

\* ... and is in the registry of each such peer.
StartRegisters ==
  \A s, p \in Sites : (Serves(s) /\ base[s][p] > 0) => s \in known[p]

\* No site waits for another one for ever, whatever starts, stops or fails.
StartupEnds == \A s \in Sites : phase[s] = "local" ~> phase[s] \in {"up", "down"}

\* The reply to a hello means that the peer has the caller's catalogue.  No run states
\* it, because the code does not keep it: see "Disagreements" in the README.
HelloBackfills ==
  [][\A s \in Sites : \A p \in await[s] :
       (Replied(s) /\ Serves(p)) => has[p][s] >= has[s][s]]_vars
=============================================================================
