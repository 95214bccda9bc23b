----------------------------- MODULE CaptureIndex -----------------------------
(***************************************************************************)
(* Captures of one type in PostgreSQL and their documents in OpenSearch:   *)
(* the requests that create, reindex and delete a capture                  *)
(* (api_methods/views/capture_endpoints.py, helpers/index_handling.py) and *)
(* the commands that replace the index (management/commands/               *)
(* replace_index.py) and that repair it when the gateway is deployed       *)
(* (init_indices.py).                                                      *)
(*                                                                         *)
(* A request is a transaction of the database; what it writes into         *)
(* OpenSearch is not part of it.  Every call to OpenSearch and every query *)
(* of the command is a step, between which requests run, the command can   *)
(* be stopped, or the next call fails.  Of two captures of one place the   *)
(* smaller number counts as the older one.                                 *)
(*                                                                         *)
(* The usual names start with CI: Captures_proofs extends Visualization,   *)
(* too.                                                                    *)
(***************************************************************************)
EXTENDS Naturals, FiniteSets

CONSTANTS
  MaxCaptures,
  Place,        \* [Captures -> owner, channel and directory (or scan group)]
  Slipped,      \* captures whose creation does not find others of their place: RadioHound
                \* ones without a scan group, DigitalRF ones whose directory is spelled
                \* otherwise than the check spells it
  Requests,     \* requests that can be in flight at the same time
  MaxRequests,  \* bound: how many requests start
  MaxFailures,  \* bound on calls that fail and on commands that are stopped
  MaxCommands   \* bound: how often the index is replaced

Captures == 1 .. MaxCaptures

ASSUME LimitAssumption == /\ MaxCaptures \in Nat /\ MaxRequests \in Nat
                          /\ MaxFailures \in Nat /\ MaxCommands \in Nat
ASSUME PlaceAssumption == DOMAIN Place = Captures /\ Slipped \subseteq Captures

VARIABLES
  type,      \* CaptureType of these captures
  row,       \* [capture -> state of its row]
  emptied,   \* captures of which all files are deleted
  docs,      \* [capture -> state of its document in the index]
  there,     \* does the index exist?
  blocked,   \* are writes to it blocked?
  backups,   \* backup indices: documents as they were
  req,       \* [request -> what it is doing]
  cmd,       \* the command
  started, commands, failures, \* how many requests, commands and failures so far
  crossed,   \* captures with a request beside another one or beside the command (history)
  hurt       \* captures with a request or a command that failed (history)

index   == <<docs, there, blocked, backups>>
counts  == <<started, commands, failures>>
civars == <<type, row, emptied, index, req, cmd, counts, crossed, hurt>>

Rows == {"unborn", "live", "deleted", "erased"}
Docs == {"none", "live", "deleted"}
Empty == [c \in Captures |-> "none"]
Size(d) == Cardinality({c \in Captures : d[c] # "none"})
Live == {c \in Captures : row[c] = "live"}
\* Live captures of which an older one has the same place.
Duplicates == {c \in Live : \E b \in Live : b < c /\ Place[b] = Place[c]}

Idle  == [op |-> "idle", c |-> 0, seen |-> FALSE, written |-> FALSE]
NoCmd == [pc |-> "off", todo |-> {}, swept |-> {}, copy |-> Empty, beside |-> {}]
Off   == cmd.pc = "off"
\* The calls within the try of handle(), whose errors lead to a rollback.
Tried == {"recreate", "create", "list", "reindex", "sweep", "verify", "ask", "reset", "unset"}
CommandSteps == {"off", "dedup", "erase", "clone", "count", "rollback", "restore"} \cup Tried

CIInit ==
  /\ type \in {"drf", "rh"}
  /\ row \in [Captures -> {"unborn", "live", "deleted"}]
  /\ emptied \in SUBSET Live
  /\ docs = [c \in Captures |-> CASE row[c] = "live" -> "live"
                                  [] row[c] = "deleted" -> "deleted"
                                  [] row[c] = "unborn" -> "none"]
  /\ there = TRUE /\ blocked = FALSE /\ backups = {}
  /\ req = [r \in Requests |-> Idle]
  /\ cmd = NoCmd
  /\ started = 0 /\ commands = 0 /\ failures = 0
  /\ crossed = {} /\ hurt = {}

Fault == failures < MaxFailures /\ failures' = failures + 1

-----------------------------------------------------------------------------
(* Requests *)

On(c) == {r \in Requests : req[r].op # "idle" /\ req[r].c = c}
InFlight == {c \in Captures : On(c) # {}}
\* soft_delete() has updated the row, which stays locked until the request ends.
Locked(c) == \E r \in On(c) : req[r].op = "destroy"

\* What a request finds in the database when it starts.
MayStart(op, c) ==
  IF op = "create"
  THEN /\ row[c] = "unborn" /\ On(c) = {}
       /\ c \in Slipped \/ \A b \in Live : Place[b] # Place[c]
  ELSE row[c] = "live" /\ ~Locked(c)

Start(r, op, c) ==
  /\ req[r] = Idle /\ started < MaxRequests /\ MayStart(op, c)
  /\ req' = [req EXCEPT ![r] = [Idle EXCEPT !.op = op, !.c = c]]
  /\ started' = started + 1
  /\ crossed' = IF On(c) # {} \/ ~Off THEN crossed \cup {c} ELSE crossed
  /\ cmd' = IF Off THEN cmd ELSE [cmd EXCEPT !.beside = @ \cup {c}]
  /\ UNCHANGED <<type, row, emptied, index, commands, failures, hurt>>

\* index_capture_metadata looks whether the index exists, once the metadata are read.
See(r) ==
  /\ req[r].op \in {"create", "update"} /\ ~req[r].seen
  /\ there /\ req[r].c \notin emptied
  /\ req' = [req EXCEPT ![r].seen = TRUE]
  /\ UNCHANGED <<type, row, emptied, index, cmd, counts, crossed, hurt>>

\* The call that writes.  OpenSearch creates an index that was deleted since, with this
\* document only.  destroy() does not look, and ignores a document that is not there;
\* whether its update creates the index is up to OpenSearch.
NewDoc(r) == IF req[r].op # "destroy" THEN "live"
             ELSE IF docs[req[r].c] = "none" THEN "none" ELSE "deleted"
Write(r) ==
  /\ req[r].op # "idle" /\ ~req[r].written
  /\ (req[r].op = "destroy" \/ req[r].seen) /\ ~blocked
  /\ docs' = [docs EXCEPT ![req[r].c] = NewDoc(r)]
  /\ there' \in IF req[r].op = "destroy" THEN {there, TRUE} ELSE {TRUE}
  /\ req' = [req EXCEPT ![r].written = TRUE]
  /\ UNCHANGED <<type, row, emptied, blocked, backups, cmd, counts, crossed, hurt>>

EndRequest(r) == req' = [req EXCEPT ![r] = Idle]

CommitRequest(r) ==
  /\ req[r].written
  /\ row' = CASE req[r].op = "create"  -> [row EXCEPT ![req[r].c] = "live"]
              [] req[r].op = "destroy" -> [row EXCEPT ![req[r].c] = "deleted"]
              [] req[r].op = "update"  -> row
  /\ EndRequest(r)
  /\ UNCHANGED <<type, emptied, index, cmd, counts, crossed, hurt>>

\* The row of a capture that is not created is rolled back, and its number never used again.
Discarded(r) == IF req[r].op = "create" THEN [row EXCEPT ![req[r].c] = "erased"] ELSE row

\* Unreadable metadata, or an index that is missing or blocked: nothing is written.
Refuse(r) ==
  /\ req[r].op # "idle" /\ ~req[r].written
  /\ req[r].op = "destroy" \/ req[r].seen => blocked
  /\ row' = Discarded(r)
  /\ EndRequest(r)
  /\ UNCHANGED <<type, emptied, index, cmd, counts, crossed, hurt>>

\* An error after the write: no files to connect, or an answer of OpenSearch that is lost.
Fail(r) ==
  /\ req[r].written
  /\ Fault
  /\ row' = Discarded(r)
  /\ hurt' = hurt \cup {req[r].c}
  /\ EndRequest(r)
  /\ UNCHANGED <<type, emptied, index, cmd, started, commands, crossed>>

-----------------------------------------------------------------------------
(* replace_index *)

Goto(pc) == cmd' = [cmd EXCEPT !.pc = pc]
Quit == cmd' = NoCmd
Rest == <<type, emptied, req, started>>

Replace ==
  /\ Off /\ commands < MaxCommands
  /\ commands' = commands + 1
  /\ cmd' = [NoCmd EXCEPT !.pc = "dedup", !.todo = Duplicates, !.beside = InFlight]
  /\ crossed' = crossed \cup InFlight
  /\ UNCHANGED <<Rest, row, index, failures, hurt>>

\* delete_duplicate_captures_and_doc_refs: the document, if there is one, then the row.
\* The command ends when the index refuses.
DeleteDuplicate ==
  /\ cmd.pc = "dedup"
  /\ \E c \in cmd.todo :
       IF blocked /\ docs[c] # "none"
       THEN Quit /\ UNCHANGED docs
       ELSE /\ docs' = [docs EXCEPT ![c] = "none"]
            /\ cmd' = [cmd EXCEPT !.pc = "erase", !.swept = {c}]
  /\ UNCHANGED <<Rest, row, there, blocked, backups, commands, failures, crossed, hurt>>

EraseDuplicate ==
  /\ cmd.pc = "erase" /\ \A c \in cmd.swept : ~Locked(c)
  /\ row' = [c \in Captures |-> IF c \in cmd.swept THEN "erased" ELSE row[c]]
  /\ cmd' = [cmd EXCEPT !.pc = "dedup", !.todo = @ \ cmd.swept, !.swept = {}]
  /\ UNCHANGED <<Rest, index, commands, failures, crossed, hurt>>

\* offer_backup_restoration: the document count it takes for a backup is that of the
\* index itself, so there is never a candidate, and nothing is offered.
BackupCount(b) == Size(docs)
Candidates == {b \in backups : BackupCount(b) > Size(docs)}

\* _clone_index blocks writes, once no backup is left to offer.
Block ==
  /\ cmd.pc = "dedup" /\ cmd.todo = {} /\ Candidates = {}
  /\ IF there THEN Goto("clone") ELSE Quit
  /\ blocked' = there
  /\ UNCHANGED <<Rest, row, docs, there, backups, commands, failures, crossed, hurt>>

\* Fault: one backup is kept, the first.
BackupOnce == IF backups = {} THEN {docs} ELSE backups

Backup == backups \cup {docs}

Clone ==
  /\ cmd.pc = "clone"
  /\ backups' = Backup
  /\ cmd' = [cmd EXCEPT !.pc = "count", !.copy = docs]
  /\ blocked' = FALSE
  /\ UNCHANGED <<Rest, row, docs, there, commands, failures, crossed, hurt>>

\* The number of documents in the backup is compared with that in the index.
Count ==
  /\ cmd.pc = "count"
  /\ IF Size(docs) = Size(cmd.copy) THEN Goto("recreate") ELSE Quit
  /\ UNCHANGED <<Rest, row, index, commands, failures, crossed, hurt>>

DropIndex == docs' = Empty /\ there' = FALSE /\ UNCHANGED <<blocked, backups>>

Recreate ==
  /\ cmd.pc = "recreate"
  /\ DropIndex /\ Goto("create")
  /\ UNCHANGED <<Rest, row, commands, failures, crossed, hurt>>

\* The call fails when a request has made OpenSearch create the index.
Create ==
  /\ cmd.pc = "create"
  /\ IF there THEN Goto("rollback") ELSE Goto("list")
  /\ there' = TRUE
  /\ UNCHANGED <<Rest, row, docs, blocked, backups, commands, failures, crossed, hurt>>

\* The captures are read once: what happens to their rows later is not looked at.
List ==
  /\ cmd.pc = "list"
  /\ cmd' = [cmd EXCEPT !.pc = "reindex", !.todo = Live]
  /\ UNCHANGED <<Rest, row, index, commands, failures, crossed, hurt>>

\* _reindex_single_capture.  Without files there is no metadata: RadioHound captures
\* are skipped then, DigitalRF ones raise a ValueError that ends the replacement.
ReindexOne ==
  /\ cmd.pc = "reindex"
  /\ \E c \in cmd.todo :
       IF c \notin emptied
       THEN /\ docs' = [docs EXCEPT ![c] = "live"]
            /\ cmd' = [cmd EXCEPT !.todo = @ \ {c}]
       ELSE /\ UNCHANGED docs
            /\ cmd' = IF type = "rh" THEN [cmd EXCEPT !.todo = @ \ {c}]
                      ELSE [cmd EXCEPT !.pc = "rollback", !.todo = {}]
  /\ UNCHANGED <<Rest, row, there, blocked, backups, commands, failures, crossed, hurt>>

\* _delete_captures_with_only_missing_files: the documents, then the rows.
Sweep ==
  /\ cmd.pc = "reindex" /\ cmd.todo = {}
  /\ cmd' = [cmd EXCEPT !.pc = "sweep", !.todo = Live \cap emptied,
                          !.swept = Live \cap emptied]
  /\ UNCHANGED <<Rest, row, index, commands, failures, crossed, hurt>>

SweepDoc ==
  /\ cmd.pc = "sweep"
  /\ \E c \in cmd.todo : /\ docs' = [docs EXCEPT ![c] = "none"]
                         /\ cmd' = [cmd EXCEPT !.todo = @ \ {c}]
  /\ UNCHANGED <<Rest, row, there, blocked, backups, commands, failures, crossed, hurt>>

SweepRows ==
  /\ cmd.pc = "sweep" /\ cmd.todo = {} /\ \A c \in cmd.swept : ~Locked(c)
  /\ row' = [c \in Captures |-> IF c \in cmd.swept THEN "erased" ELSE row[c]]
  /\ Goto("verify")
  /\ UNCHANGED <<Rest, index, commands, failures, crossed, hurt>>

\* Fault: captures without a document are not looked for.
AgreesOneWay == {c \in Captures : docs[c] # "none"} \subseteq Live

\* _was_reindexing_successful compares the live captures with the documents.
Agrees == Live = {c \in Captures : docs[c] # "none"}
Verify ==
  /\ cmd.pc = "verify"
  /\ IF Agrees
     THEN Quit /\ crossed' = crossed \cap cmd.beside /\ hurt' = hurt \cap cmd.beside
     ELSE Goto("ask") /\ UNCHANGED <<crossed, hurt>>
  /\ UNCHANGED <<Rest, row, index, commands, failures>>

\* The operator keeps the index or has it rolled back.
Ask ==
  /\ cmd.pc = "ask"
  /\ Quit \/ Goto("reset")
  /\ UNCHANGED <<Rest, row, index, commands, failures, crossed, hurt>>

\* rollback_index deletes the index, which must be there, and clones the backup: asked
\* for by the operator ("reset", "unset"), or after an error ("rollback", "restore").
Rollback ==
  /\ cmd.pc \in {"reset", "rollback"}
  /\ IF there
     THEN DropIndex /\ Goto(IF cmd.pc = "reset" THEN "unset" ELSE "restore")
     ELSE Quit /\ UNCHANGED index
  /\ UNCHANGED <<Rest, row, commands, failures, crossed, hurt>>

\* _clone_index refuses to clone over an index that a request has made OpenSearch create:
\* the documents stay in the backup.  Otherwise those of captures that were swept are
\* back, without their rows.  Whether the clone of a blocked backup is blocked itself is
\* up to OpenSearch.
Restore ==
  /\ cmd.pc \in {"unset", "restore"}
  /\ IF there
     THEN UNCHANGED <<docs, blocked>> /\ hurt' = Captures
     ELSE docs' = cmd.copy /\ blocked' \in BOOLEAN /\ hurt' = hurt \cup cmd.swept
  /\ there' = TRUE
  /\ Quit
  /\ UNCHANGED <<Rest, row, backups, commands, failures, crossed>>

\* A call fails.  Within the try the index is rolled back, elsewhere the command ends;
\* the write block is always taken back.
CallFails ==
  /\ ~Off /\ Fault
  /\ IF cmd.pc \in Tried THEN cmd' = [cmd EXCEPT !.pc = "rollback", !.todo = {}] ELSE Quit
  /\ blocked' = IF cmd.pc = "clone" THEN FALSE ELSE blocked
  /\ hurt' = Captures
  /\ UNCHANGED <<Rest, row, docs, there, backups, commands, crossed>>

\* Reindexing one capture fails, and is skipped, before or after its document is written.
SkipOne ==
  /\ cmd.pc = "reindex" /\ Fault
  /\ \E c \in cmd.todo :
       /\ docs' = docs \/ (c \notin emptied /\ docs' = [docs EXCEPT ![c] = "live"])
       /\ cmd' = [cmd EXCEPT !.todo = @ \ {c}]
       /\ hurt' = hurt \cup {c}
  /\ UNCHANGED <<Rest, row, there, blocked, backups, commands, crossed>>

\* The command is stopped, and rolls nothing back.
Stop ==
  /\ ~Off /\ Fault
  /\ Quit
  /\ hurt' = Captures
  /\ UNCHANGED <<Rest, row, index, commands, crossed>>

\* init_indices, when the gateway is deployed: the index exists and is not blocked.
InitIndices ==
  /\ Off /\ (~there \/ blocked)
  /\ there' = TRUE /\ blocked' = FALSE
  /\ UNCHANGED <<Rest, row, docs, backups, cmd, commands, failures, crossed, hurt>>

Request(r) ==
  \/ \E op \in {"create", "update", "destroy"}, c \in Captures : Start(r, op, c)
  \/ See(r) \/ Write(r) \/ CommitRequest(r) \/ Refuse(r) \/ Fail(r)

Command ==
  \/ Replace \/ DeleteDuplicate \/ EraseDuplicate \/ Block \/ Clone \/ Count
  \/ Recreate \/ Create \/ List \/ ReindexOne \/ Sweep \/ SweepDoc \/ SweepRows
  \/ Verify \/ Ask \/ Rollback \/ Restore \/ CallFails \/ SkipOne \/ Stop

CINext == (\E r \in Requests : Request(r)) \/ Command \/ InitIndices

CISpec == CIInit /\ [][CINext]_civars

-----------------------------------------------------------------------------
(* Properties *)

CITypeOK ==
  /\ type \in {"drf", "rh"} /\ row \in [Captures -> Rows] /\ emptied \subseteq Captures
  /\ docs \in [Captures -> Docs] /\ there \in BOOLEAN /\ blocked \in BOOLEAN
  /\ backups \subseteq [Captures -> Docs]
  /\ req \in [Requests -> {Idle} \cup [op : {"create", "update", "destroy"}, c : Captures,
                                       seen : BOOLEAN, written : BOOLEAN]]
  /\ cmd \in [pc : CommandSteps, todo : SUBSET Captures, swept : SUBSET Captures,
              copy : [Captures -> Docs], beside : SUBSET Captures]
  /\ started \in 0 .. MaxRequests /\ commands \in 0 .. MaxCommands
  /\ failures \in 0 .. MaxFailures
  /\ crossed \subseteq Captures /\ hurt \subseteq Captures

\* At rest the index finds a capture exactly if it is live, but for captures that were
\* touched by two requests at once or by a failure since the last successful replacement.
AtRest(c) == Off /\ On(c) = {} /\ c \notin crossed \cup hurt
FoundIfLive == \A c \in Captures : AtRest(c) => (docs[c] = "live" <=> c \in Live)

\* Wherever the command is stopped and whatever fails, the document of a live capture is
\* still in the index or in a backup, unless the capture was found to be a duplicate when
\* the command started, or requests ran beside it.  A rollback gives up what the
\* replacement has indexed and the backup does not have.
Kept(c) == docs[c] # "none" \/ \E b \in backups : b[c] # "none"
GivenUp(c) == \/ cmd.pc = "dedup" /\ c \in cmd.todo
              \/ cmd.pc \in {"reset", "rollback"} /\ cmd.copy[c] = "none"
NothingLost ==
  [][\A c \in Live : Kept(c) /\ row'[c] = "live"
       => Kept(c)' \/ GivenUp(c) \/ c \in crossed']_civars

\* What replace_index.py says of offer_backup_restoration: a backup that has more
\* documents than the index is offered before the index is replaced.  No run states it,
\* because the code does not keep it: see "Disagreements" in the README.
RestoreOffered ==
  [][cmd.pc = "dedup" /\ cmd'.pc = "clone" => \A b \in backups : Size(b) <= Size(docs)]_civars
=============================================================================
