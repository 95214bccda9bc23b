--------------------------- MODULE ResumableUpload ---------------------------
(***************************************************************************)
(* SDK.upload() of a directory: discovery, concurrent workers and the      *)
(* local record of what has been uploaded, by which a later run skips      *)
(* files without asking the server (sdk api/uploads.py, the upload part of *)
(* api/sds_files.py, the gateway's contents check).                        *)
(*                                                                         *)
(* Contents are versions 1..MaxVer; two files may have the same contents.  *)
(* One process uploads at a time, and files are deleted from the server by *)
(* this machine's SDK only, between runs: what others delete is not        *)
(* noticed, and the docs say so (capture-uploads.md).                      *)
(***************************************************************************)
EXTENDS Naturals

CONSTANTS
  Files,       \* the valid files under local_root
  NoFile,      \* "no file" of an idle worker
  Workers,     \* max_concurrent_uploads
  MaxVer,      \* contents considered
  Dests,       \* the sds_paths that runs upload to
  LiveEdits,   \* may files change while a run is in progress?
  Lapses       \* may a deletion fail to update the log?

ASSUME NoFileAssumption == NoFile \notin Files
ASSUME SizeAssumption == MaxVer \in Nat \ {0}
ASSUME FlagAssumption == {LiveEdits, Lapses} \subseteq BOOLEAN

VARIABLES
  local,    \* [file -> its contents on this machine]
  server,   \* <<f, v, d>>: the user's tree has contents v as file f under d
  log,      \* [file -> checksum in the last line about it, 0 without one]
  old,      \* files whose line is older than 30 days
  corrupt,  \* does the log have a line that does not parse?
  phase,    \* "idle", "discover" or "upload"
  dest,     \* the sds_path of the run
  unseen,   \* files the discovery has not examined
  found,    \* fq_discovered
  pending,  \* fq_pending
  done,     \* fq_completed
  failed,   \* fq_failed
  step,     \* [worker -> what it does next]
  job,      \* [worker -> the file it works on]; they make up fq_in_progress
  sum       \* [worker -> the checksum it has sent to the contents check]

run  == <<phase, dest, unseen, found, pending, done, failed>>
work == <<step, job, sum>>
vars == <<local, server, log, old, corrupt, run, work>>

Contents == 1..MaxVer
None     == 0

TypeOK ==
  /\ local \in [Files -> Contents]
  /\ server \subseteq Files \X Contents \X Dests
  /\ log \in [Files -> Contents \cup {None}]
  /\ old \subseteq Files
  /\ corrupt \in BOOLEAN
  /\ phase \in {"idle", "discover", "upload"}
  /\ dest \in Dests
  /\ {unseen, found, pending, done, failed} \subseteq SUBSET Files
  /\ step \in [Workers -> {"idle", "check", "send", "reuse", "done", "save"}]
  /\ job \in [Workers -> Files \cup {NoFile}]
  /\ sum \in [Workers -> Contents \cup {None}]

Init ==
  /\ local = [f \in Files |-> 1]
  /\ server = {}
  /\ log = [f \in Files |-> None]
  /\ old = {}
  /\ corrupt = FALSE
  /\ phase = "idle" /\ dest \in Dests
  /\ unseen = {} /\ found = {} /\ pending = {} /\ done = {} /\ failed = {}
  /\ step = [w \in Workers |-> "idle"]
  /\ job = [w \in Workers |-> NoFile]
  /\ sum = [w \in Workers |-> None]

InProgress == {job[w] : w \in {u \in Workers : step[u] \in {"check", "send", "reuse", "done"}}}
AllIdle    == \A w \in Workers : step[w] = "idle"

-----------------------------------------------------------------------------
(* A run.                                                                  *)

\* upload_resumable, _reset_state.
Begin(d) ==
  /\ phase = "idle"
  /\ phase' = "discover" /\ dest' = d
  /\ unseen' = Files
  /\ found' = {} /\ pending' = {} /\ done' = {} /\ failed' = {}
  /\ UNCHANGED <<local, server, log, old, corrupt, work>>

\* load_persisted_uploads: one bad line and nothing is taken as uploaded.
Loaded(f) == IF corrupt THEN None ELSE log[f]

\* Fault: a file with a line in the log is skipped, whatever it contains now.
UploadedByName(f) == Loaded(f) # None

\* The file is taken to be on the server, without asking.
Uploaded(f) == Loaded(f) = local[f] /\ f \notin old

\* _process_file_candidate; a line that no longer holds is taken out of the log.
Examine(f) ==
  /\ phase = "discover" /\ f \in unseen
  /\ unseen' = unseen \ {f}
  /\ IF Uploaded(f)
       THEN UNCHANGED <<log, old, found>>
       ELSE /\ found' = found \cup {f}
            /\ log' = IF corrupt THEN log ELSE [log EXCEPT ![f] = None]
            /\ old' = IF corrupt THEN old ELSE old \ {f}
  /\ UNCHANGED <<local, server, corrupt, phase, dest, pending, done, failed, work>>

\* _execute_uploads, _reset_progress.
Execute ==
  /\ phase = "discover" /\ unseen = {}
  /\ phase' = "upload"
  /\ pending' = found
  /\ UNCHANGED <<local, server, log, old, corrupt, dest, unseen, found, done, failed, work>>

\* gather returns when every worker has.
Finish ==
  /\ phase = "upload" /\ pending = {} /\ AllIdle
  /\ phase' = "idle"
  /\ UNCHANGED <<local, server, log, old, corrupt, dest, unseen, found, pending, done,
                 failed, work>>

\* Is there a line that discovery takes out of the log?
Rewriting == ~corrupt /\ \E f \in unseen : log[f] # None /\ ~Uploaded(f)

\* The process dies, or an error that is no SDSError leaves a worker and with it the
\* run.  A line that was being written may be cut short; a rewriting of the log that was
\* under way (Examine) may have dropped lines that had not been written back.
Crash ==
  /\ phase # "idle"
  /\ phase' = "idle"
  /\ unseen' = {} /\ found' = {} /\ pending' = {} /\ done' = {} /\ failed' = {}
  /\ step' = [w \in Workers |-> "idle"]
  /\ job' = [w \in Workers |-> NoFile]
  /\ sum' = [w \in Workers |-> None]
  /\ corrupt' \in {corrupt, corrupt \/ Rewriting \/ \E w \in Workers : step[w] = "save"}
  /\ \E lost \in IF Rewriting THEN SUBSET Files ELSE {{}} :
       /\ log' = [f \in Files |-> IF f \in lost THEN None ELSE log[f]]
       /\ old' = old \ lost
  /\ UNCHANGED <<local, server, dest>>

-----------------------------------------------------------------------------
(* A worker.                                                               *)

Goto(w, s) == step' = [step EXCEPT ![w] = s]

\* Fault: the file is read from the buffer and removed when its upload begins.
AcquireByPeek(w, f) ==
  /\ phase = "upload" /\ step[w] = "idle" /\ f \in pending
  /\ pending' = IF \E u \in Workers : job[u] = f THEN pending \ {f} ELSE pending
  /\ job' = [job EXCEPT ![w] = f]
  /\ Goto(w, "check")
  /\ UNCHANGED <<local, server, log, old, corrupt, phase, dest, unseen, found, done, failed, sum>>

\* _acquire_next_file.  The order of the buffer does not matter.
Acquire(w, f) ==
  /\ phase = "upload" /\ step[w] = "idle" /\ f \in pending
  /\ pending' = pending \ {f}
  /\ job' = [job EXCEPT ![w] = f]
  /\ Goto(w, "check")
  /\ UNCHANGED <<local, server, log, old, corrupt, phase, dest, unseen, found, done, failed, sum>>

\* Fault: a file is sent without asking unless its contents are elsewhere.
ModeBlind(f, v) ==
  IF \E g \in Files \ {f}, d \in Dests : <<g, v, d>> \in server THEN "reuse" ELSE "send"

\* __get_upload_mode_and_asset: skip, reuse a sibling's contents, or send them.
Mode(f, v) ==
  IF <<f, v, dest>> \in server THEN "done"
  ELSE IF \E g \in Files, d \in Dests : <<g, v, d>> \in server THEN "reuse"
  ELSE "send"

\* check_file_contents_exist, with the checksum the file has now.
Check(w) ==
  /\ step[w] = "check"
  /\ sum' = [sum EXCEPT ![w] = local[job[w]]]
  /\ Goto(w, Mode(job[w], local[job[w]]))
  /\ UNCHANGED <<local, server, log, old, corrupt, run, job>>

\* What the request would add: the sibling's contents, or those the file has now.
Sent(w) ==
  <<job[w], IF step[w] = "reuse" THEN sum[w] ELSE local[job[w]], dest>>

Send(w) ==
  /\ step[w] \in {"send", "reuse"}
  /\ server' = server \cup {Sent(w)}
  /\ Goto(w, "done")
  /\ UNCHANGED <<local, log, old, corrupt, run, job, sum>>

\* Fault: a failed file goes back to the pending ones.
FailAgain(w) ==
  /\ step[w] \in {"check", "send", "reuse"}
  /\ pending' = pending \cup {job[w]}
  /\ job' = [job EXCEPT ![w] = NoFile]
  /\ Goto(w, "idle")
  /\ UNCHANGED <<local, server, log, old, corrupt, phase, dest, unseen, found, done,
                 failed, sum>>

\* An SDSError: the server may have done what it did not acknowledge.
Fail(w) ==
  /\ step[w] \in {"check", "send", "reuse"}
  /\ server' \in {server} \cup (IF step[w] = "check" THEN {} ELSE {server \cup {Sent(w)}})
  /\ failed' = failed \cup {job[w]}
  /\ job' = [job EXCEPT ![w] = NoFile]
  /\ Goto(w, "idle")
  /\ UNCHANGED <<local, log, old, corrupt, phase, dest, unseen, found, pending, done, sum>>

\* _mark_completed_result up to the end of its lock.
Complete(w) ==
  /\ step[w] = "done"
  /\ done' = done \cup {job[w]}
  /\ Goto(w, "save")
  /\ UNCHANGED <<local, server, log, old, corrupt, phase, dest, unseen, found, pending, failed,
                 job, sum>>

\* save_persisted_upload: one line with the checksum the file has now; an OSError is
\* logged and swallowed.
Save(w) ==
  /\ step[w] = "save"
  /\ \/ /\ log' = [log EXCEPT ![job[w]] = local[job[w]]]
        /\ old' = old \ {job[w]}
     \/ UNCHANGED <<log, old>>
  /\ job' = [job EXCEPT ![w] = NoFile]
  /\ Goto(w, "idle")
  /\ UNCHANGED <<local, server, corrupt, run, sum>>

-----------------------------------------------------------------------------
(* The user, between runs.                                                 *)

Edit(f, v) ==
  /\ phase = "idle" \/ LiveEdits
  /\ local[f] # v
  /\ local' = [local EXCEPT ![f] = v]
  /\ UNCHANGED <<server, log, old, corrupt, run, work>>

\* Thirty days pass.
Age(f) ==
  /\ phase = "idle" /\ log[f] # None /\ f \notin old
  /\ old' = old \cup {f}
  /\ UNCHANGED <<local, server, log, corrupt, run, work>>

\* Fault: deleting leaves the log alone.
LogKept(f, v) == log

\* remove_persisted_uploads_by_checksum: a log that does not parse is left as it is.
LogWithout(f, v) ==
  IF corrupt THEN log ELSE [g \in Files |-> IF log[g] = v THEN None ELSE log[g]]

\* delete_file.  Without Lapses the answers come through, the log can be written and the
\* process lives to do it; the code only warns when that is not so.
Delete(f, v, d) ==
  /\ phase = "idle" /\ <<f, v, d>> \in server
  /\ server' = server \ {<<f, v, d>>}
  /\ log' \in {LogWithout(f, v)} \cup (IF Lapses THEN {log} ELSE {})
  /\ old' = {g \in old : log'[g] # None}
  /\ UNCHANGED <<local, corrupt, run, work>>

-----------------------------------------------------------------------------
WorkerStep(w) ==
  \/ \E f \in Files : Acquire(w, f)
  \/ Check(w) \/ Send(w) \/ Fail(w) \/ Complete(w) \/ Save(w)

RunStep == Execute \/ Finish \/ \E f \in Files : Examine(f)

UserStep == \E f \in Files :
              Age(f) \/ \E v \in Contents : Edit(f, v) \/ \E d \in Dests : Delete(f, v, d)

Next == \/ (\E d \in Dests : Begin(d)) \/ RunStep \/ Crash \/ UserStep
        \/ \E w \in Workers : WorkerStep(w)

Spec == Init /\ [][Next]_vars

\* A run that was started goes on; nobody has to start one, to edit or to delete.
FairSpec == Spec /\ WF_vars(RunStep) /\ \A w \in Workers : WF_vars(WorkerStep(w))

-----------------------------------------------------------------------------
\* The buffers account for every discovered file exactly once, and no two workers
\* have the same file, whatever the interleaving.
EachFileOnce ==
  phase = "upload" =>
    /\ found = pending \cup InProgress \cup done \cup failed
    /\ pending \cap (InProgress \cup done \cup failed) = {}
    /\ InProgress \cap (done \cup failed) = {} /\ done \cap failed = {}
    /\ \A w, u \in Workers : (w # u /\ job[w] # NoFile) => job[w] # job[u]

\* The promise of a skip: the user's tree has the file with the contents it has here,
\* under the sds_path of this run.  Crashes, failures, edits and deletions between runs
\* never leave a line behind that makes a later run skip a file the server lacks.
SkippedIsUploaded ==
  phase # "idle" =>
    \A f \in Files \ (unseen \cup found) : <<f, local[f], dest>> \in server

\* So a run that ends without failures has brought the whole directory.
CleanRunIsComplete ==
  [][(Finish /\ failed = {}) => \A f \in Files : <<f, local[f], dest>> \in server]_vars

\* What the server has of a file is not sent again, not even after a crash that came
\* between the upload and the line in the log.
NotResent ==
  [][\A w \in Workers : (step[w] = "send" /\ Send(w)) => Sent(w) \notin server]_vars

\* A run ends, whatever fails.
RunEnds == phase = "discover" ~> phase = "idle"
=============================================================================
