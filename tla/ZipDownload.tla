----------------------------- MODULE ZipDownload -----------------------------
(***************************************************************************)
(* Downloads of a dataset or capture as a zip file: the view that accepts  *)
(* a request, the Celery task that takes the user's lock, builds the file  *)
(* and mails a link, the page that serves it and the periodic cleanups     *)
(* (gateway users/views/downloads.py, api_methods/tasks.py,                *)
(* TemporaryZipFile in api_methods/models.py).                             *)
(*                                                                         *)
(* All tasks are of one user and one item type: they share one lock.  The  *)
(* number of Tasks bounds the requests.  One instant is left out: the      *)
(* moment between the existence check and the opening of a file that is    *)
(* served.                                                                 *)
(***************************************************************************)
CONSTANTS
  Tasks,   \* requests, each with its Celery task
  NoTask,  \* value of the lock when nobody has it
  Slow,    \* may a task run longer than the lock's 300 seconds?
  Faults   \* may Redis, the object store and workers fail?

ASSUME NoTaskAssumption == NoTask \notin Tasks
ASSUME FlagAssumption == Slow \in BOOLEAN /\ Faults \in BOOLEAN

VARIABLES
  lock,    \* the task whose SET NX made the key in Redis, or NoTask
  pc,      \* [task -> where it is]
  rec,     \* [task -> its TemporaryZipFile record]
  file,    \* [task -> its file in temp_zips]
  mail,    \* [task -> the mails it has sent]
  unlink,  \* [task -> must it remove its file at the end?]
  expired, \* [task -> has expires_at of its record passed?]
  robbed   \* history: tasks whose lock expired or was deleted by another task

vars == <<lock, pc, rec, file, mail, unlink, expired, robbed>>

AtWork  == {"create", "process", "zip", "update", "mail", "sent"}
Body    == AtWork \cup {"check", "acquire"}
Running == Body \cup {"fail", "release", "unlink"}
Status  == {"none", "pending", "created", "failed"}
Record  == [status : Status, path : BOOLEAN, deleted : BOOLEAN]
NoRecord == [status |-> "none", path |-> FALSE, deleted |-> FALSE]

TypeOK ==
  /\ lock \in Tasks \cup {NoTask}
  /\ pc \in [Tasks -> Running \cup {"idle", "queued", "ended", "killed"}]
  /\ rec \in [Tasks -> Record]
  /\ file \in [Tasks -> {"none", "partial", "whole"}]
  /\ mail \in [Tasks -> SUBSET {"link", "error"}]
  /\ unlink \in [Tasks -> BOOLEAN]
  /\ expired \in [Tasks -> BOOLEAN]
  /\ robbed \subseteq Tasks

Init ==
  /\ lock = NoTask
  /\ pc = [t \in Tasks |-> "idle"]
  /\ rec = [t \in Tasks |-> NoRecord]
  /\ file = [t \in Tasks |-> "none"]
  /\ mail = [t \in Tasks |-> {}]
  /\ unlink = [t \in Tasks |-> FALSE]
  /\ expired = [t \in Tasks |-> FALSE]
  /\ robbed = {}

Goto(t, from, to) == pc[t] = from /\ pc' = [pc EXCEPT ![t] = to]

\* Whether a mail arrives is not modelled: failing to send an error mail is only logged.
Sends(t, what) == mail' = [mail EXCEPT ![t] = @ \cup {what}]

-----------------------------------------------------------------------------
(* Lock and task body.                                                     *)

\* DownloadItemView.post: refused while a download runs; a Redis error reads as
\* "not locked".
Request(t) ==
  /\ lock = NoTask \/ Faults
  /\ Goto(t, "idle", "queued")
  /\ UNCHANGED <<lock, rec, file, mail, unlink, expired, robbed>>

\* _validate_item_download_request: an invalid request returns, through finally.
Validate(t) ==
  /\ Goto(t, "queued", "check") \/ Goto(t, "queued", "release")
  /\ UNCHANGED <<lock, rec, file, mail, unlink, expired, robbed>>

\* The error mail of a request that is turned down because of the lock.
TurnDown(t, from) ==
  /\ Goto(t, from, "release")
  /\ Sends(t, "error")
  /\ UNCHANGED <<lock, rec, file, unlink, expired, robbed>>

\* is_user_locked.
CheckLock(t) ==
  \/ lock # NoTask /\ TurnDown(t, "check")
  \/ /\ lock = NoTask \/ Faults
     /\ Goto(t, "check", "acquire")
     /\ UNCHANGED <<lock, rec, file, mail, unlink, expired, robbed>>

\* Fault: SET without NX, after the check of is_user_locked.
AcquireUnasked(t) ==
  /\ Goto(t, "acquire", "create")
  /\ lock' = t
  /\ UNCHANGED <<rec, file, mail, unlink, expired, robbed>>

\* acquire_user_lock: SET NX.  An error reads as "not acquired", although Redis may have
\* set the key.
Acquire(t) ==
  \/ /\ lock = NoTask
     /\ lock' = t
     /\ \/ Goto(t, "acquire", "create") /\ UNCHANGED mail
        \/ Faults /\ Goto(t, "acquire", "release") /\ Sends(t, "error")
     /\ UNCHANGED <<rec, file, unlink, expired, robbed>>
  \/ (lock # NoTask \/ Faults) /\ TurnDown(t, "acquire")

\* Fault: the path is recorded before the file is complete.
CreateWithPath(t) ==
  /\ Goto(t, "create", "process")
  /\ rec' = [rec EXCEPT ![t] = [status |-> "pending", path |-> TRUE, deleted |-> FALSE]]
  /\ UNCHANGED <<lock, file, mail, unlink, expired, robbed>>

\* _create_pending_temp_zip_record.
Create(t) ==
  /\ Goto(t, "create", "process")
  /\ rec' = [rec EXCEPT ![t] = [status |-> "pending", path |-> FALSE, deleted |-> FALSE]]
  /\ UNCHANGED <<lock, file, mail, unlink, expired, robbed>>

\* Fault: the sweep spares only what is being made.
SweptUnlessPending ==
  [t \in Tasks |-> IF rec[t].status # "pending" THEN "none" ELSE file[t]]

\* Fault: the sweep removes only files without a record.
SweptUnrecorded ==
  [t \in Tasks |-> IF rec[t].status = "none" THEN "none" ELSE file[t]]

\* cleanup_orphaned_zips: files without a record and files of failed records go,
\* files of pending records are taken to be in the making.  Neither of the states
\* that it acts on is ever left again, so one step stands for the walk.
Swept ==
  [t \in Tasks |-> IF rec[t].status \in {"none", "failed"} THEN "none" ELSE file[t]]

\* _process_item_files up to the disk check: the item has no files, is too large or
\* does not fit, or the zip file is opened.
Process(t) ==
  \/ /\ Goto(t, "process", "fail")
     /\ file' \in {file, Swept}
     /\ Sends(t, "error")
     /\ UNCHANGED <<lock, rec, unlink, expired, robbed>>
  \/ /\ Goto(t, "process", "zip")
     /\ file' = [Swept EXCEPT ![t] = "partial"]
     /\ UNCHANGED <<lock, rec, mail, unlink, expired, robbed>>

\* create_zip_from_files has written every file it could read.
Zipped(t) ==
  /\ Goto(t, "zip", "update")
  /\ file' = [file EXCEPT ![t] = "whole"]
  /\ UNCHANGED <<lock, rec, mail, unlink, expired, robbed>>

\* It could not write, or read none of the files: its path is not returned.
ZipFails(t) ==
  /\ Goto(t, "zip", "fail")
  /\ Sends(t, "error")
  /\ UNCHANGED <<lock, rec, file, unlink, expired, robbed>>

\* _update_temp_zip_record.
Update(t) ==
  /\ Goto(t, "update", "mail")
  /\ rec' = [rec EXCEPT ![t] = [status |-> "created", path |-> TRUE, deleted |-> FALSE]]
  /\ UNCHANGED <<lock, file, mail, unlink, expired, robbed>>

\* _send_download_email: the mail server accepts the link.
SendLink(t) ==
  /\ Goto(t, "mail", "sent")
  /\ Sends(t, "link")
  /\ UNCHANGED <<lock, rec, file, unlink, expired, robbed>>

\* email.send returns and the body ends.
Succeed(t) ==
  /\ Goto(t, "sent", "release")
  /\ UNCHANGED <<lock, rec, file, mail, unlink, expired, robbed>>

\* The except clauses: OSError, ValueError or the soft time limit anywhere in the body,
\* also once the link is with the mail server.  Only a path that was returned before is
\* removed in finally.
Interrupted(t) ==
  /\ pc[t] \in Body
  /\ pc' = [pc EXCEPT ![t] = IF rec[t] = NoRecord THEN "release" ELSE "fail"]
  /\ Sends(t, "error")
  /\ unlink' = [unlink EXCEPT ![t] = pc[t] \in {"update", "mail", "sent"}]
  /\ UNCHANGED <<lock, rec, file, expired, robbed>>

\* An exception that no clause names (an error of the object store), or one in an except
\* clause: finally is all that runs, the record keeps its status, nobody is told.
Uncaught(t) ==
  /\ Faults
  /\ pc[t] \in Body \cup {"fail"}
  /\ pc' = [pc EXCEPT ![t] = "release"]
  /\ unlink' \in {unlink, [unlink EXCEPT ![t] = FALSE]}
  /\ UNCHANGED <<lock, rec, file, mail, expired, robbed>>

\* mark_failed.
MarkFailed(t) ==
  /\ Goto(t, "fail", "release")
  /\ rec' = [rec EXCEPT ![t].status = "failed"]
  /\ UNCHANGED <<lock, file, mail, unlink, expired, robbed>>

\* finally: DEL of the key, whoever set it, unless Redis fails.
Release(t) ==
  /\ Goto(t, "release", IF unlink[t] THEN "unlink" ELSE "ended")
  /\ \/ lock' = NoTask /\ robbed' = robbed \cup ({lock} \ {t, NoTask})
     \/ Faults /\ UNCHANGED <<lock, robbed>>
  /\ UNCHANGED <<rec, file, mail, unlink, expired>>

Unlink(t) ==
  /\ Goto(t, "unlink", "ended")
  /\ file' = [file EXCEPT ![t] = "none"]
  /\ UNCHANGED <<lock, rec, mail, unlink, expired, robbed>>

\* The hard time limit or the end of the worker process.
Kill(t) ==
  /\ Faults
  /\ pc[t] \in Running
  /\ pc' = [pc EXCEPT ![t] = "killed"]
  /\ UNCHANGED <<lock, rec, file, mail, unlink, expired, robbed>>

\* The key's 300 seconds are over: while its task still runs only if that is slow.
LockExpires ==
  /\ lock # NoTask
  /\ Slow \/ pc[lock] \notin Running
  /\ lock' = NoTask
  /\ robbed' = robbed \cup {lock}
  /\ UNCHANGED <<pc, rec, file, mail, unlink, expired>>

-----------------------------------------------------------------------------
(* Serving and cleaning up.                                                *)

\* Three days after the record was made; no task runs that long.
Expire(t) ==
  /\ pc[t] \in {"ended", "killed"} /\ rec[t] # NoRecord
  /\ ~expired[t]
  /\ expired' = [expired EXCEPT ![t] = TRUE]
  /\ UNCHANGED <<lock, pc, rec, file, mail, unlink, robbed>>

\* cleanup_expired_temp_zips, for one record: delete_file soft deletes the record
\* only together with a file.
CleanExpired(t) ==
  /\ expired[t] /\ ~rec[t].deleted
  /\ rec[t].path /\ file[t] # "none"
  /\ file' = [file EXCEPT ![t] = "none"]
  /\ rec' = [rec EXCEPT ![t].deleted = TRUE]
  /\ UNCHANGED <<lock, pc, mail, unlink, expired, robbed>>

\* cleanup_orphaned_zip_files.
Sweep ==
  /\ file # Swept
  /\ file' = Swept
  /\ UNCHANGED <<lock, pc, rec, mail, unlink, expired, robbed>>

-----------------------------------------------------------------------------
TaskStep(t) ==
  \/ Validate(t) \/ CheckLock(t) \/ Acquire(t) \/ Create(t) \/ Process(t)
  \/ Zipped(t) \/ ZipFails(t) \/ Update(t) \/ SendLink(t) \/ Succeed(t)
  \/ Interrupted(t) \/ MarkFailed(t) \/ Release(t) \/ Unlink(t)

Cleanup(t) == CleanExpired(t) \/ Sweep

Next ==
  \/ LockExpires
  \/ \E t \in Tasks : \/ Request(t) \/ TaskStep(t) \/ Uncaught(t) \/ Kill(t)
                      \/ Expire(t) \/ Cleanup(t)

Spec == Init /\ [][Next]_vars

\* Celery runs what is queued, beat runs the cleanups daily.
FairSpec ==
  /\ Spec
  /\ WF_vars(Sweep)
  /\ \A t \in Tasks : WF_vars(TaskStep(t)) /\ WF_vars(CleanExpired(t))

-----------------------------------------------------------------------------
\* TemporaryZipDownloadView serves any recorded path that exists, whatever the
\* status of the record.
Served(t) == rec[t].path /\ file[t] # "none"

\* Until it expires, a link that was mailed serves the finished file, whatever the cleanups
\* and the user's other tasks do.  The only one that may take it away is its own task: an
\* exception between the mail server's acceptance and the end of the body makes it send an
\* error after the link, mark the record failed and remove the file.
LinkWorks ==
  \A t \in Tasks : ("link" \in mail[t] /\ ~expired[t]) => Served(t) \/ "error" \in mail[t]

\* A half-written file is never served.
ServedIsWhole == \A t \in Tasks : Served(t) => file[t] = "whole"

\* Of the tasks of a user that are at work at most one still has the lock that it took:
\* two of them that pass the checks of the view and of is_user_locked together do not both
\* pass SET NX, whatever Redis does.  A second one comes in only after the lock expired
\* under a slow task, or after finally of another task, turned down or robbed itself,
\* deleted it.
OneHolder ==
  \A t, u \in Tasks \ robbed : {pc[t], pc[u]} \subseteq AtWork => t = u

\* Files of failed downloads and of expired links are removed in the end.
FilesReclaimed ==
  \A t \in Tasks :
    (file[t] # "none" /\ (rec[t].status = "failed" \/ (expired[t] /\ rec[t].path)))
      ~> file[t] = "none"

\* At most one task of a user is at work: "ensure only one task runs at a time".  No run
\* states it, because the code does not keep it: see "Disagreements" in the README.
OneAtATime == \A t, u \in Tasks : {pc[t], pc[u]} \subseteq AtWork => t = u
=============================================================================
