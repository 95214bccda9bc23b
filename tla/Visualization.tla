---------------------------- MODULE Visualization ----------------------------
(***************************************************************************)
(* The visualizations of one capture: records of waterfalls and            *)
(* spectrograms (visualizations/models.py), the requests that create them  *)
(* (api_views.py, the reindexing of a capture) and the pipelines that fill *)
(* them in (post_processing.py, cog_pipelines.py, processing/utils.py).    *)
(*                                                                         *)
(* A pipeline is a setup task followed by one task per record, all run by  *)
(* Celery workers in any order with other pipelines.  A task that raises   *)
(* hands over to the error handler.  A worker can be stopped at any point: *)
(* then nothing handles its task.  A POST is one transaction, and launches *)
(* the pipeline before it commits; the task behind a reindexing is not one *)
(* and commits each record at once.                                        *)
(*                                                                         *)
(* A picture is named by the record that it was rendered for.              *)
(***************************************************************************)
EXTENDS Naturals, Sequences, FiniteSets

CONSTANTS
  Params,     \* parameters a spectrogram can be asked for
  Default,    \* no parameters: waterfalls, and spectrograms after reindexing
  MaxRecords, \* bound on the records of the capture
  MaxAtOnce,  \* bound on the pipelines that run at the same time
  MaxFaults   \* bound on workers stopped, launches that fail and deletions

ASSUME ParamAssumption == Params # {} /\ Default \notin Params
ASSUME BoundAssumption == MaxRecords \in Nat /\ MaxAtOnce \in Nat /\ MaxFaults \in Nat

VARIABLES
  recs,    \* records of PostProcessedData, the oldest first
  task,    \* [record -> its task], of the pipeline launched for the record
  marks,   \* [record -> records the error handler of its task has yet to fail]
  gone,    \* is the capture deleted?
  faults,  \* workers stopped, launches that failed and deletions, so far
  met,     \* records whose pipeline has met another one (history)
  raised,  \* records with a pipeline in which some task raised (history)
  unseen   \* ... before the records were committed (history)

vars == <<recs, task, marks, gone, faults, met, raised, unseen>>

Kinds    == {"waterfall", "spectrogram"}
Statuses == {"pending", "processing", "completed", "failed"}
Open     == {"pending", "processing"}

Ids == 1 .. MaxRecords
Known == 1 .. Len(recs)
Record == [kind : Kinds, params : Params \cup {Default}, status : Statuses,
           file : 0 .. MaxRecords, committed : BOOLEAN, first : Ids]
Steps  == {"absent", "setup", "queued", "rendering", "storing", "finishing", "done",
           "raised", "lost"}
Ended  == {"absent", "done", "raised", "lost"}
\* What store_processed_data holds of the record it stores into.
Task   == [pc : Steps, into : Ids, copy : Statuses]
NoTask == [pc |-> "absent", into |-> 1, copy |-> "pending"]

Init ==
  /\ recs = <<>>
  /\ task = [i \in Ids |-> NoTask]
  /\ marks = [i \in Ids |-> {}]
  /\ gone = FALSE
  /\ faults = 0
  /\ met = {}
  /\ raised = {}
  /\ unseen = {}

Pipeline(i) == {j \in Known : recs[j].first = recs[i].first}
Active(i)   == \E j \in Pipeline(i) : task[j].pc \notin Ended \/ marks[j] # {}
Visible(S)  == {i \in S : recs[i].committed}
OfKind(k)   == {i \in Known : recs[i].kind = k}
Newest(S)   == {i \in S : \A j \in S : j <= i}

\* download_spectrogram and download_waterfall: the picture of a completed record.
Download(i) == IF recs[i].status = "completed" THEN recs[i].file ELSE 0

-----------------------------------------------------------------------------
(* Requests *)

\* launch_visualization_processing: a pending record for each entry, then the
\* pipeline, which may not start.
Launch(entries, committed) ==
  LET n == Len(recs)
      new == {n + k : k \in DOMAIN entries}
      beside == {i \in Known : Active(i)}
  IN /\ n + Len(entries) <= MaxRecords
     /\ Cardinality({recs[i].first : i \in beside}) < MaxAtOnce
     /\ recs' = recs \o [k \in DOMAIN entries |->
                  [kind |-> entries[k].kind, params |-> entries[k].params, status |-> "pending",
                   file |-> 0, committed |-> committed, first |-> n + 1]]
     /\ \/ /\ task' = [i \in Ids |-> IF i \in new THEN [NoTask EXCEPT !.pc = "setup"] ELSE task[i]]
           /\ UNCHANGED faults
        \/ faults < MaxFaults /\ faults' = faults + 1 /\ UNCHANGED task
     /\ met' = IF beside = {} THEN met ELSE met \cup beside \cup new
     /\ UNCHANGED <<marks, gone, raised, unseen>>

\* The newest record the request sees; one that is completed or processing is returned.
Existing(k, p) == Newest({i \in Visible(OfKind(k)) : recs[i].params = p})
Answered(S) == \E i \in S : recs[i].status \in {"completed", "processing"}

CreateSpectrogram(p) ==
  /\ ~gone
  /\ ~Answered(Existing("spectrogram", p))
  /\ Launch(<<[kind |-> "spectrogram", params |-> p]>>, FALSE)

CreateWaterfall ==
  /\ ~gone
  /\ ~Answered(Existing("waterfall", Default))
  /\ Launch(<<[kind |-> "waterfall", params |-> Default]>>, FALSE)

\* start_capture_post_processing, queued when a capture has been reindexed.
Reindexed ==
  /\ ~gone
  /\ Launch(<<[kind |-> "waterfall", params |-> Default],
              [kind |-> "spectrogram", params |-> Default]>>, TRUE)

\* The transaction of a POST ends after its answer, whatever the launch did.
Commit(i) ==
  /\ i \in Known /\ ~recs[i].committed
  /\ recs' = [recs EXCEPT ![i].committed = TRUE]
  /\ UNCHANGED <<task, marks, gone, faults, met, raised, unseen>>

DeleteCapture ==
  /\ ~gone
  /\ gone' = TRUE
  /\ faults < MaxFaults /\ faults' = faults + 1
  /\ UNCHANGED <<recs, task, marks, met, raised, unseen>>

-----------------------------------------------------------------------------
(* Tasks *)

At(i, pc) == i \in Known /\ task[i].pc = pc

Advance(i, pc) == task' = [task EXCEPT ![i].pc = pc]
\* The task has ended, and what it held is forgotten.
End(S, pc) == task' = [j \in Ids |-> IF j \in S THEN [NoTask EXCEPT !.pc = pc] ELSE task[j]]

\* Fault: the handler does not look at the status.
UnsettledAll == Visible(Known)
\* Fault: ... or looks for processing records only.
UnsettledStarted == {i \in Visible(Known) : recs[i].status = "processing"}
\* visualization_error_handler reads the records of the capture that are not settled.
Unsettled == {i \in Visible(Known) : recs[i].status \in Open}

Raise(i, S) ==
  /\ End(S, "raised")
  /\ marks' = [marks EXCEPT ![i] = Unsettled]
  /\ raised' = raised \cup Pipeline(i)
  /\ unseen' = unseen \cup {j \in Pipeline(i) : ~recs[j].committed}
  /\ UNCHANGED <<gone, faults, met>>

\* setup_post_processing_cog looks for the capture, then the other tasks are queued.
Setup(i) ==
  /\ At(i, "setup") /\ recs[i].first = i
  /\ IF gone
     THEN Raise(i, Pipeline(i)) /\ UNCHANGED recs
     ELSE /\ task' = [j \in Ids |-> IF j \in Pipeline(i) THEN [task[j] EXCEPT !.pc = "queued"]
                                    ELSE task[j]]
          /\ UNCHANGED <<recs, marks, gone, faults, met, raised, unseen>>

\* mark_processing_started, if the capture and the record are found.
Begin(i) ==
  /\ At(i, "queued")
  /\ IF gone \/ ~recs[i].committed
     THEN Raise(i, {i}) /\ UNCHANGED recs
     ELSE /\ recs' = [recs EXCEPT ![i].status = "processing"]
          /\ task' = [task EXCEPT ![i].pc = "rendering"]
          /\ UNCHANGED <<marks, gone, faults, met, raised, unseen>>

\* Fault: the records are taken in the order of their creation.
TargetOldest(k) == {i \in Visible(OfKind(k)) : \A j \in Visible(OfKind(k)) : i <= j}
\* The record that store_processed_data takes: the first one of the kind.
Target(k) == Newest(Visible(OfKind(k)))

\* The picture is made, and the record is looked up to store it.
Store(i) ==
  /\ At(i, "rendering")
  /\ IF gone
     THEN Raise(i, {i}) /\ UNCHANGED recs
     ELSE /\ \E t \in Target(recs[i].kind) :
               task' = [task EXCEPT ![i] = [pc |-> "storing", into |-> t, copy |-> recs[t].status]]
          /\ UNCHANGED <<recs, marks, gone, faults, met, raised, unseen>>

\* set_processed_data_file, then save() writes every column, the status among them with
\* what it was at the look-up.
Saved(r, i) == [r EXCEPT !.file = i, !.status = task[i].copy]
Save(i) ==
  /\ At(i, "storing")
  /\ recs' = [recs EXCEPT ![task[i].into] = Saved(@, i)]
  /\ Advance(i, "finishing")
  /\ UNCHANGED <<marks, gone, faults, met, raised, unseen>>

\* mark_processing_completed
Finish(i) ==
  /\ At(i, "finishing")
  /\ recs' = [recs EXCEPT ![i].status = "completed"]
  /\ End({i}, "done")
  /\ UNCHANGED <<marks, gone, faults, met, raised, unseen>>

\* Missing or unreadable files, or a store that does not answer, before it has the
\* picture or when it is asked for its size.
Fails(i) ==
  /\ i \in Known
  /\ \/ task[i].pc \in {"rendering", "storing"} /\ UNCHANGED recs
     \/ task[i].pc = "storing" /\ recs' = [recs EXCEPT ![task[i].into].file = i]
  /\ Raise(i, {i})

\* The error handler fails the records it has read, the newest first.
MarkFailed(i) ==
  /\ \E j \in Newest(marks[i]) :
       /\ recs' = [recs EXCEPT ![j].status = "failed"]
       /\ marks' = [marks EXCEPT ![i] = @ \ {j}]
  /\ UNCHANGED <<task, gone, faults, met, raised, unseen>>

\* A worker is stopped with the task, or the handler, that it runs.
Stopped(i) ==
  /\ faults < MaxFaults /\ faults' = faults + 1
  /\ i \in Known
  /\ \/ /\ task[i].pc \notin Ended
        /\ End(IF task[i].pc = "setup" THEN Pipeline(i) ELSE {i}, "lost")
        /\ UNCHANGED marks
     \/ /\ marks[i] # {}
        /\ End({i}, "lost")
        /\ marks' = [marks EXCEPT ![i] = {}]
  /\ UNCHANGED <<recs, gone, met, raised, unseen>>

Work(i) ==
  \/ Setup(i) \/ Begin(i) \/ Store(i) \/ Save(i) \/ Finish(i)
  \/ Fails(i) \/ MarkFailed(i)

Next ==
  \/ \E p \in Params : CreateSpectrogram(p)
  \/ CreateWaterfall
  \/ Reindexed
  \/ DeleteCapture
  \/ \E i \in Ids : Commit(i) \/ Work(i) \/ Stopped(i)

Spec == Init /\ [][Next]_vars

\* Celery runs every task that is queued, and requests end.
Fairness == \A i \in Ids : WF_vars(Commit(i)) /\ WF_vars(Work(i))
FairSpec == Spec /\ Fairness

-----------------------------------------------------------------------------
(* Properties *)

TypeOK ==
  /\ recs \in Seq(Record) /\ Len(recs) <= MaxRecords
  /\ task \in [Ids -> Task]
  /\ marks \in [Ids -> SUBSET Ids]
  /\ gone \in BOOLEAN /\ faults \in 0 .. MaxFaults
  /\ met \subseteq Ids /\ raised \subseteq Ids /\ unseen \subseteq Ids

\* What is downloaded for a completed record was made for that record, with its parameters.
\* The result is stored by kind, not by record: where pipelines met, it may be missing or
\* have been made for an older record of that kind, but never for a newer one.
OwnPicture ==
  \A i \in Known : recs[i].status = "completed" =>
    IF i \in met THEN Download(i) \in {0} \cup {j \in OfKind(recs[i].kind) : j <= i}
                 ELSE Download(i) = i

\* The error handler does not ask whose records it fails: where a pipeline met another one,
\* any task that raised can be the cause.  Otherwise its records fail only if one of its own
\* tasks raised, or, by the handler of another one, if there was no task left to finish them.
FailedForCause ==
  \A i \in Known : recs[i].status = "failed" =>
    /\ raised # {}
    /\ i \in met \cup raised \/ task[i].pc \in {"absent", "lost"}

\* The save of the whole row writes an earlier status: only where pipelines met, or a task
\* of the same pipeline raised, does a completed record become anything else.
CompletedStays ==
  [][\A i \in Known : recs[i].status = "completed"
       => recs'[i].status = "completed" \/ i \in met' \/ i \in raised']_vars

\* A record does not stay pending or processing for ever once its pipeline has started,
\* unless a worker was stopped, pipelines met, or a task raised before the commit.
RunsSettle ==
  \A i \in Ids : <>[](i \in Known => \/ recs[i].status \notin Open
                                     \/ \E j \in Pipeline(i) : task[j].pc \in {"absent", "lost"}
                                     \/ i \in met \cup unseen)

\* What cog_pipelines.py says of the tasks of a pipeline: that of the spectrogram is
\* independent of that of the waterfall, so a record whose own task is done has not failed.
\* No run states it, because the code does not keep it: see "Disagreements" in the README.
Independent == \A i \in Known \ met : task[i].pc = "done" => recs[i].status # "failed"
=============================================================================
