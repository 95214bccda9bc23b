----------------------- MODULE ResumableUpload_proofs -----------------------
(***************************************************************************)
(* The buffers account for every file once, for any files, workers and     *)
(* contents, whatever is edited, deleted or lost.  And when files are      *)
(* edited between runs only, deletions manage to clean the log and all     *)
(* runs go to one sds_path, what the log says is true: a skipped file is   *)
(* on the server, a run without failures is complete, nothing that the     *)
(* server has is sent again.                                               *)
(***************************************************************************)
EXTENDS ResumableUpload, TLAPS

Busy == {"check", "send", "reuse", "done"}

LEMMA InProgressOf == \A f : f \in InProgress <=> \E w \in Workers : step[w] \in Busy /\ job[w] = f
<1> DEFINE B == {u \in Workers : step[u] \in Busy}
<1>1. InProgress = {job[w] : w \in B}
  BY Zenon DEF InProgress, Busy
<1>2. \A w : w \in B <=> w \in Workers /\ step[w] \in Busy
  OBVIOUS
<1> HIDE DEF B
<1> QED
  BY <1>1, <1>2

\* The type invariant is inductive once a worker that is not idle is known to have a file,
\* and one that reuses a sibling's contents to know which.
TypeInv ==
  /\ TypeOK
  /\ \A w \in Workers : step[w] # "idle" => job[w] \in Files
  /\ \A w \in Workers : step[w] = "reuse" => sum[w] \in Contents

LEMMA TypeInit == Init => TypeInv
<1>1. 1 \in Contents
  BY SizeAssumption DEF Contents
<1> QED
  BY <1>1 DEF Init, TypeOK, TypeInv

LEMMA TypeStep == TypeInv /\ [Next]_vars => TypeInv'
<1> SUFFICES ASSUME TypeInv, [Next]_vars PROVE TypeInv'
  OBVIOUS
<1> USE DEF TypeInv, TypeOK
<1>1. ASSUME NEW d \in Dests, Begin(d) PROVE TypeInv'
  BY <1>1 DEF Begin, work
<1>2. ASSUME NEW f \in Files, Examine(f) PROVE TypeInv'
  BY <1>2 DEF Examine, work
<1>3. CASE Execute
  BY <1>3 DEF Execute, work
<1>4. CASE Finish
  BY <1>4 DEF Finish, work
<1>5. CASE Crash
  BY <1>5 DEF Crash
<1>6. ASSUME NEW f \in Files, Age(f) PROVE TypeInv'
  BY <1>6 DEF Age, run, work
<1>7. ASSUME NEW f \in Files, NEW v \in Contents, Edit(f, v) PROVE TypeInv'
  BY <1>7 DEF Edit, run, work
<1>8. ASSUME NEW f \in Files, NEW v \in Contents, NEW d \in Dests, Delete(f, v, d) PROVE TypeInv'
  <2>1. LogWithout(f, v) \in [Files -> Contents \cup {None}]
    BY DEF LogWithout
  <2> QED
    BY <1>8, <2>1 DEF Delete, run, work
<1>9. ASSUME NEW w \in Workers, WorkerStep(w) PROVE TypeInv'
  <2>1. ASSUME NEW f \in Files, Acquire(w, f) PROVE TypeInv'
    BY <2>1 DEF Acquire, Goto
  <2>2. CASE Check(w)
    <3>1. job[w] \in Files /\ local[job[w]] \in Contents
      BY <2>2 DEF Check
    <3>2. Mode(job[w], local[job[w]]) \in {"done", "reuse", "send"}
      BY DEF Mode
    <3> QED
      BY <2>2, <3>1, <3>2 DEF Check, Goto, run
  <2>3. step[w] \in {"send", "reuse"} => Sent(w) \in Files \X Contents \X Dests
    BY DEF Sent
  <2>4. CASE Send(w)
    BY <2>3, <2>4 DEF Send, Goto, run
  <2>5. CASE Fail(w)
    BY <2>3, <2>5 DEF Fail, Goto
  <2>6. CASE Complete(w)
    BY <2>6 DEF Complete, Goto
  <2>7. CASE Save(w)
    BY <2>7 DEF Save, Goto, run
  <2> QED
    BY <1>9, <2>1, <2>2, <2>4, <2>5, <2>6, <2>7 DEF WorkerStep
<1> QED
  BY <1>1, <1>2, <1>3, <1>4, <1>5, <1>6, <1>7, <1>8, <1>9
     DEF Next, RunStep, UserStep, vars, run, work

-----------------------------------------------------------------------------
(* The buffers. *)

BufferInv ==
  /\ phase # "upload" => AllIdle
  /\ phase = "upload" => unseen = {}
  /\ phase = "discover" => done = {} /\ failed = {}
  /\ \A w \in Workers : step[w] = "idle" => job[w] = NoFile
  /\ \A w \in Workers : step[w] = "save" => job[w] \in done
  /\ EachFileOnce

LEMMA BufferInit == Init => BufferInv
BY DEF Init, BufferInv, EachFileOnce, AllIdle

LEMMA BufferStep == TypeInv /\ BufferInv /\ [Next]_vars => BufferInv'
<1> SUFFICES ASSUME TypeInv, BufferInv, [Next]_vars PROVE BufferInv'
  OBVIOUS
<1>0. /\ \A f : f \in InProgress <=> \E w \in Workers : step[w] \in Busy /\ job[w] = f
      /\ \A f : f \in InProgress' <=> \E w \in Workers : step'[w] \in Busy /\ job'[w] = f
  <2>1. (\A f : f \in InProgress <=> \E w \in Workers : step[w] \in Busy /\ job[w] = f)'
    BY InProgressOf, PTL
  <2> QED
    BY <2>1, InProgressOf DEF Busy
<1>1. ASSUME NEW d \in Dests, Begin(d) PROVE BufferInv'
  BY <1>1 DEF Begin, work, BufferInv, AllIdle, EachFileOnce
<1>2. ASSUME NEW f \in Files, Examine(f) PROVE BufferInv'
  BY <1>2 DEF Examine, work, BufferInv, AllIdle, EachFileOnce
<1>3. CASE Execute
  <2>1. InProgress' = {}
    BY <1>0, <1>3 DEF Execute, work, BufferInv, AllIdle, Busy
  <2> QED
    BY <2>1, <1>3, NoFileAssumption DEF Execute, work, BufferInv, AllIdle, EachFileOnce
<1>4. CASE Finish
  BY <1>4 DEF Finish, work, BufferInv, AllIdle, EachFileOnce
<1>5. CASE Crash
  BY <1>5 DEF Crash, BufferInv, AllIdle, EachFileOnce
<1>6. ASSUME UNCHANGED <<run, work>> PROVE BufferInv'
  BY <1>6 DEF run, work, BufferInv, AllIdle, EachFileOnce, InProgress
<1>7. ASSUME NEW w \in Workers, WorkerStep(w) PROVE BufferInv'
  <2> USE DEF TypeInv, TypeOK, BufferInv
  <2>1. phase = "upload" /\ phase' = "upload" /\ UNCHANGED <<found, unseen>>
    BY <1>7 DEF WorkerStep, Acquire, Check, Send, Fail, Complete, Save, run, AllIdle
  <2>2. ASSUME NEW f \in Files, Acquire(w, f) PROVE BufferInv'
    <3>1. InProgress' = InProgress \cup {f}
      BY <1>0, <2>2 DEF Acquire, Goto, Busy
    <3>2. \A u \in Workers : job[u] # f
      BY <1>0, <2>1, <2>2, NoFileAssumption DEF Acquire, EachFileOnce, Busy
    <3> QED
      BY <2>1, <2>2, <3>1, <3>2, NoFileAssumption DEF Acquire, Goto, EachFileOnce, AllIdle
  <2>3. ASSUME step[w] \in Busy, step'[w] \in Busy, UNCHANGED <<pending, done, failed, job>>,
               \A u \in Workers \ {w} : step'[u] = step[u]
        PROVE  BufferInv'
    <3>1. \A u \in Workers : job'[u] = job[u] /\ (step'[u] \in Busy <=> step[u] \in Busy)
      BY <2>3
    <3>2. \A f : f \in InProgress' <=> f \in InProgress
      BY ONLY <1>0, <3>1
    <3>3. InProgress' = InProgress
      BY ONLY <3>2
    <3> QED
      BY <2>1, <2>3, <3>3 DEF EachFileOnce, AllIdle, Busy
  <2>4. CASE Check(w)
    <3>1. Mode(job[w], local[job[w]]) \in {"done", "reuse", "send"}
      BY DEF Mode
    <3> QED
      BY <2>3, <2>4, <3>1 DEF Check, Goto, run, Busy
  <2>5. CASE Send(w)
    BY <2>3, <2>5 DEF Send, Goto, run, Busy
  <2>6. ASSUME step[w] \in Busy
        PROVE  job[w] \in InProgress /\ \A u \in Workers \ {w} : job[u] # job[w]
    BY <1>0, <2>1, <2>6, NoFileAssumption DEF EachFileOnce, Busy
  <2>7. CASE Fail(w)
    <3>1. step[w] \in Busy
      BY <2>7 DEF Fail, Busy
    <3>2. InProgress' = InProgress \ {job[w]}
      BY <1>0, <2>6, <2>7, <3>1 DEF Fail, Goto, Busy
    <3> QED
      BY <2>1, <2>6, <2>7, <3>1, <3>2 DEF Fail, Goto, EachFileOnce, AllIdle
  <2>8. CASE Complete(w)
    <3>1. step[w] \in Busy
      BY <2>8 DEF Complete, Busy
    <3>2. InProgress' = InProgress \ {job[w]}
      BY <1>0, <2>6, <2>8, <3>1 DEF Complete, Goto, Busy
    <3> QED
      BY <2>1, <2>6, <2>8, <3>1, <3>2 DEF Complete, Goto, EachFileOnce, AllIdle
  <2>9. CASE Save(w)
    <3>1. \A f : f \in InProgress' <=> \E u \in Workers : step[u] \in Busy /\ job[u] = f
      <4>1. step[w] \notin Busy /\ step'[w] \notin Busy
        BY <2>9 DEF Save, Goto, Busy
      <4>2. \A u \in Workers \ {w} : step'[u] = step[u] /\ job'[u] = job[u]
        BY <2>9 DEF Save, Goto
      <4> QED
        BY ONLY <1>0, <4>1, <4>2
    <3>2. InProgress' = InProgress
      BY ONLY <1>0, <3>1
    <3> QED
      BY <2>1, <2>9, <3>2 DEF Save, Goto, run, EachFileOnce, AllIdle
  <2> QED
    BY <1>7, <2>2, <2>4, <2>5, <2>7, <2>8, <2>9 DEF WorkerStep
<1> QED
  BY <1>1, <1>2, <1>3, <1>4, <1>5, <1>6, <1>7
     DEF Next, RunStep, UserStep, Age, Edit, Delete, vars, run, work

\* Every variable keeps its type (the whole of ResumableUpload).
THEOREM TypeCorrect == Spec => []TypeOK
<1>1. TypeInv => TypeOK
  BY DEF TypeInv
<1> QED
  BY <1>1, TypeInit, TypeStep, PTL DEF Spec

\* Of the files a run has discovered each is in exactly one buffer, and no two workers
\* have the same one (_acquire_next_file, _mark_completed_result, _mark_failed_file).
THEOREM FilesAccountedFor == Spec => []EachFileOnce
<1>1. BufferInv => EachFileOnce
  BY DEF BufferInv
<1> QED
  BY <1>1, TypeInit, TypeStep, BufferInit, BufferStep, PTL DEF Spec

-----------------------------------------------------------------------------
(* The log and the server. *)

\* The user's tree has the file as it is here, under the sds_path of the run.
There(f) == <<f, local[f], dest>> \in server

\* What workers and the run know of the server, when files stay as they are meanwhile.
WorkInv ==
  /\ \A w \in Workers : /\ step[w] = "reuse" => sum[w] = local[job[w]]
                        /\ step[w] = "send" => ~There(job[w])
                        /\ step[w] \in {"done", "save"} => There(job[w])
  /\ phase # "idle" => \A f \in done : There(f)

\* What a log that parses says is so.
LogInv ==
  /\ ~corrupt => \A f \in Files : log[f] # None => <<f, log[f], dest>> \in server
  /\ SkippedIsUploaded

LEMMA WorkInit == Init => WorkInv /\ LogInv
BY DEF Init, WorkInv, LogInv, SkippedIsUploaded

LEMMA OneFileEach ==
  TypeInv /\ BufferInv => \A w, u \in Workers : (w # u /\ step[w] # "idle" /\ phase = "upload")
                                                  => job[w] # job[u]
BY NoFileAssumption DEF TypeInv, BufferInv, EachFileOnce

\* Only the sending of a file adds to the server's tree.
LEMMA WorkStep ==
  ASSUME ~LiveEdits
  PROVE  TypeInv /\ BufferInv /\ WorkInv /\ [Next]_vars => WorkInv'
<1> SUFFICES ASSUME TypeInv, BufferInv, WorkInv, [Next]_vars PROVE WorkInv'
  OBVIOUS
<1> USE DEF TypeInv, TypeOK
<1>1. ASSUME AllIdle, AllIdle', phase' # "idle" => done' = {} PROVE WorkInv'
  BY <1>1 DEF WorkInv, AllIdle
<1>2. ASSUME NEW d \in Dests, Begin(d) PROVE WorkInv'
  BY <1>1, <1>2 DEF Begin, work, BufferInv, AllIdle
<1>3. ASSUME NEW f \in Files, Examine(f) PROVE WorkInv'
  BY <1>1, <1>3 DEF Examine, work, BufferInv, AllIdle
<1>4. CASE Execute
  BY <1>1, <1>4 DEF Execute, work, BufferInv, AllIdle
<1>5. CASE Finish
  BY <1>5 DEF Finish, work, WorkInv, There
<1>6. CASE Crash
  BY <1>6 DEF Crash, WorkInv
<1>7. ASSUME phase = "idle", UNCHANGED <<run, work>> PROVE WorkInv'
  BY <1>1, <1>7 DEF run, work, BufferInv, AllIdle
<1>8. ASSUME UNCHANGED vars PROVE WorkInv'
  BY <1>8 DEF vars, run, work, WorkInv, There
<1>9. ASSUME NEW w \in Workers, WorkerStep(w) PROVE WorkInv'
  <2>1. phase = "upload" /\ phase' = "upload" /\ UNCHANGED <<local, dest>>
    BY <1>9 DEF WorkerStep, Acquire, Check, Send, Fail, Complete, Save, run, BufferInv, AllIdle
  <2>2. \A u \in Workers \ {w} : step[w] # "idle" => job[u] # job[w]
    BY <2>1, OneFileEach
  <2>3. \A f \in Files : There(f) => (server \subseteq server' => There(f)')
    BY <2>1 DEF There
  <2>4. ASSUME NEW f \in Files, Acquire(w, f) PROVE WorkInv'
    BY <2>4 DEF Acquire, Goto, WorkInv, There
  <2>5. CASE Check(w)
    <3>1. Mode(job[w], local[job[w]]) = "done" => There(job[w])
      BY DEF Mode, There
    <3>2. Mode(job[w], local[job[w]]) = "send" => ~There(job[w])
      BY DEF Mode, There
    <3>3. Mode(job[w], local[job[w]]) \in {"done", "reuse", "send"}
      BY DEF Mode
    <3> QED
      BY <2>5, <3>1, <3>2, <3>3 DEF Check, Goto, run, WorkInv, There
  <2>6. step[w] \in {"send", "reuse"} => Sent(w) = <<job[w], local[job[w]], dest>>
    BY DEF Sent, WorkInv
  <2>7. ASSUME step[w] \in {"send", "reuse"}, NEW f \in Files, f # job[w],
               server' \in {server, server \cup {Sent(w)}}
        PROVE  There(f)' <=> There(f)
    BY <2>1, <2>6, <2>7 DEF There
  <2>8. CASE Send(w)
    <3>1. There(job[w])'
      BY <2>1, <2>6, <2>8 DEF Send, run, work, There
    <3>2. \A u \in Workers \ {w} : step[u] # "idle" => (There(job[u])' <=> There(job[u]))
      BY <2>2, <2>7, <2>8 DEF Send
    <3> QED
      BY <2>1, <2>3, <2>8, <3>1, <3>2 DEF Send, Goto, run, WorkInv
  <2>9. CASE Fail(w)
    <3>1. \A u \in Workers \ {w} : step[u] # "idle" => (There(job[u])' <=> There(job[u]))
      BY <2>1, <2>2, <2>7, <2>9 DEF Fail, There
    <3>2. server \subseteq server'
      BY <2>9 DEF Fail
    <3> QED
      BY <2>1, <2>3, <2>9, <3>1, <3>2 DEF Fail, Goto, WorkInv
  <2>10. CASE Complete(w)
    BY <2>10 DEF Complete, Goto, WorkInv, There
  <2>11. CASE Save(w)
    BY <2>11 DEF Save, Goto, run, WorkInv, There
  <2> QED
    BY <1>9, <2>4, <2>5, <2>8, <2>9, <2>10, <2>11 DEF WorkerStep
<1> QED
  BY <1>2, <1>3, <1>4, <1>5, <1>6, <1>7, <1>8, <1>9
     DEF Next, RunStep, UserStep, Age, Edit, Delete, run, work

\* A log line is written for a file that is there, and every step that takes a file from
\* the server, or changes it here, comes with one that takes the line out or disbelieves it.
LEMMA LogStep ==
  ASSUME ~LiveEdits, ~Lapses, \A d, e \in Dests : d = e
  PROVE  TypeInv /\ BufferInv /\ WorkInv /\ LogInv /\ [Next]_vars => LogInv'
<1> SUFFICES ASSUME TypeInv, BufferInv, WorkInv, LogInv, [Next]_vars PROVE LogInv'
  OBVIOUS
<1> USE DEF TypeInv, TypeOK
<1>0. dest' = dest
  BY DEF Next, Begin, RunStep, Execute, Finish, Examine, Crash, UserStep, Age, Edit, Delete,
         WorkerStep, Acquire, Check, Send, Fail, Complete, Save, vars, run
<1>1. \A f \in Files : ~corrupt /\ log[f] # None => <<f, log[f], dest>> \in server
  BY DEF LogInv
<1>2. ASSUME NEW d \in Dests, Begin(d) PROVE LogInv'
  BY <1>0, <1>1, <1>2 DEF Begin, work, LogInv, SkippedIsUploaded
<1>3. ASSUME NEW f \in Files, Examine(f) PROVE LogInv'
  <2>1. Uploaded(f) => <<f, local[f], dest>> \in server
    <3>1. local[f] # None
      BY DEF Contents, None
    <3> QED
      BY <1>1, <3>1 DEF Uploaded, Loaded
  <2>2. \A g \in Files \ (unseen' \cup found') : <<g, local[g], dest>> \in server
    BY <1>3, <2>1 DEF Examine, LogInv, SkippedIsUploaded
  <2>3. \A g \in Files : log'[g] = log[g] \/ log'[g] = None
    BY <1>3 DEF Examine
  <2> QED
    BY <1>1, <1>3, <2>2, <2>3 DEF Examine, work, LogInv, SkippedIsUploaded
<1>4. CASE Execute \/ Finish
  BY <1>4 DEF Execute, Finish, work, LogInv, SkippedIsUploaded
<1>5. CASE Crash
  BY <1>1, <1>5 DEF Crash, LogInv, SkippedIsUploaded
<1>6. ASSUME NEW f \in Files, Age(f) PROVE LogInv'
  BY <1>6 DEF Age, run, work, LogInv, SkippedIsUploaded
<1>7. ASSUME NEW f \in Files, NEW v \in Contents, Edit(f, v) PROVE LogInv'
  BY <1>7 DEF Edit, run, work, LogInv, SkippedIsUploaded
<1>8. ASSUME NEW f \in Files, NEW v \in Contents, NEW d \in Dests, Delete(f, v, d) PROVE LogInv'
  <2>1. log' = LogWithout(f, v)
    BY <1>8 DEF Delete
  <2>2. \A g \in Files : ~corrupt /\ log'[g] # None => log'[g] = log[g] /\ log[g] # v
    BY <2>1 DEF LogWithout
  <2> QED
    BY <1>0, <1>1, <1>8, <2>2 DEF Delete, run, LogInv, SkippedIsUploaded
<1>9. ASSUME NEW w \in Workers, WorkerStep(w) PROVE LogInv'
  <2>1. UNCHANGED <<local, corrupt, phase, unseen, found>> /\ server \subseteq server'
    BY <1>9 DEF WorkerStep, Acquire, Check, Send, Fail, Complete, Save, run
  <2>2. SkippedIsUploaded'
    BY <1>0, <2>1 DEF LogInv, SkippedIsUploaded
  <2>3. CASE Save(w)
    <3>1. <<job[w], local[job[w]], dest>> \in server
      BY <2>3 DEF Save, WorkInv, There
    <3>2. \A f \in Files : log'[f] = log[f] \/ (f = job[w] /\ log'[f] = local[job[w]])
      BY <2>3 DEF Save
    <3> QED
      BY <1>0, <1>1, <2>1, <2>2, <3>1, <3>2 DEF LogInv
  <2>4. CASE log' = log
    BY <1>0, <1>1, <2>1, <2>2, <2>4 DEF LogInv
  <2> QED
    BY <1>9, <2>3, <2>4 DEF WorkerStep, Acquire, Check, Send, Fail, Complete
<1>10. CASE UNCHANGED vars
  BY <1>10 DEF vars, run, work, LogInv, SkippedIsUploaded
<1> QED
  BY <1>2, <1>3, <1>4, <1>5, <1>6, <1>7, <1>8, <1>9, <1>10 DEF Next, RunStep, UserStep

\* A file that a run skips is in the user's tree with the contents it has here
\* (_process_file_candidate against save_persisted_upload, the two removals from the log
\* and the reading of it).
THEOREM SkipsAreHonest ==
  ASSUME ~LiveEdits, ~Lapses, \A d, e \in Dests : d = e
  PROVE  Spec => []SkippedIsUploaded
<1>1. LogInv => SkippedIsUploaded
  BY DEF LogInv
<1> QED
  BY <1>1, TypeInit, TypeStep, BufferInit, BufferStep, WorkInit, WorkStep, LogStep, PTL DEF Spec

\* A run that ends without a failure leaves the whole directory on the server.
THEOREM CleanRunsComplete ==
  ASSUME ~LiveEdits, ~Lapses, \A d, e \in Dests : d = e
  PROVE  Spec => CleanRunIsComplete
<1>1. TypeInv /\ BufferInv /\ WorkInv /\ LogInv
        => (Finish /\ failed = {} => \A f \in Files : <<f, local[f], dest>> \in server)
  <2> SUFFICES ASSUME TypeInv, BufferInv, WorkInv, LogInv, Finish, failed = {},
                      NEW f \in Files
               PROVE  <<f, local[f], dest>> \in server
    OBVIOUS
  <2>1. InProgress = {}
    BY InProgressOf DEF Finish, AllIdle, Busy
  <2>2. unseen = {} /\ found = done
    BY <2>1 DEF Finish, BufferInv, EachFileOnce
  <2> QED
    BY <2>2 DEF Finish, WorkInv, There, LogInv, SkippedIsUploaded
<1> QED
  BY <1>1, TypeInit, TypeStep, BufferInit, BufferStep, WorkInit, WorkStep, LogStep, PTL
     DEF Spec, CleanRunIsComplete

\* Contents that the server has of a file are not sent again, whatever was cut short before
\* (check_file_contents_exist ahead of __upload_contents_and_metadata).
THEOREM NothingSentTwice ==
  ASSUME ~LiveEdits
  PROVE  Spec => NotResent
<1>1. WorkInv => \A w \in Workers : (step[w] = "send" /\ Send(w)) => Sent(w) \notin server
  BY DEF WorkInv, Sent, There
<1> QED
  BY <1>1, TypeInit, TypeStep, BufferInit, BufferStep, WorkInit, WorkStep, PTL
     DEF Spec, NotResent
=============================================================================
