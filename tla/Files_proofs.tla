---------------------------- MODULE Files_proofs ----------------------------
(***************************************************************************)
(* What users get of their files, for any number of requests, tasks and    *)
(* downloads at the same time, and with every failure that the models      *)
(* know: the link that is mailed for a zip and the page behind it          *)
(* (ZipDownload), what rows of File name in the object stores (FileStore), *)
(* and the listing and the local copy of a directory (DirectoryDownload).  *)
(***************************************************************************)
EXTENDS ZipDownload, FileStore, DirectoryDownload, FiniteSetTheorems, TLAPS

-----------------------------------------------------------------------------
(***************************************************************************)
(* Zip downloads.  The lock plays no part in what happens to a file: it is *)
(* the record, and the way each cleanup reads it, that protect it.         *)
(***************************************************************************)

\* Where a task is, what its record says, what its file is and what it has mailed.
Stage(t) ==
  /\ pc[t] \in {"idle", "queued", "check", "acquire", "create"} => rec[t] = NoRecord
  /\ pc[t] \in {"process", "zip", "update"} => rec[t].status = "pending" /\ ~rec[t].path
  /\ pc[t] \in {"update", "mail", "sent"} => file[t] = "whole"
  /\ pc[t] \in {"mail", "sent"} => rec[t].status = "created" /\ rec[t].path
  /\ pc[t] \in Body \cup {"idle", "queued"} => ~unlink[t]
  /\ expired[t] => pc[t] \in {"ended", "killed"}
  /\ rec[t].path => file[t] # "partial"
  /\ "link" \in mail[t] /\ "error" \notin mail[t] =>
       /\ pc[t] \in {"sent", "release", "ended", "killed"} /\ ~unlink[t]
       /\ rec[t].status = "created" /\ rec[t].path
       /\ ~expired[t] => file[t] = "whole"

\* A task at work has the lock, unless it was robbed of it.
Holds(t) == pc[t] \in AtWork /\ t \notin robbed => lock = t

Inv == TypeOK /\ \A t \in Tasks : Stage(t) /\ Holds(t)

LEMMA InvInit == Init => Inv
BY NoTaskAssumption
   DEF Init, Inv, TypeOK, Stage, Holds, NoRecord, Record, Status, Running, Body, AtWork

\* A sweep leaves alone what is pending or created.
LEMMA SweptSpares ==
  TypeOK => /\ Swept \in [Tasks -> {"none", "partial", "whole"}]
            /\ \A t \in Tasks : Swept[t] \in {file[t], "none"}
            /\ \A t \in Tasks : rec[t].status \in {"pending", "created"} => Swept[t] = file[t]
BY DEF TypeOK, Swept

LEMMA NoRecordFields ==
  NoRecord \in Record /\ NoRecord.status = "none" /\ ~NoRecord.path
BY DEF NoRecord, Record, Status

LEMMA TypeStep == TypeOK /\ [Next]_vars => TypeOK'
<1> SUFFICES ASSUME TypeOK, [Next]_vars PROVE TypeOK'
  OBVIOUS
<1> USE DEF TypeOK, Running, Body, AtWork, Goto, Sends
<1>1. ASSUME NEW t \in Tasks, Request(t) \/ Validate(t) \/ CheckLock(t) \/ Acquire(t)
      PROVE  TypeOK'
  BY <1>1 DEF Request, Validate, CheckLock, Acquire, TurnDown
<1>2. ASSUME NEW t \in Tasks, Create(t) \/ Update(t) \/ MarkFailed(t) PROVE TypeOK'
  <2>1. CASE Create(t)
    <3>1. [status |-> "pending", path |-> FALSE, deleted |-> FALSE] \in Record
      BY DEF Record, Status
    <3> QED
      BY <2>1, <3>1 DEF Create
  <2>2. CASE Update(t)
    <3>1. [status |-> "created", path |-> TRUE, deleted |-> FALSE] \in Record
      BY DEF Record, Status
    <3> QED
      BY <2>2, <3>1 DEF Update
  <2>3. CASE MarkFailed(t)
    <3>1. [rec[t] EXCEPT !.status = "failed"] \in Record
      BY DEF Record, Status
    <3> QED
      BY <2>3, <3>1 DEF MarkFailed
  <2> QED
    BY <1>2, <2>1, <2>2, <2>3
<1>3. ASSUME NEW t \in Tasks, Process(t) \/ Zipped(t) \/ ZipFails(t) PROVE TypeOK'
  BY <1>3, SweptSpares DEF Process, Zipped, ZipFails
<1>4. ASSUME NEW t \in Tasks, SendLink(t) \/ Succeed(t) \/ Interrupted(t) \/ Uncaught(t) \/ Kill(t)
      PROVE  TypeOK'
  <2>1. CASE Interrupted(t)
    <3>1. (pc[t] \in {"update", "mail", "sent"}) \in BOOLEAN
      OBVIOUS
    <3>2. unlink' \in [Tasks -> BOOLEAN]
      BY <2>1, <3>1, Zenon DEF Interrupted
    <3>3. mail' \in [Tasks -> SUBSET {"link", "error"}]
      BY <2>1 DEF Interrupted
    <3>4. /\ pc' \in [Tasks -> Running \cup {"idle", "queued", "ended", "killed"}]
          /\ UNCHANGED <<lock, rec, file, expired, robbed>>
      BY <2>1 DEF Interrupted
    <3> QED
      BY <3>2, <3>3, <3>4
  <2>2. CASE Uncaught(t)
    <3>1. unlink' \in [Tasks -> BOOLEAN]
      BY <2>2 DEF Uncaught
    <3> QED
      BY <2>2, <3>1 DEF Uncaught
  <2>3. CASE SendLink(t) \/ Succeed(t) \/ Kill(t)
    BY <2>3 DEF SendLink, Succeed, Kill
  <2> QED
    BY <1>4, <2>1, <2>2, <2>3
<1>5. ASSUME NEW t \in Tasks, Release(t) \/ Unlink(t) \/ Expire(t) PROVE TypeOK'
  BY <1>5 DEF Release, Unlink, Expire
<1>6. ASSUME NEW t \in Tasks, CleanExpired(t) PROVE TypeOK'
  BY <1>6 DEF CleanExpired, Record
<1>7. CASE Sweep \/ LockExpires \/ UNCHANGED vars
  BY <1>7, SweptSpares DEF Sweep, LockExpires, vars
<1> QED
  BY <1>1, <1>2, <1>3, <1>4, <1>5, <1>6, <1>7 DEF Next, TaskStep, Cleanup

LEMMA StageStep == ASSUME Inv, [Next]_vars, NEW u \in Tasks PROVE Stage(u)'
<1>0. TypeOK /\ TypeOK' /\ Stage(u)
  BY TypeStep DEF Inv
<1>1. rec[u] \in Record /\ rec'[u] \in Record
  BY <1>0 DEF TypeOK
<1>2. ASSUME UNCHANGED <<pc[u], rec[u], mail[u], unlink[u], expired[u]>>,
             file'[u] \in {file[u], "none"},
             rec[u].status \in {"pending", "created"} => file'[u] = file[u]
      PROVE  Stage(u)'
  BY <1>0, <1>2 DEF Stage
<1> USE DEF Goto, Sends, Body, AtWork
<1>3. ASSUME NEW t \in Tasks, TaskStep(t) \/ Request(t) \/ Uncaught(t) \/ Kill(t), t # u
      PROVE  Stage(u)'
  <2>1. UNCHANGED <<pc[u], rec[u], mail[u], unlink[u], expired[u]>>
    BY <1>0, <1>3 DEF TaskStep, Request, Validate, CheckLock, Acquire, TurnDown, Create, Process,
       Zipped, ZipFails, Update, SendLink, Succeed, Interrupted, Uncaught, MarkFailed, Release, Unlink,
       Kill, TypeOK
  <2>2. file'[u] \in {file[u], Swept[u]}
    BY <1>0, <1>3, SweptSpares
       DEF TaskStep, Request, Validate, CheckLock, Acquire, TurnDown, Create, Process,
       Zipped, ZipFails, Update, SendLink, Succeed, Interrupted, Uncaught, MarkFailed, Release, Unlink,
       Kill, TypeOK
  <2> QED
    BY <1>0, <1>2, <2>1, <2>2, SweptSpares
<1> USE <1>0, <1>1 DEF Stage, TypeOK
<1>4. CASE Request(u) \/ Validate(u) \/ CheckLock(u) \/ Acquire(u)
  <2>1. /\ rec[u] = NoRecord /\ ("link" \in mail[u] => "error" \in mail[u]) /\ ~unlink[u]
        /\ ~expired[u] /\ UNCHANGED <<rec, file, unlink, expired>>
        /\ pc'[u] \in {"queued", "check", "acquire", "create", "release"}
        /\ "link" \in mail'[u] => "error" \in mail'[u]
    BY <1>4 DEF Request, Validate, CheckLock, Acquire, TurnDown
  <2> QED
    BY <2>1, NoRecordFields
<1>5. CASE Create(u)
  BY <1>5, NoRecordFields DEF Create
<1>6. CASE Process(u)
  BY <1>6, SweptSpares DEF Process
<1>7. CASE Zipped(u) \/ ZipFails(u) \/ Update(u) \/ SendLink(u) \/ Succeed(u)
  BY <1>7 DEF Zipped, ZipFails, Update, SendLink, Succeed
<1>8. CASE Interrupted(u)
  BY <1>8, NoRecordFields DEF Interrupted
<1>9. CASE MarkFailed(u)
  BY <1>9 DEF MarkFailed, Record
<1>10. CASE Release(u) \/ Unlink(u)
  BY <1>10 DEF Release, Unlink
<1>11. CASE Uncaught(u) \/ Kill(u)
  BY <1>11, NoRecordFields DEF Uncaught, Kill, Running
<1>12. ASSUME NEW t \in Tasks, Expire(t) PROVE Stage(u)'
  BY <1>12 DEF Expire
<1>13. ASSUME NEW t \in Tasks, CleanExpired(t) PROVE Stage(u)'
  <2>1. CASE t = u
    <3>1. /\ UNCHANGED <<pc, mail, unlink, expired>> /\ file'[u] = "none" /\ expired[u]
          /\ rec[u].path /\ ~(pc[u] \in Body)
      BY <1>13, <2>1 DEF CleanExpired
    <3>2. rec' = [rec EXCEPT ![u] = [rec[u] EXCEPT !.deleted = TRUE]]
      BY <1>13, <2>1 DEF CleanExpired
    <3>3. rec'[u].status = rec[u].status /\ rec'[u].path = rec[u].path
      BY <3>2 DEF Record
    <3> QED
      BY <3>1, <3>3, NoRecordFields
  <2>2. CASE t # u
    BY <1>2, <1>13, <2>2 DEF CleanExpired
  <2> QED
    BY <2>1, <2>2
<1>14. CASE Sweep
  BY <1>2, <1>14, SweptSpares DEF Sweep
<1>15. CASE LockExpires \/ UNCHANGED vars
  BY <1>15 DEF LockExpires, vars
<1> QED
  BY <1>3, <1>4, <1>5, <1>6, <1>7, <1>8, <1>9, <1>10, <1>11, <1>12, <1>13, <1>14, <1>15
     DEF Next, TaskStep, Cleanup

\* Only SET NX gives the lock, and whatever takes it from a task at work is on record.
LEMMA HoldsStep == ASSUME Inv, [Next]_vars, NEW u \in Tasks PROVE Holds(u)'
<1>0. TypeOK /\ Holds(u)
  BY DEF Inv
<1> USE <1>0, NoTaskAssumption DEF TypeOK, Holds, Goto, Sends, Body, AtWork
<1>1. CASE UNCHANGED <<lock, robbed>> /\ (pc'[u] = pc[u] \/ pc'[u] \notin AtWork \/ pc[u] \in AtWork)
  BY <1>1
<1>2. ASSUME NEW t \in Tasks, Acquire(t) PROVE Holds(u)'
  <2>1. CASE t = u
    BY <1>2, <2>1 DEF Acquire, TurnDown
  <2>2. CASE t # u
    BY <1>2, <2>2 DEF Acquire, TurnDown
  <2> QED
    BY <2>1, <2>2
<1>3. ASSUME NEW t \in Tasks, Release(t) PROVE Holds(u)'
  BY <1>3 DEF Release
<1>4. CASE LockExpires
  BY <1>4 DEF LockExpires
<1>5. ASSUME NEW t \in Tasks,
             \/ Request(t) \/ Validate(t) \/ CheckLock(t) \/ Process(t) \/ Zipped(t) \/ ZipFails(t)
             \/ Create(t) \/ Update(t) \/ SendLink(t) \/ Succeed(t) \/ Interrupted(t) \/ MarkFailed(t)
             \/ Unlink(t) \/ Uncaught(t) \/ Kill(t)
      PROVE  Holds(u)'
  BY <1>1, <1>5 DEF Request, Validate, CheckLock, TurnDown, Process, Zipped, ZipFails, Create, Update,
     SendLink, Succeed, Interrupted, MarkFailed, Unlink, Uncaught, Kill
<1>6. ASSUME NEW t \in Tasks, Expire(t) \/ CleanExpired(t) \/ Sweep PROVE Holds(u)'
  BY <1>1, <1>6 DEF Expire, CleanExpired, Sweep
<1>7. CASE UNCHANGED vars
  BY <1>1, <1>7 DEF vars
<1> QED
  BY <1>2, <1>3, <1>4, <1>5, <1>6, <1>7 DEF Next, TaskStep, Cleanup

LEMMA InvStep == Inv /\ [Next]_vars => Inv'
BY TypeStep, StageStep, HoldsStep DEF Inv

\* Every variable keeps its type (the whole of ZipDownload).
THEOREM TypeCorrect == Spec => []TypeOK
<1>1. Inv => TypeOK
  BY DEF Inv
<1> QED
  BY <1>1, InvInit, InvStep, PTL DEF Spec

\* A link that was mailed and has not expired serves the finished file against the three
\* cleanups and all other tasks, unless its own task failed after the mail server had taken it
\* and so sent an error too (send_item_files_email, its except clauses and finally).
THEOREM LinksWork == Spec => []LinkWorks
<1>1. Inv => LinkWorks
  BY DEF Inv, Stage, LinkWorks, Served
<1> QED
  BY <1>1, InvInit, InvStep, PTL DEF Spec

\* Of any number of tasks of a user at most one is at work with the lock that it took
\* (acquire_user_lock against release_user_lock and the key's 300 seconds).
THEOREM LockHeldOnce == Spec => []OneHolder
<1>1. Inv => OneHolder
  BY DEF Inv, Holds, OneHolder
<1> QED
  BY <1>1, InvInit, InvStep, PTL DEF Spec

\* The download page never serves a half-written file, though it looks at nothing but the
\* recorded path (TemporaryZipDownloadView).
THEOREM WholeFilesServed == Spec => []ServedIsWhole
<1>1. Inv => ServedIsWhole
  BY DEF Inv, TypeOK, Stage, ServedIsWhole, Served
<1> QED
  BY <1>1, InvInit, InvStep, PTL DEF Spec

-----------------------------------------------------------------------------
(***************************************************************************)
(* The object stores and the rows of File.  Types come first; then what    *)
(* rows name, for which a request is followed through its files.           *)
(***************************************************************************)

RowNames == Names \cup {Bare(c) : c \in Contents}
Called == FileNames \cup Names

LEMMA SecondaryStore ==
  ASSUME NEW s \in Settings
  PROVE  Secondary(s) \in Stores /\ s.primary \in Stores
<1>1. s.primary \in Stores
  BY DEF Settings
<1>2. \E t \in Stores : t # s.primary
  BY StoreAssumption
<1> QED
  BY <1>1, <1>2 DEF Secondary

LEMMA SettingsFields ==
  ASSUME NEW s \in Settings
  PROVE  /\ s.given \in BOOLEAN /\ s.seen \in BOOLEAN /\ s.fallback \in BOOLEAN
         /\ s.both \in BOOLEAN /\ s.strict \in BOOLEAN /\ (s.seen => s.given)
BY DEF Settings

LEMMA RowFields ==
  ASSUME NEW i \in Row
  PROVE  /\ i # NoRow /\ i.dir \in Directories /\ i.called \in Called /\ i.content \in Contents
         /\ i.name \in RowNames
         /\ i.other \in BOOLEAN /\ i.met \in BOOLEAN /\ i.by \in Requests \cup {None}
BY NoneAssumption DEF Row, NoRow, RowNames, Called

\* The row of file f that Insert adds, called a.
NewRow(r, f, a, n) ==
  [dir |-> f.dir, called |-> a, content |-> f.content, name |-> n, other |-> a # f.own,
   met |-> \E j \in SameContents(r, f.dir, f.content) : rows[j].name = n /\ rows[j].met,
   by |-> r]

LEMMA NewRowType ==
  ASSUME NEW r \in Requests, NEW f \in Posted,
         NEW a \in Called, NEW n \in RowNames
  PROVE  NewRow(r, f, a, n) \in Row
BY DEF NewRow, Row, RowNames, Called, Posted

LEMMA PostedFields ==
  ASSUME NEW f \in Posted
  PROVE  f.dir \in Directories /\ f.own \in Called /\ f.asked \in Called /\ f.content \in Contents
BY DEF Posted, Called

LEMMA IdleType == Idle \in RequestState
BY DEF Idle, RequestState

\* Only a request at work has files to do; a file whose contents are being stored
\* belongs to an upload of contents, and has a name once that was chosen.
Placed(r) ==
  /\ req[r].kind = "idle" => req[r].todo = {}
  /\ req[r].at # "look" => req[r].kind = "contents" /\ req[r].file \in req[r].todo
  /\ req[r].at \in {"primary", "secondary"} => req[r].name \in Names

StoreTypeInv == FSTypeOK /\ \A r \in Requests : Placed(r)

LEMMA StoreTypeInit == FSInit => StoreTypeInv
<1> SUFFICES ASSUME FSInit PROVE StoreTypeInv
  OBVIOUS
<1>1. FSTypeOK
  BY OfferAssumption, IdleType, BoundAssumption DEF FSInit, FSTypeOK
<1> QED
  BY <1>1 DEF FSInit, StoreTypeInv, Placed, Idle

\* What the steps of a request leave of types.
LEMMA InsertType ==
  ASSUME FSTypeOK, NEW r \in Requests, NEW f \in Posted,
         NEW a \in Called, NEW n \in RowNames, Insert(r, f, a, n)
  PROVE  rows' \in [1..MaxRows -> Row \cup {NoRow}] /\ req' \in [Requests -> RequestState]
<1>1. req' \in [Requests -> RequestState]
  <2> DEFINE q == [req[r] EXCEPT !.todo = req[r].todo \ {f}, !.at = "look",
                                 !.file = None, !.name = None]
  <2>1. req[r] \in RequestState
    BY DEF FSTypeOK
  <2>2. q \in RequestState
    BY <2>1 DEF RequestState
  <2>3. req' = [req EXCEPT ![r] = q]
    BY DEF Insert
  <2> QED
    BY <2>2, <2>3 DEF FSTypeOK
<1>2. NewRow(r, f, a, n) \in Row
  BY NewRowType
<1>3. rows' \in [1..MaxRows -> Row \cup {NoRow}]
  BY <1>2 DEF FSTypeOK, Insert, NewRow
<1> QED
  BY <1>1, <1>3

\* A request that ends leaves the rows of others alone, and what is no row.
LEMMA StopOther ==
  ASSUME NEW r \in Requests, Stop(r), NEW i \in 1..MaxRows, rows[i].by # r \/ rows[i] = NoRow
  PROVE  rows'[i] = rows[i]
<1>1. rows[i].by # r
  BY NoneAssumption DEF NoRow
<1> QED
  BY <1>1 DEF Stop

LEMMA StopType ==
  ASSUME FSTypeOK, NEW r \in Requests, Stop(r)
  PROVE  rows' \in [1..MaxRows -> Row \cup {NoRow}] /\ req' \in [Requests -> RequestState]
<1>1. req' \in [Requests -> RequestState]
  BY IdleType DEF FSTypeOK, Stop
<1>2. ASSUME NEW i \in 1..MaxRows PROVE rows'[i] \in Row \cup {NoRow}
  <2>1. rows[i] \in Row \cup {NoRow}
    BY DEF FSTypeOK
  <2>2. CASE rows[i] = NoRow
    BY <2>2, StopOther
  <2>3. CASE rows[i] \in Row
    <3>1. req[r].met \in BOOLEAN /\ rows[i].met \in BOOLEAN
      BY <2>3 DEF FSTypeOK, RequestState, Row
    <3>2. (rows[i].met \/ req[r].met) \in BOOLEAN
      OBVIOUS
    <3> QED
      BY <2>3, <3>2 DEF Stop, Row
  <2> QED
    BY <2>1, <2>2, <2>3
<1>3. rows' = [i \in 1..MaxRows |-> rows'[i]]
  BY DEF Stop
<1> QED
  BY <1>1, <1>2, <1>3

LEMMA AbandonType ==
  ASSUME FSTypeOK, NEW rs, Abandon(rs)
  PROVE  rows' \in [1..MaxRows -> Row \cup {NoRow}] /\ req' \in [Requests -> RequestState]
BY IdleType DEF FSTypeOK, Abandon

\* A write adds at most the object.
LEMMA WritesType ==
  ASSUME FSTypeOK, NEW store \in Stores, NEW n \in Names, Writes(store, n)
  PROVE  /\ held' \in [Stores -> SUBSET Names]
         /\ \A s \in Stores : held[s] \subseteq held'[s]
BY DEF FSTypeOK, Writes

LEMMA StoreTypeStep == StoreTypeInv /\ [FSNext]_fsvars => StoreTypeInv'
<1> SUFFICES ASSUME StoreTypeInv, [FSNext]_fsvars PROVE StoreTypeInv'
  OBVIOUS
<1> USE DEF StoreTypeInv
<1>0. /\ overlaps \in 0..MaxOverlaps /\ restarts \in 0..MaxEvents /\ conf \in Settings
      /\ MaxOverlaps \in Nat /\ MaxEvents \in Nat
  BY BoundAssumption DEF FSTypeOK
<1>B. Beside => overlaps' \in 0..MaxOverlaps
  BY <1>0 DEF Beside
<1>S. conf.primary \in Stores /\ Secondary(conf) \in Stores
  BY <1>0, SecondaryStore
<1>R. ASSUME NEW r \in Requests
      PROVE  /\ req[r] \in RequestState
             /\ req[r].todo \subseteq Posted
             /\ req[r].at # "look" => req[r].file \in Posted /\ req[r].file.own \in Called
  BY PostedFields DEF FSTypeOK, RequestState, Placed
\* A request that stops, or inserts a row, is at no file.
<1>I. ASSUME NEW r \in Requests, NEW f \in Posted, NEW a \in Called, NEW n \in RowNames,
             Insert(r, f, a, n)
      PROVE  /\ rows' \in [1..MaxRows -> Row \cup {NoRow}]
             /\ req' \in [Requests -> RequestState]
             /\ \A q \in Requests : Placed(q)'
  <2>1. /\ req'[r].at = "look" /\ req'[r].kind = req[r].kind
        /\ req'[r].todo = req[r].todo \ {f}
        /\ \A q \in Requests : q # r => req'[q] = req[q]
    BY <1>I, <1>R DEF Insert, FSTypeOK, RequestState
  <2> QED
    BY <1>I, <2>1, InsertType DEF Placed
<1>P. ASSUME NEW r \in Requests, Stop(r)
      PROVE  /\ rows' \in [1..MaxRows -> Row \cup {NoRow}]
             /\ req' \in [Requests -> RequestState]
             /\ \A q \in Requests : Placed(q)'
  BY <1>P, StopType DEF Stop, Placed, Idle, FSTypeOK
<1>A. ASSUME NEW rs, Abandon(rs)
      PROVE  /\ rows' \in [1..MaxRows -> Row \cup {NoRow}]
             /\ req' \in [Requests -> RequestState]
             /\ \A q \in Requests : Placed(q)'
  <2>1. \A q \in Requests : req'[q] \in {req[q], Idle}
    BY <1>A DEF Abandon
  <2>2. \A q \in Requests : Placed(q)'
    BY <2>1 DEF Placed, Idle
  <2> QED
    BY <1>A, <2>2, AbandonType
<1>1. ASSUME NEW r \in Requests, NEW kind \in {"contents", "sibling"},
             NEW fs \in SUBSET Posted, Start(r, kind, fs)
      PROVE  StoreTypeInv'
  <2> DEFINE q(s) == IF s = r
                     THEN [Idle EXCEPT !.kind = kind, !.todo = fs, !.met = \E t \in Requests : Busy(t)]
                     ELSE [req[s] EXCEPT !.met = Busy(s)]
  <2>1. req' = [s \in Requests |-> q(s)]
    BY <1>1 DEF Start
  <2>2. ASSUME NEW s \in Requests PROVE q(s) \in RequestState
    <3>1. CASE s = r
      BY <3>1 DEF Idle, RequestState
    <3>2. CASE s # r
      BY <1>R, <3>2 DEF RequestState, Busy
    <3> QED BY <3>1, <3>2
  <2>3. ASSUME NEW s \in Requests PROVE Placed(s)'
    <3>1. CASE s = r
      BY <1>1, <3>1 DEF Start, Idle, Placed
    <3>2. CASE s # r
      BY <1>1, <1>R, <3>2 DEF Start, Placed, RequestState
    <3> QED BY <3>1, <3>2
  <2>4. req' \in [Requests -> RequestState]
    BY <2>1, <2>2
  <2> HIDE DEF q
  <2> QED
    BY <1>B, <1>1, <2>3, <2>4 DEF FSTypeOK, Start
<1>2. ASSUME NEW r \in Requests, Post(r) PROVE StoreTypeInv'
  BY <1>1, <1>2 DEF Post
<1>3. ASSUME NEW r \in Requests, PostSibling(r) PROVE StoreTypeInv'
  <2>1. PICK i \in 1..MaxRows, d \in Directories, a \in FileNames :
          /\ Live(i) /\ rows[i].name \in held[conf.primary]
          /\ Start(r, "sibling",
                   {[dir |-> d, own |-> rows[i].name, asked |-> a, content |-> rows[i].content]})
    BY <1>3 DEF PostSibling
  <2>2. rows[i] \in Row /\ rows[i].name \in Names
    BY <1>S, <2>1 DEF FSTypeOK, Live, Here
  <2>3. [dir |-> d, own |-> rows[i].name, asked |-> a, content |-> rows[i].content] \in Posted
    BY <2>2, RowFields DEF Posted
  <2> QED
    BY <1>1, <2>1, <2>3
<1>4. ASSUME NEW r \in Requests, Look(r) PROVE StoreTypeInv'
  <2>1. PICK f \in req[r].todo :
          \/ Stop(r)
          \/ \E i \in SameContents(r, f.dir, f.content) : Insert(r, f, f.asked, rows[i].name)
          \/ Insert(r, f, f.own, Bare(f.content))
          \/ /\ req[r].kind = "contents"
             /\ req' = [req EXCEPT ![r].at = "name", ![r].file = f] /\ UNCHANGED rows
    <3>1. req[r].kind \in {"contents", "sibling", "idle"}
      BY <1>R DEF RequestState
    <3> QED
      BY <1>4, <3>1 DEF Look
  <2>2. f \in Posted /\ f.own \in Called /\ f.asked \in Called
    BY <1>R, PostedFields
  <2>3. ASSUME NEW i \in SameContents(r, f.dir, f.content) PROVE rows[i].name \in RowNames
    <3>1. rows[i] \in Row
      BY DEF FSTypeOK, SameContents, Visible, Here
    <3> QED
      BY <3>1, RowFields
  <2>4. Bare(f.content) \in RowNames
    BY <2>2, PostedFields DEF RowNames
  <2>5. ASSUME req[r].kind = "contents",
               req' = [req EXCEPT ![r].at = "name", ![r].file = f], UNCHANGED rows
        PROVE  /\ rows' \in [1..MaxRows -> Row \cup {NoRow}]
               /\ req' \in [Requests -> RequestState]
               /\ \A q \in Requests : Placed(q)'
    <3> DEFINE s == [req[r] EXCEPT !.at = "name", !.file = f]
    <3>1. /\ s \in RequestState
          /\ s.at = "name" /\ s.kind = "contents" /\ s.file = f /\ s.todo = req[r].todo
      BY <1>R, <2>2, <2>5 DEF RequestState
    <3>2. req' = [req EXCEPT ![r] = s]
      BY <2>5
    <3> HIDE DEF s
    <3> QED
      BY <2>5, <3>1, <3>2 DEF FSTypeOK, Placed
  <2>6. /\ rows' \in [1..MaxRows -> Row \cup {NoRow}]
        /\ req' \in [Requests -> RequestState]
        /\ \A q \in Requests : Placed(q)'
    BY <1>I, <1>P, <2>1, <2>2, <2>3, <2>4, <2>5
  <2> QED
    BY <1>4, <2>6 DEF FSTypeOK, Look
<1>5. ASSUME NEW r \in Requests, ChooseName(r) PROVE StoreTypeInv'
  <2>1. PICK n \in Names : req' = [req EXCEPT ![r].at = "primary", ![r].name = n]
    <3>1. <<req[r].file.content, 0>> \in Names
      BY <1>5, <1>R, BoundAssumption, PostedFields DEF ChooseName, Names
    <3> QED
      BY <1>5, <3>1 DEF ChooseName
  <2> DEFINE s == [req[r] EXCEPT !.at = "primary", !.name = n]
  <2>2. /\ s \in RequestState
        /\ s.at = "primary" /\ s.name = n
        /\ s.kind = req[r].kind /\ s.file = req[r].file /\ s.todo = req[r].todo
    BY <1>R DEF RequestState
  <2>3. req' = [req EXCEPT ![r] = s]
    BY <2>1
  <2> HIDE DEF s
  <2> QED
    BY <1>5, <2>2, <2>3 DEF FSTypeOK, Placed, ChooseName
<1>6. ASSUME NEW r \in Requests, SavePrimary(r) PROVE StoreTypeInv'
  <2>1. /\ req[r].name \in Names /\ req[r].name \in RowNames
        /\ req[r].file \in Posted /\ req[r].file.own \in Called
    BY <1>6, <1>R DEF SavePrimary, Placed, RowNames
  <2>2. held' \in [Stores -> SUBSET Names]
    BY <1>6, <1>S, <2>1, WritesType DEF SavePrimary
  <2>3. ASSUME req' = [req EXCEPT ![r].at = "secondary"], UNCHANGED rows
        PROVE  /\ rows' \in [1..MaxRows -> Row \cup {NoRow}]
               /\ req' \in [Requests -> RequestState]
               /\ \A q \in Requests : Placed(q)'
    <3> DEFINE s == [req[r] EXCEPT !.at = "secondary"]
    <3>1. /\ s \in RequestState
          /\ s.name = req[r].name /\ s.at = "secondary"
          /\ s.kind = req[r].kind /\ s.file = req[r].file /\ s.todo = req[r].todo
      BY <1>R DEF RequestState
    <3>2. req' = [req EXCEPT ![r] = s]
      BY <2>3
    <3> HIDE DEF s
    <3> QED
      BY <1>6, <2>1, <2>3, <3>1, <3>2 DEF FSTypeOK, Placed, SavePrimary
  <2>4. /\ rows' \in [1..MaxRows -> Row \cup {NoRow}]
        /\ req' \in [Requests -> RequestState]
        /\ \A q \in Requests : Placed(q)'
    BY <1>6, <1>I, <1>P, <2>1, <2>3 DEF SavePrimary
  <2> QED
    BY <1>6, <2>2, <2>4 DEF FSTypeOK, SavePrimary
<1>7. ASSUME NEW r \in Requests, SaveSecondary(r) PROVE StoreTypeInv'
  <2>1. /\ req[r].name \in Names /\ req[r].name \in RowNames
        /\ req[r].file \in Posted /\ req[r].file.own \in Called
    BY <1>7, <1>R DEF SaveSecondary, Placed, RowNames
  <2>2. held' \in [Stores -> SUBSET Names]
    BY <1>7, <1>S, <2>1, WritesType DEF SaveSecondary
  <2>3. /\ rows' \in [1..MaxRows -> Row \cup {NoRow}]
        /\ req' \in [Requests -> RequestState]
        /\ \A q \in Requests : Placed(q)'
    BY <1>7, <1>I, <1>P, <2>1 DEF SaveSecondary
  <2> QED
    BY <1>7, <2>2, <2>3 DEF FSTypeOK, SaveSecondary
<1>8. ASSUME NEW r \in Requests, Commit(r) PROVE StoreTypeInv'
  BY <1>8, <1>P DEF FSTypeOK, Commit
<1>9. ASSUME NEW r \in Requests, Die(r) PROVE StoreTypeInv'
  BY <1>9, <1>A DEF FSTypeOK, Die
<1>10. CASE Delete
  BY <1>10, <1>B DEF FSTypeOK, Delete, Placed
<1>11. CASE Restart
  <2>1. PICK s \in Offered : conf' = s /\ Abandon(Requests)
    BY <1>11 DEF Restart
  <2>2. whole' \in BOOLEAN /\ restarts' \in 0..MaxEvents
    BY <1>0, <1>11 DEF Restart
  <2> QED
    BY <1>11, <1>A, <2>1, <2>2, OfferAssumption DEF FSTypeOK, Restart
<1>12. CASE Mirror
  <2>1. held' \in [Stores -> SUBSET Names]
    BY <1>12, <1>S DEF FSTypeOK, Mirror
  <2> QED
    BY <1>12, <2>1 DEF FSTypeOK, Mirror, Placed
<1>13. CASE UNCHANGED fsvars
  BY <1>13 DEF FSTypeOK, fsvars, Placed
<1> QED
  BY <1>1, <1>2, <1>3, <1>4, <1>5, <1>6, <1>7, <1>8, <1>9, <1>10, <1>11, <1>12, <1>13
  DEF FSNext, Handle

\* Type correctness of the stores, the table and the requests.
THEOREM StoreTypes == FSSpec => []FSTypeOK
<1>1. StoreTypeInv => FSTypeOK
  BY DEF StoreTypeInv
<1> QED
  BY <1>1, StoreTypeInit, StoreTypeStep, PTL DEF FSSpec

-----------------------------------------------------------------------------
(***************************************************************************)
(* What rows name.  The rows of a transaction that is still open count,    *)
(* too: another one of its files may share what they name.                 *)
(***************************************************************************)

\* What is written to the secondary is in the primary already.
StoredInv == \A r \in Requests : req[r].at = "secondary" => req[r].name \in held[conf.primary]

ReadableInv ==
  \A i \in 1..MaxRows : Here(i) =>
    \/ Readable(conf, rows[i].name)
    \/ overlaps > 0 /\ rows[i].name = Bare(rows[i].content)

WholeInv ==
  whole /\ conf.both /\ conf.strict /\ conf.seen =>
    \A i \in 1..MaxRows :
      Here(i) /\ rows[i].name # Bare(rows[i].content) => rows[i].name \in held[Secondary(conf)]

\* Before requests overlap, there is one of them, and its sibling is still there.
AloneInv ==
  overlaps = 0 =>
    /\ \A r, s \in Requests : Busy(r) /\ Busy(s) => r = s
    /\ \A r \in Requests : req[r].kind = "sibling" =>
         \A f \in req[r].todo : SameContents(r, f.dir, f.content) # {}

\* A row whose request met another one, or will say so when it ends.
Marked(i) == rows[i].met \/ (rows[i].by # None /\ req[rows[i].by].met)

\* Requests in flight together know it; a row is committed or of a request in flight;
\* and a request for whose contents a row appeared after it had looked has met another.
Aware  == \A r, s \in Requests : Busy(r) /\ Busy(s) /\ r # s => req[r].met
Held(i) == Here(i) => rows[i].by = None \/ Busy(rows[i].by)
Late(r) ==
  req[r].at # "look" =>
    \A i \in SameContents(r, req[r].file.dir, req[r].file.content) : Marked(i) /\ req[r].met

MetInv == Aware /\ (\A i \in 1..MaxRows : Held(i)) /\ \A r \in Requests : Late(r)

\* Rows i and j, of the same contents and owner, are as FilesOnce wants them.
Agree(i, j) ==
  /\ rows[i].name = rows[j].name
  /\ rows[i].dir = rows[j].dir /\ rows[i].called = rows[j].called
     => rows[i].other \/ rows[j].other

Siblings(i, j) ==
  /\ i # j /\ Here(i) /\ Here(j) /\ rows[i].content = rows[j].content
  /\ OwnerOf[rows[i].dir] = OwnerOf[rows[j].dir]

OnceInv ==
  \A i, j \in 1..MaxRows : Siblings(i, j) => (Marked(i) /\ Marked(j)) \/ Agree(i, j)

StoreInv == StoreTypeInv /\ StoredInv /\ ReadableInv /\ WholeInv /\ AloneInv /\ MetInv /\ OnceInv

LEMMA StoreInvInit == FSInit => StoreInv
<1> SUFFICES ASSUME FSInit PROVE StoreInv
  OBVIOUS
<1>1. (\A i \in 1..MaxRows : ~Here(i)) /\ \A r \in Requests : req[r] = Idle
  BY DEF FSInit, Here
<1> QED
  BY <1>1, StoreTypeInit
  DEF StoreInv, StoredInv, ReadableInv, WholeInv, AloneInv, MetInv, Aware, Held, Late, OnceInv, Siblings, Busy, Idle

\* A step leaves rows as they are or hides them ...
KeptRows ==
  \A i \in 1..MaxRows : Here(i)' =>
    /\ Here(i)
    /\ rows'[i].dir = rows[i].dir /\ rows'[i].called = rows[i].called
    /\ rows'[i].content = rows[i].content
    /\ rows'[i].name = rows[i].name /\ rows'[i].other = rows[i].other

\* ... or inserts one, and there are three ways to its name.
Grounds(r, f, a, n) ==
  \/ /\ \E i \in SameContents(r, f.dir, f.content) : n = rows[i].name
     /\ a = f.asked /\ ~InTree(r, f)
  \/ req[r].kind = "sibling" /\ SameContents(r, f.dir, f.content) = {} /\ n = Bare(f.content)
  \/ /\ req[r].at # "look" /\ f = req[r].file
     /\ n \in held'[conf.primary]
     /\ conf.both /\ conf.strict /\ conf.seen => n \in held'[Secondary(conf)]

Inserts == \E r \in Requests : \E f \in req[r].todo : \E a \in Called, n \in RowNames :
             Insert(r, f, a, n) /\ Grounds(r, f, a, n)

LEMMA InsertedRow ==
  ASSUME StoreTypeInv, NEW r \in Requests, NEW f \in req[r].todo, NEW a \in Called, NEW n \in RowNames,
         Insert(r, f, a, n)
  PROVE  \E i \in 1..MaxRows :
           /\ ~Here(i) /\ Here(i)'
           /\ rows'[i] = NewRow(r, f, a, n)
           /\ \A j \in 1..MaxRows : j # i => rows'[j] = rows[j]
<1>1. PICK i \in 1..MaxRows : ~Here(i) /\ rows' = [rows EXCEPT ![i] = NewRow(r, f, a, n)]
  BY DEF Insert, NewRow
<1>2. f \in Posted
  BY DEF StoreTypeInv, FSTypeOK, RequestState
<1>3. NewRow(r, f, a, n) # NoRow
  BY <1>2, NewRowType, RowFields
<1> QED
  BY <1>1, <1>3 DEF StoreTypeInv, FSTypeOK, Here

LEMMA InsertsOne ==
  ASSUME StoreTypeInv, Inserts
  PROVE  \E r \in Requests, f \in Posted, a \in Called, n \in RowNames, new \in 1..MaxRows :
           /\ f \in req[r].todo /\ Busy(r) /\ Insert(r, f, a, n) /\ Grounds(r, f, a, n)
           /\ ~Here(new) /\ rows'[new] = NewRow(r, f, a, n)
           /\ \A j \in 1..MaxRows : j # new => rows'[j] = rows[j]
<1>1. ASSUME NEW r \in Requests, NEW f \in req[r].todo
      PROVE  f \in Posted /\ Busy(r)
  BY DEF StoreTypeInv, FSTypeOK, RequestState, Placed, Busy
<1> QED
  BY <1>1, InsertedRow DEF Inserts

LEMMA StopKeeps == ASSUME StoreTypeInv, NEW r \in Requests, Stop(r) PROVE KeptRows
<1>1. ASSUME NEW i \in 1..MaxRows, rows[i] = NoRow PROVE rows'[i] = NoRow
  BY <1>1, StopOther
<1>2. ASSUME NEW i \in 1..MaxRows, rows[i] \in Row
      PROVE  /\ rows'[i].dir = rows[i].dir /\ rows'[i].called = rows[i].called
             /\ rows'[i].content = rows[i].content
             /\ rows'[i].name = rows[i].name /\ rows'[i].other = rows[i].other
  BY <1>2 DEF Stop, Row
<1> QED
  BY <1>1, <1>2 DEF KeptRows, Here, StoreTypeInv, FSTypeOK

LEMMA AbandonKeeps == ASSUME NEW rs, Abandon(rs) PROVE KeptRows
BY DEF Abandon, KeptRows, Here

Grows == \A s \in Stores : held[s] \subseteq held'[s]

LEMMA Effects ==
  ASSUME StoreTypeInv, StoredInv, [FSNext]_fsvars
  PROVE  /\ Grows /\ overlaps' \in Nat /\ overlaps <= overlaps'
         /\ \/ Restart
            \/ UNCHANGED <<conf, whole>> /\ KeptRows
            \/ UNCHANGED <<conf, whole>> /\ Inserts
<1> USE DEF StoreTypeInv
<1>0. overlaps \in Nat /\ conf.primary \in Stores /\ Secondary(conf) \in Stores
  BY BoundAssumption, SecondaryStore DEF FSTypeOK
<1>B. Beside => overlaps' \in Nat /\ overlaps <= overlaps'
  BY <1>0 DEF Beside
<1>R. ASSUME NEW r \in Requests
      PROVE  /\ req[r].kind \in {"idle", "contents", "sibling"}
             /\ req[r].todo \subseteq Posted
             /\ req[r].at # "look" => req[r].file.own \in Called
  BY PostedFields DEF FSTypeOK, RequestState, Placed
<1>U. UNCHANGED rows => KeptRows
  BY DEF KeptRows, Here
<1>W. ASSUME NEW store \in Stores, NEW n \in Names, Writes(store, n) PROVE Grows
  BY <1>W, WritesType DEF Grows
<1>1. ASSUME NEW r \in Requests, Post(r) \/ PostSibling(r)
      PROVE  /\ Grows /\ overlaps' \in Nat /\ overlaps <= overlaps'
             /\ UNCHANGED <<conf, whole>> /\ KeptRows
  BY <1>1, <1>B, <1>U DEF Post, PostSibling, Start, Grows
<1>2. ASSUME NEW r \in Requests, Look(r)
      PROVE  Grows /\ UNCHANGED <<conf, whole, overlaps>> /\ (KeptRows \/ Inserts)
  <2>1. PICK f \in req[r].todo :
          \/ Stop(r)
          \/ /\ \E i \in SameContents(r, f.dir, f.content) : Insert(r, f, f.asked, rows[i].name)
             /\ ~InTree(r, f)
          \/ /\ req[r].kind = "sibling" /\ SameContents(r, f.dir, f.content) = {}
             /\ Insert(r, f, f.own, Bare(f.content))
          \/ UNCHANGED rows
    BY <1>2 DEF Look
  <2>2. f \in Posted /\ f.asked \in Called /\ f.own \in Called /\ Bare(f.content) \in RowNames
    BY <1>R, PostedFields DEF RowNames
  <2>3. ASSUME NEW i \in SameContents(r, f.dir, f.content) PROVE rows[i].name \in RowNames
    BY RowFields DEF FSTypeOK, SameContents, Visible, Here
  <2>5. Grows /\ UNCHANGED <<conf, whole, overlaps>>
    BY <1>2 DEF Look, Grows
  <2>6. CASE Stop(r) \/ UNCHANGED rows
    BY <1>U, <2>5, <2>6, StopKeeps
  <2>7. ASSUME NEW i \in SameContents(r, f.dir, f.content), Insert(r, f, f.asked, rows[i].name),
               ~InTree(r, f)
        PROVE  Inserts
    BY <2>2, <2>3, <2>7 DEF Inserts, Grounds
  <2>8. ASSUME req[r].kind = "sibling", SameContents(r, f.dir, f.content) = {},
               Insert(r, f, f.own, Bare(f.content))
        PROVE  Inserts
    BY <2>2, <2>8 DEF Inserts, Grounds
  <2> QED
    BY <2>1, <2>5, <2>6, <2>7, <2>8
<1>3. ASSUME NEW r \in Requests, ChooseName(r)
      PROVE  Grows /\ UNCHANGED <<conf, whole, overlaps>> /\ KeptRows
  BY <1>3, <1>U DEF ChooseName, Grows
<1>4. ASSUME NEW r \in Requests, SavePrimary(r)
      PROVE  Grows /\ UNCHANGED <<conf, whole, overlaps>> /\ (KeptRows \/ Inserts)
  <2>1. /\ req[r].at # "look" /\ req[r].file \in req[r].todo /\ req[r].file.own \in Called
        /\ req[r].name \in Names /\ req[r].name \in RowNames
    BY <1>4, <1>R DEF SavePrimary, Placed, RowNames
  <2>2. Grows
    BY <1>0, <1>4, <1>W, <2>1 DEF SavePrimary
  <2> QED
    BY <1>4, <1>U, <2>1, <2>2, StopKeeps DEF SavePrimary, Written, Inserts, Grounds
<1>5. ASSUME NEW r \in Requests, SaveSecondary(r)
      PROVE  Grows /\ UNCHANGED <<conf, whole, overlaps>> /\ (KeptRows \/ Inserts)
  <2>1. /\ req[r].at # "look" /\ req[r].file \in req[r].todo /\ req[r].file.own \in Called
        /\ req[r].name \in Names /\ req[r].name \in RowNames
        /\ req[r].name \in held[conf.primary]
    BY <1>5, <1>R DEF SaveSecondary, Placed, RowNames, StoredInv
  <2>2. Grows
    BY <1>0, <1>5, <1>W, <2>1 DEF SaveSecondary
  <2>3. req[r].name \in held'[conf.primary]
    BY <1>0, <2>1, <2>2 DEF Grows
  <2> QED
    BY <1>5, <2>1, <2>2, <2>3, StopKeeps DEF SaveSecondary, Written, Inserts, Grounds
<1>6. ASSUME NEW r \in Requests, Commit(r) \/ Die(r)
      PROVE  Grows /\ UNCHANGED <<conf, whole, overlaps>> /\ KeptRows
  BY <1>6, StopKeeps, AbandonKeeps DEF Commit, Die, Grows
<1>7. CASE Delete
  <2>1. KeptRows
    BY <1>7 DEF Delete, KeptRows, Here, FSTypeOK
  <2> QED
    BY <1>7, <1>B, <2>1 DEF Delete, Grows
<1>8. CASE Restart
  <2>1. held' = held /\ overlaps' = overlaps
    BY <1>8 DEF Restart
  <2> QED
    BY <1>0, <1>8, <2>1 DEF Grows
<1>9. CASE Mirror
  BY <1>0, <1>9, <1>U DEF Mirror, Grows, FSTypeOK
<1>10. CASE UNCHANGED fsvars
  BY <1>0, <1>10, <1>U DEF fsvars, Grows
<1> QED
  BY <1>0, <1>1, <1>2, <1>3, <1>4, <1>5, <1>6, <1>7, <1>8, <1>9, <1>10 DEF FSNext, Handle

\* After a step, n is readable.
ReadableNext(n) ==
  \/ n \in held'[conf'.primary]
  \/ conf'.fallback /\ conf'.given /\ n \in held'[Secondary(conf)']

\* What was readable stays it when the stores grow, and when an operator who minds
\* `mc diff` changes the settings.
LEMMA StillReadable ==
  ASSUME StoreTypeInv, Grows, UNCHANGED conf \/ Restart, NEW n, Readable(conf, n)
  PROVE  ReadableNext(n)
<1>1. CASE UNCHANGED conf
  <2>1. Secondary(conf)' = Secondary(conf) /\ Secondary(conf) \in Stores /\ conf.primary \in Stores
    BY <1>1, SecondaryStore DEF StoreTypeInv, FSTypeOK, Secondary
  <2> QED
    BY <1>1, <2>1 DEF Readable, ReadableNext, Grows
<1>2. CASE Restart
  <2>1. PICK s \in Offered : Careful(s) /\ conf' = s /\ held' = held
    BY <1>2 DEF Restart
  <2>2. n \in held[conf.primary] \cup held[Secondary(conf)]
    BY DEF Readable
  <2>3. Readable(s, n)
    BY <2>1, <2>2 DEF Careful
  <2>4. Secondary(conf)' = Secondary(s)
    BY <2>1 DEF Secondary
  <2> QED
    BY <2>1, <2>3, <2>4 DEF Readable, ReadableNext
<1> QED
  BY <1>1, <1>2

LEMMA RestartKeeps == Restart => KeptRows
BY AbandonKeeps DEF Restart

LEMMA ReadableStep ==
  ASSUME StoreTypeInv, StoredInv, AloneInv, ReadableInv, [FSNext]_fsvars
  PROVE  ReadableInv'
<1> DEFINE Excused(i) == overlaps > 0 /\ rows[i].name = Bare(rows[i].content)
<1> SUFFICES ASSUME NEW i \in 1..MaxRows, Here(i)'
             PROVE  ReadableNext(rows'[i].name) \/ Excused(i)'
  BY DEF ReadableInv, Readable, ReadableNext
<1>0. Grows /\ overlaps \in Nat /\ overlaps' \in Nat /\ overlaps <= overlaps'
  BY Effects, BoundAssumption DEF StoreTypeInv, FSTypeOK
<1>K. ASSUME NEW j \in 1..MaxRows, Here(j), rows'[i].name = rows[j].name,
             rows'[i].content = rows[j].content, UNCHANGED conf \/ Restart
      PROVE  ReadableNext(rows'[i].name) \/ Excused(i)'
  <2>1. CASE Readable(conf, rows[j].name)
    BY <1>0, <1>K, <2>1, StillReadable
  <2>2. CASE Excused(j)
    <3>1. overlaps' > 0
      BY <1>0, <2>2
    <3> QED
      BY <1>K, <2>2, <3>1 DEF Bare
  <2> QED
    BY <1>K, <2>1, <2>2 DEF ReadableInv
<1>1. CASE KeptRows /\ (UNCHANGED conf \/ Restart)
  <2>1. Here(i) /\ rows'[i].name = rows[i].name /\ rows'[i].content = rows[i].content
    BY <1>1 DEF KeptRows
  <2> QED
    BY <1>1, <1>K, <2>1
<1>2. CASE Inserts /\ UNCHANGED conf
  <2>1. PICK r \in Requests, f \in Posted, a \in Called, n \in RowNames, new \in 1..MaxRows :
          /\ f \in req[r].todo /\ Busy(r) /\ Insert(r, f, a, n) /\ Grounds(r, f, a, n)
          /\ ~Here(new) /\ rows'[new] = NewRow(r, f, a, n)
          /\ \A j \in 1..MaxRows : j # new => rows'[j] = rows[j]
    BY <1>2, InsertsOne
  <2>2. /\ rows'[new] = NewRow(r, f, a, n)
        /\ \A j \in 1..MaxRows : j # new => rows'[j] = rows[j]
    BY <2>1
  <2>3. CASE i # new
    BY <1>2, <1>K, <2>2, <2>3 DEF Here
  <2>4. CASE i = new
    <3>1. rows'[i].name = n /\ rows'[i].content = f.content
      BY <2>2, <2>4 DEF NewRow
    <3>2. CASE \E j \in SameContents(r, f.dir, f.content) : n = rows[j].name
      BY <1>2, <1>K, <3>1, <3>2 DEF SameContents, Visible
    <3>3. CASE req[r].kind = "sibling" /\ SameContents(r, f.dir, f.content) = {} /\ n = Bare(f.content)
      <4>1. overlaps # 0
        BY <2>1, <3>3 DEF AloneInv
      <4> QED
        BY <1>0, <3>1, <3>3, <4>1 DEF Bare
    <3>4. CASE n \in held'[conf.primary]
      BY <1>2, <3>1, <3>4 DEF ReadableNext
    <3> QED
      BY <2>1, <3>2, <3>3, <3>4 DEF Grounds
  <2> QED
    BY <2>3, <2>4
<1> QED
  BY <1>1, <1>2, Effects, RestartKeeps

LEMMA WholeStep ==
  ASSUME StoreTypeInv, StoredInv, WholeInv, [FSNext]_fsvars
  PROVE  WholeInv'
<1> SUFFICES ASSUME whole', conf'.both, conf'.strict, conf'.seen,
                    NEW i \in 1..MaxRows, Here(i)', rows'[i].name # Bare(rows'[i].content)
             PROVE  rows'[i].name \in held'[Secondary(conf)']
  BY DEF WholeInv, Bare
<1>0. Grows /\ Secondary(conf) \in Stores
  BY Effects, SecondaryStore DEF StoreTypeInv, FSTypeOK
<1>C. UNCHANGED conf => Secondary(conf)' = Secondary(conf)
  BY DEF Secondary
<1>K. ASSUME NEW j \in 1..MaxRows, Here(j), rows'[i].name = rows[j].name,
             rows'[i].content = rows[j].content, UNCHANGED <<conf, whole>>
      PROVE  rows'[i].name \in held'[Secondary(conf)']
  BY <1>0, <1>C, <1>K DEF WholeInv, Grows, Bare
<1>1. CASE KeptRows /\ UNCHANGED <<conf, whole>>
  BY <1>1, <1>K DEF KeptRows
<1>2. CASE Inserts /\ UNCHANGED <<conf, whole>>
  <2>1. PICK r \in Requests, f \in Posted, a \in Called, n \in RowNames, new \in 1..MaxRows :
          /\ f \in req[r].todo /\ Busy(r) /\ Insert(r, f, a, n) /\ Grounds(r, f, a, n)
          /\ ~Here(new) /\ rows'[new] = NewRow(r, f, a, n)
          /\ \A j \in 1..MaxRows : j # new => rows'[j] = rows[j]
    BY <1>2, InsertsOne
  <2>2. /\ rows'[new] = NewRow(r, f, a, n)
        /\ \A j \in 1..MaxRows : j # new => rows'[j] = rows[j]
    BY <2>1
  <2>3. CASE i # new
    BY <1>2, <1>K, <2>2, <2>3 DEF Here
  <2>4. CASE i = new
    <3>1. rows'[i].name = n /\ rows'[i].content = f.content
      BY <2>2, <2>4 DEF NewRow
    <3>2. CASE \E j \in SameContents(r, f.dir, f.content) : n = rows[j].name
      BY <1>2, <1>K, <3>1, <3>2 DEF SameContents, Visible
    <3>3. n # Bare(f.content)
      BY <3>1 DEF Bare
    <3> QED
      BY <1>2, <1>C, <2>1, <3>1, <3>2, <3>3 DEF Grounds
  <2> QED
    BY <2>3, <2>4
<1>3. CASE Restart
  <2>1. PICK s \in Offered :
          /\ conf' = s /\ Abandon(Requests) /\ held' = held
          /\ whole' = \A j \in 1..MaxRows : Live(j) => rows[j].name \in held[Secondary(s)]
    BY <1>3 DEF Restart
  <2>2. Live(i) /\ rows'[i] = rows[i]
    <3>1. rows'[i] = IF rows[i].by \in Requests THEN NoRow ELSE rows[i]
      BY <2>1 DEF Abandon
    <3>2. rows[i] \in Row
      BY <3>1 DEF Here, StoreTypeInv, FSTypeOK
    <3> QED
      BY <3>1, <3>2, RowFields DEF Here, Live
  <2>3. Secondary(conf)' = Secondary(s)
    BY <2>1 DEF Secondary
  <2> QED
    BY <2>1, <2>2, <2>3
<1> QED
  BY <1>1, <1>2, <1>3, Effects

LEMMA StoredStep ==
  ASSUME StoreTypeInv, StoredInv, [FSNext]_fsvars
  PROVE  StoredInv'
<1> SUFFICES ASSUME NEW r \in Requests, req'[r].at = "secondary"
             PROVE  req'[r].name \in held'[conf'.primary]
  BY DEF StoredInv
<1> USE DEF StoreTypeInv
<1>0. Grows /\ conf.primary \in Stores /\ req \in [Requests -> RequestState]
  BY Effects, SecondaryStore DEF FSTypeOK
<1>S. ASSUME UNCHANGED conf, req'[r] = req[r] PROVE req'[r].name \in held'[conf'.primary]
  BY <1>0, <1>S DEF StoredInv, Grows
\* The steps of another request, and those that leave a request at another place.
<1>O. ASSUME NEW q \in Requests, UNCHANGED conf,
             req'[q].at # "secondary", \A s \in Requests : s # q => req'[s] = req[s]
      PROVE  req'[r].name \in held'[conf'.primary]
  BY <1>O, <1>S
<1>I. ASSUME NEW q \in Requests, NEW f, NEW a, NEW n, Insert(q, f, a, n)
      PROVE  req'[q].at # "secondary" /\ \A s \in Requests : s # q => req'[s] = req[s]
  BY <1>0, <1>I DEF Insert, RequestState
<1>P. ASSUME NEW q \in Requests, Stop(q)
      PROVE  req'[q].at # "secondary" /\ \A s \in Requests : s # q => req'[s] = req[s]
  BY <1>0, <1>P DEF Stop, Idle
<1>1. ASSUME NEW q \in Requests, NEW kind, NEW fs, Start(q, kind, fs)
      PROVE  req'[r].name \in held'[conf'.primary]
  <2>1. CASE r = q
    BY <1>1, <2>1 DEF Start, Idle
  <2>2. CASE r # q
    <3>1. req'[r] = [req[r] EXCEPT !.met = Busy(r)]
      BY <1>1, <2>2 DEF Start
    <3>2. req'[r].name = req[r].name /\ req'[r].at = req[r].at
      BY <1>0, <3>1 DEF RequestState
    <3> QED
      BY <1>0, <1>1, <3>2 DEF Start, StoredInv, Grows
  <2> QED
    BY <2>1, <2>2
<1>2. ASSUME NEW q \in Requests, Post(q) \/ PostSibling(q)
      PROVE  req'[r].name \in held'[conf'.primary]
  BY <1>1, <1>2 DEF Post, PostSibling
<1>3. ASSUME NEW q \in Requests, Look(q) PROVE req'[r].name \in held'[conf'.primary]
  <2>1. PICK f \in req[q].todo :
          \/ Stop(q) \/ \E a, n : Insert(q, f, a, n)
          \/ req' = [req EXCEPT ![q].at = "name", ![q].file = f]
    BY <1>3 DEF Look
  <2>2. ASSUME req' = [req EXCEPT ![q].at = "name", ![q].file = f]
        PROVE  req'[q].at # "secondary" /\ \A s \in Requests : s # q => req'[s] = req[s]
    BY <1>0, <2>2 DEF RequestState
  <2>3. UNCHANGED conf
    BY <1>3 DEF Look
  <2> QED
    BY <1>I, <1>O, <1>P, <2>1, <2>2, <2>3
<1>4. ASSUME NEW q \in Requests, ChooseName(q) PROVE req'[r].name \in held'[conf'.primary]
  <2>1. PICK n : req' = [req EXCEPT ![q].at = "primary", ![q].name = n]
    BY <1>4 DEF ChooseName
  <2>2. req'[q].at # "secondary" /\ \A s \in Requests : s # q => req'[s] = req[s]
    BY <1>0, <2>1 DEF RequestState
  <2> QED
    BY <1>4, <1>O, <2>2 DEF ChooseName
<1>5. ASSUME NEW q \in Requests, SavePrimary(q) PROVE req'[r].name \in held'[conf'.primary]
  <2>1. CASE req' = [req EXCEPT ![q].at = "secondary"] /\ Written(conf.primary, req[q].name)
    <3>1. req'[q].name = req[q].name /\ \A s \in Requests : s # q => req'[s] = req[s]
      BY <1>0, <2>1 DEF RequestState
    <3> QED
      BY <1>5, <1>S, <2>1, <3>1 DEF Written, SavePrimary
  <2> QED
    BY <1>5, <1>I, <1>O, <1>P, <2>1 DEF SavePrimary
<1>6. ASSUME NEW q \in Requests, SaveSecondary(q) PROVE req'[r].name \in held'[conf'.primary]
  BY <1>6, <1>I, <1>O, <1>P DEF SaveSecondary
<1>7. ASSUME NEW q \in Requests, Commit(q) PROVE req'[r].name \in held'[conf'.primary]
  BY <1>7, <1>O, <1>P DEF Commit
<1>8. ASSUME NEW q \in Requests, Die(q) PROVE req'[r].name \in held'[conf'.primary]
  BY <1>8, <1>S DEF Die, Abandon, Idle
<1>9. CASE Delete \/ Mirror \/ UNCHANGED fsvars
  BY <1>9, <1>S DEF Delete, Mirror, fsvars
<1>10. CASE Restart
  BY <1>10 DEF Restart, Abandon, Idle
<1> QED
  BY <1>2, <1>3, <1>4, <1>5, <1>6, <1>7, <1>8, <1>9, <1>10 DEF FSNext, Handle

\* Every step keeps the marks of the rows that it keeps.
KeptMarks == \A i \in 1..MaxRows : Here(i) /\ Here(i)' /\ Marked(i) => Marked(i)'

\* The steps of a request come in four shapes: it begins, it inserts a row, it leaves
\* the table alone, and it ends, with its rows or without them.
Began(r) == Post(r) \/ PostSibling(r)

Stayed(r) ==
  /\ UNCHANGED rows
  /\ \A q \in Requests : q # r => req'[q] = req[q]
  /\ req'[r].kind = req[r].kind /\ req'[r].todo = req[r].todo /\ req'[r].met = req[r].met
  /\ \/ req[r].at # "look" /\ req'[r].file = req[r].file
     \/ SameContents(r, req'[r].file.dir, req'[r].file.content) = {}

Shapes ==
  \/ \E r \in Requests : Began(r)
  \/ \E r \in Requests : \E f \in req[r].todo : \E a \in Called, n \in RowNames :
       Insert(r, f, a, n) /\ UNCHANGED overlaps
  \/ \E r \in Requests : Busy(r) /\ req[r].kind = "contents" /\ Stayed(r) /\ UNCHANGED overlaps
  \/ \E r \in Requests : Busy(r) /\ Stop(r) /\ UNCHANGED overlaps
  \/ \E rs \in SUBSET Requests :
       /\ Abandon(rs) /\ UNCHANGED overlaps
       /\ (\E r \in Requests : rs = {r} /\ Busy(r)) \/ rs = Requests
  \/ Delete
  \/ UNCHANGED <<rows, req, overlaps>>

LEMMA StepShapes == ASSUME StoreTypeInv, [FSNext]_fsvars PROVE Shapes
<1> USE DEF StoreTypeInv
<1>R. ASSUME NEW r \in Requests
      PROVE  /\ req[r] \in RequestState /\ req[r].todo \subseteq Posted
             /\ req[r].todo # {} => Busy(r)
             /\ req[r].at # "look" =>
                  /\ req[r].kind = "contents" /\ Busy(r)
                  /\ req[r].file \in req[r].todo /\ req[r].file.own \in Called
  BY PostedFields DEF FSTypeOK, RequestState, Placed, Busy
<1>1. ASSUME NEW r \in Requests, Began(r) PROVE Shapes
  BY <1>1 DEF Shapes
<1>3. ASSUME NEW r \in Requests, Look(r) PROVE Shapes
  <2>1. PICK f \in req[r].todo :
          \/ Stop(r)
          \/ \E i \in SameContents(r, f.dir, f.content) : Insert(r, f, f.asked, rows[i].name)
          \/ Insert(r, f, f.own, Bare(f.content))
          \/ /\ req[r].kind = "contents" /\ SameContents(r, f.dir, f.content) = {}
             /\ req' = [req EXCEPT ![r].at = "name", ![r].file = f] /\ UNCHANGED rows
    BY <1>3 DEF Look
  <2>2. /\ f \in Posted /\ f.asked \in Called /\ f.own \in Called /\ Bare(f.content) \in RowNames
        /\ Busy(r) /\ UNCHANGED overlaps
    BY <1>3, <1>R, PostedFields DEF RowNames, Look
  <2>3. ASSUME NEW i \in SameContents(r, f.dir, f.content) PROVE rows[i].name \in RowNames
    BY RowFields DEF FSTypeOK, SameContents, Visible, Here
  <2>4. ASSUME req[r].kind = "contents", SameContents(r, f.dir, f.content) = {},
               req' = [req EXCEPT ![r].at = "name", ![r].file = f], UNCHANGED rows
        PROVE  Stayed(r)
    <3>1. /\ req'[r].file = f /\ req'[r].kind = req[r].kind /\ req'[r].todo = req[r].todo
          /\ req'[r].met = req[r].met /\ \A q \in Requests : q # r => req'[q] = req[q]
      BY <1>R, <2>4 DEF RequestState, FSTypeOK
    <3> QED BY <2>4, <3>1 DEF Stayed
  <2>5. CASE Stop(r)
    BY <2>2, <2>5 DEF Shapes
  <2>6. ASSUME NEW a \in Called, NEW n \in RowNames, Insert(r, f, a, n) PROVE Shapes
    BY <2>2, <2>6 DEF Shapes
  <2>7. CASE req[r].kind = "contents" /\ Stayed(r)
    BY <2>2, <2>7 DEF Shapes
  <2> QED
    BY <2>1, <2>2, <2>3, <2>4, <2>5, <2>6, <2>7
<1>4. ASSUME NEW r \in Requests, ChooseName(r) PROVE Shapes
  <2>1. PICK n : req' = [req EXCEPT ![r].at = "primary", ![r].name = n]
    BY <1>4 DEF ChooseName
  <2>2. /\ req'[r].file = req[r].file /\ req'[r].kind = req[r].kind /\ req'[r].todo = req[r].todo
        /\ req'[r].met = req[r].met /\ \A q \in Requests : q # r => req'[q] = req[q]
    BY <1>R, <2>1 DEF RequestState, FSTypeOK
  <2>3. req[r].at # "look" /\ UNCHANGED <<rows, overlaps>>
    BY <1>4 DEF ChooseName
  <2>4. Stayed(r)
    BY <2>2, <2>3 DEF Stayed
  <2> QED
    BY <1>R, <2>3, <2>4 DEF Shapes
<1>5. ASSUME NEW r \in Requests, SavePrimary(r) PROVE Shapes
  <2>1. /\ Busy(r) /\ req[r].kind = "contents" /\ req[r].file \in req[r].todo /\ req[r].at # "look"
        /\ req[r].file.own \in Called /\ req[r].name \in RowNames /\ UNCHANGED overlaps
    BY <1>5, <1>R DEF SavePrimary, Placed, RowNames
  <2>2. CASE req' = [req EXCEPT ![r].at = "secondary"] /\ UNCHANGED rows
    <3>1. /\ req'[r].file = req[r].file /\ req'[r].kind = req[r].kind /\ req'[r].todo = req[r].todo
          /\ req'[r].met = req[r].met /\ \A q \in Requests : q # r => req'[q] = req[q]
      BY <1>R, <2>2 DEF RequestState, FSTypeOK
    <3>2. Stayed(r)
      BY <2>1, <2>2, <3>1 DEF Stayed
    <3> QED BY <2>1, <3>2 DEF Shapes
  <2>3. CASE Insert(r, req[r].file, req[r].file.own, req[r].name)
    BY <2>1, <2>3 DEF Shapes
  <2>4. CASE Stop(r)
    BY <2>1, <2>4 DEF Shapes
  <2> QED
    BY <1>5, <2>2, <2>3, <2>4 DEF SavePrimary
<1>6. ASSUME NEW r \in Requests, SaveSecondary(r) PROVE Shapes
  <2>1. /\ Busy(r) /\ req[r].file \in req[r].todo
        /\ req[r].file.own \in Called /\ req[r].name \in RowNames /\ UNCHANGED overlaps
    BY <1>6, <1>R DEF SaveSecondary, Placed, RowNames
  <2>2. CASE Insert(r, req[r].file, req[r].file.own, req[r].name)
    BY <2>1, <2>2 DEF Shapes
  <2>3. CASE Stop(r)
    BY <2>1, <2>3 DEF Shapes
  <2> QED
    BY <1>6, <2>2, <2>3 DEF SaveSecondary
<1>7. ASSUME NEW r \in Requests, Commit(r) PROVE Shapes
  BY <1>7 DEF Commit, Shapes
<1>8. ASSUME NEW r \in Requests, Die(r) PROVE Shapes
  BY <1>8 DEF Die, Shapes
<1>9. CASE Delete
  BY <1>9 DEF Shapes
<1>10. CASE Restart
  <2>1. Abandon(Requests) /\ UNCHANGED overlaps
    BY <1>10 DEF Restart
  <2> QED BY <2>1 DEF Shapes
<1>11. CASE Mirror \/ UNCHANGED fsvars
  BY <1>11 DEF Mirror, fsvars, Shapes
<1> QED
  BY <1>1, <1>3, <1>4, <1>5, <1>6, <1>7, <1>8, <1>9, <1>10, <1>11 DEF FSNext, Handle, Began

\* What an insertion leaves alone.
LEMMA InsertShape ==
  ASSUME StoreTypeInv, NEW r \in Requests, NEW f \in req[r].todo, NEW a \in Called,
         NEW n \in RowNames, Insert(r, f, a, n)
  PROVE  /\ f \in Posted /\ Busy(r)
         /\ req'[r].at = "look" /\ req'[r].kind = req[r].kind /\ req'[r].met = req[r].met
         /\ req'[r].todo = req[r].todo \ {f}
         /\ \A q \in Requests : q # r => req'[q] = req[q]
<1>1. req[r] \in RequestState /\ req \in [Requests -> RequestState] /\ Placed(r)
  BY DEF StoreTypeInv, FSTypeOK
<1>2. f \in Posted /\ Busy(r)
  BY <1>1 DEF RequestState, Placed, Busy
<1> QED
  BY <1>1, <1>2 DEF Insert, RequestState

\* What a beginning leaves alone.
LEMMA BeganShape ==
  ASSUME StoreTypeInv, NEW r \in Requests, Began(r)
  PROVE  /\ UNCHANGED rows /\ ~Busy(r) /\ Beside
         /\ req'[r].at = "look" /\ (req'[r].met <=> \E s \in Requests : Busy(s))
         /\ \A q \in Requests : q # r =>
              /\ req'[q].kind = req[q].kind /\ req'[q].todo = req[q].todo /\ req'[q].at = req[q].at
              /\ req'[q].file = req[q].file /\ (req'[q].met <=> Busy(q))
<1>1. PICK kind, fs : Start(r, kind, fs)
  BY DEF Began, Post, PostSibling
<1>2. ASSUME NEW q \in Requests, q # r
      PROVE  /\ req'[q].kind = req[q].kind /\ req'[q].todo = req[q].todo /\ req'[q].at = req[q].at
             /\ req'[q].file = req[q].file /\ (req'[q].met <=> Busy(q))
  <2>1. req'[q] = [req[q] EXCEPT !.met = Busy(q)] /\ req[q] \in RequestState
    BY <1>1, <1>2 DEF Start, StoreTypeInv, FSTypeOK
  <2> QED BY <2>1 DEF RequestState
<1>3. req'[r] = [Idle EXCEPT !.kind = kind, !.todo = fs, !.met = \E s \in Requests : Busy(s)]
  BY <1>1 DEF Start
<1> QED
  BY <1>1, <1>2, <1>3 DEF Start, Idle

LEMMA MarksKept == ASSUME StoreTypeInv, MetInv, [FSNext]_fsvars PROVE KeptMarks
<1> SUFFICES ASSUME NEW i \in 1..MaxRows, Here(i), Here(i)', Marked(i)
             PROVE  Marked(i)'
  BY DEF KeptMarks
<1>1. Shapes
  BY StepShapes
<1>2. rows[i] \in Row /\ rows[i].by \in Requests \cup {None} /\ rows[i].met \in BOOLEAN
      /\ (rows[i].by = None \/ Busy(rows[i].by))
  BY RowFields DEF Here, StoreTypeInv, FSTypeOK, MetInv, Held
<1>K. ASSUME rows'[i] = rows[i],
             \A q \in Requests : rows[i].by = q /\ req[q].met => req'[q].met
      PROVE  Marked(i)'
  BY <1>2, <1>K DEF Marked
<1>3. ASSUME NEW r \in Requests, Began(r) PROVE Marked(i)'
  <2>1. /\ UNCHANGED rows /\ ~Busy(r)
        /\ \A q \in Requests : q # r => (req'[q].met <=> Busy(q))
    BY <1>3, BeganShape
  <2>2. ASSUME NEW q \in Requests, rows[i].by = q PROVE req'[q].met
    <3>1. Busy(q) /\ q # r
      BY <1>2, <2>1, <2>2, NoneAssumption
    <3> QED BY <2>1, <3>1
  <2> QED BY <1>K, <2>1, <2>2
<1>4. ASSUME NEW r \in Requests, NEW f \in req[r].todo, NEW a \in Called, NEW n \in RowNames,
             Insert(r, f, a, n)
      PROVE  Marked(i)'
  <2>1. rows'[i] = rows[i]
    BY <1>4, InsertedRow
  <2> QED BY <1>4, <1>K, <2>1, InsertShape
<1>5. ASSUME NEW r \in Requests, Stayed(r) PROVE Marked(i)'
  BY <1>5, <1>K DEF Stayed
<1>6. ASSUME NEW r \in Requests, Stop(r) PROVE Marked(i)'
  <2>1. CASE rows[i].by = r
    <3>1. rows'[i] = [rows[i] EXCEPT !.by = None, !.met = @ \/ req[r].met]
      BY <1>6, <2>1 DEF Stop
    <3> QED BY <1>2, <2>1, <3>1 DEF Marked, Row
  <2>2. CASE rows[i].by # r
    BY <1>6, <1>K, <2>2 DEF Stop, StoreTypeInv, FSTypeOK
  <2> QED BY <2>1, <2>2
<1>7. ASSUME NEW rs \in SUBSET Requests, Abandon(rs) PROVE Marked(i)'
  BY <1>7, <1>K DEF Abandon, Here
<1>8. CASE Delete
  <2>1. rows'[i] = rows[i] /\ req' = req
    BY <1>8 DEF Delete, Here, StoreTypeInv, FSTypeOK
  <2> QED BY <1>K, <2>1
<1>9. CASE UNCHANGED <<rows, req, overlaps>>
  BY <1>9, <1>K
<1> QED
  BY <1>1, <1>3, <1>4, <1>5, <1>6, <1>7, <1>8, <1>9 DEF Shapes

LEMMA MetStep == ASSUME StoreTypeInv, MetInv, [FSNext]_fsvars PROVE MetInv'
<1>0. Shapes /\ KeptMarks /\ StoreTypeInv'
  BY StepShapes, MarksKept, StoreTypeStep
<1>M. Aware /\ (\A i \in 1..MaxRows : Held(i)) /\ \A r \in Requests : Late(r)
  BY DEF MetInv
<1>T. ASSUME NEW i \in 1..MaxRows, Here(i) PROVE rows[i].by \in Requests \cup {None}
  BY <1>T, RowFields DEF Here, StoreTypeInv, FSTypeOK
<1>U. ASSUME NEW i \in 1..MaxRows, Here(i)' PROVE rows'[i].by \in Requests \cup {None}
  BY <1>0, <1>U, RowFields DEF Here, StoreTypeInv, FSTypeOK
<1>H. ASSUME \A i \in 1..MaxRows : Here(i)' => Held(i)', \A q \in Requests : req'[q].at # "look" => Late(q)'
      PROVE  (\A i \in 1..MaxRows : Held(i)') /\ \A q \in Requests : Late(q)'
  BY <1>H DEF Held, Late
\* A request that goes on where it was, and sees no new row.
<1>G. ASSUME NEW q \in Requests, req[q].at # "look", req'[q].file = req[q].file,
             req[q].met => req'[q].met,
             \A i \in 1..MaxRows : Here(i)' /\ rows'[i].by \in {None, q} =>
               /\ Visible(q, i)
               /\ rows'[i].dir = rows[i].dir /\ rows'[i].content = rows[i].content
      PROVE  Late(q)'
  <2> SUFFICES ASSUME NEW i \in SameContents(q, req[q].file.dir, req[q].file.content)'
               PROVE  Marked(i)' /\ req'[q].met
    BY <1>G DEF Late
  <2>1. i \in SameContents(q, req[q].file.dir, req[q].file.content) /\ Here(i)'
    BY <1>G DEF SameContents, Visible
  <2>2. Marked(i) /\ req[q].met /\ Here(i) /\ i \in 1..MaxRows
    BY <1>G, <1>M, <2>1 DEF Late, SameContents, Visible
  <2> QED BY <1>0, <1>G, <2>1, <2>2 DEF KeptMarks
<1>1. ASSUME NEW r \in Requests, Began(r) PROVE MetInv'
  <2>0. /\ UNCHANGED rows /\ ~Busy(r)
        /\ req'[r].at = "look" /\ (req'[r].met <=> \E s \in Requests : Busy(s))
        /\ \A q \in Requests : q # r =>
              /\ req'[q].kind = req[q].kind /\ req'[q].at = req[q].at
              /\ req'[q].file = req[q].file /\ (req'[q].met <=> Busy(q))
    BY <1>1, BeganShape
  <2>1. Aware'
    BY <2>0 DEF Aware, Busy
  <2>2. ASSUME NEW i \in 1..MaxRows, Here(i)' PROVE Held(i)'
    BY <1>M, <1>T, <2>0, <2>2 DEF Held, Here, Busy
  <2>3. ASSUME NEW q \in Requests, req'[q].at # "look" PROVE Late(q)'
    <3>1. q # r /\ Busy(q) /\ req[q].at # "look" /\ req'[q].file = req[q].file /\ req'[q].met
      BY <2>0, <2>3 DEF StoreTypeInv, Placed, Busy
    <3> QED BY <1>G, <2>0, <3>1 DEF Visible, Here
  <2> QED BY <1>H, <2>1, <2>2, <2>3 DEF MetInv
\* The other steps begin no request.
<1>E. ASSUME \A q \in Requests : Busy(q)' => Busy(q) /\ (req[q].met => req'[q].met)
      PROVE  Aware'
  BY <1>E, <1>M DEF Aware
<1>2. ASSUME NEW r \in Requests, NEW f \in req[r].todo, NEW a \in Called, NEW n \in RowNames,
             Insert(r, f, a, n)
      PROVE  MetInv'
  <2>0. /\ Busy(r) /\ req'[r].at = "look" /\ req'[r].kind = req[r].kind /\ req'[r].met = req[r].met
        /\ \A q \in Requests : q # r => req'[q] = req[q]
    BY <1>2, InsertShape
  <2>1. PICK new \in 1..MaxRows :
          /\ ~Here(new) /\ rows'[new] = NewRow(r, f, a, n)
          /\ \A j \in 1..MaxRows : j # new => rows'[j] = rows[j]
    BY <1>2, InsertedRow
  <2>2. rows'[new].by = r /\ \A q \in Requests : Busy(q)' <=> Busy(q)
    BY <2>0, <2>1 DEF NewRow, Busy
  <2>3. ASSUME NEW i \in 1..MaxRows, Here(i)' PROVE Held(i)'
    <3>1. CASE i = new
      BY <2>0, <2>2, <3>1 DEF Held
    <3>2. CASE i # new
      BY <1>M, <1>T, <2>1, <2>2, <2>3, <3>2 DEF Held, Here
    <3> QED BY <3>1, <3>2
  <2>4. ASSUME NEW q \in Requests, req'[q].at # "look" PROVE Late(q)'
    <3>1. q # r /\ req'[q] = req[q]
      BY <2>0, <2>4
    <3>2. r # None
      BY NoneAssumption
    <3>3. ASSUME NEW i \in 1..MaxRows, Here(i)', rows'[i].by \in {None, q}
          PROVE  Visible(q, i) /\ rows'[i] = rows[i]
      BY <2>1, <2>2, <3>1, <3>2, <3>3 DEF Visible, Here
    <3> QED BY <1>G, <2>4, <3>1, <3>3
  <2> QED BY <1>H, <1>E, <2>0, <2>2, <2>3, <2>4 DEF MetInv
<1>3. ASSUME NEW r \in Requests, Busy(r), req[r].kind = "contents", Stayed(r) PROVE MetInv'
  <2>0. /\ UNCHANGED rows /\ \A q \in Requests : q # r => req'[q] = req[q]
        /\ req'[r].kind = req[r].kind /\ req'[r].met = req[r].met
        /\ \/ req[r].at # "look" /\ req'[r].file = req[r].file
           \/ SameContents(r, req'[r].file.dir, req'[r].file.content) = {}
    BY <1>3 DEF Stayed
  <2>1. \A q \in Requests : Busy(q)' <=> Busy(q)
    BY <2>0 DEF Busy
  <2>2. ASSUME NEW i \in 1..MaxRows, Here(i)' PROVE Held(i)'
    BY <1>M, <1>T, <2>0, <2>1, <2>2 DEF Held, Here
  <2>3. ASSUME NEW q \in Requests, req'[q].at # "look" PROVE Late(q)'
    <3>1. CASE SameContents(q, req'[q].file.dir, req'[q].file.content) = {}
      BY <2>0, <3>1 DEF Late, SameContents, Visible, Here
    <3>2. CASE req[q].at # "look" /\ req'[q].file = req[q].file
      BY <1>G, <2>0, <3>2 DEF Visible, Here
    <3> QED BY <2>0, <2>3, <3>1, <3>2
  <2> QED BY <1>H, <1>E, <2>0, <2>1, <2>2, <2>3 DEF MetInv
<1>4. ASSUME NEW r \in Requests, Busy(r), Stop(r) PROVE MetInv'
  <2>0. req'[r] = Idle /\ \A q \in Requests : q # r => req'[q] = req[q]
    BY <1>4 DEF Stop, StoreTypeInv, FSTypeOK
  <2>1. ~Busy(r)' /\ \A q \in Requests : q # r => (Busy(q)' <=> Busy(q))
    BY <2>0 DEF Busy, Idle
  <2>2. ASSUME NEW i \in 1..MaxRows, Here(i)'
        PROVE  /\ Here(i) /\ rows[i] \in Row
               /\ rows'[i].dir = rows[i].dir /\ rows'[i].content = rows[i].content
               /\ rows[i].by = r => rows'[i].by = None /\ (req[r].met => rows'[i].met)
               /\ rows[i].by # r => rows'[i] = rows[i]
    <3>1. Here(i) /\ rows'[i].dir = rows[i].dir /\ rows'[i].content = rows[i].content
      BY <1>4, <2>2, StopKeeps DEF KeptRows
    <3>2. rows[i] \in Row
      BY <3>1 DEF Here, StoreTypeInv, FSTypeOK
    <3> QED BY <1>4, <3>1, <3>2 DEF Stop, Row
  <2>3. ASSUME NEW i \in 1..MaxRows, Here(i)' PROVE Held(i)'
    BY <1>M, <1>T, <2>1, <2>2, <2>3 DEF Held
  <2>4. ASSUME NEW q \in Requests, req'[q].at # "look" PROVE Late(q)'
    <3>1. q # r /\ req'[q] = req[q] /\ Busy(q)
      BY <2>0, <2>4 DEF Idle, StoreTypeInv, Placed, Busy
    <3>2. req[r].met /\ req'[q].met
      BY <1>4, <1>M, <3>1 DEF Aware
    <3> SUFFICES ASSUME NEW i \in SameContents(q, req[q].file.dir, req[q].file.content)'
                 PROVE  Marked(i)' /\ req'[q].met
      BY DEF Late
    <3>3. i \in 1..MaxRows /\ Here(i)'
      BY DEF SameContents, Visible
    <3>4. CASE rows[i].by = r
      BY <2>2, <3>2, <3>3, <3>4 DEF Marked
    <3>5. CASE rows[i].by # r
      <4>1. i \in SameContents(q, req[q].file.dir, req[q].file.content)
        BY <2>2, <3>1, <3>3, <3>5 DEF SameContents, Visible
      <4>2. Marked(i) /\ Here(i)
        BY <1>M, <2>2, <2>4, <3>1, <3>3, <4>1 DEF Late
      <4> QED BY <1>0, <3>2, <3>3, <4>2 DEF KeptMarks
    <3> QED BY <3>4, <3>5
  <2> QED BY <1>H, <1>E, <2>0, <2>1, <2>3, <2>4 DEF MetInv
<1>5. ASSUME NEW rs \in SUBSET Requests, Abandon(rs) PROVE MetInv'
  <2>0. \A q \in Requests : req'[q] = IF q \in rs THEN Idle ELSE req[q]
    BY <1>5 DEF Abandon
  <2>1. \A q \in Requests : (q \in rs => ~Busy(q)') /\ (q \notin rs => (Busy(q)' <=> Busy(q)))
    BY <2>0 DEF Busy, Idle
  <2>2. ASSUME NEW i \in 1..MaxRows, Here(i)'
        PROVE  Here(i) /\ rows'[i] = rows[i] /\ rows[i].by \notin rs
    BY <1>5, <2>2 DEF Abandon, Here
  <2>3. ASSUME NEW i \in 1..MaxRows, Here(i)' PROVE Held(i)'
    BY <1>M, <1>T, <2>1, <2>2, <2>3 DEF Held
  <2>4. ASSUME NEW q \in Requests, req'[q].at # "look" PROVE Late(q)'
    <3>1. req'[q] = req[q]
      BY <2>0, <2>4 DEF Idle
    <3> QED BY <1>G, <2>2, <2>4, <3>1 DEF Visible
  <2> QED BY <1>H, <1>E, <2>0, <2>1, <2>3, <2>4 DEF MetInv
<1>6. CASE Delete
  <2>0. req' = req /\ \A i \in 1..MaxRows : Here(i)' => Here(i) /\ rows'[i] = rows[i]
    BY <1>6 DEF Delete, Here, StoreTypeInv, FSTypeOK
  <2>3. ASSUME NEW i \in 1..MaxRows, Here(i)' PROVE Held(i)'
    BY <1>M, <1>T, <2>0, <2>3 DEF Held, Busy
  <2>4. ASSUME NEW q \in Requests, req'[q].at # "look" PROVE Late(q)'
    BY <1>G, <2>0, <2>4 DEF Visible
  <2> QED BY <1>H, <1>E, <2>0, <2>3, <2>4 DEF MetInv, Busy
<1>7. CASE UNCHANGED <<rows, req, overlaps>>
  BY <1>7 DEF MetInv, Aware, Held, Late, Marked, SameContents, Visible, Here, Busy
<1> QED
  BY <1>0, <1>1, <1>2, <1>3, <1>4, <1>5, <1>6, <1>7 DEF Shapes

LEMMA OnceStep ==
  ASSUME StoreTypeInv, StoredInv, MetInv, OnceInv, [FSNext]_fsvars
  PROVE  OnceInv'
<1>0. KeptMarks
  BY MarksKept
<1>1. CASE KeptRows
  <2> SUFFICES ASSUME NEW i \in 1..MaxRows, NEW j \in 1..MaxRows, Siblings(i, j)'
               PROVE  (Marked(i)' /\ Marked(j)') \/ Agree(i, j)'
    BY DEF OnceInv
  <2>1. Here(i) /\ Here(j) /\ Here(i)' /\ Here(j)' /\ Siblings(i, j)
    BY <1>1 DEF KeptRows, Siblings
  <2>2. Agree(i, j) => Agree(i, j)'
    BY <1>1, <2>1 DEF KeptRows, Agree
  <2> QED BY <1>0, <2>1, <2>2 DEF OnceInv, KeptMarks
<1>2. CASE Inserts
  <2>1. PICK r \in Requests, f \in Posted, a \in Called, n \in RowNames, new \in 1..MaxRows :
          /\ f \in req[r].todo /\ Busy(r) /\ Insert(r, f, a, n) /\ Grounds(r, f, a, n)
          /\ ~Here(new) /\ rows'[new] = NewRow(r, f, a, n)
          /\ \A j \in 1..MaxRows : j # new => rows'[j] = rows[j]
    BY <1>2, InsertsOne
  <2>2. /\ \A j \in 1..MaxRows : j # new => rows'[j] = rows[j]
        /\ f \in Posted /\ Busy(r) /\ req'[r].met = req[r].met
    BY <2>1, InsertShape
  <2>3. /\ rows'[new].name = n /\ rows'[new].content = f.content /\ rows'[new].dir = f.dir
        /\ rows'[new].called = a /\ rows'[new].other = (a # f.own) /\ rows'[new].by = r
        /\ rows'[new].met =
             \E j \in SameContents(r, f.dir, f.content) : rows[j].name = n /\ rows[j].met
    BY <2>1 DEF NewRow
  <2>4. r # None
    BY NoneAssumption
  \* The new row and one that was there.
  <2>5. ASSUME NEW j \in 1..MaxRows, j # new, Here(j), rows[j].content = f.content,
               OwnerOf[rows[j].dir] = OwnerOf[f.dir]
        PROVE  \/ Marked(j)' /\ Marked(new)'
               \/ /\ rows[j].name = n
                  /\ rows[j].dir = f.dir /\ rows[j].called = a => rows[j].other \/ a # f.own
    <3>0. Here(j)' /\ (Marked(j) => Marked(j)') /\ rows[j].by \in Requests \cup {None}
      <4>1. rows[j] \in Row /\ rows'[j] = rows[j]
        BY <2>2, <2>5 DEF Here, StoreTypeInv, FSTypeOK
      <4>2. Here(j)'
        BY <2>5, <4>1 DEF Here
      <4> QED BY <1>0, <2>5, <4>1, <4>2, RowFields DEF KeptMarks
    <3>M. req[r].met => Marked(new)'
      BY <2>2, <2>3, <2>4 DEF Marked
    <3>1. CASE ~Visible(r, j)
      <4>1. rows[j].by \in Requests /\ rows[j].by # r /\ rows[j].by # None
        BY <2>5, <3>0, <3>1 DEF Visible
      <4>2. req[rows[j].by].met /\ req[r].met
        BY <2>2, <2>5, <4>1 DEF MetInv, Aware, Held
      <4> QED BY <3>0, <3>M, <4>1, <4>2 DEF Marked
    <3>2. CASE Visible(r, j)
      <4>1. j \in SameContents(r, f.dir, f.content)
        BY <2>5, <3>2 DEF SameContents
      <4>2. CASE req[r].at # "look" /\ f = req[r].file
        BY <3>0, <3>M, <4>1, <4>2 DEF MetInv, Late
      <4>3. ASSUME NEW i \in SameContents(r, f.dir, f.content), n = rows[i].name,
                   a = f.asked, ~InTree(r, f)
            PROVE  \/ Marked(j)' /\ Marked(new)'
                   \/ /\ rows[j].name = n
                      /\ rows[j].dir = f.dir /\ rows[j].called = a => rows[j].other \/ a # f.own
        <5>1. rows[j].dir = f.dir /\ rows[j].called = a => a # f.own
          BY <4>1, <4>3 DEF InTree
        <5>2. CASE rows[j].name # n
          <6>1. Siblings(i, j) /\ ~Agree(i, j) /\ i \in 1..MaxRows
            BY <2>5, <4>3, <5>2 DEF Siblings, Agree, SameContents, Visible
          <6>2. Marked(i) /\ Marked(j)
            BY <6>1 DEF OnceInv
          <6>3. rows[i].by \in {None, r}
            BY <4>3 DEF SameContents, Visible
          <6>4. rows[i].met \/ req[r].met
            BY <6>2, <6>3 DEF Marked
          <6>5. Marked(new)'
            BY <2>3, <3>M, <4>3, <6>4 DEF Marked
          <6> QED BY <3>0, <6>2, <6>5
        <5> QED BY <5>1, <5>2
      <4> QED BY <2>1, <4>1, <4>2, <4>3 DEF Grounds
    <3> QED BY <3>1, <3>2
  <2> SUFFICES ASSUME NEW i \in 1..MaxRows, NEW j \in 1..MaxRows, Siblings(i, j)'
               PROVE  (Marked(i)' /\ Marked(j)') \/ Agree(i, j)'
    BY DEF OnceInv
  <2>6. /\ i # j /\ Here(i)' /\ Here(j)' /\ rows'[i].content = rows'[j].content
        /\ OwnerOf[rows'[i].dir] = OwnerOf[rows'[j].dir]
    BY DEF Siblings
  <2>7. CASE i = new
    <3>1. j # new /\ rows'[j] = rows[j] /\ Here(j) /\ rows[j].content = f.content
          /\ OwnerOf[rows[j].dir] = OwnerOf[f.dir]
      BY <2>2, <2>3, <2>6, <2>7 DEF Here
    <3> QED BY <2>3, <2>5, <2>7, <3>1 DEF Agree
  <2>8. CASE j = new
    <3>1. i # new /\ rows'[i] = rows[i] /\ Here(i) /\ rows[i].content = f.content
          /\ OwnerOf[rows[i].dir] = OwnerOf[f.dir]
      BY <2>2, <2>3, <2>6, <2>8 DEF Here
    <3> QED BY <2>3, <2>5, <2>8, <3>1 DEF Agree
  <2>9. CASE i # new /\ j # new
    <3>1. rows'[i] = rows[i] /\ rows'[j] = rows[j] /\ Here(i) /\ Here(j) /\ Siblings(i, j)
      BY <2>2, <2>6, <2>9 DEF Here, Siblings
    <3> QED BY <1>0, <2>6, <3>1 DEF OnceInv, KeptMarks, Agree
  <2> QED
    BY <2>7, <2>8, <2>9
<1> QED
  BY <1>1, <1>2, Effects, RestartKeeps

\* A request that goes on alone keeps what it has found.
LEMMA AloneStep ==
  ASSUME StoreTypeInv, StoredInv, AloneInv, [FSNext]_fsvars
  PROVE  AloneInv'
<1>0. /\ overlaps \in Nat /\ overlaps' \in Nat /\ overlaps <= overlaps' /\ Shapes
  BY Effects, StepShapes, BoundAssumption DEF StoreTypeInv, FSTypeOK
<1> SUFFICES ASSUME overlaps = 0, overlaps' = 0
             PROVE  AloneInv'
  BY <1>0 DEF AloneInv
<1>A. \A r, s \in Requests : Busy(r) /\ Busy(s) => r = s
  BY DEF AloneInv
<1>R. ASSUME NEW r \in Requests, ~Busy(r) PROVE req[r].kind = "idle" /\ req[r].todo = {}
  BY <1>R DEF StoreTypeInv, Placed, Busy
\* While somebody is at work, nobody else begins or deletes.
<1>C. Beside => \A r \in Requests : ~Busy(r)
  BY <1>0 DEF Beside
<1>E. ASSUME \A r \in Requests : ~Busy(r)' PROVE AloneInv'
  BY <1>E DEF AloneInv, Busy
<1>1. ASSUME NEW r \in Requests, Began(r) PROVE AloneInv'
  <2>1. PICK kind, fs :
          /\ Start(r, kind, fs)
          /\ kind = "sibling" => \A f \in fs : SameContents(r, f.dir, f.content) # {}
    <3>1. CASE Post(r)
      BY <3>1 DEF Post
    <3>2. CASE PostSibling(r)
      <4>1. PICK i \in 1..MaxRows, d \in Directories, a \in FileNames :
              /\ Live(i) /\ OwnerOf[rows[i].dir] = OwnerOf[d]
              /\ Start(r, "sibling",
                       {[dir |-> d, own |-> rows[i].name, asked |-> a, content |-> rows[i].content]})
        BY <3>2 DEF PostSibling
      <4>2. i \in SameContents(r, d, rows[i].content)
        BY <4>1 DEF Live, SameContents, Visible
      <4> QED BY <4>1, <4>2
    <3> QED BY <1>1, <3>1, <3>2 DEF Began
  <2>2. /\ req'[r].kind = kind /\ req'[r].todo = fs /\ rows' = rows /\ Beside
        /\ \A q \in Requests : q # r => req'[q] = [req[q] EXCEPT !.met = Busy(q)]
    BY <2>1 DEF Start, Idle
  <2>3. \A q \in Requests : q # r => req'[q].kind = "idle"
    BY <1>C, <1>R, <2>2 DEF StoreTypeInv, FSTypeOK, RequestState
  <2>4. \A f \in fs : SameContents(r, f.dir, f.content)' = SameContents(r, f.dir, f.content)
    BY <2>2 DEF SameContents, Visible, Here
  <2> QED
    BY <2>1, <2>2, <2>3, <2>4 DEF AloneInv, Busy
<1>2. ASSUME NEW r \in Requests, NEW f \in req[r].todo, NEW a \in Called, NEW n \in RowNames,
             Insert(r, f, a, n)
      PROVE  AloneInv'
  <2>0. /\ Busy(r) /\ req'[r].kind = req[r].kind /\ req'[r].todo = req[r].todo \ {f}
        /\ \A q \in Requests : q # r => req'[q] = req[q]
    BY <1>2, InsertShape
  <2>1. PICK new \in 1..MaxRows :
          /\ ~Here(new) /\ \A j \in 1..MaxRows : j # new => rows'[j] = rows[j]
    BY <1>2, InsertedRow
  <2>2. ASSUME NEW d, NEW c, NEW j \in SameContents(r, d, c) PROVE j \in SameContents(r, d, c)'
    <3>1. j \in 1..MaxRows /\ Here(j) /\ rows'[j] = rows[j]
      BY <2>1 DEF SameContents, Visible
    <3> QED BY <3>1 DEF SameContents, Visible, Here
  <2>3. ASSUME NEW q \in Requests, req'[q].kind = "sibling", NEW g \in req'[q].todo
        PROVE  SameContents(q, g.dir, g.content)' # {}
    <3>1. q = r
      BY <1>A, <2>0, <2>3 DEF Busy
    <3> QED BY <2>0, <2>2, <2>3, <3>1 DEF AloneInv
  <2> QED BY <1>A, <2>0, <2>3 DEF AloneInv, Busy
<1>3. ASSUME NEW r \in Requests, Busy(r), req[r].kind = "contents", Stayed(r) PROVE AloneInv'
  <2>1. \A q \in Requests : req'[q].kind = req[q].kind
    BY <1>3 DEF Stayed
  <2>2. \A q \in Requests : req'[q].kind # "sibling"
    BY <1>3, <1>A, <2>1 DEF Busy
  <2> QED BY <1>A, <2>1, <2>2 DEF AloneInv, Busy
<1>4. ASSUME NEW r \in Requests, Busy(r), Stop(r) PROVE AloneInv'
  BY <1>4, <1>A, <1>E DEF Stop, Busy, Idle, StoreTypeInv, FSTypeOK
<1>5. ASSUME NEW rs \in SUBSET Requests, Abandon(rs),
             (\E r \in Requests : rs = {r} /\ Busy(r)) \/ rs = Requests
      PROVE  AloneInv'
  BY <1>5, <1>A, <1>E DEF Abandon, Busy, Idle
<1>6. CASE Delete
  BY <1>6, <1>C, <1>E DEF Delete, Busy
<1>7. CASE UNCHANGED <<rows, req, overlaps>>
  BY <1>7 DEF AloneInv, Busy, SameContents, Visible, Here
<1> QED
  BY <1>0, <1>1, <1>2, <1>3, <1>4, <1>5, <1>6, <1>7 DEF Shapes

LEMMA StoreInvStep == StoreInv /\ [FSNext]_fsvars => StoreInv'
BY StoreTypeStep, StoredStep, ReadableStep, WholeStep, AloneStep, MetStep, OnceStep DEF StoreInv

LEMMA StoreInvariant == FSSpec => []StoreInv
BY StoreInvInit, StoreInvStep, PTL DEF FSSpec

\* Every live file can be downloaded, or names the bare checksum that a sibling was
\* posted with while it was deleted: for any number of requests, files and restarts.
THEOREM FilesStayReadable == FSSpec => []LiveFilesReadable
<1>1. StoreInv => LiveFilesReadable
  BY DEF StoreInv, ReadableInv, LiveFilesReadable, Live, Downloadable
<1> QED
  BY <1>1, StoreInvariant, PTL

\* With strict dual writes the secondary store holds all that live rows name, if it
\* did when the gateway started: SavePrimary and SaveSecondary come before Insert,
\* rows that share a name share it with one that was stored so.
THEOREM SecondaryStaysWhole == FSSpec => []StrictKeepsWhole
<1>1. StoreInv => StrictKeepsWhole
  BY DEF StoreInv, WholeInv, StrictKeepsWhole, Live
<1> QED
  BY <1>1, StoreInvariant, PTL

\* An owner's rows with the same contents share one object and no two are at one place,
\* but for requests that met one another, and rows that are called otherwise than the
\* tree was searched for: for any users, names and batches.
THEOREM ContentsStoredOnce == FSSpec => []FilesOnce
<1>1. StoreInv => FilesOnce
  BY DEF StoreInv, OnceInv, FilesOnce, Live, Here, Siblings, Agree, Marked
<1> QED
  BY <1>1, StoreInvariant, PTL

-----------------------------------------------------------------------------
(***************************************************************************)
(* Downloads of a directory.  Paths have positions in a listing that       *)
(* changes between two pages; the first lemmas count them.                 *)
(***************************************************************************)

\* The position of p among the paths in P.
RankIn(P, p) == Cardinality({q \in P : q < p})

\* The paths in S at a position before T.
Before(S, P, T) == {p \in S : RankIn(P, p) < T}

LEMMA FinitePaths ==
  /\ Paths \subseteq Nat
  /\ \A P \in SUBSET Paths : IsFiniteSet(P) /\ Cardinality(P) \in Nat
<1>1. IsFiniteSet(Paths)
  BY SizeAssumption, FS_Interval DEF Paths
<1>2. ASSUME NEW P \in SUBSET Paths PROVE IsFiniteSet(P) /\ Cardinality(P) \in Nat
  BY <1>1, FS_Subset, FS_CardinalityType
<1>3. Paths \subseteq Nat
  BY SizeAssumption DEF Paths
<1> QED
  BY <1>2, <1>3

LEMMA RankTypes ==
  ASSUME NEW P \in SUBSET Paths, NEW p
  PROVE  RankIn(P, p) \in Nat /\ IsFiniteSet({q \in P : q < p})
<1>1. {q \in P : q < p} \in SUBSET Paths
  OBVIOUS
<1> QED
  BY <1>1, FinitePaths DEF RankIn

\* A path that is listed comes before the end ...
LEMMA RankBelow ==
  ASSUME NEW P \in SUBSET Paths, NEW p \in P
  PROVE  RankIn(P, p) < Cardinality(P)
<1> DEFINE B == {q \in P : q < p}
<1>1. IsFiniteSet(P) /\ Cardinality(P) \in Nat /\ Cardinality(B) \in Nat /\ B \in SUBSET P
  BY FinitePaths, RankTypes DEF RankIn
<1>2. p \notin B
  <2>1. p \in Nat
    BY FinitePaths
  <2> QED
    BY <2>1
<1>3. B # P
  BY <1>2
<1>4. Cardinality(B) <= Cardinality(P) /\ Cardinality(P) # Cardinality(B)
  <2> HIDE DEF B
  <2> QED
    BY <1>1, <1>3, FS_Subset
<1> QED
  BY <1>1, <1>4 DEF RankIn

\* ... and no two paths at one position.
LEMMA RankInjective ==
  ASSUME NEW P \in SUBSET Paths, NEW p \in P, NEW q \in P, p < q
  PROVE  RankIn(P, p) < RankIn(P, q)
<1> DEFINE A == {x \in P : x < p}
           B == {x \in P : x < q}
<1>1. IsFiniteSet(B) /\ Cardinality(B) \in Nat /\ Cardinality(A) \in Nat
  BY RankTypes DEF RankIn
<1>2. p \in Nat /\ q \in Nat /\ P \subseteq Nat
  BY FinitePaths
<1>3. p \in B /\ p \notin A
  BY <1>2
<1>4. A \in SUBSET B /\ A # B
  <2>1. \A x \in P : x < p => x < q
    BY <1>2
  <2>2. A \subseteq B
    BY <2>1
  <2> QED
    BY <1>3, <2>2
<1>5. Cardinality(A) <= Cardinality(B) /\ Cardinality(B) # Cardinality(A)
  <2> HIDE DEF A, B
  <2> QED
    BY <1>1, <1>4, FS_Subset
<1> QED
  BY <1>1, <1>5 DEF RankIn

\* Removing a path moves the others up by one position at most, adding one never.
LEMMA RankWithout ==
  ASSUME NEW P \in SUBSET Paths, NEW d, NEW p
  PROVE  RankIn(P \ {d}, p) >= RankIn(P, p) - 1
<1> DEFINE B == {q \in P : q < p}
<1>1. {q \in P \ {d} : q < p} = B \ {d}
  OBVIOUS
<1>2. IsFiniteSet(B) /\ Cardinality(B) \in Nat
  BY RankTypes DEF RankIn
<1>3. Cardinality(B \ {d}) = IF d \in B THEN Cardinality(B) - 1 ELSE Cardinality(B)
  BY <1>2, FS_RemoveElement
<1> QED
  BY <1>1, <1>2, <1>3 DEF RankIn

LEMMA RankWith ==
  ASSUME NEW P \in SUBSET Paths, NEW Q \in SUBSET Paths, P \subseteq Q, NEW p
  PROVE  RankIn(Q, p) >= RankIn(P, p)
<1> DEFINE A == {q \in P : q < p}
           B == {q \in Q : q < p}
<1>1. IsFiniteSet(B) /\ Cardinality(B) \in Nat /\ Cardinality(A) \in Nat /\ A \in SUBSET B
  BY RankTypes DEF RankIn
<1> QED
  BY <1>1, FS_Subset DEF RankIn

\* Once path d is removed, at most one path more is at a position before T.
LEMMA PassedWithout ==
  ASSUME NEW P \in SUBSET Paths, NEW d, NEW S \in SUBSET P, NEW T \in Nat
  PROVE  Cardinality(Before(S \ {d}, P \ {d}, T)) <= Cardinality(Before(S, P, T)) + 1
<1> USE DEF Before
<1> DEFINE A == Before(S, P, T)
           B == Before(S \ {d}, P \ {d}, T)
<1>1. /\ A \in SUBSET Paths /\ IsFiniteSet(A) /\ Cardinality(A) \in Nat
      /\ B \in SUBSET Paths /\ IsFiniteSet(B) /\ Cardinality(B) \in Nat
  BY FinitePaths
<1>2. ASSUME NEW p \in B \ A PROVE RankIn(P, p) = T
  <2>1. RankIn(P, p) \in Nat /\ RankIn(P \ {d}, p) \in Nat
    BY RankTypes
  <2>2. RankIn(P \ {d}, p) >= RankIn(P, p) - 1
    BY RankWithout
  <2>3. RankIn(P \ {d}, p) < T /\ ~(RankIn(P, p) < T)
    OBVIOUS
  <2> QED
    BY <2>1, <2>2, <2>3
<1>3. ASSUME NEW p \in B \ A, NEW q \in B \ A PROVE p = q
  <2>1. p \in P /\ q \in P /\ p \in Nat /\ q \in Nat
    BY FinitePaths
  <2>2. RankIn(P, p) = RankIn(P, q)
    BY <1>2
  <2>3. ~(p < q) /\ ~(q < p)
    <3>1. ASSUME NEW y \in P, NEW z \in P, y < z
          PROVE  RankIn(P, y) < RankIn(P, z) /\ RankIn(P, y) \in Nat /\ RankIn(P, z) \in Nat
      BY <3>1, RankInjective, RankTypes
    <3> QED
      BY <2>1, <2>2, <3>1
  <2> QED
    BY <2>1, <2>3
<1>4. CASE B \ A = {}
  <2>1. B \in SUBSET A
    BY <1>4
  <2>2. Cardinality(B) <= Cardinality(A)
    BY <1>1, <2>1, FS_Subset
  <2> QED
    BY <1>1, <2>2
<1>5. CASE B \ A # {}
  <2>1. PICK x : x \in B \ A
    BY <1>5
  <2>2. B \in SUBSET (A \cup {x})
    BY <1>3, <2>1
  <2>3. IsFiniteSet(A \cup {x}) /\ Cardinality(A \cup {x}) = Cardinality(A) + 1
    BY <1>1, <2>1, FS_AddElement
  <2>4. Cardinality(B) <= Cardinality(A \cup {x})
    BY <2>2, <2>3, FS_Subset
  <2> QED
    BY <1>1, <2>3, <2>4
<1> QED
  BY <1>4, <1>5

\* A finite set of versions has a latest one.
LEMMA LatestExists ==
  ASSUME NEW V \in SUBSET Nat, IsFiniteSet(V), V # {}
  PROVE  \E v \in V : \A w \in V : w <= v
<1> DEFINE Later(v) == {w \in V : w > v}
           T == {Later(v) : v \in V}
<1>1. T \subseteq FiniteSubsetsOf(V) /\ T # {}
  <2>1. ASSUME NEW v \in V PROVE Later(v) \in SUBSET V /\ IsFiniteSet(Later(v))
    <3>1. Later(v) \in SUBSET V
      OBVIOUS
    <3> QED
      BY <3>1, FS_Subset
  <2> QED
    BY <2>1 DEF FiniteSubsetsOf
<1>2. IsWellFoundedOn(StrictSubsetOrdering(V), FiniteSubsetsOf(V))
  BY FS_StrictSubsetOrderingWellFounded
<1>3. PICK x \in T : \A y \in T : ~(<<y, x>> \in StrictSubsetOrdering(V))
  BY <1>1, <1>2, WFMin
<1>4. PICK v \in V : x = Later(v)
  OBVIOUS
<1>5. ASSUME NEW w \in V, w > v PROVE FALSE
  <2>1. v \in Nat /\ w \in Nat /\ V \subseteq Nat
    OBVIOUS
  <2>2. /\ \A u \in Nat : u > w => u > v
        /\ ~(w > w)
    BY <1>5, <2>1
  <2>3. Later(w) \subseteq Later(v) /\ w \in Later(v) /\ w \notin Later(w)
    BY <1>5, <2>1, <2>2
  <2> QED
    <3>1. /\ Later(w) \subseteq x /\ Later(w) # x /\ Later(w) \in T
          /\ x \in SUBSET V /\ Later(w) \in SUBSET V
      BY <1>4, <2>3
    <3>2. ASSUME NEW A \in SUBSET V, NEW B \in SUBSET V, A \subseteq B, A # B
          PROVE  <<A, B>> \in StrictSubsetOrdering(V)
      <4>1. <<A, B>> \in (SUBSET V) \X (SUBSET V) /\ <<A, B>>[1] = A /\ <<A, B>>[2] = B
        OBVIOUS
      <4>2. <<A, B>>[1] \subseteq <<A, B>>[2] /\ <<A, B>>[1] # <<A, B>>[2]
        BY <3>2
      <4> QED
        BY <4>1, <4>2 DEF StrictSubsetOrdering
    <3>3. <<Later(w), x>> \in StrictSubsetOrdering(V)
      BY <3>1, <3>2
    <3> QED
      BY <1>3, <3>1, <3>3
<1> QED
  BY <1>5

\* The pages that a count of t promises hold more than t entries.
LEMMA PagesReach ==
  ASSUME NEW t \in Nat, NEW n \in Nat \ {0}, n > t \div PageSize + 1
  PROVE  (n - 1) * PageSize > t
<1>1. PageSize \in Nat \ {0}
  BY SizeAssumption
<1>2. t < (t \div PageSize + 1) * PageSize /\ t \div PageSize \in Nat
  BY <1>1
<1>3. (n - 1) * PageSize >= (t \div PageSize + 1) * PageSize
  BY <1>1, <1>2
<1> QED
  BY <1>1, <1>2, <1>3

\* A download past its first page; the file it is at, while it is.
Iterating(s)   == s.at \in {"next", "meta", "open", "stream", "move"}
Downloading(s) == s.at \in {"meta", "open", "stream", "move"}

\* What a process has found on the gateway was made there ...
MadeBy(s) ==
  /\ \A f \in s.entries : f.ver <= made[f.path]
  /\ Downloading(s) => s.file.ver <= made[s.file.path]

\* ... and what it reports is in the local directory.
PlacedBy(s) ==
  /\ \A f \in s.ok : target[f.path] # 0
  /\ ~Downloading(s) => s.temp = "none"

\* The paths of l that a listing has passed over: neither downloaded nor waiting for it,
\* and before the next page, if there is one; all that are left, if there is none.
Passed(s, l) ==
  {p \in l \ (s.seen \cup PathsOf(s.entries)) :
     HasNextPage(s) => Rank(p) < (s.page - 1) * PageSize}

PassedBy(s, l, n) ==
  /\ l \subseteq PathsOf(files)
  /\ s.at = "count" => ~s.fetched /\ s.page = 1
  /\ Iterating(s) => s.fetched /\ Cardinality(Passed(s, l)) <= n
  /\ s.at = "ended" /\ ~s.cut => Cardinality(l \ s.seen) <= n

DDInv ==
  /\ DDTypeOK
  /\ \A f \in files : f.ver <= made[f.path]
  /\ \A p \in Paths : target[p] <= made[p]
  /\ \A r \in Runs : /\ MadeBy(run[r]) /\ PlacedBy(run[r])
                     /\ PassedBy(run[r], listed[r], removed[r])

LEMMA FreshType == Fresh \in Download
BY SizeAssumption DEF Fresh, Download, Steps, File, Paths

LEMMA DDInvInit == DDInit => DDInv
<1> SUFFICES ASSUME DDInit PROVE DDInv
  OBVIOUS
<1>1. files \subseteq File /\ \A f \in files : f.path \in Paths /\ f.ver = 1
  BY SizeAssumption DEF DDInit, File
<1>2. made \in [Paths -> 0..MaxVersion] /\ target \in [Paths -> 0..MaxVersion]
  BY SizeAssumption DEF DDInit
<1>3. \A f \in files : f.ver <= made[f.path]
  <2> SUFFICES ASSUME NEW f \in files PROVE f.ver <= made[f.path]
    OBVIOUS
  <2>1. f = [path |-> f.path, ver |-> 1]
    BY <1>1 DEF File
  <2> QED
    BY <1>1, <2>1 DEF DDInit
<1>4. \A p \in Paths : target[p] <= made[p]
  BY <1>2 DEF DDInit
<1>5. DDTypeOK
  BY <1>1, <1>2, FreshType, SizeAssumption DEF DDInit, DDTypeOK
<1>6. \A r \in Runs : /\ MadeBy(run[r]) /\ PlacedBy(run[r])
                      /\ PassedBy(run[r], listed[r], removed[r])
  BY DEF DDInit, Fresh, MadeBy, PlacedBy, PassedBy, Iterating, Downloading
<1> QED
  BY <1>1, <1>3, <1>4, <1>5, <1>6 DEF DDInv

LEMMA PathTypes ==
  ASSUME NEW fs \in SUBSET File
  PROVE  /\ PathsOf(fs) \in SUBSET Paths /\ IsFiniteSet(PathsOf(fs))
         /\ Cardinality(PathsOf(fs)) \in Nat
<1>1. PathsOf(fs) \in SUBSET Paths
  BY DEF PathsOf, File
<1> QED
  BY <1>1, FinitePaths

\* A step of process r, which leaves the others and the gateway alone.
LEMMA ProcessStep ==
  ASSUME DDInv, NEW r \in Runs, NEW s \in Download, NEW l \in SUBSET Paths, NEW n \in Nat,
         UNCHANGED Gateway, run' = [run EXCEPT ![r] = s],
         listed' = [listed EXCEPT ![r] = l], removed' = [removed EXCEPT ![r] = n],
         target' \in [Paths -> 0..MaxVersion], left' \in 0..MaxLeft,
         \A p \in Paths : target'[p] <= made[p] /\ (target[p] # 0 => target'[p] # 0),
         MadeBy(s), PassedBy(s, l, n), \A f \in s.ok : target'[f.path] # 0,
         ~Downloading(s) => s.temp = "none"
  PROVE  DDInv'
<1> USE DEF DDInv
<1>1. DDTypeOK'
  BY DEF DDTypeOK, Gateway
<1>2. \A p \in Paths : target'[p] <= made'[p]
  BY DEF Gateway
<1>3. \A f \in files' : f.ver <= made'[f.path]
  BY DEF Gateway
<1>4. /\ run'[r] = s /\ listed'[r] = l /\ removed'[r] = n
      /\ \A q \in Runs : q # r => run'[q] = run[q] /\ listed'[q] = listed[q] /\ removed'[q] = removed[q]
  BY DEF DDTypeOK
<1>5. ASSUME NEW q \in Runs PROVE MadeBy(run[q])'
  BY <1>4 DEF MadeBy, Gateway, Downloading
<1>6. ASSUME NEW q \in Runs PROVE PlacedBy(run[q])'
  <2>1. run[q].ok \subseteq File
    BY DEF DDTypeOK, Download
  <2> QED
    BY <1>4, <2>1 DEF PlacedBy, Downloading, File
<1>7. ASSUME NEW q \in Runs PROVE PassedBy(run[q], listed[q], removed[q])'
  <2>1. files' = files
    BY DEF Gateway
  <2>2. \A p : Rank(p)' = Rank(p)
    BY <2>1 DEF Rank, PathsOf
  <2>3. ASSUME NEW u, NEW m, run'[q] = u, listed'[q] = m
        PROVE  Passed(run[q], listed[q])' = Passed(u, m)
    BY <2>2, <2>3 DEF Passed, PathsOf, HasNextPage, TotalPages
  <2>4. ASSUME NEW u, NEW m, NEW k, run'[q] = u, listed'[q] = m, removed'[q] = k, PassedBy(u, m, k)
        PROVE  PassedBy(run[q], listed[q], removed[q])'
    <3>1. Passed(run[q], listed[q])' = Passed(u, m)
      BY <2>3, <2>4
    <3>2. PathsOf(files)' = PathsOf(files)
      BY <2>1 DEF PathsOf
    <3> QED
      BY <2>4, <3>1, <3>2 DEF PassedBy, Iterating
  <2> QED
    BY <1>4, <2>4
<1> QED
  BY <1>1, <1>2, <1>3, <1>5, <1>6, <1>7

\* The latest file of a path whose position is on a page is on that page.
LEMMA PageCovers ==
  ASSUME files \subseteq File, NEW n \in Nat \ {0}, NEW p \in PathsOf(files),
         Rank(p) >= (n - 1) * PageSize, Rank(p) < n * PageSize
  PROVE  p \in PathsOf(Page(n))
<1> DEFINE V == {f.ver : f \in {g \in files : g.path = p}}
<1>1. V \in SUBSET (1..MaxVersion) /\ V # {}
  BY DEF PathsOf, File
<1>2. IsFiniteSet(1..MaxVersion) /\ 1..MaxVersion \subseteq Nat
  BY SizeAssumption, FS_Interval
<1>3. IsFiniteSet(V) /\ V \in SUBSET Nat
  BY <1>1, <1>2, FS_Subset
<1>4. PICK v \in V : \A w \in V : w <= v
  BY <1>1, <1>3, LatestExists
<1>5. PICK f \in files : f.path = p /\ f.ver = v
  OBVIOUS
<1>6. f \in Latest
  BY <1>4, <1>5 DEF Latest
<1>7. Rank(p) \in ((n - 1) * PageSize)..(n * PageSize - 1)
  <2>1. Rank(p) \in Nat /\ (n - 1) * PageSize \in Int /\ n * PageSize \in Int
    <3>1. Rank(p) = RankIn(PathsOf(files), p)
      BY DEF Rank, RankIn
    <3>2. Rank(p) \in Nat
      BY <3>1, PathTypes, RankTypes
    <3> QED
      BY <3>2, SizeAssumption
  <2> QED
    BY <2>1
<1> QED
  BY <1>5, <1>6, <1>7 DEF Page, PathsOf

\* So a page that is fetched passes over nothing that the pages before have not.
LEMMA FetchPasses ==
  ASSUME files \subseteq File, NEW n \in Nat \ {0}, NEW s,
         s.page = n + 1, s.total = Count, s.fetched, s.entries = Page(n),
         NEW l \in SUBSET PathsOf(files), NEW p \in Passed(s, l)
  PROVE  p \in l \ s.seen /\ Rank(p) < (n - 1) * PageSize
<1>0. /\ PageSize \in Nat /\ PathsOf(files) \in SUBSET Paths /\ Count \in Nat
      /\ Rank(p) \in Nat /\ Rank(p) < Count
  <2>1. p \in PathsOf(files) /\ Rank(p) = RankIn(PathsOf(files), p)
    BY DEF Passed, Rank, RankIn
  <2> QED
    BY <2>1, PathTypes, RankTypes, RankBelow, SizeAssumption DEF Count
<1>1. p \in l \ s.seen /\ p \notin PathsOf(Page(n)) /\ (HasNextPage(s) => Rank(p) < n * PageSize)
  BY DEF Passed
<1>2. Rank(p) < n * PageSize
  <2>1. CASE ~HasNextPage(s)
    <3>1. n + 1 > Count \div PageSize + 1
      BY <1>0, <2>1, SizeAssumption DEF HasNextPage, TotalPages
    <3>2. n * PageSize > Count
      <4>1. n + 1 \in Nat \ {0} /\ (n + 1) - 1 = n
        OBVIOUS
      <4> QED
        BY <1>0, <3>1, <4>1, PagesReach
    <3> QED
      BY <1>0, <3>2
  <2> QED
    BY <1>1, <2>1
<1>3. ~(Rank(p) >= (n - 1) * PageSize)
  BY <1>1, <1>2, PageCovers
<1> QED
  BY <1>0, <1>1, <1>3

LEMMA DownloadSteps == ASSUME DDInv, NEW r \in Runs, Step(r) PROVE DDInv'
<1> DEFINE t == run[r]
<1>0. /\ t \in Download /\ listed[r] \in SUBSET Paths /\ removed[r] \in Nat
      /\ MadeBy(t) /\ PlacedBy(t) /\ PassedBy(t, listed[r], removed[r])
      /\ files \subseteq File /\ made \in [Paths -> 0..MaxVersion]
      /\ target \in [Paths -> 0..MaxVersion] /\ left \in 0..MaxLeft
      /\ \A p \in Paths : target[p] <= made[p]
  BY DEF DDInv, DDTypeOK
<1>L. ASSUME NEW s \in Download, UNCHANGED Local, run' = [run EXCEPT ![r] = s],
             MadeBy(s), PassedBy(s, listed[r], removed[r]), PlacedBy(s)
      PROVE  DDInv'
  <2>1. listed' = [listed EXCEPT ![r] = listed[r]] /\ removed' = [removed EXCEPT ![r] = removed[r]]
    BY <1>L DEF Local, DDInv, DDTypeOK
  <2>2. UNCHANGED Gateway /\ target' = target /\ left' = left
    BY <1>L DEF Local
  <2>3. (\A f \in s.ok : target'[f.path] # 0) /\ (~Downloading(s) => s.temp = "none")
    BY <1>L, <2>2 DEF PlacedBy
  <2> QED
    BY <1>0, <1>L, <2>1, <2>2, <2>3, ProcessStep
\* The file at hand or the next one: the listing stands where it stood.
<1>P. ASSUME NEW s \in Download, Iterating(t), Iterating(s),
             s.page = t.page, s.total = t.total, s.fetched = t.fetched,
             s.seen \cup PathsOf(s.entries) = t.seen \cup PathsOf(t.entries)
      PROVE  PassedBy(s, listed[r], removed[r])
  <2>1. Passed(s, listed[r]) = Passed(t, listed[r])
    BY <1>P DEF Passed, HasNextPage, TotalPages
  <2> QED
    BY <1>0, <1>P, <2>1 DEF PassedBy, Iterating
<1>F. /\ Fresh \in Download /\ MadeBy(Fresh) /\ PlacedBy(Fresh)
      /\ PassedBy(Fresh, listed[r], removed[r])
  BY <1>0, FreshType DEF Fresh, MadeBy, PlacedBy, PassedBy, Downloading, Iterating
<1>R. ASSUME NEW cut \in BOOLEAN, UNCHANGED Local, run' = [run EXCEPT ![r] = Results(t, cut)],
             ~cut => Cardinality(listed[r] \ t.seen) <= removed[r]
      PROVE  DDInv'
  <2> DEFINE s == Results(t, cut)
  <2>1. /\ s \in Download /\ s.at = "ended" /\ s.cut = cut /\ s.entries = {} /\ s.temp = "none"
        /\ s.ok = t.ok /\ s.seen = t.seen
    BY <1>0, FreshType DEF Results, Download, Fresh, Steps
  <2>2. MadeBy(s) /\ PlacedBy(s) /\ PassedBy(s, listed[r], removed[r])
    BY <1>0, <1>R, <2>1 DEF MadeBy, PlacedBy, PassedBy, Downloading, Iterating
  <2> QED
    BY <1>L, <1>R, <2>1, <2>2
<1>1. ASSUME NEW overwrite \in BOOLEAN, Begin(r, overwrite) PROVE DDInv'
  <2> DEFINE s == [Fresh EXCEPT !.at = "count", !.overwrite = overwrite]
  <2>1. /\ s \in Download /\ s.at = "count" /\ s.entries = {} /\ s.temp = "none" /\ s.ok = {}
        /\ ~s.fetched /\ s.page = 1
    BY FreshType DEF Download, Fresh, Steps
  <2>2. MadeBy(s) /\ PassedBy(s, {}, 0)
    BY <2>1 DEF MadeBy, PassedBy, Downloading, Iterating
  <2> QED
    BY <1>0, <1>1, <2>1, <2>2, ProcessStep DEF Begin, Gateway
<1>2. CASE FetchPage(r)
  <2> DEFINE s == [t EXCEPT !.at = "next", !.entries = Page(t.page),
                            !.total = Count, !.page = t.page + 1, !.fetched = TRUE]
             l == IF t.at = "count" THEN PathsOf(files) ELSE listed[r]
             n == IF t.at = "count" THEN 0 ELSE removed[r]
  <2>1. Page(t.page) \subseteq files /\ Count \in Nat /\ PathsOf(files) \in SUBSET Paths
    BY <1>0, PathTypes DEF Page, Latest, Count
  <2>2. /\ s \in Download /\ s.at = "next" /\ s.entries = Page(t.page) /\ s.total = Count
        /\ s.page = t.page + 1 /\ s.fetched /\ s.seen = t.seen /\ s.ok = t.ok
        /\ s.temp = t.temp
    <3>1. Page(t.page) \in SUBSET File /\ t.page + 1 \in Nat \ {0}
      BY <1>0, <2>1 DEF Download
    <3> QED
      BY <1>0, <2>1, <3>1 DEF Download, Steps
  <2>3. t.at \in {"count", "next"} /\ t.entries = {}
    BY <1>2 DEF FetchPage, Asking
  <2>4. l \in SUBSET PathsOf(files) /\ n \in Nat
    BY <1>0 DEF PassedBy
  <2>5. /\ run' = [run EXCEPT ![r] = s]
        /\ listed' = [listed EXCEPT ![r] = l] /\ removed' = [removed EXCEPT ![r] = n]
        /\ UNCHANGED <<Gateway, target, left>>
    BY <1>2 DEF FetchPage
  <2>6. MadeBy(s)
    BY <2>1, <2>2 DEF MadeBy, Downloading, DDInv
  <2>7. PlacedBy(s)
    BY <1>0, <2>2, <2>3 DEF PlacedBy, Downloading
  <2>8. ASSUME NEW p \in Passed(s, l)
        PROVE  p \in l \ t.seen /\ Rank(p) < (t.page - 1) * PageSize
    <3>1. t.page \in Nat \ {0}
      BY <1>0 DEF Download
    <3> HIDE DEF s, l
    <3> QED
      BY <1>0, <2>2, <2>4, <3>1, FetchPasses
  <2>9. Cardinality(Passed(s, l)) <= n
    <3>1. CASE t.at = "count"
      <4>1. t.page = 1
        BY <1>0, <3>1 DEF PassedBy
      <4>2. ASSUME NEW p \in Passed(s, l) PROVE FALSE
        <5>1. Rank(p) \in Nat
          <6>1. Rank(p) = RankIn(PathsOf(files), p)
            BY DEF Rank, RankIn
          <6> QED
            BY <2>1, <6>1, RankTypes
        <5>2. Rank(p) < (1 - 1) * PageSize
          BY <2>8, <4>1
        <5> QED
          BY <5>1, <5>2, SizeAssumption
      <4> QED
        BY <3>1, <4>2, FS_EmptySet
    <3>2. CASE t.at = "next"
      <4>1. Passed(s, l) \subseteq Passed(t, listed[r])
        BY <2>3, <2>8, <3>2 DEF Passed, PathsOf
      <4>2. Cardinality(Passed(t, listed[r])) <= removed[r]
        BY <1>0, <3>2 DEF PassedBy, Iterating
      <4>3. /\ IsFiniteSet(Passed(t, listed[r])) /\ Cardinality(Passed(t, listed[r])) \in Nat
            /\ IsFiniteSet(Passed(s, l)) /\ Cardinality(Passed(s, l)) \in Nat
        <5>1. Passed(t, listed[r]) \in SUBSET Paths /\ Passed(s, l) \in SUBSET Paths
          BY <1>0, <2>1, <2>4 DEF Passed
        <5> QED
          BY <5>1, FinitePaths
      <4>4. Cardinality(Passed(s, l)) <= Cardinality(Passed(t, listed[r]))
        BY <4>1, <4>3, FS_Subset
      <4> QED
        BY <1>0, <3>2, <4>2, <4>3, <4>4
    <3> QED
      BY <2>3, <3>1, <3>2
  <2>10. PassedBy(s, l, n)
    BY <2>2, <2>4, <2>9 DEF PassedBy
  <2> HIDE DEF s, l, n
  <2> QED
    BY <1>0, <2>1, <2>2, <2>4, <2>5, <2>6, <2>7, <2>10, ProcessStep DEF PlacedBy
<1>3. CASE NoMorePages(r)
  <2>1. /\ t.at \in {"count", "next"} /\ t.entries = {}
        /\ ~(HasNextPage(t) /\ ValidPage(t.page))
        /\ UNCHANGED Local /\ run' = [run EXCEPT ![r] = Results(t, FALSE)]
    BY <1>3 DEF NoMorePages, Asking
  <2>2. t.at = "next"
    BY <1>0, <2>1 DEF PassedBy, HasNextPage, ValidPage
  <2>3. Cardinality(Passed(t, listed[r])) <= removed[r]
    BY <1>0, <2>2 DEF PassedBy, Iterating
  <2>4. ASSUME NEW p \in listed[r] \ t.seen, HasNextPage(t)
        PROVE  Rank(p) < (t.page - 1) * PageSize
    <3>1. p \in PathsOf(files) /\ PathsOf(files) \in SUBSET Paths
      BY <1>0, PathTypes DEF PassedBy
    <3>2. Rank(p) \in Nat /\ Count \in Nat /\ Rank(p) < Count
      <4>1. Rank(p) = RankIn(PathsOf(files), p) /\ Count = Cardinality(PathsOf(files))
        BY DEF Rank, RankIn, Count
      <4> QED
        BY <3>1, <4>1, RankTypes, RankBelow, FinitePaths
    <3>3. (t.page - 1) * PageSize \in Int /\ ~((t.page - 1) * PageSize < Count)
      BY <1>0, <2>1, <2>4, SizeAssumption DEF ValidPage, Download
    <3> QED
      BY <3>2, <3>3
  <2>5. Passed(t, listed[r]) = listed[r] \ t.seen
    BY <2>1, <2>4 DEF Passed, PathsOf
  <2> QED
    BY <1>R, <2>1, <2>3, <2>5
<1>4. CASE PageRefused(r)
  <2>1. CASE run' = [run EXCEPT ![r] = Fresh]
    BY <1>4, <1>F, <1>L, <2>1 DEF PageRefused
  <2>2. CASE run' = [run EXCEPT ![r] = Results(t, TRUE)]
    BY <1>4, <1>R, <2>2 DEF PageRefused
  <2> QED
    BY <1>4, <2>1, <2>2 DEF PageRefused
<1>5. CASE PageFails(r) \/ Raises(r)
  BY <1>5, <1>F, <1>L DEF PageFails, Raises
<1>6. CASE KillDownload(r)
  <2>1. left' \in 0..MaxLeft
    BY <1>0, <1>6, SizeAssumption DEF KillDownload
  <2>2. listed' = [listed EXCEPT ![r] = listed[r]] /\ removed' = [removed EXCEPT ![r] = removed[r]]
    BY <1>6 DEF KillDownload, DDInv, DDTypeOK
  <2> QED
    BY <1>0, <1>6, <1>F, <2>1, <2>2, ProcessStep DEF KillDownload, Gateway, PlacedBy
<1>7. CASE Take(r)
  <2>1. PICK f \in t.entries :
          LET skip == target[f.path] # 0 /\ ~t.overwrite IN
          /\ t.at = "next"
          /\ run' = [run EXCEPT ![r] = [t EXCEPT !.entries = @ \ {f}, !.file = f,
                       !.seen = @ \cup {f.path},
                       !.at = IF skip THEN "next" ELSE "meta",
                       !.ok = IF skip THEN @ \cup {f} ELSE @]]
          /\ UNCHANGED Local
    BY <1>7 DEF Take
  <2> DEFINE skip == target[f.path] # 0 /\ ~t.overwrite
             at   == IF skip THEN "next" ELSE "meta"
             ok   == IF skip THEN t.ok \cup {f} ELSE t.ok
             s    == [t EXCEPT !.entries = t.entries \ {f}, !.file = f,
                               !.seen = t.seen \cup {f.path}, !.at = at, !.ok = ok]
  <2>2. f \in File /\ f.path \in Paths
    BY <1>0 DEF Download, File
  <2>3. at \in {"next", "meta"} /\ ok \in SUBSET File
    BY <1>0, <2>2 DEF Download
  <2>4. \A g \in ok : target[g.path] # 0
    BY <1>0 DEF PlacedBy
  <2>5. run' = [run EXCEPT ![r] = s]
    BY <2>1
  <2> HIDE DEF skip, at, ok
  <2>6. /\ s \in Download /\ s.at = at /\ s.entries = t.entries \ {f} /\ s.file = f
        /\ s.seen = t.seen \cup {f.path} /\ s.ok = ok /\ s.temp = t.temp
        /\ s.page = t.page /\ s.total = t.total /\ s.fetched = t.fetched
    BY <1>0, <2>2, <2>3 DEF Download, Steps
  <2> HIDE DEF s
  <2>7. MadeBy(s)
    BY <1>0, <2>6 DEF MadeBy
  <2>8. PlacedBy(s)
    BY <1>0, <2>1, <2>4, <2>6 DEF PlacedBy, Downloading
  <2>9. s.seen \cup PathsOf(s.entries) = t.seen \cup PathsOf(t.entries)
    BY <2>6 DEF PathsOf
  <2>10. PassedBy(s, listed[r], removed[r])
    BY <1>P, <2>1, <2>3, <2>6, <2>9 DEF Iterating
  <2> QED
    BY <1>L, <2>1, <2>5, <2>6, <2>7, <2>8, <2>10
\* The steps of downloading one file.
<1>D. ASSUME NEW s \in Download, Downloading(t), UNCHANGED Local, run' = [run EXCEPT ![r] = s],
             s.at \in {"open", "stream", "move", "next"}, s.at = "next" => s.temp = "none",
             s.entries = t.entries, s.file = t.file, s.seen = t.seen, s.ok = t.ok,
             s.page = t.page, s.total = t.total, s.fetched = t.fetched
      PROVE  DDInv'
  <2>1. MadeBy(s) /\ PlacedBy(s)
    BY <1>0, <1>D DEF MadeBy, PlacedBy, Downloading
  <2>2. PassedBy(s, listed[r], removed[r])
    BY <1>D, <1>P DEF Iterating, Downloading
  <2> QED
    BY <1>D, <1>L, <2>1, <2>2
<1>8. CASE Prefetch(r)
  <2> DEFINE s == [t EXCEPT !.at = "open", !.temp = "part"]
  <2>1. /\ s \in Download /\ s.at = "open" /\ s.temp = "part" /\ s.entries = t.entries
        /\ s.file = t.file /\ s.seen = t.seen /\ s.ok = t.ok
        /\ s.page = t.page /\ s.total = t.total /\ s.fetched = t.fetched
    BY <1>0 DEF Download, Steps
  <2>2. Downloading(t) /\ UNCHANGED Local /\ run' = [run EXCEPT ![r] = s]
    BY <1>8 DEF Prefetch, Downloading, DDInv, DDTypeOK
  <2> HIDE DEF s
  <2> QED
    BY <1>D, <2>1, <2>2
<1>9. CASE Open(r)
  <2> DEFINE s == [t EXCEPT !.at = "stream"]
  <2>1. /\ s \in Download /\ s.at = "stream" /\ s.temp = t.temp /\ s.entries = t.entries
        /\ s.file = t.file /\ s.seen = t.seen /\ s.ok = t.ok
        /\ s.page = t.page /\ s.total = t.total /\ s.fetched = t.fetched
    BY <1>0 DEF Download, Steps
  <2>2. Downloading(t) /\ UNCHANGED Local /\ run' = [run EXCEPT ![r] = s]
    BY <1>9 DEF Open, Downloading
  <2> HIDE DEF s
  <2> QED
    BY <1>D, <2>1, <2>2
<1>10. CASE Received(r)
  <2> DEFINE s == [t EXCEPT !.at = "move", !.temp = "whole"]
  <2>1. /\ s \in Download /\ s.at = "move" /\ s.temp = "whole" /\ s.entries = t.entries
        /\ s.file = t.file /\ s.seen = t.seen /\ s.ok = t.ok
        /\ s.page = t.page /\ s.total = t.total /\ s.fetched = t.fetched
    BY <1>0 DEF Download, Steps
  <2>2. Downloading(t) /\ UNCHANGED Local /\ run' = [run EXCEPT ![r] = s]
    BY <1>10 DEF Received, Downloading, DDInv, DDTypeOK
  <2> HIDE DEF s
  <2> QED
    BY <1>D, <2>1, <2>2
<1>11. CASE EntryFails(r)
  <2> DEFINE s == [t EXCEPT !.at = "next", !.temp = "none"]
  <2>1. /\ s \in Download /\ s.at = "next" /\ s.temp = "none" /\ s.entries = t.entries
        /\ s.file = t.file /\ s.seen = t.seen /\ s.ok = t.ok
        /\ s.page = t.page /\ s.total = t.total /\ s.fetched = t.fetched
    BY <1>0 DEF Download, Steps
  <2>2. Downloading(t) /\ UNCHANGED Local /\ run' = [run EXCEPT ![r] = s]
    BY <1>11 DEF EntryFails, Downloading, DDInv, DDTypeOK
  <2> HIDE DEF s
  <2> QED
    BY <1>D, <2>1, <2>2
<1>12. CASE Replace(r)
  <2> DEFINE s == [t EXCEPT !.at = "next", !.temp = "none", !.ok = t.ok \cup {t.file}]
  <2>1. t.at = "move" /\ t.file \in File /\ t.file.path \in Paths /\ t.file.ver \in 1..MaxVersion
    BY <1>0, <1>12 DEF Replace, Download, File
  <2>2. /\ s \in Download /\ s.at = "next" /\ s.temp = "none" /\ s.entries = t.entries
        /\ s.seen = t.seen /\ s.ok = t.ok \cup {t.file}
        /\ s.page = t.page /\ s.total = t.total /\ s.fetched = t.fetched
    BY <1>0, <2>1 DEF Download, Steps
  <2>3. /\ run' = [run EXCEPT ![r] = s]
        /\ target' = [target EXCEPT ![t.file.path] = t.file.ver]
        /\ UNCHANGED <<Gateway, left, listed, removed>>
    BY <1>12 DEF Replace
  <2> HIDE DEF s
  <2>4. t.file.ver <= made[t.file.path]
    BY <1>0, <2>1 DEF MadeBy, Downloading
  <2>5. /\ target' \in [Paths -> 0..MaxVersion]
        /\ \A p \in Paths : target'[p] <= made[p] /\ (target[p] # 0 => target'[p] # 0)
    BY <1>0, <2>1, <2>3, <2>4
  <2>6. \A f \in s.ok : target'[f.path] # 0
    <3>1. target'[t.file.path] # 0
      BY <1>0, <2>1, <2>3
    <3>2. \A f \in t.ok : f.path \in Paths /\ target[f.path] # 0
      BY <1>0 DEF PlacedBy, Download, File
    <3> QED
      BY <2>2, <2>5, <3>1, <3>2
  <2>7. MadeBy(s)
    BY <1>0, <2>2 DEF MadeBy, Downloading
  <2>8. PassedBy(s, listed[r], removed[r])
    BY <1>P, <2>1, <2>2 DEF Iterating
  <2>9. listed' = [listed EXCEPT ![r] = listed[r]] /\ removed' = [removed EXCEPT ![r] = removed[r]]
    BY <2>3 DEF DDInv, DDTypeOK
  <2> QED
    BY <1>0, <2>2, <2>3, <2>5, <2>6, <2>7, <2>8, <2>9, ProcessStep
<1> QED
  BY <1>1, <1>2, <1>3, <1>4, <1>5, <1>6, <1>7, <1>8, <1>9, <1>10,
     <1>11, <1>12
  DEF Step

\* An upload or a deletion: what a listing has passed over grows by no more than what has
\* left the directory.
LEMMA ChangePasses ==
  ASSUME NEW P \in SUBSET Paths, NEW Q \in SUBSET Paths, NEW S \in SUBSET P, NEW T \in Nat,
         P \subseteq Q \/ \E d \in P : Q = P \ {d}
  PROVE  Cardinality(Before(S \cap Q, Q, T))
           <= Cardinality(Before(S, P, T)) + Cardinality(P \ Q)
<1> DEFINE A == Before(S, P, T)
           B == Before(S \cap Q, Q, T)
<1>1. /\ A \in SUBSET Paths /\ IsFiniteSet(A) /\ Cardinality(A) \in Nat
      /\ B \in SUBSET Paths /\ IsFiniteSet(B) /\ Cardinality(B) \in Nat
      /\ Cardinality(P \ Q) \in Nat
  BY FinitePaths DEF Before
<1>2. CASE P \subseteq Q
  <2>1. ASSUME NEW p \in B PROVE p \in A
    <3>1. RankIn(Q, p) >= RankIn(P, p) /\ RankIn(Q, p) \in Nat /\ RankIn(P, p) \in Nat
      BY <1>2, RankWith, RankTypes
    <3> QED
      BY <1>2, <3>1 DEF Before
  <2>2. Cardinality(B) <= Cardinality(A)
    <3>1. B \in SUBSET A
      BY <2>1
    <3> HIDE DEF A, B
    <3> QED
      BY <1>1, <3>1, FS_Subset
  <2> QED
    BY <1>1, <2>2
<1>3. CASE \E d \in P : Q = P \ {d}
  <2>1. PICK d \in P : Q = P \ {d}
    BY <1>3
  <2>2. S \cap Q = S \ {d} /\ P \ Q = {d}
    BY <2>1
  <2>3. Cardinality(P \ Q) = 1
    BY <2>2, FS_Singleton
  <2>4. Cardinality(Before(S \ {d}, P \ {d}, T)) <= Cardinality(A) + 1
    BY PassedWithout
  <2> QED
    BY <2>1, <2>2, <2>3, <2>4
<1> QED
  BY <1>2, <1>3

LEMMA ChangeStep ==
  ASSUME DDInv, NEW after \in SUBSET File, Change(after),
         made' \in [Paths -> 0..MaxVersion], \A p \in Paths : made[p] <= made'[p],
         \A f \in after : f.ver <= made'[f.path],
         PathsOf(files) \subseteq PathsOf(after)
           \/ \E d \in PathsOf(files) : PathsOf(after) = PathsOf(files) \ {d}
  PROVE  DDInv'
<1> DEFINE P == PathsOf(files)
           Q == PathsOf(after)
<1>0. /\ run \in [Runs -> Download] /\ listed \in [Runs -> SUBSET Paths] /\ removed \in [Runs -> Nat]
      /\ files \subseteq File /\ made \in [Paths -> 0..MaxVersion]
      /\ target \in [Paths -> 0..MaxVersion] /\ MaxChanges \in Nat
  BY SizeAssumption DEF DDInv, DDTypeOK
<1>1. /\ P \in SUBSET Paths /\ Q \in SUBSET Paths /\ IsFiniteSet(P \ Q) /\ Cardinality(P \ Q) \in Nat
      /\ files' = after /\ UNCHANGED <<target, left, run>>
  BY <1>0, PathTypes, FinitePaths DEF Change
<1>2. \A r \in Runs : /\ run'[r] = run[r] /\ listed'[r] = listed[r] \cap Q
                      /\ removed'[r] = removed[r] + Cardinality(P \ Q)
  BY <1>1 DEF Change
<1>3. DDTypeOK'
  <2>1. changes' \in 0..MaxChanges
    BY <1>0 DEF Change, DDInv, DDTypeOK
  <2>2. listed' \in [Runs -> SUBSET Paths] /\ removed' \in [Runs -> Nat]
    BY <1>0, <1>1 DEF Change
  <2> QED
    BY <1>1, <2>1, <2>2 DEF DDInv, DDTypeOK
<1>4. \A p \in Paths : target'[p] <= made'[p]
  BY <1>0, <1>1 DEF DDInv
<1>5. \A f \in files' : f.ver <= made'[f.path]
  BY <1>1
<1>6. ASSUME NEW r \in Runs PROVE MadeBy(run[r])' /\ PlacedBy(run[r])'
  <2>1. MadeBy(run[r]) /\ PlacedBy(run[r]) /\ run'[r] = run[r] /\ target' = target
    BY <1>1 DEF DDInv
  <2>2. ASSUME NEW f \in File PROVE f.ver \in Nat /\ made[f.path] \in Nat /\ made'[f.path] \in Nat
                                    /\ made[f.path] <= made'[f.path]
    BY <1>0 DEF File
  <2>3. run[r].entries \subseteq File /\ run[r].file \in File
    BY <1>0 DEF Download
  <2> QED
    BY <2>1, <2>2, <2>3 DEF MadeBy, PlacedBy, Downloading
<1>7. ASSUME NEW r \in Runs PROVE PassedBy(run[r], listed[r], removed[r])'
  <2> DEFINE t == run[r]
             l == listed[r]
             S == l \ (t.seen \cup PathsOf(t.entries))
             T == (t.page - 1) * PageSize
  <2>1. /\ PassedBy(t, l, removed[r]) /\ run'[r] = t /\ listed'[r] = l \cap Q
        /\ removed'[r] = removed[r] + Cardinality(P \ Q)
        /\ l \in SUBSET P /\ S \in SUBSET P /\ removed[r] \in Nat
    BY <1>0, <1>2 DEF DDInv, PassedBy
  <2>2. T \in Nat
    <3>1. t.page - 1 \in Nat /\ PageSize \in Nat
      BY <1>0, SizeAssumption DEF Download
    <3> QED
      BY <3>1
  <2>3. PathsOf(files)' = Q /\ PathsOf(t.entries) = PathsOf(run[r].entries)'
    BY <1>1, <2>1 DEF PathsOf
  <2>4. Passed(t, l) = {p \in S : HasNextPage(t) => RankIn(P, p) < T}
    BY DEF Passed, Rank, RankIn
  <2>5. Passed(run[r], listed[r])' = {p \in S \cap Q : HasNextPage(t) => RankIn(Q, p) < T}
    <3>1. \A p : Rank(p)' = RankIn(Q, p)
      BY <2>3 DEF Rank, RankIn
    <3>2. HasNextPage(run[r])' = HasNextPage(t)
      BY <2>1 DEF HasNextPage, TotalPages
    <3> QED
      BY <2>1, <2>3, <3>1, <3>2 DEF Passed
  <2>6. Iterating(t) => t.fetched /\ Cardinality(Passed(run[r], listed[r])') <= removed'[r]
    <3> SUFFICES ASSUME Iterating(t)
                 PROVE  t.fetched /\ Cardinality(Passed(run[r], listed[r])') <= removed'[r]
      OBVIOUS
    <3>1. t.fetched /\ Cardinality(Passed(t, l)) <= removed[r]
      BY <2>1 DEF PassedBy
    <3>2. CASE HasNextPage(t)
      <4>1. /\ Passed(t, l) = Before(S, P, T)
            /\ Passed(run[r], listed[r])' = Before(S \cap Q, Q, T)
        BY <2>4, <2>5, <3>2 DEF Before
      <4>2. Cardinality(Before(S \cap Q, Q, T))
              <= Cardinality(Before(S, P, T)) + Cardinality(P \ Q)
        <5>1. P \subseteq Q \/ \E d \in P : Q = P \ {d}
          OBVIOUS
        <5> HIDE DEF P, Q, S, T
        <5> QED
          BY <1>1, <2>1, <2>2, <5>1, ChangePasses
      <4>3. /\ Cardinality(Before(S, P, T)) \in Nat
            /\ Cardinality(Before(S \cap Q, Q, T)) \in Nat
        <5>1. /\ Before(S, P, T) \in SUBSET Paths
              /\ Before(S \cap Q, Q, T) \in SUBSET Paths
          BY <1>1, <2>1 DEF Before
        <5> QED
          BY <5>1, FinitePaths
      <4> HIDE DEF S, T, P, Q
      <4> QED
        BY <1>1, <2>1, <3>1, <4>1, <4>2, <4>3
    <3>3. CASE ~HasNextPage(t)
      <4>1. Passed(t, l) = S /\ Passed(run[r], listed[r])' = S \cap Q
        BY <2>4, <2>5, <3>3
      <4>2. /\ IsFiniteSet(S) /\ Cardinality(S) \in Nat /\ Cardinality(S \cap Q) \in Nat
            /\ Cardinality(S \cap Q) <= Cardinality(S)
        <5>1. S \in SUBSET Paths /\ S \cap Q \in SUBSET S /\ S \cap Q \in SUBSET Paths
          BY <1>1, <2>1
        <5> HIDE DEF S, Q
        <5> QED
          BY <5>1, FinitePaths, FS_Subset
      <4>3. Cardinality(S) <= removed[r] /\ Cardinality(S \cap Q) <= removed[r]
        <5> HIDE DEF S, Q
        <5> QED
          BY <2>1, <3>1, <4>1, <4>2
      <4>4. removed[r] <= removed'[r]
        BY <1>1, <2>1
      <4>5. removed'[r] \in Nat
        BY <1>1, <2>1
      <4>6. Cardinality(S \cap Q) <= removed'[r]
        <5> HIDE DEF S, Q
        <5> QED
          BY <2>1, <4>2, <4>3, <4>4, <4>5
      <4> QED
        BY <3>1, <4>1, <4>6
    <3> QED
      BY <3>1, <3>2, <3>3
  <2>7. t.at = "ended" /\ ~t.cut => Cardinality(listed'[r] \ t.seen) <= removed'[r]
    <3>1. /\ IsFiniteSet(l \ t.seen) /\ Cardinality(l \ t.seen) \in Nat
          /\ Cardinality((l \cap Q) \ t.seen) \in Nat
          /\ Cardinality((l \cap Q) \ t.seen) <= Cardinality(l \ t.seen)
      <4>1. /\ l \ t.seen \in SUBSET Paths /\ (l \cap Q) \ t.seen \in SUBSET (l \ t.seen)
            /\ (l \cap Q) \ t.seen \in SUBSET Paths
        BY <1>1, <2>1
      <4> HIDE DEF l, t, Q
      <4> QED
        BY <4>1, FinitePaths, FS_Subset
    <3> HIDE DEF P, Q
    <3> QED
      BY <1>1, <2>1, <3>1 DEF PassedBy
  <2> QED
    BY <2>1, <2>3, <2>6, <2>7 DEF PassedBy, Iterating
<1> QED
  BY <1>3, <1>4, <1>5, <1>6, <1>7 DEF DDInv

LEMMA DDInvStep == DDInv /\ [DDNext]_ddvars => DDInv'
<1> SUFFICES ASSUME DDInv, [DDNext]_ddvars PROVE DDInv'
  OBVIOUS
<1>0. /\ files \subseteq File /\ made \in [Paths -> 0..MaxVersion]
      /\ \A f \in files : f.ver <= made[f.path]
  BY DEF DDInv, DDTypeOK
<1>1. ASSUME NEW p \in Paths, Upload(p) PROVE DDInv'
  <2> DEFINE new   == [path |-> p, ver |-> made[p] + 1]
             after == files \cup {new}
  <2>1. /\ made[p] < MaxVersion /\ made' = [made EXCEPT ![p] = made[p] + 1] /\ Change(after)
    BY <1>1 DEF Upload
  <2>2. made[p] \in Nat /\ made[p] + 1 \in 1..MaxVersion
    BY <1>0, <2>1, SizeAssumption
  <2>3. new \in File /\ after \in SUBSET File
    BY <1>0, <2>2 DEF File
  <2>4. made' \in [Paths -> 0..MaxVersion] /\ \A q \in Paths : made[q] <= made'[q]
    BY <1>0, <2>1, <2>2
  <2>5. \A f \in after : f.ver <= made'[f.path]
    BY <1>0, <2>1, <2>2 DEF File
  <2>6. PathsOf(files) \subseteq PathsOf(after)
    BY DEF PathsOf
  <2> HIDE DEF new, after
  <2> QED
    BY <2>1, <2>3, <2>4, <2>5, <2>6, ChangeStep
<1>2. ASSUME NEW f \in files, DeleteFile(f) PROVE DDInv'
  <2> DEFINE after == files \ {f}
  <2>1. Change(after) /\ made' = made /\ after \in SUBSET File
    BY <1>0, <1>2 DEF DeleteFile
  <2>2. \A q \in Paths : made[q] <= made'[q]
    BY <1>0, <2>1
  <2>3. \A g \in after : g.ver <= made'[g.path]
    BY <1>0, <2>1
  <2>4. f.path \in PathsOf(files)
    BY DEF PathsOf
  <2>5. PathsOf(after) \in {PathsOf(files), PathsOf(files) \ {f.path}}
    BY DEF PathsOf
  <2> HIDE DEF after
  <2> QED
    BY <1>0, <2>1, <2>2, <2>3, <2>4, <2>5, ChangeStep
<1>3. CASE UNCHANGED ddvars
  <2>1. \A p : Rank(p)' = Rank(p)
    BY <1>3 DEF Rank, PathsOf, ddvars
  <2> QED
    BY <1>3, <2>1
    DEF DDInv, DDTypeOK, MadeBy, PlacedBy, PassedBy, Passed, PathsOf, HasNextPage, TotalPages,
        Downloading, Iterating, ddvars
<1> QED
  BY <1>1, <1>2, <1>3, DownloadSteps DEF DDNext

LEMMA DDInvariant == DDSpec => []DDInv
BY DDInvInit, DDInvStep, PTL DEF DDSpec

\* Type correctness of the gateway's files, the local directory and the downloads.
THEOREM DownloadTypes == DDSpec => []DDTypeOK
<1>1. DDInv => DDTypeOK
  BY DEF DDInv
<1> QED
  BY <1>1, DDInvariant, PTL

\* The local directory holds whole files of versions that were uploaded, reports are true
\* and temporary files are removed: for any number of processes, pages and paths.
THEOREM FilesAreWhole == DDSpec => []WholeFiles
<1>1. DDInv => WholeFiles
  BY SizeAssumption DEF DDInv, DDTypeOK, WholeFiles, PlacedBy, Downloading
<1> QED
  BY <1>1, DDInvariant, PTL

\* A listing that ends passes over no more of the paths that were there all along than
\* paths were removed meanwhile.
THEOREM MissedOnlyByRemoval == DDSpec => []MissedByRemoval
<1>1. DDInv => MissedByRemoval
  BY DEF DDInv, MissedByRemoval, PassedBy
<1> QED
  BY <1>1, DDInvariant, PTL
=============================================================================
