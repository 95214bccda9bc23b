-------------------------- MODULE Captures_proofs --------------------------
(***************************************************************************)
(* What users see of captures, for any number of them, of requests beside  *)
(* each other and of faults: their documents in the index (CaptureIndex)   *)
(* and their pictures (Visualization).                                     *)
(***************************************************************************)
EXTENDS CaptureIndex, Visualization, SequenceTheorems, TLAPS

-----------------------------------------------------------------------------
(***************************************************************************)
(* The index.  What is proved of a capture that no two requests and no     *)
(* failure have touched takes what the command knows at each of its steps: *)
(* whether the index is there, what its copy is, what a new index holds.   *)
(***************************************************************************)

\* Captures that no request has crossed have one request at most, and none while the
\* command runs; requests in flight then are among those that run beside it.
OneRequest ==
  \A r, s \in Requests : /\ req[r].op # "idle" /\ req[s].op # "idle" /\ req[r].c = req[s].c
                         /\ req[r].c \notin crossed
                         => r = s /\ Off
AllBeside == ~Off => InFlight \subseteq cmd.beside
\* A request that is to write has read metadata.
Readable == \A r \in Requests : req[r].seen => req[r].c \notin emptied

\* Where the index is missing it has no documents; outside of the command, and in its
\* first steps, only a failure can have left it missing.  The steps that expect it to be
\* missing may find that a request has made OpenSearch create it.
Without == {"create", "unset", "restore"}
With    == {"clone", "count", "recreate", "list", "reindex", "sweep", "verify", "ask", "reset"}
IndexThere ==
  /\ ~there => docs = Empty
  /\ cmd.pc \in With => there
  /\ cmd.pc \notin Without /\ ~there => hurt = Captures

\* From the backup on, the copy is one, and is what the index was.
Backed == {"count", "recreate", "create", "list", "reindex", "sweep", "verify", "ask", "reset",
           "unset", "rollback", "restore"}
CopyKept == cmd.pc \in Backed => cmd.copy \in backups
SameCopy ==
  cmd.pc \in {"count", "recreate"} => \A c \in Captures \ crossed : docs[c] = cmd.copy[c]

\* The new index has documents of captures with files, and of deleted ones only where
\* requests have run.
Renewed ==
  /\ cmd.pc \in {"create", "list", "reindex", "sweep"} => \A c \in emptied : docs[c] = "none"
  /\ cmd.pc \in {"create", "list", "reindex", "sweep", "verify"}
       => \A c \in Captures \ cmd.beside : docs[c] # "deleted"

\* Swept captures, and those still to be, are duplicates or without files.
NothingSwept ==
  cmd.pc \in {"off", "dedup", "clone", "count", "recreate", "create", "list", "reindex"}
    => cmd.swept = {}
SweptInTime == cmd.pc = "sweep" => cmd.todo \subseteq cmd.swept \cap emptied

\* A capture that no two requests and no failure have touched: at rest, while its one
\* request r is in flight, and at each step of the command.
Consistent(c) == docs[c] = "live" <=> row[c] = "live"
Expected(r) ==
  /\ req[r].op = "create" => /\ row[req[r].c] = "unborn"
                             /\ docs[req[r].c] = "live" <=> req[r].written
  /\ req[r].op = "update" => row[req[r].c] = "live" /\ docs[req[r].c] = "live"
  /\ req[r].op = "destroy" => /\ row[req[r].c] = "live"
                              /\ docs[req[r].c] = "live" <=> ~req[r].written

Progress(c) ==
  /\ cmd.pc = "off" => /\ On(c) = {} => Consistent(c)
                       /\ \A r \in On(c) : Expected(r)
  /\ cmd.pc = "dedup" => Consistent(c) /\ (c \in cmd.todo => row[c] = "live")
  /\ cmd.pc = "erase" => IF c \in cmd.swept THEN docs[c] = "none"
                         ELSE Consistent(c) /\ (c \in cmd.todo => row[c] = "live")
  /\ cmd.pc \in {"clone", "count", "recreate", "verify", "ask"} => Consistent(c)
  /\ cmd.pc \in {"create", "list"} => docs[c] # "live"
  /\ cmd.pc = "reindex" =>
       /\ docs[c] = "live" \/ c \in cmd.todo => row[c] = "live"
       /\ row[c] = "live" => docs[c] = "live" \/ c \in cmd.todo \cup emptied
  /\ cmd.pc = "sweep" =>
       /\ row[c] = "live" <=> docs[c] = "live" \/ c \in cmd.swept
       /\ c \in cmd.swept \ cmd.todo => docs[c] # "live"
  /\ cmd.pc \in Backed /\ c \notin cmd.swept => (cmd.copy[c] = "live" <=> row[c] = "live")
Progressing == \A c \in Captures \ (crossed \cup hurt) : Progress(c)

CIInv == /\ CITypeOK /\ OneRequest /\ AllBeside /\ Readable /\ IndexThere /\ CopyKept /\ SameCopy
         /\ Renewed /\ NothingSwept /\ SweptInTime /\ Progressing

-----------------------------------------------------------------------------
(* Every step preserves the invariant.  Unfolded throughout: *)

USE DEF Goto, Quit, Rest, index, counts, Off, Fault, NoCmd

LEMMA EmptyTyped == Empty \in [Captures -> Docs]
BY DEF Empty, Docs

LEMMA SetsTyped ==
  Live \subseteq Captures /\ Duplicates \subseteq Live /\ InFlight \subseteq Captures
BY DEF Live, Duplicates, InFlight

LEMMA StartStep ==
  ASSUME CIInv, NEW r \in Requests, NEW op \in {"create", "update", "destroy"},
         NEW c \in Captures, Start(r, op, c)
  PROVE  CIInv'
<1>1. CITypeOK'
  <2>1. [Idle EXCEPT !.op = op, !.c = c]
          \in [op : {"create", "update", "destroy"}, c : Captures, seen : BOOLEAN,
              written : BOOLEAN]
    BY DEF Idle
  <2> QED  BY <2>1, LimitAssumption DEF CIInv, Start, CITypeOK
<1>2. OneRequest' /\ AllBeside' /\ Readable'
  BY DEF CIInv, Start, CITypeOK, Idle, OneRequest, AllBeside, Readable, InFlight, On
<1>3. IndexThere'
  BY DEF CIInv, Start, IndexThere
<1>4. CopyKept' /\ SameCopy'
  BY DEF CIInv, Start, CopyKept, SameCopy
<1>5. Renewed'
  BY DEF CIInv, Start, Renewed
<1>6. NothingSwept' /\ SweptInTime'
  BY DEF CIInv, Start, NothingSwept, SweptInTime
<1>7. Progressing'
  BY DEF CIInv, Start, Progressing, Progress, Expected, Consistent, MayStart, On, Idle
<1> QED  BY <1>1, <1>2, <1>3, <1>4, <1>5, <1>6, <1>7 DEF CIInv

LEMMA SeeStep ==
  ASSUME CIInv, NEW r \in Requests, See(r)
  PROVE  CIInv'
<1>1. /\ req[r] \in [op : {"create", "update", "destroy"}, c : Captures, seen : BOOLEAN,
                    written : BOOLEAN]
      /\ req' = [req EXCEPT ![r] = [req[r] EXCEPT !.seen = TRUE]]
  BY DEF CIInv, CITypeOK, Idle, See
<1>2. CITypeOK'
  <2>1. req' \in [Requests -> {Idle} \cup [op : {"create", "update", "destroy"}, c : Captures,
                                         seen : BOOLEAN, written : BOOLEAN]]
    BY <1>1 DEF CIInv, CITypeOK
  <2> QED  BY <2>1 DEF CIInv, CITypeOK, See
<1>3. \A s \in Requests : /\ req'[s].op = req[s].op /\ req'[s].c = req[s].c
                          /\ req'[s].written = req[s].written
  BY <1>1 DEF CIInv, CITypeOK
<1>4. OneRequest' /\ AllBeside' /\ Readable'
  BY <1>1, <1>3 DEF CIInv, CITypeOK, See, OneRequest, AllBeside, Readable, InFlight, On
<1>5. IndexThere' /\ CopyKept' /\ SameCopy' /\ Renewed' /\ NothingSwept' /\ SweptInTime'
  BY DEF CIInv, See, IndexThere, CopyKept, SameCopy, Renewed, NothingSwept, SweptInTime
<1>6. Progressing'
  <2>1. \A c \in Captures : On(c)' = On(c)
    BY <1>3 DEF On
  <2>2. \A s \in Requests : Expected(s) => Expected(s)'
    BY <1>3 DEF See, Expected
  <2> QED  BY <2>1, <2>2 DEF CIInv, See, Progressing, Progress, Consistent, On
<1> QED  BY <1>2, <1>4, <1>5, <1>6 DEF CIInv

LEMMA WriteStep ==
  ASSUME CIInv, NEW r \in Requests, Write(r)
  PROVE  CIInv'
<1>1. CITypeOK'
  <2>1. /\ req[r] \in [op : {"create", "update", "destroy"}, c : Captures, seen : BOOLEAN,
                      written : BOOLEAN]
        /\ req' = [req EXCEPT ![r] = [req[r] EXCEPT !.written = TRUE]]
    BY DEF CIInv, CITypeOK, Idle, Write
  <2>2. NewDoc(r) \in Docs
    BY DEF NewDoc, Docs
  <2>3. docs' \in [Captures -> Docs]
    BY <2>1, <2>2 DEF CIInv, CITypeOK, Write
  <2>4. req' \in [Requests -> {Idle} \cup [op : {"create", "update", "destroy"}, c : Captures,
                                         seen : BOOLEAN, written : BOOLEAN]]
    BY <2>1 DEF CIInv, CITypeOK, Write
  <2> QED  BY <2>3, <2>4 DEF CIInv, CITypeOK, Write
<1>2. OneRequest' /\ AllBeside' /\ Readable'
  BY DEF CIInv, Write, OneRequest, AllBeside, Readable, InFlight, On
<1>3. IndexThere'
  <2>1. ~there' => docs' = Empty
    <3> SUFFICES ASSUME ~there'  PROVE docs' = Empty
      OBVIOUS
    <3>1. req[r].op = "destroy" /\ docs = Empty
      BY DEF CIInv, CITypeOK, Write, IndexThere
    <3>2. req[r].c \in Captures
      BY <3>1 DEF CIInv, CITypeOK, Idle
    <3> QED  BY <3>1, <3>2 DEF Write, NewDoc, Empty
  <2>2. there => there'
    BY DEF Write
  <2> QED  BY <2>1, <2>2 DEF CIInv, Write, IndexThere
<1>4. CopyKept' /\ SameCopy'
  BY DEF CIInv, Write, OneRequest, CopyKept, SameCopy
<1>5. Renewed'
  BY DEF CIInv, CITypeOK, Write, AllBeside, Readable, Renewed, NewDoc, InFlight, On
<1>6. NothingSwept' /\ SweptInTime'
  BY DEF CIInv, Write, NothingSwept, SweptInTime
<1>7. Progressing'
  BY DEF CIInv, Write, CITypeOK, OneRequest, IndexThere, Progressing, Progress, Expected,
     Consistent, Without, NewDoc, On
<1> QED  BY <1>1, <1>2, <1>3, <1>4, <1>5, <1>6, <1>7 DEF CIInv

LEMMA CommitRequestStep ==
  ASSUME CIInv, NEW r \in Requests, CommitRequest(r)
  PROVE  CIInv'
<1>1. CITypeOK'
  BY DEF CIInv, CommitRequest, CITypeOK, Rows, EndRequest, Idle
<1>2. OneRequest' /\ AllBeside' /\ Readable'
  BY DEF CIInv, CommitRequest, OneRequest, AllBeside, Readable, EndRequest, InFlight, On, Idle
<1>3. IndexThere'
  BY DEF CIInv, CommitRequest, IndexThere
<1>4. CopyKept' /\ SameCopy'
  BY DEF CIInv, CommitRequest, CopyKept, SameCopy
<1>5. Renewed'
  BY DEF CIInv, CommitRequest, Renewed
<1>6. NothingSwept' /\ SweptInTime'
  BY DEF CIInv, CommitRequest, NothingSwept, SweptInTime
<1>7. Progressing'
  BY DEF CIInv, CommitRequest, CITypeOK, OneRequest, Progressing, Progress, Expected,
     Consistent, Backed, EndRequest, On, Idle
<1> QED  BY <1>1, <1>2, <1>3, <1>4, <1>5, <1>6, <1>7 DEF CIInv

LEMMA RefuseStep ==
  ASSUME CIInv, NEW r \in Requests, Refuse(r)
  PROVE  CIInv'
<1>1. CITypeOK'
  BY DEF CIInv, Refuse, CITypeOK, Rows, EndRequest, Discarded
<1>2. OneRequest' /\ AllBeside' /\ Readable'
  BY DEF CIInv, Refuse, OneRequest, AllBeside, Readable, EndRequest, InFlight, On, Idle
<1>3. IndexThere'
  BY DEF CIInv, Refuse, IndexThere
<1>4. CopyKept' /\ SameCopy'
  BY DEF CIInv, Refuse, CopyKept, SameCopy
<1>5. Renewed'
  BY DEF CIInv, Refuse, Renewed
<1>6. NothingSwept' /\ SweptInTime'
  BY DEF CIInv, Refuse, NothingSwept, SweptInTime
<1>7. Progressing'
  BY DEF CIInv, Refuse, CITypeOK, OneRequest, Progressing, Progress, Expected, Consistent,
     EndRequest, Discarded, On, Idle
<1> QED  BY <1>1, <1>2, <1>3, <1>4, <1>5, <1>6, <1>7 DEF CIInv

LEMMA FailStep ==
  ASSUME CIInv, NEW r \in Requests, Fail(r)
  PROVE  CIInv'
<1>1. CITypeOK'
  BY LimitAssumption DEF CIInv, Fail, CITypeOK, Rows, EndRequest, Discarded, Idle
<1>2. OneRequest' /\ AllBeside' /\ Readable'
  BY DEF CIInv, Fail, OneRequest, AllBeside, Readable, EndRequest, InFlight, On, Idle
<1>3. IndexThere'
  BY DEF CIInv, Fail, CITypeOK, IndexThere, Idle
<1>4. CopyKept' /\ SameCopy'
  BY DEF CIInv, Fail, CopyKept, SameCopy
<1>5. Renewed'
  BY DEF CIInv, Fail, Renewed
<1>6. NothingSwept' /\ SweptInTime'
  BY DEF CIInv, Fail, NothingSwept, SweptInTime
<1>7. Progressing'
  BY DEF CIInv, Fail, Progressing, Progress, Expected, Consistent, EndRequest, Discarded,
     On, Idle
<1> QED  BY <1>1, <1>2, <1>3, <1>4, <1>5, <1>6, <1>7 DEF CIInv

LEMMA ReplaceStep ==
  ASSUME CIInv, Replace
  PROVE  CIInv'
<1>1. CITypeOK'
  <2>1. cmd' = [pc |-> "dedup", todo |-> Duplicates, swept |-> {}, copy |-> Empty,
                beside |-> InFlight]
    BY DEF Replace
  <2>2. cmd' \in [pc : CommandSteps, todo : SUBSET Captures, swept : SUBSET Captures,
                copy : [Captures -> Docs], beside : SUBSET Captures]
    BY <2>1, SetsTyped, EmptyTyped DEF CommandSteps
  <2>3. crossed' \subseteq Captures /\ commands' \in 0 .. MaxCommands
    BY SetsTyped, LimitAssumption DEF CIInv, CITypeOK, Replace
  <2> QED  BY <2>2, <2>3 DEF CIInv, CITypeOK, Replace
<1>2. OneRequest' /\ AllBeside' /\ Readable'
  BY DEF CIInv, Replace, CITypeOK, OneRequest, AllBeside, Readable, InFlight, On, Idle
<1>3. IndexThere'
  BY DEF CIInv, Replace, IndexThere, With, Without
<1>4. CopyKept' /\ SameCopy'
  BY DEF CIInv, Replace, CopyKept, SameCopy, Backed
<1>5. Renewed'
  BY DEF CIInv, Replace, Renewed
<1>6. NothingSwept' /\ SweptInTime'
  BY DEF CIInv, Replace, NothingSwept, SweptInTime
<1>7. Progressing'
  BY DEF CIInv, Replace, Progressing, Progress, Consistent, Backed, Live, Duplicates,
     InFlight
<1> QED  BY <1>1, <1>2, <1>3, <1>4, <1>5, <1>6, <1>7 DEF CIInv

LEMMA DeleteDuplicateStep ==
  ASSUME CIInv, DeleteDuplicate
  PROVE  CIInv'
<1>1. PICK c \in cmd.todo :
        /\ cmd.pc = "dedup"
        /\ IF blocked /\ docs[c] # "none"
           THEN Quit /\ UNCHANGED docs
           ELSE /\ docs' = [docs EXCEPT ![c] = "none"]
                /\ cmd' = [cmd EXCEPT !.pc = "erase", !.swept = {c}]
        /\ UNCHANGED <<Rest, row, there, blocked, backups, commands, failures, crossed, hurt>>
  BY DEF DeleteDuplicate
<1>2. CASE blocked /\ docs[c] # "none"
  <2>1. CITypeOK'
    BY <1>1, <1>2, EmptyTyped DEF CIInv, CITypeOK, CommandSteps
  <2>2. OneRequest' /\ AllBeside' /\ Readable'
    BY <1>1, <1>2 DEF CIInv, OneRequest, AllBeside, Readable
  <2>3. IndexThere'
    BY <1>1, <1>2 DEF CIInv, IndexThere, With, Without
  <2>4. CopyKept' /\ SameCopy'
    BY <1>1, <1>2 DEF CIInv, CopyKept, SameCopy, Backed
  <2>5. Renewed'
    BY <1>1, <1>2 DEF CIInv, Renewed
  <2>6. NothingSwept' /\ SweptInTime'
    BY <1>1, <1>2 DEF CIInv, NothingSwept, SweptInTime
  <2>7. Progressing'
    BY <1>1, <1>2 DEF CIInv, OneRequest, Progressing, Progress, Consistent, Backed, On
  <2> QED  BY <2>1, <2>2, <2>3, <2>4, <2>5, <2>6, <2>7 DEF CIInv
<1>3. CASE ~(blocked /\ docs[c] # "none")
  <2>1. CITypeOK'
    <3>1. c \in Captures
      BY <1>1 DEF CIInv, CITypeOK
    <3>2. cmd' \in [pc : CommandSteps, todo : SUBSET Captures, swept : SUBSET Captures,
                  copy : [Captures -> Docs], beside : SUBSET Captures]
      <4>1. cmd' = [cmd EXCEPT !.pc = "erase", !.swept = {c}]
        BY <1>1, <1>3
      <4> QED  BY <3>1, <4>1 DEF CIInv, CITypeOK, CommandSteps
    <3>3. docs' \in [Captures -> Docs]
      BY <1>1, <1>3, <3>1 DEF CIInv, CITypeOK, Docs
    <3>4. UNCHANGED <<type, row, emptied, there, blocked, backups, req, counts, crossed, hurt>>
      BY <1>1
    <3> QED  BY <3>2, <3>3, <3>4 DEF CIInv, CITypeOK
  <2>2. OneRequest' /\ AllBeside' /\ Readable'
    BY <1>1, <1>3 DEF CIInv, CITypeOK, OneRequest, AllBeside, Readable, InFlight, On
  <2>3. IndexThere'
    BY <1>1, <1>3 DEF CIInv, CITypeOK, IndexThere, With, Without, Empty
  <2>4. CopyKept' /\ SameCopy'
    BY <1>1, <1>3 DEF CIInv, CITypeOK, CopyKept, SameCopy, Backed
  <2>5. Renewed'
    BY <1>1, <1>3 DEF CIInv, CITypeOK, Renewed
  <2>6. NothingSwept' /\ SweptInTime'
    BY <1>1, <1>3 DEF CIInv, CITypeOK, NothingSwept, SweptInTime
  <2>7. Progressing'
    <3> SUFFICES ASSUME NEW d \in Captures, d \notin crossed, d \notin hurt
                 PROVE  Progress(d)'
      BY <1>1 DEF Progressing
    <3>1. Consistent(d) /\ (d \in cmd.todo => row[d] = "live")
      BY <1>1 DEF CIInv, Progressing, Progress
    <3>2. cmd'.pc = "erase" /\ cmd'.swept = {c} /\ cmd'.todo = cmd.todo
      BY <1>1, <1>3 DEF CIInv, CITypeOK
    <3>3. IF d = c THEN docs'[d] = "none" ELSE docs'[d] = docs[d]
      BY <1>1, <1>3 DEF CIInv, CITypeOK
    <3> QED  BY <1>1, <3>1, <3>2, <3>3 DEF Progress, Consistent, Backed
  <2> QED  BY <2>1, <2>2, <2>3, <2>4, <2>5, <2>6, <2>7 DEF CIInv
<1> QED  BY <1>1, <1>2, <1>3

LEMMA EraseDuplicateStep ==
  ASSUME CIInv, EraseDuplicate
  PROVE  CIInv'
<1>1. CITypeOK'
  BY DEF CIInv, EraseDuplicate, CITypeOK, CommandSteps, Rows
<1>2. OneRequest' /\ AllBeside' /\ Readable'
  BY DEF CIInv, EraseDuplicate, OneRequest, AllBeside, Readable, InFlight, On
<1>3. IndexThere'
  BY DEF CIInv, EraseDuplicate, IndexThere, With, Without
<1>4. CopyKept' /\ SameCopy'
  BY DEF CIInv, EraseDuplicate, CopyKept, SameCopy, Backed
<1>5. Renewed'
  BY DEF CIInv, EraseDuplicate, Renewed
<1>6. NothingSwept' /\ SweptInTime'
  BY DEF CIInv, EraseDuplicate, NothingSwept, SweptInTime
<1>7. Progressing'
  BY DEF CIInv, EraseDuplicate, Progressing, Progress, Consistent, Backed
<1> QED  BY <1>1, <1>2, <1>3, <1>4, <1>5, <1>6, <1>7 DEF CIInv

LEMMA BlockStep ==
  ASSUME CIInv, Block
  PROVE  CIInv'
<1>1. CITypeOK'
  BY EmptyTyped DEF CIInv, Block, CITypeOK, CommandSteps
<1>2. OneRequest' /\ AllBeside' /\ Readable'
  BY DEF CIInv, Block, CITypeOK, OneRequest, AllBeside, Readable, InFlight, On
<1>3. IndexThere'
  BY DEF CIInv, Block, CITypeOK, IndexThere, With, Without
<1>4. CopyKept' /\ SameCopy'
  BY DEF CIInv, Block, CITypeOK, CopyKept, SameCopy, Backed
<1>5. Renewed'
  BY DEF CIInv, Block, CITypeOK, Renewed
<1>6. NothingSwept' /\ SweptInTime'
  BY DEF CIInv, Block, CITypeOK, NothingSwept, SweptInTime
<1>7. Progressing'
  BY DEF CIInv, Block, CITypeOK, IndexThere, Progressing, Progress, Consistent, Backed,
     Without
<1> QED  BY <1>1, <1>2, <1>3, <1>4, <1>5, <1>6, <1>7 DEF CIInv

LEMMA CloneStep ==
  ASSUME CIInv, Clone
  PROVE  CIInv'
<1>1. CITypeOK'
  BY DEF CIInv, Clone, CITypeOK, CommandSteps, Backup
<1>2. OneRequest' /\ AllBeside' /\ Readable'
  BY DEF CIInv, Clone, OneRequest, AllBeside, Readable, InFlight, On
<1>3. IndexThere'
  BY DEF CIInv, Clone, IndexThere, With, Without
<1>4. CopyKept' /\ SameCopy'
  BY DEF CIInv, Clone, CopyKept, SameCopy, Backup
<1>5. Renewed'
  BY DEF CIInv, Clone, Renewed
<1>6. NothingSwept' /\ SweptInTime'
  BY DEF CIInv, Clone, NothingSwept, SweptInTime
<1>7. Progressing'
  BY DEF CIInv, Clone, Progressing, Progress, Consistent
<1> QED  BY <1>1, <1>2, <1>3, <1>4, <1>5, <1>6, <1>7 DEF CIInv

LEMMA CountStep ==
  ASSUME CIInv, Count
  PROVE  CIInv'
<1>1. CITypeOK'
  BY EmptyTyped DEF CIInv, Count, CITypeOK, CommandSteps, Tried
<1>2. OneRequest' /\ AllBeside' /\ Readable'
  BY DEF CIInv, Count, CITypeOK, OneRequest, AllBeside, Readable, InFlight, On
<1>3. IndexThere'
  BY DEF CIInv, Count, CITypeOK, IndexThere, With, Without
<1>4. CopyKept' /\ SameCopy'
  BY DEF CIInv, Count, CITypeOK, CopyKept, SameCopy, Backed
<1>5. Renewed'
  BY DEF CIInv, Count, CITypeOK, Renewed
<1>6. NothingSwept' /\ SweptInTime'
  BY DEF CIInv, Count, CITypeOK, NothingSwept, SweptInTime
<1>7. Progressing'
  BY DEF CIInv, Count, CITypeOK, OneRequest, Progressing, Progress, Consistent, Backed, On
<1> QED  BY <1>1, <1>2, <1>3, <1>4, <1>5, <1>6, <1>7 DEF CIInv

LEMMA RecreateStep ==
  ASSUME CIInv, Recreate
  PROVE  CIInv'
<1>1. CITypeOK'
  BY EmptyTyped DEF CIInv, Recreate, CITypeOK, CommandSteps, Tried, DropIndex
<1>2. OneRequest' /\ AllBeside' /\ Readable'
  BY DEF CIInv, Recreate, OneRequest, AllBeside, Readable, InFlight, On
<1>3. IndexThere'
  BY DEF CIInv, Recreate, IndexThere, With, Without, DropIndex
<1>4. CopyKept' /\ SameCopy'
  BY DEF CIInv, Recreate, CopyKept, SameCopy, Backed, DropIndex
<1>5. Renewed'
  BY DEF CIInv, Recreate, CITypeOK, Renewed, DropIndex, Empty
<1>6. NothingSwept' /\ SweptInTime'
  BY DEF CIInv, Recreate, NothingSwept, SweptInTime
<1>7. Progressing'
  BY DEF CIInv, Recreate, Progressing, Progress, Backed, DropIndex, Empty
<1> QED  BY <1>1, <1>2, <1>3, <1>4, <1>5, <1>6, <1>7 DEF CIInv

LEMMA CreateStep ==
  ASSUME CIInv, Create
  PROVE  CIInv'
<1>1. CITypeOK'
  BY DEF CIInv, Create, CITypeOK, CommandSteps, Tried
<1>2. OneRequest' /\ AllBeside' /\ Readable'
  BY DEF CIInv, Create, CITypeOK, OneRequest, AllBeside, Readable, InFlight, On
<1>3. IndexThere'
  BY DEF CIInv, Create, IndexThere, Without
<1>4. CopyKept' /\ SameCopy'
  BY DEF CIInv, Create, CITypeOK, CopyKept, SameCopy, Backed
<1>5. Renewed'
  BY DEF CIInv, Create, CITypeOK, Renewed
<1>6. NothingSwept' /\ SweptInTime'
  BY DEF CIInv, Create, CITypeOK, NothingSwept, SweptInTime
<1>7. Progressing'
  BY DEF CIInv, Create, CITypeOK, Progressing, Progress, Backed
<1> QED  BY <1>1, <1>2, <1>3, <1>4, <1>5, <1>6, <1>7 DEF CIInv

LEMMA ListStep ==
  ASSUME CIInv, List
  PROVE  CIInv'
<1>1. CITypeOK'
  BY SetsTyped DEF CIInv, List, CITypeOK, CommandSteps, Tried
<1>2. OneRequest' /\ AllBeside' /\ Readable'
  BY DEF CIInv, List, OneRequest, AllBeside, Readable, InFlight, On
<1>3. IndexThere'
  BY DEF CIInv, List, IndexThere, With, Without
<1>4. CopyKept' /\ SameCopy'
  BY DEF CIInv, List, CopyKept, SameCopy, Backed
<1>5. Renewed'
  BY DEF CIInv, List, Renewed
<1>6. NothingSwept' /\ SweptInTime'
  BY DEF CIInv, List, NothingSwept, SweptInTime
<1>7. Progressing'
  BY DEF CIInv, List, Progressing, Progress, Backed, Live
<1> QED  BY <1>1, <1>2, <1>3, <1>4, <1>5, <1>6, <1>7 DEF CIInv

LEMMA ReindexOneStep ==
  ASSUME CIInv, ReindexOne
  PROVE  CIInv'
<1>1. PICK c \in cmd.todo :
        /\ cmd.pc = "reindex"
        /\ IF c \notin emptied
           THEN /\ docs' = [docs EXCEPT ![c] = "live"]
                /\ cmd' = [cmd EXCEPT !.todo = @ \ {c}]
           ELSE /\ UNCHANGED docs
                /\ cmd' = IF type = "rh" THEN [cmd EXCEPT !.todo = @ \ {c}]
                          ELSE [cmd EXCEPT !.pc = "rollback", !.todo = {}]
        /\ UNCHANGED <<Rest, row, there, blocked, backups, commands, failures, crossed, hurt>>
  BY DEF ReindexOne
<1>2. CASE c \notin emptied
  <2>1. CITypeOK'
    BY <1>1, <1>2, EmptyTyped DEF CIInv, CITypeOK, Docs
  <2>2. OneRequest' /\ AllBeside' /\ Readable'
    BY <1>1, <1>2 DEF CIInv, CITypeOK, OneRequest, AllBeside, Readable, InFlight, On
  <2>3. IndexThere'
    BY <1>1, <1>2 DEF CIInv, CITypeOK, IndexThere, With
  <2>4. CopyKept' /\ SameCopy'
    BY <1>1, <1>2 DEF CIInv, CITypeOK, CopyKept, SameCopy
  <2>5. Renewed'
    BY <1>1, <1>2 DEF CIInv, CITypeOK, Renewed
  <2>6. NothingSwept' /\ SweptInTime'
    BY <1>1, <1>2 DEF CIInv, CITypeOK, NothingSwept, SweptInTime
  <2>7. Progressing'
    BY <1>1, <1>2 DEF CIInv, CITypeOK, Progressing, Progress
  <2> QED  BY <2>1, <2>2, <2>3, <2>4, <2>5, <2>6, <2>7 DEF CIInv
<1>3. CASE c \in emptied
  <2>1. CITypeOK'
    <3>1. cmd' \in [pc : CommandSteps, todo : SUBSET Captures, swept : SUBSET Captures,
                  copy : [Captures -> Docs], beside : SUBSET Captures]
      <4>1. CASE type = "rh"
        BY <1>1, <1>3, <4>1 DEF CIInv, CITypeOK
      <4>2. CASE type # "rh"
        BY <1>1, <1>3, <4>2 DEF CIInv, CITypeOK, CommandSteps
      <4> QED  BY <4>1, <4>2
    <3>2. UNCHANGED <<type, row, emptied, docs, there, blocked, backups, req, counts, crossed,
                      hurt>>
      BY <1>1, <1>3
    <3> QED  BY <3>1, <3>2 DEF CIInv, CITypeOK
  <2>2. OneRequest' /\ AllBeside' /\ Readable'
    BY <1>1, <1>3 DEF CIInv, CITypeOK, OneRequest, AllBeside, Readable, InFlight, On
  <2>3. IndexThere'
    BY <1>1, <1>3 DEF CIInv, CITypeOK, IndexThere, With, Without
  <2>4. CopyKept' /\ SameCopy'
    BY <1>1, <1>3 DEF CIInv, CITypeOK, CopyKept, SameCopy, Backed
  <2>5. Renewed'
    BY <1>1, <1>3 DEF CIInv, CITypeOK, Renewed
  <2>6. NothingSwept' /\ SweptInTime'
    BY <1>1, <1>3 DEF CIInv, CITypeOK, NothingSwept, SweptInTime
  <2>7. Progressing'
    <3> SUFFICES ASSUME NEW d \in Captures, d \notin crossed, d \notin hurt
                 PROVE  Progress(d)'
      BY <1>1 DEF Progressing
    <3>1. Progress(d) /\ On(d) = {}
      BY <1>1 DEF CIInv, Progressing, OneRequest, On
    <3>2. CASE type = "rh"
      <4>1. cmd'.pc = "reindex" /\ cmd'.todo = cmd.todo \ {c} /\ UNCHANGED <<docs, row>>
        BY <1>1, <1>3, <3>2 DEF CIInv, CITypeOK
      <4>2. cmd'.swept = cmd.swept /\ cmd'.copy = cmd.copy /\ emptied' = emptied
        BY <1>1, <1>3, <3>2 DEF CIInv, CITypeOK
      <4> QED  BY <1>1, <1>3, <3>1, <4>1, <4>2 DEF Progress
    <3>3. CASE type # "rh"
      <4>1. cmd'.pc = "rollback" /\ cmd'.swept = cmd.swept /\ cmd'.copy = cmd.copy /\ row' = row
        BY <1>1, <1>3, <3>3 DEF CIInv, CITypeOK
      <4> QED  BY <1>1, <3>1, <4>1 DEF Progress, Backed
    <3> QED  BY <3>2, <3>3
  <2> QED  BY <2>1, <2>2, <2>3, <2>4, <2>5, <2>6, <2>7 DEF CIInv
<1> QED  BY <1>1, <1>2, <1>3

LEMMA SweepStep ==
  ASSUME CIInv, Sweep
  PROVE  CIInv'
<1>1. CITypeOK'
  BY SetsTyped DEF CIInv, Sweep, CITypeOK, CommandSteps, Tried
<1>2. OneRequest' /\ AllBeside' /\ Readable'
  BY DEF CIInv, Sweep, OneRequest, AllBeside, Readable, InFlight, On
<1>3. IndexThere'
  BY DEF CIInv, Sweep, IndexThere, With, Without
<1>4. CopyKept' /\ SameCopy'
  BY DEF CIInv, Sweep, CopyKept, SameCopy, Backed
<1>5. Renewed'
  BY DEF CIInv, Sweep, Renewed
<1>6. NothingSwept' /\ SweptInTime'
  BY DEF CIInv, Sweep, NothingSwept, SweptInTime
<1>7. Progressing'
  BY DEF CIInv, Sweep, NothingSwept, Progressing, Progress, Backed, Live
<1> QED  BY <1>1, <1>2, <1>3, <1>4, <1>5, <1>6, <1>7 DEF CIInv

LEMMA SweepDocStep ==
  ASSUME CIInv, SweepDoc
  PROVE  CIInv'
<1>1. CITypeOK'
  BY DEF CIInv, SweepDoc, CITypeOK, Docs
<1>2. OneRequest' /\ AllBeside' /\ Readable'
  BY DEF CIInv, SweepDoc, OneRequest, AllBeside, Readable, InFlight, On
<1>3. IndexThere'
  BY DEF CIInv, SweepDoc, IndexThere, With
<1>4. CopyKept' /\ SameCopy'
  BY DEF CIInv, SweepDoc, CopyKept, SameCopy
<1>5. Renewed'
  BY DEF CIInv, SweepDoc, Renewed
<1>6. NothingSwept' /\ SweptInTime'
  BY DEF CIInv, SweepDoc, NothingSwept, SweptInTime
<1>7. Progressing'
  BY DEF CIInv, SweepDoc, CITypeOK, SweptInTime, Progressing, Progress
<1> QED  BY <1>1, <1>2, <1>3, <1>4, <1>5, <1>6, <1>7 DEF CIInv

LEMMA SweepRowsStep ==
  ASSUME CIInv, SweepRows
  PROVE  CIInv'
<1>1. CITypeOK'
  BY DEF CIInv, SweepRows, CITypeOK, CommandSteps, Tried, Rows
<1>2. OneRequest' /\ AllBeside' /\ Readable'
  BY DEF CIInv, SweepRows, OneRequest, AllBeside, Readable, InFlight, On
<1>3. IndexThere'
  BY DEF CIInv, SweepRows, IndexThere, With, Without
<1>4. CopyKept' /\ SameCopy'
  BY DEF CIInv, SweepRows, CopyKept, SameCopy, Backed
<1>5. Renewed'
  BY DEF CIInv, SweepRows, Renewed
<1>6. NothingSwept' /\ SweptInTime'
  BY DEF CIInv, SweepRows, NothingSwept, SweptInTime
<1>7. Progressing'
  BY DEF CIInv, SweepRows, Progressing, Progress, Consistent, Backed
<1> QED  BY <1>1, <1>2, <1>3, <1>4, <1>5, <1>6, <1>7 DEF CIInv

LEMMA VerifyStep ==
  ASSUME CIInv, Verify
  PROVE  CIInv'
<1>1. CITypeOK'
  BY EmptyTyped DEF CIInv, Verify, CITypeOK, CommandSteps, Tried, Agrees
<1>2. OneRequest' /\ AllBeside' /\ Readable'
  BY DEF CIInv, Verify, CITypeOK, OneRequest, AllBeside, Readable, InFlight, On, Agrees
<1>3. IndexThere'
  BY DEF CIInv, Verify, CITypeOK, IndexThere, With, Without, Agrees
<1>4. CopyKept' /\ SameCopy'
  BY DEF CIInv, Verify, CITypeOK, CopyKept, SameCopy, Backed, Agrees
<1>5. Renewed'
  BY DEF CIInv, Verify, CITypeOK, Renewed, Agrees
<1>6. NothingSwept' /\ SweptInTime'
  BY DEF CIInv, Verify, CITypeOK, NothingSwept, SweptInTime, Agrees
<1>7. Progressing'
  <2> SUFFICES ASSUME NEW c \in Captures, c \notin crossed', c \notin hurt'
               PROVE  Progress(c)'
    BY DEF Progressing
  <2>1. CASE Agrees /\ c \notin cmd.beside
    <3>1. docs[c] # "deleted" /\ On(c) = {}
      BY <2>1 DEF CIInv, AllBeside, InFlight, Renewed, Verify
    <3>2. Consistent(c)
      BY <2>1, <3>1 DEF CIInv, CITypeOK, Docs, Agrees, Live, Consistent
    <3> QED  BY <2>1, <3>1, <3>2 DEF Verify, Progress, Consistent, On, Backed
  <2>2. CASE Agrees /\ c \in cmd.beside
    <3>1. Consistent(c) /\ On(c) = {}
      BY <2>2 DEF CIInv, OneRequest, On, Progressing, Progress, Verify
    <3> QED  BY <2>2, <3>1 DEF Verify, Progress, Consistent, On, Backed
  <2>3. CASE ~Agrees
    BY <2>3 DEF CIInv, CITypeOK, Verify, Progressing, Progress, Consistent, Backed
  <2> QED  BY <2>1, <2>2, <2>3
<1> QED  BY <1>1, <1>2, <1>3, <1>4, <1>5, <1>6, <1>7 DEF CIInv

LEMMA AskStep ==
  ASSUME CIInv, Ask
  PROVE  CIInv'
<1>1. CITypeOK'
  BY EmptyTyped DEF CIInv, Ask, CITypeOK, CommandSteps, Tried
<1>2. OneRequest' /\ AllBeside' /\ Readable'
  BY DEF CIInv, Ask, CITypeOK, OneRequest, AllBeside, Readable, InFlight, On
<1>3. IndexThere'
  BY DEF CIInv, Ask, CITypeOK, IndexThere, With, Without
<1>4. CopyKept' /\ SameCopy'
  BY DEF CIInv, Ask, CITypeOK, CopyKept, SameCopy, Backed
<1>5. Renewed'
  BY DEF CIInv, Ask, CITypeOK, Renewed
<1>6. NothingSwept' /\ SweptInTime'
  BY DEF CIInv, Ask, CITypeOK, NothingSwept, SweptInTime
<1>7. Progressing'
  BY DEF CIInv, Ask, CITypeOK, OneRequest, Progressing, Progress, Consistent, Backed, On
<1> QED  BY <1>1, <1>2, <1>3, <1>4, <1>5, <1>6, <1>7 DEF CIInv

LEMMA RollbackStep ==
  ASSUME CIInv, Rollback
  PROVE  CIInv'
<1>1. CITypeOK'
  <2>1. cmd' \in [pc : CommandSteps, todo : SUBSET Captures, swept : SUBSET Captures,
                copy : [Captures -> Docs], beside : SUBSET Captures]
    BY EmptyTyped DEF CIInv, CITypeOK, Rollback, CommandSteps, Tried
  <2>2. docs' \in [Captures -> Docs] /\ there' \in BOOLEAN
    BY EmptyTyped DEF CIInv, CITypeOK, Rollback, DropIndex
  <2> QED  BY <2>1, <2>2 DEF CIInv, CITypeOK, Rollback, DropIndex
<1>2. OneRequest' /\ AllBeside' /\ Readable'
  BY DEF CIInv, Rollback, CITypeOK, OneRequest, AllBeside, Readable, InFlight, On
<1>3. IndexThere'
  BY DEF CIInv, Rollback, CITypeOK, IndexThere, With, Without, DropIndex
<1>4. CopyKept' /\ SameCopy'
  BY DEF CIInv, Rollback, CITypeOK, CopyKept, SameCopy, Backed, DropIndex
<1>5. Renewed'
  BY DEF CIInv, Rollback, CITypeOK, Renewed
<1>6. NothingSwept' /\ SweptInTime'
  BY DEF CIInv, Rollback, CITypeOK, NothingSwept, SweptInTime
<1>7. Progressing'
  BY DEF CIInv, Rollback, CITypeOK, IndexThere, Progressing, Progress, Backed, Without
<1> QED  BY <1>1, <1>2, <1>3, <1>4, <1>5, <1>6, <1>7 DEF CIInv

LEMMA RestoreStep ==
  ASSUME CIInv, Restore
  PROVE  CIInv'
<1>1. CITypeOK'
  BY EmptyTyped DEF CIInv, Restore, CITypeOK, CommandSteps
<1>2. OneRequest' /\ AllBeside' /\ Readable'
  BY DEF CIInv, Restore, OneRequest, AllBeside, Readable
<1>3. IndexThere'
  BY DEF CIInv, Restore, IndexThere, Without
<1>4. CopyKept' /\ SameCopy'
  BY DEF CIInv, Restore, CopyKept, SameCopy, Backed
<1>5. Renewed'
  BY DEF CIInv, Restore, Renewed
<1>6. NothingSwept' /\ SweptInTime'
  BY DEF CIInv, Restore, NothingSwept, SweptInTime
<1>7. Progressing'
  BY DEF CIInv, Restore, OneRequest, Progressing, Progress, Consistent, Backed, On
<1> QED  BY <1>1, <1>2, <1>3, <1>4, <1>5, <1>6, <1>7 DEF CIInv

LEMMA CallFailsStep ==
  ASSUME CIInv, CallFails
  PROVE  CIInv'
<1>1. CITypeOK'
  <2>1. cmd' \in [pc : CommandSteps, todo : SUBSET Captures, swept : SUBSET Captures,
                copy : [Captures -> Docs], beside : SUBSET Captures]
    <3>1. CASE cmd.pc \in Tried
      BY <3>1 DEF CIInv, CITypeOK, CallFails, CommandSteps
    <3>2. CASE cmd.pc \notin Tried
      BY <3>2, EmptyTyped DEF CIInv, CallFails, CommandSteps
    <3> QED  BY <3>1, <3>2
  <2>2. blocked' \in BOOLEAN
    BY DEF CIInv, CITypeOK, CallFails
  <2>3. hurt' \subseteq Captures /\ failures' \in 0 .. MaxFailures
    BY LimitAssumption DEF CIInv, CITypeOK, CallFails
  <2> QED  BY <2>1, <2>2, <2>3 DEF CIInv, CITypeOK, CallFails
<1>2. OneRequest' /\ AllBeside' /\ Readable'
  <2>1. CASE cmd.pc \in Tried
    BY <2>1 DEF CIInv, CallFails, CITypeOK, OneRequest, AllBeside, Readable, InFlight, On
  <2>2. CASE cmd.pc \notin Tried
    BY <2>2 DEF CIInv, CallFails, OneRequest, AllBeside, Readable
  <2> QED  BY <2>1, <2>2
<1>3. IndexThere'
  <2>1. CASE cmd.pc \in Tried
    BY <2>1 DEF CIInv, CallFails, CITypeOK, IndexThere, With, Without
  <2>2. CASE cmd.pc \notin Tried
    BY <2>2 DEF CIInv, CallFails, IndexThere, With, Without
  <2> QED  BY <2>1, <2>2
<1>4. CopyKept' /\ SameCopy'
  <2>1. CASE cmd.pc \in Tried
    BY <2>1 DEF CIInv, CallFails, CITypeOK, CopyKept, SameCopy, Backed, Tried
  <2>2. CASE cmd.pc \notin Tried
    BY <2>2 DEF CIInv, CallFails, CopyKept, SameCopy, Backed
  <2> QED  BY <2>1, <2>2
<1>5. Renewed'
  <2>1. CASE cmd.pc \in Tried
    BY <2>1 DEF CIInv, CallFails, CITypeOK, Renewed
  <2>2. CASE cmd.pc \notin Tried
    BY <2>2 DEF CIInv, CallFails, Renewed
  <2> QED  BY <2>1, <2>2
<1>6. NothingSwept' /\ SweptInTime'
  <2>1. CASE cmd.pc \in Tried
    BY <2>1 DEF CIInv, CallFails, CITypeOK, NothingSwept, SweptInTime
  <2>2. CASE cmd.pc \notin Tried
    BY <2>2 DEF CIInv, CallFails, NothingSwept, SweptInTime
  <2> QED  BY <2>1, <2>2
<1>7. Progressing'
  BY DEF CIInv, CallFails, Progressing, Progress
<1> QED  BY <1>1, <1>2, <1>3, <1>4, <1>5, <1>6, <1>7 DEF CIInv

LEMMA SkipOneStep ==
  ASSUME CIInv, SkipOne
  PROVE  CIInv'
<1>1. CITypeOK'
  BY LimitAssumption DEF CIInv, SkipOne, CITypeOK, Docs
<1>2. OneRequest' /\ AllBeside' /\ Readable'
  BY DEF CIInv, SkipOne, OneRequest, AllBeside, Readable, InFlight, On
<1>3. IndexThere'
  BY DEF CIInv, SkipOne, IndexThere, With
<1>4. CopyKept' /\ SameCopy'
  BY DEF CIInv, SkipOne, CopyKept, SameCopy
<1>5. Renewed'
  BY DEF CIInv, SkipOne, CITypeOK, Renewed
<1>6. NothingSwept' /\ SweptInTime'
  BY DEF CIInv, SkipOne, NothingSwept, SweptInTime
<1>7. Progressing'
  BY DEF CIInv, SkipOne, CITypeOK, Progressing, Progress
<1> QED  BY <1>1, <1>2, <1>3, <1>4, <1>5, <1>6, <1>7 DEF CIInv

LEMMA StopStep ==
  ASSUME CIInv, Stop
  PROVE  CIInv'
<1>1. CITypeOK'
  BY LimitAssumption, EmptyTyped DEF CIInv, Stop, CITypeOK, CommandSteps
<1>2. OneRequest' /\ AllBeside' /\ Readable'
  BY DEF CIInv, Stop, OneRequest, AllBeside, Readable
<1>3. IndexThere'
  BY DEF CIInv, Stop, IndexThere, With, Without
<1>4. CopyKept' /\ SameCopy'
  BY DEF CIInv, Stop, CopyKept, SameCopy, Backed
<1>5. Renewed'
  BY DEF CIInv, Stop, Renewed
<1>6. NothingSwept' /\ SweptInTime'
  BY DEF CIInv, Stop, NothingSwept, SweptInTime
<1>7. Progressing'
  BY DEF CIInv, Stop, Progressing, Progress
<1> QED  BY <1>1, <1>2, <1>3, <1>4, <1>5, <1>6, <1>7 DEF CIInv

LEMMA InitIndicesStep ==
  ASSUME CIInv, InitIndices
  PROVE  CIInv'
<1>1. CITypeOK'
  BY DEF CIInv, InitIndices, CITypeOK
<1>2. OneRequest' /\ AllBeside' /\ Readable'
  BY DEF CIInv, InitIndices, OneRequest, AllBeside, Readable
<1>3. IndexThere'
  BY DEF CIInv, InitIndices, IndexThere, Without
<1>4. CopyKept' /\ SameCopy'
  BY DEF CIInv, InitIndices, CopyKept, SameCopy
<1>5. Renewed'
  BY DEF CIInv, InitIndices, Renewed
<1>6. NothingSwept' /\ SweptInTime'
  BY DEF CIInv, InitIndices, NothingSwept, SweptInTime
<1>7. Progressing'
  BY DEF CIInv, InitIndices, Progressing, Progress, Expected, Consistent, On
<1> QED  BY <1>1, <1>2, <1>3, <1>4, <1>5, <1>6, <1>7 DEF CIInv

LEMMA CIInitially == CIInit => CIInv
<1> SUFFICES ASSUME CIInit  PROVE CIInv
  OBVIOUS
<1>1. CITypeOK
  <2>1. docs \in [Captures -> Docs]
    BY DEF CIInit, Docs
  <2>2. row \in [Captures -> Rows] /\ emptied \subseteq Captures
    BY DEF CIInit, Rows, Live
  <2>3. cmd \in [pc : CommandSteps, todo : SUBSET Captures, swept : SUBSET Captures,
                copy : [Captures -> Docs], beside : SUBSET Captures]
    BY EmptyTyped DEF CIInit, CommandSteps
  <2>4. req \in [Requests -> {Idle} \cup [op : {"create", "update", "destroy"}, c : Captures,
                                        seen : BOOLEAN, written : BOOLEAN]]
    BY DEF CIInit
  <2>5. /\ type \in {"drf", "rh"} /\ there \in BOOLEAN /\ blocked \in BOOLEAN
        /\ backups = {} /\ crossed = {} /\ hurt = {}
    BY DEF CIInit
  <2>6. started = 0 /\ commands = 0 /\ failures = 0
    BY DEF CIInit
  <2>7. /\ started \in 0 .. MaxRequests /\ commands \in 0 .. MaxCommands
        /\ failures \in 0 .. MaxFailures
    BY <2>6, LimitAssumption
  <2> QED  BY <2>1, <2>2, <2>3, <2>4, <2>5, <2>7 DEF CITypeOK
<1>2. \A r \in Requests : req[r].op = "idle" /\ ~req[r].seen
  BY DEF CIInit, Idle
<1>3. cmd.pc = "off" /\ cmd.swept = {}
  BY DEF CIInit
<1>4. Progressing
  BY <1>2, <1>3 DEF CIInit, Progressing, Progress, Consistent, On, Backed
<1> QED
  BY <1>1, <1>2, <1>3, <1>4 DEF CIInit, CIInv, OneRequest, AllBeside, Readable, IndexThere,
     Without, CopyKept, SameCopy, Renewed, NothingSwept, SweptInTime, Backed

LEMMA CIStutter ==
  ASSUME CIInv, UNCHANGED civars
  PROVE  CIInv'
<1>1. CITypeOK'
  BY DEF CIInv, CITypeOK, civars
<1>2. OneRequest' /\ AllBeside' /\ Readable'
  BY DEF CIInv, OneRequest, AllBeside, Readable, InFlight, On, civars
<1>3. IndexThere' /\ CopyKept' /\ SameCopy' /\ Renewed' /\ NothingSwept' /\ SweptInTime'
  BY DEF CIInv, IndexThere, CopyKept, SameCopy, Renewed, NothingSwept, SweptInTime, civars
<1>4. Progressing'
  BY DEF CIInv, Progressing, Progress, Expected, Consistent, On, civars
<1> QED  BY <1>1, <1>2, <1>3, <1>4 DEF CIInv

LEMMA CIAnyStep == CIInv /\ [CINext]_civars => CIInv'
<1> SUFFICES ASSUME CIInv, [CINext]_civars  PROVE CIInv'
  OBVIOUS
<1>1. CASE \E r \in Requests : Request(r)
  <2> PICK r \in Requests : Request(r)
    BY <1>1
  <2>1. CASE \E op \in {"create", "update", "destroy"}, c \in Captures : Start(r, op, c)
    BY <2>1, StartStep
  <2>2. CASE Write(r)
    BY <2>2, WriteStep
  <2>3. CASE CommitRequest(r)
    BY <2>3, CommitRequestStep
  <2>4. CASE Refuse(r)
    BY <2>4, RefuseStep
  <2>5. CASE Fail(r)
    BY <2>5, FailStep
  <2>6. CASE See(r)
    BY <2>6, SeeStep
  <2> QED  BY <2>1, <2>2, <2>3, <2>4, <2>5, <2>6 DEF Request
<1>2. CASE Command
  BY <1>2, ReplaceStep, DeleteDuplicateStep, EraseDuplicateStep, BlockStep, CloneStep,
     CountStep, RecreateStep, CreateStep, ListStep, ReindexOneStep, SweepStep,
     SweepDocStep, SweepRowsStep, VerifyStep, AskStep, RollbackStep, RestoreStep,
     CallFailsStep, SkipOneStep, StopStep DEF Command
<1>3. CASE InitIndices
  BY <1>3, InitIndicesStep
<1>4. CASE UNCHANGED civars
  BY <1>4, CIStutter
<1> QED  BY <1>1, <1>2, <1>3, <1>4 DEF CINext

-----------------------------------------------------------------------------
(* Theorems *)

\* The invariant that the theorems rest on.
THEOREM IndexInvariant == CISpec => []CIInv
<1>1. CIInit => CIInv
  BY CIInitially
<1>2. CIInv /\ [CINext]_civars => CIInv'
  BY CIAnyStep
<1> QED  BY <1>1, <1>2, PTL DEF CISpec

\* Captures, documents, requests and the command keep their types.
THEOREM IndexTypes == CISpec => []CITypeOK
<1>1. CIInv => CITypeOK
  BY DEF CIInv
<1> QED  BY <1>1, IndexInvariant, PTL

\* At rest, the index finds a capture if and only if it is live.
THEOREM LiveIsFound == CISpec => []FoundIfLive
<1>1. CIInv => FoundIfLive
  <2> SUFFICES ASSUME CIInv, NEW c \in Captures, AtRest(c)
               PROVE  docs[c] = "live" <=> c \in Live
    BY DEF FoundIfLive
  <2>1. Consistent(c)
    BY DEF CIInv, Progressing, Progress, AtRest
  <2> QED  BY <2>1 DEF Consistent, Live
<1> QED  BY <1>1, IndexInvariant, PTL

\* Which steps take a document out of the index.
LEMMA TakesDocument ==
  ASSUME CIInv, CINext, NEW c \in Captures, docs[c] # "none", docs'[c] = "none"
  PROVE  \/ cmd.pc = "dedup" /\ c \in cmd.todo
         \/ cmd.pc = "recreate" /\ crossed' = crossed
         \/ cmd.pc \in {"reset", "rollback"}
<1>1. CASE \E r \in Requests : Request(r)
  <2> PICK r \in Requests : Request(r)
    BY <1>1
  <2>1. CASE Write(r)
    BY <2>1 DEF Write, NewDoc, CIInv
  <2>2. CASE ~Write(r)
    BY <2>2 DEF Request, Start, See, CommitRequest, Refuse, Fail
  <2> QED  BY <2>1, <2>2
<1>2. CASE DeleteDuplicate
  BY <1>2 DEF DeleteDuplicate, CIInv, CITypeOK
<1>3. CASE Recreate
  BY <1>3 DEF Recreate
<1>4. CASE Rollback
  BY <1>4 DEF Rollback
<1>5. CASE Restore
  BY <1>5 DEF Restore, CIInv, IndexThere, Empty
<1>6. CASE SweepDoc
  BY <1>6 DEF SweepDoc, CIInv, Renewed, SweptInTime
<1>7. CASE ReindexOne \/ SkipOne
  BY <1>7 DEF ReindexOne, SkipOne, CIInv, CITypeOK
<1>8. CASE \/ Replace \/ EraseDuplicate \/ Block \/ Clone \/ Count \/ Create \/ List \/ Sweep
           \/ SweepRows \/ Verify \/ Ask \/ CallFails \/ Stop \/ InitIndices
  BY <1>8 DEF Replace, EraseDuplicate, Block, Clone, Count, Create, List, Sweep,
     SweepRows, Verify, Ask, CallFails, Stop, InitIndices
<1> QED  BY <1>1, <1>2, <1>3, <1>4, <1>5, <1>6, <1>7, <1>8 DEF CINext, Command

LEMMA BackupsStay ==
  ASSUME CINext
  PROVE  backups \subseteq backups'
<1>1. CASE \E r \in Requests : Request(r)
  BY <1>1 DEF Request, Start, See, Write, CommitRequest, Refuse, Fail
<1>2. CASE Clone
  BY <1>2 DEF Clone, Backup
<1>3. CASE Recreate \/ Rollback
  BY <1>3 DEF Recreate, Rollback, DropIndex
<1>4. CASE InitIndices \/ (Command /\ ~Clone /\ ~Recreate /\ ~Rollback)
  BY <1>4 DEF InitIndices, Command, Replace, DeleteDuplicate, EraseDuplicate, Block,
     Count, Create, List, ReindexOne, Sweep, SweepDoc, SweepRows, Verify, Ask, Restore,
     CallFails, SkipOne, Stop
<1> QED  BY <1>1, <1>2, <1>3, <1>4 DEF CINext

\* Whatever fails and wherever the command is stopped: the document of a live capture
\* stays in the index or in a backup, but for what the command or a rollback gives up
\* and captures with requests beside the command.
THEOREM DocumentsKept == CISpec => NothingLost
<1> DEFINE Step == \A c \in Live : Kept(c) /\ row'[c] = "live"
                     => Kept(c)' \/ GivenUp(c) \/ c \in crossed'
<1>1. CIInv /\ [CINext]_civars => [Step]_civars
  <2> SUFFICES ASSUME CIInv, CINext, NEW c \in Live, Kept(c)
               PROVE  Kept(c)' \/ GivenUp(c) \/ c \in crossed'
    OBVIOUS
  <2>1. CASE \E b \in backups : b[c] # "none"
    BY <2>1, BackupsStay DEF Kept
  <2>2. CASE docs[c] # "none" /\ docs'[c] # "none"
    BY <2>2 DEF Kept
  <2>3. CASE docs[c] # "none" /\ docs'[c] = "none" /\ \A b \in backups : b[c] = "none"
    <3>1. cmd.pc \in Backed => cmd.copy[c] = "none"
      BY <2>3 DEF CIInv, CopyKept
    <3>2. cmd.pc = "recreate" => c \in crossed
      BY <2>3, <3>1 DEF CIInv, SameCopy, Backed, Live
    <3> QED  BY <2>3, <3>1, <3>2, TakesDocument DEF GivenUp, Backed, Live
  <2> QED  BY <2>1, <2>2, <2>3 DEF Kept
<1> QED  BY <1>1, IndexInvariant, PTL DEF CISpec, NothingLost

HIDE DEF Goto, Quit, Rest, index, counts, Off, Fault, NoCmd

-----------------------------------------------------------------------------
(***************************************************************************)
(* Pictures.  The safety properties rest on what pipelines that run beside *)
(* each other can do to each other's records, which takes what is known of *)
(* the pipelines (Pipelines) and of each task at each of its steps (Tasks).*)
(***************************************************************************)


\* A pipeline has one record of a kind, and is numbered by its first record.
Grouped ==
  \A i \in Known : /\ recs[i].first <= i
                   /\ \A j \in Known : recs[j].first = recs[i].first /\ recs[j].kind = recs[i].kind
                                         => j = i
\* The setup task is one for the whole pipeline.
Together ==
  \A i, j \in Known : recs[i].first = recs[j].first /\ task[i].pc = "setup" => task[j].pc = "setup"
\* Only a task that raised has records to fail.
Handling == \A i \in Ids : marks[i] # {} => task[i].pc = "raised"
Counted  == \A i \in Known : task[i].pc = "raised" => i \in raised
Unborn   == \A i \in Ids \ Known : task[i].pc = "absent"
\* A record that is made while a pipeline is active meets it.
Beside ==
  \A i, j \in Known : Active(i) /\ i < j /\ recs[j].first # recs[i].first => i \in met /\ j \in met

Pipelines == Grouped /\ Together /\ Handling /\ Counted /\ Unborn /\ Beside

\* A task that has begun works for a record that is committed.
Begun == \A i \in Known : task[i].pc \in {"rendering", "storing", "finishing"} => recs[i].committed
\* It stores into another record only where pipelines met.
Aimed ==
  \A i \in Known : task[i].pc = "storing"
    => task[i].into \in Known /\ (task[i].into = i \/ {i, task[i].into} \subseteq met)
\* It stores with an open status, unless something else has settled its record.
Copied ==
  \A i \in Known \ (met \cup raised) : task[i].pc = "storing" => task[i].copy \in Open
Stored == \A i \in Known \ met : task[i].pc = "finishing" => recs[i].file = i
Settled == \A i \in Known \ met : task[i].pc = "done" => recs[i].status \notin Open
Finished ==
  \A i \in Known \ (met \cup raised) : recs[i].status = "completed" => task[i].pc = "done"
Excused(i) == i \in met \cup raised \/ task[i].pc \in {"absent", "lost"}
\* The error handler fails records that are excused.
Marked == \A k \in Ids : \A j \in marks[k] : j \in Known /\ Excused(j)

Tasks == Begun /\ Aimed /\ Copied /\ Stored /\ Settled /\ Finished /\ Marked

\* The properties, as they are where pipelines do not meet.
PictureAlone == \A i \in Known \ met : recs[i].status = "completed" => Download(i) = i
FailureAlone ==
  \A i \in Known \ met :
    recs[i].status = "failed" => i \in raised \/ task[i].pc \in {"absent", "lost"}

IInv == TypeOK /\ Pipelines /\ Tasks /\ PictureAlone /\ FailureAlone

-----------------------------------------------------------------------------
(* Records and tasks *)

Entries == Seq([kind : Kinds, params : Params \cup {Default}])
Distinct(entries) == \A j, k \in DOMAIN entries : entries[j].kind = entries[k].kind => j = k

LEMMA RecordTyped ==
  ASSUME TypeOK, NEW i \in Known
  PROVE  recs[i] \in Record /\ i \in Ids
<1>1. recs[i] \in Record
  BY ElementOfSeq DEF TypeOK, Known
<1>2. Len(recs) \in Nat
  BY LenProperties DEF TypeOK
<1> QED BY <1>1, <1>2, BoundAssumption DEF TypeOK, Known, Ids

\* Every request launches a pipeline for entries of different kinds.
LEMMA Launching ==
  ASSUME (\E p \in Params : CreateSpectrogram(p)) \/ CreateWaterfall \/ Reindexed
  PROVE  \E entries \in Entries, committed \in BOOLEAN :
           Distinct(entries) /\ Launch(entries, committed)
<1>1. CASE \E p \in Params : CreateSpectrogram(p)
  <2> PICK p \in Params : CreateSpectrogram(p)
    BY <1>1
  <2> DEFINE e == <<[kind |-> "spectrogram", params |-> p]>>
  <2>1. e \in Entries /\ Distinct(e)
    BY DEF Entries, Distinct, Kinds
  <2> QED BY <2>1 DEF CreateSpectrogram
<1>2. CASE CreateWaterfall
  <2> DEFINE e == <<[kind |-> "waterfall", params |-> Default]>>
  <2>1. e \in Entries /\ Distinct(e)
    BY DEF Entries, Distinct, Kinds
  <2> QED BY <1>2, <2>1 DEF CreateWaterfall
<1>3. CASE Reindexed
  <2> DEFINE e == <<[kind |-> "waterfall", params |-> Default],
                    [kind |-> "spectrogram", params |-> Default]>>
  <2>1. e \in Entries /\ Distinct(e)
    BY DEF Entries, Distinct, Kinds
  <2> QED BY <1>3, <2>1 DEF Reindexed
<1> QED BY <1>1, <1>2, <1>3

\* The new records come after the old ones, which stay as they are.
LEMMA Launched ==
  ASSUME TypeOK, NEW entries \in Entries, NEW committed \in BOOLEAN, Distinct(entries),
         Launch(entries, committed)
  PROVE  /\ recs' \in Seq(Record) /\ Len(recs') <= MaxRecords /\ Known \subseteq Known'
         /\ \A i \in Known : recs'[i] = recs[i]
         /\ Known' \ Known = {Len(recs) + k : k \in DOMAIN entries}
         /\ \A i \in Known' \ Known :
              /\ i > Len(recs)
              /\ recs'[i].first = Len(recs) + 1 /\ recs'[i].status = "pending"
              /\ \A j \in Known' \ Known : recs'[i].kind = recs'[j].kind => i = j
<1> DEFINE n == Len(recs)
           m == Len(entries)
           e(k) == [kind |-> entries[k].kind, params |-> entries[k].params, status |-> "pending",
                    file |-> 0, committed |-> committed, first |-> n + 1]
           more == [k \in 1 .. m |-> e(k)]
<1>1. n \in Nat /\ m \in Nat /\ DOMAIN entries = 1 .. m
  BY LenProperties DEF TypeOK, Entries
<1>2. n + m <= MaxRecords /\ recs' = recs \o more
  BY <1>1 DEF Launch
<1>3. ASSUME NEW k \in 1 .. m
      PROVE  e(k) \in Record
  <2>1. entries[k] \in [kind : Kinds, params : Params \cup {Default}]
    BY <1>1, ElementOfSeq DEF Entries
  <2>2. n + 1 \in Ids
    BY <1>1, <1>2, BoundAssumption DEF Ids
  <2> QED BY <2>1, <2>2, BoundAssumption DEF Record, Statuses
<1>4. more \in Seq(Record) /\ Len(more) = m /\ \A k \in 1 .. m : more[k] = e(k)
  BY <1>1, <1>3
<1>5. /\ recs \o more \in Seq(Record)
      /\ Len(recs \o more) = n + m
      /\ \A i \in 1 .. n + m : (recs \o more)[i] = IF i <= n THEN recs[i] ELSE more[i - n]
  BY <1>4, ConcatProperties DEF TypeOK
<1> HIDE DEF more
<1>6. Known = 1 .. n /\ Known' = 1 .. n + m
  BY <1>2, <1>5 DEF Known
<1>7. ASSUME NEW i \in Known' \ Known
      PROVE  \E k \in 1 .. m : i = n + k /\ recs'[i] = e(k)
  BY <1>1, <1>2, <1>4, <1>5, <1>6
<1>8. ASSUME NEW i \in Known' \ Known
      PROVE  i > n /\ recs'[i].first = n + 1 /\ recs'[i].status = "pending"
  <2>1. PICK k \in 1 .. m : i = n + k /\ recs'[i] = e(k)
    BY <1>7
  <2> QED BY <1>1, <2>1
<1>9. ASSUME NEW i \in Known' \ Known, NEW j \in Known' \ Known, recs'[i].kind = recs'[j].kind
      PROVE  i = j
  <2>1. PICK k \in 1 .. m : i = n + k /\ recs'[i] = e(k)
    BY <1>7
  <2>2. PICK l \in 1 .. m : j = n + l /\ recs'[j] = e(l)
    BY <1>7
  <2> QED BY <1>1, <1>9, <2>1, <2>2 DEF Distinct
<1>10. Known' \ Known = {n + k : k \in DOMAIN entries}
  <2>1. \A i \in Known' \ Known : i \in {n + k : k \in DOMAIN entries}
    BY <1>1, <1>7
  <2>2. \A k \in DOMAIN entries : n + k \in Known' \ Known
    BY <1>1, <1>6
  <2> QED BY <2>1, <2>2
<1> QED BY <1>1, <1>2, <1>5, <1>6, <1>8, <1>9, <1>10

\* A step that changes one record in place.
LEMMA Replaced ==
  ASSUME TypeOK, NEW i \in Known, NEW r \in Record, recs' = [recs EXCEPT ![i] = r]
  PROVE  /\ recs' \in Seq(Record) /\ Len(recs') = Len(recs) /\ Known' = Known
         /\ recs'[i] = r /\ \A j \in Known : j # i => recs'[j] = recs[j]
BY ExceptSeq DEF TypeOK, Known

\* What every step does but those that launch a pipeline: records keep their places, a
\* task that is not running does not run again, and one that is gone stays so.
Frame ==
  /\ TypeOK' /\ Known' = Known /\ met' = met /\ raised \subseteq raised'
  /\ \A j \in Known : /\ recs'[j].first = recs[j].first /\ recs'[j].kind = recs[j].kind
                      /\ recs[j].committed => recs'[j].committed
  /\ \A j \in Ids : /\ task'[j].pc \notin Ended => task[j].pc \notin Ended
                    /\ marks'[j] # {} => marks[j] # {} \/ task[j].pc \notin Ended
                    /\ task[j].pc \in {"absent", "lost"} => task'[j].pc = task[j].pc

LEMMA Framed ==
  ASSUME IInv, Frame
  PROVE  /\ Grouped' /\ Unborn' /\ Beside'
         /\ \A j \in Known : Excused(j) => Excused(j)'
<1> USE DEF IInv, Pipelines, Frame
<1>1. Known \subseteq Ids
  BY RecordTyped
<1>2. Grouped'
  BY DEF Grouped
<1>3. Unborn'
  BY DEF Unborn
<1>4. ASSUME NEW i \in Known, Active(i)'
      PROVE  Active(i)
  <2>1. Pipeline(i)' = Pipeline(i)
    BY DEF Pipeline
  <2> QED BY <1>1, <1>4, <2>1 DEF Active, Pipeline
<1>5. Beside'
  BY <1>4 DEF Beside
<1>6. \A j \in Known : Excused(j) => Excused(j)'
  BY <1>1 DEF Excused
<1> QED BY <1>2, <1>3, <1>5, <1>6

\* The records that a task which raises has failed are excused.
LEMMA MarkedByRaise ==
  ASSUME IInv, NEW i \in Known, task[i].pc \notin Ended, NEW j \in Unsettled
  PROVE  j \in Known /\ (j \in Pipeline(i) \/ Excused(j))
<1> USE DEF IInv, Pipelines, Tasks
<1>1. i \in Ids /\ j \in Ids /\ j \in Known /\ recs[j].status \in Open
  BY RecordTyped DEF Unsettled, Visible
<1>2. i \in Pipeline(i) /\ j \in Pipeline(j)
  BY <1>1 DEF Pipeline
<1> SUFFICES ASSUME j \notin Pipeline(i)
             PROVE  Excused(j)
  BY <1>1
<1>3. recs[j].first # recs[i].first /\ i # j
  BY <1>1, <1>2 DEF Pipeline
<1>4. CASE i < j
  BY <1>1, <1>2, <1>3, <1>4 DEF Beside, Active, Excused
<1>5. CASE j < i
  <2>1. CASE task[j].pc \notin Ended
    BY <1>1, <1>2, <1>3, <1>5, <2>1 DEF Beside, Active, Excused
  <2>2. CASE task[j].pc \in Ended
    BY <1>1, <2>2 DEF Ended, Counted, Settled, Excused
  <2> QED BY <2>1, <2>2
<1> QED
  BY <1>1, <1>3, <1>4, <1>5 DEF Ids

-----------------------------------------------------------------------------
(* Steps *)

LEMMA Initially == Init => IInv
<1> SUFFICES ASSUME Init
             PROVE  IInv
  OBVIOUS
<1> USE DEF Init
<1>1. recs = <<>> /\ Known = {}
  BY DEF Known
<1>2. TypeOK
  <2>1. task \in [Ids -> Task]
    BY BoundAssumption DEF NoTask, Task, Steps, Statuses, Ids
  <2>2. recs \in Seq(Record) /\ Len(recs) = 0
    OBVIOUS
  <2>3. marks \in [Ids -> SUBSET Ids] /\ 0 \in 0 .. MaxFaults /\ 0 <= MaxRecords
    BY BoundAssumption
  <2> QED BY <2>1, <2>2, <2>3 DEF TypeOK
<1>3. Pipelines
  BY <1>1 DEF Pipelines, Grouped, Together, Handling, Counted, Unborn, Beside, NoTask
<1>4. Tasks
  BY <1>1 DEF Tasks, Begun, Aimed, Copied, Stored, Settled, Finished, Marked
<1> QED BY <1>1, <1>2, <1>3, <1>4 DEF IInv, PictureAlone, FailureAlone

LEMMA LaunchStep ==
  ASSUME IInv, NEW entries \in Entries, NEW committed \in BOOLEAN, Distinct(entries),
         Launch(entries, committed)
  PROVE  IInv'
<1> DEFINE n == Len(recs)
           fresh == Known' \ Known
<1> USE DEF IInv
<1>1. /\ recs' \in Seq(Record) /\ Len(recs') <= MaxRecords /\ Known \subseteq Known'
      /\ \A i \in Known : recs'[i] = recs[i]
      /\ fresh = {n + k : k \in DOMAIN entries}
      /\ \A i \in fresh :
              /\ i > n /\ recs'[i].first = n + 1 /\ recs'[i].status = "pending"
              /\ \A j \in fresh : recs'[i].kind = recs'[j].kind => i = j
  BY Launched
<1>2. Known' \subseteq Ids /\ n \in Nat /\ \A i \in Known : i \in 1 .. n
  <2>1. Len(recs') \in Nat /\ Len(recs) \in Nat
    BY <1>1, LenProperties DEF TypeOK
  <2> QED BY <1>1, <2>1, BoundAssumption DEF Known, Ids
<1>3. /\ marks' = marks /\ gone' = gone /\ raised' = raised /\ unseen' = unseen
      /\ faults' \in 0 .. MaxFaults
  BY BoundAssumption DEF Launch, TypeOK
<1>4. /\ task' \in [Ids -> Task]
      /\ \A i \in Ids \ fresh : task'[i] = task[i]
      /\ \/ \A i \in fresh : task'[i].pc = "setup"
         \/ \A i \in fresh : task'[i].pc = "absent"
  <2>1. CASE task' = [i \in Ids |-> IF i \in fresh THEN [NoTask EXCEPT !.pc = "setup"] ELSE task[i]]
    <3>1. ASSUME NEW i \in Ids
          PROVE  [NoTask EXCEPT !.pc = "setup"] \in Task
      <4>1. 1 \in Ids
        BY BoundAssumption DEF Ids
      <4> QED BY <4>1 DEF NoTask, Task, Steps, Statuses
    <3> QED BY <1>2, <2>1, <3>1 DEF TypeOK, NoTask
  <2>2. CASE task' = task
    BY <1>2, <2>2 DEF TypeOK, Pipelines, Unborn
  <2>3. \/ task' = [i \in Ids |-> IF i \in fresh THEN [NoTask EXCEPT !.pc = "setup"] ELSE task[i]]
        \/ task' = task
    <3> HIDE DEF fresh, IInv
    <3> QED BY <1>1, Zenon DEF Launch
  <2> QED BY <2>1, <2>2, <2>3
<1>5. /\ met \subseteq met' /\ met' \subseteq Ids
      /\ \A i \in Known, j \in fresh : Active(i) => i \in met' /\ j \in met'
  <2> DEFINE beside == {i \in Known : Active(i)}
  <2>1. met' = IF beside = {} THEN met ELSE met \cup beside \cup fresh
    <3> HIDE DEF fresh, IInv
    <3> QED BY <1>1, Zenon DEF Launch
  <2> QED BY <1>1, <1>2, <2>1 DEF TypeOK
<1> HIDE DEF fresh
<1>6. TypeOK'
  BY <1>1, <1>2, <1>3, <1>4, <1>5 DEF TypeOK
<1>7. Known' = Known \cup fresh /\ Known \cap fresh = {} /\ fresh \subseteq Ids
  BY <1>1, <1>2 DEF fresh
<1>8. \A i \in Known : recs[i].first \in Nat /\ i \in Nat /\ i <= n /\ recs[i].first <= n
  BY <1>2, RecordTyped, BoundAssumption DEF Record, Ids, Pipelines, Grouped
<1>9. \A i \in fresh : i \in Nat /\ n + 1 <= i
  BY <1>1, <1>2, <1>7 DEF Ids
<1>10. Grouped'
  BY <1>1, <1>2, <1>7, <1>8, <1>9 DEF Pipelines, Grouped
<1>11. Together'
  BY <1>1, <1>2, <1>4, <1>7 DEF Pipelines, Grouped, Together
<1>12. Handling'
  BY <1>2, <1>3, <1>4, <1>7 DEF Pipelines, Handling, Unborn
<1>13. Counted' /\ Unborn'
  BY <1>2, <1>3, <1>4, <1>7 DEF Pipelines, Counted, Unborn
<1>14. Beside'
  <2>1. ASSUME NEW i \in Known, Active(i)'
        PROVE  Active(i)
    <3>1. Pipeline(i)' = Pipeline(i)
      BY <1>1, <1>2, <1>7, <1>8 DEF Pipeline
    <3>2. \A j \in Pipeline(i) : task'[j] = task[j] /\ marks'[j] = marks[j]
      BY <1>2, <1>3, <1>4, <1>7 DEF Pipeline
    <3> QED BY <2>1, <3>1, <3>2 DEF Active
  <2>2. SUFFICES ASSUME NEW i \in Known', NEW j \in Known', Active(i)', i < j,
                        recs'[j].first # recs'[i].first
                 PROVE  i \in met' /\ j \in met'
    BY DEF Beside
  <2>3. i \in Known
    <3> SUFFICES ASSUME i \in fresh
                 PROVE  FALSE
      BY <1>7
    <3>1. CASE j \in Known
      BY <1>2, <1>8, <1>9, <2>2, <3>1
    <3>2. CASE j \in fresh
      BY <1>1, <2>2, <3>2
    <3> QED BY <1>7, <3>1, <3>2
  <2>4. CASE j \in Known
    BY <1>1, <1>5, <2>1, <2>2, <2>3, <2>4 DEF Pipelines, Beside
  <2>5. CASE j \in fresh
    BY <1>5, <2>1, <2>2, <2>3, <2>5
  <2> QED BY <1>7, <2>4, <2>5
<1>15. Begun' /\ Aimed' /\ Copied' /\ Stored'
  BY <1>1, <1>2, <1>3, <1>4, <1>5, <1>7 DEF Tasks, Begun, Aimed, Copied, Stored
<1>16. Settled' /\ Finished'
  BY <1>1, <1>2, <1>3, <1>4, <1>5, <1>7 DEF Tasks, Settled, Finished
<1>17. Marked'
  BY <1>1, <1>2, <1>3, <1>4, <1>5, <1>7 DEF Tasks, Marked, Excused
<1>18. PictureAlone' /\ FailureAlone'
  BY <1>1, <1>2, <1>3, <1>4, <1>5, <1>7 DEF PictureAlone, FailureAlone, Download
<1> QED
  BY <1>6, <1>10, <1>11, <1>12, <1>13, <1>14, <1>15, <1>16, <1>17, <1>18 DEF Pipelines, Tasks

\* What CompletedStays says of a step.
StaysCompleted ==
  \A i \in Known : recs[i].status = "completed"
    => recs'[i].status = "completed" \/ i \in met' \/ i \in raised'

LEMMA RaiseStep ==
  ASSUME IInv, NEW i \in Known, NEW S \in SUBSET Pipeline(i), i \in S,
         \A j \in S : task[j].pc \notin Ended,
         task[i].pc # "setup" \/ S = Pipeline(i),
         Raise(i, S),
         \/ recs' = recs
         \/ task[i].pc = "storing" /\ recs' = [recs EXCEPT ![task[i].into].file = i]
  PROVE  IInv' /\ StaysCompleted
<1> USE DEF IInv
<1>1. /\ Known \subseteq Ids /\ S \subseteq Known /\ S \subseteq Ids /\ i \in Ids
      /\ Known' = Known /\ recs' \in Seq(Record) /\ Len(recs') = Len(recs)
      /\ \A j \in Known : /\ recs'[j].kind = recs[j].kind /\ recs'[j].first = recs[j].first
                          /\ recs'[j].status = recs[j].status
                          /\ recs'[j].committed = recs[j].committed
                          /\ \/ recs'[j].file = recs[j].file
                             \/ recs'[j].file = i /\ task[i].pc = "storing" /\ task[i].into = j
  <2>1. Known \subseteq Ids /\ S \subseteq Known /\ \A j \in Known : recs[j] \in Record
    BY RecordTyped DEF Pipeline
  <2>2. CASE recs' = recs
    BY <2>1, <2>2 DEF TypeOK, Known
  <2>3. CASE task[i].pc = "storing" /\ recs' = [recs EXCEPT ![task[i].into].file = i]
    <3> DEFINE t == task[i].into
               q == [recs[t] EXCEPT !.file = i]
    <3>1. t \in Known
      BY <2>3 DEF Tasks, Aimed
    <3>2. q \in Record
      BY <2>1, <3>1, BoundAssumption DEF Record, Ids
    <3>3. recs' = [recs EXCEPT ![t] = q]
      BY <2>3
    <3>4. /\ recs' \in Seq(Record) /\ Len(recs') = Len(recs) /\ Known' = Known
          /\ recs'[t] = q /\ \A j \in Known : j # t => recs'[j] = recs[j]
      BY <3>1, <3>2, <3>3, Replaced
    <3> QED BY <2>1, <2>3, <3>1, <3>4 DEF Record
  <2> QED BY <2>1, <2>2, <2>3
<1>2. /\ task' \in [Ids -> Task]
      /\ \A j \in S : task'[j].pc = "raised"
      /\ \A j \in Ids \ S : task'[j] = task[j]
  <2>1. [NoTask EXCEPT !.pc = "raised"] \in Task
    BY <1>1, BoundAssumption DEF NoTask, Task, Steps, Statuses, Ids
  <2> QED BY <1>1, <2>1 DEF Raise, End, TypeOK, NoTask
<1>3. /\ marks' \in [Ids -> SUBSET Ids] /\ marks'[i] = Unsettled
      /\ \A j \in Ids \ {i} : marks'[j] = marks[j]
  <2>1. Unsettled \subseteq Ids
    BY <1>1 DEF Unsettled, Visible
  <2> QED BY <1>1, <2>1 DEF Raise, TypeOK
<1>4. /\ raised' = raised \cup Pipeline(i) /\ met' = met /\ gone' = gone /\ faults' = faults
      /\ raised' \subseteq Ids /\ unseen' \subseteq Ids
  BY <1>1 DEF Raise, TypeOK, Pipeline
<1>5. TypeOK'
  BY <1>1, <1>2, <1>3, <1>4 DEF TypeOK
<1>6. Frame
  BY <1>1, <1>2, <1>3, <1>4, <1>5 DEF Frame, Ended
<1>7. Grouped' /\ Unborn' /\ Beside' /\ \A j \in Known : Excused(j) => Excused(j)'
  BY <1>6, Framed
<1>8. Together'
  BY <1>1, <1>2 DEF Pipelines, Together, Pipeline
<1>9. Handling' /\ Counted'
  BY <1>1, <1>2, <1>3, <1>4 DEF Pipelines, Handling, Counted, Ended
<1>10. Begun' /\ Aimed' /\ Copied'
  BY <1>1, <1>2, <1>4 DEF Tasks, Begun, Aimed, Copied
<1>11. Stored' /\ PictureAlone'
  BY <1>1, <1>2, <1>4 DEF Tasks, Stored, Aimed, PictureAlone, Download
<1>12. Settled' /\ Finished'
  BY <1>1, <1>2, <1>4 DEF Tasks, Settled, Finished, Ended
<1>13. Marked'
  <2>1. \A j \in Unsettled : j \in Known /\ (j \in Pipeline(i) \/ Excused(j))
    BY MarkedByRaise
  <2>2. \A j \in Pipeline(i) : Excused(j)'
    BY <1>4 DEF Excused
  <2> QED BY <1>1, <1>3, <1>7, <2>1, <2>2 DEF Tasks, Marked
<1>14. FailureAlone'
  BY <1>1, <1>4, <1>7 DEF FailureAlone, Excused
<1>15. StaysCompleted
  BY <1>1 DEF StaysCompleted
<1> QED
  BY <1>5, <1>7, <1>8, <1>9, <1>10, <1>11, <1>12, <1>13, <1>14, <1>15 DEF Pipelines, Tasks

LEMMA CommitStep ==
  ASSUME IInv, NEW i \in Ids, Commit(i)
  PROVE  IInv' /\ StaysCompleted
<1> DEFINE q == [recs[i] EXCEPT !.committed = TRUE]
<1> USE DEF IInv
<1>1. i \in Known /\ recs[i] \in Record /\ Known \subseteq Ids
  BY RecordTyped DEF Commit
<1>2. q \in Record
  BY <1>1 DEF Record
<1>3. recs' = [recs EXCEPT ![i] = q]
  BY DEF Commit
<1>4. /\ recs' \in Seq(Record) /\ Len(recs') = Len(recs) /\ Known' = Known
      /\ recs'[i] = q /\ \A j \in Known : j # i => recs'[j] = recs[j]
  BY <1>1, <1>2, <1>3, Replaced
<1>5. \A j \in Known : /\ recs'[j].kind = recs[j].kind /\ recs'[j].first = recs[j].first
                       /\ recs'[j].status = recs[j].status /\ recs'[j].file = recs[j].file
                       /\ recs[j].committed => recs'[j].committed
  BY <1>1, <1>4 DEF Record
<1> HIDE DEF q
<1>6. UNCHANGED <<task, marks, gone, faults, met, raised, unseen>>
  BY DEF Commit
<1>7. TypeOK'
  BY <1>4, <1>6 DEF TypeOK
<1>8. Frame
  BY <1>4, <1>5, <1>6, <1>7 DEF Frame
<1>9. Grouped' /\ Unborn' /\ Beside' /\ \A j \in Known : Excused(j) => Excused(j)'
  BY <1>8, Framed
<1>10. Together' /\ Handling' /\ Counted'
  BY <1>4, <1>5, <1>6 DEF Pipelines, Together, Handling, Counted
<1>11. Begun' /\ Aimed' /\ Copied' /\ Stored' /\ Settled' /\ Finished'
  BY <1>4, <1>5, <1>6 DEF Tasks, Begun, Aimed, Copied, Stored, Settled, Finished
<1>12. Marked' /\ PictureAlone' /\ FailureAlone'
  BY <1>4, <1>5, <1>6, <1>9 DEF Tasks, Marked, PictureAlone, FailureAlone, Download
<1> QED
  BY <1>5, <1>7, <1>9, <1>10, <1>11, <1>12 DEF Pipelines, Tasks, StaysCompleted

LEMMA DeleteStep ==
  ASSUME IInv, DeleteCapture
  PROVE  IInv' /\ StaysCompleted
<1> USE DEF IInv
<1>1. UNCHANGED <<recs, task, marks, met, raised, unseen>> /\ gone' = TRUE
  BY DEF DeleteCapture
<1>2. faults' \in 0 .. MaxFaults
  BY BoundAssumption DEF DeleteCapture, TypeOK
<1>3. Known' = Known /\ TypeOK'
  BY <1>1, <1>2 DEF TypeOK, Known
<1>4. Frame
  BY <1>1, <1>3 DEF Frame
<1>5. Grouped' /\ Unborn' /\ Beside' /\ \A j \in Known : Excused(j) => Excused(j)'
  BY <1>4, Framed
<1>6. Together' /\ Handling' /\ Counted'
  BY <1>1, <1>3 DEF Pipelines, Together, Handling, Counted
<1>7. Begun' /\ Aimed' /\ Copied' /\ Stored' /\ Settled' /\ Finished'
  BY <1>1, <1>3 DEF Tasks, Begun, Aimed, Copied, Stored, Settled, Finished
<1>8. Marked' /\ PictureAlone' /\ FailureAlone'
  BY <1>1, <1>3, <1>5 DEF Tasks, Marked, PictureAlone, FailureAlone, Download
<1> QED
  BY <1>1, <1>3, <1>5, <1>6, <1>7, <1>8 DEF Pipelines, Tasks, StaysCompleted

LEMMA SetupStep ==
  ASSUME IInv, NEW i \in Ids, Setup(i)
  PROVE  IInv' /\ StaysCompleted
<1> USE DEF IInv
<1>1. /\ i \in Known /\ Known \subseteq Ids /\ task[i].pc = "setup" /\ i \in Pipeline(i)
      /\ Pipeline(i) \subseteq Known /\ \A j \in Pipeline(i) : task[j].pc = "setup"
  BY RecordTyped DEF Setup, At, Pipeline, Pipelines, Together
<1>2. CASE gone
  BY <1>1, <1>2, RaiseStep DEF Setup, Ended
<1>3. CASE ~gone
  <2>1. /\ task' = [j \in Ids |-> IF j \in Pipeline(i) THEN [task[j] EXCEPT !.pc = "queued"]
                                  ELSE task[j]]
        /\ UNCHANGED <<recs, marks, gone, faults, met, raised, unseen>>
    BY <1>3 DEF Setup
  <2>2. /\ task' \in [Ids -> Task]
        /\ \A j \in Pipeline(i) : task'[j].pc = "queued"
        /\ \A j \in Ids \ Pipeline(i) : task'[j] = task[j]
    BY <1>1, <2>1 DEF TypeOK, Task, Steps
  <2>3. Known' = Known /\ TypeOK'
    BY <2>1, <2>2 DEF TypeOK, Known
  <2>4. Frame
    BY <1>1, <2>1, <2>2, <2>3 DEF Frame, Ended
  <2>5. Grouped' /\ Unborn' /\ Beside' /\ \A j \in Known : Excused(j) => Excused(j)'
    BY <2>4, Framed
  <2>6. Together' /\ Handling' /\ Counted'
    BY <1>1, <2>1, <2>2, <2>3 DEF Pipelines, Together, Handling, Counted, Pipeline
  <2>7. Begun' /\ Aimed' /\ Copied' /\ Stored' /\ Settled' /\ Finished'
    BY <1>1, <2>1, <2>2, <2>3 DEF Tasks, Begun, Aimed, Copied, Stored, Settled, Finished
  <2>8. Marked' /\ PictureAlone' /\ FailureAlone'
    BY <1>1, <2>1, <2>3, <2>5 DEF Tasks, Marked, PictureAlone, FailureAlone, Download, Excused
  <2> QED
    BY <2>1, <2>3, <2>5, <2>6, <2>7, <2>8 DEF Pipelines, Tasks, StaysCompleted
<1> QED BY <1>2, <1>3

LEMMA BeginStep ==
  ASSUME IInv, NEW i \in Ids, Begin(i)
  PROVE  IInv' /\ StaysCompleted
<1> USE DEF IInv
<1>1. /\ i \in Known /\ Known \subseteq Ids /\ task[i].pc = "queued" /\ i \in Pipeline(i)
      /\ recs[i] \in Record
  BY RecordTyped DEF Begin, At, Pipeline
<1>2. CASE gone \/ ~recs[i].committed
  <2>1. Raise(i, {i}) /\ UNCHANGED recs
    BY <1>2 DEF Begin
  <2> QED BY <1>1, <2>1, RaiseStep DEF Ended
<1>3. CASE ~gone /\ recs[i].committed
  <2> DEFINE q == [recs[i] EXCEPT !.status = "processing"]
  <2>1. /\ recs' = [recs EXCEPT ![i] = q]
        /\ task' = [task EXCEPT ![i].pc = "rendering"]
        /\ UNCHANGED <<marks, gone, faults, met, raised, unseen>>
    BY <1>3 DEF Begin
  <2>2. q \in Record
    BY <1>1 DEF Record, Statuses
  <2>3. /\ recs' \in Seq(Record) /\ Len(recs') = Len(recs) /\ Known' = Known
        /\ recs'[i] = q /\ \A j \in Known : j # i => recs'[j] = recs[j]
    BY <1>1, <2>1, <2>2, Replaced
  <2>4. /\ \A j \in Known : /\ recs'[j].kind = recs[j].kind /\ recs'[j].first = recs[j].first
                            /\ recs'[j].file = recs[j].file
                            /\ recs'[j].committed = recs[j].committed
        /\ recs'[i].status = "processing"
        /\ \A j \in Known \ {i} : recs'[j].status = recs[j].status
    BY <1>1, <2>3 DEF Record
  <2> HIDE DEF q
  <2>5. /\ task' \in [Ids -> Task] /\ task'[i].pc = "rendering"
        /\ \A j \in Ids \ {i} : task'[j] = task[j]
    BY <1>1, <2>1 DEF TypeOK, Task, Steps
  <2>6. TypeOK'
    BY <2>1, <2>3, <2>5 DEF TypeOK
  <2>7. Frame
    BY <1>1, <2>1, <2>3, <2>4, <2>5, <2>6 DEF Frame, Ended
  <2>8. Grouped' /\ Unborn' /\ Beside' /\ \A j \in Known : Excused(j) => Excused(j)'
    BY <2>7, Framed
  <2>9. Together' /\ Handling' /\ Counted'
    BY <1>1, <2>1, <2>3, <2>4, <2>5 DEF Pipelines, Together, Handling, Counted
  <2>10. Begun' /\ Aimed' /\ Copied' /\ Stored'
    BY <1>1, <1>3, <2>1, <2>3, <2>4, <2>5 DEF Tasks, Begun, Aimed, Copied, Stored
  <2>11. Settled' /\ Finished'
    BY <1>1, <2>1, <2>3, <2>4, <2>5 DEF Tasks, Settled, Finished
  <2>12. Marked' /\ PictureAlone' /\ FailureAlone'
    BY <1>1, <2>1, <2>3, <2>4, <2>8
    DEF Tasks, Marked, PictureAlone, FailureAlone, Download, Excused
  <2>13. StaysCompleted
    BY <1>1, <2>1, <2>4 DEF StaysCompleted, Tasks, Finished
  <2> QED BY <2>6, <2>8, <2>9, <2>10, <2>11, <2>12, <2>13 DEF Pipelines, Tasks
<1> QED BY <1>2, <1>3

\* The record looked up is the task's own, or pipelines met.
LEMMA StoreStep ==
  ASSUME IInv, NEW i \in Ids, Store(i)
  PROVE  IInv' /\ StaysCompleted
<1> USE DEF IInv
<1>1. /\ i \in Known /\ Known \subseteq Ids /\ task[i].pc = "rendering" /\ i \in Pipeline(i)
      /\ \A j \in Known : recs[j] \in Record
  BY RecordTyped DEF Store, At, Pipeline
<1>2. CASE gone
  BY <1>1, <1>2, RaiseStep DEF Store, Ended
<1>3. CASE ~gone
  <2>1. UNCHANGED <<recs, marks, gone, faults, met, raised, unseen>>
    BY <1>3 DEF Store
  <2>2. PICK t \in Target(recs[i].kind) :
          task' = [task EXCEPT ![i] = [pc |-> "storing", into |-> t, copy |-> recs[t].status]]
    BY <1>3 DEF Store
  <2>3. t \in Known /\ recs[t].kind = recs[i].kind /\ recs[t].committed /\ i <= t
    <3>1. i \in Visible(OfKind(recs[i].kind))
      BY <1>1 DEF Visible, OfKind, Tasks, Begun
    <3> QED BY <3>1 DEF Target, Newest, Visible, OfKind
  <2>4. t = i \/ {i, t} \subseteq met
    <3>1. CASE recs[t].first = recs[i].first
      BY <1>1, <2>3, <3>1 DEF Pipelines, Grouped
    <3>2. CASE recs[t].first # recs[i].first
      <4>1. Active(i)
        BY <1>1 DEF Active, Ended
      <4>2. i < t
        BY <1>1, <2>3, <3>2 DEF Ids
      <4> QED BY <1>1, <2>3, <3>2, <4>1, <4>2 DEF Pipelines, Beside
    <3> QED BY <3>1, <3>2
  <2>5. i \notin met \cup raised => recs[t].status \in Open
    BY <1>1, <2>4 DEF Tasks, Finished, FailureAlone, Record, Statuses, Open
  <2>6. [pc |-> "storing", into |-> t, copy |-> recs[t].status] \in Task
    BY <1>1, <2>3 DEF Task, Steps, Record
  <2>7. /\ task' \in [Ids -> Task] /\ task'[i].pc = "storing" /\ task'[i].into = t
        /\ task'[i].copy = recs[t].status
        /\ \A j \in Ids \ {i} : task'[j] = task[j]
    BY <1>1, <2>2, <2>6 DEF TypeOK
  <2>8. Known' = Known /\ TypeOK'
    BY <2>1, <2>7 DEF TypeOK, Known
  <2>9. Frame
    BY <1>1, <2>1, <2>7, <2>8 DEF Frame, Ended
  <2>10. Grouped' /\ Unborn' /\ Beside' /\ \A j \in Known : Excused(j) => Excused(j)'
    BY <2>9, Framed
  <2>11. Together' /\ Handling' /\ Counted'
    BY <1>1, <2>1, <2>7, <2>8 DEF Pipelines, Together, Handling, Counted
  <2>12. Begun' /\ Stored' /\ Settled' /\ Finished'
    BY <1>1, <2>1, <2>7, <2>8 DEF Tasks, Begun, Stored, Settled, Finished
  <2>13. Aimed' /\ Copied'
    BY <1>1, <2>1, <2>3, <2>4, <2>5, <2>7, <2>8 DEF Tasks, Aimed, Copied
  <2>14. Marked' /\ PictureAlone' /\ FailureAlone'
    BY <1>1, <2>1, <2>8, <2>10
    DEF Tasks, Marked, PictureAlone, FailureAlone, Download, Excused
  <2> QED
    BY <2>1, <2>8, <2>10, <2>11, <2>12, <2>13, <2>14 DEF Pipelines, Tasks, StaysCompleted
<1> QED BY <1>2, <1>3

LEMMA SavedTyped ==
  ASSUME NEW r \in Record, NEW i \in Ids, task[i] \in Task
  PROVE  /\ Saved(r, i) \in Record
         /\ Saved(r, i) = [kind |-> r.kind, params |-> r.params, status |-> task[i].copy,
                           file |-> i, committed |-> r.committed, first |-> r.first]
<1>1. i \in 0 .. MaxRecords /\ task[i].copy \in Statuses
  BY BoundAssumption DEF Ids, Task
<1> DEFINE q == [r EXCEPT !.file = i]
<1>2. q \in Record /\ q = [kind |-> r.kind, params |-> r.params, status |-> r.status,
                           file |-> i, committed |-> r.committed, first |-> r.first]
  BY <1>1 DEF Record
<1>3. Saved(r, i) = [q EXCEPT !.status = task[i].copy]
  BY DEF Saved
<1> HIDE DEF q
<1> QED BY <1>1, <1>2, <1>3 DEF Record

LEMMA SaveStep ==
  ASSUME IInv, NEW i \in Ids, Save(i)
  PROVE  IInv' /\ StaysCompleted
<1> DEFINE t == task[i].into
           q == Saved(recs[t], i)
<1> USE DEF IInv
<1>1. /\ i \in Known /\ Known \subseteq Ids /\ task[i].pc = "storing" /\ task[i] \in Task
      /\ \A j \in Known : recs[j] \in Record
  BY RecordTyped DEF Save, At, TypeOK
<1>2. t \in Known /\ (t = i \/ {i, t} \subseteq met)
  BY <1>1 DEF Tasks, Aimed
<1>3. /\ recs' = [recs EXCEPT ![t] = q]
      /\ task' = [task EXCEPT ![i].pc = "finishing"]
      /\ UNCHANGED <<marks, gone, faults, met, raised, unseen>>
  BY DEF Save, Advance
<1>4. q \in Record
  BY <1>1, <1>2, SavedTyped
<1>5. /\ recs' \in Seq(Record) /\ Len(recs') = Len(recs) /\ Known' = Known
      /\ recs'[t] = q /\ \A j \in Known : j # t => recs'[j] = recs[j]
  BY <1>2, <1>3, <1>4, Replaced
<1>6. /\ \A j \in Known : /\ recs'[j].kind = recs[j].kind /\ recs'[j].first = recs[j].first
                          /\ recs'[j].committed = recs[j].committed
      /\ recs'[t].status = task[i].copy /\ recs'[t].file = i
      /\ \A j \in Known \ {t} : recs'[j] = recs[j]
  <2>1. /\ q.kind = recs[t].kind /\ q.first = recs[t].first /\ q.committed = recs[t].committed
        /\ q.status = task[i].copy /\ q.file = i
    BY <1>1, <1>2, SavedTyped
  <2> HIDE DEF q
  <2>2. recs'[t] = q /\ \A j \in Known \ {t} : recs'[j] = recs[j]
    BY <1>5
  <2> QED  BY <2>1, <2>2
<1> HIDE DEF q
<1>7. /\ task' \in [Ids -> Task] /\ task'[i].pc = "finishing"
      /\ \A j \in Ids \ {i} : task'[j] = task[j]
  BY <1>1, <1>3 DEF TypeOK, Task, Steps
<1>8. TypeOK'
  BY <1>3, <1>5, <1>7 DEF TypeOK
<1>9. Frame
  BY <1>1, <1>3, <1>5, <1>6, <1>7, <1>8 DEF Frame, Ended
<1>10. Grouped' /\ Unborn' /\ Beside' /\ \A j \in Known : Excused(j) => Excused(j)'
  BY <1>9, Framed
<1>11. Together' /\ Handling' /\ Counted'
  BY <1>1, <1>3, <1>5, <1>6, <1>7 DEF Pipelines, Together, Handling, Counted
<1>12. i \notin met \cup raised => task[i].copy \in Open
  BY <1>1 DEF Tasks, Copied
<1> HIDE DEF t
<1>13. Begun' /\ Aimed' /\ Copied'
  BY <1>1, <1>3, <1>5, <1>6, <1>7 DEF Tasks, Begun, Aimed, Copied
<1>14. Stored' /\ PictureAlone'
  BY <1>1, <1>2, <1>3, <1>5, <1>6, <1>7 DEF Tasks, Stored, PictureAlone, Download
<1>15. Settled' /\ Finished'
  BY <1>1, <1>2, <1>3, <1>5, <1>6, <1>7, <1>12 DEF Tasks, Settled, Finished, Open
<1>16. Marked' /\ FailureAlone'
  BY <1>1, <1>2, <1>3, <1>5, <1>6, <1>10, <1>12
  DEF Tasks, Marked, FailureAlone, Excused, Open
<1>17. StaysCompleted
  BY <1>1, <1>2, <1>3, <1>6 DEF StaysCompleted, Tasks, Finished
<1> QED
  BY <1>8, <1>10, <1>11, <1>13, <1>14, <1>15, <1>16, <1>17 DEF Pipelines, Tasks

LEMMA FinishStep ==
  ASSUME IInv, NEW i \in Ids, Finish(i)
  PROVE  IInv' /\ StaysCompleted
<1> DEFINE q == [recs[i] EXCEPT !.status = "completed"]
<1> USE DEF IInv
<1>1. i \in Known /\ Known \subseteq Ids /\ task[i].pc = "finishing" /\ recs[i] \in Record
  BY RecordTyped DEF Finish, At
<1>2. /\ recs' = [recs EXCEPT ![i] = q] /\ End({i}, "done")
      /\ UNCHANGED <<marks, gone, faults, met, raised, unseen>>
  BY DEF Finish
<1>3. q \in Record
  BY <1>1 DEF Record, Statuses
<1>4. /\ recs' \in Seq(Record) /\ Len(recs') = Len(recs) /\ Known' = Known
      /\ recs'[i] = q /\ \A j \in Known : j # i => recs'[j] = recs[j]
  BY <1>1, <1>2, <1>3, Replaced
<1>5. /\ \A j \in Known : /\ recs'[j].kind = recs[j].kind /\ recs'[j].first = recs[j].first
                          /\ recs'[j].committed = recs[j].committed
                          /\ recs'[j].file = recs[j].file
      /\ recs'[i].status = "completed"
      /\ \A j \in Known \ {i} : recs'[j].status = recs[j].status
  BY <1>1, <1>4 DEF Record
<1> HIDE DEF q
<1>6. /\ task' \in [Ids -> Task] /\ task'[i].pc = "done"
      /\ \A j \in Ids \ {i} : task'[j] = task[j]
  <2>1. [NoTask EXCEPT !.pc = "done"] \in Task
    BY <1>1, BoundAssumption DEF NoTask, Task, Steps, Statuses, Ids
  <2> QED BY <1>1, <1>2, <2>1 DEF End, TypeOK, NoTask
<1>7. TypeOK'
  BY <1>2, <1>4, <1>6 DEF TypeOK
<1>8. Frame
  BY <1>1, <1>2, <1>4, <1>5, <1>6, <1>7 DEF Frame, Ended
<1>9. Grouped' /\ Unborn' /\ Beside' /\ \A j \in Known : Excused(j) => Excused(j)'
  BY <1>8, Framed
<1>10. Together' /\ Handling' /\ Counted'
  BY <1>1, <1>2, <1>4, <1>5, <1>6 DEF Pipelines, Together, Handling, Counted
<1>11. Begun' /\ Aimed' /\ Copied' /\ Stored'
  BY <1>1, <1>2, <1>4, <1>5, <1>6 DEF Tasks, Begun, Aimed, Copied, Stored
<1>12. Settled' /\ Finished'
  BY <1>1, <1>2, <1>4, <1>5, <1>6 DEF Tasks, Settled, Finished, Open
<1>13. Marked' /\ PictureAlone' /\ FailureAlone'
  BY <1>1, <1>2, <1>4, <1>5, <1>9
  DEF Tasks, Marked, Stored, PictureAlone, FailureAlone, Download, Excused
<1>14. StaysCompleted
  BY <1>5 DEF StaysCompleted
<1> QED BY <1>7, <1>9, <1>10, <1>11, <1>12, <1>13, <1>14 DEF Pipelines, Tasks

LEMMA FailsStep ==
  ASSUME IInv, NEW i \in Ids, Fails(i)
  PROVE  IInv' /\ StaysCompleted
<1>1. i \in Known /\ Raise(i, {i}) /\ {i} \in SUBSET Pipeline(i)
  BY DEF Fails, Pipeline
<1>2. task[i].pc \in {"rendering", "storing"}
  BY DEF Fails
<1>3. \/ recs' = recs
      \/ task[i].pc = "storing" /\ recs' = [recs EXCEPT ![task[i].into].file = i]
  BY DEF Fails
<1> QED BY <1>1, <1>2, <1>3, RaiseStep DEF Ended

LEMMA MarkFailedStep ==
  ASSUME IInv, NEW i \in Ids, MarkFailed(i)
  PROVE  IInv' /\ StaysCompleted
<1> USE DEF IInv
<1>1. PICK k \in Newest(marks[i]) : /\ recs' = [recs EXCEPT ![k].status = "failed"]
                                   /\ marks' = [marks EXCEPT ![i] = @ \ {k}]
  BY DEF MarkFailed
<1>2. k \in marks[i] /\ k \in Known /\ Excused(k) /\ Known \subseteq Ids /\ recs[k] \in Record
  BY <1>1, RecordTyped DEF Newest, Tasks, Marked
<1>3. UNCHANGED <<task, gone, faults, met, raised, unseen>>
  BY DEF MarkFailed
<1> DEFINE q == [recs[k] EXCEPT !.status = "failed"]
<1>4. q \in Record
  BY <1>2 DEF Record, Statuses
<1>5. /\ recs' \in Seq(Record) /\ Len(recs') = Len(recs) /\ Known' = Known
      /\ recs'[k] = q /\ \A j \in Known : j # k => recs'[j] = recs[j]
  BY <1>1, <1>2, <1>4, Replaced
<1>6. /\ \A j \in Known : /\ recs'[j].kind = recs[j].kind /\ recs'[j].first = recs[j].first
                          /\ recs'[j].committed = recs[j].committed
                          /\ recs'[j].file = recs[j].file
      /\ recs'[k].status = "failed"
      /\ \A j \in Known \ {k} : recs'[j].status = recs[j].status
  BY <1>2, <1>5 DEF Record
<1> HIDE DEF q
<1>7. marks' \in [Ids -> SUBSET Ids] /\ \A j \in Ids : marks'[j] \subseteq marks[j]
  BY <1>1 DEF TypeOK
<1>8. TypeOK'
  BY <1>3, <1>5, <1>7 DEF TypeOK
<1>9. Frame
  BY <1>3, <1>5, <1>6, <1>7, <1>8 DEF Frame
<1>10. Grouped' /\ Unborn' /\ Beside' /\ \A j \in Known : Excused(j) => Excused(j)'
  BY <1>9, Framed
<1>11. Together' /\ Handling' /\ Counted'
  BY <1>3, <1>5, <1>6, <1>7 DEF Pipelines, Together, Handling, Counted
<1>12. Begun' /\ Aimed' /\ Copied' /\ Stored'
  BY <1>3, <1>5, <1>6 DEF Tasks, Begun, Aimed, Copied, Stored
<1>13. Settled' /\ Finished'
  BY <1>3, <1>5, <1>6 DEF Tasks, Settled, Finished, Open
<1>14. Marked' /\ PictureAlone' /\ FailureAlone'
  BY <1>2, <1>3, <1>5, <1>6, <1>7, <1>10
  DEF Tasks, Marked, PictureAlone, FailureAlone, Download, Excused
<1>15. StaysCompleted
  BY <1>2, <1>3, <1>6 DEF StaysCompleted, Tasks, Finished, Excused
<1> QED BY <1>8, <1>10, <1>11, <1>12, <1>13, <1>14, <1>15 DEF Pipelines, Tasks

LEMMA StoppedStep ==
  ASSUME IInv, NEW i \in Ids, Stopped(i)
  PROVE  IInv' /\ StaysCompleted
<1> USE DEF IInv
<1>1. /\ i \in Known /\ Known \subseteq Ids /\ i \in Pipeline(i) /\ Pipeline(i) \subseteq Known
      /\ task[i].pc = "setup" => \A j \in Pipeline(i) : task[j].pc = "setup"
  BY RecordTyped DEF Stopped, Pipeline, Pipelines, Together
<1>2. PICK S \in SUBSET Pipeline(i) :
        /\ task' = [j \in Ids |-> IF j \in S THEN [NoTask EXCEPT !.pc = "lost"] ELSE task[j]]
        /\ i \in S /\ (S = Pipeline(i) \/ task[i].pc # "setup")
        /\ S = {i} \/ \A j \in S : task[j].pc = "setup"
        /\ \A j \in S : task[j].pc \notin {"absent", "lost", "done"}
        /\ (marks' = marks /\ task[i].pc \notin Ended) \/ marks' = [marks EXCEPT ![i] = {}]
  <2>1. CASE /\ task[i].pc \notin Ended
             /\ End(IF task[i].pc = "setup" THEN Pipeline(i) ELSE {i}, "lost")
             /\ UNCHANGED marks
    <3> DEFINE S == IF task[i].pc = "setup" THEN Pipeline(i) ELSE {i}
    <3>1. S \in SUBSET Pipeline(i) /\ i \in S /\ (S = Pipeline(i) \/ task[i].pc # "setup")
      BY <1>1
    <3>2. /\ S = {i} \/ \A j \in S : task[j].pc = "setup"
          /\ \A j \in S : task[j].pc \notin {"absent", "lost", "done"}
      BY <1>1, <2>1 DEF Ended
    <3>3. task' = [j \in Ids |-> IF j \in S THEN [NoTask EXCEPT !.pc = "lost"] ELSE task[j]]
      BY <2>1 DEF End
    <3> HIDE DEF S
    <3> QED BY <2>1, <3>1, <3>2, <3>3
  <2>2. CASE marks[i] # {} /\ End({i}, "lost") /\ marks' = [marks EXCEPT ![i] = {}]
    <3>1. task[i].pc = "raised"
      BY <2>2 DEF Pipelines, Handling
    <3> DEFINE S == {i}
    <3>2. S \in SUBSET Pipeline(i) /\ i \in S /\ \A j \in S : task[j].pc = "raised"
      BY <1>1, <3>1
    <3>3. task' = [j \in Ids |-> IF j \in S THEN [NoTask EXCEPT !.pc = "lost"] ELSE task[j]]
      BY <2>2 DEF End
    <3>4. S = {i}
      OBVIOUS
    <3> HIDE DEF S
    <3> QED BY <2>2, <3>1, <3>2, <3>3, <3>4
  <2> QED BY <2>1, <2>2 DEF Stopped
<1>3. UNCHANGED <<recs, gone, met, raised, unseen>> /\ faults' \in 0 .. MaxFaults
  BY BoundAssumption DEF Stopped, TypeOK
<1>4. /\ task' \in [Ids -> Task]
      /\ \A j \in S : task'[j].pc = "lost"
      /\ \A j \in Ids \ S : task'[j] = task[j]
  <2>1. [NoTask EXCEPT !.pc = "lost"] \in Task
    BY <1>1, BoundAssumption DEF NoTask, Task, Steps, Statuses, Ids
  <2> QED BY <1>1, <1>2, <2>1 DEF TypeOK, NoTask
<1>5. /\ marks' \in [Ids -> SUBSET Ids] /\ \A j \in Ids : marks'[j] \subseteq marks[j]
      /\ \A j \in S : marks'[j] = {}
  <2>1. marks' \in [Ids -> SUBSET Ids] /\ \A j \in Ids : marks'[j] \subseteq marks[j]
    BY <1>2 DEF TypeOK
  <2>2. marks'[i] = {}
    BY <1>1, <1>2 DEF TypeOK, Pipelines, Handling, Ended
  <2>3. \A j \in S \ {i} : marks[j] = {}
    BY <1>1, <1>2 DEF Pipelines, Handling
  <2> QED BY <1>1, <2>1, <2>2, <2>3
<1>6. Known' = Known /\ TypeOK'
  BY <1>3, <1>4, <1>5 DEF TypeOK, Known
<1>7. Frame
  BY <1>1, <1>2, <1>3, <1>4, <1>5, <1>6 DEF Frame, Ended
<1>8. Grouped' /\ Unborn' /\ Beside' /\ \A j \in Known : Excused(j) => Excused(j)'
  BY <1>7, Framed
<1>9. Together' /\ Handling' /\ Counted'
  BY <1>1, <1>2, <1>3, <1>4, <1>5, <1>6 DEF Pipelines, Together, Handling, Counted, Pipeline
<1>10. Begun' /\ Aimed' /\ Copied' /\ Stored' /\ Settled'
  BY <1>1, <1>3, <1>4, <1>6 DEF Tasks, Begun, Aimed, Copied, Stored, Settled
<1>11. Finished'
  BY <1>1, <1>2, <1>3, <1>4, <1>6 DEF Tasks, Finished
<1>12. Marked' /\ PictureAlone' /\ FailureAlone'
  BY <1>3, <1>5, <1>6, <1>8 DEF Tasks, Marked, PictureAlone, FailureAlone, Download, Excused
<1> QED
  BY <1>3, <1>6, <1>8, <1>9, <1>10, <1>11, <1>12 DEF Pipelines, Tasks, StaysCompleted

LEMMA StutterStep ==
  ASSUME IInv, UNCHANGED vars
  PROVE  IInv' /\ StaysCompleted
<1> USE DEF IInv
<1>1. UNCHANGED <<recs, task, marks, gone, faults, met, raised, unseen>>
  BY DEF vars
<1>2. Known' = Known /\ TypeOK'
  BY <1>1 DEF TypeOK, Known
<1>3. Frame
  BY <1>1, <1>2 DEF Frame
<1>4. Grouped' /\ Unborn' /\ Beside' /\ \A j \in Known : Excused(j) => Excused(j)'
  BY <1>3, Framed
<1>5. Together' /\ Handling' /\ Counted'
  BY <1>1, <1>2 DEF Pipelines, Together, Handling, Counted
<1>6. Begun' /\ Aimed' /\ Copied' /\ Stored' /\ Settled' /\ Finished'
  BY <1>1, <1>2 DEF Tasks, Begun, Aimed, Copied, Stored, Settled, Finished
<1>7. Marked' /\ PictureAlone' /\ FailureAlone'
  BY <1>1, <1>2, <1>4 DEF Tasks, Marked, PictureAlone, FailureAlone, Download
<1> QED
  BY <1>1, <1>2, <1>4, <1>5, <1>6, <1>7 DEF Pipelines, Tasks, StaysCompleted

\* One step of the system.
LEMMA AnyStep ==
  ASSUME IInv, [Next]_vars
  PROVE  IInv' /\ StaysCompleted
<1>1. CASE (\E p \in Params : CreateSpectrogram(p)) \/ CreateWaterfall \/ Reindexed
  <2> PICK entries \in Entries, committed \in BOOLEAN :
             Distinct(entries) /\ Launch(entries, committed)
    BY <1>1, Launching
  <2>1. IInv'
    BY LaunchStep
  <2>2. \A i \in Known : recs'[i] = recs[i]
    BY Launched DEF IInv
  <2> QED BY <2>1, <2>2 DEF StaysCompleted
<1>2. CASE DeleteCapture
  BY <1>2, DeleteStep
<1>3. ASSUME NEW i \in Ids, Commit(i) \/ Work(i) \/ Stopped(i)
      PROVE  IInv' /\ StaysCompleted
  BY <1>3, CommitStep, SetupStep, BeginStep, StoreStep, SaveStep, FinishStep, FailsStep,
     MarkFailedStep, StoppedStep DEF Work
<1>4. CASE UNCHANGED vars
  BY <1>4, StutterStep
<1> QED BY <1>1, <1>2, <1>3, <1>4 DEF Next

-----------------------------------------------------------------------------
(***************************************************************************)
(* Where pipelines meet.  Pictures go from a record to a newer one of the  *)
(* same kind or to itself, since the look-up takes the newest; and nothing *)
(* fails before a task raises.                                             *)
(***************************************************************************)

Filed ==
  \A i \in Known : recs[i].file # 0 => /\ recs[i].file \in Known /\ recs[i].file <= i
                                       /\ recs[recs[i].file].kind = recs[i].kind
Directed ==
  \A i \in Known : task[i].pc = "storing"
    => /\ task[i].into \in Known /\ i <= task[i].into
       /\ recs[task[i].into].kind = recs[i].kind
Blameless ==
  raised = {} => /\ \A i \in Known : recs[i].status # "failed"
                 /\ \A i \in Ids : task[i].copy # "failed"

MInv == Filed /\ Directed /\ Blameless

\* A step that leaves every picture where it is, and starts to store none.
LEMMA InPlace ==
  ASSUME Filed, Directed, Known' = Known,
         \A j \in Known : recs'[j].kind = recs[j].kind /\ recs'[j].file = recs[j].file,
         \A j \in Known : task'[j].pc = "storing"
                            => task[j].pc = "storing" /\ task'[j].into = task[j].into
  PROVE  Filed' /\ Directed'
BY DEF Filed, Directed

\* A step that fails no record.
LEMMA NoneFails ==
  ASSUME Blameless, Known' = Known, raised \subseteq raised',
         \A j \in Known : recs'[j].status = "failed" => recs[j].status = "failed",
         \A j \in Ids : task'[j].copy = "failed" => task[j].copy = "failed"
  PROVE  Blameless'
BY DEF Blameless

\* A step that changes one record, but for its kind and picture.
LEMMA Altered ==
  ASSUME TypeOK, NEW i \in Known, NEW r \in Record, recs' = [recs EXCEPT ![i] = r],
         r.kind = recs[i].kind, r.file = recs[i].file
  PROVE  /\ Known' = Known
         /\ \A j \in Known : recs'[j].kind = recs[j].kind /\ recs'[j].file = recs[j].file
         /\ \A j \in Known : recs'[j].status = recs[j].status \/ recs'[j].status = r.status
         /\ r.status = recs[i].status => \A j \in Known : recs'[j].status = recs[j].status
<1>1. /\ Known' = Known /\ recs'[i] = r
      /\ \A j \in Known : j # i => recs'[j] = recs[j]
  BY Replaced
<1>2. ASSUME NEW j \in Known
      PROVE  /\ recs'[j].kind = recs[j].kind /\ recs'[j].file = recs[j].file
             /\ recs'[j].status = recs[j].status \/ recs'[j].status = r.status
             /\ r.status = recs[i].status => recs'[j].status = recs[j].status
  <2>1. CASE j = i
    BY <1>1, <2>1
  <2>2. CASE j # i
    BY <1>1, <2>2
  <2> QED BY <2>1, <2>2
<1> QED BY <1>1, <1>2

LEMMA MeetInitially == Init => MInv
<1> SUFFICES ASSUME Init  PROVE MInv
  OBVIOUS
<1>1. Known = {}
  BY DEF Init, Known
<1>2. \A i \in Ids : task[i].copy = "pending"
  BY DEF Init, NoTask
<1> QED BY <1>1, <1>2 DEF MInv, Filed, Directed, Blameless

LEMMA MeetLaunch ==
  ASSUME IInv, MInv, NEW entries \in Entries, NEW committed \in BOOLEAN, Distinct(entries),
         Launch(entries, committed)
  PROVE  MInv'
<1>1. /\ Known \subseteq Known' /\ \A i \in Known : recs'[i] = recs[i]
      /\ Known' \ Known = {Len(recs) + k : k \in DOMAIN entries}
      /\ \A i \in Known' \ Known : recs'[i].status = "pending"
  BY Launched DEF IInv
<1>2. \A k \in DOMAIN entries : recs'[Len(recs) + k].file = 0
  <2> DEFINE e == [k \in DOMAIN entries |->
                     [kind |-> entries[k].kind, params |-> entries[k].params,
                      status |-> "pending", file |-> 0, committed |-> committed,
                      first |-> Len(recs) + 1]]
  <2>1. entries \in Seq([kind : Kinds, params : Params \cup {Default}])
    BY DEF Entries
  <2>2. recs' = recs \o e
    BY DEF Launch
  <2>3. DOMAIN entries = 1 .. Len(entries) /\ Len(entries) \in Nat
    BY <2>1
  <2>4. \A k \in DOMAIN entries : e[k].file = 0
    OBVIOUS
  <2>5. Len(recs) \in Nat /\ Len(e) = Len(entries)
    BY <2>3 DEF IInv, TypeOK
  <2> HIDE DEF e
  <2>6. ASSUME NEW k \in DOMAIN entries  PROVE recs'[Len(recs) + k] = e[k]
    BY <2>2, <2>3, <2>5, <2>6
  <2> QED BY <2>4, <2>6
<1>3. \A i \in Known' \ Known : recs'[i].file = 0
  BY <1>1, <1>2
<1>4. \A i \in Ids : task'[i] = task[i] \/ task'[i] = [NoTask EXCEPT !.pc = "setup"]
  BY DEF Launch, IInv, TypeOK
<1>5. \A i \in Known : i \in Ids
  BY RecordTyped DEF IInv
<1>6. \A i \in Known' \ Known : i \in Ids /\ task'[i].pc # "storing"
  <2>1. Known' \subseteq Ids
    <3>1. recs' \in Seq(Record) /\ Len(recs') <= MaxRecords
      BY Launched DEF IInv
    <3> QED BY <3>1, BoundAssumption DEF Known, Ids
  <2>2. \A i \in Ids \ Known : task[i].pc = "absent"
    BY DEF IInv, Pipelines, Unborn
  <2> QED BY <1>4, <2>1, <2>2 DEF NoTask
<1>7. Filed'
  BY <1>1, <1>3 DEF MInv, Filed
<1>8. Directed'
  <2>1. \A i \in Known : task'[i].pc = "storing" => task'[i] = task[i]
    BY <1>4, <1>5 DEF NoTask
  <2> QED BY <1>1, <1>6, <2>1 DEF MInv, Directed
<1>9. Blameless'
  <2>1. raised' = raised
    BY DEF Launch
  <2> QED BY <1>1, <1>4, <2>1 DEF MInv, Blameless, NoTask
<1> QED BY <1>7, <1>8, <1>9 DEF MInv

\* A task that raises: its record may have got the picture it was about to store.
LEMMA MeetRaise ==
  ASSUME IInv, MInv, NEW i \in Known, NEW S \in SUBSET Known, Raise(i, S),
         \/ recs' = recs
         \/ task[i].pc = "storing" /\ recs' = [recs EXCEPT ![task[i].into].file = i]
  PROVE  MInv'
<1>1. Known \subseteq Ids /\ \A j \in Known : recs[j] \in Record
  BY RecordTyped DEF IInv
<1>2. \A j \in Ids : task'[j] = task[j] \/ task'[j] = [NoTask EXCEPT !.pc = "raised"]
  BY DEF Raise, End
<1>3. raised' # {}
  BY DEF Raise, Pipeline
<1>4. Blameless'
  BY <1>3 DEF Blameless
<1>5. \A j \in Known : task'[j].pc = "storing"
                         => task[j].pc = "storing" /\ task'[j].into = task[j].into
  BY <1>1, <1>2 DEF NoTask
<1>6. CASE recs' = recs
  BY <1>4, <1>5, <1>6, InPlace DEF MInv, Known
<1>7. CASE task[i].pc = "storing" /\ recs' = [recs EXCEPT ![task[i].into].file = i]
  <2> DEFINE t == task[i].into
             q == [recs[t] EXCEPT !.file = i]
  <2>1. t \in Known /\ i <= t /\ recs[t].kind = recs[i].kind
    BY <1>7 DEF MInv, Directed
  <2>2. q \in Record /\ q.kind = recs[t].kind /\ q.file = i
    BY <1>1, <2>1, BoundAssumption DEF Record, Ids
  <2>3. recs' = [recs EXCEPT ![t] = q]
    BY <1>7
  <2> HIDE DEF q
  <2>4. Known' = Known /\ recs'[t] = q /\ \A j \in Known : j # t => recs'[j] = recs[j]
    BY <2>1, <2>2, <2>3, Replaced DEF IInv
  <2>5. \A j \in Known : recs'[j].kind = recs[j].kind
    BY <2>2, <2>4
  <2> HIDE DEF t
  <2>6. Filed'
    BY <2>1, <2>2, <2>4, <2>5 DEF MInv, Filed
  <2>7. Directed'
    BY <1>5, <2>4, <2>5 DEF MInv, Directed
  <2> QED BY <1>4, <2>6, <2>7 DEF MInv
<1> QED BY <1>6, <1>7

LEMMA MeetCommit ==
  ASSUME IInv, MInv, NEW i \in Ids, Commit(i)
  PROVE  MInv'
<1> DEFINE q == [recs[i] EXCEPT !.committed = TRUE]
<1>1. i \in Known /\ recs[i] \in Record
  BY RecordTyped DEF Commit, IInv
<1>2. /\ q \in Record /\ recs' = [recs EXCEPT ![i] = q] /\ q.kind = recs[i].kind
      /\ q.file = recs[i].file /\ q.status = recs[i].status
  BY <1>1 DEF Record, Commit
<1> HIDE DEF q
<1>3. /\ Known' = Known
      /\ \A j \in Known : recs'[j].kind = recs[j].kind /\ recs'[j].file = recs[j].file
      /\ \A j \in Known : recs'[j].status = recs[j].status
  BY <1>1, <1>2, Altered DEF IInv
<1>4. task' = task /\ raised' = raised
  BY DEF Commit
<1> QED BY <1>3, <1>4, InPlace, NoneFails DEF MInv

\* Steps of tasks that do not change a record.
LEMMA MeetQuiet ==
  ASSUME IInv, MInv, recs' = recs, raised' = raised,
         \A j \in Ids : /\ task'[j].pc = "storing"
                             => task[j].pc = "storing" /\ task'[j].into = task[j].into
                        /\ task'[j].copy = "failed" => task[j].copy = "failed"
  PROVE  MInv'
<1>1. Known' = Known /\ Known \subseteq Ids
  BY RecordTyped DEF Known, IInv
<1> QED BY <1>1, InPlace, NoneFails DEF MInv

LEMMA MeetSetup ==
  ASSUME IInv, MInv, NEW i \in Ids, Setup(i)
  PROVE  MInv'
<1>1. i \in Known /\ Pipeline(i) \in SUBSET Known
  BY DEF Setup, At, Pipeline
<1>2. CASE gone
  BY <1>1, <1>2, MeetRaise DEF Setup
<1>3. CASE ~gone
  <2>1. recs' = recs /\ raised' = raised
    BY <1>3 DEF Setup
  <2>2. \A j \in Ids : task'[j] = task[j] \/ task'[j] = [task[j] EXCEPT !.pc = "queued"]
    BY <1>3 DEF Setup
  <2>3. \A j \in Ids : task[j] \in Task
    BY DEF IInv, TypeOK
  <2>4. \A j \in Ids : /\ task'[j].pc = "storing" => task'[j] = task[j]
                       /\ task'[j].copy = task[j].copy
    BY <2>2, <2>3 DEF Task
  <2> QED BY <2>1, <2>4, MeetQuiet
<1> QED BY <1>2, <1>3

LEMMA MeetBegin ==
  ASSUME IInv, MInv, NEW i \in Ids, Begin(i)
  PROVE  MInv'
<1>1. i \in Known /\ recs[i] \in Record /\ task[i] \in Task
  BY RecordTyped DEF Begin, At, IInv, TypeOK
<1>2. CASE gone \/ ~recs[i].committed
  BY <1>1, <1>2, MeetRaise DEF Begin
<1>3. CASE ~(gone \/ ~recs[i].committed)
  <2> DEFINE q == [recs[i] EXCEPT !.status = "processing"]
  <2>1. /\ q \in Record /\ recs' = [recs EXCEPT ![i] = q] /\ q.kind = recs[i].kind
        /\ q.file = recs[i].file /\ q.status = "processing"
    BY <1>1, <1>3 DEF Record, Statuses, Begin
  <2> HIDE DEF q
  <2>2. /\ Known' = Known
        /\ \A j \in Known : recs'[j].kind = recs[j].kind /\ recs'[j].file = recs[j].file
        /\ \A j \in Known : recs'[j].status = "failed" => recs[j].status = "failed"
    BY <1>1, <2>1, Altered DEF IInv
  <2>3. /\ \A j \in Ids : task'[j].copy = task[j].copy /\ (j # i => task'[j] = task[j])
        /\ task'[i].pc = "rendering"
    BY <1>1, <1>3 DEF Begin, IInv, TypeOK, Task
  <2>4. raised' = raised /\ Known \subseteq Ids
    BY <1>3, RecordTyped DEF Begin, IInv
  <2> QED BY <2>2, <2>3, <2>4, InPlace, NoneFails DEF MInv
<1> QED BY <1>2, <1>3

\* The look-up finds the record itself or a newer one, since the record is committed.
LEMMA MeetStore ==
  ASSUME IInv, MInv, NEW i \in Ids, Store(i)
  PROVE  MInv'
<1>1. /\ i \in Known /\ task[i].pc = "rendering" /\ Known \subseteq Ids
  BY RecordTyped DEF Store, At, IInv
<1>2. CASE gone
  BY <1>1, <1>2, MeetRaise DEF Store
<1>3. CASE ~gone
  <2>1. recs' = recs /\ raised' = raised /\ Known' = Known
    BY <1>3 DEF Store, Known
  <2>2. PICK t \in Target(recs[i].kind) :
          task' = [task EXCEPT ![i] = [pc |-> "storing", into |-> t, copy |-> recs[t].status]]
    BY <1>3 DEF Store
  <2>3. t \in Known /\ recs[t].kind = recs[i].kind /\ i <= t
    <3>1. i \in Visible(OfKind(recs[i].kind))
      BY <1>1 DEF Visible, OfKind, Tasks, Begun, IInv
    <3> QED BY <3>1 DEF Target, Newest, Visible, OfKind
  <2>4. /\ task'[i] = [pc |-> "storing", into |-> t, copy |-> recs[t].status]
        /\ \A j \in Ids \ {i} : task'[j] = task[j]
    BY <1>1, <2>2 DEF IInv, TypeOK
  <2>5. Filed'
    BY <2>1 DEF MInv, Filed
  <2>6. Directed'
    BY <1>1, <2>1, <2>3, <2>4 DEF MInv, Directed
  <2>7. Blameless'
    BY <2>1, <2>3, <2>4 DEF MInv, Blameless
  <2> QED BY <2>5, <2>6, <2>7 DEF MInv
<1> QED BY <1>2, <1>3

LEMMA MeetSave ==
  ASSUME IInv, MInv, NEW i \in Ids, Save(i)
  PROVE  MInv'
<1> DEFINE t == task[i].into
           q == Saved(recs[t], i)
<1>1. /\ i \in Known /\ task[i].pc = "storing" /\ task[i] \in Task
      /\ \A j \in Known : recs[j] \in Record
  BY RecordTyped DEF Save, At, IInv, TypeOK
<1>2. t \in Known /\ i <= t /\ recs[t].kind = recs[i].kind
  BY <1>1 DEF MInv, Directed
<1>3. recs' = [recs EXCEPT ![t] = q] /\ raised' = raised
  BY DEF Save
<1>4. q \in Record /\ q.kind = recs[t].kind /\ q.file = i /\ q.status = task[i].copy
  BY <1>1, <1>2, SavedTyped
<1>5. \A j \in Ids : /\ task'[j].pc = "storing" => task'[j] = task[j]
                     /\ task'[j].copy = task[j].copy
  BY <1>1 DEF Save, Advance, IInv, TypeOK, Task
<1> HIDE DEF q
<1>6. Known' = Known /\ recs'[t] = q /\ \A j \in Known : j # t => recs'[j] = recs[j]
  BY <1>2, <1>3, <1>4, Replaced DEF IInv
<1>7. \A j \in Known : recs'[j].kind = recs[j].kind /\ j \in Ids
  BY <1>4, <1>6, RecordTyped DEF IInv
<1> HIDE DEF t
<1>8. Filed'
  BY <1>1, <1>2, <1>4, <1>6, <1>7 DEF MInv, Filed
<1>9. Directed'
  BY <1>5, <1>6, <1>7 DEF MInv, Directed
<1>10. Blameless'
  BY <1>1, <1>3, <1>4, <1>5, <1>6, <1>7 DEF MInv, Blameless
<1> QED BY <1>8, <1>9, <1>10 DEF MInv

LEMMA MeetFinish ==
  ASSUME IInv, MInv, NEW i \in Ids, Finish(i)
  PROVE  MInv'
<1> DEFINE q == [recs[i] EXCEPT !.status = "completed"]
<1>1. i \in Known /\ recs[i] \in Record /\ Known \subseteq Ids
  BY RecordTyped DEF Finish, At, IInv
<1>2. /\ q \in Record /\ recs' = [recs EXCEPT ![i] = q] /\ q.kind = recs[i].kind
      /\ q.file = recs[i].file /\ q.status = "completed"
  BY <1>1 DEF Record, Statuses, Finish
<1> HIDE DEF q
<1>3. /\ Known' = Known
      /\ \A j \in Known : recs'[j].kind = recs[j].kind /\ recs'[j].file = recs[j].file
      /\ \A j \in Known : recs'[j].status = "failed" => recs[j].status = "failed"
  BY <1>1, <1>2, Altered DEF IInv
<1>4. /\ \A j \in Ids : task'[j] = task[j] \/ task'[j] = [NoTask EXCEPT !.pc = "done"]
      /\ raised' = raised
  BY DEF Finish, End
<1>5. \A j \in Ids : /\ task'[j].pc = "storing" => task'[j] = task[j]
                     /\ task'[j].copy = "failed" => task'[j] = task[j]
  BY <1>4 DEF NoTask
<1> QED BY <1>1, <1>3, <1>4, <1>5, InPlace, NoneFails DEF MInv

LEMMA MeetMarkFailed ==
  ASSUME IInv, MInv, NEW i \in Ids, MarkFailed(i)
  PROVE  MInv'
<1>1. PICK k \in Newest(marks[i]) : recs' = [recs EXCEPT ![k].status = "failed"]
  BY DEF MarkFailed
<1>2. k \in marks[i] /\ k \in Known /\ recs[k] \in Record
  BY <1>1, RecordTyped DEF Newest, Tasks, Marked, IInv
<1>3. raised # {}
  BY <1>2 DEF IInv, Pipelines, Handling, Counted, Unborn
<1> DEFINE q == [recs[k] EXCEPT !.status = "failed"]
<1>4. /\ q \in Record /\ recs' = [recs EXCEPT ![k] = q] /\ q.kind = recs[k].kind
      /\ q.file = recs[k].file
  BY <1>1, <1>2 DEF Record, Statuses
<1> HIDE DEF q
<1>5. /\ Known' = Known
      /\ \A j \in Known : recs'[j].kind = recs[j].kind /\ recs'[j].file = recs[j].file
  BY <1>2, <1>4, Altered DEF IInv
<1>6. task' = task /\ raised' = raised
  BY DEF MarkFailed
<1>7. Blameless'
  BY <1>3, <1>6 DEF Blameless
<1> QED BY <1>5, <1>6, <1>7, InPlace DEF MInv

LEMMA MeetStopped ==
  ASSUME IInv, MInv, NEW i \in Ids, Stopped(i)
  PROVE  MInv'
<1>1. recs' = recs /\ raised' = raised
  BY DEF Stopped
<1>2. PICK S : task' = [j \in Ids |-> IF j \in S THEN [NoTask EXCEPT !.pc = "lost"] ELSE task[j]]
  BY DEF Stopped, End
<1>3. \A j \in Ids : /\ task'[j].pc = "storing" => task'[j] = task[j]
                     /\ task'[j].copy = "failed" => task'[j] = task[j]
  BY <1>2 DEF NoTask
<1> QED BY <1>1, <1>3, MeetQuiet

LEMMA MeetStep ==
  ASSUME IInv, MInv, [Next]_vars
  PROVE  MInv'
<1>1. CASE (\E p \in Params : CreateSpectrogram(p)) \/ CreateWaterfall \/ Reindexed
  <2> PICK entries \in Entries, committed \in BOOLEAN :
             Distinct(entries) /\ Launch(entries, committed)
    BY <1>1, Launching
  <2> QED BY MeetLaunch
<1>2. CASE DeleteCapture
  BY <1>2, MeetQuiet DEF DeleteCapture
<1>3. ASSUME NEW i \in Ids, Fails(i)
      PROVE  MInv'
  <2>1. i \in Known /\ {i} \in SUBSET Known /\ Raise(i, {i})
    BY <1>3 DEF Fails
  <2>2. \/ recs' = recs
        \/ task[i].pc = "storing" /\ recs' = [recs EXCEPT ![task[i].into].file = i]
    BY <1>3 DEF Fails
  <2> QED BY <2>1, <2>2, MeetRaise
<1>4. ASSUME NEW i \in Ids, Commit(i) \/ Work(i) \/ Stopped(i)
      PROVE  MInv'
  BY <1>3, <1>4, MeetCommit, MeetSetup, MeetBegin, MeetStore, MeetSave, MeetFinish,
     MeetMarkFailed, MeetStopped DEF Work
<1>5. CASE UNCHANGED vars
  BY <1>5, MeetQuiet DEF vars
<1> QED BY <1>1, <1>2, <1>4, <1>5 DEF Next

-----------------------------------------------------------------------------
(* Theorems *)

\* The inductive invariant: what is known of the pipelines and of each of their tasks, with
\* what holds where pipelines do not meet (IInv), and what holds also where they do (MInv).
THEOREM Invariant == Spec => [](IInv /\ MInv)
<1>1. Init => IInv /\ MInv
  BY Initially, MeetInitially
<1>2. IInv /\ MInv /\ [Next]_vars => IInv' /\ MInv'
  BY AnyStep, MeetStep
<1> QED BY <1>1, <1>2, PTL DEF Spec

\* Type correctness: every variable keeps its domain, whatever pipelines and mishaps.
THEOREM TypeCorrect == Spec => []TypeOK
<1>1. IInv => TypeOK
  BY DEF IInv
<1> QED BY <1>1, Invariant, PTL

\* A completed record whose pipeline met no other one is downloaded with the picture that
\* was made for it, although store_processed_data looks for a record of the kind; where
\* pipelines met, at least with none of a newer record, nor of another kind.
THEOREM PictureIsOwn == Spec => []OwnPicture
<1>1. IInv /\ MInv => OwnPicture
  <2> SUFFICES ASSUME IInv, MInv, NEW i \in Known, recs[i].status = "completed"
               PROVE  IF i \in met
                      THEN Download(i) \in {0} \cup {j \in OfKind(recs[i].kind) : j <= i}
                      ELSE Download(i) = i
    BY DEF OwnPicture
  <2>1. Download(i) = recs[i].file
    BY DEF Download
  <2>2. CASE i \in met
    BY <2>1, <2>2 DEF MInv, Filed, OfKind
  <2>3. CASE i \notin met
    BY <2>3 DEF IInv, PictureAlone
  <2> QED BY <2>2, <2>3
<1> QED BY <1>1, Invariant, PTL

\* Nothing fails before a task raises.  Of a pipeline that met no other one, a record fails
\* only if a task of the pipeline raised, although the error handler fails every unsettled
\* record of the capture.
THEOREM FailureHasCause == Spec => []FailedForCause
<1>1. IInv /\ MInv => FailedForCause
  BY DEF IInv, MInv, Blameless, FailureAlone, FailedForCause
<1> QED BY <1>1, Invariant, PTL

\* A completed record stays completed unless pipelines met or a task of its pipeline
\* raised, although save() writes back a status read earlier.
THEOREM CompletionIsKept == Spec => CompletedStays
<1>1. IInv /\ [Next]_vars => [StaysCompleted]_vars
  BY AnyStep
<1>2. [StaysCompleted]_vars
        <=> [\A i \in Known : recs[i].status = "completed"
              => recs'[i].status = "completed" \/ i \in met' \/ i \in raised']_vars
  BY DEF StaysCompleted
<1> QED BY <1>1, <1>2, Invariant, PTL DEF Spec, CompletedStays
============================================================================
