------------------------- MODULE DirectoryDownload -------------------------
(***************************************************************************)
(* Client.download of a directory (sdk/src/spectrumx/client.py): the       *)
(* Paginator lists the directory page by page (ops/pagination.py) while    *)
(* files are uploaded to it and deleted from it, and each entry is         *)
(* downloaded as it is listed, into a temporary file that replaces the     *)
(* local one when it is complete (api/sds_files.py).  Several processes    *)
(* may download into one local directory, and any of them may be killed.   *)
(*                                                                         *)
(* Paths are numbered in the order of the listing.  A file is a row of the *)
(* gateway: a path and a version, later versions being created later.  On  *)
(* the local disk a path holds a version, or 0 for no file.                *)
(*                                                                         *)
(* The usual names start with DD: Files_proofs extends other modules, too. *)
(***************************************************************************)
EXTENDS Integers, FiniteSets

CONSTANTS
  Runs,        \* processes that download into the same local directory
  NumPaths,    \* paths in the directory on SDS
  MaxVersion,  \* bound: versions of a path that are uploaded
  PageSize,    \* page_size of the paginator
  MaxChanges,  \* bound: uploads and deletions
  MaxLeft      \* bound: temporary files killed processes leave behind

ASSUME SizeAssumption == /\ NumPaths \in Nat \ {0} /\ MaxVersion \in Nat \ {0}
                         /\ PageSize \in Nat \ {0}
                         /\ MaxChanges \in Nat /\ MaxLeft \in Nat

VARIABLES
  files,    \* files that are not deleted on the gateway
  made,     \* [path -> versions of it uploaded so far]
  changes,  \* uploads and deletions so far
  target,   \* [path -> what the local directory holds]
  left,     \* temporary files of killed processes
  run,      \* [process -> its download in progress, or the last one]
  listed,   \* [process -> paths listed throughout its listing] (history)
  removed   \* [process -> paths that left the listing meanwhile] (history)

ddvars == <<files, made, changes, target, left, run, listed, removed>>

Paths == 1..NumPaths
File  == [path : Paths, ver : 1..MaxVersion]

\* Where a download stands: "count" is the first page being fetched by len(), "next" a
\* call of __next__, "meta" to "move" the steps of download_file, "ended" the results
\* returned to the caller, "idle" none of them (an exception was).
Steps == {"idle", "count", "next", "meta", "open", "stream", "move", "ended"}

Fresh == [at |-> "idle", overwrite |-> FALSE, page |-> 1, total |-> 1, fetched |-> FALSE,
          entries |-> {}, file |-> [path |-> 1, ver |-> 1], temp |-> "none",
          ok |-> {}, seen |-> {}, cut |-> FALSE]

DDInit ==
  /\ files \in SUBSET [path : Paths, ver : {1}]
  /\ made = [p \in Paths |-> IF [path |-> p, ver |-> 1] \in files THEN 1 ELSE 0]
  /\ changes = 0
  /\ target = [p \in Paths |-> 0]
  /\ left = 0
  /\ run = [r \in Runs |-> Fresh]
  /\ listed = [r \in Runs |-> {}]
  /\ removed = [r \in Runs |-> 0]

-----------------------------------------------------------------------------
(* The gateway. *)

\* The latest file of each path ...
Latest      == {f \in files : \A g \in files : g.path = f.path => g.ver <= f.ver}
PathsOf(fs) == {f.path : f \in fs}

\* ... in the order of the paths: how many are listed, and how many of them before path p.
Count   == Cardinality(PathsOf(files))
Rank(p) == Cardinality({q \in PathsOf(files) : q < p})

\* Pages are cut from the listing of the moment; the first one always exists.
ValidPage(n) == n = 1 \/ (n - 1) * PageSize < Count
Page(n) == {f \in Latest : Rank(f.path) \in ((n - 1) * PageSize)..(n * PageSize - 1)}

Change(after) ==
  /\ changes < MaxChanges
  /\ changes' = changes + 1
  /\ files' = after
  /\ listed' = [r \in Runs |-> listed[r] \cap PathsOf(after)]
  /\ removed' = [r \in Runs |->
                   removed[r] + Cardinality(PathsOf(files) \ PathsOf(after))]
  /\ UNCHANGED <<target, left, run>>

Upload(p) ==
  /\ made[p] < MaxVersion
  /\ made' = [made EXCEPT ![p] = @ + 1]
  /\ Change(files \cup {[path |-> p, ver |-> made[p] + 1]})

DeleteFile(f) ==
  /\ f \in files
  /\ Change(files \ {f})
  /\ UNCHANGED made

-----------------------------------------------------------------------------
(* Listing. *)

Gateway == <<files, made, changes>>

\* Client.download: a new paginator, and len() of it.
Begin(r, overwrite) ==
  /\ run[r].at \in {"idle", "ended"}
  /\ run' = [run EXCEPT ![r] = [Fresh EXCEPT !.at = "count", !.overwrite = overwrite]]
  /\ listed' = [listed EXCEPT ![r] = {}]
  /\ removed' = [removed EXCEPT ![r] = 0]
  /\ UNCHANGED <<Gateway, target, left>>

\* Fault: the page after the last full one is not asked for.
TotalPagesShort(s) == s.total \div PageSize

TotalPages(s) == s.total \div PageSize + 1
HasNextPage(s) == ~s.fetched \/ s.page <= TotalPages(s)

Asking(r) == run[r].at \in {"count", "next"} /\ run[r].entries = {}

FetchPage(r) ==
  LET s == run[r] IN
  /\ Asking(r) /\ HasNextPage(s) /\ ValidPage(s.page)
  /\ run' = [run EXCEPT ![r] = [s EXCEPT !.at = "next", !.entries = Page(s.page),
               !.total = Count, !.page = s.page + 1, !.fetched = TRUE]]
  /\ listed' = [listed EXCEPT ![r] = IF s.at = "count" THEN PathsOf(files) ELSE @]
  /\ removed' = [removed EXCEPT ![r] = IF s.at = "count" THEN 0 ELSE @]
  /\ UNCHANGED <<Gateway, target, left>>

Local == <<Gateway, target, left, listed, removed>>

\* The iteration stops and download returns the results.
Results(s, cut) == [Fresh EXCEPT !.at = "ended", !.ok = s.ok, !.seen = s.seen, !.cut = cut]

\* StopIteration: there is no further page, or the gateway says that it is invalid.
NoMorePages(r) ==
  LET s == run[r] IN
  /\ Asking(r) /\ ~(HasNextPage(s) /\ ValidPage(s.page))
  /\ run' = [run EXCEPT ![r] = Results(s, FALSE)]
  /\ UNCHANGED Local

\* Another answer of the 400s: the iteration ends in the same way, or, in len(), the
\* StopIteration passes out of download.
PageRefused(r) ==
  /\ Asking(r)
  /\ run' = [run EXCEPT ![r] = IF @.at = "count" THEN Fresh ELSE Results(@, TRUE)]
  /\ UNCHANGED Local

\* Errors that are not FileErrors (network, authentication, server) pass out of download.
PageFails(r) ==
  /\ Asking(r)
  /\ run' = [run EXCEPT ![r] = Fresh]
  /\ UNCHANGED Local

-----------------------------------------------------------------------------
(* Downloading one entry. *)

\* The next entry: one whose local file exists is left alone unless overwrite is set,
\* and counts as a success.  (The checksum that is compared under overwrite is that of
\* the entry's local_path, which entries of a listing do not have.)
Take(r) ==
  \E f \in run[r].entries :
    LET s    == run[r]
        skip == target[f.path] # 0 /\ ~s.overwrite
    IN
    /\ s.at = "next" /\ \A g \in s.entries : f.path <= g.path
    /\ run' = [run EXCEPT ![r] = [s EXCEPT !.entries = @ \ {f}, !.file = f,
                 !.seen = @ \cup {f.path},
                 !.at = IF skip THEN "next" ELSE "meta",
                 !.ok = IF skip THEN @ \cup {f} ELSE @]]
    /\ UNCHANGED Local

\* The file's metadata arrive and a temporary file is made beside the target.
Prefetch(r) ==
  /\ run[r].at = "meta" /\ run[r].file \in files
  /\ run' = [run EXCEPT ![r].at = "open", ![r].temp = "part"]
  /\ UNCHANGED Local

\* The gateway answers the request for the contents ...
Open(r) ==
  /\ run[r].at = "open" /\ run[r].file \in files
  /\ run' = [run EXCEPT ![r].at = "stream"]
  /\ UNCHANGED Local

\* ... which arrive whole and are synced to disk ...
Received(r) ==
  /\ run[r].at = "stream"
  /\ run' = [run EXCEPT ![r].at = "move", ![r].temp = "whole"]
  /\ UNCHANGED Local

\* ... and take the place of the local file.
Replace(r) ==
  LET f == run[r].file IN
  /\ run[r].at = "move"
  /\ target' = [target EXCEPT ![f.path] = f.ver]
  /\ run' = [run EXCEPT ![r].at = "next", ![r].temp = "none", ![r].ok = @ \cup {f}]
  /\ UNCHANGED <<Gateway, left, listed, removed>>

\* Fault: the failed download counts as a success.
EntryFailsAsOk(r) ==
  /\ run[r].at \in {"meta", "open"}
  /\ run' = [run EXCEPT ![r].at = "next", ![r].temp = "none", ![r].ok = @ \cup {run[r].file}]
  /\ UNCHANGED Local

\* Either request fails with an SDSError (the file was deleted, for one): the
\* temporary file is removed, the entry's result is a failure and the next one is taken.
EntryFails(r) ==
  /\ run[r].at \in {"meta", "open"}
  /\ run' = [run EXCEPT ![r].at = "next", ![r].temp = "none"]
  /\ UNCHANGED Local

\* Any other exception (the stream breaks, the disk is full): the temporary file is
\* removed, the exception passes out of download and the results are lost.
Raises(r) ==
  /\ run[r].at \in {"meta", "open", "stream", "move"}
  /\ run' = [run EXCEPT ![r] = Fresh]
  /\ UNCHANGED Local

\* The process is killed (or interrupted: KeyboardInterrupt is no Exception).
KillDownload(r) ==
  /\ run[r].at \notin {"idle", "ended"}
  /\ run[r].temp # "none" => left < MaxLeft
  /\ left' = IF run[r].temp = "none" THEN left ELSE left + 1
  /\ run' = [run EXCEPT ![r] = Fresh]
  /\ UNCHANGED <<Gateway, target, listed, removed>>

Step(r) ==
  \/ \E overwrite \in BOOLEAN : Begin(r, overwrite)
  \/ FetchPage(r) \/ NoMorePages(r) \/ PageRefused(r) \/ PageFails(r)
  \/ Take(r) \/ Prefetch(r) \/ Open(r) \/ Received(r) \/ Replace(r)
  \/ EntryFails(r) \/ Raises(r) \/ KillDownload(r)

DDNext ==
  \/ \E p \in Paths : Upload(p)
  \/ \E f \in files : DeleteFile(f)
  \/ \E r \in Runs : Step(r)

DDSpec == DDInit /\ [][DDNext]_ddvars

-----------------------------------------------------------------------------
Download ==
  [at : Steps, overwrite : BOOLEAN, page : Nat \ {0}, total : Nat, fetched : BOOLEAN,
   entries : SUBSET File, file : File, temp : {"none", "part", "whole"},
   ok : SUBSET File, seen : SUBSET Paths, cut : BOOLEAN]

\* Types of the gateway's files, the local directory and the downloads.
DDTypeOK ==
  /\ files \subseteq File
  /\ made \in [Paths -> 0..MaxVersion]
  /\ changes \in 0..MaxChanges
  /\ target \in [Paths -> 0..MaxVersion]
  /\ left \in 0..MaxLeft
  /\ run \in [Runs -> Download]
  /\ listed \in [Runs -> SUBSET Paths]
  /\ removed \in [Runs -> Nat]

\* The local directory holds whole files that were uploaded under their paths, whatever is
\* killed meanwhile and however many processes write to it; a success that download
\* reports is one of them, and only a killed process leaves a temporary file beside them.
WholeFiles ==
  /\ \A p \in Paths : target[p] \in 0..made[p]
  /\ \A r \in Runs : \A f \in run[r].ok : target[f.path] # 0
  /\ \A r \in Runs : run[r].at \in {"idle", "next", "ended"} => run[r].temp = "none"

\* A listing that runs to its end passes over no more of the paths that were listed all
\* along than paths were removed from the directory meanwhile; uploads hide nothing, and
\* neither does a count that is a multiple of the page size.
MissedByRemoval ==
  \A r \in Runs :
    run[r].at = "ended" /\ ~run[r].cut
      => Cardinality(listed[r] \ run[r].seen) <= removed[r]
=============================================================================
