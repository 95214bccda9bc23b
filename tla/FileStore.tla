------------------------------ MODULE FileStore ------------------------------
(***************************************************************************)
(* The Files API and the two object stores under it: uploads with contents *)
(* (api_methods/views/file_endpoints.py, and several in one request from   *)
(* the web form, users/views/uploads.py), uploads that borrow the contents *)
(* of a sibling, soft deletions, and what a download finds.  Contents are  *)
(* objects of a primary store, which a secondary may mirror or back up     *)
(* (utils/dual_object_store_storage.py for writes, utils/minio_client.py   *)
(* for downloads); a row of File names its object, and rows of one owner   *)
(* with the same contents share it.  A request gives a file two names, that *)
(* of the uploaded file and that of the field "name": they need not agree. *)
(*                                                                         *)
(* A request is one transaction: its rows appear at Commit.  The stores    *)
(* know no transactions.  Settings are read when the gateway starts, so    *)
(* Restart is how they change, and it ends the requests in flight.         *)
(* The usual names start with FS: Files_proofs extends other modules, too. *)
(***************************************************************************)
EXTENDS Naturals

CONSTANTS
  Directories, \* every directory belongs to a user
  OwnerOf,     \* [Directories -> users]
  FileNames,   \* names of files in a directory; never those of objects
  Contents,    \* what files contain; stands for the checksum, too
  Stores,      \* the two object stores
  Offered,     \* the settings operators choose from (a bound on the inputs)
  None,        \* no value
  Requests,    \* requests that can be in flight at the same time
  MaxRows,     \* bound: rows of File that are not deleted
  MaxSuffix,   \* bound: the suffixes an object's name can be given
  MaxEvents,   \* bound: restarts and overlaps
  MaxOverlaps  \* bound: how often a request may start beside another one

ASSUME StoreAssumption == \E s, t \in Stores : s # t /\ Stores = {s, t}
ASSUME NoneAssumption == None \notin Requests \cup Directories
ASSUME BoundAssumption ==
  /\ MaxRows \in Nat \ {0} /\ MaxSuffix \in Nat
  /\ MaxEvents \in Nat /\ MaxOverlaps \in Nat

VARIABLES
  held,     \* [store -> names of the objects it holds]
  conf,     \* settings of the running gateway
  rows,     \* [1..MaxRows -> row of File that is not deleted]
  req,      \* [request -> what it is doing]
  whole,    \* did the secondary hold all that live rows name when the gateway started? (history)
  restarts, \* how often the gateway was restarted
  overlaps  \* how often requests have overlapped

fsvars == <<held, conf, rows, req, whole, restarts, overlaps>>

\* Names of objects: files/<checksum>, with a suffix when that name was taken.
\* Bare is the checksum without its folder, which no store ever holds.
Names   == Contents \X (0..MaxSuffix)
Bare(c) == <<c, MaxSuffix + 1>>

\* The settings: which store is primary; is a secondary given, and does the
\* storage class see it (it takes one with the key of AWS_ACCESS_KEY_ID for none)?
Settings ==
  {s \in [primary : Stores, given : BOOLEAN, seen : BOOLEAN,
          fallback : BOOLEAN, both : BOOLEAN, strict : BOOLEAN] : s.seen => s.given}
ASSUME OfferAssumption == Offered \subseteq Settings
Secondary(s) == CHOOSE t \in Stores : t # s.primary

\* A row of File is called as its users call it, and its object has a name.  History:
\* is it called otherwise than the tree was searched for; did the request that made it,
\* or the row that it has its object from, run beside another one?
NoRow ==
  [dir |-> None, called |-> None, content |-> None, name |-> None,
   other |-> FALSE, met |-> FALSE, by |-> None]
\* A request in flight; met: another one was, too (history).
Idle ==
  [kind |-> "idle", todo |-> {}, at |-> "look", file |-> None, name |-> None, met |-> FALSE]

\* One file of a request: the name it was uploaded with, and the one it asks for.
Posted ==
  [dir : Directories, own : FileNames \cup Names, asked : FileNames, content : Contents]

Busy(r) == req[r].kind # "idle"
Here(i) == rows[i] # NoRow
Live(i) == Here(i) /\ rows[i].by = None
\* What the queries of request r find: committed rows and its own.
Visible(r, i) == Here(i) /\ rows[i].by \in {None, r}
SameContents(r, d, c) ==
  {i \in 1..MaxRows : Visible(r, i) /\ OwnerOf[rows[i].dir] = OwnerOf[d] /\ rows[i].content = c}

\* DualObjectStoreS3Storage.exists
Exists(n) ==
  \/ n \in held[conf.primary]
  \/ conf.fallback /\ conf.seen /\ n \in held[Secondary(conf)]

\* ObjectStoreFacade.fget_object with the settings s, as download_file calls it.
Readable(s, n) ==
  \/ n \in held[s.primary]
  \/ s.fallback /\ s.given /\ n \in held[Secondary(s)]

\* What a download of row i finds (download_file).
Downloadable(i) == Readable(conf, rows[i].name)

FSInit ==
  /\ held = [s \in Stores |-> {}]
  /\ conf \in Offered
  /\ rows = [i \in 1..MaxRows |-> NoRow]
  /\ req = [r \in Requests |-> Idle]
  /\ whole = TRUE
  /\ restarts = 0
  /\ overlaps = 0

-----------------------------------------------------------------------------
\* A request runs alone or beside others, as often as the bound allows.
Beside ==
  IF \E r \in Requests : Busy(r)
  THEN /\ overlaps < MaxOverlaps /\ restarts + overlaps < MaxEvents
       /\ overlaps' = overlaps + 1
  ELSE overlaps' = overlaps

Start(r, kind, files) ==
  /\ ~Busy(r) /\ Beside
  /\ req' = [q \in Requests |->
       IF q = r
       THEN [Idle EXCEPT !.kind = kind, !.todo = files, !.met = \E s \in Requests : Busy(s)]
       ELSE [req[q] EXCEPT !.met = Busy(q)]]
  /\ UNCHANGED <<held, conf, rows, whole, restarts>>

\* POST of contents: one file with any two names, or several of one user from the web
\* form, which gives each the same name twice.
Post(r) ==
  \E u \in {OwnerOf[d] : d \in Directories} :
    LET mine == {f \in Posted : OwnerOf[f.dir] = u /\ f.own \in FileNames}
    IN  \E files \in {{f} : f \in mine} \cup SUBSET {f \in mine : f.own = f.asked} :
          files # {} /\ Start(r, "contents", files)

\* POST with sibling_uuid: the sibling must be live and its size, which only the
\* primary store is asked for, known.  What is uploaded is named as its object.
PostSibling(r) ==
  \E i \in 1..MaxRows, d \in Directories, a \in FileNames :
    /\ Live(i) /\ OwnerOf[rows[i].dir] = OwnerOf[d]
    /\ rows[i].name \in held[conf.primary]
    /\ Start(r, "sibling",
             {[dir |-> d, own |-> rows[i].name, asked |-> a, content |-> rows[i].content]})

\* Fault: the object goes with the first of the rows that share it.
DeleteWithObject ==
  \E i \in 1..MaxRows :
    /\ Live(i) /\ Beside
    /\ rows' = [rows EXCEPT ![i] = NoRow]
    /\ held' = [s \in Stores |-> held[s] \ {rows[i].name}]
    /\ UNCHANGED <<conf, req, whole, restarts>>

\* DELETE: soft_delete hides the row from every query and leaves the object alone.
Delete ==
  \E i \in 1..MaxRows :
    /\ Live(i) /\ Beside
    /\ rows' = [rows EXCEPT ![i] = NoRow]
    /\ UNCHANGED <<held, conf, req, whole, restarts>>

-----------------------------------------------------------------------------
\* Request r inserts the row of file f, which is called a and names object n, and goes
\* on with the next file; nobody else sees the row before the commit.
Insert(r, f, a, n) ==
  \E i \in 1..MaxRows :
    /\ ~Here(i) /\ \A j \in 1..(i - 1) : Here(j)
    /\ rows' = [rows EXCEPT ![i] =
         [dir |-> f.dir, called |-> a, content |-> f.content, name |-> n, other |-> a # f.own,
          met |-> \E j \in SameContents(r, f.dir, f.content) : rows[j].name = n /\ rows[j].met,
          by |-> r]]
    /\ req' = [req EXCEPT ![r].todo = @ \ {f}, ![r].at = "look", ![r].file = None,
                          ![r].name = None]

\* An error: the web form answers that something failed and keeps the rows before
\* it; a single upload has none.
Stop(r) ==
  /\ rows' = [i \in 1..MaxRows |->
       IF rows[i].by = r THEN [rows[i] EXCEPT !.by = None, !.met = @ \/ req[r].met] ELSE rows[i]]
  /\ req' = [req EXCEPT ![r] = Idle]

\* Fault: the tree is not searched.
InTreeBlind(r, f) == FALSE

\* The tree is searched for the uploaded file's own name.
InTree(r, f) ==
  \E i \in SameContents(r, f.dir, f.content) : rows[i].dir = f.dir /\ rows[i].called = f.own

\* FilePostSerializer.create up to File.save: a file that is in the tree is refused.
\* Contents that the user has are shared, and the row is called as asked.  Others are
\* called by their own name, and need an object; of a sibling that was deleted
\* meanwhile, only the checksum is left for that.
Look(r) ==
  \E f \in req[r].todo :
    LET same == SameContents(r, f.dir, f.content)
    IN  /\ req[r].at = "look"
        /\ \/ /\ InTree(r, f)
              /\ Stop(r)
           \/ /\ ~InTree(r, f) /\ same # {}
              /\ \E i \in same : Insert(r, f, f.asked, rows[i].name)
           \/ /\ req[r].kind = "sibling" /\ same = {}
              /\ Insert(r, f, f.own, Bare(f.content))
           \/ /\ req[r].kind = "contents" /\ same = {}
              /\ req' = [req EXCEPT ![r].at = "name", ![r].file = f]
              /\ UNCHANGED rows
        /\ UNCHANGED <<held, conf, whole, restarts, overlaps>>

\* Storage.save: get_available_name tries other names until one is free.
ChooseName(r) ==
  /\ req[r].at = "name"
  /\ LET plain == <<req[r].file.content, 0>>
         free  == {n \in Names : n[1] = req[r].file.content /\ ~Exists(n)}
     IN  \E n \in IF Exists(plain) THEN free ELSE {plain} :
           req' = [req EXCEPT ![r].at = "primary", ![r].name = n]
  /\ UNCHANGED <<held, conf, rows, whole, restarts, overlaps>>

\* A write succeeds, or fails with the object stored or not.
Writes(store, n) == held' \in {held, [held EXCEPT ![store] = @ \cup {n}]}
Written(store, n) == n \in held'[store]

\* _save, first store.
SavePrimary(r) ==
  /\ req[r].at = "primary"
  /\ Writes(conf.primary, req[r].name)
  /\ \/ Stop(r)
     \/ /\ Written(conf.primary, req[r].name)
        /\ IF conf.both /\ conf.seen
           THEN req' = [req EXCEPT ![r].at = "secondary"] /\ UNCHANGED rows
           ELSE Insert(r, req[r].file, req[r].file.own, req[r].name)
  /\ UNCHANGED <<conf, whole, restarts, overlaps>>

\* Fault: a failed second write is only logged, whatever the settings.
SaveSecondaryLenient(r) ==
  /\ req[r].at = "secondary"
  /\ Writes(Secondary(conf), req[r].name)
  /\ Insert(r, req[r].file, req[r].file.own, req[r].name)
  /\ UNCHANGED <<conf, whole, restarts, overlaps>>

\* _save, second store: a failure counts in strict mode only.
SaveSecondary(r) ==
  /\ req[r].at = "secondary"
  /\ Writes(Secondary(conf), req[r].name)
  /\ \/ conf.strict /\ Stop(r)
     \/ /\ conf.strict => Written(Secondary(conf), req[r].name)
        /\ Insert(r, req[r].file, req[r].file.own, req[r].name)
  /\ UNCHANGED <<conf, whole, restarts, overlaps>>

Commit(r) ==
  /\ Busy(r) /\ req[r].todo = {}
  /\ Stop(r)
  /\ UNCHANGED <<held, conf, whole, restarts, overlaps>>

\* What is left when the processes of requests rs die: nothing of their rows, all
\* of what they have stored.
Abandon(rs) ==
  /\ rows' = [i \in 1..MaxRows |-> IF rows[i].by \in rs THEN NoRow ELSE rows[i]]
  /\ req' = [r \in Requests |-> IF r \in rs THEN Idle ELSE req[r]]

Die(r) == Busy(r) /\ Abandon({r}) /\ UNCHANGED <<held, conf, whole, restarts, overlaps>>

\* The operator's rule, `mc diff` in the runbook: what could be read still can.
Careful(s) ==
  \A n \in held[conf.primary] \cup held[Secondary(conf)] : Readable(conf, n) => Readable(s, n)

\* The gateway is restarted, with the same or with other settings.
Restart ==
  \E s \in Offered :
    /\ restarts + overlaps < MaxEvents /\ Careful(s)
    /\ restarts' = restarts + 1
    /\ conf' = s
    /\ Abandon(Requests)
    /\ whole' = \A i \in 1..MaxRows : Live(i) => rows[i].name \in held[Secondary(s)]
    /\ UNCHANGED <<held, overlaps>>

\* `mc mirror` of the runbook, in a maintenance window.
Mirror ==
  /\ \A r \in Requests : ~Busy(r)
  /\ held' = [held EXCEPT ![Secondary(conf)] = @ \cup held[conf.primary]]
  /\ UNCHANGED <<conf, rows, req, whole, restarts, overlaps>>

Handle(r) ==
  \/ Look(r) \/ ChooseName(r) \/ SavePrimary(r) \/ SaveSecondary(r) \/ Commit(r) \/ Die(r)

FSNext ==
  \/ \E r \in Requests : Post(r) \/ PostSibling(r) \/ Handle(r)
  \/ Delete \/ Restart \/ Mirror

FSSpec == FSInit /\ [][FSNext]_fsvars

-----------------------------------------------------------------------------
Row ==
  [dir : Directories, called : FileNames \cup Names, content : Contents,
   name : Names \cup {Bare(c) : c \in Contents}, other : BOOLEAN, met : BOOLEAN,
   by : Requests \cup {None}]

RequestState ==
  [kind : {"idle", "contents", "sibling"}, todo : SUBSET Posted,
   at : {"look", "name", "primary", "secondary"},
   file : Posted \cup {None}, name : Names \cup {None}, met : BOOLEAN]

\* Types of the stores, the table and the requests.
FSTypeOK ==
  /\ held \in [Stores -> SUBSET Names]
  /\ conf \in Settings
  /\ rows \in [1..MaxRows -> Row \cup {NoRow}]
  /\ req \in [Requests -> RequestState]
  /\ whole \in BOOLEAN /\ restarts \in 0..MaxEvents /\ overlaps \in 0..MaxOverlaps

\* Every live file can be downloaded, although rows share objects and are deleted one
\* by one, writes fail in either store, and the stores are swapped, given up and
\* taken back by an operator who minds `mc diff`.  The exception: a sibling deleted
\* while a row is posted for it, or any later row that shares what that one names.
LiveFilesReadable ==
  \A i \in 1..MaxRows : Live(i) =>
    Downloadable(i) \/ (overlaps > 0 /\ rows[i].name = Bare(rows[i].content))

\* OBJECT_STORE_DUAL_WRITE_STRICT: a secondary that was complete when the gateway
\* started stays complete, whatever write fails and whoever dies in between, so
\* that the stores can be swapped; given that the storage class sees it.
StrictKeepsWhole ==
  whole /\ conf.both /\ conf.strict /\ conf.seen =>
    \A i \in 1..MaxRows :
      Live(i) /\ rows[i].name # Bare(rows[i].content) => rows[i].name \in held[Secondary(conf)]

\* An owner's rows with the same contents share one object, and no contents are twice
\* at a place of the tree, although the search, the store and the row are steps of their
\* own, batches see their own rows, and failed uploads leave objects behind: but for
\* requests that ran beside another one, both of them, and for rows that are called
\* otherwise than the tree was searched for.
FilesOnce ==
  \A i, j \in 1..MaxRows :
    /\ i # j /\ Live(i) /\ Live(j) /\ rows[i].content = rows[j].content
    /\ OwnerOf[rows[i].dir] = OwnerOf[rows[j].dir]
    /\ ~(rows[i].met /\ rows[j].met)
    => /\ rows[i].name = rows[j].name
       /\ rows[i].dir = rows[j].dir /\ rows[i].called = rows[j].called
          => rows[i].other \/ rows[j].other
=============================================================================
