# Formal models of sds-code

TLA+ models of the SpectrumX Data System: the federation sync service, the gateway's side of
federation, its files, zip downloads, sharing, datasets, visualizations and capture index, and the
uploads and downloads of the Python SDK. TLC checks them on small instances; TLAPS proves the
safety properties of all of them for every value of the constants.
Paths are relative to `src/`; `GW` is `gateway/sds_gateway`, `FED` is `federation/sds_federation`,
`SDK` is `sdk/src/spectrumx`. `PROJECT.json` has, for each definition, the lines it stands for.

To repeat a result, in this directory:

    tlc -config FedIndexer_threads.cfg MCFedIndexer.tla
    tlapm FedIndexer_proofs.tla

## 1. The system

Three programs: the **gateway** (Django; PostgreSQL, OpenSearch, Redis, Celery, S3 stores), the
**SDK** (a Python client on a user's machine) and the **federation sync service** (FastAPI, one per
site, next to that site's gateway).

| Component | State | Operations | Talks to | What is hard | What makes it correct |
|---|---|---|---|---|---|
| Federated asset indexer `FED/services/fed_index.py` | `fed-*` documents in OpenSearch with `federation_event_at`; a process-local cache of stamps | `apply_asset_event`, `_is_stale`, `_mark_applied` | OpenSearch; called in worker threads by the webhooks and the bootstrap | check, write and cache update are separate steps of threads; timeouts; restarts | older events never replace newer documents; what was accepted is held |
| Sync start-up, peer registry `FED/main.py`, `services/bootstrap.py`, `routes/webhooks.py` | peer registry in memory; indexed documents | pull local list, pull peers' lists, hello, answer a hello | own gateway, peers' sync services | sites that call each other while they start; peers that are down | starts end; a started site has what its reachable peers had and is registered there |
| Replication: `GW/api_methods/federation/*`, `FED/services/local_events.py`, `peer_sync.py` | database row, the owner's document, pub/sub channel, fan-out, peers' documents | save, reindex on commit, publish, subscribe, push | Redis, OpenSearch, peers | lost events, dying subscriber, cached health, timestamps of two resolutions | copies converge; deleted assets are withdrawn; drafts stay home; restarts catch up |
| Zip downloads `GW/api_methods/tasks.py`, `users/views/downloads.py` | Redis lock, `TemporaryZipFile` rows, files | request, task, serve, two cleanups | Redis, disk, object store, mail | time limits, kills, cleanups running beside tasks, a lock that expires | a mailed link serves a finished file; one task of a user holds the lock; files are reclaimed |
| Resumable uploads `SDK/api/uploads.py`, `api/sds_files.py` | local files, server tree, log of uploaded files, five buffers | discover, check contents, send, record, delete | files API | crashes between answer and log, concurrent workers, unacknowledged requests, stale log | what a run skips is on the server; nothing is sent twice; runs end |
| Sharing `GW/api_methods/models.py` 1283-1952, `users/views/sharing.py`, `share_groups.py`, `special_pages.py` | permissions, their links to groups, group members | share, change level, unshare, by name or by group; add and remove member; delete group or item; revoke all; the competition page and a new version give access too | web UI; deletion signals | read-change-save of whole rows, requests at READ COMMITTED | members of a group have alike what it shares; individual shares survive what groups do; nothing is left of deleted groups and items |
| Datasets `GW/api_methods/models.py` 289-373, 851-1113, `users/views/datasets.py`, `utils/relationship_utils.py` | status, visibility, version chain, links to captures and files | create, edit, publish, new version, detach, delete | federation signals, sharing | whole-row saves of stale copies, checks before the UPDATE, lists read before links are removed | final stays final, public stays public; one next version per user; what is in use is not deleted |
| Visualizations `GW/visualizations` | `PostProcessedData` rows, stored files | request, relaunch, set up, render, store, finish, fail | django-cog/Celery, object store | several pipelines per capture, one error handler for all their records, results stored by kind | a record has its own picture; it fails for a cause; it does not stay pending |
| Captures and their index `GW/api_methods/views/capture_endpoints.py`, `helpers/index_handling.py`, `management/commands/replace_index.py`, `init_indices.py` | row, OpenSearch document, backup indices | create, update, delete; back up, recreate, reindex, verify, roll back; repair at deployment | OpenSearch, operator | two stores and one transaction; failures and stops between the deletion of an index and the end of its reindexing; requests meanwhile | the index finds exactly the live captures; no document is lost |
| SDK listing and downloads `SDK/ops/pagination.py`, `client.py`, `api/sds_files.py` | page number and count; temporary files; the local directory | list, fetch a page, download and rename | gateway | a directory that changes between pages; kills; two processes in one directory | no partial file under a whole one's name; a listing misses no more than was removed |
| Files API and object stores `GW/api_methods/views/file_endpoints.py`, `serializers/file_serializers.py`, `utils/dual_object_store_storage.py`, `users/views/uploads.py` | `File` rows, objects in two stores, settings | upload contents, borrow a sibling's, batches of the web form, delete, download; change settings, mirror | S3 stores, operator, SDK and browser | rows share objects; the stores know no transactions; one write of two fails; settings change over what others stored | every live file can be downloaded; strict writes keep the secondary complete; contents are stored once |
| Search, users, monitoring, web UI, legacy views, deployment | - | - | - | mostly pure I/O or stateless | see `components` in `PROJECT.json` for why each is left out |

The hazards of each part, at the line where they bite, are listed under `hazards` in
`PROJECT.json` with the properties about them; section 5 has what no property covers.

## 2. Modules

    VersionRegister  <--implements--  FedIndexer  --taken as one step by-->  FedReplication
                                                                        -->  FedStartup
    ZipDownload    ResumableUpload    DirectoryDownload
    Sharing        Datasets           Visualization        CaptureIndex        FileStore
    MC<Module>     instances for TLC
    Files_proofs      theorems about ZipDownload, FileStore and DirectoryDownload
    Captures_proofs   theorems about CaptureIndex and Visualization
    <Module>_proofs   theorems about the others

| Module | Models | State ~ code | Actions ~ code |
|---|---|---|---|
| `VersionRegister` | what a copy of an asset promises (abstract) | `latest`, `promised` | a later version arrives; an event is acknowledged |
| `FedIndexer` | `FederatedAssetIndexer` under its threads | `store` = `federation_event_at` in OpenSearch, `cache` = `_last_event`, `pc/asset/at/prev` = a thread inside `apply_asset_event` | one action for each call that other threads can come between: cache read, OpenSearch get, cache fill, decide + index, `_mark_applied`; failing and unacknowledged calls; restart |
| `FedReplication` | one asset from the owner's row to the peers | `row`, `doc`, `chan`, `msg/todo` (fan-out), `peer`, plus who is up and what a gateway process believes of the sync service | `Look` reads the row and `clean()`s it, then `Save` writes all of it or `Refused` does not; `Relink` changes the links alone; `Fresh`, `Decide`, `IndexLocal`, `Publish` are the callback; any number of workers do so at once; `TakeEvent`, `Push` are the subscriber's; stops, starts and bootstraps |
| `FedStartup` | several sites starting and restarting | `phase` = progress of the lifespan, `asked/lists/await` = calls in flight, `known` = registry, `has` = indexed catalogues | one action per call and per reply of `run_bootstrap` and `site_hello` |
| `ZipDownload` | the task `send_item_files_email` and the cleanups | `lock`, `rec`, `file`, `pc`; `mail` = what was sent, the link, an error or both | one action per step of the task's body, its except clauses and its finally; the error, or the time limit, that comes after the mail server took the link; kill; lock expiry; cleanups |
| `ResumableUpload` | `UploadWorkload` over many runs | `log/old/corrupt` = the persisted log, `pending/done/failed` and workers' jobs = the buffers, `server` | discovery of a file, the steps of a worker, crash, edits, ageing, deletions |
| `Sharing` | the permissions of one item, its groups and their members | `perm` = rows of `UserSharePermission`, `links` = its `share_groups` table, `members`, `gone`; `req` = a request with the copies it has read; it starts with what a new version copied from the one before; `individual` is True in rows made without it | every request starts (checks, reads), counts the groups that are left (`update_enabled_status`) and commits, or is rolled back |
| `Datasets` | datasets, captures and files, with the links between them | `row`, `links`, `holds`, `gone`; `req` with what `clean()` saw and what a detach listed; `met` = the requests that ran beside another one | a request starts with a form that its view accepts (`Forms`), is checked again by `clean()` or under the row's lock, and commits or is refused |
| `Visualization` | records, pipelines and tasks of one capture | `recs` = `PostProcessedData`, `task` = Celery tasks with the record they store into, `marks` = what the error handler has yet to fail | POST and reindexing; set-up, rendering, storing, finishing; raising and the handler; stopped workers; deletion of the capture |
| `CaptureIndex` | captures of one type, their documents, and the commands that replace and repair the index | `row`, `docs`, `there/blocked` (the index), `backups`; `req`, `cmd.pc` = progress of `handle()` | a request looks whether there is an index (`See`), writes its document, then commits, is refused or fails; a write into a deleted index makes OpenSearch create one; creations of the captures in `Slipped` do not find the others of their place; each query and OpenSearch call of `replace_index` is an action, with a failing and a stopped variant; `init_indices` |
| `DirectoryDownload` | `Client.download` over the `Paginator` | `files` = those of the gateway, `target` = the local directory, `run` = page, count, entries and temporary file of a process | `len()`, page fetch, entry, metadata, stream, rename, each failing; kills; uploads and deletions by others |
| `FileStore` | uploads, deletions and downloads over two object stores | `held` = objects of each store, `rows` = live `File` rows (directory, name, contents, object) with the request whose transaction they still belong to, `conf` = settings, `req` = progress of a request; `whole` remembers whether the secondary was complete at the last start | `Post`, `PostSibling` start a request, with the uploaded file's own name and that of the form: the tree is searched for the one, the row is called after the other when it shares an object (`Posted`); `Look`, `ChooseName`, `SavePrimary`, `SaveSecondary` are the serializer and the storage, with writes that fail; `Commit`, `Die`; `Delete`; `Restart` with other settings and `Mirror` are the operator's |

The models keep every guard, branch, error path and their order, and abstract data: a document is
its timestamp (`FedIndexer`) or its presence (`CaptureIndex`), a body its version, `updated_at` and
status (`FedReplication`), a catalogue its version (`FedStartup`), a file's contents a number
(`ResumableUpload`, `DirectoryDownload`), a picture the record it was rendered for
(`Visualization`). Of Django's requests the models keep what PostgreSQL does to them: each is one
transaction at READ COMMITTED (`ATOMIC_REQUESTS`, `config/settings/base.py`), it reads what is
committed at that moment, `save()` writes back every column it has read, and a many-to-many link is a
row of its own.

Two abstractions deserve their reason. `FedReplication` and `FedStartup` let a peer apply an event in
one step; theorem `RegisterRefined` justifies that for the assets whose events do not overlap, and
`NewestNeverRefused` says what is left where they do. `ZipDownload` takes the sweep of the shared
directory as one step: a file becomes sweepable only by its record becoming failed, or by having
none, and neither is ever undone, so the order in which the walk meets files does not matter.

Operators commented "Fault:" are plausible bugs of the definition that follows them. No
specification uses them: each one, put in place of that definition, makes TLC find a property
violated, which shows the property depends on the code.

## 3. Runs

Passing runs:

| Run | Instance | What it shows |
|---|---|---|
| `indexer_threads` | 2 threads, 3 timestamps, restarts; the events of asset `a1` in turn, those of `a2` overlapping and with unacknowledged writes (1,688,230 states) | for `a1` the cache decides as OpenSearch would (`CacheMatchesStore`) and the documents refine `VersionRegister`; for both an event is refused only if it or a later one was indexed: races may bring an old document back but do not shut the newest out (`SkippedOnlyIfIndexed`) |
| `replication_reliable` | 2 workers, 2 peers, 4 versions, unlinked captures, no failures (520,666) | quiet means current, deleted means withdrawn, and copies converge, whatever outdated saves and callbacks in the wrong order did before the last change |
| `replication_faults` | 2 workers, 2 peers, 3 versions, 2 clock ticks to the second, unlinked captures; every failure and restart (1,955,229) | stamps promise more than bodies hold only for saves beside a running callback; what was never published stays home, and a draft leaves it in two ways only; a starting peer catches up to the second |
| `startup_chain` | 3 sites in the topology below, all stops, starts, failures (157,928) | starts end; what a started site knows and where it is registered; copies never go back |
| `zip_tasks` | 2 tasks of a user, slow ones, kills, uncaught errors, errors after the mail (104,649) | a mailed link works unless its own task failed after mailing it, whole files are served, one task is at work with the lock it took (`OneHolder`), files are reclaimed |
| `upload_runs` | 2 files, 2 workers, 2 contents, any number of runs and crashes (514,056) | each file in one buffer, honest skips, complete clean runs, nothing resent, runs end |
| `sharing_requests` | owner and collaborator, 2 groups, 2 requests in flight, overlapping once (870,662) | deleted groups and items leave nothing, members share alike, individual shares survive groups |
| `datasets_requests` | 2 users, a capture, a file, 3 datasets, 4 requests, 2 of them at a time (554,957) | nothing published goes back, one next version per user, no detach takes assets from what was published when it began, a request that met no other leaves nothing deleted in use |
| `visualization_runs` | 1 capture, 3 records, 2 pipelines at a time, 1 fault (737,710) | a completed record has its own picture and stays completed, one fails for a cause, none stays pending; where pipelines met, a picture is still of the record's kind and of no newer record, and nothing fails before a task raises |
| `captureindex_replace` | 2 captures of one place, 2 requests, 2 replacements, 1 failure or stop; the creation of one does not find the other (670,371) | the index finds exactly the live captures, and no document is lost |
| `download_runs` | 2 processes, 3 paths, pages of 2, 1 change beside them, 1 file left behind (1,334,218) | no torn or foreign contents under a path; a listing misses no more than was removed |
| `file_requests` | 2 users with a directory each, 2 names, 2 live rows, 1 suffix, 2 requests; an overlap and a restart, or two restarts, under 12 settings (1,075,496) | live files stay readable, strict writing keeps the secondary complete, contents are stored once but by requests that met or rows called otherwise than the tree was searched for |

All runs pass. The type invariants (`TypeOK`, `FSTypeOK`, `DDTypeOK`, `CITypeOK`) and `AckedIsStored`
are theorems (section 4), so the runs spend their time on the rest.

### Disagreements

Places where the code and what the repository says of it differ. The property is in the
module; TLC finds each of these counterexamples within a minute when the property is checked with the
constants of the module's run, changed as the last column says.

| Property | Disagreement | Constants |
|---|---|---|
| `FedIndexer!StaleEventsSkipped` | two webhooks of one asset, handled in parallel, both look the stamp up before either writes; the older document wins. The tests (`federation/tests/test_regression_indexer.py:73`) say stale events are skipped | one asset, in `Overlap` |
| `FedStartup!HelloBackfills` | a site says hello before it can serve the list that the peer asks for while it answers, so the peer's backfill fails; the integration test's mesh has no lifespan and does not see it | `Faults = FALSE` will do |
| `ResumableUpload!SkippedIsUploaded` | the log does not know `sds_path`; a directory uploaded to one path is skipped for another | two members of `Dests` |
| `Sharing!RevokingNeverGrants` | removal by name switches a permission off but leaves `is_individual_share` set (`sharing.py:689`), so that the deletion of a group the user was in computes it back on (`models.py:1401`): someone loses a group and regains what "Removed ... from sharing" took | `MaxOverlaps = 0` will do |
| `ZipDownload!OneAtATime` | a task that is turned down runs the same `finally` as one that is not (`tasks.py:1153-1156`) and deletes the lock of the running one; `tasks.py:162` says the lock is there "to ensure only one task runs at a time" | three tasks, `Slow = FALSE`, `Faults = FALSE` |
| `Visualization!Independent` | `cog_pipelines.py:43` calls the spectrogram stage independent of the waterfall stage; the handler of a waterfall that raised fails a spectrogram whose own task is done | none |
| `CaptureIndex!RestoreOffered` | `replace_index.py:291` is to find a backup with more documents than the index, but `_get_doc_count()` is called without the backup's name and counts the index itself every time, so none is ever offered | none |

Read off the code while modelling, and true of the models without a property of their own:

- "never re-download identical files" (`SDK/client.py:647`) compares the checksum of the entry's own `local_path`,
  which entries of a listing do not have, so with `overwrite` every file is downloaded again.
- `PUT` on a file "updates a file (metadata-only)" (`file_endpoints.py:507`), but the serializer's `update` returns
  the instance without saving it (`file_serializers.py:160-174`): the answer shows the change, the row does not.
- A file that is in the tree already is refused with the code of a conflict (`file_serializers.py:140`), which is
  answered as any other invalid input.
- "File with checksum already exists in the tree" (`file_serializers.py:137`) is said of the uploaded file's own name
  (line 126), while the row of shared contents is called after the form's field `name` (line 147): one client can
  leave a file twice in turn, which `FilesOnce` allows by `other`.
- The ready mail says until when a link works (`templates/emails/item_download_ready.html:121`), but an error of the
  mail server after it took that mail, or the time limit before the body ends, runs an except clause and the `finally`
  that remove the file (`tasks.py:1128-1168`): the user then has the link and an error, and `LinkWorks` says that only
  then a link dies.
- "This dataset is published and cannot be edited" (`datasets.py:315`) is answered to a GET only; the POST that saves
  does not ask, so `PublishedKeepsAssets` leaves saves of the dataset itself out.
- "Draft datasets cannot be made public" is asked of forms whose field is `True` (`datasets.py:1593`), and other
  spellings of it pass (`Datasets!Forms`).
- `detach_item_from_all_datasets` promises to "keep published (FINAL or public) links" (`relationship_utils.py:321`)
  but lists the links before it removes them, and removes those of a dataset published in between (`drafts` in
  `PublishedKeepsAssets`).
- RadioHound captures without a scan group may be created side by side (`capture_endpoints.py:1885`), and are
  duplicates of each other for `replace_index` (`replace_index.py:509-520`), which removes all but the oldest
  (`CaptureIndex!Slipped`).

### Bounds, and why they suffice

- Threads, workers, tasks, requests and processes do not know each other, only what they share. An
  overwriting needs two, and a third, where a counterexample needs it, acts while the other two are half way.
- Timestamps and versions are compared, never computed with, except for the cut to seconds. Three are enough for
  "older, current, newer"; `replication_faults` has two ticks to the second and three versions, so that
  two changes can fall in one second or in two; `replication_reliable` has a fourth, so that a save that meets none can
  follow an outdated save and a callback in the wrong order.
- `startup_chain`: a pair that knows each other, and a third site that is a peer without knowing
  its caller, which turns hellos away. With one version of each catalogue, "0 before, 1 after" tells apart
  what had been learned.
- Two files with the same or different contents reach every branch of the contents check: already there, a
  sibling to reuse, to be sent.
- `sharing_requests`: two groups, so that one can be removed while the other keeps a permission
  enabled; one overlap is enough for a commit to lie between the read and the save of another request.
- `datasets_requests`: a dataset, its version and one more; four requests are create, publish or
  version, and two that race.
- `visualization_runs`: a waterfall and a spectrogram of one pipeline and a spectrogram of another, which
  is all the choice of "the newest record of that kind" depends on. One fault at any step.
- `captureindex_replace`: two captures of one place, the creation of the second of which does not find the first, are
  duplicates of each other as well as two documents, of which one can be indexed and the other not; the second replacement meets what a stopped first
  one left.
- `download_runs`: three paths on pages of two give a full page, a short one, and with one removal a count
  that is a multiple of the page size.
- `file_requests`: two rows share an object or do not; the second directory is another user's, who has the same contents
  and so asks for an object's name that is taken; two names let a file be uploaded under one and called by the other.
  `MaxEvents` bounds restarts and overlaps together: two restarts swap the stores and swap them back, or give one up and take
  it back.
  Different contents never meet: neither a query nor a name of one has to do with the other's.
- What the bounds leave open is the subject of the proofs, which have none.

`CHECK_DEADLOCK FALSE` is set where the model really ends: in `FedReplication` without faults,
`ZipDownload`, `Sharing`, `Datasets`, `Visualization`, `CaptureIndex` and `FileStore` the versions, records or
requests considered are used up, or the one item is deleted, and nothing is left to do.

Symmetry is used for safety runs only.

### Fairness

- `FedReplication`: an on_commit callback that began runs on (it is a sequence of calls in a thread); the
  subscriber takes and pushes what it received (an asyncio loop). No fairness for saves, stops,
  starts, probes. `Converges` is checked where nothing fails, since a lost event is never sent again.
- `FedStartup`: a start goes on and each request ends, in an answer or a failure: the HTTP
  clients have timeouts, whose expiry is the failing branch under `Faults`.
- `ZipDownload`: Celery runs what is queued, beat runs the cleanups. Nothing rests on the expiry of the
  lock, which may come at any time or never.
- `ResumableUpload`: a run that began goes on. The user owes nothing.
- `Visualization`: the transaction that launched a pipeline commits, and a task that was queued is run
  to its end. Workers that are stopped end their tasks for good: nothing sends them again.

## 4. Theorems

All without bounds: any sets, any `MaxTime`, `MaxVer`, `TicksPerSecond`, any configuration of peers.

| Module | Theorem | Property, assumptions | Inductive invariant |
|---|---|---|---|
| `FedIndexer_proofs` | `TypeCorrect` | `TypeOK` | itself |
| | `AckedStored` | `AckedIsStored`: of the assets handled in turn | `SerialInv`: at most one thread per such asset (`Exclusive`), what was acknowledged or cached is stored (`Kept`), and what a thread has read is what is stored (`Knows`) |
| | `RegisterRefined` | `ImplementsRegister`: of those whose writes are acknowledged too (`Orderly`), whatever the others do | `SerialInv` and `FaithfulInv`: a thread decides on exactly the stored stamp, so its write is an `Advance`, everything else a stutter or an `Acknowledge`; lemma `Elsewhere`: a step on any other asset stutters |
| | `CacheFaithful` | `CacheMatchesStore`: of the same | `FaithfulInv` |
| | `NewestNeverRefused` | `SkippedOnlyIfIndexed`: of all | `RaceInv`: whatever a thread has read was once written |
| `FedReplication_proofs` | `TypeCorrect` | `TypeOK` | `TypeInv`: `updated_at` moves only with the version |
| | `StampsHonest` | `StampHonest`; none | `HonestInv`: what is published, pushed or held is no older than its stamp, unless that is of a save beside a running callback (`Kept`); a callback has read the row at least as of its own save |
| | `BootstrapsCatchUp` | `BootstrapCatchesUp`; none | `HonestInv` |
| | `DraftsKept` | `DraftsStayHome`; none | `DraftInv`: a row that was public is a draft only after an outdated save, and a callback that goes on with a draft found a document: it was published before, or, beside the callback, since |
| | `DeletedWithdrawn` | `DeletedIsWithdrawn`; no faults or stops (`Calm`), any workers, callbacks that crossed excused by the property | `CallbackInv`: everybody is up, what carries the row's `updated_at` says what the row says, and where no callback is still to write, and the last save met none, the owner's document is that of the row |
| | `SettledCurrent` | `SettledIsCurrent`; `Calm`, any workers and unlinked captures | `SettledInv`: no stamp lies ahead of the row, and once the document is that of a save that met no callback, each peer has its stamp, is about to get it, or the event is in the channel. `CallbackInv`, `HonestInv` |
| `FedStartup_proofs` | `TypeCorrect`, `CopiesMoveForward` | `TypeOK`, `NeverBackwards`; none | `Bounded`: no copy and no answer under way is ahead of its gateway |
| | `StartsLearn`, `StartsRegister` | `StartLearns`, `StartRegisters`; none | `Pairs`: how far a start has come with each peer that answered all the while; what the peer had is here or on its way |
| `Files_proofs` | `TypeCorrect`, `LinksWork`, `WholeFilesServed` | `TypeOK`, `LinkWorks`, `ServedIsWhole` of `ZipDownload`; none | `Stage`: what record, file and mail are at each step of a task. The lock is not needed |
| | `LockHeldOnce` | `OneHolder`; none | `Holds`: a task at work that was not robbed is the one that the lock names |
| | `StoreTypes`, `FilesStayReadable`, `SecondaryStaysWhole` | `FSTypeOK`, `LiveFilesReadable`, `StrictKeepsWhole` of `FileStore`; the excuses and premises are in the properties | `ReadableInv`, `WholeInv`: the two properties for rows of open transactions too, since other rows of a batch share what those name; `StoredInv`: what is written to the secondary is in the primary already |
| | `ContentsStoredOnce` | `FilesOnce`; none, the excuses are in the property | `MetInv`: a request for whose contents a row appeared after it had looked has met another one and says so (`Late`), and rows of open transactions are of requests that know each other (`Aware`, `Held`); `OnceInv`: the property for those rows too |
| | `DownloadTypes`, `FilesAreWhole` | `DDTypeOK`, `WholeFiles` of `DirectoryDownload`; none | `MadeBy`, `PlacedBy`: what a process holds of the gateway was uploaded there, what it reports is in the local directory |
| | `MissedOnlyByRemoval` | `MissedByRemoval`; none | `PassedBy`: at each moment of a listing, what it has passed over of the paths that were there throughout is no more than what was removed. It rests on lemmas about positions: an upload moves no path to an earlier page, and a removal moves each by one position at most, so that at most one more is before the next page |
| `ResumableUpload_proofs` | `TypeCorrect`, `FilesAccountedFor` | `TypeOK`, `EachFileOnce`; none | `BufferInv`: the buffers partition what was discovered |
| | `SkipsAreHonest`, `CleanRunsComplete` | `SkippedIsUploaded`, `CleanRunIsComplete`; edits and deletions between runs, deletions clean the log, one `sds_path` | `LogInv` (a log that parses tells the truth) and `WorkInv` (what a worker knows of the server stays true) |
| | `NothingSentTwice` | `NotResent`; edits between runs | `WorkInv` |
| `Sharing_proofs` | `TypeCorrect`, `SharesSurvive` | `TypeOK`, `IndividualSurvives`; none | type correctness, and `DeletionInv`: the deletion of an item holds copies of disabled permissions only |
| | `DeletedGivesNothingEver`, `GroupsShareAlike` | `DeletedGivesNothing`, `MembersShareAlike`; the properties speak of the time before the first overlap | `AloneInv`: the request in flight holds what the tables say, and `TablesInv`: who is linked to what, row by row |
| `Datasets_proofs` | `TypeCorrect`, `StaysPublished`, `VersionsUnique` | `TypeOK`, `NeverGoesBack`, `VersionsOnce`; none | `Coherent`: a lock is held by one request, for which the row stays as it was and gets no other version (`Frozen`); what a request holds fits the tables (`Fits`) |
| | `NothingInUseDeleted`, `PublishedKept` | `LiveAssets`, `PublishedKeepsAssets`; none: the one speaks of requests that met no other, whatever overlapped before, the other excuses a detach for what was a draft when it began | `Solo`: a request that met no other finds what it read; `Coherent` |
| `Captures_proofs` | `TypeCorrect`, `PictureIsOwn`, `FailureHasCause`, `CompletionIsKept` | `TypeOK`, `OwnPicture`, `FailedForCause`, `CompletedStays` of `Visualization`; none, the properties say less of pipelines that met | `IInv`: which task works for which record (`Pipelines`), where it stores and with which status (`Aimed`, `Copied`), and that the handler's marks are on records with an excuse (`Marked`); `MInv`, for pipelines that met: results go to records of the task's kind and to none older (`Filed`, `Directed`), and nothing is marked or failed before a task raised (`Blameless`) |
| | `IndexTypes`, `LiveIsFound` | `CITypeOK`, `FoundIfLive` of `CaptureIndex`; the property leaves out captures that were crossed or hurt | `Progressing`: what row, document and copy of an untouched capture are at each step of the command and of its one request (`OneRequest`, `AllBeside`); `Readable`: what a request is to write are metadata that could be read; `IndexThere`: when it can be missing; `Renewed`: what a new index can hold |
| | `DocumentsKept` | `NothingLost`; the excuses are in the property | the same, and `CopyKept`, `SameCopy`: from the backup to the deletion of the index, the copy is one of the backups and equals the index |

None of the properties is inductive by itself: each speaks of the end of a path (a peer's
document, a mailed link, a line in the log, a request's commit), and the invariant says what must hold
on the way. Each assumption of a theorem, and each excuse in a property, is the negation of a hazard
for which it fails; section 5 names them. Assumptions on constants are named in the modules and say what the
code takes for granted: sizes are positive, bounds are numbers, there are two object stores
(`StoreAssumption`), and what stands for "none" is neither a request nor a directory (`NoneAssumption`). One assumption is
in a model itself: in `FedReplication`, `updated_at` grows in the order of the commits. Saves take it from the clock of their
process before they commit, so two that overlap may have it the other way round.

Only model-checked:

- liveness under fairness (`Converges`, `StartupEnds`, `FilesReclaimed`, `RunEnds`,
  `RunsSettle`), which is out of the prover's reach, as is anything with `ENABLED`;
- the disagreements, which are counterexamples.

No module declares a RECURSIVE operator; the provers lose arithmetic in modules that do. What a recursive
definition computes for all inputs cannot be proved with the installed back ends either, as the
library's induction theorems take an operator as a parameter.

## 5. Limits of the properties

Found while modelling; the runs' constants, the theorems' assumptions or the excuses in the properties
stay clear of them.

Federation:

- Two gateway workers on one asset: the callback that read the older row may write last, so
  a deleted dataset can stay in the owner's index as public (`DeletedIsWithdrawn`) and a stamp can
  run ahead of its body (`StampHonest`). Both happen in the runs. The properties say that it takes a save
  committed while another one's callback was running (`met`), and that the next save that meets none repairs it
  (`SettledIsCurrent`, `Converges`).
- `clean()` looks at the row, and `save()` writes all of it later (`models.py:1060-1081`): between the two the
  dataset may be published, and the outdated save puts the draft back. Its contents are then indexed and pushed.
  `DraftsStayHome` says that a draft gets out so, or beside a callback, and no other way.
- Unlinking captures changes what they export but not their `updated_at`, and peers skip the event as stale; a
  second deletion of what an outdated save brought back may find the document deleted and announces nothing. Either waits for the
  next save (`unsaid`).
- Two changes within one second: export lists cut the fraction off, so a peer that missed the second
  change keeps the first after its bootstrap. `BootstrapCatchesUp` says "to the second"; nor does a bootstrap repair a copy whose stamp
  `StampHonest` excuses.
- A starting owner whose gateway still believes the sync service to be down gets 503 for its own list, and
  goes on with what it has indexed.
- A change made after a starting owner has pulled its own list and before its subscriber exists
  (`FED/main.py:71`) is published to nobody.
- A write that OpenSearch applied but did not acknowledge leaves the cache behind the store.

Zip downloads:

- A task that runs longer than its lock (300 s against 30 min) is joined by another one even without
  the defect behind `OneAtATime`. `OneHolder` says what the lock gives all the same: of those that still have
  the lock they took, there is one.
- An error after the mail server took the link, or the time limit before the body ends, takes the file from
  the link: the user has two mails (`LinkWorks`).
- Errors of the object store that no clause names (`tasks.py:1125`) leave the record pending, and its
  file is never swept.

SDK:

- Files edited while a run is in progress (`LiveEdits`) are logged with the wrong checksum, and deletions whose answer
  or log update is lost (`Lapses`) leave a false line: both break `SkippedIsUploaded`.
- A line cut short by a crash disables resumption for that directory for good: the log no longer
  parses, and nothing rewrites it. Safe, but every file is checked again.
- Files deleted by others are not noticed by the log; the docs say so (`sdk/docs/mkdocs/common-workflows/capture-uploads.md:138-140`).
- Pages are cut from the listing of the moment: what is removed while a directory is listed hides as many
  entries, and the listing of the root is not ordered at all (`file_endpoints.py:365`). Any refusal of
  a page ends an iteration as if it were complete (`pagination.py:242`), and an exception of the HTTP library
  in the middle of a stream is none that `download` collects: it loses the results so far. Killed processes
  leave their temporary files.

Sharing, datasets:

- Requests that overlap: each reads what the other is about to change. A member added while an item is
  shared with the group may miss it; a group deleted meanwhile may stay linked and keep permissions
  enabled; an outdated copy saved whole undoes what was committed since, and so brings a draft or a deleted
  dataset back. `MembersShareAlike` and `DeletedGivesNothing` speak of the time before the first overlap, since what an
  overlap leaves in the tables stays there; `LiveAssets` of each request that met no other, whatever overlapped
  before; `IndividualSurvives`, `NeverGoesBack` and `PublishedKeepsAssets` of all, and name the
  outdated look, copy or list of the very request as the excuse.
- A deleted file can be named in the form of a new dataset, and a new version takes over what the previous one has,
  deleted or not: these two ways are in `LiveAssets`.
- Access switched off by name keeps its grounds and may be computed back on (`RevokingNeverGrants`).
- Access that the competition page gives (`special_pages.py:110`), or that a new version copies
  (`datasets.py:1746`), counts as given by name, because the rows are made without `is_individual_share`,
  whose default is True (`models.py:1351`): what a user had through a group is theirs by name in the new
  version, and stays when the group is removed or deleted.
- A version made by a co-owner copies that co-owner's own permission: owner and user are then the same, and
  `check_if_shared` refuses the deletion of the version until the permission is revoked.

Visualizations:

- Two pipelines of one capture: the error handler of one fails the records of the other, and the result
  of one is stored in the record of the other. A second request may also find no record yet and start a
  second pipeline (`visualizations/api_views.py:303`). Of pipelines that met, `OwnPicture` and `FailedForCause` promise
  less: a picture of the record's kind that is no newer than the record, or none, and no failure before a task raised.
- A launch that fails, a worker that is stopped and a task that runs before its request has committed
  leave records pending for ever.

Captures:

- What a request has written into OpenSearch is not rolled back with its row, and a replacement does not see
  requests beside it: `FoundIfLive` and `NothingLost` leave such captures out until the next successful
  replacement.
- A write after the index was deleted makes OpenSearch create one, with mappings of its own choice. The creation by
  the command then fails, and so does the restoration from the backup, whose clone finds its target there: the documents stay in the
  backup (`Restore`).
- Duplicates found when the command starts are erased one by one; the last one may be erased after the one
  kept was deleted by a request.
- A stop between the deletion of the index and the end of its reindexing leaves documents in a backup that
  nothing offers to restore (`RestoreOffered`).

Files:

- A sibling that is deleted while its contents are borrowed: the row is created all the same, with the bare checksum
  for the name of its object (`file_serializers.py:152`), which no store has; later uploads of the same contents
  find that row and share the name. `LiveFilesReadable` leaves out such rows, which need an overlap.
- Two overlapping uploads of one file leave it twice, since no constraint backs the search of the tree; posts
  from a sibling do not search it; and uploads in turn leave it twice when the form calls a file otherwise than the
  uploaded file is called. `FilesOnce` excuses these and nothing else: rows both of whose requests met another one, and
  rows called otherwise than the tree was searched for.
- A sibling whose object is only in the secondary cannot be borrowed, although it can be downloaded: its size is asked
  of the primary alone.
- The class that writes takes a secondary for configured when its key differs from the legacy one
  (`dual_object_store_storage.py:57-61`), the client that reads when endpoint, key and secret are given
  (`minio_client.py:256`). Where only the client sees it, nothing is written twice, strict or not.
- `LiveFilesReadable` rests on an operator who compares the stores before each change of settings (`Careful`), which the
  runbook asks for after mirroring but not in its "Rollback".
- A batch of the web form keeps the rows before the one that failed; the answer may be that of an error.

## 6. Not modelled

`PROJECT.json` lists each component with its reason. In short:

- of the files API, listing, retrieval and the rebuilding of directory trees for indexing, which only read;
- search, transforms, temporal filtering, rendering and signal processing: stateless;
- users, keys, mail, notifications, monitoring, federation health and federated search: a row or a
  probe at a time;
- web interface, legacy views, deployment: forms, former code and configuration.

Inside the modelled parts: authentication of webhooks (signatures, keys) is
taken as done, `FedReplication` follows one asset, `ZipDownload` one user and item type, `Sharing` one
item, `Visualization` one capture and `CaptureIndex` captures of one type; the
moment between the existence check and the opening of a served file is left out, as are the verification's
limit of 10,000 documents and the scheduling inside django-cog.

## 7. Plan

Done: all modules of section 2, each with its run, and the theorems of section 4, which state every
safety property that a run checks.

What would come next:

1. `Sharing` under `Datasets`: co-owners that come and
   go while a request runs; and the looks and saves of `Datasets` as the `Look` and `Save` of `FedReplication`.
2. An abstract specification of what a peer's copy promises over the whole pipeline, implemented by
   `FedReplication` as `VersionRegister` is by `FedIndexer`; a proof of `OneAtATime` for a lock that only its
   holder releases.
