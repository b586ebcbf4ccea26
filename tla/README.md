# A verification project for icloud-webdav

The program serves an encrypted file vault over WebDAV. Files are cut into
chunks, every chunk and every manifest is encrypted with its own key and stored
in iCloud Drive, and PostgreSQL holds the namespace, the versions and the list of
what is stored. Several gateway processes may serve one vault; Valkey leases keep
them apart. This directory models the program in TLA+, checks the models with TLC
and proves theorems about them with TLAPS.

File names below are relative to `src/src/icloud_ftp/`; `eb` is
`encryption_backend.py`.

## 1. Inventory

| Component | Code | State | Operations |
|---|---|---|---|
| Content store | `eb` 712-803, 1075-1627 | `cas_*` tables, `objects/`, `manifests/`, `keys/` in iCloud | `upload_stream`, `delete`, `rename`, `gc`, `_collect_garbage`, remote scan |
| Directory namespace | `eb` 503, 967-1009, 1296-1411 | `cas_directories` | `mkdir`, directory `delete` and `rename`, `list` |
| Reconciliation | `eb` 865-965 | `cas_missing_observations` | `_reconcile`, run by `list` |
| Download | `eb` 748-758, 1021-1069 | none | read, decrypt, check every checksum |
| Key rewrap | `eb` 1632-1752 | `cas_key_rewrap`, key capsules | add a wrap, verify, finalize |
| iCloud client | `backend.py` | node cache, session age | `list`, `stat`, `upload` by temporary name, `delete`, `rename` |
| Coordination | `coordination.py` | leases, five-minute counters, safe mode | `file_lock`, `record_change`, `safe_mode` |
| WebDAV gateway | `webdav.py` | time of the next gc check | PUT, GET, MKCOL, DELETE, MOVE, PROPFIND, scheduled gc |
| Database access | `state.py` | one connection | `transaction`, `select_current_for_update` |
| Key Broker | `keybroker.py`, `keybroker_cli.py` | request times, slots | `admit_request`, wrap, unwrap |
| CLI, configuration, SMS | `cli.py`, `config.py`, `sms_auth.py` | none that lasts | start-up |
| CNG provider, scripts, compose files | `src/providers`, `src/scripts`, `src/compose*.yaml` | none | deployment |

How they interact: a WebDAV thread takes the lease of its path (two for MOVE),
calls the backend, and counts the change. The backend holds one re-entrant lock for
the whole operation, so a gateway runs one backend operation at a time; it reads
PostgreSQL, writes iCloud, and commits. `service_actions` starts `gc_if_due`
under a lease of its own. Failed uploads and renames onto a tombstone collect
garbage too, without that lease.

What is hard:

- several gateways interleave between any two transactions or iCloud calls;
- iCloud calls fail before or after they have had their effect, and cleanups are
  allowed to fail silently;
- a process may die between two transactions, and nothing repairs what it left;
- iCloud and PostgreSQL are two stores: objects exist before their rows and
  after them, and chunks are shared between versions;
- leases are advisory: without Valkey, and when a renewal fails, the program
  goes on with PostgreSQL's checks only.

What makes the components correct:

- content store: every version the database offers can be read back; a current
  version is never lost; histories are ordered; uploads are atomic; garbage goes;
- namespace: every file has its parent directories, and a directory operation
  touches what is below it and nothing else;
- reconciliation: only files whose components stay away are hidden, and their
  history survives;
- rewrap: at every point each live capsule opens with one of the keys at hand;
- coordination: at most one holder per path, safe mode is entered when the
  limits are passed and blocks what it says;
- gateway: an answer of success means the operation took effect, and a refused
  request changes nothing;
- Key Broker: no more requests per minute and at a time than configured.

## 2. Plan

1. `Vault` with `Drive`: the content store, several gateways, failures and
   crashes, and the atomic store it implements. **Done**, with `VaultProofs` and
   `VaultHistoryProofs`.
2. `Namespace`: the directory tree with names that clash under `LIKE`, renames
   of directories over tombstones and into themselves. **Done**, with
   `NamespaceProofs`.
3. `Reconcile`, on top of `Namespace`: observations, grace, losses and listings
   that leave things out. **Done**, with `ReconcileProofs`.
4. `WebDav`, on top of `Namespace`: requests as sequences of backend calls, single
   leases that run out, safe mode. It implements `Namespace`. **Done**, with
   `WebDavProofs`.
5. `KeyBroker`: the sliding window and the slots. **Done**, with `KeyBrokerProofs`.
6. `Rewrap`, on top of `KeyBroker`: the change of the primary key, with the upload
   of `backend.py` over an existing capsule. **Done**, with `RewrapProofs`.
7. Left: directories of several gateways; the byte ranges of GET and the generation
   limit as pure algorithms against reference definitions.

`WebDav`, `Reconcile` and `Rewrap` extend the module they stand on, so that each
run of theirs also runs actions of that module.

## 3. What is modelled

### Vault

`Vault.tla` models the file operations of `EncryptedBackend` as the gateways run
them against one database and one iCloud folder. `job[g]` is the operation gateway
`g` is in, with what it has read (`base` is the row it saw, `rows` the chunks it
collected, `ids` the result of a selection); an action is one transaction or one
call on iCloud.

| Code | Model |
|---|---|
| `cas_chunks`, `cas_manifests`, `cas_manifest_chunks` | `chunks`, `manifests`, `mchunks` |
| `cas_files`, `cas_versions`, `cas_deleted` | `files`, `versions`, `deleted` |
| `cas_uploads`, `cas_upload_chunks` | `status`, `content`, `pins` |
| `objects/` and `manifests/`, `keys/` in iCloud | `objects`, `keys` |
| objects older than `orphan_grace` | `aged` |
| `upload_stream` (`eb` 1075-1294) | `Upload`: `UploadBegin` .. `CommitInsert`, `MarkFailed`, `UnpinFailed` |
| `delete`, `rename` of a file (`eb` 1307-1378) | `DeleteOrRename` |
| `gc`, `_collect_garbage`, remote scan (`eb` 1413-1627) | `Collect` |
| leases of `webdav.py` and `coordination.py` | `PathsFree`, `GcFree`, `LeasesHold` |

Decisions worth knowing:

- A fresh uuid is drawn for every stored blob, so `<<upload, plaintext>>` names a
  chunk and the upload's id names its manifest.
- A body is a set of plaintexts, read in any order: repeated chunks deduplicate in
  the same way as chunks of other files, and order matters to no property here.
- Expiry and capacity pressure remove *any* set of archived versions, which
  covers every clock and every size.
- `SELECT .. FOR UPDATE` finds a row and holds it, so the check and the commit
  are one action (`CommitReplace`); without a row it holds nothing, so they are
  two (`CommitSeesNoRow`, `CommitInsert`).
- A lease is either respected (`LeasesHold`) or, with Valkey away, absent. A
  crashed gateway's leases lapse at once; a longer lease only delays others.
- One transaction is one action, except where its statements may see different
  commits: `state.py` sets no isolation level, so PostgreSQL runs READ COMMITTED. The
  purge of a deleted path (`eb` 1437-1440) is two DELETEs. The first takes and locks
  the history there is by then (`PurgeHistory`); the second takes the tombstone there
  is by then, and the transaction commits (`PurgeTombstone`). Between the two any
  other gateway may go on, unless it meets a locked row (`Unlocked`). A gateway that
  dies in between leaves no trace.
- The expiry and the version limit of one path, a read followed by its transaction, are
  one step each.
- A name the remote scan does not know goes only if iCloud tells its time
  (`eb` 1565). `UntimedObjects` and `UntimedKeys` are names for which it does not.
- gc is not run in safe mode (`webdav.py` 86). Here it may be run or not; that it is
  run again and again is a premise of what is said about it (`GcKeepsRunning`). The
  refusals of DELETE and MOVE in safe mode are in `WebDav`.
- `_store_blob` and the deletions are modelled by what they leave behind in
  every case: done, not done, reported as failed and done all the same.
- Objects that are being stored do not age (`GraceElapses`): the grace is 24 hours
  and one blob is stored and registered in far less.
- `ICloudPyBackend.upload` may leave data under a temporary name. Such names are in
  nobody's way and are not modelled here.
- Each backend call of a MOVE that overwrites (delete, then rename) takes its
  leases anew, which allows more interleavings than the code.
- Paths are flat. The directory tree is the module `Namespace`.

Parameters: `Gateways`, `Paths`, `Ops` (how many uploads may be started, the
bound on every counter: no version exceeds the number of uploads), `Blobs`,
switches for lost leases, failing storage and crashes, the names without a time, and
the retention limits in chunks.

### Drive

`Drive.tla` is what the WebDAV layer is promised: `Put`, `PutUnchanged`,
`Delete`, `Rename` happen at once or not at all, what is replaced becomes
history, and `Forget` removes history only. Two steps allow for history that a purge
has left at a path without a tombstone: a rename onto that path joins the two
histories, and a version that is archived later may find its number taken, in which
case an earlier version is forgotten (`Supersede`). `Vault!ImplementsDrive` maps
`cas_files`, `cas_versions` and the contents of ACTIVE uploads to it; chunks,
manifests, keys, statuses, failures, crashes and collections are invisible.

### Namespace

`Namespace.tla` models what the calls of `EncryptedBackend` do to the tree, one
call per step, as `_lock` makes them for one gateway. A path is a sequence of
names; a call that raises before it has changed anything is no step.

| Code | Model |
|---|---|
| `cas_directories`, `cas_files`, `cas_versions`, `cas_deleted` | `dirs`, `files`, `versions`, `deleted` |
| `mkdir`, `delete` (`eb` 1296-1353) | `Mkdir`, `DeleteDirectory`, `DeleteFile` |
| an upload that commits (`eb` 1075-1273) | `Upload` |
| `rename` (`eb` 1355-1411) | `Rename`, `RenameFails` |
| `gc`, steps 1 to 4 (`eb` 1573-1617) | `Gc` |
| `path LIKE s || '/%'` | `Below` |

- The names have one length, and a name with an underscore matches every other.
  That is what `LIKE` does with `_`, and it makes the rewriting of a prefix by its
  length exact. Names with `%` are not modelled.
- A rename first purges the tombstone of its destination, in a transaction of its
  own, and may still fail: the source is missing, or an update meets a primary key.
  Rows are updated one by one in an order the query leaves open, so a new path
  that meets a row not moved yet may fail or not (`MayMeet`).
- Uploads that fail or change nothing leave these tables alone. Expiry and
  capacity pressure remove any versions.
- Hiding of files by reconciliation is a component of its own.

Parameters: the names and which have an underscore, the paths in use, the number
of uploads, the generation limit.

### Reconcile

`Reconcile.tla` models `_reconcile`, which `list` runs before it answers. It works
on the tables of `Namespace`. A gateway holds its lock while it reconciles; other
gateways go on, so any call may come between its steps (`Call`).

| Code | Model |
|---|---|
| `cas_missing_observations`, and its `first_seen` | `observed[p].count`, `.age` |
| `_last_reconcile` of a gateway | `since[g]` |
| the listing of the four folders (`eb` 866-884) | `ListICloud`, `ListFaulty`, `ListingFails` |
| reading `cas_files` (`eb` 886) | `ReadFiles` |
| comparing, a missing manifest row included (`eb` 887-907) | `Compare` |
| the transaction (`eb` 909-965): the paths observed before | `Begin` |
| deletes and upserts of the observations, and the confirmed ones | `Count`, with `Counted`, `LongEnough` |
| for each: the SELECT of its row (`eb` 937) | `ReadRow`, `SkipRow` |
| the INSERT of the version, the DELETE by path, the tombstone (`eb` 941-961) | `InsertVersion`, `DeleteRow`, `MarkDeleted` |
| the end of the transaction | `Commit`, with `Hide` |
| a process that starts again (`eb` 223) | `Restart` |
| components deleted in iCloud Web | `lost` |

- The transaction runs under READ COMMITTED and `list` takes no lease, so each of its
  statements is a step and other gateways commit in between. What it has written is
  kept in `listing[g]` until the commit, and the others wait for the rows it has
  deleted, the tombstones it has set and the keys of what it has archived
  (`LocksKept`).
- `UNIQUE(manifest_id)` can refuse the archive row, when the file was renamed after
  its row was read and is history of its new path by now. Then the call fails and all is rolled back (`ListingFails`).
- A call of another gateway is one step here, between any two statements; how the
  transactions of two calls interleave is the matter of `Vault`.
- A version is in iCloud or it is not: its manifest, key and chunks are checked
  together by the code and one missing name is enough.
- iCloud may leave out what it has (`ListFaulty`), for less than `MissingGrace` at
  a stretch. `outage` counts from the first such listing to the commit of one of all
  there is that leaves no other listing and no unseen observation behind (`Settles`). Without that limit nothing could be said: a
  listing that stays incomplete for longer than the grace is a loss to the code.
- A listing may show the components of an upload that is not committed yet.
- A row of the table is told apart further than the code does, for the properties
  only: which version was missing first, and whether some observation was of another
  version or of one committed after the listing (`first`, `mixed`).
- A reconciliation takes less than the unit of time.

Parameters: gateways, the interval, the number of observations, the grace; zero is
allowed for both times.

### WebDav

`WebDav.tla` models the handlers of one gateway: a thread per request and the
server's own loop for the gc. A backend call is one step of `Namespace`, since the
backend's lock makes it so. What a handler has read before, it acts on later.

| Code | Model |
|---|---|
| a thread in `do_PUT`, `do_MKCOL`, `do_DELETE`, `do_MOVE`, `service_actions` | `handler[t]`, with `pc` |
| the look at the destination of a MOVE (`webdav.py` 388) | `Look`, `found` |
| `safe_mode` (`coordination.py` 124) | `Check`, `CheckUnanswered` |
| `file_lock` (48-94) | `Lease`, `LeaseRefused`, `LeaseUnanswered`, `Release`, `ReleaseUnanswered` |
| a renewal that stops, a TTL that ends | `Lapse` |
| backend calls | `Stat`, `Drop`, `Put`, `Mkcol`, `Move`, `Collect` and their failures |
| `record_change` (96-122) | `Count`, `Judge`, `RecordUnanswered` |
| `EXPIRE`, `clear_safe_mode` | `Expire`, `ClearSafeMode` |
| a process that is killed | `Crash` |

- `record_change` is two steps: the transaction that counts, and the later read of the
  deletions with the decision.
- A lease is renewed until it lapses, so the renewal thread is no step of its own; a
  lapse may come at any moment, which covers every TTL. `held` is what the handler
  will release, `sure` what it still has.
- The keys of a MOVE are taken in one fixed order; the code sorts them.
- GET, HEAD, OPTIONS and PROPFIND change nothing here (the reconciliation they may
  start is `Reconcile`), and a request refused for its headers, its path or recovery
  mode is no step.
- A call on Valkey without an answer may have been carried out or not. A SET that was
  carried out leaves a lease that nobody releases (`Orphan`): the handler goes on without
  it, or the client library repeats the SET and is refused by its own lease, so that the
  answer is 423. `record_change` may have counted, or have turned safe mode on. A repeated
  call that counts twice is not modelled.
- `counted` stops at `ChangeLimit`, where every higher count decides alike.
- A PUT whose upload fails may collect garbage; no version goes by that, and blobs
  are not in this module.

Parameters: the requests, the paths of `Namespace`, the limits of safe mode, whether
Valkey may fail.

### KeyBroker and Rewrap

`KeyBroker.tla` is `KeyBrokerPolicy` with the threads that call it. A handler reads
the clock before it takes the lock (`Arrive`, then `Admit` or `Refuse`), so its
clock may be behind (`waited`). `times` is `_request_times`, kept as ages; `admitted`
holds the true ages and is not in the code. Providers and transports are not modelled.

`Rewrap.tla` is `rewrap-keys`, which runs while the gateway is stopped. A capsule is
the set of primary keys that open it; the recovery secret opens all.

| Code | Model |
|---|---|
| `key_name` of a live object in iCloud; temporary names | `capsule[o]`, `temporary[o]` |
| `cas_key_rewrap` with state VERIFIED | `verified` |
| the loop of `rewrap_primary_keys` (`eb` 1652-1709) | `Begin`, `Download`, `Call` .. `Answered` |
| `backend.upload` over a capsule (`backend.py` 142-180) | `UploadTemporary`, `DeleteOld`, `RenameFinal` |
| exceptions, records FAILED, a process that dies | `Refused`, `StepFails`, `Crash` |
| `--finalize` (`eb` 1710-1739) | `Finalize`, the phase "finalize", `End` |
| the operator | `Stop`, `GoOnWithOld`, `End` |

- Every call of the broker is a request of the client `Cli` in `KeyBroker`, among
  those of other clients. A call whose caller is gone is finished by the broker
  (`Abandoned`); a new run begins when it has (`Begin`).
- The command reads the rows from the database, so a run takes each live object once
  per phase (`todo`); the order is fixed, which no property depends on.
- The gateway starts with the new key after a run with `--finalize` only (`End`), and
  with the old one only while no old wrap was removed. The code checks neither; it is
  the procedure of docs/RECOVERY.md (stop the service, run both stages), and the model
  assumes an operator who keeps to it.
- Two copies under one name do not occur: the upload is the only writer.
- `rewrap-keys` lists the root first to check the login, which reconciles. That is a
  step of `Reconcile` and left out here.

## 4. What the runs show

The runs of `MCVault`: uploads, plaintexts, paths and gateways are interchangeable,
so the safety runs use symmetry; the liveness runs do not. Nor does `reconcile`; `webdav` has
it for its threads.

| Run | Instance | Shows |
|---|---|---|
| `vault_one` | 1 gateway, 2 paths, 2 uploads, 1 blob, failures, crashes | `TypeOK`; `RetainedIntact`: current and archived versions stay readable; `TombstonesMatch`; `HistoryBelowCurrent`; `LiveHistoryKept` |
| `vault_leased` | 2 leased gateways, 2 paths, 2 uploads, 1 blob | `FreshBlobsSurvive`; `TombstonesKept`; `CurrentNeverLost`; `ImplementsDrive` |
| `vault_unleased` | 2 gateways without leases, crashes | `RetainedIsActive` |
| `vault_liveness` | 1 gateway, 1 path, 1 upload, 2 blobs, failures; one chunk's body and the other's key have no time | `GarbageCollected` |
| `vault_gc_race` | 2 leased gateways, 2 uploads, 1 blob | `RetainedIntact` fails |
| `vault_no_valkey` | 2 gateways without leases | `CurrentNeverLost` fails |
| `vault_crash_leak` | 1 gateway that may crash | `GarbageCollectedAfterCrash` fails |

The runs of `MCNamespace`:

| Run | Instance | Shows |
|---|---|---|
| `namespace_tree` | 7 paths in three trees, one name with an underscore, 2 uploads | `TypeOK`; `TreeKept`; `HistoryAccounted`; `LiveKept`; `EachVersionOnce` |
| `namespace_tombstones` | 4 paths in two trees, 2 uploads | `TombstonesAreOfDeletedFiles` fails |

Three trees let a directory be renamed into the place of a second while the
underscore makes it take files of the third; two of the trees are two levels deep,
so that subdirectories move too. Two uploads make a file and a tombstone with
history at one path, or two files that would land on one.

The runs of the modules on top:

| Run | Instance | Shows |
|---|---|---|
| `reconcile` | 1 reconciling gateway among calls of others, 1 path, 2 uploads, 2 observations, grace and interval of one unit | `ReconcileTypeOK`; `IntactStays`; `ListingDropsNothing`; `LostNotServed` |
| `webdav` | 2 threads, 2 paths, PUT, MKCOL, DELETE, MOVE without overwriting, gc; Valkey may fail; 2 changes, or a share of deletions of half, are too many | `DavTypeOK`; `LeasesProtect`; `SafeModeEntered`; `SafeModeKeeps`; `GoesOnRequest` |
| `rewrap` | 2 capsules, 1 other client, 1 slot, 2 requests in 2 ticks, a delay of 1 tick | `RewrapTypeOK`; `RateHolds`; `SlotsConserved`; `OneKeyOpensAll`; `OldKeyRetired`; `CopyKept`; `RewrapResumes` |

Why the bounds of `Vault` suffice: two uploads over one or two paths give a replaced version,
a shared chunk, a failed upload next to a live one, a rename onto a tombstone and
a collection of each. Bodies of two chunks, which can be stored or listed in part, are
in `vault_liveness`, where there is one upload; crashes next to a second gateway are in
`vault_unleased`. Both are left to the theorems for the rest, which have no bound on
either. The limits keep one or two versions, so that retention really drops some.

Why those of the others do: in `reconcile`, two uploads give a file that is replaced,
or deleted and created anew, between two observations, and two observations with a
grace make either condition fail alone. One gateway reconciles there, statement by statement;
that two of them keep off each other's observations is left to the theorems. In `webdav`, two threads meet at every pair
of steps, and the limits are passed by changes and by the share of deletions. One
upload and a MOVE that does not overwrite keep it within minutes, and one path does so
for `reconcile`. So no PUT or MOVE replaces a file by another in the first, and no file
is renamed between two observations in the second; the theorems about the same
properties have none of these bounds, nor do they keep to paths of one name. In `rewrap`,
two capsules give the states in which one is wrapped and the other not; one slot and two
requests make the broker refuse for either reason.

Four statements of the documentation and the comments do not hold of the code:

- *README line 83: the grace period prevents conflicts between uploads and gc.*
  It protects objects without a row. A chunk that has a row is looked up in one
  step and pinned in a later one; a collection that selected it in between may
  delete it after the upload has verified it with `stat`. The upload commits a
  version whose chunk is gone (`vault_gc_race`).
- *README lines 60 and 69: concurrent updates are refused by `SELECT .. FOR
  UPDATE`, also without Valkey.* Two uploads that create the same path find no
  row to lock; both commit, and the first is overwritten without becoming
  history (`vault_no_valkey`).
- *`gc` collects what is unreferenced.* A crash during an upload leaves its
  record in progress and its pins in place, and no code ever looks at them
  (`vault_crash_leak`).
- *`eb` 1599: gc removes the histories of deleted files.* A directory renamed to a
  place where files of the same names were deleted before puts live files under
  their tombstones, and gc purges the history of the live ones
  (`namespace_tombstones`).

`TreeKept` excludes two kinds of rename by name (`TakesTooMuch`), because the tree
does break in them: a directory renamed into itself, which leaves its content
without a parent, and a directory whose underscore matches another's name, which
takes the other's files along and can land a file and a directory on one path. No
document speaks of either, so they are no runs of their own.

More was met in the modules on top. Most of it contradicts no document outright, so
there are no runs for it; the properties name each case as an exception and show
that there is no other:

- A MOVE deletes its destination before it has looked for its source. With no source,
  or with source and destination equal, the answer is 404 and the destination is
  gone with its history (`GoesOnRequest`).
- A MOVE that overwrites destroys the whole history of its destination: the deletion
  makes a tombstone, and the rename purges what is under the tombstone of its
  target (`eb` 1363-1367). In safe mode an overwriting MOVE is refused, but a MOVE onto
  a path that was deleted before still purges that history (`SafeModeKeeps`), though
  README lines 67 and 83 say that safe mode stops what destroys.
- A directory renamed over tombstones gives a live file a version number that its
  history may have already. A later upload or deletion then overwrites an archived
  version (`ON CONFLICT DO UPDATE`, `SafeModeKeeps`), and a reconciliation drops the
  current one (`DO NOTHING`, `ListingDropsNothing`).
- README line 71 speaks of files missing in two observations; the rows are counted by
  path, so a new file inherits the count of its predecessor (`IntactStays`).
- docs/RECOVERY.md says that a rewrap can be resumed. It can, but for an overwrite that
  was cut short between its delete and its rename: the next run finds no capsule under the
  name, fails outside the `try` that records FAILED, and so does every run after it
  (`RewrapResumes`). The copy under the temporary name, which `backend.py` calls
  recoverable, is there until a gateway runs again; its remote scan deletes
  unknown names in `keys/` after the grace (`CopyKept`).
- A purge by gc may cross a deletion, though every lease is held. Gateway A lists the
  tombstone of a path and B uploads to the path again; A's first statement takes the
  history (`eb` 1439); B's DELETE of the file commits, with a version in the history and
  a new tombstone; A's second statement takes that tombstone (`eb` 1440). The path then
  has history and neither file nor tombstone, gc does not find it again, and a later
  rename joins it to the history of the file it moves there, below or above it in number
  (`TombstonesKept` names this as the only way; `Drive` allows the rename).
- A reconciliation reads the row of a file without locking it and deletes by path
  (`eb` 937, 956). A version that another gateway commits in between is deleted, and only
  the one it replaced is history (`Replaced` in `ListingDropsNothing`).
- When the file goes in between, the row that was read is archived all the same, under a
  number that the next upload to the path may use again. If that upload is hidden too, it
  finds its number taken and is dropped (`taken` in `ListingDropsNothing`); and when the
  file was renamed and archived elsewhere, `UNIQUE(manifest_id)` makes the listing fail
  (`Refused`).
- A run of the rewrap that is begun again verifies every row anew and counts against
  the broker's rate; the broker may well refuse it halfway (`Refused`).

With two gateways `LiveHistoryKept` fails as well: `gc` purges by a list of tombstones
that may be stale, and a path uploaded again in the meantime loses its history.
`TombstonesMatch` and `HistoryBelowCurrent` fail by the crossing of a purge and a deletion
above, and `RetainedIntact` by `vault_gc_race`. These four are checked and proved for one
gateway only. `HistoryAccounted` and `EachVersionOnce` are claimed of `Namespace` and the
gateway, not of reconciliations, which break them in the ways above.

### Fairness

`FairSpec` assumes that a started operation goes on (`WF` on its steps: the server
keeps serving and every call returns), that a deletion or a sweep that is tried for ever
succeeds some day (`SF` on `DropRemote` and `Sweep`), and that time passes. Of gc nothing
is assumed: `service_actions` calls it every minute, but only with maintenance enabled and
safe mode off, and safe mode lasts until an operator clears it. `GarbageCollected` says
what holds if gc is run again and again (`GcKeepsRunning`); and it excludes the names for
which iCloud has no time, which the scan leaves alone. Nothing is assumed of clients or of
crashes; `vault_crash_leak` only assumes that crashes end.

`ReconcileFairSpec`: clients keep listing (`WF` on `ListICloud`; nothing else calls
`_reconcile`), again and again there is a moment at which no gateway is listing, and time
passes in such moments. A listing that fails or a restart takes a reconciliation back, so
it is further assumed that of those begun for ever some commit, unless the database
refuses them for ever (`Refused`).

`RewrapFairSpec`: command and broker do not stand still, served requests of others are
answered, time passes, and from some moment on nothing breaks the command and the
operator runs it with `--finalize`. `RewrapResumes` asks what the state it was left in
allows; with breaks for ever it could not get done.

`WebDav` has no liveness property: a client may always be answered 423, and Valkey or
the lapse of a lease decide when a key is free.

## 5. What is proved

`VaultProofs.tla`, for any numbers of gateways, paths, uploads and blobs, any
limits, and with failures and crashes as the switches allow:

- `TypeCorrect`: `TypeOK` is invariant. The invariant `TypeInv` adds what a job
  knows at each of its steps (`InStep`: an upload has an operation and a path,
  a deletion has read a row, a rename has two paths) and that the version numbers
  in use are bounded, without which the largest of them, and so the version of
  an upload, would not be defined (`MaxOfBounded`).
- `RetainedActive`: `RetainedIsActive` is invariant, with or without leases.
  It is not inductive: `ActiveInv` adds that the row an operation has read
  names an acknowledged upload, that running uploads have records of their own, and
  that such a record is not ACTIVE before it publishes. The steps fall into three
  kinds, each with a lemma: those that leave the records alone (`RecordsKept`),
  advance one (`RecordAdvances`), or acknowledge one (`RecordAcknowledged`).
- `CurrentKept`: if the operations are `Protected`, `CurrentNeverLost`. `LeaseInv` says
  that operations hold disjoint paths and that what a deletion or a first upload has
  read of its path is still so. `Protected` means that leases hold or that the gateway
  is `Alone`. Without it the property fails, which is what `vault_no_valkey` shows.

`VaultHistoryProofs.tla` builds on these invariants:

- `HistoryOrdered` and `TombstonesTrue`, if `Alone`: `HistoryBelowCurrent` and
  `TombstonesMatch`. They need each other and `PathsKnown`, what an operation under way
  may rely on: the version of an upload is above all of its path (`UploadKnows`); the
  target of a rename has neither history nor tombstone once it is purged (`RenameKnows`);
  a purge in its second statement has taken all the history of its path (`PurgeKnows`).
  The three together are `HistoryInv`. That a version is above all rests on the row being
  found, and so on `RetainedRegistered`.
- `TombstonesStay`, if `Protected`: `TombstonesKept`. `HeldInv` says that the row an upload
  has read is current as long as it holds its path, that the target of a rename has no
  file, and that what a rename moves is there. So nobody but a purge takes away what
  history leans on.
- `RetainedRegistered`, if `Protected`: the manifest of every retained version has its
  row, whatever is collected meanwhile. `RegInv` says that a collection has only selected
  manifests of uploads that have ended and that no version uses (`DoomedUnused`),
  that an upload's own record is in progress until it publishes (`OwnStatus`), and
  that nothing gets a manifest before it has started. So chunks may go under a reuse
  (`vault_gc_race`), but manifests do not.
- `FreshSurvive`, with or without leases: `FreshBlobsSurvive`. `FreshInv` says that no
  scan or collection has the name of what an upload has yet to store or register
  (`Fresh`): it is new (`UnusedNames`), not registered and, being stored, not aged.
- `AloneIntact`, if `Alone`: `RetainedIntact`. `LoneInv` adds what an upload has gathered
  (`Gathered`: what it holds and what is left make up the body; it is listed from the
  registration on, and stored from the verification on) and that no collection and no
  scan has selected what a retained version needs (`Spared`). With two gateways
  `Spared` fails at the reuse of a chunk, which is `vault_gc_race`.
- `LiveHistoryStays`, if `Alone`: `LiveHistoryKept`. `gc` purges by a list of
  tombstones; alone, they still are what they were (`ListKnows`).
- `VaultImplementsDrive`, if `Protected`: `ImplementsDrive`. The mapped state is
  `CurrentUpload`, `PastUploads` and `SentBody`. The commit of an upload is `Put` or
  `PutUnchanged` (`DrivePut`), the commit of a deletion `Delete`, that of a rename
  `Rename`, purges and retention are `Forget`, and all other steps stutter, because
  no record that a version needs changes (`BodiesStay`). It rests on `HeldInv`, `RegInv`
  and `KeysUnique` (an archived version has its primary key), and not on `HistoryInv`,
  which does not hold of several gateways.

Neither hypothesis is empty: `vault_leased` runs under the first and `vault_one` under the
second, with the code's own steps. Of two gateways without leases only `TypeCorrect`,
`RetainedActive` and `FreshSurvive` speak.

`NamespaceProofs.tla`, for any names, underscores, paths and limits:

- `TypeCorrect`: `TypeOK`, with the numbering of manifests and versions
  (`Numbered`) that keeps the next version defined.
- `LiveVersionsKept`: `LiveKept`. The lemma `FilesRenamed` says that a rename that
  passes the primary keys puts every file at exactly one path and every path's
  file comes from exactly one.
- `HistoryHasOwner`: `HistoryAccounted`, which is inductive together with the
  types; in a rename the history goes where `FilesRenamed` says its file goes.
- `VersionsInOnePlace`: `EachVersionOnce`, inductive with `Numbered`, which makes
  the manifest of an upload a new one.
- `TreeStays`: `TreeKept`, a property of steps. A step that starts in a tree ends in one,
  except for the renames `TakesTooMuch` names. `NothingBelow` says that nothing lies below
  a path that does not exist: the longest existing path below it would have a parent
  (`MaxOfBounded` stands in for an induction over the length). From it, a
  rename moves a subtree into a place where nothing is (`NewPathTree`, `NewPathInjective`):
  a parent that moves takes its children along (`ParentTaken`, `ChildTaken`).

`ReconcileProofs.tla`, for any gateways, intervals, graces and numbers of observations:

- `ReconcileTypeCorrect`: `ReconcileTypeOK`.
- `IntactFilesStay`: `IntactStays`. The invariant `MissingInv` says that a listing
  of all there is misses no version at rest that is not lost, that a listing that
  leaves things out is under way only within an outage below the grace (`Honest`), and
  that an observation of a version that is intact is no older than the outage
  (`Excused`). `TxInv` is about open transactions: what they have confirmed is long enough
  and stays so (`Due`), observations that have come since are of the same minute
  (`Recent`), and no two of them have an observation in common (`Apart`).
- `ListingKeepsVersions`: `ListingDropsNothing`, from the rest of `TxInv` (`Pending`): what
  a transaction has read it has archived, unless the number was taken, and for each row
  it has deleted it has read one of the same path, which is the deleted one unless
  another gateway has replaced it.

`WebDavProofs.tla`, for any threads, requests, paths and limits:

- `GatewayImplementsNamespace`: every step of the gateway is a step of `Namespace` or
  leaves its tables alone. The theorems about `Namespace` are theorems about the gateway
  by this.
- `LeasesAlwaysProtect`: `LeasesProtect` is part of `HandlerInv`, next to what a handler
  knows at each of its steps (`Fine`): which requests get where, what they found, and
  that a request that came in safe mode has nothing to delete.
- `SafeModeAlwaysEntered`: `SafeModeEntered` is not inductive. `Judged` adds that, where
  counts are too high and nobody turned safe mode off, one who is about to judge has
  counted the last change, so that it judges with the final numbers.
- `FilesGoOnRequest` and `SafeModeAlwaysKeeps`, from `HandlerInv` and what each call of
  the backend does to the tables.

`KeyBrokerProofs.tla`: `RateLimited` (`RateHolds`) by `WindowInv`: counted from the last,
every recent admission has its entry in `times`, at most the delay older
(`Recorded`), so there are no more of them than entries; `SlotsKept`; `BrokerTypeCorrect`.

`RewrapProofs.tla`: `OneKeyAlways`, `OldKeyOpensNothing` and `RewrapTypeCorrect` by
`CommandInv`, which says what is true of rows, records, capsules, the command's
local state and its phase at once: while old wraps are there, the old key opens all;
from the first removal on, every capsule has the new wrap, for the command got there by
going through all rows. `CopiesKept` rests on the part about writing: what is about to
take the place of a capsule is safe under its temporary name before that is deleted.

`BoundedMax.tla` holds the lemmas about the largest version number.

The assumptions are the named ones of the modules: for `Namespace`, that names
with an underscore are names, that paths are non-empty sequences of names and that
the limits are numbers; for `Vault`, that `None` is no upload, blob or path, that
the switches are Booleans and that the limits are numbers; for the others, that
limits are numbers (those of the broker, of safe mode and the observations positive),
that requests are requests, and that the values for nobody and nothing are
no thread and no object. No set of gateways, threads, clients or objects has to be finite.

Every safety invariant and action property of the passing runs, and the refinement, has
its theorem. Only model-checked is liveness (`GarbageCollected`, `LostNotServed`,
`RewrapResumes`): it needs `ENABLED` of fair actions and well-founded arguments over the
data, which are out of this prover's reach.

## 6. What is not modelled

- Directory operations of several gateways: `Vault` has several gateways with flat
  paths, `Namespace` the tree with one.
- What only reads: GET with its ranges, HEAD, OPTIONS, PROPFIND, `download`. Authentication
  and the parsing of requests.
- The cache of nodes and the refresh of the session in `backend.py`: they rest on
  what icloudpy caches, which is not in the repository. A cached listing shows less or
  more than iCloud has, as `ListFaulty` does.
- The providers and transports of the Key Broker.
- Cryptography: envelopes, capsules and checksums are taken to do their work; a
  download's checks are implied by `RetainedIntact` and no step of their own.
- The import of a legacy database and format version 1 manifests, run once at
  start-up.
- SQLite mode, used by tests only, and the PostgreSQL connection that is not
  reopened once it is lost.
- CLI, configuration, SMS prompts, the Windows CNG provider, scripts and compose
  files: no concurrency and no state of the running system.
