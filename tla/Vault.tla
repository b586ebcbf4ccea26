-------------------------------- MODULE Vault --------------------------------
(***************************************************************************)
(* The content-addressed store of EncryptedBackend (encryption_backend.py):*)
(* file uploads, deletes, renames and garbage collection, as several       *)
(* gateway processes run them against one PostgreSQL database and one      *)
(* iCloud Drive folder.                                                    *)
(*                                                                         *)
(* A gateway holds EncryptedBackend._lock for the whole of an operation,   *)
(* so it runs one operation at a time: job[g] is the operation gateway g   *)
(* is in the middle of, with the rows it has read so far.  An action is    *)
(* one PostgreSQL transaction or one call on iCloud; every interleaving    *)
(* of the gateways, and a crash of a gateway, falls between two actions.   *)
(* The transactions run under READ COMMITTED, so one whose statements need *)
(* not see the same rows is several actions, the last of which commits.    *)
(*                                                                         *)
(* Paths are flat here: the directory tree is a matter of its own.         *)
(***************************************************************************)
EXTENDS Naturals, FiniteSets, FiniteSetsExt

CONSTANTS
    Gateways,        \* processes serving the same vault
    Paths,           \* file paths
    Ops,             \* cas_uploads ids; an id also names the manifest it makes
    Blobs,           \* chunk plaintexts
    None,            \* SQL NULL
    LeasesHold,      \* TRUE: Valkey serves the leases and none lapses in use
    StorageFails,    \* TRUE: a call on iCloud may fail, with or without effect
    Crashes,         \* TRUE: a gateway may stop at any point and lose its job
    UntimedObjects,  \* names in objects/ and manifests/ iCloud gives no time for
    UntimedKeys,     \* and names in keys/
    MediumThreshold, LargeThreshold,             \* file sizes, in chunks
    SmallVersions, MediumVersions, LargeVersions \* versions to keep, current too

ASSUME NoneIsNoValue == None \notin Ops \cup Blobs \cup Paths
ASSUME SwitchesAreBooleans == {LeasesHold, StorageFails, Crashes} \subseteq BOOLEAN
ASSUME LimitsAreNumbers ==
    {MediumThreshold, LargeThreshold, SmallVersions, MediumVersions, LargeVersions}
        \subseteq Nat

VARIABLES
    chunks,     \* cas_chunks: ids of the chunk rows
    manifests,  \* cas_manifests: ids of the manifest rows
    mchunks,    \* cas_manifest_chunks: the chunks a manifest lists
    files,      \* cas_files: the current manifest and version of a path
    versions,   \* cas_versions: archived [path, version, manifest]
    deleted,    \* cas_deleted: tombstoned paths
    status,     \* cas_uploads.status, "NONE" while the id is unused
    content,    \* cas_uploads.size and checksums: the chunks the client sends
    pins,       \* cas_upload_chunks
    objects,    \* names present in objects/ and manifests/ of the iCloud vault
    keys,       \* names present in keys/
    aged,       \* names older than orphan_grace
    job         \* the operation each gateway is running

dbVars == <<chunks, manifests, mchunks, files, versions, deleted, status, content, pins>>
cloudVars == <<objects, keys, aged>>
vars == <<dbVars, cloudVars, job>>

---------------------------------------------------------------------------
(* Identifiers and rows.  A fresh uuid is drawn for every blob that is     *)
(* stored, so the upload and the plaintext determine it.                   *)

ChunkIds == Ops \X Blobs
ManifestId(o) == <<o, None>>
ManifestIds == Ops \X {None}
ObjectIds == ChunkIds \cup ManifestIds
Plaintext(c) == c[2]

NoObject == <<None, None>>
NoRow == [manifest |-> None, version |-> 0]
Row == {NoRow} \cup [manifest : Ops, version : Nat]
Version == [path : Paths, version : Nat, manifest : Ops]

InProgress == {"PENDING", "UPLOADING", "VERIFYING"}
Status == {"NONE", "ACTIVE", "FAILED"} \cup InProgress

Pc == {"idle", "down", "pending", "chunks", "putObject", "putKey", "insertChunk", "pin",
       "unpin", "register", "verify", "commit", "insert", "fail", "unpinFailed",
       "delete", "purgeTarget", "purgeTargetEnd", "readSource", "move",
       "limit", "purge", "purgeEnd",
       "collect", "dropManifests", "dropChunks", "dropRow", "scan", "sweep"}

\* An open transaction of _purge_deleted_path: its path and the history it deletes.
Purge == [path : Paths \cup {None}, rows : SUBSET Version]
NoPurge == [path |-> None, rows |-> {}]

Job == [pc : Pc, op : Ops \cup {None}, path : Paths \cup {None}, dst : Paths \cup {None},
        base : Row, version : Nat, left : SUBSET Blobs, rows : SUBSET ChunkIds,
        cur : ObjectIds \cup {NoObject}, todo : SUBSET Paths,
        ids : SUBSET ObjectIds, purge : Purge, next : Pc]

IdleJob == [pc |-> "idle", op |-> None, path |-> None, dst |-> None,
            base |-> NoRow, version |-> 0, left |-> {}, rows |-> {},
            cur |-> NoObject, todo |-> {}, ids |-> {}, purge |-> NoPurge, next |-> "idle"]

\* The job of g moves on; the other gateways' jobs are what they were.
Become(g, j) == job' = [job EXCEPT ![g] = j]
Goto(g, pc) == Become(g, [job[g] EXCEPT !.pc = pc])
Finish(g) == Become(g, IdleJob)

---------------------------------------------------------------------------
(* Queries.                                                                *)

\* _file_row joins cas_manifests: a row whose manifest row is gone is not found.
FileRow(p) == IF files[p].manifest \in manifests THEN files[p] ELSE NoRow

HistoryOf(p) == {r \in versions : r.path = p}

\* A faulty variant: a path without a file starts again at version 1.
NextVersionForgetsHistory(p) ==
    IF FileRow(p) # NoRow THEN FileRow(p).version + 1 ELSE 1

\* The version an upload to p will get.
NextVersion(p) ==
    IF FileRow(p) # NoRow
    THEN FileRow(p).version + 1
    ELSE Max({0} \cup {r.version : r \in HistoryOf(p)}) + 1

ContentOf(m) == content[m]

Current == {files[p].manifest : p \in Paths} \ {None}
Archived == {r.manifest : r \in versions}
Retained == Current \cup Archived

Registered == chunks \cup {ManifestId(m) : m \in manifests}

\* INSERT INTO cas_versions .. ON CONFLICT(path, version) DO UPDATE, which
\* UNIQUE(manifest_id) can still refuse.
Archive(p, row) ==
    {r \in versions : ~(r.path = p /\ r.version = row.version)}
        \cup {[path |-> p, version |-> row.version, manifest |-> row.manifest]}
Archivable(p, row) ==
    \A r \in versions : r.manifest = row.manifest => r.path = p /\ r.version = row.version

\* A statement that meets a row another transaction has deleted waits for its end.
Unlocked(g, rows) == \A h \in Gateways \ {g} : job[h].purge.rows \cap rows = {}

\* The rows the INSERT of Archive meets.
ArchiveMeets(p, row) ==
    {r \in versions : r.manifest = row.manifest \/ (r.path = p /\ r.version = row.version)}

\* _version_limit: the number of versions kept for a file of n chunks.
VersionLimit(n) ==
    IF n < MediumThreshold THEN SmallVersions
    ELSE IF n <= LargeThreshold THEN MediumVersions ELSE LargeVersions

\* The archived versions of p beyond its limit, which counts the current one.
Excess(p) ==
    {r \in HistoryOf(p) :
        Cardinality({q \in HistoryOf(p) : q.version > r.version})
            + 1 >= VersionLimit(Cardinality(ContentOf(files[p].manifest)))}

UnusedManifests ==
    {ManifestId(m) : m \in {n \in manifests : n \notin Retained /\ status[n] \notin InProgress}}

UnusedChunks ==
    {c \in chunks : /\ \A m \in manifests : c \notin mchunks[m]
                    /\ \A o \in Ops : c \notin pins[o]}

\* What stat must find in iCloud for manifest m listing the chunks cs.
Components(m, cs) == {ManifestId(m)} \cup cs
Present(ids) == ids \subseteq objects /\ ids \subseteq keys

---------------------------------------------------------------------------
(* Valkey leases (webdav.py takes them around every backend call).  The    *)
(* lease of a crashed gateway is taken to lapse at once.                   *)

PathsHeld(g) == {job[g].path, job[g].dst} \ {None}
PathsFree(g, ps) == LeasesHold => \A h \in Gateways \ {g} : PathsHeld(h) \cap ps = {}
GcFree(g) == LeasesHold => \A h \in Gateways \ {g} : job[h].next # "scan"

---------------------------------------------------------------------------
Init ==
    /\ chunks = {}
    /\ manifests = {}
    /\ mchunks = [o \in Ops |-> {}]
    /\ files = [p \in Paths |-> NoRow]
    /\ versions = {}
    /\ deleted = {}
    /\ status = [o \in Ops |-> "NONE"]
    /\ content = [o \in Ops |-> {}]
    /\ pins = [o \in Ops |-> {}]
    /\ objects = {}
    /\ keys = {}
    /\ aged = {}
    /\ job = [g \in Gateways |-> IdleJob]

---------------------------------------------------------------------------
(* upload_stream                                                           *)

\* Read the current row and the next version, insert the PENDING record.
UploadBegin(g, o, p, body) ==
    /\ job[g] = IdleJob
    /\ status[o] = "NONE"
    /\ PathsFree(g, {p})
    /\ status' = [status EXCEPT ![o] = "PENDING"]
    /\ content' = [content EXCEPT ![o] = body]
    /\ Become(g, [IdleJob EXCEPT !.pc = "pending", !.op = o, !.path = p, !.base = FileRow(p),
                                !.version = NextVersion(p), !.left = body])
    /\ UNCHANGED <<chunks, manifests, mchunks, files, versions, deleted, pins, cloudVars>>

UploadStart(g) ==
    /\ job[g].pc = "pending"
    /\ status' = [status EXCEPT ![job[g].op] = "UPLOADING"]
    /\ Goto(g, "chunks")
    /\ UNCHANGED <<chunks, manifests, mchunks, files, versions, deleted, content, pins, cloudVars>>

\* Read the next chunk of the body: reuse the row with its checksums, or store it.
ReadChunk(g) ==
    /\ job[g].pc = "chunks"
    /\ \E b \in job[g].left :
          \/ \E c \in chunks :
                /\ Plaintext(c) = b
                /\ Become(g, [job[g] EXCEPT !.cur = c, !.pc = "pin"])
          \/ /\ \A c \in chunks : Plaintext(c) # b
             /\ Become(g, [job[g] EXCEPT !.cur = <<job[g].op, b>>, !.pc = "putObject"])
    /\ UNCHANGED <<dbVars, cloudVars>>

\* The client sent fewer bytes than it announced.
BodyEndsEarly(g) ==
    /\ job[g].pc = "chunks"
    /\ job[g].left # {}
    /\ Goto(g, "fail")
    /\ UNCHANGED <<dbVars, cloudVars>>

\* _store_blob: the encrypted body first, then the key capsule.
PutObject(g) ==
    /\ job[g].pc = "putObject"
    /\ objects' = objects \cup {job[g].cur}
    /\ Goto(g, "putKey")
    /\ UNCHANGED <<dbVars, keys, aged>>

\* A failed call may have stored the body; uploaded_object is False, so the
\* handler removes only the key, which is not there.
PutObjectFails(g) ==
    /\ StorageFails
    /\ job[g].pc = "putObject"
    /\ objects' \in {objects, objects \cup {job[g].cur}}
    /\ Goto(g, "fail")
    /\ UNCHANGED <<dbVars, keys, aged>>

PutKey(g) ==
    /\ job[g].pc = "putKey"
    /\ keys' = keys \cup {job[g].cur}
    /\ Goto(g, IF job[g].cur = ManifestId(job[g].op) THEN "register" ELSE "insertChunk")
    /\ UNCHANGED <<dbVars, objects, aged>>

\* The handler deletes the body and the key, and ignores a deletion that fails.
PutKeyFails(g) ==
    /\ StorageFails
    /\ job[g].pc = "putKey"
    /\ objects' \in {objects, objects \ {job[g].cur}}
    /\ keys' \in {keys, keys \cup {job[g].cur}}
    /\ Goto(g, "fail")
    /\ UNCHANGED <<dbVars, aged>>

\* INSERT INTO cas_chunks; UNIQUE(size, sha256, sha512) refuses a second row of
\* the same plaintext and the stored blob stays behind.
InsertChunk(g) ==
    /\ job[g].pc = "insertChunk"
    /\ \A c \in chunks : Plaintext(c) # Plaintext(job[g].cur)
    /\ chunks' = chunks \cup {job[g].cur}
    /\ Goto(g, "pin")
    /\ UNCHANGED <<manifests, mchunks, files, versions, deleted, status, content, pins, cloudVars>>

InsertChunkRefused(g) ==
    /\ job[g].pc = "insertChunk"
    /\ \E c \in chunks : Plaintext(c) = Plaintext(job[g].cur)
    /\ Goto(g, "fail")
    /\ UNCHANGED <<dbVars, cloudVars>>

\* INSERT INTO cas_upload_chunks, in a transaction of its own.
PinChunk(g) ==
    /\ job[g].pc = "pin"
    /\ pins' = [pins EXCEPT ![job[g].op] = @ \cup {job[g].cur}]
    /\ Become(g, [job[g] EXCEPT !.pc = "chunks", !.cur = NoObject,
                                !.rows = @ \cup {job[g].cur},
                                !.left = @ \ {Plaintext(job[g].cur)}])
    /\ UNCHANGED <<chunks, manifests, mchunks, files, versions, deleted, status, content, cloudVars>>

SameAsBase(g) ==
    /\ job[g].base.manifest # None
    /\ ContentOf(job[g].base.manifest) = content[job[g].op]

\* The whole-file checksums match the current version: nothing to store.
FinishUnchanged(g) ==
    /\ job[g].pc = "chunks"
    /\ job[g].left = {}
    /\ SameAsBase(g)
    /\ status' = [status EXCEPT ![job[g].op] = "ACTIVE"]
    /\ Goto(g, "unpin")
    /\ UNCHANGED <<chunks, manifests, mchunks, files, versions, deleted, content, pins, cloudVars>>

UnpinUnchanged(g) ==
    /\ job[g].pc = "unpin"
    /\ pins' = [pins EXCEPT ![job[g].op] = {}]
    /\ Finish(g)
    /\ UNCHANGED <<chunks, manifests, mchunks, files, versions, deleted, status, content, cloudVars>>

\* All chunks are in place: store the manifest the same way.
StoreManifest(g) ==
    /\ job[g].pc = "chunks"
    /\ job[g].left = {}
    /\ ~SameAsBase(g)
    /\ Become(g, [job[g] EXCEPT !.cur = ManifestId(job[g].op), !.pc = "putObject"])
    /\ UNCHANGED <<dbVars, cloudVars>>

\* One transaction: the manifest row, its chunk list, status VERIFYING.
RegisterManifest(g) ==
    /\ job[g].pc = "register"
    /\ manifests' = manifests \cup {job[g].op}
    /\ mchunks' = [mchunks EXCEPT ![job[g].op] = job[g].rows]
    /\ status' = [status EXCEPT ![job[g].op] = "VERIFYING"]
    /\ Become(g, [job[g] EXCEPT !.pc = "verify", !.cur = NoObject])
    /\ UNCHANGED <<chunks, files, versions, deleted, content, pins, cloudVars>>

\* A faulty variant: only the manifest is looked for.
VerifyManifestOnly(g) ==
    /\ job[g].pc = "verify"
    /\ Present({ManifestId(job[g].op)})
    /\ Goto(g, "commit")
    /\ UNCHANGED <<dbVars, cloudVars>>

\* stat every component in iCloud.
Verify(g) ==
    /\ job[g].pc = "verify"
    /\ Present(Components(job[g].op, job[g].rows))
    /\ Goto(g, "commit")
    /\ UNCHANGED <<dbVars, cloudVars>>

VerifyFails(g) ==
    /\ job[g].pc = "verify"
    /\ StorageFails \/ ~Present(Components(job[g].op, job[g].rows))
    /\ Goto(g, "fail")
    /\ UNCHANGED <<dbVars, cloudVars>>

\* Faulty variants: what is replaced is forgotten, or archived even if there was
\* nothing.
BaseForgotten(j) == versions
BaseArchivedBlindly(j) == Archive(j.path, j.base)

\* The history once the row an upload replaces is in it.
BaseArchived(j) == IF j.base = NoRow THEN versions ELSE Archive(j.path, j.base)

\* A faulty variant: the tombstone of the path stays.
PublishKeepsTombstone(g) ==
    LET j == job[g] IN
    /\ versions' = BaseArchived(j)
    /\ files' = [files EXCEPT ![j.path] = [manifest |-> j.op, version |-> j.version]]
    /\ status' = [status EXCEPT ![j.op] = "ACTIVE"]
    /\ pins' = [pins EXCEPT ![j.op] = {}]
    /\ Finish(g)
    /\ UNCHANGED <<chunks, manifests, mchunks, deleted, content, cloudVars>>

\* A faulty variant: an error after the commit is handled like one before it.
PublishThenFails(g) ==
    LET j == job[g] IN
    /\ versions' = BaseArchived(j)
    /\ files' = [files EXCEPT ![j.path] = [manifest |-> j.op, version |-> j.version]]
    /\ deleted' = deleted \ {j.path}
    /\ status' = [status EXCEPT ![j.op] = "ACTIVE"]
    /\ pins' = [pins EXCEPT ![j.op] = {}]
    /\ Goto(g, "fail")
    /\ UNCHANGED <<chunks, manifests, mchunks, content, cloudVars>>

\* The part of the commit transaction that writes.
Publish(g) ==
    LET j == job[g] IN
    /\ versions' = BaseArchived(j)
    /\ files' = [files EXCEPT ![j.path] = [manifest |-> j.op, version |-> j.version]]
    /\ deleted' = deleted \ {j.path}
    /\ status' = [status EXCEPT ![j.op] = "ACTIVE"]
    /\ pins' = [pins EXCEPT ![j.op] = {}]
    /\ Finish(g)
    /\ UNCHANGED <<chunks, manifests, mchunks, content, cloudVars>>

\* SELECT .. FOR UPDATE finds the row read at the start and holds it until the
\* transaction ends.
CommitReplace(g) ==
    /\ job[g].pc = "commit"
    /\ job[g].base # NoRow
    /\ files[job[g].path].manifest = job[g].base.manifest
    /\ Unlocked(g, ArchiveMeets(job[g].path, job[g].base))
    /\ Archivable(job[g].path, job[g].base)
    /\ Publish(g)

\* With no row there is nothing to lock: the check and the upsert are two steps.
CommitSeesNoRow(g) ==
    /\ job[g].pc = "commit"
    /\ job[g].base = NoRow
    /\ files[job[g].path] = NoRow
    /\ Goto(g, "insert")
    /\ UNCHANGED <<dbVars, cloudVars>>

CommitInsert(g) ==
    /\ job[g].pc = "insert"
    /\ Publish(g)

\* Another manifest is current, or the archive row is refused.
CommitRefused(g) ==
    /\ job[g].pc = "commit"
    /\ \/ files[job[g].path].manifest # job[g].base.manifest
       \/ /\ job[g].base # NoRow
          /\ Unlocked(g, ArchiveMeets(job[g].path, job[g].base))
          /\ ~Archivable(job[g].path, job[g].base)
    /\ Goto(g, "fail")
    /\ UNCHANGED <<dbVars, cloudVars>>

\* The exception handler: FAILED, unpin, collect without the remote scan.
MarkFailed(g) ==
    /\ job[g].pc = "fail"
    /\ status' = [status EXCEPT ![job[g].op] = "FAILED"]
    /\ Goto(g, "unpinFailed")
    /\ UNCHANGED <<chunks, manifests, mchunks, files, versions, deleted, content, pins, cloudVars>>

\* A faulty variant: the handler forgets the pins.
UnpinFailedKeepsPins(g) ==
    /\ job[g].pc = "unpinFailed"
    /\ Become(g, [IdleJob EXCEPT !.pc = "collect", !.path = job[g].path])
    /\ UNCHANGED <<dbVars, cloudVars>>

UnpinFailed(g) ==
    /\ job[g].pc = "unpinFailed"
    /\ pins' = [pins EXCEPT ![job[g].op] = {}]
    /\ Become(g, [IdleJob EXCEPT !.pc = "collect", !.path = job[g].path])
    /\ UNCHANGED <<chunks, manifests, mchunks, files, versions, deleted, status, content, cloudVars>>

Upload(g) ==
    \/ \E o \in Ops, p \in Paths, body \in SUBSET Blobs : UploadBegin(g, o, p, body)
    \/ UploadStart(g)
    \/ ReadChunk(g)
    \/ BodyEndsEarly(g)
    \/ PutObject(g)
    \/ PutObjectFails(g)
    \/ PutKey(g)
    \/ PutKeyFails(g)
    \/ InsertChunk(g)
    \/ InsertChunkRefused(g)
    \/ PinChunk(g)
    \/ FinishUnchanged(g)
    \/ UnpinUnchanged(g)
    \/ StoreManifest(g)
    \/ RegisterManifest(g)
    \/ Verify(g)
    \/ VerifyFails(g)
    \/ CommitReplace(g)
    \/ CommitSeesNoRow(g)
    \/ CommitInsert(g)
    \/ CommitRefused(g)
    \/ MarkFailed(g)
    \/ UnpinFailed(g)

---------------------------------------------------------------------------
(* delete and rename of a file                                             *)

DeleteBegin(g, p) ==
    /\ job[g] = IdleJob
    /\ FileRow(p) # NoRow
    /\ PathsFree(g, {p})
    /\ Become(g, [IdleJob EXCEPT !.pc = "delete", !.path = p, !.base = FileRow(p)])
    /\ UNCHANGED <<dbVars, cloudVars>>

\* Archive the row that was read, drop whatever row is there now.
DeleteCommit(g) ==
    LET j == job[g] IN
    /\ j.pc = "delete"
    /\ Unlocked(g, ArchiveMeets(j.path, j.base))
    /\ Archivable(j.path, j.base)
    /\ versions' = Archive(j.path, j.base)
    /\ files' = [files EXCEPT ![j.path] = NoRow]
    /\ deleted' = deleted \cup {j.path}
    /\ Finish(g)
    /\ UNCHANGED <<chunks, manifests, mchunks, status, content, pins, cloudVars>>

DeleteRefused(g) ==
    /\ job[g].pc = "delete"
    /\ Unlocked(g, ArchiveMeets(job[g].path, job[g].base))
    /\ ~Archivable(job[g].path, job[g].base)
    /\ Finish(g)
    /\ UNCHANGED <<dbVars, cloudVars>>

\* The target must not exist; a tombstone of the target is purged with its history.
RenameBegin(g, s, d) ==
    /\ job[g] = IdleJob
    /\ FileRow(d) = NoRow
    /\ PathsFree(g, {s, d})
    /\ Become(g, [IdleJob EXCEPT !.pc = IF d \in deleted THEN "purgeTarget" ELSE "readSource",
                                  !.path = s, !.dst = d])
    /\ UNCHANGED <<dbVars, cloudVars>>

\* The first statement of _purge_deleted_path: it takes the history that is committed
\* by now and locks it; the others see it until the transaction commits.
PurgeHistory(g, p, pc) ==
    /\ Unlocked(g, HistoryOf(p))
    /\ Become(g, [job[g] EXCEPT !.pc = pc, !.purge = [path |-> p, rows |-> HistoryOf(p)]])
    /\ UNCHANGED <<dbVars, cloudVars>>

\* The second statement takes the tombstone that is there by now; the commit.
PurgeTombstone(g) ==
    /\ versions' = versions \ job[g].purge.rows
    /\ deleted' = deleted \ {job[g].purge.path}
    /\ UNCHANGED <<chunks, manifests, mchunks, files, status, content, pins, cloudVars>>

PurgeTarget(g) ==
    /\ job[g].pc = "purgeTarget"
    /\ PurgeHistory(g, job[g].dst, "purgeTargetEnd")

PurgeTargetEnd(g) ==
    /\ job[g].pc = "purgeTargetEnd"
    /\ PurgeTombstone(g)
    /\ Become(g, [job[g] EXCEPT !.pc = "collect", !.next = "readSource", !.purge = NoPurge])

ReadSource(g) ==
    /\ job[g].pc = "readSource"
    /\ FileRow(job[g].path) # NoRow
    /\ Goto(g, "move")
    /\ UNCHANGED <<dbVars, cloudVars>>

SourceNotFound(g) ==
    /\ job[g].pc = "readSource"
    /\ FileRow(job[g].path) = NoRow
    /\ Finish(g)
    /\ UNCHANGED <<dbVars, cloudVars>>

\* The versions of d in the way of a version of s.
Clashes(s, d) == {q \in HistoryOf(d) : \E r \in HistoryOf(s) : r.version = q.version}

\* The two UPDATEs of the rename transaction, and the primary keys they obey.
MoveAllowed(s, d) ==
    s # d => /\ files[s] # NoRow => files[d] = NoRow
             /\ Clashes(s, d) = {}

\* A faulty variant: the history stays at the old path.
MoveFileOnly(g) ==
    LET s == job[g].path
        d == job[g].dst
    IN /\ job[g].pc = "move"
       /\ Unlocked(g, HistoryOf(s) \cup Clashes(s, d))
       /\ MoveAllowed(s, d)
       /\ files' = IF files[s] = NoRow THEN files
                   ELSE [files EXCEPT ![s] = NoRow, ![d] = files[s]]
       /\ Finish(g)
       /\ UNCHANGED <<chunks, manifests, mchunks, versions, deleted, status, content, pins,
                      cloudVars>>

Move(g) ==
    LET s == job[g].path
        d == job[g].dst
    IN /\ job[g].pc = "move"
       /\ Unlocked(g, HistoryOf(s) \cup Clashes(s, d))
       /\ MoveAllowed(s, d)
       /\ files' = IF files[s] = NoRow THEN files
                   ELSE [files EXCEPT ![s] = NoRow, ![d] = files[s]]
       /\ versions' = (versions \ HistoryOf(s)) \cup {[r EXCEPT !.path = d] : r \in HistoryOf(s)}
       /\ Finish(g)
       /\ UNCHANGED <<chunks, manifests, mchunks, deleted, status, content, pins, cloudVars>>

MoveRefused(g) ==
    /\ job[g].pc = "move"
    /\ Unlocked(g, HistoryOf(job[g].path) \cup Clashes(job[g].path, job[g].dst))
    /\ ~MoveAllowed(job[g].path, job[g].dst)
    /\ Finish(g)
    /\ UNCHANGED <<dbVars, cloudVars>>

DeleteOrRename(g) ==
    \/ \E p \in Paths : DeleteBegin(g, p)
    \/ DeleteCommit(g)
    \/ DeleteRefused(g)
    \/ \E s, d \in Paths : RenameBegin(g, s, d)
    \/ PurgeTarget(g)
    \/ PurgeTargetEnd(g)
    \/ ReadSource(g)
    \/ SourceNotFound(g)
    \/ Move(g)
    \/ MoveRefused(g)

---------------------------------------------------------------------------
(* gc: retention                                                           *)

\* Expired history goes, whatever time has passed since it was archived.
GcBegin(g) ==
    /\ job[g] = IdleJob
    /\ GcFree(g)
    /\ \E expired \in SUBSET versions : Unlocked(g, expired) /\ versions' = versions \ expired
    /\ Become(g, [IdleJob EXCEPT !.pc = "limit", !.next = "scan",
                                  !.todo = {p \in Paths : files[p] # NoRow}])
    /\ UNCHANGED <<chunks, manifests, mchunks, files, deleted, status, content, pins, cloudVars>>

\* _apply_retention_for_path
GcLimit(g, p) ==
    /\ job[g].pc = "limit"
    /\ p \in job[g].todo
    /\ \/ FileRow(p) = NoRow /\ versions' = versions
       \/ FileRow(p) # NoRow /\ Unlocked(g, Excess(p)) /\ versions' = versions \ Excess(p)
    /\ Become(g, [job[g] EXCEPT !.todo = @ \ {p}])
    /\ UNCHANGED <<chunks, manifests, mchunks, files, deleted, status, content, pins, cloudVars>>

\* SELECT path FROM cas_deleted
GcListDeleted(g) ==
    /\ job[g].pc = "limit"
    /\ job[g].todo = {}
    /\ Become(g, [job[g] EXCEPT !.pc = "purge", !.todo = deleted])
    /\ UNCHANGED <<dbVars, cloudVars>>

GcPurge(g, p) ==
    /\ job[g].pc = "purge"
    /\ p \in job[g].todo
    /\ PurgeHistory(g, p, "purgeEnd")

GcPurgeEnd(g) ==
    /\ job[g].pc = "purgeEnd"
    /\ PurgeTombstone(g)
    /\ Become(g, [job[g] EXCEPT !.pc = "purge", !.todo = @ \ {job[g].purge.path},
                                !.purge = NoPurge])

\* Capacity pressure deletes archived versions only, as many as it takes.
GcCapacity(g) ==
    /\ job[g].pc = "purge"
    /\ job[g].todo = {}
    /\ \E oldest \in SUBSET versions : Unlocked(g, oldest) /\ versions' = versions \ oldest
    /\ Goto(g, "collect")
    /\ UNCHANGED <<chunks, manifests, mchunks, files, deleted, status, content, pins, cloudVars>>

---------------------------------------------------------------------------
(* _collect_garbage, run by gc, by a failed upload and by rename           *)

SelectManifests(g) ==
    /\ job[g].pc = "collect"
    /\ Become(g, [job[g] EXCEPT !.pc = "dropManifests", !.ids = UnusedManifests])
    /\ UNCHANGED <<dbVars, cloudVars>>

SelectChunks(g) ==
    /\ job[g].pc = "dropManifests"
    /\ job[g].ids = {}
    /\ Become(g, [job[g] EXCEPT !.pc = "dropChunks", !.ids = UnusedChunks])
    /\ UNCHANGED <<dbVars, cloudVars>>

\* _delete_remote_manifest, _delete_remote_chunk: body, then key; a missing
\* name is no failure.
DropRemote(g, i) ==
    /\ job[g].pc \in {"dropManifests", "dropChunks"}
    /\ i \in job[g].ids
    /\ objects' = objects \ {i}
    /\ keys' = keys \ {i}
    /\ Become(g, [job[g] EXCEPT !.pc = "dropRow", !.cur = i])
    /\ UNCHANGED <<dbVars, aged>>

\* A failed deletion leaves the row for a later collection.  The key is tried
\* only once the body is gone, and either call may have worked all the same.
DropRemoteFails(g, i) ==
    /\ StorageFails
    /\ job[g].pc \in {"dropManifests", "dropChunks"}
    /\ i \in job[g].ids
    /\ \/ objects' \in {objects, objects \ {i}} /\ keys' = keys
       \/ objects' = objects \ {i} /\ keys' = keys \ {i}
    /\ Become(g, [job[g] EXCEPT !.ids = @ \ {i}])
    /\ UNCHANGED <<dbVars, aged>>

DropRow(g) ==
    LET i == job[g].cur IN
    /\ job[g].pc = "dropRow"
    /\ \/ /\ i \in ManifestIds
          /\ manifests' = manifests \ {i[1]}
          /\ mchunks' = [mchunks EXCEPT ![i[1]] = {}]
          /\ chunks' = chunks
          /\ Become(g, [job[g] EXCEPT !.pc = "dropManifests", !.cur = NoObject, !.ids = @ \ {i}])
       \/ /\ i \in ChunkIds
          /\ chunks' = chunks \ {i}
          /\ UNCHANGED <<manifests, mchunks>>
          /\ Become(g, [job[g] EXCEPT !.pc = "dropChunks", !.cur = NoObject, !.ids = @ \ {i}])
    /\ UNCHANGED <<files, versions, deleted, status, content, pins, cloudVars>>

\* Back to the caller: scan (gc), read the source (rename), or done (upload).
CollectDone(g) ==
    /\ job[g].pc = "dropChunks"
    /\ job[g].ids = {}
    /\ IF job[g].next = "idle" THEN Finish(g) ELSE Goto(g, job[g].next)
    /\ UNCHANGED <<dbVars, cloudVars>>

\* A faulty variant: no grace window.
ScanKnownWithoutGrace(g) ==
    /\ job[g].pc = "scan"
    /\ Become(g, [job[g] EXCEPT !.pc = "sweep", !.ids = (objects \cup keys) \ Registered])
    /\ UNCHANGED <<dbVars, cloudVars>>

\* _remove_unknown_remote_objects: the cutoff and the registered names are read
\* first ..
ScanKnown(g) ==
    /\ job[g].pc = "scan"
    /\ Become(g, [job[g] EXCEPT !.pc = "sweep", !.ids = aged \ Registered])
    /\ UNCHANGED <<dbVars, cloudVars>>

\* .. then the names found in iCloud that have a time, are older and were not
\* registered are deleted; errors are ignored.
Sweep(g) ==
    /\ job[g].pc = "sweep"
    /\ objects' = objects \ (job[g].ids \ UntimedObjects)
    /\ keys' = keys \ (job[g].ids \ UntimedKeys)
    /\ Finish(g)
    /\ UNCHANGED <<dbVars, aged>>

SweepFails(g) ==
    /\ StorageFails
    /\ job[g].pc = "sweep"
    /\ \E o \in SUBSET (job[g].ids \ UntimedObjects) : objects' = objects \ o
    /\ \E k \in SUBSET (job[g].ids \ UntimedKeys) : keys' = keys \ k
    /\ Finish(g)
    /\ UNCHANGED <<dbVars, aged>>

Collect(g) ==
    \/ GcBegin(g)
    \/ \E p \in Paths : GcLimit(g, p) \/ GcPurge(g, p)
    \/ GcListDeleted(g)
    \/ GcPurgeEnd(g)
    \/ GcCapacity(g)
    \/ SelectManifests(g)
    \/ SelectChunks(g)
    \/ \E i \in ObjectIds : DropRemote(g, i) \/ DropRemoteFails(g, i)
    \/ DropRow(g)
    \/ CollectDone(g)
    \/ ScanKnown(g)
    \/ Sweep(g)
    \/ SweepFails(g)

---------------------------------------------------------------------------
(* The environment                                                         *)

\* What a job has read is lost; what it wrote stays.
Crash(g) ==
    /\ Crashes
    /\ job[g].pc \notin {"idle", "down"}
    /\ Become(g, [IdleJob EXCEPT !.pc = "down"])
    /\ UNCHANGED <<dbVars, cloudVars>>

\* The new process repairs nothing: no code looks at unfinished cas_uploads.
Restart(g) ==
    /\ job[g].pc = "down"
    /\ Finish(g)
    /\ UNCHANGED <<dbVars, cloudVars>>

BeingStored(g) ==
    IF job[g].pc \in {"putObject", "putKey", "insertChunk", "register"} THEN {job[g].cur} ELSE {}

\* orphan_grace passes.  It is long compared with storing one blob and
\* registering it, so what a gateway is storing right now stays young.
GraceElapses ==
    /\ aged' = (objects \cup keys) \ UNION {BeingStored(g) : g \in Gateways}
    /\ aged' # aged
    /\ UNCHANGED <<dbVars, objects, keys, job>>

Next ==
    \/ \E g \in Gateways : Upload(g) \/ DeleteOrRename(g) \/ Collect(g)
                         \/ Crash(g) \/ Restart(g)
    \/ GraceElapses

Spec == Init /\ [][Next]_vars

---------------------------------------------------------------------------
(* Safety                                                                  *)

DbTypeOK ==
    /\ chunks \subseteq ChunkIds
    /\ manifests \subseteq Ops
    /\ mchunks \in [Ops -> SUBSET ChunkIds]
    /\ files \in [Paths -> Row]
    /\ versions \subseteq Version
    /\ deleted \subseteq Paths
    /\ status \in [Ops -> Status]
    /\ content \in [Ops -> SUBSET Blobs]
    /\ pins \in [Ops -> SUBSET ChunkIds]

CloudTypeOK ==
    /\ objects \subseteq ObjectIds
    /\ keys \subseteq ObjectIds
    /\ aged \subseteq ObjectIds

TypeOK == DbTypeOK /\ CloudTypeOK /\ job \in [Gateways -> Job]

\* Every current and every archived version can be read back: its manifest and
\* chunk rows exist, list what the client sent, and all its iCloud components
\* are there, whatever uploads failed, collections failed half way or
\* gateways crashed before (upload_stream, _collect_garbage).
RetainedIntact ==
    \A m \in Retained :
        /\ m \in manifests
        /\ mchunks[m] \subseteq chunks
        /\ {Plaintext(c) : c \in mchunks[m]} = content[m]
        /\ Present(Components(m, mchunks[m]))

\* A version that is current or archived was acknowledged: its upload record is
\* ACTIVE.  An upload that failed or was cut short never shows (upload_stream).
RetainedIsActive == \A m \in Retained : status[m] = "ACTIVE"

\* The archive is older than what is current: versions of a path grow, and no
\* manifest is recorded twice, so archiving never overwrites another version
\* (the version numbers of upload_stream, delete and rename).
HistoryBelowCurrent ==
    /\ \A r \in versions :
          /\ files[r.path] # NoRow => r.version < files[r.path].version
          /\ r.manifest \notin Current
    /\ \A r, q \in versions :
          r.manifest = q.manifest \/ (r.path = q.path /\ r.version = q.version) => r = q
    /\ \A p, q \in Paths :
          files[p] # NoRow /\ files[p].manifest = files[q].manifest => p = q

\* A tombstone marks a path without a file, and history without a file has one:
\* gc purges by tombstone, so it neither purges a live path nor forgets a dead one
\* (upload_stream, delete, rename and gc of one gateway).
TombstonesMatch ==
    /\ \A p \in deleted : files[p] = NoRow
    /\ \A r \in versions : files[r.path] # NoRow \/ r.path \in deleted

\* The remote scan never takes a blob that is stored and about to be registered
\* (_remove_unknown_remote_objects and its grace window).
FreshBlobsSurvive ==
    \A g \in Gateways :
        job[g].pc \in {"insertChunk", "register"} => Present({job[g].cur})

\* No step drops a current version: it stays current, is renamed, or becomes
\* history (upload_stream, delete, rename).
CurrentNeverLost == [][Current \subseteq Retained']_vars

RetentionStep(g) ==
    \/ job[g].pc \in {"idle", "limit"} /\ job'[g].pc = "limit"
    \/ job[g].pc = "purge" /\ job'[g].pc = "collect"

\* The history of a path that has a file goes only by age, by its version limit
\* or by capacity; never by an upload, a rename or the purge of tombstones.
LiveHistoryKept ==
    [][\A r \in versions :
          files[r.path] # NoRow /\ r.manifest \notin Retained'
              => \E g \in Gateways : RetentionStep(g)]_vars

\* History of a path that has no file, and that no tombstone leads gc to.
Forsaken(p) == files[p] = NoRow /\ HistoryOf(p) # {} /\ p \notin deleted

\* Whatever the gateways do at the same time, history loses its path's file and tombstone
\* in one way only: a purge ends that began before the last delete of the path
\* (upload_stream, delete, rename, and the two statements of _purge_deleted_path).
TombstonesKept ==
    [][\A p \in Paths :
          ~Forsaken(p) /\ Forsaken(p)'
              => \E g \in Gateways : job[g].purge.path = p /\ job'[g].purge = NoPurge]_vars

\* The vault seen from above: current and archived uploads of each path, and the
\* bodies of those that were acknowledged.
Abstract == INSTANCE Drive WITH
    current <- [p \in Paths |-> files[p].manifest],
    history <- [p \in Paths |-> {r.manifest : r \in HistoryOf(p)}],
    body <- [o \in Ops |-> IF status[o] = "ACTIVE" THEN <<content[o]>> ELSE <<>>]

\* Every operation takes effect in one step as Drive has it; everything else an
\* operation, a failure or a crash does is invisible.
ImplementsDrive == Abstract!Spec

---------------------------------------------------------------------------
(* Liveness.  ThreadingHTTPServer keeps serving, so a started operation is *)
(* carried on; iCloud does not fail for ever.  Nothing is assumed of gc,   *)
(* which service_actions calls only while safe mode is off: that it is run *)
(* again and again is a premise of what is said about it.                  *)

Runs(g) ==
    \/ UploadStart(g) \/ ReadChunk(g) \/ PutObject(g) \/ PutKey(g)
    \/ InsertChunk(g) \/ InsertChunkRefused(g) \/ PinChunk(g)
    \/ FinishUnchanged(g) \/ UnpinUnchanged(g) \/ StoreManifest(g) \/ RegisterManifest(g)
    \/ Verify(g) \/ VerifyFails(g) \/ CommitReplace(g) \/ CommitSeesNoRow(g)
    \/ CommitInsert(g) \/ CommitRefused(g) \/ MarkFailed(g) \/ UnpinFailed(g)
    \/ DeleteCommit(g) \/ DeleteRefused(g)
    \/ PurgeTarget(g) \/ PurgeTargetEnd(g) \/ ReadSource(g) \/ SourceNotFound(g) \/ Move(g) \/ MoveRefused(g)
    \/ \E p \in Paths : GcLimit(g, p) \/ GcPurge(g, p)
    \/ GcListDeleted(g) \/ GcPurgeEnd(g) \/ GcCapacity(g)
    \/ SelectManifests(g) \/ SelectChunks(g)
    \/ \E i \in ObjectIds : DropRemote(g, i)
    \/ DropRow(g) \/ CollectDone(g) \/ ScanKnown(g) \/ Restart(g)

Fairness ==
    /\ \A g \in Gateways :
          /\ WF_vars(Runs(g))
          /\ SF_vars(Sweep(g))
          /\ \A i \in ObjectIds : SF_vars(DropRemote(g, i))
    /\ WF_vars(GraceElapses)

FairSpec == Spec /\ Fairness

\* Gateways do not crash for ever.
CrashesEnd == <>[](\A g \in Gateways : job[g].pc # "down")

Needed(i) ==
    \/ \E m \in Retained : i = ManifestId(m) \/ i \in mchunks[m]
    \/ \E g \in Gateways : job[g].op = i[1] \/ i \in job[g].rows \/ i = job[g].cur

\* Gc is run again and again: it is enabled, and an operator ends each safe mode.
GcKeepsRunning == []<><<\E g \in Gateways : GcBegin(g)>>_vars

\* A body or a key is there that gc would delete: iCloud tells its time.
Collectable(i) == i \in objects \ UntimedObjects \/ i \in keys \ UntimedKeys

\* What no version and no running upload needs leaves iCloud in the end, unless it is
\* a name without a time (gc, _collect_garbage, _remove_unknown_remote_objects).
GarbageCollected ==
    GcKeepsRunning => \A i \in ObjectIds : Collectable(i) ~> ~Collectable(i) \/ Needed(i)

\* The same when gateways crash now and then.
GarbageCollectedAfterCrash == CrashesEnd => GarbageCollected
=============================================================================
