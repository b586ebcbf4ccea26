------------------------------ MODULE Namespace ------------------------------
(***************************************************************************)
(* The directory tree of EncryptedBackend (encryption_backend.py): what    *)
(* mkdir, delete, rename, a successful upload_stream and gc do to          *)
(* cas_directories, cas_files, cas_versions and cas_deleted.               *)
(*                                                                         *)
(* One gateway: EncryptedBackend._lock makes a call of the backend one     *)
(* step.  What several gateways do to one file is the module Vault.  A     *)
(* call that raises before it has changed anything is no step.             *)
(***************************************************************************)
EXTENDS Integers, FiniteSets, FiniteSetsExt, SequencesExt

CONSTANTS
    Names,           \* names of files and directories, all of one length
    UnderscoreNames, \* those that match every name, for LIKE's underscores
    Paths,           \* bound: the paths in use, without the root
    MaxUploads,      \* bound: the uploads that succeed
    VersionsKept     \* generation limit of a file, the current version included

ASSUME UnderscoreNamesAreNames == UnderscoreNames \subseteq Names
ASSUME PathsAreSequencesOfNames == Paths \subseteq Seq(Names) \ {<<>>}
ASSUME BoundsAreNumbers == {MaxUploads, VersionsKept} \subseteq Nat

VARIABLES
    dirs,      \* cas_directories, without the root
    files,     \* cas_files: the row of a path, NoRow if there is none
    versions,  \* cas_versions: archived [path, version, manifest]
    deleted,   \* cas_deleted: tombstoned paths
    uploads    \* how many uploads have succeeded: their manifests are 1 .. uploads

vars == <<dirs, files, versions, deleted, uploads>>

---------------------------------------------------------------------------
(* Paths are sequences of names; the root is <<>>.                         *)

Parent(p) == Front(p)

Manifests == 1 .. MaxUploads
NoRow == [manifest |-> 0, version |-> 0]
Row == {NoRow} \cup [manifest : Manifests, version : Manifests]
Version == [path : Paths, version : Manifests, manifest : Manifests]

DirectoryExists(p) == p = <<>> \/ p \in dirs
FileExists(p) == files[p] # NoRow
Exists(p) == DirectoryExists(p) \/ FileExists(p)

LivePaths == {p \in Paths : FileExists(p)}
HistoryOf(p) == {r \in versions : r.path = p}

\* path LIKE s || '/%', with names of one length.
Below(p, s) ==
    /\ Len(p) > Len(s)
    /\ \A i \in DOMAIN s : p[i] = s[i] \/ s[i] \in UnderscoreNames

\* MAX(version) of the history, or the current version, plus one.
NextVersion(p) ==
    IF FileExists(p) THEN files[p].version + 1
    ELSE Max({0} \cup {r.version : r \in HistoryOf(p)}) + 1

\* INSERT INTO cas_versions .. ON CONFLICT(path, version) DO UPDATE
Archive(p, row) ==
    {r \in versions : ~(r.path = p /\ r.version = row.version)}
        \cup {[path |-> p, version |-> row.version, manifest |-> row.manifest]}

---------------------------------------------------------------------------
Init ==
    /\ dirs = {}
    /\ files = [p \in Paths |-> NoRow]
    /\ versions = {}
    /\ deleted = {}
    /\ uploads = 0

Mkdir(p) ==
    /\ ~Exists(p)
    /\ DirectoryExists(Parent(p))
    /\ dirs' = dirs \cup {p}
    /\ UNCHANGED <<files, versions, deleted, uploads>>

\* An upload that succeeds and differs from the current version.
Upload(p) ==
    /\ uploads < MaxUploads
    /\ DirectoryExists(Parent(p))
    /\ ~DirectoryExists(p)
    /\ uploads' = uploads + 1
    /\ files' = [files EXCEPT ![p] = [manifest |-> uploads + 1, version |-> NextVersion(p)]]
    /\ versions' = IF FileExists(p) THEN Archive(p, files[p]) ELSE versions
    /\ deleted' = deleted \ {p}
    /\ UNCHANGED dirs

\* A faulty variant: only subdirectories are looked for.
DeleteDirectoryWithFiles(p) ==
    /\ p \in dirs
    /\ \A q \in dirs : ~Below(q, p)
    /\ dirs' = dirs \ {p}
    /\ UNCHANGED <<files, versions, deleted, uploads>>

DeleteDirectory(p) ==
    /\ p \in dirs
    /\ \A q \in dirs \cup LivePaths : ~Below(q, p)
    /\ dirs' = dirs \ {p}
    /\ UNCHANGED <<files, versions, deleted, uploads>>

\* Faulty variants: no look at the row; the row stays.
DeleteFileUnchecked(p) ==
    /\ versions' = Archive(p, files[p])
    /\ files' = [files EXCEPT ![p] = NoRow]
    /\ deleted' = deleted \cup {p}
    /\ UNCHANGED <<dirs, uploads>>

DeleteFileKeepsRow(p) ==
    /\ FileExists(p)
    /\ versions' = Archive(p, files[p])
    /\ deleted' = deleted \cup {p}
    /\ UNCHANGED <<dirs, files, uploads>>

DeleteFile(p) ==
    /\ FileExists(p)
    /\ versions' = Archive(p, files[p])
    /\ files' = [files EXCEPT ![p] = NoRow]
    /\ deleted' = deleted \cup {p}
    /\ UNCHANGED <<dirs, uploads>>

---------------------------------------------------------------------------
(* rename.  A tombstone of the destination is purged first, in a           *)
(* transaction of its own that stays even if the rename fails.             *)

RenameAllowed(d) == ~Exists(d) /\ DirectoryExists(Parent(d))

PurgedVersions(d) == IF d \in deleted THEN versions \ HistoryOf(d) ELSE versions

\* The paths that a rename of s rewrites, and what becomes of them.
MovedFiles(s) == IF FileExists(s) THEN {s} ELSE {p \in LivePaths : Below(p, s)}
MovedDirs(s) == IF FileExists(s) THEN {} ELSE {s} \cup {p \in dirs : Below(p, s)}
NewPath(p, s, d) == d \o SubSeq(p, Len(s) + 1, Len(p))

\* A faulty variant: the history stays where the files were.
NewVersionsStay(s, d) == PurgedVersions(d)

NewVersions(s, d) ==
    {IF r.path \in MovedFiles(s) THEN [r EXCEPT !.path = NewPath(r.path, s, d)] ELSE r :
        r \in PurgedVersions(d)}

NewFiles(s, d) ==
    [p \in Paths |->
        IF \E q \in MovedFiles(s) : NewPath(q, s, d) = p
        THEN files[CHOOSE q \in MovedFiles(s) : NewPath(q, s, d) = p]
        ELSE IF p \in MovedFiles(s) THEN NoRow ELSE files[p]]

NewDirs(s, d) == (dirs \ MovedDirs(s)) \cup {NewPath(p, s, d) : p \in MovedDirs(s)}

\* The moved set keeps its size and meets nothing that stays.
Lands(moved, all, s, d) ==
    /\ \A p, q \in moved : NewPath(p, s, d) = NewPath(q, s, d) => p = q
    /\ \A p \in moved : NewPath(p, s, d) \notin all \ moved

\* A faulty variant: an update replaces what it meets.
KeysReplace(s, d) == TRUE

\* The primary keys of the three tables after the updates.
KeysUnique(s, d) ==
    /\ Lands(MovedFiles(s), LivePaths, s, d)
    /\ Lands(MovedDirs(s), dirs, s, d)
    /\ \A r, q \in NewVersions(s, d) : r.path = q.path /\ r.version = q.version => r = q
    /\ Cardinality(NewVersions(s, d)) = Cardinality(PurgedVersions(d))

\* Rows are updated one by one: a new path may meet a row that has not moved yet.
MayMeet(s, d) ==
    \/ \E p \in MovedFiles(s) : NewPath(p, s, d) \in LivePaths
    \/ \E p \in MovedDirs(s) : NewPath(p, s, d) \in dirs

\* A file with its history, or a directory with everything below it.
Rename(s, d) ==
    /\ RenameAllowed(d)
    /\ FileExists(s) \/ s \in dirs
    /\ KeysUnique(s, d)
    /\ \A p \in MovedFiles(s) \cup MovedDirs(s) : NewPath(p, s, d) \in Paths
    /\ files' = NewFiles(s, d)
    /\ dirs' = NewDirs(s, d)
    /\ versions' = NewVersions(s, d)
    /\ deleted' = deleted \ {d}
    /\ UNCHANGED uploads

\* The source is missing or a primary key refuses an update: only the purge stays.
RenameFails(s, d) ==
    /\ RenameAllowed(d)
    /\ \/ ~(FileExists(s) \/ s \in dirs)
       \/ ~KeysUnique(s, d)
       \/ MayMeet(s, d)
    /\ versions' = PurgedVersions(d)
    /\ deleted' = deleted \ {d}
    /\ UNCHANGED <<dirs, files, uploads>>

---------------------------------------------------------------------------
\* gc: expiry and capacity pressure drop any archived versions, the generation
\* limit leaves a live path VersionsKept - 1 of them, tombstoned paths lose all.
Gc ==
    /\ \E kept \in SUBSET {r \in versions : r.path \notin deleted} :
          /\ \A p \in LivePaths : Cardinality({r \in kept : r.path = p}) < Max({1, VersionsKept})
          /\ versions' = kept
    /\ deleted' = {}
    /\ UNCHANGED <<dirs, files, uploads>>

Next ==
    \/ \E p \in Paths :
          Mkdir(p) \/ Upload(p) \/ DeleteDirectory(p) \/ DeleteFile(p)
    \/ \E s, d \in Paths : Rename(s, d) \/ RenameFails(s, d)
    \/ Gc

Spec == Init /\ [][Next]_vars

---------------------------------------------------------------------------
(* Properties.                                                             *)

TypeOK ==
    /\ dirs \subseteq Paths
    /\ files \in [Paths -> Row]
    /\ versions \subseteq Version
    /\ deleted \subseteq Paths
    /\ uploads \in 0 .. MaxUploads

Tree ==
    /\ \A p \in dirs \cup LivePaths : DirectoryExists(Parent(p))
    /\ dirs \cap LivePaths = {}

\* rename refuses neither a destination inside the source, which takes the parent
\* of the destination away, nor what LIKE matches below other directories.
TakesTooMuch(s, d) ==
    \/ Parent(d) \in MovedDirs(s)
    \/ \E p \in MovedFiles(s) \cup MovedDirs(s) : ~IsPrefix(s, p)

\* Every other call leaves a tree a tree: no file or directory without a parent,
\* no path that is both (mkdir, upload_stream, delete, rename).
TreeKept ==
    [][Tree /\ ~(\E s, d \in Paths : TakesTooMuch(s, d) /\ Rename(s, d)) => Tree']_vars

\* Archived versions belong to a file or to a tombstone at the same path, so a
\* later gc finds them (rename moves history with every file below a directory).
HistoryAccounted == \A r \in versions : FileExists(r.path) \/ r.path \in deleted

CurrentManifests == {files[p].manifest : p \in LivePaths}
ArchivedManifests == {r.manifest : r \in versions}

\* A current version is replaced or deleted into the history, never dropped,
\* whatever paths, tombstones and wildcards a rename runs over.
LiveKept == [][CurrentManifests \subseteq CurrentManifests' \cup ArchivedManifests']_vars

\* A manifest is the version of one path only: current or archived, not both.
EachVersionOnce ==
    /\ \A p, q \in LivePaths : files[p].manifest = files[q].manifest => p = q
    /\ \A r, q \in versions : r.manifest = q.manifest => r = q
    /\ CurrentManifests \cap ArchivedManifests = {}

\* "Histories for files deleted through WebDAV or iCloud Web" (gc, step 3): the
\* tombstones that gc purges by are those of deleted files.
TombstonesAreOfDeletedFiles == \A p \in deleted : ~FileExists(p)
=============================================================================
