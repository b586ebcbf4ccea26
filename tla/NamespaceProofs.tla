--------------------------- MODULE NamespaceProofs ---------------------------
(***************************************************************************)
(* Theorems about Namespace for every set of names and paths, whatever     *)
(* underscores the names have, and any limits.                             *)
(***************************************************************************)
EXTENDS Namespace, BoundedMax, SequenceTheorems, TLAPS

---------------------------------------------------------------------------
(* Type correctness                                                        *)

\* Manifests are numbered as they come, and versions no faster than uploads.
Numbered ==
    /\ \A p \in Paths : files[p].manifest <= uploads /\ files[p].version <= uploads
    /\ \A r \in versions : r.manifest <= uploads /\ r.version <= uploads

TypeInv == TypeOK /\ Numbered

LEMMA NoRowTyped == NoRow \in Row /\ NoRow.manifest = 0 /\ NoRow.version = 0
  BY DEF NoRow, Row

LEMMA RowTyped ==
  ASSUME TypeOK, NEW p \in Paths
  PROVE  /\ files[p] \in Row
         /\ files[p].manifest \in Nat /\ files[p].version \in Nat
         /\ FileExists(p) => files[p].manifest \in Manifests /\ files[p].version \in Manifests
  BY BoundsAreNumbers, NoRowTyped DEF TypeOK, Row, FileExists, Manifests

LEMMA NextVersionBounded ==
  ASSUME TypeInv, NEW p \in Paths
  PROVE  NextVersion(p) \in 1 .. uploads + 1
<1>1. uploads \in Nat
  BY BoundsAreNumbers DEF TypeInv, TypeOK
<1>2. CASE FileExists(p)
  <2>1. NextVersion(p) = files[p].version + 1
    BY <1>2 DEF NextVersion
  <2>2. files[p].version \in Nat /\ files[p].version <= uploads
    BY RowTyped DEF TypeInv, Numbered
  <2> QED
    BY <1>1, <2>1, <2>2
<1>3. CASE ~FileExists(p)
  <2> DEFINE S == {0} \cup {r.version : r \in HistoryOf(p)}
  <2>1. \A v \in S : v \in Nat /\ v <= uploads
    BY <1>1, BoundsAreNumbers DEF TypeInv, TypeOK, Numbered, HistoryOf, Version, Manifests
  <2>2. S \in SUBSET Nat /\ S # {}
    BY <2>1
  <2>3. Max(S) \in S
    BY <1>1, <2>1, <2>2, MaxOfBounded
  <2>4. NextVersion(p) = Max(S) + 1
    BY <1>3 DEF NextVersion
  <2> HIDE DEF S
  <2> QED
    BY <1>1, <2>1, <2>3, <2>4
<1> QED
  BY <1>2, <1>3

LEMMA ArchiveTyped ==
  ASSUME TypeInv, NEW p \in Paths, FileExists(p)
  PROVE  /\ Archive(p, files[p]) \subseteq Version
         /\ \A r \in Archive(p, files[p]) : r.manifest <= uploads /\ r.version <= uploads
<1>1. files[p].manifest \in Manifests /\ files[p].version \in Manifests
  BY RowTyped DEF TypeInv
<1>2. files[p].manifest <= uploads /\ files[p].version <= uploads
  BY DEF TypeInv, Numbered
<1> QED
  BY <1>1, <1>2 DEF Archive, Version, TypeInv, TypeOK, Numbered

\* Where a rename puts the file of a live path.
Target(q, s, d) == IF q \in MovedFiles(s) THEN NewPath(q, s, d) ELSE q

\* A rename puts every file at one path, and every path's file comes from one.
LEMMA FilesRenamed ==
  ASSUME NEW s \in Paths, NEW d \in Paths, KeysUnique(s, d),
         \A p \in MovedFiles(s) : NewPath(p, s, d) \in Paths
  PROVE  /\ \A p \in Paths : NewFiles(s, d)[p] # NoRow =>
               \E q \in LivePaths : NewFiles(s, d)[p] = files[q] /\ p = Target(q, s, d)
         /\ \A q \in LivePaths : /\ Target(q, s, d) \in Paths
                                 /\ NewFiles(s, d)[Target(q, s, d)] = files[q]
<1> DEFINE M == MovedFiles(s)
           N(q) == NewPath(q, s, d)
<1>1. M \subseteq LivePaths
  BY DEF MovedFiles, LivePaths
<1>2. /\ \A p, q \in M : N(p) = N(q) => p = q
      /\ \A p \in M : N(p) \notin LivePaths \ M
  BY DEF KeysUnique, Lands
<1>3. \A p \in Paths :
        NewFiles(s, d)[p] = IF \E q \in M : N(q) = p
                            THEN files[CHOOSE q \in M : N(q) = p]
                            ELSE IF p \in M THEN NoRow ELSE files[p]
  BY DEF NewFiles
<1>4. \A q : Target(q, s, d) = IF q \in M THEN N(q) ELSE q
  BY DEF Target
<1>5. \A p \in Paths : p \notin LivePaths => files[p] = NoRow
  BY DEF LivePaths, FileExists
<1>6. \A q \in M : N(q) \in Paths /\ (CHOOSE r \in M : N(r) = N(q)) = q
  BY <1>2
<1>7. LivePaths \subseteq Paths
  BY DEF LivePaths
<1> HIDE DEF M, N
<1>8. ASSUME NEW p \in Paths, NewFiles(s, d)[p] # NoRow
      PROVE  \E q \in LivePaths : NewFiles(s, d)[p] = files[q] /\ p = Target(q, s, d)
  <2>1. CASE \E q \in M : N(q) = p
    <3>1. PICK q \in M : N(q) = p
      BY <2>1
    <3>2. NewFiles(s, d)[p] = files[q]
      BY <1>3, <1>6, <3>1
    <3> QED
      BY <1>1, <1>4, <3>1, <3>2
  <2>2. CASE ~(\E q \in M : N(q) = p)
    <3>1. p \notin M /\ NewFiles(s, d)[p] = files[p]
      BY <1>3, <1>8, <2>2
    <3> QED
      BY <1>4, <1>5, <1>8, <3>1
  <2> QED
    BY <2>1, <2>2
<1>9. ASSUME NEW q \in LivePaths
      PROVE  Target(q, s, d) \in Paths /\ NewFiles(s, d)[Target(q, s, d)] = files[q]
  <2>1. CASE q \in M
    BY <1>3, <1>4, <1>6, <2>1
  <2>2. CASE q \notin M
    BY <1>2, <1>3, <1>4, <1>7, <2>2
  <2> QED
    BY <2>1, <2>2
<1> QED
  BY <1>8, <1>9

\* What a rename does to the history.
LEMMA HistoryRenamed ==
  ASSUME TypeOK, NEW s \in Paths, NEW d \in Paths,
         \A p \in MovedFiles(s) : NewPath(p, s, d) \in Paths,
         NEW n \in NewVersions(s, d)
  PROVE  /\ n \in Version
         /\ \E r \in PurgedVersions(d) :
               n = [path |-> IF r.path \in MovedFiles(s) THEN NewPath(r.path, s, d) ELSE r.path,
                    version |-> r.version, manifest |-> r.manifest]
<1>1. PICK r \in PurgedVersions(d) :
        n = IF r.path \in MovedFiles(s) THEN [r EXCEPT !.path = NewPath(r.path, s, d)] ELSE r
  BY DEF NewVersions
<1>2. r \in Version
  BY DEF PurgedVersions, TypeOK
<1>3. r = [path |-> r.path, version |-> r.version, manifest |-> r.manifest]
  BY <1>2 DEF Version
<1>4. n = [path |-> IF r.path \in MovedFiles(s) THEN NewPath(r.path, s, d) ELSE r.path,
           version |-> r.version, manifest |-> r.manifest]
  BY <1>1, <1>2, <1>3 DEF Version
<1> QED
  BY <1>2, <1>4 DEF Version

LEMMA TypeInit == Init => TypeInv
  BY BoundsAreNumbers, NoRowTyped DEF Init, TypeInv, TypeOK, Numbered

LEMMA TypeNext == TypeInv /\ [Next]_vars => TypeInv'
<1> SUFFICES ASSUME TypeInv, [Next]_vars PROVE TypeInv'
  OBVIOUS
<1> USE DEF TypeInv
<1>0. uploads \in Nat /\ MaxUploads \in Nat
  BY BoundsAreNumbers DEF TypeOK
<1>1. ASSUME NEW p \in Paths, Mkdir(p) PROVE TypeInv'
  BY <1>1 DEF Mkdir, TypeOK, Numbered
<1>2. ASSUME NEW p \in Paths, Upload(p) PROVE TypeInv'
  <2>1. uploads' = uploads + 1 /\ uploads' \in 0 .. MaxUploads
    BY <1>0, <1>2 DEF Upload
  <2>2. NextVersion(p) \in 1 .. uploads + 1
    BY NextVersionBounded
  <2> DEFINE new == [manifest |-> uploads + 1, version |-> NextVersion(p)]
  <2>3. new \in Row /\ new.manifest <= uploads' /\ new.version <= uploads'
    BY <1>0, <2>1, <2>2 DEF Row, Manifests
  <2>4. files' = [files EXCEPT ![p] = new]
    BY <1>2 DEF Upload
  <2> HIDE DEF new
  <2>5. files' \in [Paths -> Row]
    BY <2>3, <2>4 DEF TypeOK
  <2>6. \A q \in Paths : files'[q].manifest <= uploads' /\ files'[q].version <= uploads'
    <3> SUFFICES ASSUME NEW q \in Paths
                 PROVE  files'[q].manifest <= uploads' /\ files'[q].version <= uploads'
      OBVIOUS
    <3>1. CASE q = p
      BY <2>3, <2>4, <3>1 DEF TypeOK
    <3>2. CASE q # p
      <4>1. files'[q] = files[q]
        BY <2>4, <3>2 DEF TypeOK
      <4>2. files[q].manifest <= uploads /\ files[q].version <= uploads
        BY DEF Numbered
      <4> QED
        BY <1>0, <2>1, <4>1, <4>2, RowTyped
    <3> QED
      BY <3>1, <3>2
  <2>7. versions' \subseteq Version
    BY <1>2, ArchiveTyped DEF Upload, TypeOK
  <2>8. \A r \in versions' : r.manifest <= uploads /\ r.version <= uploads
    BY <1>2, ArchiveTyped DEF Upload, Numbered
  <2>9. \A r \in versions' : r.manifest \in Nat /\ r.version \in Nat
    BY <1>0, <2>7 DEF Version, Manifests
  <2>10. \A r \in versions' : r.manifest <= uploads' /\ r.version <= uploads'
    BY <1>0, <2>1, <2>8, <2>9
  <2>11. dirs' \subseteq Paths /\ deleted' \subseteq Paths
    BY <1>2 DEF Upload, TypeOK
  <2> QED
    BY <2>1, <2>5, <2>6, <2>7, <2>10, <2>11 DEF TypeOK, Numbered
<1>3. ASSUME NEW p \in Paths, DeleteDirectory(p) PROVE TypeInv'
  BY <1>3 DEF DeleteDirectory, TypeOK, Numbered
<1>4. ASSUME NEW p \in Paths, DeleteFile(p) PROVE TypeInv'
  <2>1. versions' \subseteq Version
        /\ \A r \in versions' : r.manifest <= uploads /\ r.version <= uploads
    BY <1>4, ArchiveTyped DEF DeleteFile
  <2>2. files' \in [Paths -> Row]
        /\ \A q \in Paths : files'[q].manifest <= uploads /\ files'[q].version <= uploads
    BY <1>0, <1>4, NoRowTyped DEF DeleteFile, TypeOK, Numbered
  <2> QED
    BY <1>4, <2>1, <2>2 DEF DeleteFile, TypeOK, Numbered
<1>5. ASSUME NEW s \in Paths, NEW d \in Paths, Rename(s, d) PROVE TypeInv'
  <2>1. /\ files' = NewFiles(s, d) /\ versions' = NewVersions(s, d)
        /\ dirs' = NewDirs(s, d) /\ deleted' = deleted \ {d} /\ uploads' = uploads
    BY <1>5 DEF Rename
  <2>2. \A p \in MovedFiles(s) \cup MovedDirs(s) : NewPath(p, s, d) \in Paths
    BY <1>5 DEF Rename
  <2>3. \A p \in Paths : NewFiles(s, d)[p] = NoRow \/ \E q \in Paths : NewFiles(s, d)[p] = files[q]
    BY <1>5, <2>2, FilesRenamed DEF Rename, LivePaths
  <2>4. \A p \in Paths : /\ files'[p] \in Row
                         /\ files'[p].manifest <= uploads /\ files'[p].version <= uploads
    BY <1>0, <2>1, <2>3, RowTyped, NoRowTyped DEF Numbered
  <2>5. files' = [p \in Paths |-> files'[p]]
    BY <2>1 DEF NewFiles
  <2>6. files' \in [Paths -> Row]
    BY <2>4, <2>5
  <2>7. \A n \in versions' : n \in Version /\ n.manifest <= uploads /\ n.version <= uploads
    <3> SUFFICES ASSUME NEW n \in NewVersions(s, d)
                 PROVE  n \in Version /\ n.manifest <= uploads /\ n.version <= uploads
      BY <2>1
    <3>1. n \in Version /\ \E r \in versions : n.manifest = r.manifest /\ n.version = r.version
      BY <2>2, HistoryRenamed DEF PurgedVersions
    <3> QED
      BY <3>1 DEF Numbered
  <2>8. dirs' \subseteq Paths /\ deleted' \subseteq Paths
    BY <2>1, <2>2 DEF NewDirs, TypeOK
  <2> QED
    BY <2>1, <2>4, <2>6, <2>7, <2>8 DEF TypeOK, Numbered
<1>6. ASSUME NEW s \in Paths, NEW d \in Paths, RenameFails(s, d) PROVE TypeInv'
  BY <1>6 DEF RenameFails, PurgedVersions, TypeOK, Numbered
<1>7. CASE Gc
  BY <1>7 DEF Gc, TypeOK, Numbered
<1>8. CASE UNCHANGED vars
  BY <1>8 DEF vars, TypeOK, Numbered
<1> QED
  BY <1>1, <1>2, <1>3, <1>4, <1>5, <1>6, <1>7, <1>8 DEF Next

\* TypeOK in every reachable state.
THEOREM TypeCorrect == Spec => []TypeOK
<1>1. Spec => []TypeInv
  BY TypeInit, TypeNext, PTL DEF Spec
<1>2. TypeInv => TypeOK
  BY DEF TypeInv
<1> QED
  BY <1>1, <1>2, PTL

---------------------------------------------------------------------------
(* History has an owner                                                    *)

LEMMA HistoryInit == Init => HistoryAccounted
  BY DEF Init, HistoryAccounted

LEMMA HistoryNext == TypeInv /\ HistoryAccounted /\ [Next]_vars => HistoryAccounted'
<1> SUFFICES ASSUME TypeInv, HistoryAccounted, [Next]_vars,
                    NEW n \in versions'
             PROVE  files'[n.path] # NoRow \/ n.path \in deleted'
  BY DEF HistoryAccounted, FileExists
<1>0. \A r \in versions : r.path \in Paths /\ (files[r.path] # NoRow \/ r.path \in deleted)
  BY DEF TypeInv, TypeOK, Version, HistoryAccounted, FileExists
<1>1. ASSUME NEW p \in Paths, Mkdir(p) \/ DeleteDirectory(p)
      PROVE  files'[n.path] # NoRow \/ n.path \in deleted'
  BY <1>0, <1>1 DEF Mkdir, DeleteDirectory
<1>2. ASSUME NEW p \in Paths, Upload(p) PROVE files'[n.path] # NoRow \/ n.path \in deleted'
  <2> DEFINE new == [manifest |-> uploads + 1, version |-> NextVersion(p)]
  <2>1. new # NoRow
    BY BoundsAreNumbers DEF TypeInv, TypeOK, NoRow
  <2>2. files' = [files EXCEPT ![p] = new] /\ deleted' = deleted \ {p}
    BY <1>2 DEF Upload
  <2> HIDE DEF new
  <2>3. n.path = p \/ n \in versions
    BY <1>2 DEF Upload, Archive
  <2> QED
    BY <1>0, <2>1, <2>2, <2>3 DEF TypeInv, TypeOK
<1>3. ASSUME NEW p \in Paths, DeleteFile(p) PROVE files'[n.path] # NoRow \/ n.path \in deleted'
  <2>1. n.path = p \/ n \in versions
    BY <1>3 DEF DeleteFile, Archive
  <2> QED
    BY <1>0, <1>3, <2>1 DEF DeleteFile, TypeInv, TypeOK
<1>4. ASSUME NEW s \in Paths, NEW d \in Paths, Rename(s, d)
      PROVE  files'[n.path] # NoRow \/ n.path \in deleted'
  <2>1. KeysUnique(s, d) /\ \A p \in MovedFiles(s) : NewPath(p, s, d) \in Paths
    BY <1>4 DEF Rename
  <2>2. files' = NewFiles(s, d) /\ n \in NewVersions(s, d) /\ deleted' = deleted \ {d}
    BY <1>4 DEF Rename
  <2>3. PICK r \in PurgedVersions(d) :
          n.path = IF r.path \in MovedFiles(s) THEN NewPath(r.path, s, d) ELSE r.path
    BY <2>1, <2>2, HistoryRenamed DEF TypeInv
  <2>4. r \in versions /\ (d \in deleted => r.path # d)
    BY DEF PurgedVersions, HistoryOf
  <2>5. CASE files[r.path] # NoRow
    <3>1. r.path \in LivePaths
      BY <1>0, <2>4, <2>5 DEF LivePaths, FileExists
    <3>2. NewFiles(s, d)[n.path] = files[r.path]
      BY <2>1, <2>3, <3>1, FilesRenamed DEF Target
    <3> QED
      BY <2>2, <2>5, <3>2
  <2>6. CASE files[r.path] = NoRow
    <3>1. r.path \notin MovedFiles(s)
      BY <1>4, <2>6 DEF MovedFiles, LivePaths, FileExists
    <3>2. r.path \in deleted
      BY <1>0, <2>4, <2>6
    <3> QED
      BY <2>2, <2>3, <2>4, <3>1, <3>2
  <2> QED
    BY <2>5, <2>6
<1>5. ASSUME NEW s \in Paths, NEW d \in Paths, RenameFails(s, d)
      PROVE  files'[n.path] # NoRow \/ n.path \in deleted'
  <2>1. n \in versions /\ (d \in deleted => n.path # d)
    BY <1>5 DEF RenameFails, PurgedVersions, HistoryOf
  <2> QED
    BY <1>0, <1>5, <2>1 DEF RenameFails
<1>6. CASE Gc
  BY <1>0, <1>6 DEF Gc
<1>7. CASE UNCHANGED vars
  BY <1>0, <1>7 DEF vars
<1> QED
  BY <1>1, <1>2, <1>3, <1>4, <1>5, <1>6, <1>7 DEF Next

\* Archived versions belong to a file or to a tombstone at their path, so that gc
\* can find them after any sequence of renames and deletions.
THEOREM HistoryHasOwner == Spec => []HistoryAccounted
<1>1. Init => TypeInv /\ HistoryAccounted
  BY TypeInit, HistoryInit
<1>2. TypeInv /\ HistoryAccounted /\ [Next]_vars => (TypeInv /\ HistoryAccounted)'
  BY TypeNext, HistoryNext
<1> QED
  BY <1>1, <1>2, PTL DEF Spec

---------------------------------------------------------------------------
(* Current versions are kept                                               *)

LEMMA LiveStep ==
  TypeInv /\ [Next]_vars => CurrentManifests \subseteq CurrentManifests' \cup ArchivedManifests'
<1> SUFFICES ASSUME TypeInv, [Next]_vars, NEW q \in LivePaths
             PROVE  \/ \E p \in Paths : files'[p] = files[q]
                    \/ \E r \in versions' : r.manifest = files[q].manifest
  <2>1. \A q \in LivePaths : files[q] # NoRow
    BY DEF LivePaths, FileExists
  <2>2. \A q \in LivePaths, p \in Paths :
          files'[p] = files[q] => files[q].manifest \in CurrentManifests'
    BY <2>1 DEF CurrentManifests, LivePaths, FileExists
  <2>3. \A r \in versions' : r.manifest \in ArchivedManifests'
    BY DEF ArchivedManifests
  <2> QED
    BY <2>2, <2>3 DEF CurrentManifests
<1>0. q \in Paths /\ files[q] # NoRow /\ FileExists(q)
  BY DEF LivePaths, FileExists
<1> DEFINE Kept == \/ \E p \in Paths : files'[p] = files[q]
                   \/ \E r \in versions' : r.manifest = files[q].manifest
<1>1. ASSUME files' = files PROVE Kept
  BY <1>0, <1>1
<1>2. ASSUME NEW p \in Paths, NEW row, files' = [files EXCEPT ![p] = row],
             FileExists(p) => versions' = Archive(p, files[p])
      PROVE  Kept
  <2>1. CASE p = q
    <3> DEFINE old == [path |-> p, version |-> files[p].version, manifest |-> files[p].manifest]
    <3>1. versions' = Archive(p, files[p])
      BY <1>0, <1>2, <2>1
    <3>2. old \in versions' /\ old.manifest = files[q].manifest
      BY <2>1, <3>1 DEF Archive
    <3> QED
      BY <3>2
  <2>2. CASE p # q
    BY <1>0, <1>2, <2>2 DEF TypeInv, TypeOK
  <2> QED
    BY <2>1, <2>2
<1>3. ASSUME NEW p \in Paths, Upload(p) PROVE Kept
  BY <1>2, <1>3 DEF Upload
<1>4. ASSUME NEW p \in Paths, DeleteFile(p) PROVE Kept
  BY <1>2, <1>4 DEF DeleteFile
<1>5. ASSUME NEW s \in Paths, NEW d \in Paths, Rename(s, d) PROVE Kept
  <2>1. KeysUnique(s, d) /\ \A p \in MovedFiles(s) : NewPath(p, s, d) \in Paths
    BY <1>5 DEF Rename
  <2>2. Target(q, s, d) \in Paths /\ NewFiles(s, d)[Target(q, s, d)] = files[q]
    BY <2>1, FilesRenamed
  <2> QED
    BY <1>5, <2>2 DEF Rename
<1> QED
  BY <1>1, <1>3, <1>4, <1>5
  DEF Next, vars, Mkdir, DeleteDirectory, RenameFails, Gc

\* Only an upload or a deletion ends a current version, and it archives it, whatever
\* a directory rename runs over.
THEOREM LiveVersionsKept == Spec => LiveKept
<1>1. Spec => []TypeInv
  BY TypeInit, TypeNext, PTL DEF Spec
<1>2. Spec => [][CurrentManifests \subseteq CurrentManifests' \cup ArchivedManifests']_vars
  BY <1>1, LiveStep, PTL DEF Spec
<1> QED
  BY <1>2 DEF LiveKept

---------------------------------------------------------------------------
(* A manifest is in one place                                              *)

\* EachVersionOnce about rows: two files, two archived versions, one of each.
FilesDiffer ==
    \A p, q \in Paths :
        files[p] # NoRow /\ files[q] # NoRow /\ files[p].manifest = files[q].manifest => p = q
VersionsDiffer == \A r, q \in versions : r.manifest = q.manifest => r = q
CurrentNotArchived ==
    \A p \in Paths, r \in versions : files[p] # NoRow => files[p].manifest # r.manifest

LEMMA OnceByRows == EachVersionOnce <=> FilesDiffer /\ VersionsDiffer /\ CurrentNotArchived
  BY DEF EachVersionOnce, FilesDiffer, VersionsDiffer, CurrentNotArchived,
         CurrentManifests, ArchivedManifests, LivePaths, FileExists

LEMMA OnceByRowsNext ==
  ASSUME FilesDiffer', VersionsDiffer', CurrentNotArchived'
  PROVE  EachVersionOnce'
  BY DEF EachVersionOnce, FilesDiffer, VersionsDiffer, CurrentNotArchived,
         CurrentManifests, ArchivedManifests, LivePaths, FileExists

\* Archiving the current version of p, which leaves p to another manifest or to none.
LEMMA OnceReplaced ==
  ASSUME TypeInv, EachVersionOnce, NEW p \in Paths, NEW row \in Row,
         files' = [files EXCEPT ![p] = row],
         versions' = IF files[p] # NoRow THEN Archive(p, files[p]) ELSE versions,
         row # NoRow => row.manifest = uploads + 1
  PROVE  EachVersionOnce'
<1>1. FilesDiffer /\ VersionsDiffer /\ CurrentNotArchived
  BY OnceByRows
<1>2. uploads \in Nat
  BY BoundsAreNumbers DEF TypeInv, TypeOK
<1>3. /\ \A q \in Paths : files[q].manifest # uploads + 1
      /\ \A r \in versions : r.manifest # uploads + 1
  <2>1. \A q \in Paths : files[q].manifest \in Nat /\ files[q].manifest <= uploads
    BY RowTyped DEF TypeInv, Numbered
  <2>2. \A r \in versions : r.manifest \in Nat /\ r.manifest <= uploads
    BY BoundsAreNumbers DEF TypeInv, TypeOK, Numbered, Version, Manifests
  <2> QED
    BY <1>2, <2>1, <2>2
<1>4. \A q \in Paths : files'[q] = IF q = p THEN row ELSE files[q]
  BY DEF TypeInv, TypeOK
<1> DEFINE old == [path |-> p, version |-> files[p].version, manifest |-> files[p].manifest]
<1>5. \A r \in versions' : r \in versions \/ (files[p] # NoRow /\ r = old)
  BY DEF Archive
<1>6. old.manifest = files[p].manifest
  OBVIOUS
<1> HIDE DEF old
<1>7. FilesDiffer'
  BY <1>1, <1>3, <1>4 DEF FilesDiffer, NoRow
<1>8. VersionsDiffer'
  BY <1>1, <1>5, <1>6 DEF VersionsDiffer, CurrentNotArchived
<1>9. CurrentNotArchived'
  <2> SUFFICES ASSUME NEW q \in Paths, NEW r \in versions', files'[q] # NoRow
               PROVE  files'[q].manifest # r.manifest
    BY DEF CurrentNotArchived, NoRow
  <2>1. CASE q = p
    BY <1>3, <1>4, <1>5, <1>6, <2>1
  <2>2. CASE q # p
    BY <1>1, <1>4, <1>5, <1>6, <2>2 DEF FilesDiffer, CurrentNotArchived
  <2> QED
    BY <2>1, <2>2
<1> QED
  BY <1>7, <1>8, <1>9, OnceByRowsNext

\* Rows of files stay, rows of the history may go.
LEMMA OnceForgotten ==
  ASSUME EachVersionOnce, files' = files, versions' \subseteq versions
  PROVE  EachVersionOnce'
<1>1. FilesDiffer /\ VersionsDiffer /\ CurrentNotArchived
  BY OnceByRows
<1>2. FilesDiffer' /\ VersionsDiffer' /\ CurrentNotArchived'
  BY <1>1 DEF FilesDiffer, VersionsDiffer, CurrentNotArchived
<1> QED
  BY <1>2, OnceByRowsNext

LEMMA OnceRenamed ==
  ASSUME TypeInv, EachVersionOnce, NEW s \in Paths, NEW d \in Paths, Rename(s, d)
  PROVE  EachVersionOnce'
<1>1. FilesDiffer /\ VersionsDiffer /\ CurrentNotArchived
  BY OnceByRows
<1>2. KeysUnique(s, d) /\ \A p \in MovedFiles(s) : NewPath(p, s, d) \in Paths
  BY DEF Rename
<1>3. files' = NewFiles(s, d) /\ versions' = NewVersions(s, d)
  BY DEF Rename
<1>4. \A p \in Paths : files'[p] # NoRow =>
        \E q \in Paths : files[q] # NoRow /\ files'[p] = files[q] /\ p = Target(q, s, d)
  BY <1>2, <1>3, FilesRenamed DEF LivePaths, FileExists
<1> DEFINE Moved(r) ==
      [path |-> IF r.path \in MovedFiles(s) THEN NewPath(r.path, s, d) ELSE r.path,
       version |-> r.version, manifest |-> r.manifest]
<1>5. \A n \in versions' : \E r \in versions : n = Moved(r)
  BY <1>2, <1>3, HistoryRenamed DEF TypeInv, PurgedVersions
<1>6. \A r : Moved(r).manifest = r.manifest
  OBVIOUS
<1> HIDE DEF Moved
<1>7. FilesDiffer'
  BY <1>1, <1>4 DEF FilesDiffer, NoRow
<1>8. VersionsDiffer'
  BY <1>1, <1>5, <1>6 DEF VersionsDiffer
<1>9. CurrentNotArchived'
  BY <1>1, <1>4, <1>5, <1>6 DEF CurrentNotArchived, NoRow
<1> QED
  BY <1>7, <1>8, <1>9, OnceByRowsNext

LEMMA OnceNext == TypeInv /\ EachVersionOnce /\ [Next]_vars => EachVersionOnce'
<1> SUFFICES ASSUME TypeInv, EachVersionOnce, [Next]_vars PROVE EachVersionOnce'
  OBVIOUS
<1>1. ASSUME NEW p \in Paths, Upload(p) PROVE EachVersionOnce'
  <2> DEFINE row == [manifest |-> uploads + 1, version |-> NextVersion(p)]
  <2>1. row \in Row /\ row.manifest = uploads + 1
    <3>1. uploads \in Nat /\ MaxUploads \in Nat /\ uploads + 1 <= MaxUploads
      BY <1>1, BoundsAreNumbers DEF Upload, TypeInv, TypeOK
    <3>2. NextVersion(p) \in 1 .. uploads + 1
      BY NextVersionBounded
    <3> QED
      BY <3>1, <3>2 DEF Row, Manifests
  <2>2. /\ files' = [files EXCEPT ![p] = row]
        /\ versions' = IF files[p] # NoRow THEN Archive(p, files[p]) ELSE versions
    BY <1>1 DEF Upload, FileExists
  <2> HIDE DEF row
  <2> QED
    BY <2>1, <2>2, OnceReplaced
<1>2. ASSUME NEW p \in Paths, DeleteFile(p) PROVE EachVersionOnce'
  <2>1. /\ files' = [files EXCEPT ![p] = NoRow]
        /\ versions' = IF files[p] # NoRow THEN Archive(p, files[p]) ELSE versions
    BY <1>2 DEF DeleteFile, FileExists
  <2> QED
    BY <2>1, NoRowTyped, OnceReplaced
<1>3. ASSUME NEW p \in Paths, Mkdir(p) \/ DeleteDirectory(p) PROVE EachVersionOnce'
  BY <1>3, OnceForgotten DEF Mkdir, DeleteDirectory
<1>4. ASSUME NEW s \in Paths, NEW d \in Paths, RenameFails(s, d) PROVE EachVersionOnce'
  BY <1>4, OnceForgotten DEF RenameFails, PurgedVersions
<1>5. CASE Gc
  BY <1>5, OnceForgotten DEF Gc
<1>6. CASE UNCHANGED vars
  BY <1>6, OnceForgotten DEF vars
<1> QED
  BY <1>1, <1>2, <1>3, <1>4, <1>5, <1>6, OnceRenamed DEF Next

\* No manifest is ever the version of two paths, nor current and archived at once,
\* after any sequence of uploads, deletions and renames.
THEOREM VersionsInOnePlace == Spec => []EachVersionOnce
<1>1. Init => TypeInv /\ EachVersionOnce
  <2>1. Init => FilesDiffer /\ VersionsDiffer /\ CurrentNotArchived
    BY DEF Init, FilesDiffer, VersionsDiffer, CurrentNotArchived
  <2> QED
    BY <2>1, TypeInit, OnceByRows
<1>2. TypeInv /\ EachVersionOnce /\ [Next]_vars => (TypeInv /\ EachVersionOnce)'
  BY TypeNext, OnceNext
<1> QED
  BY <1>1, <1>2, PTL DEF Spec
---------------------------------------------------------------------------
(* The tree                                                                *)

\* p is s or lies below it, name by name.
Extends(p, s) == Len(s) <= Len(p) /\ \A i \in 1 .. Len(s) : p[i] = s[i]

LEMMA PathShape ==
  ASSUME NEW p \in Paths
  PROVE  p \in Seq(Names) /\ Len(p) \in Nat \ {0} /\ p # <<>> /\ DOMAIN p = 1 .. Len(p)
<1>1. p \in Seq(Names) /\ p # <<>>
  BY PathsAreSequencesOfNames
<1> QED
  BY <1>1, LenProperties, EmptySeq

LEMMA ParentShape ==
  ASSUME NEW p \in Paths
  PROVE  /\ Parent(p) \in Seq(Names) /\ Len(Parent(p)) = Len(p) - 1
         /\ \A i \in 1 .. Len(p) - 1 : Parent(p)[i] = p[i]
         /\ Len(p) > 1 => Parent(p) # <<>>
<1>1. p \in Seq(Names) /\ Len(p) \in Nat \ {0}
  BY PathShape
<1>2. \A i \in 1 .. Len(p) - 1 : p[i] \in Names
  BY <1>1, ElementOfSeq
<1>3. Parent(p) = SubSeq(p, 1, Len(p) - 1)
  BY DEF Parent, Front
<1>4. PICK n \in Nat : n = Len(p) - 1
  BY <1>1
<1>5. /\ SubSeq(p, 1, n) \in Seq(Names) /\ Len(SubSeq(p, 1, n)) = IF 1 <= n THEN n - 1 + 1 ELSE 0
      /\ \A i \in 1 .. n - 1 + 1 : SubSeq(p, 1, n)[i] = p[1 + i - 1]
  BY <1>2, <1>4, SubSeqProperties
<1>6. Len(SubSeq(p, 1, n)) = n /\ \A i \in 1 .. n : SubSeq(p, 1, n)[i] = p[i]
  BY <1>5
<1>7. /\ Parent(p) \in Seq(Names) /\ Len(Parent(p)) = Len(p) - 1
      /\ \A i \in 1 .. Len(p) - 1 : Parent(p)[i] = p[i]
  BY <1>3, <1>4, <1>5, <1>6
<1> QED
  BY <1>1, <1>7, EmptySeq

\* The path of length k above n.
LEMMA AncestorShape ==
  ASSUME NEW n \in Paths, NEW k \in 1 .. Len(n)
  PROVE  /\ SubSeq(n, 1, k) \in Seq(Names) /\ Len(SubSeq(n, 1, k)) = k
         /\ \A i \in 1 .. k : SubSeq(n, 1, k)[i] = n[i]
<1>1. n \in Seq(Names) /\ Len(n) \in Nat
  BY PathShape
<1>2. \A i \in 1 .. k : n[i] \in Names
  BY <1>1, ElementOfSeq
<1> QED
  BY <1>1, <1>2, SubSeqProperties

\* In a tree nothing lies at or below a path that is not there.
LEMMA NothingBelow ==
  ASSUME TypeOK, Tree, NEW d \in Paths, ~Exists(d), NEW n \in dirs \cup LivePaths
  PROVE  ~Extends(n, d)
<1> SUFFICES ASSUME Extends(n, d) PROVE FALSE
  OBVIOUS
<1>1. n \in Paths /\ Len(n) \in Nat /\ Len(d) \in Nat \ {0} /\ Len(d) <= Len(n)
  BY PathShape DEF TypeOK, LivePaths, Extends
<1> DEFINE K == {k \in Len(d) .. Len(n) : SubSeq(n, 1, k) \notin dirs \cup LivePaths}
<1>2. d \notin dirs \cup LivePaths
  BY DEF Exists, DirectoryExists, LivePaths
<1>3. SubSeq(n, 1, Len(d)) = d
  <2>1. Len(d) \in 1 .. Len(n)
    BY <1>1
  <2> QED
    BY <2>1, AncestorShape, PathShape, SeqEqual DEF Extends
<1>4. SubSeq(n, 1, Len(n)) = n
  <2>1. Len(n) \in 1 .. Len(n)
    BY <1>1
  <2> QED
    BY <1>1, <2>1, AncestorShape, PathShape, SeqEqual
<1>5. Len(d) \in K /\ \A x \in K : x \in Nat /\ x <= Len(n)
  <2>1. Len(d) \in Len(d) .. Len(n)
    BY <1>1
  <2>2. Len(d) \in K
    BY <1>2, <1>3, <2>1
  <2>3. \A x \in K : x \in Nat /\ x <= Len(n)
    BY <1>1
  <2> QED
    BY <2>2, <2>3
<1>6. PICK k \in K : \A x \in K : x <= k
  BY <1>1, <1>5, MaxOfBounded
<1>7. k \in Len(d) .. Len(n) /\ SubSeq(n, 1, k) \notin dirs \cup LivePaths
  OBVIOUS
<1>8. k # Len(n)
  BY <1>4, <1>7
<1>9. k \in 1 .. Len(n) /\ k + 1 \in Len(d) .. Len(n) /\ k + 1 \in 1 .. Len(n)
  BY <1>1, <1>7, <1>8
<1>10. PICK q \in dirs \cup LivePaths : q = SubSeq(n, 1, k + 1)
  <2>1. k + 1 \notin K
    BY <1>1, <1>6, <1>7
  <2> QED
    BY <1>9, <2>1
<1>11. q \in Paths /\ Len(q) = k + 1 /\ \A i \in 1 .. k + 1 : q[i] = n[i]
  BY <1>1, <1>9, <1>10, AncestorShape DEF TypeOK, LivePaths
<1>12. Parent(q) = SubSeq(n, 1, k)
  <2>1. /\ Parent(q) \in Seq(Names) /\ Len(Parent(q)) = k
        /\ \A i \in 1 .. k : Parent(q)[i] = q[i]
    BY <1>1, <1>9, <1>11, ParentShape
  <2>2. /\ SubSeq(n, 1, k) \in Seq(Names) /\ Len(SubSeq(n, 1, k)) = k
        /\ \A i \in 1 .. k : SubSeq(n, 1, k)[i] = n[i]
    BY <1>1, <1>9, AncestorShape
  <2>3. \A i \in 1 .. k : q[i] = n[i]
    BY <1>1, <1>9, <1>11
  <2> QED
    BY <2>1, <2>2, <2>3, SeqEqual
<1>13. Parent(q) \in dirs
  BY <1>9, <1>11, ParentShape DEF Tree, DirectoryExists
<1> QED
  BY <1>7, <1>12, <1>13

\* Where a rename puts what extends its source.
LEMMA NewPathShape ==
  ASSUME NEW s \in Paths, NEW d \in Paths, NEW m \in Seq(Names), Extends(m, s)
  PROVE  /\ NewPath(m, s, d) \in Seq(Names)
         /\ Len(NewPath(m, s, d)) = Len(d) + (Len(m) - Len(s))
         /\ \A i \in 1 .. Len(d) : NewPath(m, s, d)[i] = d[i]
         /\ \A i \in 1 .. Len(m) - Len(s) : NewPath(m, s, d)[Len(d) + i] = m[Len(s) + i]
<1> DEFINE rest == SubSeq(m, Len(s) + 1, Len(m))
<1>1. /\ Len(m) \in Nat /\ Len(s) \in Nat /\ Len(d) \in Nat /\ Len(s) <= Len(m)
      /\ d \in Seq(Names)
  BY PathShape, LenProperties DEF Extends
<1>2. \A i \in Len(s) + 1 .. Len(m) : m[i] \in Names
  BY <1>1, ElementOfSeq
<1>3. /\ rest \in Seq(Names)
      /\ Len(rest) = IF Len(s) + 1 <= Len(m) THEN Len(m) - (Len(s) + 1) + 1 ELSE 0
      /\ \A i \in 1 .. Len(m) - (Len(s) + 1) + 1 : rest[i] = m[Len(s) + 1 + i - 1]
  BY <1>1, <1>2, SubSeqProperties
<1>4. Len(rest) = Len(m) - Len(s) /\ \A i \in 1 .. Len(m) - Len(s) : rest[i] = m[Len(s) + i]
  BY <1>1, <1>3
<1>5. NewPath(m, s, d) = d \o rest
  BY DEF NewPath
<1> HIDE DEF rest
<1>6. /\ d \o rest \in Seq(Names) /\ Len(d \o rest) = Len(d) + Len(rest)
      /\ \A i \in 1 .. Len(d) + Len(rest) :
            (d \o rest)[i] = IF i <= Len(d) THEN d[i] ELSE rest[i - Len(d)]
  BY <1>1, <1>3, ConcatProperties
<1>7. \A i \in 1 .. Len(d) : (d \o rest)[i] = d[i]
  BY <1>1, <1>4, <1>6
<1>8. ASSUME NEW i \in 1 .. Len(m) - Len(s)
      PROVE  (d \o rest)[Len(d) + i] = m[Len(s) + i]
  <2>1. /\ Len(d) + i \in 1 .. Len(d) + Len(rest) /\ ~(Len(d) + i <= Len(d))
        /\ Len(d) + i - Len(d) = i
    BY <1>1, <1>4
  <2> QED
    BY <1>4, <1>6, <2>1
<1> QED
  BY <1>1, <1>4, <1>5, <1>6, <1>7, <1>8

\* The source itself lands on the destination, what is below it below.
LEMMA NewPathTree ==
  ASSUME NEW s \in Paths, NEW d \in Paths, NEW m \in Paths, Extends(m, s),
         NewPath(m, s, d) \in Paths
  PROVE  /\ Extends(NewPath(m, s, d), d)
         /\ Len(m) = Len(s) => m = s
         /\ m = s => NewPath(m, s, d) = d
         /\ m # s => /\ Extends(Parent(m), s) /\ Len(m) > Len(s)
                     /\ Parent(NewPath(m, s, d)) = NewPath(Parent(m), s, d)
<1> DEFINE n == NewPath(m, s, d)
<1>1. /\ m \in Seq(Names) /\ Len(m) \in Nat \ {0}
      /\ s \in Seq(Names) /\ Len(s) \in Nat \ {0}
      /\ d \in Seq(Names) /\ Len(d) \in Nat \ {0}
      /\ Len(s) <= Len(m) /\ \A i \in 1 .. Len(s) : m[i] = s[i]
  BY PathShape DEF Extends
<1>2. /\ n \in Seq(Names) /\ Len(n) = Len(d) + (Len(m) - Len(s))
      /\ \A i \in 1 .. Len(d) : n[i] = d[i]
      /\ \A i \in 1 .. Len(m) - Len(s) : n[Len(d) + i] = m[Len(s) + i]
  <2> HIDE DEF n
  <2>1. /\ NewPath(m, s, d) \in Seq(Names)
        /\ Len(NewPath(m, s, d)) = Len(d) + (Len(m) - Len(s))
        /\ \A i \in 1 .. Len(d) : NewPath(m, s, d)[i] = d[i]
        /\ \A i \in 1 .. Len(m) - Len(s) : NewPath(m, s, d)[Len(d) + i] = m[Len(s) + i]
    BY <1>1, NewPathShape
  <2> QED
    BY <2>1 DEF n
<1>3. n \in Paths
  OBVIOUS
<1> HIDE DEF n
<1>4. Extends(n, d)
  BY <1>1, <1>2 DEF Extends
<1>5. Len(m) = Len(s) => m = s
  BY <1>1, SeqEqual
<1>6. m = s => n = d
  BY <1>1, <1>2, SeqEqual
<1>7. ASSUME m # s
      PROVE  Extends(Parent(m), s) /\ Len(m) > Len(s) /\ Parent(n) = NewPath(Parent(m), s, d)
  <2>1. Len(m) > Len(s)
    BY <1>1, <1>5, <1>7
  <2>2. /\ Parent(m) \in Seq(Names) /\ Len(Parent(m)) = Len(m) - 1
        /\ \A i \in 1 .. Len(m) - 1 : Parent(m)[i] = m[i]
        /\ Parent(n) \in Seq(Names) /\ Len(Parent(n)) = Len(n) - 1
        /\ \A i \in 1 .. Len(n) - 1 : Parent(n)[i] = n[i]
    BY <1>3, ParentShape
  <2>3. Extends(Parent(m), s)
    BY <1>1, <2>1, <2>2 DEF Extends
  <2> DEFINE q == NewPath(Parent(m), s, d)
  <2>4. /\ q \in Seq(Names) /\ Len(q) = Len(d) + (Len(m) - 1 - Len(s))
        /\ \A i \in 1 .. Len(d) : q[i] = d[i]
        /\ \A i \in 1 .. Len(m) - 1 - Len(s) : q[Len(d) + i] = Parent(m)[Len(s) + i]
    <3>1. /\ q \in Seq(Names) /\ Len(q) = Len(d) + (Len(Parent(m)) - Len(s))
          /\ \A i \in 1 .. Len(d) : q[i] = d[i]
          /\ \A i \in 1 .. Len(Parent(m)) - Len(s) : q[Len(d) + i] = Parent(m)[Len(s) + i]
      BY <2>2, <2>3, NewPathShape
    <3> HIDE DEF q
    <3> QED
      BY <2>2, <3>1
  <2> HIDE DEF q
  <2>5. Len(q) = Len(Parent(n))
    BY <1>1, <1>2, <2>1, <2>2, <2>4
  <2>6. ASSUME NEW i \in 1 .. Len(q) PROVE q[i] = Parent(n)[i]
    <3>1. i \in Nat /\ i <= Len(d) + (Len(m) - 1 - Len(s)) /\ i >= 1 /\ i \in 1 .. Len(n) - 1
      BY <1>1, <1>2, <2>1, <2>4
    <3>2. CASE i <= Len(d)
      <4>1. i \in 1 .. Len(d)
        BY <1>1, <3>1, <3>2
      <4> QED
        BY <1>2, <2>2, <2>4, <3>1, <4>1
    <3>3. CASE i > Len(d)
      <4>1. PICK k \in 1 .. Len(m) - 1 - Len(s) : i = Len(d) + k
        <5>1. i - Len(d) \in 1 .. Len(m) - 1 - Len(s) /\ i = Len(d) + (i - Len(d))
          BY <1>1, <3>1, <3>3
        <5> QED
          BY <5>1
      <4>2. k \in 1 .. Len(m) - Len(s) /\ Len(s) + k \in 1 .. Len(m) - 1
        BY <1>1, <2>1, <4>1
      <4>3. q[i] = m[Len(s) + k]
        BY <2>2, <2>4, <4>1, <4>2
      <4>4. Parent(n)[i] = n[Len(d) + k]
        BY <2>2, <3>1, <4>1
      <4> QED
        BY <1>2, <4>2, <4>3, <4>4
    <3> QED
      BY <1>1, <3>1, <3>2, <3>3
  <2>7. q = Parent(n)
    BY <2>2, <2>4, <2>5, <2>6, SeqEqual
  <2> QED
    BY <2>1, <2>3, <2>7 DEF q
<1> QED
  BY <1>4, <1>5, <1>6, <1>7 DEF n

LEMMA NewPathInjective ==
  ASSUME NEW s \in Paths, NEW d \in Paths, NEW m \in Paths, NEW n \in Paths,
         Extends(m, s), Extends(n, s), NewPath(m, s, d) = NewPath(n, s, d)
  PROVE  m = n
<1>1. /\ m \in Seq(Names) /\ Len(m) \in Nat /\ n \in Seq(Names) /\ Len(n) \in Nat
      /\ Len(s) \in Nat /\ Len(d) \in Nat /\ Len(s) <= Len(m) /\ Len(s) <= Len(n)
      /\ \A i \in 1 .. Len(s) : m[i] = s[i] /\ n[i] = s[i]
  BY PathShape DEF Extends
<1> DEFINE t == NewPath(m, s, d)
<1>2. /\ Len(t) = Len(d) + (Len(m) - Len(s))
      /\ \A i \in 1 .. Len(m) - Len(s) : t[Len(d) + i] = m[Len(s) + i]
      /\ Len(t) = Len(d) + (Len(n) - Len(s))
      /\ \A i \in 1 .. Len(n) - Len(s) : t[Len(d) + i] = n[Len(s) + i]
  <2>1. /\ Len(t) = Len(d) + (Len(m) - Len(s))
        /\ \A i \in 1 .. Len(m) - Len(s) : t[Len(d) + i] = m[Len(s) + i]
    BY <1>1, NewPathShape
  <2>2. /\ Len(t) = Len(d) + (Len(n) - Len(s))
        /\ \A i \in 1 .. Len(n) - Len(s) : t[Len(d) + i] = n[Len(s) + i]
    <3> DEFINE u == NewPath(n, s, d)
    <3>1. /\ Len(u) = Len(d) + (Len(n) - Len(s))
          /\ \A i \in 1 .. Len(n) - Len(s) : u[Len(d) + i] = n[Len(s) + i]
      BY <1>1, NewPathShape
    <3>2. t = u
      OBVIOUS
    <3> HIDE DEF t, u
    <3> QED
      BY <3>1, <3>2
  <2> QED
    BY <2>1, <2>2
<1> HIDE DEF t
<1>3. Len(m) = Len(n)
  BY <1>1, <1>2
<1>4. ASSUME NEW i \in 1 .. Len(m) PROVE m[i] = n[i]
  <2>1. CASE i <= Len(s)
    <3>1. i \in 1 .. Len(s)
      BY <1>1, <2>1
    <3> QED
      BY <1>1, <3>1
  <2>2. CASE i > Len(s)
    <3>1. i - Len(s) \in 1 .. Len(m) - Len(s) /\ i = Len(s) + (i - Len(s))
      BY <1>1, <2>2
    <3>2. PICK k \in 1 .. Len(m) - Len(s) : i = Len(s) + k
      BY <3>1
    <3> QED
      BY <1>2, <1>3, <3>2
  <2> QED
    BY <1>1, <2>1, <2>2
<1> QED
  BY <1>1, <1>3, <1>4, SeqEqual

\* A rename that takes nothing too much: what it takes extends its source.
LEMMA TakenExtends ==
  ASSUME TypeOK, NEW s \in Paths, NEW d \in Paths, ~TakesTooMuch(s, d),
         FileExists(s) \/ s \in dirs
  PROVE  /\ MovedFiles(s) \subseteq LivePaths /\ MovedDirs(s) \subseteq dirs
         /\ \A m \in MovedFiles(s) \cup MovedDirs(s) : m \in Paths /\ Extends(m, s)
<1>1. MovedFiles(s) \subseteq LivePaths /\ MovedDirs(s) \subseteq dirs
  BY DEF MovedFiles, MovedDirs, LivePaths
<1>2. ASSUME NEW m \in MovedFiles(s) \cup MovedDirs(s)
      PROVE  m \in Paths /\ Extends(m, s)
  <2>1. IsPrefix(s, m)
    BY DEF TakesTooMuch
  <2>2. m \in Paths
    BY <1>1 DEF TypeOK, LivePaths
  <2>3. Len(s) \in Nat \ {0} /\ Len(m) \in Nat /\ Len(s) <= Len(m)
    BY <2>1, <2>2, PathShape DEF IsPrefix
  <2>4. SubSeq(s, 1, Len(s)) = SubSeq(m, 1, Len(s))
    BY <2>1 DEF IsPrefix
  <2>5. Len(s) \in 1 .. Len(s) /\ Len(s) \in 1 .. Len(m)
    BY <2>3
  <2>6. \A i \in 1 .. Len(s) : SubSeq(s, 1, Len(s))[i] = s[i] /\ SubSeq(m, 1, Len(s))[i] = m[i]
    BY <2>2, <2>5, AncestorShape
  <2> QED
    BY <2>2, <2>3, <2>4, <2>6 DEF Extends
<1> QED
  BY <1>1, <1>2

\* It takes the directory of everything it takes, except the source's own ..
LEMMA ParentTaken ==
  ASSUME TypeOK, Tree, NEW s \in Paths, NEW d \in Paths, ~TakesTooMuch(s, d),
         FileExists(s) \/ s \in dirs,
         NEW m \in MovedFiles(s) \cup MovedDirs(s), m # s
  PROVE  Parent(m) \in MovedDirs(s)
<1>1. /\ m \in Paths /\ Extends(m, s) /\ m \in dirs \cup LivePaths
      /\ Len(m) \in Nat /\ Len(s) \in Nat \ {0}
  BY TakenExtends, PathShape
<1>2. ~FileExists(s)
  BY DEF MovedFiles, MovedDirs
<1>3. Len(m) > Len(s)
  BY <1>1, PathShape, SeqEqual DEF Extends
<1>4. /\ Parent(m) \in Seq(Names) /\ Len(Parent(m)) = Len(m) - 1 /\ Parent(m) # <<>>
      /\ \A i \in 1 .. Len(m) - 1 : Parent(m)[i] = m[i]
  BY <1>1, <1>3, ParentShape
<1>5. Parent(m) \in dirs
  BY <1>1, <1>4 DEF Tree, DirectoryExists
<1>6. \A i \in 1 .. Len(s) : Parent(m)[i] = s[i]
  BY <1>1, <1>3, <1>4 DEF Extends
<1>7. CASE Len(Parent(m)) = Len(s)
  <2>1. Parent(m) = s
    BY <1>4, <1>6, <1>7, PathShape, SeqEqual
  <2> QED
    BY <1>2, <2>1 DEF MovedDirs
<1>8. CASE Len(Parent(m)) > Len(s)
  <2>1. Below(Parent(m), s)
    BY <1>6, <1>8, PathShape DEF Below
  <2> QED
    BY <1>2, <1>5, <2>1 DEF MovedDirs
<1> QED
  BY <1>1, <1>3, <1>4, <1>7, <1>8

\* .. and everything in the directories it takes.
LEMMA ChildTaken ==
  ASSUME TypeOK, NEW s \in Paths, NEW q \in dirs \cup LivePaths, Parent(q) \in MovedDirs(s)
  PROVE  /\ q \in dirs => q \in MovedDirs(s)
         /\ q \in LivePaths => q \in MovedFiles(s)
<1>1. /\ q \in Paths /\ Len(q) \in Nat /\ Len(s) \in Nat
      /\ DOMAIN s = 1 .. Len(s)
  BY PathShape DEF TypeOK, LivePaths
<1>2. ~FileExists(s) /\ (Parent(q) = s \/ Below(Parent(q), s))
  BY DEF MovedDirs
<1>3. Len(Parent(q)) = Len(q) - 1 /\ \A i \in 1 .. Len(q) - 1 : Parent(q)[i] = q[i]
  BY <1>1, ParentShape
<1>4. /\ Len(Parent(q)) >= Len(s)
      /\ \A i \in 1 .. Len(s) : Parent(q)[i] = s[i] \/ s[i] \in UnderscoreNames
  BY <1>1, <1>2, <1>3 DEF Below
<1>5. \A i \in 1 .. Len(s) : i \in 1 .. Len(q) - 1
  BY <1>1, <1>3, <1>4
<1>6. Len(q) > Len(s) /\ \A i \in 1 .. Len(s) : q[i] = s[i] \/ s[i] \in UnderscoreNames
  BY <1>1, <1>3, <1>4, <1>5
<1>7. Below(q, s)
  BY <1>1, <1>6 DEF Below
<1> QED
  BY <1>2, <1>7 DEF MovedDirs, MovedFiles

\* So the tree stays one, with the moved part hung in at the destination.
LEMMA RenameTree ==
  ASSUME TypeInv, Tree, NEW s \in Paths, NEW d \in Paths, Rename(s, d), ~TakesTooMuch(s, d)
  PROVE  Tree'
<1> DEFINE MF == MovedFiles(s)
           MD == MovedDirs(s)
           N(p) == NewPath(p, s, d)
<1>1. /\ TypeOK /\ KeysUnique(s, d) /\ ~Exists(d) /\ DirectoryExists(Parent(d))
      /\ FileExists(s) \/ s \in dirs
      /\ \A p \in MF \cup MD : N(p) \in Paths
      /\ files' = NewFiles(s, d) /\ dirs' = (dirs \ MD) \cup {N(p) : p \in MD}
  BY DEF Rename, RenameAllowed, TypeInv, NewDirs
<1>2. /\ MF \subseteq LivePaths /\ MD \subseteq dirs
      /\ \A m \in MF \cup MD : m \in Paths /\ Extends(m, s)
  BY <1>1, TakenExtends
<1>3. Parent(d) \notin MD
  BY DEF TakesTooMuch
<1>4. \A p \in LivePaths' : p \in LivePaths \ MF \/ \E m \in MF : p = N(m)
  <2> SUFFICES ASSUME NEW p \in LivePaths' PROVE p \in LivePaths \ MF \/ \E m \in MF : p = N(m)
    OBVIOUS
  <2>1. p \in Paths /\ NewFiles(s, d)[p] # NoRow
    BY <1>1 DEF LivePaths, FileExists
  <2>2. PICK q \in LivePaths : p = Target(q, s, d)
    BY <1>1, <2>1, FilesRenamed
  <2> QED
    BY <2>2 DEF Target
<1>5. \A p \in dirs' : p \in dirs \ MD \/ \E m \in MD : p = N(m)
  BY <1>1
<1>6. \A m \in MF \cup MD : DirectoryExists(Parent(N(m)))'
  <2> SUFFICES ASSUME NEW m \in MF \cup MD PROVE Parent(N(m)) = <<>> \/ Parent(N(m)) \in dirs'
    BY DEF DirectoryExists
  <2>1. CASE m = s
    <3>1. N(m) = d
      BY <1>1, <1>2, <2>1, NewPathTree
    <3> QED
      BY <1>1, <1>3, <3>1 DEF DirectoryExists
  <2>2. CASE m # s
    <3>1. Parent(N(m)) = N(Parent(m))
      BY <1>1, <1>2, <2>2, NewPathTree
    <3>2. Parent(m) \in MD
      BY <1>1, <2>2, ParentTaken
    <3> QED
      BY <1>1, <3>1, <3>2
  <2> QED
    BY <2>1, <2>2
<1>7. ASSUME NEW q \in dirs \cup LivePaths, q \in dirs => q \notin MD, q \in LivePaths => q \notin MF
      PROVE  Parent(q) = <<>> \/ Parent(q) \in dirs'
  <2>1. Parent(q) \notin MD
    BY <1>1, <1>7, ChildTaken
  <2>2. Parent(q) = <<>> \/ Parent(q) \in dirs
    BY DEF Tree, DirectoryExists
  <2> QED
    BY <1>1, <2>1, <2>2
<1>8. dirs \cap LivePaths = {}
  BY DEF Tree
<1>9. \A p \in dirs' \cup LivePaths' : DirectoryExists(Parent(p))'
  <2> SUFFICES ASSUME NEW p \in dirs' \cup LivePaths' PROVE DirectoryExists(Parent(p))'
    OBVIOUS
  <2>1. CASE \E m \in MF \cup MD : p = N(m)
    BY <1>6, <2>1
  <2>2. CASE p \in dirs \ MD \/ p \in LivePaths \ MF
    BY <1>7, <1>8, <2>2 DEF DirectoryExists
  <2> QED
    BY <1>4, <1>5, <2>1, <2>2
<1>10. \A m \in MF \cup MD : N(m) \notin dirs \cup LivePaths
  BY <1>1, <1>2, NewPathTree, NothingBelow
<1>11. \A m \in MD, k \in MF : N(m) # N(k)
  BY <1>2, <1>8, NewPathInjective
<1>12. dirs' \cap LivePaths' = {}
  BY <1>4, <1>5, <1>8, <1>10, <1>11
<1> QED
  BY <1>9, <1>12 DEF Tree

LEMMA TreeStep ==
  ASSUME TypeInv, Tree, [Next]_vars, ~(\E s, d \in Paths : TakesTooMuch(s, d) /\ Rename(s, d))
  PROVE  Tree'
<1>0. \A p \in dirs \cup LivePaths : Parent(p) = <<>> \/ Parent(p) \in dirs
  BY DEF Tree, DirectoryExists
<1>1. ASSUME dirs' = dirs, LivePaths' \subseteq LivePaths
      PROVE  Tree'
  BY <1>1 DEF Tree, DirectoryExists
<1>2. ASSUME NEW p \in Paths, Mkdir(p) PROVE Tree'
  <2>1. LivePaths' = LivePaths /\ dirs' = dirs \cup {p} /\ p \notin LivePaths
    BY <1>2 DEF Mkdir, LivePaths, FileExists, Exists
  <2> QED
    BY <1>2, <2>1 DEF Tree, DirectoryExists, Mkdir
<1>3. ASSUME NEW p \in Paths, Upload(p) PROVE Tree'
  <2>1. LivePaths' \subseteq LivePaths \cup {p} /\ dirs' = dirs /\ p \notin dirs
    BY <1>3 DEF Upload, LivePaths, FileExists, DirectoryExists, TypeInv, TypeOK
  <2> QED
    BY <1>3, <2>1 DEF Tree, DirectoryExists, Upload
<1>4. ASSUME NEW p \in Paths, DeleteDirectory(p) PROVE Tree'
  <2>1. LivePaths' = LivePaths /\ dirs' = dirs \ {p}
    BY <1>4 DEF DeleteDirectory, LivePaths, FileExists
  <2>2. ASSUME NEW q \in dirs \cup LivePaths, Parent(q) = p
        PROVE  FALSE
    <3>1. q \in Paths
      BY DEF TypeInv, TypeOK, LivePaths
    <3>2. Len(p) = Len(q) - 1 /\ \A i \in 1 .. Len(q) - 1 : p[i] = q[i]
      BY <2>2, <3>1, ParentShape
    <3>3. Len(q) \in Nat /\ Len(p) \in Nat /\ DOMAIN p = 1 .. Len(p)
      BY <3>1, PathShape
    <3>4. Below(q, p)
      BY <3>2, <3>3 DEF Below
    <3> QED
      BY <1>4, <3>4 DEF DeleteDirectory
  <2>3. \A q \in dirs' \cup LivePaths' : Parent(q) = <<>> \/ Parent(q) \in dirs'
    BY <1>0, <2>1, <2>2
  <2> QED
    BY <2>1, <2>3 DEF Tree, DirectoryExists
<1>5. ASSUME NEW p \in Paths, DeleteFile(p) PROVE Tree'
  <2>1. LivePaths' \subseteq LivePaths /\ dirs' = dirs
    BY <1>5 DEF DeleteFile, LivePaths, FileExists, TypeInv, TypeOK
  <2> QED
    BY <1>1, <2>1
<1>6. ASSUME NEW s \in Paths, NEW d \in Paths, Rename(s, d) PROVE Tree'
  BY <1>6, RenameTree
<1>7. CASE UNCHANGED <<dirs, files>>
  BY <1>1, <1>7 DEF LivePaths, FileExists
<1> QED
  BY <1>2, <1>3, <1>4, <1>5, <1>6, <1>7 DEF Next, vars, RenameFails, Gc

\* No call but a rename that takes too much makes anything but a tree of a tree: files and
\* directories keep a directory above them, and no path is both.  The destination of a
\* rename does not exist, so nothing lies below it, however long the paths are, and what
\* is moved there meets nothing.
THEOREM TreeStays == Spec => TreeKept
<1> DEFINE Step == Tree /\ ~(\E s, d \in Paths : TakesTooMuch(s, d) /\ Rename(s, d)) => Tree'
<1>1. Spec => []TypeInv
  BY TypeInit, TypeNext, PTL DEF Spec
<1>2. TypeInv /\ [Next]_vars => Step
  BY TreeStep
<1> HIDE DEF Step
<1>3. Spec => [][Step]_vars
  BY <1>1, <1>2, PTL DEF Spec
<1> QED
  BY <1>3 DEF TreeKept, Step
=============================================================================
