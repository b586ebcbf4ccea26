----------------------------- MODULE VaultProofs -----------------------------
(***************************************************************************)
(* Theorems about Vault for every value of its constants.                  *)
(***************************************************************************)
EXTENDS Vault, BoundedMax, TLAPS

---------------------------------------------------------------------------
(* Type correctness                                                        *)

\* Max needs a bound on the version numbers in use.
VersionsBounded == \E n \in Nat : \A r \in versions : r.version <= n

UploadPcs == {"pending", "chunks", "putObject", "putKey", "insertChunk", "pin", "unpin",
              "register", "verify", "commit", "insert", "fail", "unpinFailed"}
RenamePcs == {"purgeTarget", "purgeTargetEnd", "readSource", "move"}

\* What a job knows at each of its steps.
InStep(j) ==
    /\ j.pc \in UploadPcs => j.op \in Ops /\ j.path \in Paths
    /\ j.pc \in {"putObject", "putKey"} => j.cur = ManifestId(j.op) \/ j.cur \in ChunkIds
    /\ j.pc \in {"insertChunk", "pin"} => j.cur \in ChunkIds
    /\ j.pc = "delete" => j.path \in Paths /\ j.base # NoRow
    /\ j.pc \in RenamePcs \/ j.next = "readSource" => j.path \in Paths /\ j.dst \in Paths
    /\ j.next \in {"idle", "scan", "readSource"}

DbInv == DbTypeOK /\ VersionsBounded
JobInv == job \in [Gateways -> Job] /\ \A g \in Gateways : InStep(job[g])

TypeInv == DbInv /\ CloudTypeOK /\ JobInv

LEMMA RowTyped ==
  ASSUME DbInv, NEW p \in Paths
  PROVE  FileRow(p) \in Row /\ NextVersion(p) \in Nat
<1>1. FileRow(p) \in Row
  BY DEF DbInv, DbTypeOK, FileRow, Row
<1>2. CASE FileRow(p) # NoRow
  BY <1>1, <1>2 DEF NextVersion, Row
<1>3. CASE FileRow(p) = NoRow
  <2> DEFINE S == {0} \cup {r.version : r \in HistoryOf(p)}
  <2>1. S \in SUBSET Nat /\ S # {}
    BY DEF DbInv, DbTypeOK, HistoryOf, Version
  <2>2. PICK n \in Nat : \A r \in versions : r.version <= n
    BY DEF DbInv, VersionsBounded
  <2>3. \A x \in S : x <= n
    BY <2>2 DEF HistoryOf
  <2>4. Max(S) \in Nat
    BY <2>1, <2>3, MaxOfBounded
  <2>5. NextVersion(p) = Max(S) + 1
    BY <1>3 DEF NextVersion
  <2> QED
    BY <1>1, <2>4, <2>5
<1> QED
  BY <1>2, <1>3

\* The labels, so that Pc can stay folded.
LEMMA Labels ==
  /\ \A pc \in UploadPcs \cup RenamePcs : pc \in Pc
  /\ \A pc \in {"idle", "down", "delete", "limit", "purge", "purgeEnd", "collect",
                "dropManifests", "dropChunks", "dropRow", "scan", "sweep"} : pc \in Pc
  BY DEF Pc, UploadPcs, RenamePcs

LEMMA IdleTyped == IdleJob \in Job /\ InStep(IdleJob)
  BY Labels DEF IdleJob, Job, Row, InStep, UploadPcs, RenamePcs, Purge, NoPurge

LEMMA BecomeTyped ==
  ASSUME JobInv, NEW g \in Gateways, NEW j \in Job, InStep(j), Become(g, j)
  PROVE  JobInv'
  BY DEF JobInv, Become

LEMMA FinishTyped ==
  ASSUME JobInv, NEW g \in Gateways, Finish(g)
  PROVE  JobInv'
  BY IdleTyped, BecomeTyped DEF Finish

LEMMA GotoTyped ==
  ASSUME JobInv, NEW g \in Gateways, NEW pc \in Pc, Goto(g, pc),
         InStep([job[g] EXCEPT !.pc = pc])
  PROVE  JobInv'
<1>1. [job[g] EXCEPT !.pc = pc] \in Job
  BY DEF JobInv, Job
<1> QED
  BY <1>1, BecomeTyped DEF Goto

LEMMA DbUnchanged == DbInv /\ UNCHANGED dbVars => DbInv'
  BY DEF DbInv, DbTypeOK, VersionsBounded, dbVars

LEMMA CloudUnchanged == CloudTypeOK /\ UNCHANGED cloudVars => CloudTypeOK'
  BY DEF CloudTypeOK, cloudVars

---------------------------------------------------------------------------
(* The jobs                                                                *)

LEMMA UploadBeginJob ==
  ASSUME TypeInv, NEW g \in Gateways, NEW o \in Ops, NEW p \in Paths,
         NEW body \in SUBSET Blobs, UploadBegin(g, o, p, body)
  PROVE  JobInv'
<1> DEFINE j == [IdleJob EXCEPT !.pc = "pending", !.op = o, !.path = p, !.base = FileRow(p),
                                !.version = NextVersion(p), !.left = body]
<1>1. FileRow(p) \in Row /\ NextVersion(p) \in Nat
  BY RowTyped DEF TypeInv
<1>2. j \in Job /\ InStep(j)
  <2>1. j \in Job
    BY <1>1, Labels, IdleTyped DEF IdleJob, Job, UploadPcs, RenamePcs
  <2>2. InStep(j)
    BY <1>1, Labels, IdleTyped DEF IdleJob, Job, InStep, UploadPcs, RenamePcs
  <2> QED
    BY <2>1, <2>2
<1> QED
  BY <1>2, BecomeTyped DEF UploadBegin, TypeInv

LEMMA ReadChunkJob ==
  ASSUME TypeInv, NEW g \in Gateways, ReadChunk(g)
  PROVE  JobInv'
<1>0. job[g] \in Job
  BY DEF TypeInv, JobInv
<1>a. {"chunks", "pin", "putObject", "verify"} \subseteq Pc
  BY DEF Pc, UploadPcs
<1>1. PICK b \in job[g].left :
         \/ \E c \in chunks : Become(g, [job[g] EXCEPT !.cur = c, !.pc = "pin"])
         \/ Become(g, [job[g] EXCEPT !.cur = <<job[g].op, b>>, !.pc = "putObject"])
  BY DEF ReadChunk
<1>2. ASSUME NEW c \in chunks, Become(g, [job[g] EXCEPT !.cur = c, !.pc = "pin"])
      PROVE  JobInv'
  <2> DEFINE j == [job[g] EXCEPT !.cur = c, !.pc = "pin"]
  <2>1. j \in Job /\ InStep(j)
    <3>0. c \in ChunkIds
      BY DEF TypeInv, DbInv, DbTypeOK
    <3>1. j \in Job
      BY <1>0, <1>a, <3>0 DEF ObjectIds, Job
    <3>2. InStep(j)
      BY <1>2, <3>0 DEF ReadChunk, TypeInv, JobInv, InStep, Job, UploadPcs, RenamePcs, ObjectIds
    <3> QED
      BY <3>1, <3>2
  <2> QED
    BY <1>2, <2>1, BecomeTyped DEF TypeInv
<1>3. CASE Become(g, [job[g] EXCEPT !.cur = <<job[g].op, b>>, !.pc = "putObject"])
  <2> DEFINE j == [job[g] EXCEPT !.cur = <<job[g].op, b>>, !.pc = "putObject"]
  <2>1. <<job[g].op, b>> \in ChunkIds
    BY DEF ReadChunk, TypeInv, JobInv, InStep, Job, UploadPcs, ChunkIds
  <2>2. j \in Job /\ InStep(j)
    <3>1. j \in Job
      BY <1>0, <1>a, <2>1 DEF ObjectIds, Job
    <3>2. InStep(j)
      BY <2>1 DEF ReadChunk, TypeInv, JobInv, InStep, Job, UploadPcs, RenamePcs, ObjectIds
    <3> QED
      BY <3>1, <3>2
  <2> QED
    BY <1>3, <2>2, BecomeTyped DEF TypeInv
<1> QED
  BY <1>1, <1>2, <1>3

LEMMA UploadJobs ==
  ASSUME TypeInv, NEW g \in Gateways, Upload(g)
  PROVE  JobInv'
<1>0. job[g] \in Job
  BY DEF TypeInv, JobInv
<1>a. {"chunks", "pin", "putObject", "verify"} \subseteq Pc
  BY DEF Pc, UploadPcs
<1>1. CASE \E o \in Ops, p \in Paths, body \in SUBSET Blobs : UploadBegin(g, o, p, body)
  BY <1>1, UploadBeginJob
<1>2. CASE ReadChunk(g)
  BY <1>2, ReadChunkJob
<1>3. CASE UploadStart(g)
  BY <1>3, GotoTyped, Labels DEF UploadStart, TypeInv, JobInv, InStep, Job, UploadPcs, RenamePcs
<1>4. CASE BodyEndsEarly(g)
  BY <1>4, GotoTyped, Labels DEF BodyEndsEarly, TypeInv, JobInv, InStep, Job, UploadPcs, RenamePcs
<1>5. CASE PutObject(g)
  BY <1>5, GotoTyped, Labels DEF PutObject, TypeInv, JobInv, InStep, Job, UploadPcs, RenamePcs
<1>6. CASE PutObjectFails(g)
  BY <1>6, GotoTyped, Labels DEF PutObjectFails, TypeInv, JobInv, InStep, Job, UploadPcs, RenamePcs
<1>7. CASE PutKey(g)
  BY <1>7, GotoTyped, Labels DEF PutKey, TypeInv, JobInv, InStep, Job, UploadPcs, RenamePcs
<1>8. CASE PutKeyFails(g)
  BY <1>8, GotoTyped, Labels DEF PutKeyFails, TypeInv, JobInv, InStep, Job, UploadPcs, RenamePcs
<1>9. CASE InsertChunk(g)
  BY <1>9, GotoTyped, Labels DEF InsertChunk, TypeInv, JobInv, InStep, Job, UploadPcs, RenamePcs
<1>10. CASE InsertChunkRefused(g)
  BY <1>10, GotoTyped, Labels DEF InsertChunkRefused, TypeInv, JobInv, InStep, Job, UploadPcs,
     RenamePcs
<1>11. CASE FinishUnchanged(g)
  BY <1>11, GotoTyped, Labels DEF FinishUnchanged, TypeInv, JobInv, InStep, Job, UploadPcs,
     RenamePcs
<1>12. CASE Verify(g)
  BY <1>12, GotoTyped, Labels DEF Verify, TypeInv, JobInv, InStep, Job, UploadPcs, RenamePcs
<1>13. CASE VerifyFails(g)
  BY <1>13, GotoTyped, Labels DEF VerifyFails, TypeInv, JobInv, InStep, Job, UploadPcs, RenamePcs
<1>14. CASE CommitSeesNoRow(g)
  BY <1>14, GotoTyped, Labels DEF CommitSeesNoRow, TypeInv, JobInv, InStep, Job, UploadPcs,
     RenamePcs
<1>15. CASE CommitRefused(g)
  BY <1>15, GotoTyped, Labels DEF CommitRefused, TypeInv, JobInv, InStep, Job, UploadPcs, RenamePcs
<1>16. CASE MarkFailed(g)
  BY <1>16, GotoTyped, Labels DEF MarkFailed, TypeInv, JobInv, InStep, Job, UploadPcs, RenamePcs
<1>17. CASE UnpinUnchanged(g)
  BY <1>17, FinishTyped DEF UnpinUnchanged, TypeInv
<1>18. CASE CommitReplace(g)
  BY <1>18, FinishTyped DEF CommitReplace, Publish, TypeInv
<1>19. CASE CommitInsert(g)
  BY <1>19, FinishTyped DEF CommitInsert, Publish, TypeInv
<1>20. CASE PinChunk(g)
  <2> DEFINE j == [job[g] EXCEPT !.pc = "chunks", !.cur = NoObject,
                                  !.rows = @ \cup {job[g].cur},
                                  !.left = @ \ {Plaintext(job[g].cur)}]
  <2>1. j \in Job /\ InStep(j)
    <3>1. j \in Job
      BY <1>0, <1>a, <1>20 DEF PinChunk, TypeInv, JobInv, InStep, Job
    <3>2. InStep(j)
      BY <1>20 DEF PinChunk, TypeInv, JobInv, InStep, Job, UploadPcs, RenamePcs
    <3> QED
      BY <3>1, <3>2
  <2> QED
    BY <1>20, <2>1, BecomeTyped DEF PinChunk, TypeInv
<1>21. CASE StoreManifest(g)
  <2> DEFINE j == [job[g] EXCEPT !.cur = ManifestId(job[g].op), !.pc = "putObject"]
  <2>1. j \in Job /\ InStep(j)
    <3>0. ManifestId(job[g].op) \in ObjectIds
      BY <1>21 DEF StoreManifest, TypeInv, JobInv, InStep, UploadPcs, ManifestId, ManifestIds,
         ObjectIds
    <3>1. j \in Job
      BY <1>0, <1>a, <3>0 DEF Job
    <3>2. InStep(j)
      BY <1>21 DEF StoreManifest, TypeInv, JobInv, InStep, Job, UploadPcs, RenamePcs, ObjectIds,
         ManifestIds, ManifestId
    <3> QED
      BY <3>1, <3>2
  <2> QED
    BY <1>21, <2>1, BecomeTyped DEF StoreManifest, TypeInv
<1>22. CASE RegisterManifest(g)
  <2> DEFINE j == [job[g] EXCEPT !.pc = "verify", !.cur = NoObject]
  <2>1. j \in Job /\ InStep(j)
    <3>1. j \in Job
      BY <1>0, <1>a DEF Job
    <3>2. InStep(j)
      BY <1>22 DEF RegisterManifest, TypeInv, JobInv, InStep, Job, UploadPcs, RenamePcs
    <3> QED
      BY <3>1, <3>2
  <2> QED
    BY <1>22, <2>1, BecomeTyped DEF RegisterManifest, TypeInv
<1>23. CASE UnpinFailed(g)
  <2> DEFINE j == [IdleJob EXCEPT !.pc = "collect", !.path = job[g].path]
  <2>1. j \in Job /\ InStep(j)
    <3>1. j \in Job
      BY <1>23, Labels, IdleTyped DEF UnpinFailed, TypeInv, JobInv, Job, UploadPcs, RenamePcs,
         IdleJob
    <3>2. InStep(j)
      BY <1>23 DEF UnpinFailed, TypeInv, JobInv, InStep, Job, UploadPcs, RenamePcs, IdleJob
    <3> QED
      BY <3>1, <3>2
  <2> QED
    BY <1>23, <2>1, BecomeTyped DEF UnpinFailed, TypeInv
<1> QED
  BY <1>1, <1>2, <1>3, <1>4, <1>5, <1>6, <1>7, <1>8, <1>9, <1>10, <1>11, <1>12, <1>13, <1>14,
     <1>15, <1>16, <1>17, <1>18, <1>19, <1>20, <1>21, <1>22, <1>23 DEF Upload

\* The two ends of a purge.
LEMMA PurgeHistoryJob ==
  ASSUME TypeInv, NEW g \in Gateways, NEW p \in Paths, NEW pc, PurgeHistory(g, p, pc),
         pc = "purgeEnd" \/ (pc = "purgeTargetEnd" /\ job[g].pc = "purgeTarget")
  PROVE  JobInv'
<1> DEFINE t == [path |-> p, rows |-> HistoryOf(p)]
           j == [job[g] EXCEPT !.pc = pc, !.purge = t]
<1>1. job[g] \in Job /\ InStep(job[g]) /\ pc \in Pc
  BY Labels DEF TypeInv, JobInv, RenamePcs
<1>2. t \in Purge
  BY DEF TypeInv, DbInv, DbTypeOK, HistoryOf, Purge
<1> HIDE DEF t
<1>3. j \in Job
  BY <1>1, <1>2 DEF Job
<1>4. InStep(j)
  BY <1>1 DEF InStep, Job, UploadPcs, RenamePcs
<1> QED
  BY <1>3, <1>4, BecomeTyped DEF PurgeHistory, TypeInv, t

LEMMA NoPurgeTyped == NoPurge \in Purge
  BY DEF NoPurge, Purge

LEMMA DeleteOrRenameJobs ==
  ASSUME TypeInv, NEW g \in Gateways, DeleteOrRename(g)
  PROVE  JobInv'
<1>0. job[g] \in Job
  BY DEF TypeInv, JobInv
<1>a. {"purgeTarget", "readSource", "collect"} \subseteq Pc
  BY DEF Pc
<1>1. ASSUME NEW p \in Paths, DeleteBegin(g, p)
      PROVE  JobInv'
  <2> DEFINE j == [IdleJob EXCEPT !.pc = "delete", !.path = p, !.base = FileRow(p)]
  <2>1. FileRow(p) \in Row
    BY RowTyped DEF TypeInv
  <2>2. j \in Job /\ InStep(j)
    <3>1. j \in Job
      BY <1>1, <2>1, Labels, IdleTyped DEF DeleteBegin, IdleJob, Job, UploadPcs, RenamePcs
    <3>2. InStep(j)
      BY <1>1, <2>1 DEF DeleteBegin, IdleJob, Job, InStep, UploadPcs, RenamePcs
    <3> QED
      BY <3>1, <3>2
  <2> QED
    BY <1>1, <2>2, BecomeTyped DEF DeleteBegin, TypeInv
<1>2. ASSUME NEW s \in Paths, NEW d \in Paths, RenameBegin(g, s, d)
      PROVE  JobInv'
  <2> DEFINE j == [IdleJob EXCEPT !.pc = IF d \in deleted THEN "purgeTarget" ELSE "readSource",
                                  !.path = s, !.dst = d]
  <2>1. j \in Job /\ InStep(j)
    <3>1. j \in Job
      BY <1>a, IdleTyped DEF Job
    <3>2. InStep(j)
      BY DEF IdleJob, Job, InStep, UploadPcs, RenamePcs
    <3> QED
      BY <3>1, <3>2
  <2> QED
    BY <1>2, <2>1, BecomeTyped DEF RenameBegin, TypeInv
<1>3. CASE PurgeTarget(g)
  <2>1. job[g].dst \in Paths
    BY <1>3 DEF PurgeTarget, TypeInv, JobInv, InStep, RenamePcs
  <2> QED
    BY <1>3, <2>1, PurgeHistoryJob DEF PurgeTarget
<1>10. CASE PurgeTargetEnd(g)
  <2> DEFINE j == [job[g] EXCEPT !.pc = "collect", !.next = "readSource", !.purge = NoPurge]
  <2>1. j \in Job /\ InStep(j)
    <3>1. j \in Job
      BY <1>0, <1>a, NoPurgeTyped DEF Job
    <3>2. InStep(j)
      BY <1>10 DEF PurgeTargetEnd, TypeInv, JobInv, InStep, Job, UploadPcs, RenamePcs
    <3> QED
      BY <3>1, <3>2
  <2> QED
    BY <1>10, <2>1, BecomeTyped DEF PurgeTargetEnd, TypeInv
<1>4. CASE ReadSource(g)
  BY <1>4, GotoTyped, Labels DEF ReadSource, TypeInv, JobInv, InStep, Job, UploadPcs, RenamePcs
<1>5. CASE DeleteCommit(g)
  BY <1>5, FinishTyped DEF DeleteCommit, TypeInv
<1>6. CASE DeleteRefused(g)
  BY <1>6, FinishTyped DEF DeleteRefused, TypeInv
<1>7. CASE SourceNotFound(g)
  BY <1>7, FinishTyped DEF SourceNotFound, TypeInv
<1>8. CASE Move(g)
  BY <1>8, FinishTyped DEF Move, TypeInv
<1>9. CASE MoveRefused(g)
  BY <1>9, FinishTyped DEF MoveRefused, TypeInv
<1> QED
  BY <1>1, <1>2, <1>3, <1>4, <1>5, <1>6, <1>7, <1>8, <1>9, <1>10 DEF DeleteOrRename

LEMMA UnusedTyped ==
  ASSUME DbInv
  PROVE  UnusedManifests \subseteq ObjectIds /\ UnusedChunks \subseteq ObjectIds
<1>1. \A m \in Ops : ManifestId(m) \in ObjectIds
  BY DEF ManifestId, ManifestIds, ObjectIds
<1>2. UnusedManifests \subseteq ObjectIds
  BY <1>1 DEF UnusedManifests, DbInv, DbTypeOK
<1>3. UnusedChunks \subseteq ObjectIds
  BY DEF UnusedChunks, DbInv, DbTypeOK, ObjectIds
<1> QED
  BY <1>2, <1>3

LEMMA CollectJobs ==
  ASSUME TypeInv, NEW g \in Gateways, Collect(g)
  PROVE  JobInv'
<1>0. job[g] \in Job
  BY DEF TypeInv, JobInv
<1>a. "purge" \in Pc
  BY DEF Pc
<1>1. CASE GcBegin(g)
  <2> DEFINE j == [IdleJob EXCEPT !.pc = "limit", !.next = "scan",
                                  !.todo = {p \in Paths : files[p] # NoRow}]
  <2>1. j \in Job /\ InStep(j)
    <3>1. j \in Job
      BY <1>1, Labels, IdleTyped DEF GcBegin, TypeInv, JobInv, Job, UploadPcs, RenamePcs, IdleJob
    <3>2. InStep(j)
      BY <1>1 DEF GcBegin, TypeInv, JobInv, InStep, Job, UploadPcs, RenamePcs, IdleJob
    <3> QED
      BY <3>1, <3>2
  <2> QED
    BY <1>1, <2>1, BecomeTyped DEF GcBegin, TypeInv
<1>2. ASSUME NEW p \in Paths, GcLimit(g, p)
      PROVE  JobInv'
  <2> DEFINE j == [job[g] EXCEPT !.todo = @ \ {p}]
  <2>1. j \in Job /\ InStep(j)
    <3>1. j \in Job
      BY DEF TypeInv, JobInv, Job, UploadPcs, RenamePcs
    <3>2. InStep(j)
      BY DEF TypeInv, JobInv, InStep, Job, UploadPcs, RenamePcs
    <3> QED
      BY <3>1, <3>2
  <2> QED
    BY <1>2, <2>1, BecomeTyped DEF GcLimit, TypeInv
<1>3. ASSUME NEW p \in Paths, GcPurge(g, p)
      PROVE  JobInv'
  BY <1>3, PurgeHistoryJob DEF GcPurge
<1>15. CASE GcPurgeEnd(g)
  <2> DEFINE j == [job[g] EXCEPT !.pc = "purge", !.todo = @ \ {job[g].purge.path},
                                  !.purge = NoPurge]
  <2>1. j \in Job /\ InStep(j)
    <3>1. j \in Job
      BY <1>0, <1>a, NoPurgeTyped DEF Job
    <3>2. InStep(j)
      BY <1>15 DEF GcPurgeEnd, TypeInv, JobInv, InStep, Job, UploadPcs, RenamePcs
    <3> QED
      BY <3>1, <3>2
  <2> QED
    BY <1>15, <2>1, BecomeTyped DEF GcPurgeEnd, TypeInv
<1>4. CASE GcListDeleted(g)
  <2> DEFINE j == [job[g] EXCEPT !.pc = "purge", !.todo = deleted]
  <2>1. j \in Job /\ InStep(j)
    <3>1. j \in Job
      BY <1>0, Labels DEF TypeInv, DbInv, DbTypeOK, Job
    <3>2. InStep(j)
      BY <1>4 DEF GcListDeleted, TypeInv, JobInv, InStep, Job, UploadPcs, RenamePcs
    <3> QED
      BY <3>1, <3>2
  <2> QED
    BY <1>4, <2>1, BecomeTyped DEF GcListDeleted, TypeInv
<1>5. CASE GcCapacity(g)
  BY <1>5, GotoTyped, Labels DEF GcCapacity, TypeInv, JobInv, InStep, Job, UploadPcs, RenamePcs
<1>6. CASE SelectManifests(g)
  <2> DEFINE j == [job[g] EXCEPT !.pc = "dropManifests", !.ids = UnusedManifests]
  <2>1. j \in Job /\ InStep(j)
    <3>1. j \in Job
      BY <1>0, Labels, UnusedTyped DEF TypeInv, Job
    <3>2. InStep(j)
      BY <1>6 DEF SelectManifests, TypeInv, JobInv, InStep, Job, UploadPcs, RenamePcs
    <3> QED
      BY <3>1, <3>2
  <2> QED
    BY <1>6, <2>1, BecomeTyped DEF SelectManifests, TypeInv
<1>7. CASE SelectChunks(g)
  <2> DEFINE j == [job[g] EXCEPT !.pc = "dropChunks", !.ids = UnusedChunks]
  <2>1. j \in Job /\ InStep(j)
    <3>1. j \in Job
      BY <1>0, Labels, UnusedTyped DEF TypeInv, Job
    <3>2. InStep(j)
      BY <1>7 DEF SelectChunks, TypeInv, JobInv, InStep, Job, UploadPcs, RenamePcs
    <3> QED
      BY <3>1, <3>2
  <2> QED
    BY <1>7, <2>1, BecomeTyped DEF SelectChunks, TypeInv
<1>8. ASSUME NEW i \in ObjectIds, DropRemote(g, i)
      PROVE  JobInv'
  <2> DEFINE j == [job[g] EXCEPT !.pc = "dropRow", !.cur = i]
  <2>1. j \in Job /\ InStep(j)
    <3>1. j \in Job
      BY <1>0, Labels DEF Job
    <3>2. InStep(j)
      BY <1>8 DEF DropRemote, TypeInv, JobInv, InStep, Job, UploadPcs, RenamePcs
    <3> QED
      BY <3>1, <3>2
  <2> QED
    BY <1>8, <2>1, BecomeTyped DEF DropRemote, TypeInv
<1>9. ASSUME NEW i \in ObjectIds, DropRemoteFails(g, i)
      PROVE  JobInv'
  <2> DEFINE j == [job[g] EXCEPT !.ids = @ \ {i}]
  <2>1. j \in Job /\ InStep(j)
    <3>1. j \in Job
      BY DEF TypeInv, JobInv, Job, UploadPcs, RenamePcs
    <3>2. InStep(j)
      BY DEF TypeInv, JobInv, InStep, Job, UploadPcs, RenamePcs
    <3> QED
      BY <3>1, <3>2
  <2> QED
    BY <1>9, <2>1, BecomeTyped DEF DropRemoteFails, TypeInv
<1>10. CASE DropRow(g)
  <2> DEFINE i == job[g].cur
             jm == [job[g] EXCEPT !.pc = "dropManifests", !.cur = NoObject, !.ids = @ \ {i}]
             jc == [job[g] EXCEPT !.pc = "dropChunks", !.cur = NoObject, !.ids = @ \ {i}]
  <2>1. jm \in Job /\ InStep(jm) /\ jc \in Job /\ InStep(jc)
    <3>1. jm \in Job /\ jc \in Job
      BY <1>0, Labels DEF Job
    <3>2. InStep(jm) /\ InStep(jc)
      BY <1>10 DEF DropRow, TypeInv, JobInv, InStep, Job, UploadPcs, RenamePcs
    <3> QED
      BY <3>1, <3>2
  <2>2. Become(g, jm) \/ Become(g, jc)
    BY <1>10 DEF DropRow
  <2> QED
    BY <2>1, <2>2, BecomeTyped DEF TypeInv
<1>11. CASE CollectDone(g)
  <2>1. CASE job[g].next = "idle"
    BY <1>11, <2>1, FinishTyped DEF CollectDone, TypeInv
  <2>2. CASE job[g].next # "idle"
    <3>1. job[g].next \in Pc /\ InStep([job[g] EXCEPT !.pc = job[g].next])
      BY <2>2 DEF TypeInv, JobInv, InStep, Job, UploadPcs, RenamePcs
    <3> QED
      BY <1>11, <2>2, <3>1, GotoTyped DEF CollectDone, TypeInv
  <2> QED
    BY <2>1, <2>2
<1>12. CASE ScanKnown(g)
  <2> DEFINE j == [job[g] EXCEPT !.pc = "sweep", !.ids = aged \ Registered]
  <2>1. j \in Job /\ InStep(j)
    <3>1. j \in Job
      BY <1>0, Labels DEF TypeInv, CloudTypeOK, Job
    <3>2. InStep(j)
      BY <1>12 DEF ScanKnown, TypeInv, JobInv, InStep, Job, UploadPcs, RenamePcs
    <3> QED
      BY <3>1, <3>2
  <2> QED
    BY <1>12, <2>1, BecomeTyped DEF ScanKnown, TypeInv
<1>13. CASE Sweep(g)
  BY <1>13, FinishTyped DEF Sweep, TypeInv
<1>14. CASE SweepFails(g)
  BY <1>14, FinishTyped DEF SweepFails, TypeInv
<1> QED
  BY <1>1, <1>2, <1>3, <1>4, <1>5, <1>6, <1>7, <1>8, <1>9, <1>10, <1>11, <1>12, <1>13, <1>14,
     <1>15 DEF Collect

LEMMA CrashJobs ==
  ASSUME TypeInv, NEW g \in Gateways, Crash(g) \/ Restart(g)
  PROVE  JobInv'
<1>1. CASE Crash(g)
  <2> DEFINE j == [IdleJob EXCEPT !.pc = "down"]
  <2>1. j \in Job /\ InStep(j)
    <3>1. j \in Job
      BY Labels, IdleTyped DEF IdleJob, Job, UploadPcs, RenamePcs
    <3>2. InStep(j)
      BY DEF IdleJob, Job, InStep, UploadPcs, RenamePcs
    <3> QED
      BY <3>1, <3>2
  <2> QED
    BY <1>1, <2>1, BecomeTyped DEF Crash, TypeInv
<1>2. CASE Restart(g)
  BY <1>2, FinishTyped DEF Restart, TypeInv
<1> QED
  BY <1>1, <1>2

---------------------------------------------------------------------------
(* The database                                                            *)

LEMMA VersionsShrink ==
  ASSUME DbInv, versions' \subseteq versions,
         UNCHANGED <<chunks, manifests, mchunks, files, status, content, pins>>,
         deleted' \subseteq Paths
  PROVE  DbInv'
  BY DEF DbInv, DbTypeOK, VersionsBounded

LEMMA ArchiveTyped ==
  ASSUME DbInv, NEW p \in Paths, NEW row \in Row, row # NoRow
  PROVE  /\ Archive(p, row) \subseteq Version
         /\ \E n \in Nat : \A r \in Archive(p, row) : r.version <= n
<1> DEFINE new == [path |-> p, version |-> row.version, manifest |-> row.manifest]
<1>1. new \in Version
  BY DEF Row, Version
<1>2. \A r \in Archive(p, row) : r \in versions \/ r = new
  BY DEF Archive
<1>3. PICK n \in Nat : \A r \in versions : r.version <= n
  BY DEF DbInv, VersionsBounded
<1>4. row.version \in Nat
  BY DEF Row
<1>5. CASE row.version <= n
  BY <1>1, <1>2, <1>3, <1>5 DEF DbInv, DbTypeOK
<1>6. CASE n < row.version
  <2>1. \A r \in versions : r.version \in Nat
    BY DEF DbInv, DbTypeOK, Version
  <2>2. \A r \in versions : r.version <= row.version
    BY <1>3, <1>4, <1>6, <2>1
  <2> QED
    BY <1>1, <1>2, <1>4, <2>2 DEF DbInv, DbTypeOK
<1> QED
  BY <1>3, <1>4, <1>5, <1>6

LEMMA PublishDb ==
  ASSUME TypeInv, NEW g \in Gateways, job[g].pc \in {"commit", "insert"}, Publish(g)
  PROVE  DbInv'
<1> DEFINE j == job[g]
<1>1. j.op \in Ops /\ j.path \in Paths /\ j.base \in Row /\ j.version \in Nat
  BY DEF TypeInv, JobInv, InStep, Job, UploadPcs
<1>2. versions' \subseteq Version /\ VersionsBounded'
  <2>1. CASE j.base = NoRow
    BY <2>1 DEF Publish, BaseArchived, TypeInv, DbInv, DbTypeOK, VersionsBounded
  <2>2. CASE j.base # NoRow
    BY <1>1, <2>2, ArchiveTyped DEF Publish, BaseArchived, TypeInv, VersionsBounded
  <2> QED
    BY <2>1, <2>2
<1>3. [manifest |-> j.op, version |-> j.version] \in Row
  BY <1>1 DEF Row
<1>4. files' \in [Paths -> Row]
  BY <1>3 DEF Publish, TypeInv, DbInv, DbTypeOK
<1>5. status' \in [Ops -> Status] /\ pins' \in [Ops -> SUBSET ChunkIds]
  BY DEF Publish, TypeInv, DbInv, DbTypeOK, Status
<1> QED
  BY <1>2, <1>4, <1>5 DEF Publish, TypeInv, DbInv, DbTypeOK

LEMMA UploadDb ==
  ASSUME TypeInv, NEW g \in Gateways, Upload(g)
  PROVE  DbInv'
<1>1. ASSUME NEW o \in Ops, NEW p \in Paths, NEW body \in SUBSET Blobs, UploadBegin(g, o, p, body)
      PROVE  DbInv'
  BY <1>1 DEF UploadBegin, TypeInv, DbInv, DbTypeOK, VersionsBounded, Status, InProgress
<1>2. CASE UploadStart(g)
  BY <1>2 DEF UploadStart, TypeInv, DbInv, DbTypeOK, VersionsBounded, Status, InProgress
<1>3. CASE InsertChunk(g)
  BY <1>3 DEF InsertChunk, TypeInv, DbInv, DbTypeOK, VersionsBounded, JobInv, InStep
<1>4. CASE PinChunk(g)
  BY <1>4 DEF PinChunk, TypeInv, DbInv, DbTypeOK, VersionsBounded, JobInv, InStep
<1>5. CASE FinishUnchanged(g)
  BY <1>5 DEF FinishUnchanged, TypeInv, DbInv, DbTypeOK, VersionsBounded, Status
<1>6. CASE UnpinUnchanged(g)
  BY <1>6 DEF UnpinUnchanged, TypeInv, DbInv, DbTypeOK, VersionsBounded
<1>7. CASE RegisterManifest(g)
  <2>1. job[g].op \in Ops /\ job[g].rows \in SUBSET ChunkIds
    BY <1>7 DEF RegisterManifest, TypeInv, JobInv, InStep, Job, UploadPcs
  <2> QED
    BY <1>7, <2>1 DEF RegisterManifest, TypeInv, DbInv, DbTypeOK, VersionsBounded, Status,
       InProgress
<1>8. CASE MarkFailed(g)
  BY <1>8 DEF MarkFailed, TypeInv, DbInv, DbTypeOK, VersionsBounded, Status
<1>9. CASE UnpinFailed(g)
  BY <1>9 DEF UnpinFailed, TypeInv, DbInv, DbTypeOK, VersionsBounded
<1>10. CASE CommitReplace(g) \/ CommitInsert(g)
  BY <1>10, PublishDb DEF CommitReplace, CommitInsert
<1>11. CASE \/ ReadChunk(g) \/ BodyEndsEarly(g) \/ PutObject(g) \/ PutObjectFails(g) \/ PutKey(g)
            \/ PutKeyFails(g) \/ InsertChunkRefused(g) \/ StoreManifest(g) \/ Verify(g)
            \/ VerifyFails(g) \/ CommitSeesNoRow(g) \/ CommitRefused(g)
  <2>1. UNCHANGED dbVars
    BY <1>11 DEF ReadChunk, BodyEndsEarly, PutObject, PutObjectFails, PutKey, PutKeyFails,
       InsertChunkRefused, StoreManifest, Verify, VerifyFails, CommitSeesNoRow, CommitRefused
  <2> QED
    BY <2>1, DbUnchanged DEF TypeInv
<1> QED
  BY <1>1, <1>2, <1>3, <1>4, <1>5, <1>6, <1>7, <1>8, <1>9, <1>10, <1>11 DEF Upload

LEMMA PurgeTombstoneDb ==
  ASSUME DbInv, NEW g \in Gateways, PurgeTombstone(g)
  PROVE  DbInv'
  BY VersionsShrink DEF PurgeTombstone, DbInv, DbTypeOK

LEMMA DeleteOrRenameDb ==
  ASSUME TypeInv, NEW g \in Gateways, DeleteOrRename(g)
  PROVE  DbInv'
<1>1. CASE DeleteCommit(g)
  <2>1. job[g].path \in Paths /\ job[g].base \in Row /\ job[g].base # NoRow
    BY <1>1 DEF DeleteCommit, TypeInv, JobInv, InStep, Job
  <2>2. versions' \subseteq Version /\ VersionsBounded'
    BY <1>1, <2>1, ArchiveTyped DEF DeleteCommit, TypeInv, VersionsBounded
  <2> QED
    BY <1>1, <2>1, <2>2 DEF DeleteCommit, TypeInv, DbInv, DbTypeOK, Row
<1>2. CASE PurgeTargetEnd(g)
  BY <1>2, PurgeTombstoneDb DEF PurgeTargetEnd, TypeInv
<1>3. CASE Move(g)
  <2> DEFINE s == job[g].path
             d == job[g].dst
             moved == {[r EXCEPT !.path = d] : r \in HistoryOf(s)}
  <2>1. s \in Paths /\ d \in Paths
    BY <1>3 DEF Move, TypeInv, JobInv, InStep, RenamePcs
  <2>2. files' \in [Paths -> Row]
    BY <1>3, <2>1 DEF Move, TypeInv, DbInv, DbTypeOK, Row
  <2>3. \A r \in HistoryOf(s) : /\ [r EXCEPT !.path = d] \in Version
                                /\ [r EXCEPT !.path = d].version = r.version
                                /\ r \in versions
    BY <2>1 DEF TypeInv, DbInv, DbTypeOK, HistoryOf, Version
  <2>4. versions' \subseteq versions \cup moved
    BY <1>3 DEF Move
  <2>5. moved \subseteq Version
    BY <2>3
  <2>6. versions' \subseteq Version
    BY <2>4, <2>5 DEF TypeInv, DbInv, DbTypeOK
  <2>7. PICK n \in Nat : \A r \in versions : r.version <= n
    BY DEF TypeInv, DbInv, VersionsBounded
  <2>8. \A r \in moved : r.version <= n
    BY <2>3, <2>7
  <2> HIDE DEF moved
  <2>9. \A r \in versions' : r.version <= n
    BY <2>4, <2>7, <2>8
  <2> QED
    BY <1>3, <2>2, <2>6, <2>9 DEF Move, TypeInv, DbInv, DbTypeOK, VersionsBounded
<1>4. CASE \/ \E p \in Paths : DeleteBegin(g, p)
           \/ \E s, d \in Paths : RenameBegin(g, s, d)
           \/ DeleteRefused(g) \/ PurgeTarget(g) \/ ReadSource(g) \/ SourceNotFound(g)
           \/ MoveRefused(g)
  <2>1. UNCHANGED dbVars
    BY <1>4 DEF DeleteBegin, RenameBegin, DeleteRefused, PurgeTarget, PurgeHistory, ReadSource,
       SourceNotFound, MoveRefused
  <2> QED
    BY <2>1, DbUnchanged DEF TypeInv
<1> QED
  BY <1>1, <1>2, <1>3, <1>4 DEF DeleteOrRename

LEMMA CollectDb ==
  ASSUME TypeInv, NEW g \in Gateways, Collect(g)
  PROVE  DbInv'
<1>1. CASE GcBegin(g)
  BY <1>1, VersionsShrink DEF GcBegin, TypeInv, DbInv, DbTypeOK
<1>2. ASSUME NEW p \in Paths, GcLimit(g, p)
      PROVE  DbInv'
  BY <1>2, VersionsShrink DEF GcLimit, TypeInv, DbInv, DbTypeOK
<1>3. CASE GcPurgeEnd(g)
  BY <1>3, PurgeTombstoneDb DEF GcPurgeEnd, TypeInv
<1>4. CASE GcCapacity(g)
  BY <1>4, VersionsShrink DEF GcCapacity, TypeInv, DbInv, DbTypeOK
<1>5. CASE DropRow(g)
  <2>1. manifests' \subseteq manifests /\ chunks' \subseteq chunks
    BY <1>5 DEF DropRow
  <2>2. mchunks' \in [Ops -> SUBSET ChunkIds]
    BY <1>5 DEF DropRow, TypeInv, DbInv, DbTypeOK
  <2> QED
    BY <1>5, <2>1, <2>2 DEF DropRow, TypeInv, DbInv, DbTypeOK, VersionsBounded
<1>6. CASE \/ GcListDeleted(g) \/ SelectManifests(g) \/ SelectChunks(g)
           \/ \E p \in Paths : GcPurge(g, p)
           \/ \E i \in ObjectIds : DropRemote(g, i) \/ DropRemoteFails(g, i)
           \/ CollectDone(g) \/ ScanKnown(g) \/ Sweep(g) \/ SweepFails(g)
  <2>1. UNCHANGED dbVars
    BY <1>6 DEF GcListDeleted, GcPurge, PurgeHistory, SelectManifests, SelectChunks, DropRemote,
       DropRemoteFails, CollectDone, ScanKnown, Sweep, SweepFails
  <2> QED
    BY <2>1, DbUnchanged DEF TypeInv
<1> QED
  BY <1>1, <1>2, <1>3, <1>4, <1>5, <1>6 DEF Collect

---------------------------------------------------------------------------
(* iCloud                                                                  *)

LEMMA UploadCloud ==
  ASSUME TypeInv, NEW g \in Gateways, Upload(g)
  PROVE  CloudTypeOK'
<1>1. CASE PutObject(g) \/ PutObjectFails(g) \/ PutKey(g) \/ PutKeyFails(g)
  <2>1. job[g].op \in Ops /\ (job[g].cur = ManifestId(job[g].op) \/ job[g].cur \in ChunkIds)
    BY <1>1 DEF PutObject, PutObjectFails, PutKey, PutKeyFails, TypeInv, JobInv, InStep, UploadPcs
  <2>2. job[g].cur \in ObjectIds
    BY <2>1 DEF ObjectIds, ManifestIds, ManifestId
  <2> QED
    BY <1>1, <2>2 DEF PutObject, PutObjectFails, PutKey, PutKeyFails, TypeInv, CloudTypeOK
<1>2. CASE ~(PutObject(g) \/ PutObjectFails(g) \/ PutKey(g) \/ PutKeyFails(g))
  <2>1. UNCHANGED cloudVars
    BY <1>2 DEF Upload, UploadBegin, UploadStart, ReadChunk, BodyEndsEarly, InsertChunk,
       InsertChunkRefused, PinChunk, FinishUnchanged, UnpinUnchanged, StoreManifest,
       RegisterManifest, Verify, VerifyFails, CommitReplace, CommitSeesNoRow, CommitInsert,
       Publish, CommitRefused, MarkFailed, UnpinFailed
  <2> QED
    BY <2>1, CloudUnchanged DEF TypeInv
<1> QED
  BY <1>1, <1>2

LEMMA DeleteOrRenameCloud ==
  ASSUME TypeInv, NEW g \in Gateways, DeleteOrRename(g)
  PROVE  CloudTypeOK'
<1>1. UNCHANGED cloudVars
  BY DEF DeleteOrRename, DeleteBegin, DeleteCommit, DeleteRefused, RenameBegin, PurgeTarget,
     PurgeTargetEnd, PurgeHistory, PurgeTombstone, ReadSource, SourceNotFound, Move, MoveRefused
<1> QED
  BY <1>1, CloudUnchanged DEF TypeInv

LEMMA CollectCloud ==
  ASSUME TypeInv, NEW g \in Gateways, Collect(g)
  PROVE  CloudTypeOK'
<1>1. objects' \subseteq objects /\ keys' \subseteq keys /\ aged' = aged
  <2>1. CASE \E i \in ObjectIds : DropRemote(g, i) \/ DropRemoteFails(g, i)
    BY <2>1 DEF DropRemote, DropRemoteFails
  <2>2. CASE Sweep(g) \/ SweepFails(g)
    BY <2>2 DEF Sweep, SweepFails
  <2>3. CASE ~((\E i \in ObjectIds : DropRemote(g, i) \/ DropRemoteFails(g, i))
               \/ Sweep(g) \/ SweepFails(g))
    BY <2>3 DEF Collect, GcBegin, GcLimit, GcPurge, GcPurgeEnd, PurgeHistory, PurgeTombstone,
       GcListDeleted, GcCapacity, SelectManifests, SelectChunks, DropRow, CollectDone, ScanKnown,
       cloudVars
  <2> QED
    BY <2>1, <2>2, <2>3
<1> QED
  BY <1>1 DEF TypeInv, CloudTypeOK

---------------------------------------------------------------------------

LEMMA TypeInit == Init => TypeInv
<1> SUFFICES ASSUME Init PROVE TypeInv
  OBVIOUS
<1>1. DbTypeOK
  BY DEF Init, DbTypeOK, Row, Status
<1>2. VersionsBounded
  BY DEF Init, VersionsBounded
<1>3. CloudTypeOK
  BY DEF Init, CloudTypeOK
<1>4. JobInv
  BY IdleTyped DEF Init, JobInv
<1> QED
  BY <1>1, <1>2, <1>3, <1>4 DEF TypeInv, DbInv

LEMMA TypeNext == TypeInv /\ [Next]_vars => TypeInv'
<1> SUFFICES ASSUME TypeInv, [Next]_vars PROVE TypeInv'
  OBVIOUS
<1>1. ASSUME NEW g \in Gateways, Upload(g)
      PROVE  TypeInv'
  BY <1>1, UploadJobs, UploadDb, UploadCloud DEF TypeInv
<1>2. ASSUME NEW g \in Gateways, DeleteOrRename(g)
      PROVE  TypeInv'
  BY <1>2, DeleteOrRenameJobs, DeleteOrRenameDb, DeleteOrRenameCloud DEF TypeInv
<1>3. ASSUME NEW g \in Gateways, Collect(g)
      PROVE  TypeInv'
  BY <1>3, CollectJobs, CollectDb, CollectCloud DEF TypeInv
<1>4. ASSUME NEW g \in Gateways, Crash(g) \/ Restart(g)
      PROVE  TypeInv'
  BY <1>4, CrashJobs, DbUnchanged, CloudUnchanged DEF Crash, Restart, TypeInv
<1>5. CASE GraceElapses
  <2>1. JobInv'
    BY <1>5 DEF GraceElapses, TypeInv, JobInv
  <2>2. CloudTypeOK'
    BY <1>5 DEF GraceElapses, TypeInv, CloudTypeOK
  <2> QED
    BY <1>5, <2>1, <2>2, DbUnchanged DEF GraceElapses, TypeInv
<1>6. CASE UNCHANGED vars
  <2>1. JobInv'
    BY <1>6 DEF vars, TypeInv, JobInv
  <2> QED
    BY <1>6, <2>1, DbUnchanged, CloudUnchanged DEF vars, TypeInv
<1> QED
  BY <1>1, <1>2, <1>3, <1>4, <1>5, <1>6 DEF Next

\* Every variable keeps its type, with any number of gateways, paths, uploads
\* and blobs, whatever fails or crashes: in particular the version number of an
\* upload is always defined, because the version numbers in use are bounded.
THEOREM TypeCorrect == Spec => []TypeOK
<1>1. Spec => []TypeInv
  BY TypeInit, TypeNext, PTL DEF Spec
<1>2. TypeInv => TypeOK
  BY DEF TypeInv, DbInv, JobInv, TypeOK
<1> QED
  BY <1>1, <1>2, PTL

---------------------------------------------------------------------------
(* Only acknowledged uploads show                                          *)

\* The row an operation has read names an acknowledged upload.
BaseActive == \A g \in Gateways : job[g].base # NoRow => status[job[g].base.manifest] = "ACTIVE"

Uploading(g) == job[g].pc \in UploadPcs

\* An upload has a record of its own, which is not ACTIVE before it publishes.
OwnRecord ==
    /\ \A g \in Gateways : Uploading(g) => status[job[g].op] # "NONE"
    /\ \A g \in Gateways : Uploading(g) /\ job[g].pc # "unpin" => status[job[g].op] # "ACTIVE"
    /\ \A g, h \in Gateways : Uploading(g) /\ Uploading(h) /\ job[g].op = job[h].op => g = h

ActiveInv == RetainedIsActive /\ BaseActive /\ OwnRecord

LEMMA RowRetained ==
  ASSUME DbInv, NEW p \in Paths, files[p] # NoRow
  PROVE  files[p].manifest \in Current /\ files[p].manifest \in Ops
<1>1. files[p].manifest \in Ops
  BY DEF DbInv, DbTypeOK, Row
<1> QED
  BY <1>1, NoneIsNoValue DEF Current

LEMMA RetainedShrinks ==
  ASSUME versions' \subseteq versions, files' = files
  PROVE  Retained' \subseteq Retained
  BY DEF Retained, Current, Archived

\* A step of g that leaves every record alone, retains nothing new, and neither
\* starts an upload nor reads a row that is not retained.
LEMMA RecordsKept ==
  ASSUME TypeInv, ActiveInv, NEW g \in Gateways, NEW j, Become(g, j),
         status' = status, Retained' \subseteq Retained,
         \/ j.base = NoRow
         \/ j.base = job[g].base
         \/ j.base.manifest \in Retained,
         j.pc \in UploadPcs =>
            /\ Uploading(g)
            /\ j.pc # "unpin" => job[g].pc # "unpin"
            /\ j.op = job[g].op
  PROVE  ActiveInv'
<1>1. job' = [job EXCEPT ![g] = j] /\ job \in [Gateways -> Job]
  BY DEF Become, TypeInv, JobInv
<1>2. RetainedIsActive'
  BY DEF ActiveInv, RetainedIsActive
<1>3. BaseActive'
  BY <1>1 DEF ActiveInv, RetainedIsActive, BaseActive
<1>4. OwnRecord'
  BY <1>1 DEF ActiveInv, OwnRecord, Uploading
<1> QED
  BY <1>2, <1>3, <1>4 DEF ActiveInv

\* A step of an upload that sets its own record, and retains nothing new.
LEMMA RecordAdvances ==
  ASSUME TypeInv, ActiveInv, NEW g \in Gateways, NEW j, Become(g, j),
         Uploading(g), job[g].pc # "unpin",
         NEW s, s \notin {"NONE", "ACTIVE"}, status' = [status EXCEPT ![job[g].op] = s],
         Retained' = Retained, j.base = job[g].base, j.op = job[g].op
  PROVE  ActiveInv'
<1>1. job' = [job EXCEPT ![g] = j] /\ job \in [Gateways -> Job]
  BY DEF Become, TypeInv, JobInv
<1>2. status \in [Ops -> Status] /\ job[g].op \in Ops
  BY DEF TypeInv, JobInv, InStep, DbInv, DbTypeOK, Uploading
<1>3. \A o : status[o] = "ACTIVE" => status'[o] = "ACTIVE"
  BY <1>2 DEF ActiveInv, OwnRecord
<1>4. RetainedIsActive'
  BY <1>3 DEF ActiveInv, RetainedIsActive
<1>5. BaseActive'
  BY <1>1, <1>3 DEF ActiveInv, BaseActive
<1>6. OwnRecord'
  <2>1. \A h \in Gateways : Uploading(h)' => Uploading(h) /\ job'[h].op = job[h].op
    BY <1>1 DEF Uploading
  <2>2. \A h \in Gateways : h # g => job'[h] = job[h]
    BY <1>1
  <2>3. \A h \in Gateways : Uploading(h) => job[h].op \in Ops
    BY DEF TypeInv, JobInv, InStep, Uploading
  <2> QED
    BY <1>2, <2>1, <2>2, <2>3 DEF ActiveInv, OwnRecord
<1> QED
  BY <1>4, <1>5, <1>6 DEF ActiveInv

\* The manifests that may be retained once g's upload has published.
Publishable(g) ==
    Retained \cup {job[g].op}
        \cup (IF job[g].base = NoRow THEN {} ELSE {job[g].base.manifest})

\* A step that acknowledges an upload and retains nothing but that upload and
\* the row it had read.
LEMMA RecordAcknowledged ==
  ASSUME TypeInv, ActiveInv, NEW g \in Gateways, NEW j, Become(g, j),
         Uploading(g), status' = [status EXCEPT ![job[g].op] = "ACTIVE"],
         Retained' \subseteq Publishable(g),
         j.base \in {NoRow, job[g].base},
         j.pc = "idle" \/ (j.pc = "unpin" /\ j.op = job[g].op)
  PROVE  ActiveInv'
<1>1. job' = [job EXCEPT ![g] = j] /\ job \in [Gateways -> Job]
  BY DEF Become, TypeInv, JobInv
<1>2. status \in [Ops -> Status] /\ job[g].op \in Ops
  BY DEF TypeInv, JobInv, InStep, DbInv, DbTypeOK, Uploading
<1>3. \A o : status[o] = "ACTIVE" => status'[o] = "ACTIVE"
  BY <1>2
<1>4. status'[job[g].op] = "ACTIVE"
  BY <1>2
<1>5. RetainedIsActive'
  BY <1>3, <1>4 DEF ActiveInv, RetainedIsActive, BaseActive, Publishable
<1>6. BaseActive'
  BY <1>1, <1>3 DEF ActiveInv, BaseActive
<1>7. OwnRecord'
  <2>1. \A h \in Gateways : h # g => job'[h] = job[h]
    BY <1>1
  <2>2. \A h \in Gateways : h # g /\ Uploading(h) => /\ job[h].op # job[g].op
                                                    /\ status'[job[h].op] = status[job[h].op]
    BY <1>2 DEF ActiveInv, OwnRecord, TypeInv, JobInv, InStep, Uploading
  <2>3. Uploading(g)' => job'[g].op = job[g].op /\ job'[g].pc = "unpin"
    BY <1>1 DEF Uploading, UploadPcs
  <2> QED
    BY <1>4, <2>1, <2>2, <2>3 DEF ActiveInv, OwnRecord, Uploading
<1> QED
  BY <1>5, <1>6, <1>7 DEF ActiveInv

LEMMA UploadBeginActive ==
  ASSUME TypeInv, ActiveInv, NEW g \in Gateways, NEW o \in Ops, NEW p \in Paths,
         NEW body \in SUBSET Blobs, UploadBegin(g, o, p, body)
  PROVE  ActiveInv'
<1> DEFINE j == [IdleJob EXCEPT !.pc = "pending", !.op = o, !.path = p, !.base = FileRow(p),
                                !.version = NextVersion(p), !.left = body]
<1>1. job' = [job EXCEPT ![g] = j] /\ job \in [Gateways -> Job]
  BY DEF UploadBegin, Become, TypeInv, JobInv
<1>2. j.pc = "pending" /\ j.op = o /\ j.base = FileRow(p)
  BY DEF IdleJob
<1>3. /\ status \in [Ops -> Status] /\ status[o] = "NONE"
      /\ status' = [status EXCEPT ![o] = "PENDING"]
  BY DEF UploadBegin, TypeInv, DbInv, DbTypeOK
<1>4. \A m : status[m] = "ACTIVE" => status'[m] = "ACTIVE"
  BY <1>3
<1>5. Retained' = Retained
  BY DEF UploadBegin, Retained, Current, Archived
<1>6. RetainedIsActive'
  BY <1>4, <1>5 DEF ActiveInv, RetainedIsActive
<1>7. FileRow(p) # NoRow => FileRow(p).manifest \in Retained
  BY RowRetained DEF FileRow, TypeInv, Retained
<1>8. BaseActive'
  <2>1. ASSUME NEW h \in Gateways, job'[h].base # NoRow
        PROVE  status[job'[h].base.manifest] = "ACTIVE"
    <3>1. CASE h = g
      BY <1>1, <1>2, <1>7, <2>1, <3>1 DEF ActiveInv, RetainedIsActive
    <3>2. CASE h # g
      BY <1>1, <2>1, <3>2 DEF ActiveInv, BaseActive
    <3> QED
      BY <3>1, <3>2
  <2> QED
    BY <1>4, <2>1 DEF BaseActive
<1>9. OwnRecord'
  <2>1. \A h \in Gateways : h # g => job'[h] = job[h]
    BY <1>1
  <2>2. job'[g].pc = "pending" /\ job'[g].op = o
    BY <1>1, <1>2
  <2>3. \A h \in Gateways : Uploading(h) => job[h].op # o /\ status'[job[h].op] = status[job[h].op]
    BY <1>3 DEF ActiveInv, OwnRecord, TypeInv, JobInv, InStep, Uploading
  <2>4. status'[o] = "PENDING"
    BY <1>3
  <2> QED
    BY <2>1, <2>2, <2>3, <2>4 DEF ActiveInv, OwnRecord, Uploading
<1> QED
  BY <1>6, <1>8, <1>9 DEF ActiveInv

\* What a commit retains.
LEMMA PublishRetains ==
  ASSUME TypeInv, NEW g \in Gateways, Publish(g), job[g].pc \in {"commit", "insert"}
  PROVE  Retained' \subseteq Publishable(g)
<1> DEFINE j == job[g]
<1>1. j.path \in Paths /\ files \in [Paths -> Row]
  BY DEF TypeInv, DbInv, DbTypeOK, JobInv, InStep, UploadPcs
<1>2. \A p \in Paths : files'[p].manifest \in {files[p].manifest, j.op}
  BY <1>1 DEF Publish
<1>3. \A r \in versions' : r \in versions \/ (j.base # NoRow /\ r.manifest = j.base.manifest)
  BY DEF Publish, BaseArchived, Archive
<1>4. \A m \in Current' : m \in Current \/ m = j.op
  BY <1>2 DEF Current
<1>5. \A m \in Archived' : m \in Archived \/ (j.base # NoRow /\ m = j.base.manifest)
  BY <1>3 DEF Archived
<1> QED
  BY <1>4, <1>5 DEF Retained, Publishable

LEMMA UploadActive ==
  ASSUME TypeInv, ActiveInv, NEW g \in Gateways, Upload(g)
  PROVE  ActiveInv'
<1>1. ASSUME NEW o \in Ops, NEW p \in Paths, NEW body \in SUBSET Blobs, UploadBegin(g, o, p, body)
      PROVE  ActiveInv'
  BY <1>1, UploadBeginActive
<1>2. CASE FinishUnchanged(g)
  <2> DEFINE j == [job[g] EXCEPT !.pc = "unpin"]
  <2>1. j.pc = "unpin" /\ j.op = job[g].op /\ j.base = job[g].base
    BY DEF TypeInv, JobInv, Job
  <2>2. Retained' \subseteq Publishable(g)
    BY <1>2, RetainedShrinks DEF FinishUnchanged, Publishable
  <2> QED
    BY <1>2, <2>1, <2>2, RecordAcknowledged DEF FinishUnchanged, Goto, Uploading, UploadPcs
<1>3. CASE CommitReplace(g) \/ CommitInsert(g)
  <2>1. Publish(g) /\ job[g].pc \in {"commit", "insert"}
    BY <1>3 DEF CommitReplace, CommitInsert
  <2>2. PICK j : Become(g, j) /\ j.pc = "idle" /\ j.base = NoRow
    BY <2>1 DEF Publish, Finish, IdleJob
  <2>3. Uploading(g) /\ status' = [status EXCEPT ![job[g].op] = "ACTIVE"]
    BY <2>1 DEF Publish, Uploading, UploadPcs
  <2>4. Retained' \subseteq Publishable(g)
    BY <2>1, PublishRetains
  <2> QED
    BY <2>2, <2>3, <2>4, RecordAcknowledged
<1>4. ASSUME NEW pc, Goto(g, pc), NEW s, s \notin {"NONE", "ACTIVE"},
             Uploading(g), job[g].pc # "unpin",
             status' = [status EXCEPT ![job[g].op] = s], UNCHANGED <<files, versions>>
      PROVE  ActiveInv'
  <2> DEFINE j == [job[g] EXCEPT !.pc = pc]
  <2>1. j.op = job[g].op /\ j.base = job[g].base
    BY DEF TypeInv, JobInv, Job
  <2>2. Retained' = Retained
    BY <1>4 DEF Retained, Current, Archived
  <2> QED
    BY <1>4, <2>1, <2>2, RecordAdvances DEF Goto
<1>5. CASE UploadStart(g) \/ MarkFailed(g)
  BY <1>4, <1>5 DEF UploadStart, MarkFailed, Uploading, UploadPcs
<1>6. CASE RegisterManifest(g)
  <2> DEFINE j == [job[g] EXCEPT !.pc = "verify", !.cur = NoObject]
  <2>1. j.op = job[g].op /\ j.base = job[g].base
    BY DEF TypeInv, JobInv, Job
  <2>2. Retained' = Retained
    BY <1>6 DEF RegisterManifest, Retained, Current, Archived
  <2> QED
    <3>1. /\ Become(g, j)
          /\ Uploading(g)
          /\ job[g].pc # "unpin"
          /\ status' = [status EXCEPT ![job[g].op] = "VERIFYING"]
          /\ "VERIFYING" \notin {"NONE", "ACTIVE"}
      BY <1>6 DEF RegisterManifest, Uploading, UploadPcs
    <3> QED
      BY <2>1, <2>2, <3>1, RecordAdvances
<1>7. CASE \/ ReadChunk(g) \/ BodyEndsEarly(g) \/ PutObject(g) \/ PutObjectFails(g) \/ PutKey(g)
           \/ PutKeyFails(g) \/ InsertChunk(g) \/ InsertChunkRefused(g) \/ PinChunk(g)
           \/ StoreManifest(g) \/ Verify(g) \/ VerifyFails(g) \/ CommitSeesNoRow(g)
           \/ CommitRefused(g)
  <2>1. Uploading(g) /\ job[g].pc # "unpin" /\ UNCHANGED <<status, files, versions>>
    BY <1>7 DEF ReadChunk, BodyEndsEarly, PutObject, PutObjectFails, PutKey, PutKeyFails,
       InsertChunk, InsertChunkRefused, PinChunk, StoreManifest, Verify, VerifyFails,
       CommitSeesNoRow, CommitRefused, Uploading, UploadPcs, dbVars
  <2>2. PICK j : Become(g, j) /\ j.op = job[g].op /\ j.base = job[g].base
    <3>1. job[g] \in Job
      BY DEF TypeInv, JobInv
    <3>2. ASSUME NEW pc, Goto(g, pc)
          PROVE  \E j : Become(g, j) /\ j.op = job[g].op /\ j.base = job[g].base
      <4> DEFINE j == [job[g] EXCEPT !.pc = pc]
      <4>1. Become(g, j) /\ j.op = job[g].op /\ j.base = job[g].base
        BY <3>1, <3>2 DEF Goto, Job
      <4> QED
        BY <4>1
    <3>3. CASE ReadChunk(g)
      <4>1. PICK c, pc : Become(g, [job[g] EXCEPT !.cur = c, !.pc = pc])
        BY <3>3 DEF ReadChunk
      <4> DEFINE j == [job[g] EXCEPT !.cur = c, !.pc = pc]
      <4>2. j.op = job[g].op /\ j.base = job[g].base
        BY <3>1 DEF Job
      <4> QED
        BY <4>1, <4>2
    <3>4. CASE PinChunk(g)
      <4> DEFINE j == [job[g] EXCEPT !.pc = "chunks", !.cur = NoObject,
                                      !.rows = @ \cup {job[g].cur},
                                      !.left = @ \ {Plaintext(job[g].cur)}]
      <4>1. Become(g, j) /\ j.op = job[g].op /\ j.base = job[g].base
        BY <3>1, <3>4 DEF PinChunk, Job
      <4> QED
        BY <4>1
    <3>5. CASE StoreManifest(g)
      <4> DEFINE j == [job[g] EXCEPT !.cur = ManifestId(job[g].op), !.pc = "putObject"]
      <4>1. Become(g, j) /\ j.op = job[g].op /\ j.base = job[g].base
        BY <3>1, <3>5 DEF StoreManifest, Job
      <4> QED
        BY <4>1
    <3> QED
      BY <1>7, <3>2, <3>3, <3>4, <3>5 DEF BodyEndsEarly, PutObject, PutObjectFails, PutKey,
         PutKeyFails, InsertChunk, InsertChunkRefused, Verify, VerifyFails, CommitSeesNoRow,
         CommitRefused
  <2>3. Retained' \subseteq Retained
    BY <2>1, RetainedShrinks
  <2> QED
    BY <2>1, <2>2, <2>3, RecordsKept
<1>8. CASE UnpinUnchanged(g) \/ UnpinFailed(g)
  <2>1. PICK j : Become(g, j) /\ j.base = NoRow /\ j.pc \notin UploadPcs
    <3> DEFINE k == [IdleJob EXCEPT !.pc = "collect", !.path = job[g].path]
    <3>1. /\ IdleJob.base = NoRow /\ IdleJob.pc \notin UploadPcs
          /\ k.base = NoRow /\ k.pc \notin UploadPcs
      BY DEF IdleJob, UploadPcs
    <3>2. Become(g, IdleJob) \/ Become(g, k)
      BY <1>8 DEF UnpinUnchanged, UnpinFailed, Finish
    <3> HIDE DEF k
    <3> QED
      BY <3>1, <3>2
  <2>2. status' = status /\ Retained' \subseteq Retained
    BY <1>8, RetainedShrinks DEF UnpinUnchanged, UnpinFailed
  <2> QED
    BY <2>1, <2>2, RecordsKept
<1> QED
  BY <1>1, <1>2, <1>3, <1>5, <1>6, <1>7, <1>8 DEF Upload

\* A step that leaves the records, the files and all but a part of the history
\* alone, by a job that is no upload and has no row to read.
LEMMA HistoryShrinksActive ==
  ASSUME TypeInv, ActiveInv, NEW g \in Gateways, NEW j, Become(g, j),
         status' = status, files' = files, versions' \subseteq versions,
         j.pc \notin UploadPcs,
         j.base = NoRow \/ j.base = job[g].base
  PROVE  ActiveInv'
<1>1. Retained' \subseteq Retained
  BY RetainedShrinks
<1> QED
  BY <1>1, RecordsKept

LEMMA DeleteOrRenameActive ==
  ASSUME TypeInv, ActiveInv, NEW g \in Gateways, DeleteOrRename(g)
  PROVE  ActiveInv'
<1>1. ASSUME NEW p \in Paths, DeleteBegin(g, p)
      PROVE  ActiveInv'
  <2>1. PICK j : Become(g, j) /\ j.base = FileRow(p) /\ j.pc = "delete"
    <3> DEFINE k == [IdleJob EXCEPT !.pc = "delete", !.path = p, !.base = FileRow(p)]
    <3>1. Become(g, k) /\ k.base = FileRow(p) /\ k.pc = "delete"
      BY <1>1 DEF DeleteBegin, IdleJob
    <3> QED
      BY <3>1
  <2>2. FileRow(p).manifest \in Retained
    BY <1>1, RowRetained DEF DeleteBegin, FileRow, TypeInv, Retained
  <2>3. status' = status /\ Retained' \subseteq Retained
    BY <1>1, RetainedShrinks DEF DeleteBegin, dbVars
  <2> QED
    BY <2>1, <2>2, <2>3, RecordsKept DEF UploadPcs
<1>2. CASE DeleteCommit(g)
  <2>1. PICK j : Become(g, j) /\ j.base = NoRow /\ j.pc = "idle"
    BY <1>2 DEF DeleteCommit, Finish, IdleJob
  <2>2. /\ job[g].path \in Paths /\ job[g].base # NoRow
        /\ files \in [Paths -> Row]
    BY <1>2 DEF DeleteCommit, TypeInv, DbInv, DbTypeOK, JobInv, InStep
  <2>3. Current' \subseteq Current
    BY <1>2, <2>2 DEF DeleteCommit, Current, NoRow
  <2>4. \A m \in Archived' : m \in Archived \/ m = job[g].base.manifest
    BY <1>2 DEF DeleteCommit, Archived, Archive
  <2>5. RetainedIsActive'
    BY <1>2, <2>2, <2>3, <2>4 DEF DeleteCommit, Retained, ActiveInv, RetainedIsActive, BaseActive
  <2>6. job' = [job EXCEPT ![g] = j] /\ job \in [Gateways -> Job]
    BY <2>1 DEF Become, TypeInv, JobInv
  <2>7. BaseActive'
    BY <1>2, <2>1, <2>6 DEF DeleteCommit, ActiveInv, BaseActive
  <2>8. OwnRecord'
    BY <1>2, <2>1, <2>6 DEF DeleteCommit, ActiveInv, OwnRecord, Uploading, UploadPcs
  <2> QED
    BY <2>5, <2>7, <2>8 DEF ActiveInv
<1>3. ASSUME NEW s \in Paths, NEW d \in Paths, RenameBegin(g, s, d)
      PROVE  ActiveInv'
  <2>1. PICK j : Become(g, j) /\ j.base = NoRow /\ j.pc \in {"purgeTarget", "readSource"}
    <3> DEFINE k == [IdleJob EXCEPT !.pc = IF d \in deleted THEN "purgeTarget" ELSE "readSource",
                                    !.path = s, !.dst = d]
    <3>1. Become(g, k) /\ k.base = NoRow /\ k.pc \in {"purgeTarget", "readSource"}
      BY <1>3 DEF RenameBegin, IdleJob
    <3> QED
      BY <3>1
  <2> QED
    BY <1>3, <2>1, HistoryShrinksActive DEF RenameBegin, dbVars, UploadPcs
<1>4. CASE PurgeTarget(g) \/ PurgeTargetEnd(g)
  <2> DEFINE kp == [job[g] EXCEPT !.pc = "purgeTargetEnd",
                       !.purge = [path |-> job[g].dst, rows |-> HistoryOf(job[g].dst)]]
             ke == [job[g] EXCEPT !.pc = "collect", !.next = "readSource", !.purge = NoPurge]
  <2>1. job[g] \in Job
    BY DEF TypeInv, JobInv
  <2>2. /\ kp.base = job[g].base /\ kp.pc = "purgeTargetEnd"
        /\ ke.base = job[g].base /\ ke.pc = "collect"
    BY <2>1 DEF Job
  <2>3. Become(g, kp) \/ Become(g, ke)
    BY <1>4 DEF PurgeTarget, PurgeTargetEnd, PurgeHistory
  <2> HIDE DEF kp, ke
  <2>4. status' = status /\ files' = files /\ versions' \subseteq versions
    BY <1>4 DEF PurgeTarget, PurgeTargetEnd, PurgeHistory, PurgeTombstone, dbVars
  <2> QED
    BY <2>2, <2>3, <2>4, HistoryShrinksActive DEF UploadPcs
<1>5. CASE ReadSource(g)
  <2>1. PICK j : Become(g, j) /\ j.base = job[g].base /\ j.pc = "move"
    <3> DEFINE k == [job[g] EXCEPT !.pc = "move"]
    <3>1. Become(g, k) /\ k.base = job[g].base /\ k.pc = "move"
      BY <1>5 DEF ReadSource, Goto, TypeInv, JobInv, Job
    <3> QED
      BY <3>1
  <2> QED
    BY <1>5, <2>1, HistoryShrinksActive DEF ReadSource, dbVars, UploadPcs
<1>6. CASE DeleteRefused(g) \/ SourceNotFound(g) \/ MoveRefused(g)
  <2>1. PICK j : Become(g, j) /\ j.base = NoRow /\ j.pc = "idle"
    BY <1>6 DEF DeleteRefused, SourceNotFound, MoveRefused, Finish, IdleJob
  <2> QED
    BY <1>6, <2>1, HistoryShrinksActive DEF DeleteRefused, SourceNotFound, MoveRefused, dbVars,
       UploadPcs
<1>7. CASE Move(g)
  <2>1. PICK j : Become(g, j) /\ j.base = NoRow /\ j.pc = "idle"
    BY <1>7 DEF Move, Finish, IdleJob
  <2>2. /\ job[g].path \in Paths /\ job[g].dst \in Paths
        /\ files \in [Paths -> Row] /\ versions \subseteq Version
    BY <1>7 DEF Move, TypeInv, DbInv, DbTypeOK, JobInv, InStep, RenamePcs
  <2>3. Current' \subseteq Current
    BY <1>7, <2>2 DEF Move, Current, NoRow
  <2>4. \A r \in versions' : \E q \in versions : q.manifest = r.manifest
    BY <1>7, <2>2 DEF Move, HistoryOf, Version
  <2>5. Archived' \subseteq Archived
    BY <2>4 DEF Archived
  <2>6. status' = status /\ Retained' \subseteq Retained
    BY <1>7, <2>3, <2>5 DEF Move, Retained
  <2> QED
    BY <2>1, <2>6, RecordsKept DEF UploadPcs
<1> QED
  BY <1>1, <1>2, <1>3, <1>4, <1>5, <1>6, <1>7 DEF DeleteOrRename

\* The job of a collecting gateway starts no upload and takes no path.
Quiet(g, j) ==
    /\ j.pc \notin UploadPcs \cup {"delete"}
    /\ j.base = NoRow \/ j.base = job[g].base
    /\ {j.path, j.dst} \subseteq {job[g].path, job[g].dst, None}

LEMMA CollectQuiet ==
  ASSUME TypeInv, NEW g \in Gateways, Collect(g)
  PROVE  \E j : Become(g, j) /\ Quiet(g, j)
<1>1. job[g] \in Job /\ InStep(job[g])
  BY DEF TypeInv, JobInv
<1>2. CASE GcBegin(g)
  <2> DEFINE k == [IdleJob EXCEPT !.pc = "limit", !.next = "scan",
                                  !.todo = {p \in Paths : files[p] # NoRow}]
  <2>1. Become(g, k) /\ Quiet(g, k)
    BY <1>2 DEF GcBegin, IdleJob, UploadPcs, Quiet
  <2> QED
    BY <2>1
<1>3. ASSUME NEW p \in Paths, GcLimit(g, p)
      PROVE  \E j : Become(g, j) /\ Quiet(g, j)
  <2> DEFINE k == [job[g] EXCEPT !.todo = @ \ {p}]
  <2>1. Become(g, k) /\ Quiet(g, k)
    BY <1>1, <1>3 DEF GcLimit, Job, UploadPcs, Quiet
  <2> QED
    BY <2>1
<1>14. ASSUME NEW p \in Paths, GcPurge(g, p)
       PROVE  \E j : Become(g, j) /\ Quiet(g, j)
  <2> DEFINE t == [path |-> p, rows |-> HistoryOf(p)]
             k == [job[g] EXCEPT !.pc = "purgeEnd", !.purge = t]
  <2>1. Become(g, k)
    BY <1>14 DEF GcPurge, PurgeHistory
  <2> HIDE DEF t
  <2>2. Quiet(g, k)
    BY <1>1 DEF Job, UploadPcs, Quiet
  <2> QED
    BY <2>1, <2>2
<1>15. CASE GcPurgeEnd(g)
  <2> DEFINE k == [job[g] EXCEPT !.pc = "purge", !.todo = @ \ {job[g].purge.path},
                                  !.purge = NoPurge]
  <2>1. Become(g, k) /\ Quiet(g, k)
    BY <1>1, <1>15 DEF GcPurgeEnd, Job, UploadPcs, Quiet
  <2> QED
    BY <2>1
<1>4. CASE GcListDeleted(g)
  <2> DEFINE k == [job[g] EXCEPT !.pc = "purge", !.todo = deleted]
  <2>1. Become(g, k) /\ Quiet(g, k)
    BY <1>1, <1>4 DEF GcListDeleted, Job, UploadPcs, Quiet
  <2> QED
    BY <2>1
<1>5. CASE GcCapacity(g)
  <2> DEFINE k == [job[g] EXCEPT !.pc = "collect"]
  <2>1. Become(g, k) /\ Quiet(g, k)
    BY <1>1, <1>5 DEF GcCapacity, Goto, Job, UploadPcs, Quiet
  <2> QED
    BY <2>1
<1>6. ASSUME NEW pc, pc \notin UploadPcs \cup {"delete"}, NEW ids,
             Become(g, [job[g] EXCEPT !.pc = pc, !.ids = ids])
      PROVE  \E j : Become(g, j) /\ Quiet(g, j)
  <2> DEFINE k == [job[g] EXCEPT !.pc = pc, !.ids = ids]
  <2>1. Become(g, k) /\ Quiet(g, k)
    BY <1>1, <1>6 DEF Job, Quiet
  <2> QED
    BY <2>1
<1>7. CASE SelectManifests(g) \/ SelectChunks(g) \/ ScanKnown(g)
  BY <1>6, <1>7 DEF SelectManifests, SelectChunks, ScanKnown, UploadPcs, Quiet
<1>8. ASSUME NEW i \in ObjectIds, DropRemote(g, i)
      PROVE  \E j : Become(g, j) /\ Quiet(g, j)
  <2> DEFINE k == [job[g] EXCEPT !.pc = "dropRow", !.cur = i]
  <2>1. Become(g, k) /\ Quiet(g, k)
    BY <1>1, <1>8 DEF DropRemote, Job, UploadPcs, Quiet
  <2> QED
    BY <2>1
<1>9. ASSUME NEW i \in ObjectIds, DropRemoteFails(g, i)
      PROVE  \E j : Become(g, j) /\ Quiet(g, j)
  <2> DEFINE k == [job[g] EXCEPT !.ids = @ \ {i}]
  <2>1. Become(g, k) /\ Quiet(g, k)
    BY <1>1, <1>9 DEF DropRemoteFails, Job, UploadPcs, Quiet
  <2> QED
    BY <2>1
<1>10. CASE DropRow(g)
  <2> DEFINE i == job[g].cur
             jm == [job[g] EXCEPT !.pc = "dropManifests", !.cur = NoObject, !.ids = @ \ {i}]
             jc == [job[g] EXCEPT !.pc = "dropChunks", !.cur = NoObject, !.ids = @ \ {i}]
  <2>1. (Become(g, jm) \/ Become(g, jc)) /\ Quiet(g, jm) /\ Quiet(g, jc)
    BY <1>1, <1>10 DEF DropRow, Job, UploadPcs, Quiet
  <2> HIDE DEF jm, jc
  <2> QED
    BY <2>1
<1>11. ASSUME Finish(g)
       PROVE  \E j : Become(g, j) /\ Quiet(g, j)
  BY <1>11 DEF Finish, IdleJob, UploadPcs, Quiet
<1>12. CASE CollectDone(g)
  <2> DEFINE k == [job[g] EXCEPT !.pc = job[g].next]
  <2>1. CASE job[g].next = "idle"
    BY <1>11, <1>12, <2>1 DEF CollectDone
  <2>2. CASE job[g].next # "idle"
    <3>1. Become(g, k) /\ Quiet(g, k)
      BY <1>1, <1>12, <2>2 DEF CollectDone, Goto, Job, InStep, UploadPcs, Quiet
    <3> QED
      BY <3>1
  <2> QED
    BY <2>1, <2>2
<1>13. CASE Sweep(g) \/ SweepFails(g)
  BY <1>11, <1>13 DEF Sweep, SweepFails
<1> QED
  BY <1>2, <1>3, <1>4, <1>5, <1>7, <1>8, <1>9, <1>10, <1>12, <1>13, <1>14, <1>15 DEF Collect

LEMMA CollectActive ==
  ASSUME TypeInv, ActiveInv, NEW g \in Gateways, Collect(g)
  PROVE  ActiveInv'
<1>1. status' = status /\ files' = files /\ versions' \subseteq versions
  BY DEF Collect, GcBegin, GcLimit, GcListDeleted, GcPurge, GcPurgeEnd, PurgeHistory,
     PurgeTombstone, GcCapacity, SelectManifests, SelectChunks, DropRemote, DropRemoteFails, DropRow, CollectDone,
     ScanKnown, Sweep, SweepFails, dbVars
<1>2. PICK j : Become(g, j) /\ Quiet(g, j)
  BY CollectQuiet
<1> QED
  BY <1>1, <1>2, HistoryShrinksActive DEF Quiet

LEMMA ActiveInit == Init => ActiveInv
<1> SUFFICES ASSUME Init PROVE ActiveInv
  OBVIOUS
<1>1. Retained = {}
  BY DEF Init, Retained, Current, Archived, NoRow
<1>2. \A g \in Gateways : job[g].base = NoRow /\ ~Uploading(g)
  BY DEF Init, IdleJob, Uploading, UploadPcs
<1> QED
  BY <1>1, <1>2 DEF ActiveInv, RetainedIsActive, BaseActive, OwnRecord

LEMMA ActiveNext == TypeInv /\ ActiveInv /\ [Next]_vars => ActiveInv'
<1> SUFFICES ASSUME TypeInv, ActiveInv, [Next]_vars PROVE ActiveInv'
  OBVIOUS
<1>1. ASSUME NEW g \in Gateways, Upload(g)
      PROVE  ActiveInv'
  BY <1>1, UploadActive
<1>2. ASSUME NEW g \in Gateways, DeleteOrRename(g)
      PROVE  ActiveInv'
  BY <1>2, DeleteOrRenameActive
<1>3. ASSUME NEW g \in Gateways, Collect(g)
      PROVE  ActiveInv'
  BY <1>3, CollectActive
<1>4. ASSUME NEW g \in Gateways, Crash(g) \/ Restart(g)
      PROVE  ActiveInv'
  <2>1. PICK j : Become(g, j) /\ j.base = NoRow /\ j.pc \notin UploadPcs
    <3> DEFINE k == [IdleJob EXCEPT !.pc = "down"]
    <3>1. k.base = NoRow /\ k.pc \notin UploadPcs /\ IdleJob.base = NoRow /\ IdleJob.pc \notin UploadPcs
      BY DEF IdleJob, UploadPcs
    <3>2. Become(g, k) \/ Become(g, IdleJob)
      BY <1>4 DEF Crash, Restart, Finish
    <3> HIDE DEF k
    <3> QED
      BY <3>1, <3>2
  <2> QED
    BY <1>4, <2>1, HistoryShrinksActive DEF Crash, Restart, dbVars
<1>5. CASE GraceElapses \/ UNCHANGED vars
  <2>1. UNCHANGED <<job, files, versions, status>>
    BY <1>5 DEF GraceElapses, vars, dbVars
  <2> QED
    BY <2>1 DEF ActiveInv, RetainedIsActive, BaseActive, OwnRecord, Uploading, Retained, Current,
       Archived
<1> QED
  BY <1>1, <1>2, <1>3, <1>4, <1>5 DEF Next

\* No upload that failed, was refused or was cut short by a crash is ever the
\* current or an archived version of a path, with any number of gateways and
\* even when leases are lost: two uploads never share a record, and a record is
\* not taken back once its upload has published.
THEOREM RetainedActive == Spec => []RetainedIsActive
<1>1. Spec => []TypeInv
  BY TypeInit, TypeNext, PTL DEF Spec
<1>2. Spec => []ActiveInv
  BY <1>1, ActiveInit, ActiveNext, PTL DEF Spec
<1>3. ActiveInv => RetainedIsActive
  BY DEF ActiveInv
<1> QED
  BY <1>2, <1>3, PTL

---------------------------------------------------------------------------
(* While leases hold, or with one gateway, no current version is lost      *)

\* No gateway comes in between: there is one only, or the leases hold.
Alone == \A g, h \in Gateways : g = h
Protected == LeasesHold \/ Alone

\* No two operations hold a path.
LeasesApart == \A g, h \in Gateways : g # h => PathsHeld(g) \cap PathsHeld(h) = {}

\* What an operation has read of its path is still so.
ReadHolds ==
    \A g \in Gateways :
        /\ job[g].pc = "delete" => files[job[g].path] = job[g].base
        /\ job[g].pc = "insert" => files[job[g].path] = NoRow

LeaseInv == LeasesApart /\ ReadHolds

\* A step of g by which its job takes no new path and reads nothing to rely on,
\* and which changes the rows of its own paths only.
LEMMA OwnPathsOnly ==
  ASSUME TypeInv, LeaseInv, NEW g \in Gateways, NEW j, Become(g, j),
         {j.path, j.dst} \subseteq {job[g].path, job[g].dst, None},
         j.pc \notin {"delete", "insert"},
         \A p \in Paths \ PathsHeld(g) : files'[p] = files[p]
  PROVE  LeaseInv'
<1>1. job' = [job EXCEPT ![g] = j] /\ job \in [Gateways -> Job]
  BY DEF Become, TypeInv, JobInv
<1>2. LeasesApart'
  <2>1. \A h \in Gateways : PathsHeld(h)' \subseteq PathsHeld(h)
    BY <1>1 DEF PathsHeld
  <2> QED
    BY <2>1 DEF LeaseInv, LeasesApart
<1>3. ReadHolds'
  <2>1. ASSUME NEW h \in Gateways, job'[h].pc \in {"delete", "insert"}
        PROVE  h # g /\ job'[h] = job[h] /\ files'[job[h].path] = files[job[h].path]
    <3>1. h # g /\ job'[h] = job[h]
      BY <1>1, <2>1
    <3>2. job[h].path \in Paths
      BY <2>1, <3>1 DEF TypeInv, JobInv, InStep, UploadPcs
    <3>3. job[h].path \notin PathsHeld(g)
      BY <3>1, <3>2, NoneIsNoValue DEF LeaseInv, LeasesApart, PathsHeld
    <3> QED
      BY <3>1, <3>2, <3>3
  <2> QED
    BY <2>1 DEF LeaseInv, ReadHolds
<1> QED
  BY <1>2, <1>3 DEF LeaseInv

\* A step of g that takes free paths while it changes no row.
LEMMA FreePathsTaken ==
  ASSUME TypeInv, LeaseInv, Protected, NEW g \in Gateways, NEW ps, PathsFree(g, ps),
         NEW j, Become(g, j), {j.path, j.dst} \subseteq ps \cup {None}, files' = files,
         j.pc = "delete" => files[j.path] = j.base,
         j.pc # "insert"
  PROVE  LeaseInv'
<1>1. job' = [job EXCEPT ![g] = j] /\ job \in [Gateways -> Job]
  BY DEF Become, TypeInv, JobInv
<1>2. \A h \in Gateways \ {g} : PathsHeld(h) \cap ps = {}
  BY DEF PathsFree, Protected, Alone
<1>3. LeasesApart'
  <2>1. \A h \in Gateways \ {g} : PathsHeld(h)' = PathsHeld(h)
    BY <1>1 DEF PathsHeld
  <2>2. PathsHeld(g)' \subseteq ps
    BY <1>1 DEF PathsHeld
  <2> QED
    BY <1>2, <2>1, <2>2 DEF LeaseInv, LeasesApart
<1>4. ReadHolds'
  BY <1>1 DEF LeaseInv, ReadHolds
<1> QED
  BY <1>3, <1>4 DEF LeaseInv

\* Publish replaces the row it locked, or fills the place it found empty.
LEMMA PublishLease ==
  ASSUME TypeInv, LeaseInv, NEW g \in Gateways, CommitReplace(g) \/ CommitInsert(g)
  PROVE  LeaseInv' /\ Current \subseteq Retained'
<1> DEFINE j == job[g]
<1>1. Publish(g) /\ j.pc \in {"commit", "insert"}
  BY DEF CommitReplace, CommitInsert
<1>2. j.path \in Paths /\ j.op \in Ops /\ files \in [Paths -> Row]
  BY <1>1 DEF TypeInv, DbInv, DbTypeOK, JobInv, InStep, UploadPcs
<1>3. j.path \in PathsHeld(g)
  BY <1>2, NoneIsNoValue DEF PathsHeld
<1>4. LeaseInv'
  <2>1. PICK k : Become(g, k) /\ k.path = None /\ k.dst = None /\ k.pc = "idle"
    BY <1>1 DEF Publish, Finish, IdleJob
  <2>2. \A p \in Paths \ PathsHeld(g) : files'[p] = files[p]
    BY <1>1, <1>2, <1>3 DEF Publish
  <2> QED
    BY <2>1, <2>2, OwnPathsOnly
<1>5. ASSUME NEW p \in Paths, files[p].manifest # None
      PROVE  files[p].manifest \in Retained'
  <2>1. CASE p # j.path
    BY <1>1, <1>2, <1>5, <2>1 DEF Publish, Retained, Current
  <2>2. CASE p = j.path /\ CommitInsert(g)
    BY <1>5, <2>2 DEF CommitInsert, LeaseInv, ReadHolds, NoRow
  <2>3. CASE p = j.path /\ CommitReplace(g)
    <3>1. j.base # NoRow /\ files[p].manifest = j.base.manifest
      BY <2>3 DEF CommitReplace
    <3>2. versions' = Archive(j.path, j.base)
      BY <1>1, <3>1 DEF Publish, BaseArchived
    <3>3. [path |-> j.path, version |-> j.base.version, manifest |-> j.base.manifest] \in versions'
      BY <3>2 DEF Archive
    <3>4. j.base.manifest \in Archived'
      BY <3>3 DEF Archived
    <3> QED
      BY <3>1, <3>4 DEF Retained
  <2> QED
    BY <2>1, <2>2, <2>3
<1>6. Current \subseteq Retained'
  BY <1>5 DEF Current
<1> QED
  BY <1>4, <1>6

LEMMA UploadLease ==
  ASSUME TypeInv, LeaseInv, Protected, NEW g \in Gateways, Upload(g)
  PROVE  LeaseInv' /\ Current \subseteq Retained'
<1>1. CASE CommitReplace(g) \/ CommitInsert(g)
  BY <1>1, PublishLease
<1>2. CASE ~(CommitReplace(g) \/ CommitInsert(g))
  <2>1. files' = files /\ versions' = versions
    BY <1>2 DEF Upload, UploadBegin, UploadStart, ReadChunk, BodyEndsEarly, PutObject,
       PutObjectFails, PutKey, PutKeyFails, InsertChunk, InsertChunkRefused, PinChunk,
       FinishUnchanged, UnpinUnchanged, StoreManifest, RegisterManifest, Verify, VerifyFails,
       CommitSeesNoRow, CommitRefused, MarkFailed, UnpinFailed, dbVars
  <2>2. Current \subseteq Retained'
    BY <2>1 DEF Retained, Current
  <2> SUFFICES LeaseInv'
    BY <2>2
  <2>3. job[g] \in Job
    BY DEF TypeInv, JobInv
  <2>4. ASSUME NEW o \in Ops, NEW p \in Paths, NEW body \in SUBSET Blobs, UploadBegin(g, o, p, body)
        PROVE  LeaseInv'
    <3> DEFINE k == [IdleJob EXCEPT !.pc = "pending", !.op = o, !.path = p, !.base = FileRow(p),
                                    !.version = NextVersion(p), !.left = body]
    <3>1. Become(g, k) /\ k.path = p /\ k.dst = None /\ k.pc = "pending" /\ PathsFree(g, {p})
      BY <2>4 DEF UploadBegin, IdleJob
    <3> HIDE DEF k
    <3> QED
      BY <2>1, <3>1, FreePathsTaken
  <2>5. CASE CommitSeesNoRow(g)
    <3>1. job' = [job EXCEPT ![g] = [job[g] EXCEPT !.pc = "insert"]] /\ job \in [Gateways -> Job]
      BY <2>5 DEF CommitSeesNoRow, Goto, Become, TypeInv, JobInv
    <3>2. \A h \in Gateways : job'[h].path = job[h].path /\ job'[h].dst = job[h].dst
      BY <2>3, <3>1 DEF Job
    <3>3. LeasesApart'
      BY <3>2 DEF LeaseInv, LeasesApart, PathsHeld
    <3>4. job'[g].pc = "insert" /\ \A h \in Gateways : h # g => job'[h] = job[h]
      BY <2>3, <3>1 DEF Job
    <3>5. files[job[g].path] = NoRow
      BY <2>5 DEF CommitSeesNoRow
    <3>6. ReadHolds'
      BY <2>1, <3>2, <3>4, <3>5 DEF LeaseInv, ReadHolds
    <3> QED
      BY <3>3, <3>6 DEF LeaseInv
  <2>6. ASSUME NEW k, Become(g, k), k.path \in {job[g].path, None}, k.dst \in {job[g].dst, None},
               k.pc \notin {"delete", "insert"}
        PROVE  LeaseInv'
    BY <2>1, <2>6, OwnPathsOnly
  <2>7. ASSUME NEW pc, Goto(g, pc), pc \notin {"delete", "insert"}
        PROVE  LeaseInv'
    <3> DEFINE k == [job[g] EXCEPT !.pc = pc]
    <3>1. Become(g, k) /\ k.path = job[g].path /\ k.dst = job[g].dst /\ k.pc = pc
      BY <2>3, <2>7 DEF Goto, Job
    <3> HIDE DEF k
    <3> QED
      BY <2>6, <2>7, <3>1
  <2>8. CASE \/ UploadStart(g) \/ BodyEndsEarly(g) \/ PutObject(g) \/ PutObjectFails(g)
             \/ PutKeyFails(g) \/ InsertChunk(g) \/ InsertChunkRefused(g) \/ FinishUnchanged(g)
             \/ Verify(g) \/ VerifyFails(g) \/ CommitRefused(g) \/ MarkFailed(g)
    BY <2>7, <2>8 DEF UploadStart, BodyEndsEarly, PutObject, PutObjectFails, PutKeyFails,
       InsertChunk, InsertChunkRefused, FinishUnchanged, Verify, VerifyFails, CommitRefused,
       MarkFailed
  <2>9. CASE PutKey(g)
    <3>1. Goto(g, "register") \/ Goto(g, "insertChunk")
      BY <2>9 DEF PutKey
    <3> QED
      BY <2>7, <3>1
  <2>10. CASE ReadChunk(g)
    <3>1. ASSUME NEW c, NEW pc, pc \notin {"delete", "insert"},
                 Become(g, [job[g] EXCEPT !.cur = c, !.pc = pc])
          PROVE  LeaseInv'
      <4> DEFINE k == [job[g] EXCEPT !.cur = c, !.pc = pc]
      <4>1. Become(g, k) /\ k.path = job[g].path /\ k.dst = job[g].dst /\ k.pc = pc
        BY <2>3, <3>1 DEF Job
      <4> HIDE DEF k
      <4> QED
        BY <2>6, <3>1, <4>1
    <3>2. \E c : \/ Become(g, [job[g] EXCEPT !.cur = c, !.pc = "pin"])
                 \/ Become(g, [job[g] EXCEPT !.cur = c, !.pc = "putObject"])
      BY <2>10 DEF ReadChunk
    <3> QED
      BY <3>1, <3>2
  <2>11. CASE PinChunk(g)
    <3> DEFINE k == [job[g] EXCEPT !.pc = "chunks", !.cur = NoObject,
                                    !.rows = @ \cup {job[g].cur},
                                    !.left = @ \ {Plaintext(job[g].cur)}]
    <3>1. Become(g, k) /\ k.path = job[g].path /\ k.dst = job[g].dst /\ k.pc = "chunks"
      BY <2>3, <2>11 DEF PinChunk, Job
    <3> HIDE DEF k
    <3> QED
      BY <2>6, <3>1
  <2>12. CASE StoreManifest(g)
    <3> DEFINE k == [job[g] EXCEPT !.cur = ManifestId(job[g].op), !.pc = "putObject"]
    <3>1. Become(g, k) /\ k.path = job[g].path /\ k.dst = job[g].dst /\ k.pc = "putObject"
      BY <2>3, <2>12 DEF StoreManifest, Job
    <3> HIDE DEF k
    <3> QED
      BY <2>6, <3>1
  <2>13. CASE RegisterManifest(g)
    <3> DEFINE k == [job[g] EXCEPT !.pc = "verify", !.cur = NoObject]
    <3>1. Become(g, k) /\ k.path = job[g].path /\ k.dst = job[g].dst /\ k.pc = "verify"
      BY <2>3, <2>13 DEF RegisterManifest, Job
    <3> HIDE DEF k
    <3> QED
      BY <2>6, <3>1
  <2>14. CASE UnpinFailed(g)
    <3> DEFINE k == [IdleJob EXCEPT !.pc = "collect", !.path = job[g].path]
    <3>1. Become(g, k) /\ k.path = job[g].path /\ k.dst = None /\ k.pc = "collect"
      BY <2>14 DEF UnpinFailed, IdleJob
    <3> HIDE DEF k
    <3> QED
      BY <2>6, <3>1
  <2>15. CASE UnpinUnchanged(g)
    <3>1. PICK k : Become(g, k) /\ k.path = None /\ k.dst = None /\ k.pc = "idle"
      BY <2>15 DEF UnpinUnchanged, Finish, IdleJob
    <3> QED
      BY <2>6, <3>1
  <2> QED
    BY <1>2, <2>4, <2>5, <2>8, <2>9, <2>10, <2>11, <2>12, <2>13, <2>14, <2>15 DEF Upload
<1> QED
  BY <1>1, <1>2

LEMMA DeleteOrRenameLease ==
  ASSUME TypeInv, LeaseInv, Protected, NEW g \in Gateways, DeleteOrRename(g)
  PROVE  LeaseInv' /\ Current \subseteq Retained'
<1>1. ASSUME NEW p \in Paths, DeleteBegin(g, p)
      PROVE  LeaseInv' /\ Current \subseteq Retained'
  <2> DEFINE k == [IdleJob EXCEPT !.pc = "delete", !.path = p, !.base = FileRow(p)]
  <2>1. /\ Become(g, k) /\ k.path = p /\ k.dst = None /\ k.pc = "delete" /\ k.base = FileRow(p)
        /\ FileRow(p) = files[p] /\ PathsFree(g, {p}) /\ files' = files
    BY <1>1 DEF DeleteBegin, IdleJob, FileRow, dbVars
  <2> HIDE DEF k
  <2>2. LeaseInv'
    BY <2>1, FreePathsTaken
  <2> QED
    BY <2>1, <2>2 DEF Retained, Current
<1>2. ASSUME NEW s \in Paths, NEW d \in Paths, RenameBegin(g, s, d)
      PROVE  LeaseInv' /\ Current \subseteq Retained'
  <2> DEFINE k == [IdleJob EXCEPT !.pc = IF d \in deleted THEN "purgeTarget" ELSE "readSource",
                                  !.path = s, !.dst = d]
  <2>1. /\ Become(g, k) /\ k.path = s /\ k.dst = d /\ k.pc \in {"purgeTarget", "readSource"}
        /\ PathsFree(g, {s, d}) /\ files' = files
    BY <1>2 DEF RenameBegin, IdleJob, dbVars
  <2> HIDE DEF k
  <2>2. LeaseInv'
    BY <2>1, FreePathsTaken
  <2> QED
    BY <2>1, <2>2 DEF Retained, Current
<1>3. CASE DeleteCommit(g)
  <2>1. PICK k : Become(g, k) /\ k.path = None /\ k.dst = None /\ k.pc = "idle"
    BY <1>3 DEF DeleteCommit, Finish, IdleJob
  <2>2. /\ job[g].path \in Paths /\ job[g].base = files[job[g].path]
        /\ files \in [Paths -> Row]
    BY <1>3 DEF DeleteCommit, TypeInv, DbInv, DbTypeOK, JobInv, InStep, LeaseInv, ReadHolds
  <2>3. job[g].path \in PathsHeld(g)
    BY <2>2, NoneIsNoValue DEF PathsHeld
  <2>4. LeaseInv'
    <3>1. \A p \in Paths \ PathsHeld(g) : files'[p] = files[p]
      BY <1>3, <2>2, <2>3 DEF DeleteCommit
    <3> QED
      BY <2>1, <3>1, OwnPathsOnly
  <2>5. ASSUME NEW p \in Paths, files[p].manifest # None
        PROVE  files[p].manifest \in Retained'
    <3>1. CASE p # job[g].path
      BY <1>3, <2>2, <2>5, <3>1 DEF DeleteCommit, Retained, Current
    <3>2. CASE p = job[g].path
      <4>1. [path |-> p, version |-> files[p].version, manifest |-> files[p].manifest] \in versions'
        BY <1>3, <2>2, <3>2 DEF DeleteCommit, Archive
      <4>2. files[p].manifest \in Archived'
        BY <4>1 DEF Archived
      <4> QED
        BY <4>2 DEF Retained
    <3> QED
      BY <3>1, <3>2
  <2> QED
    BY <2>4, <2>5 DEF Current
<1>4. CASE Move(g)
  <2> DEFINE s == job[g].path
             d == job[g].dst
  <2>1. PICK k : Become(g, k) /\ k.path = None /\ k.dst = None /\ k.pc = "idle"
    BY <1>4 DEF Move, Finish, IdleJob
  <2>2. s \in Paths /\ d \in Paths /\ files \in [Paths -> Row]
    BY <1>4 DEF Move, TypeInv, DbInv, DbTypeOK, JobInv, InStep, RenamePcs
  <2>3. s \in PathsHeld(g) /\ d \in PathsHeld(g)
    BY <2>2, NoneIsNoValue DEF PathsHeld
  <2>4. LeaseInv'
    <3>1. \A p \in Paths \ PathsHeld(g) : files'[p] = files[p]
      BY <1>4, <2>2, <2>3 DEF Move
    <3> QED
      BY <2>1, <3>1, OwnPathsOnly
  <2>5. ASSUME NEW p \in Paths, files[p].manifest # None
        PROVE  \E q \in Paths : files'[q].manifest = files[p].manifest
    <3>1. CASE files[s] = NoRow
      BY <1>4, <3>1 DEF Move
    <3>2. CASE files[s] # NoRow
      <4>1. /\ files' = [files EXCEPT ![s] = NoRow, ![d] = files[s]]
            /\ s # d => files[d] = NoRow
        BY <1>4, <3>2 DEF Move, MoveAllowed
      <4>2. p # s => p # d
        BY <2>5, <4>1 DEF NoRow
      <4>3. CASE p = s
        BY <2>2, <4>1, <4>3
      <4>4. CASE p # s
        BY <2>2, <4>1, <4>2, <4>4
      <4> QED
        BY <4>3, <4>4
    <3> QED
      BY <3>1, <3>2
  <2>6. Current \subseteq Current'
    BY <2>5 DEF Current
  <2> QED
    BY <2>4, <2>6 DEF Retained
<1>5. CASE PurgeTarget(g) \/ PurgeTargetEnd(g) \/ ReadSource(g)
  <2>1. files' = files /\ job[g] \in Job
    BY <1>5 DEF PurgeTarget, PurgeTargetEnd, PurgeHistory, PurgeTombstone, ReadSource, dbVars,
       TypeInv, JobInv
  <2> DEFINE kp == [job[g] EXCEPT !.pc = "purgeTargetEnd",
                       !.purge = [path |-> job[g].dst, rows |-> HistoryOf(job[g].dst)]]
             ke == [job[g] EXCEPT !.pc = "collect", !.next = "readSource", !.purge = NoPurge]
             kr == [job[g] EXCEPT !.pc = "move"]
  <2>2. /\ kp.path = job[g].path /\ kp.dst = job[g].dst /\ kp.pc = "purgeTargetEnd"
        /\ ke.path = job[g].path /\ ke.dst = job[g].dst /\ ke.pc = "collect"
        /\ kr.path = job[g].path /\ kr.dst = job[g].dst /\ kr.pc = "move"
    BY <2>1 DEF Job
  <2>3. Become(g, kp) \/ Become(g, ke) \/ Become(g, kr)
    BY <1>5 DEF PurgeTarget, PurgeTargetEnd, PurgeHistory, ReadSource, Goto
  <2> HIDE DEF kp, ke, kr
  <2>4. LeaseInv'
    BY <2>1, <2>2, <2>3, OwnPathsOnly
  <2> QED
    BY <2>1, <2>4 DEF Retained, Current
<1>6. CASE DeleteRefused(g) \/ SourceNotFound(g) \/ MoveRefused(g)
  <2>1. PICK k : Become(g, k) /\ k.path = None /\ k.dst = None /\ k.pc = "idle"
    BY <1>6 DEF DeleteRefused, SourceNotFound, MoveRefused, Finish, IdleJob
  <2>2. files' = files
    BY <1>6 DEF DeleteRefused, SourceNotFound, MoveRefused, dbVars
  <2>3. LeaseInv'
    BY <2>1, <2>2, OwnPathsOnly
  <2> QED
    BY <2>2, <2>3 DEF Retained, Current
<1> QED
  BY <1>1, <1>2, <1>3, <1>4, <1>5, <1>6 DEF DeleteOrRename

LEMMA CollectLease ==
  ASSUME TypeInv, LeaseInv, NEW g \in Gateways, Collect(g)
  PROVE  LeaseInv' /\ Current \subseteq Retained'
<1>1. files' = files
  BY DEF Collect, GcBegin, GcLimit, GcListDeleted, GcPurge, GcPurgeEnd, PurgeHistory,
     PurgeTombstone, GcCapacity, SelectManifests, SelectChunks, DropRemote, DropRemoteFails, DropRow, CollectDone,
     ScanKnown, Sweep, SweepFails, dbVars
<1>2. PICK j : Become(g, j) /\ Quiet(g, j)
  BY CollectQuiet
<1>3. j.pc \notin {"delete", "insert"}
  BY <1>2 DEF Quiet, UploadPcs
<1>4. LeaseInv'
  BY <1>1, <1>2, <1>3, OwnPathsOnly DEF Quiet
<1> QED
  BY <1>1, <1>4 DEF Retained, Current

LEMMA LeaseInit == Init => LeaseInv
  BY DEF Init, IdleJob, LeaseInv, LeasesApart, ReadHolds, PathsHeld

LEMMA LeaseNext ==
  TypeInv /\ LeaseInv /\ Protected /\ [Next]_vars => LeaseInv' /\ Current \subseteq Retained'
<1> SUFFICES ASSUME TypeInv, LeaseInv, Protected, [Next]_vars
             PROVE  LeaseInv' /\ Current \subseteq Retained'
  OBVIOUS
<1>1. ASSUME NEW g \in Gateways, Upload(g)
      PROVE  LeaseInv' /\ Current \subseteq Retained'
  BY <1>1, UploadLease
<1>2. ASSUME NEW g \in Gateways, DeleteOrRename(g)
      PROVE  LeaseInv' /\ Current \subseteq Retained'
  BY <1>2, DeleteOrRenameLease
<1>3. ASSUME NEW g \in Gateways, Collect(g)
      PROVE  LeaseInv' /\ Current \subseteq Retained'
  BY <1>3, CollectLease
<1>4. ASSUME NEW g \in Gateways, Crash(g) \/ Restart(g)
      PROVE  LeaseInv' /\ Current \subseteq Retained'
  <2>1. PICK j : Become(g, j) /\ j.path = None /\ j.dst = None /\ j.pc \in {"down", "idle"}
    <3> DEFINE k == [IdleJob EXCEPT !.pc = "down"]
    <3>1. /\ k.path = None /\ k.dst = None /\ k.pc = "down"
          /\ IdleJob.path = None /\ IdleJob.dst = None /\ IdleJob.pc = "idle"
      BY DEF IdleJob
    <3>2. Become(g, k) \/ Become(g, IdleJob)
      BY <1>4 DEF Crash, Restart, Finish
    <3> HIDE DEF k
    <3> QED
      BY <3>1, <3>2
  <2>2. files' = files
    BY <1>4 DEF Crash, Restart, dbVars
  <2>3. LeaseInv'
    BY <2>1, <2>2, OwnPathsOnly
  <2> QED
    BY <2>2, <2>3 DEF Retained, Current
<1>5. CASE GraceElapses \/ UNCHANGED vars
  <2>1. UNCHANGED <<job, files>>
    BY <1>5 DEF GraceElapses, vars, dbVars
  <2> QED
    BY <2>1 DEF LeaseInv, LeasesApart, ReadHolds, PathsHeld, Retained, Current
<1> QED
  BY <1>1, <1>2, <1>3, <1>4, <1>5 DEF Next

\* As long as the leases hold, and always when a gateway is alone, no step drops a
\* current version: a PUT over it archives it, a DELETE archives it, a MOVE takes it
\* along.  The run without leases shows that the lock of PostgreSQL alone is not enough.
THEOREM CurrentKept == ASSUME Protected PROVE Spec => CurrentNeverLost
<1>1. Spec => []TypeInv
  BY TypeInit, TypeNext, PTL DEF Spec
<1>2. Spec => []LeaseInv
  <2>1. TypeInv /\ LeaseInv /\ [Next]_vars => LeaseInv'
    BY LeaseNext
  <2> QED
    BY <1>1, <2>1, LeaseInit, PTL DEF Spec
<1>3. TypeInv /\ LeaseInv /\ [Next]_vars => [Current \subseteq Retained']_vars
  BY LeaseNext
<1> QED
  BY <1>1, <1>2, <1>3, PTL DEF Spec, CurrentNeverLost
=============================================================================
