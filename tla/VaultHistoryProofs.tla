-------------------------- MODULE VaultHistoryProofs --------------------------
(***************************************************************************)
(* Theorems about the history of files in Vault, about the blobs that are  *)
(* being stored, and that Vault implements Drive.                          *)
(***************************************************************************)
EXTENDS VaultProofs

---------------------------------------------------------------------------
(* What a step does to the jobs                                            *)

OthersStay(g) == \A h \in Gateways \ {g} : job'[h] = job[h]

\* What an upload has read at its start, what it is, and where a job goes next.
Carries(g) ==
    /\ job'[g].op = job[g].op
    /\ job'[g].path = job[g].path
    /\ job'[g].dst = job[g].dst
    /\ job'[g].base = job[g].base
    /\ job'[g].version = job[g].version
    /\ job'[g].next = job[g].next

LEMMA BecomeEffect ==
  ASSUME TypeInv, NEW g \in Gateways, NEW j, Become(g, j)
  PROVE  OthersStay(g) /\ job'[g] = j
  BY DEF TypeInv, JobInv, Become, OthersStay

LEMMA GotoEffect ==
  ASSUME TypeInv, NEW g \in Gateways, NEW pc, Goto(g, pc)
  PROVE  /\ OthersStay(g) /\ Carries(g)
         /\ job'[g].pc = pc /\ job'[g].left = job[g].left /\ job'[g].cur = job[g].cur
         /\ job'[g].ids = job[g].ids /\ job'[g].rows = job[g].rows
<1>1. job[g] \in Job
  BY DEF TypeInv, JobInv
<1> DEFINE j == [job[g] EXCEPT !.pc = pc]
<1>2. Become(g, j)
  BY DEF Goto
<1>3. /\ j.op = job[g].op /\ j.path = job[g].path /\ j.dst = job[g].dst /\ j.base = job[g].base
      /\ j.version = job[g].version /\ j.next = job[g].next
      /\ j.pc = pc /\ j.left = job[g].left /\ j.cur = job[g].cur /\ j.ids = job[g].ids
      /\ j.rows = job[g].rows
  BY <1>1 DEF Job
<1> HIDE DEF j
<1> QED
  BY <1>2, <1>3, BecomeEffect DEF Carries

LEMMA FinishEffect ==
  ASSUME TypeInv, NEW g \in Gateways, Finish(g)
  PROVE  OthersStay(g) /\ job'[g] = IdleJob
  BY BecomeEffect DEF Finish

\* The steps of an upload between its start and its end.
UploadMoves(g) ==
    \/ UploadStart(g) \/ ReadChunk(g) \/ BodyEndsEarly(g)
    \/ PutObject(g) \/ PutObjectFails(g) \/ PutKey(g) \/ PutKeyFails(g)
    \/ InsertChunk(g) \/ InsertChunkRefused(g) \/ PinChunk(g)
    \/ FinishUnchanged(g) \/ StoreManifest(g) \/ RegisterManifest(g)
    \/ Verify(g) \/ VerifyFails(g) \/ CommitSeesNoRow(g) \/ CommitRefused(g) \/ MarkFailed(g)

LEMMA UploadCases ==
  ASSUME NEW g \in Gateways, Upload(g)
  PROVE  \/ \E o \in Ops, p \in Paths, body \in SUBSET Blobs : UploadBegin(g, o, p, body)
         \/ UploadMoves(g)
         \/ CommitReplace(g) \/ CommitInsert(g)
         \/ UnpinUnchanged(g) \/ UnpinFailed(g)
  BY DEF Upload, UploadMoves

\* A step from the inside of an upload stays inside, carries what the upload has
\* read, and leaves the namespace alone.
LEMMA UploadMovesOn ==
  ASSUME TypeInv, NEW g \in Gateways, UploadMoves(g)
  PROVE  /\ OthersStay(g) /\ Carries(g)
         /\ Uploading(g) /\ job'[g].pc \in UploadPcs
         /\ job'[g].ids = job[g].ids
         /\ UNCHANGED <<files, versions, deleted>>
<1>1. Uploading(g) /\ UNCHANGED <<files, versions, deleted>>
  BY DEF UploadMoves, UploadStart, ReadChunk, BodyEndsEarly, PutObject, PutObjectFails, PutKey,
     PutKeyFails, InsertChunk, InsertChunkRefused, PinChunk, FinishUnchanged, StoreManifest,
     RegisterManifest, Verify, VerifyFails, CommitSeesNoRow, CommitRefused, MarkFailed,
     Uploading, UploadPcs, dbVars
<1>2. job[g] \in Job
  BY DEF TypeInv, JobInv
<1> SUFFICES OthersStay(g) /\ Carries(g) /\ job'[g].pc \in UploadPcs /\ job'[g].ids = job[g].ids
  BY <1>1
<1>3. CASE \E pc \in UploadPcs : Goto(g, pc)
  BY <1>3, GotoEffect
<1>4. ASSUME NEW c, NEW pc \in UploadPcs, Become(g, [job[g] EXCEPT !.cur = c, !.pc = pc])
      PROVE  OthersStay(g) /\ Carries(g) /\ job'[g].pc \in UploadPcs /\ job'[g].ids = job[g].ids
  <2> DEFINE j == [job[g] EXCEPT !.cur = c, !.pc = pc]
  <2>1. /\ j.op = job[g].op /\ j.path = job[g].path /\ j.dst = job[g].dst
        /\ j.base = job[g].base /\ j.version = job[g].version /\ j.next = job[g].next
        /\ j.pc = pc /\ j.ids = job[g].ids /\ Become(g, j)
    BY <1>2, <1>4 DEF Job
  <2> HIDE DEF j
  <2> QED
    BY <2>1, BecomeEffect DEF Carries
<1>5. CASE ReadChunk(g)
  BY <1>4, <1>5 DEF ReadChunk, UploadPcs
<1>6. CASE StoreManifest(g)
  BY <1>4, <1>6 DEF StoreManifest, UploadPcs
<1>7. CASE PinChunk(g)
  <2> DEFINE j == [job[g] EXCEPT !.pc = "chunks", !.cur = NoObject,
                                  !.rows = @ \cup {job[g].cur},
                                  !.left = @ \ {Plaintext(job[g].cur)}]
  <2>1. /\ j.op = job[g].op /\ j.path = job[g].path /\ j.dst = job[g].dst
        /\ j.base = job[g].base /\ j.version = job[g].version /\ j.next = job[g].next
        /\ j.pc = "chunks" /\ j.ids = job[g].ids /\ Become(g, j)
    BY <1>2, <1>7 DEF PinChunk, Job
  <2> HIDE DEF j
  <2> QED
    BY <2>1, BecomeEffect DEF Carries, UploadPcs
<1>8. CASE RegisterManifest(g)
  <2> DEFINE j == [job[g] EXCEPT !.pc = "verify", !.cur = NoObject]
  <2>1. /\ j.op = job[g].op /\ j.path = job[g].path /\ j.dst = job[g].dst
        /\ j.base = job[g].base /\ j.version = job[g].version /\ j.next = job[g].next
        /\ j.pc = "verify" /\ j.ids = job[g].ids /\ Become(g, j)
    BY <1>2, <1>8 DEF RegisterManifest, Job
  <2> HIDE DEF j
  <2> QED
    BY <2>1, BecomeEffect DEF Carries, UploadPcs
<1>9. UploadMoves(g) => \/ \E pc \in UploadPcs : Goto(g, pc)
                        \/ ReadChunk(g) \/ StoreManifest(g) \/ PinChunk(g) \/ RegisterManifest(g)
  BY DEF UploadMoves, UploadStart, BodyEndsEarly, PutObject, PutObjectFails, PutKey, PutKeyFails,
     InsertChunk, InsertChunkRefused, FinishUnchanged, Verify, VerifyFails, CommitSeesNoRow,
     CommitRefused, MarkFailed, UploadPcs
<1> QED
  BY <1>3, <1>5, <1>6, <1>7, <1>8, <1>9

LEMMA UploadEnds ==
  ASSUME TypeInv, NEW g \in Gateways, UnpinUnchanged(g) \/ UnpinFailed(g)
  PROVE  /\ OthersStay(g)
         /\ job'[g].pc \in {"idle", "collect"} /\ job'[g].next = "idle" /\ job'[g].ids = {}
         /\ UNCHANGED <<chunks, manifests, files, versions, deleted, status, cloudVars>>
<1> DEFINE j == [IdleJob EXCEPT !.pc = "collect", !.path = job[g].path]
<1>1. Become(g, j) \/ Become(g, IdleJob)
  BY DEF UnpinUnchanged, UnpinFailed, Finish
<1>2. /\ j.pc = "collect" /\ j.next = "idle" /\ j.ids = {}
      /\ IdleJob.pc = "idle" /\ IdleJob.next = "idle" /\ IdleJob.ids = {}
  BY DEF IdleJob
<1> HIDE DEF j
<1>3. UNCHANGED <<chunks, manifests, files, versions, deleted, status, cloudVars>>
  BY DEF UnpinUnchanged, UnpinFailed
<1> QED
  BY <1>1, <1>2, <1>3, BecomeEffect

\* The first statement of a purge takes the history of a path, and nothing changes yet.
LEMMA PurgeOpens ==
  ASSUME TypeInv, NEW g \in Gateways, NEW p, NEW pc, PurgeHistory(g, p, pc)
  PROVE  /\ UNCHANGED <<dbVars, cloudVars>>
         /\ \E k : /\ Become(g, k) /\ k.pc = pc /\ k.next = job[g].next /\ k.path = job[g].path
                   /\ k.dst = job[g].dst /\ k.ids = job[g].ids /\ k.todo = job[g].todo
                   /\ k.purge.path = p /\ k.purge.rows = HistoryOf(p)
<1> DEFINE t == [path |-> p, rows |-> HistoryOf(p)]
           k == [job[g] EXCEPT !.pc = pc, !.purge = t]
<1>1. job[g] \in Job /\ t.path = p /\ t.rows = HistoryOf(p)
  BY DEF TypeInv, JobInv
<1>2. Become(g, k) /\ UNCHANGED <<dbVars, cloudVars>>
  BY DEF PurgeHistory
<1> HIDE DEF t
<1>3. /\ k.pc = pc /\ k.next = job[g].next /\ k.path = job[g].path
      /\ k.dst = job[g].dst /\ k.ids = job[g].ids /\ k.todo = job[g].todo /\ k.purge = t
  BY <1>1 DEF Job
<1> HIDE DEF k
<1> QED
  BY <1>1, <1>2, <1>3

\* After a step of a collection the job is on its way back to the rename that asked for it,
\* or no operation on a path at all.
LEMMA CollectEffect ==
  ASSUME TypeInv, NEW g \in Gateways, Collect(g)
  PROVE  /\ OthersStay(g)
         /\ job'[g].pc \notin UploadPcs \cup {"delete", "purgeTarget", "purgeTargetEnd", "move"}
         /\ job'[g].pc = "readSource" \/ job'[g].next = "readSource" =>
               /\ job[g].next = "readSource"
               /\ job'[g].path = job[g].path /\ job'[g].dst = job[g].dst
         /\ job'[g].pc = "purgeEnd" => \E p \in Paths : GcPurge(g, p)
<1> DEFINE Back(j) ==
      /\ j.pc \notin UploadPcs \cup {"delete", "purgeTarget", "purgeTargetEnd", "move"}
      /\ j.pc = "readSource" \/ j.next = "readSource" =>
            job[g].next = "readSource" /\ j.path = job[g].path /\ j.dst = job[g].dst
      /\ j.pc = "purgeEnd" => \E p \in Paths : GcPurge(g, p)
<1>1. job[g] \in Job /\ InStep(job[g])
  BY DEF TypeInv, JobInv
<1> SUFFICES \E j : Become(g, j) /\ Back(j)
  BY BecomeEffect
<1>2. CASE GcBegin(g)
  <2> DEFINE k == [IdleJob EXCEPT !.pc = "limit", !.next = "scan",
                                  !.todo = {p \in Paths : files[p] # NoRow}]
  <2>1. Become(g, k) /\ k.pc = "limit" /\ k.next = "scan"
    BY <1>2 DEF GcBegin, IdleJob
  <2> HIDE DEF k
  <2> QED
    BY <2>1 DEF UploadPcs
<1>3. ASSUME NEW p \in Paths, GcLimit(g, p)
      PROVE  \E j : Become(g, j) /\ Back(j)
  <2> DEFINE k == [job[g] EXCEPT !.todo = @ \ {p}]
  <2>1. /\ Become(g, k) /\ k.pc = "limit" /\ k.next = job[g].next /\ k.path = job[g].path
        /\ k.dst = job[g].dst
    BY <1>1, <1>3 DEF GcLimit, Job
  <2> HIDE DEF k
  <2> QED
    BY <2>1 DEF UploadPcs
<1>14. ASSUME NEW p \in Paths, GcPurge(g, p)
       PROVE  \E j : Become(g, j) /\ Back(j)
  <2>1. PICK k : /\ Become(g, k) /\ k.pc = "purgeEnd" /\ k.next = job[g].next
                 /\ k.path = job[g].path /\ k.dst = job[g].dst
    BY <1>14, PurgeOpens DEF GcPurge
  <2> QED
    BY <1>14, <2>1 DEF UploadPcs
<1>15. CASE GcPurgeEnd(g)
  <2> DEFINE k == [job[g] EXCEPT !.pc = "purge", !.todo = @ \ {job[g].purge.path},
                                 !.purge = NoPurge]
  <2>1. /\ Become(g, k) /\ k.pc = "purge" /\ k.next = job[g].next /\ k.path = job[g].path
        /\ k.dst = job[g].dst
    BY <1>1, <1>15 DEF GcPurgeEnd, Job
  <2> HIDE DEF k
  <2> QED
    BY <2>1 DEF UploadPcs
<1>4. CASE GcListDeleted(g)
  <2> DEFINE k == [job[g] EXCEPT !.pc = "purge", !.todo = deleted]
  <2>1. /\ Become(g, k) /\ k.pc = "purge" /\ k.next = job[g].next /\ k.path = job[g].path
        /\ k.dst = job[g].dst
    BY <1>1, <1>4 DEF GcListDeleted, Job
  <2> HIDE DEF k
  <2> QED
    BY <2>1 DEF UploadPcs
<1>5. CASE GcCapacity(g)
  <2> DEFINE k == [job[g] EXCEPT !.pc = "collect"]
  <2>1. /\ Become(g, k) /\ k.pc = "collect" /\ k.next = job[g].next /\ k.path = job[g].path
        /\ k.dst = job[g].dst
    BY <1>1, <1>5 DEF GcCapacity, Goto, Job
  <2> HIDE DEF k
  <2> QED
    BY <2>1 DEF UploadPcs
<1>6. ASSUME NEW pc \in {"dropManifests", "dropChunks", "sweep"}, NEW ids,
             Become(g, [job[g] EXCEPT !.pc = pc, !.ids = ids])
      PROVE  \E j : Become(g, j) /\ Back(j)
  <2> DEFINE k == [job[g] EXCEPT !.pc = pc, !.ids = ids]
  <2>1. /\ Become(g, k) /\ k.pc = pc /\ k.next = job[g].next /\ k.path = job[g].path
        /\ k.dst = job[g].dst
    BY <1>1, <1>6 DEF Job
  <2> HIDE DEF k
  <2> QED
    BY <2>1 DEF UploadPcs
<1>7. CASE SelectManifests(g) \/ SelectChunks(g) \/ ScanKnown(g)
  BY <1>6, <1>7 DEF SelectManifests, SelectChunks, ScanKnown
<1>8. ASSUME NEW i \in ObjectIds, DropRemote(g, i)
      PROVE  \E j : Become(g, j) /\ Back(j)
  <2> DEFINE k == [job[g] EXCEPT !.pc = "dropRow", !.cur = i]
  <2>1. /\ Become(g, k) /\ k.pc = "dropRow" /\ k.next = job[g].next /\ k.path = job[g].path
        /\ k.dst = job[g].dst
    BY <1>1, <1>8 DEF DropRemote, Job
  <2> HIDE DEF k
  <2> QED
    BY <2>1 DEF UploadPcs
<1>9. ASSUME NEW i \in ObjectIds, DropRemoteFails(g, i)
      PROVE  \E j : Become(g, j) /\ Back(j)
  <2> DEFINE k == [job[g] EXCEPT !.ids = @ \ {i}]
  <2>1. /\ Become(g, k) /\ k.pc = job[g].pc /\ k.next = job[g].next /\ k.path = job[g].path
        /\ k.dst = job[g].dst /\ job[g].pc \in {"dropManifests", "dropChunks"}
    BY <1>1, <1>9 DEF DropRemoteFails, Job
  <2> HIDE DEF k
  <2> QED
    BY <2>1 DEF UploadPcs
<1>10. CASE DropRow(g)
  <2> DEFINE i == job[g].cur
             jm == [job[g] EXCEPT !.pc = "dropManifests", !.cur = NoObject, !.ids = @ \ {i}]
             jc == [job[g] EXCEPT !.pc = "dropChunks", !.cur = NoObject, !.ids = @ \ {i}]
  <2>1. /\ Become(g, jm) \/ Become(g, jc)
        /\ jm.pc = "dropManifests" /\ jm.next = job[g].next /\ jm.path = job[g].path
        /\ jm.dst = job[g].dst
        /\ jc.pc = "dropChunks" /\ jc.next = job[g].next /\ jc.path = job[g].path
        /\ jc.dst = job[g].dst
    BY <1>1, <1>10 DEF DropRow, Job
  <2> HIDE DEF jm, jc
  <2> QED
    BY <2>1 DEF UploadPcs
<1>11. ASSUME Finish(g)
       PROVE  \E j : Become(g, j) /\ Back(j)
  BY <1>11 DEF Finish, IdleJob, UploadPcs
<1>12. CASE CollectDone(g)
  <2> DEFINE k == [job[g] EXCEPT !.pc = job[g].next]
  <2>1. CASE job[g].next = "idle"
    BY <1>11, <1>12, <2>1 DEF CollectDone
  <2>2. CASE job[g].next # "idle"
    <3>1. /\ Become(g, k) /\ k.pc = job[g].next /\ k.next = job[g].next /\ k.path = job[g].path
          /\ k.dst = job[g].dst /\ job[g].next \in {"scan", "readSource"}
      BY <1>1, <1>12, <2>2 DEF CollectDone, Goto, Job, InStep
    <3> HIDE DEF k
    <3> QED
      BY <3>1 DEF UploadPcs
  <2> QED
    BY <2>1, <2>2
<1>13. CASE Sweep(g) \/ SweepFails(g)
  BY <1>11, <1>13 DEF Sweep, SweepFails
<1> QED
  BY <1>2, <1>3, <1>4, <1>5, <1>7, <1>8, <1>9, <1>10, <1>12, <1>13, <1>14, <1>15 DEF Collect

\* It leaves the files alone, drops history, and tombstones only where a purge ends.
LEMMA CollectHistory ==
  ASSUME NEW g \in Gateways, Collect(g)
  PROVE  /\ UNCHANGED <<files, status, content>>
         /\ versions' \subseteq versions
         /\ deleted' = deleted \/ GcPurgeEnd(g)
<1>1. CASE GcPurgeEnd(g)
  BY <1>1 DEF GcPurgeEnd, PurgeTombstone
<1>2. CASE ~GcPurgeEnd(g)
  BY <1>2 DEF Collect, GcBegin, GcLimit, GcListDeleted, GcPurge, PurgeHistory, GcCapacity,
     SelectManifests, SelectChunks, DropRemote, DropRemoteFails, DropRow, CollectDone,
     ScanKnown, Sweep, SweepFails, dbVars
<1> QED
  BY <1>1, <1>2

---------------------------------------------------------------------------
(* What an operation holds                                                 *)

\* The rows of files have manifests, so a file that is there is found.
CurrentRegistered == Retained \subseteq manifests

LEMMA RowFound ==
  ASSUME TypeInv, CurrentRegistered, NEW p \in Paths
  PROVE  FileRow(p) = files[p]
<1>1. CASE files[p] = NoRow
  BY <1>1 DEF FileRow
<1>2. CASE files[p] # NoRow
  <2>1. files[p].manifest \in Current
    BY <1>2, RowRetained DEF TypeInv
  <2> QED
    BY <2>1 DEF CurrentRegistered, Retained, FileRow
<1> QED
  BY <1>1, <1>2

\* While an upload holds its path the row it read is current; a rename has a target
\* without a file, and moves a file that is there.
Held(g) ==
    /\ Uploading(g) => files[job[g].path] = job[g].base
    /\ job[g].pc \in RenamePcs \/ job[g].next = "readSource" => files[job[g].dst] = NoRow
    /\ job[g].pc = "move" => files[job[g].path] # NoRow

HeldInv == \A g \in Gateways : Held(g)

\* The others hold other paths than g, and g changes the rows of its own paths only.
LEMMA HeldKept ==
  ASSUME TypeInv, LeaseInv, HeldInv, NEW g \in Gateways, OthersStay(g), Held(g)',
         \A p \in Paths \ PathsHeld(g) : files'[p] = files[p]
  PROVE  HeldInv'
<1> SUFFICES ASSUME NEW h \in Gateways \ {g} PROVE Held(h)'
  BY DEF HeldInv
<1>1. job'[h] = job[h] /\ Held(h)
  BY DEF OthersStay, HeldInv
<1>2. \A p \in PathsHeld(h) : p \notin PathsHeld(g)
  BY DEF LeaseInv, LeasesApart
<1>3. CASE Uploading(h)
  <2>1. job[h].path \in Paths /\ job[h].path \in PathsHeld(h)
    BY <1>3, NoneIsNoValue DEF Uploading, TypeInv, JobInv, InStep, PathsHeld
  <2>2. job[h].pc \notin RenamePcs
    BY <1>3 DEF Uploading, UploadPcs, RenamePcs
  <2>3. job[h].next = "readSource" => job[h].dst \in Paths /\ job[h].dst \in PathsHeld(h)
    BY NoneIsNoValue DEF TypeInv, JobInv, InStep, PathsHeld
  <2> QED
    BY <1>1, <1>2, <2>1, <2>2, <2>3 DEF Held, Uploading, RenamePcs
<1>4. CASE ~Uploading(h) /\ (job[h].pc \in RenamePcs \/ job[h].next = "readSource")
  <2>1. /\ job[h].path \in Paths /\ job[h].path \in PathsHeld(h)
        /\ job[h].dst \in Paths /\ job[h].dst \in PathsHeld(h)
    BY <1>4, NoneIsNoValue DEF TypeInv, JobInv, InStep, PathsHeld
  <2> QED
    BY <1>1, <1>2, <1>4, <2>1 DEF Held, Uploading
<1>5. CASE ~Uploading(h) /\ job[h].pc \notin RenamePcs /\ job[h].next # "readSource"
  BY <1>1, <1>5 DEF Held, Uploading, RenamePcs
<1> QED
  BY <1>3, <1>4, <1>5

\* A job that is no upload and no rename holds nothing.
LEMMA RestHeld ==
  ASSUME NEW g \in Gateways, job'[g].pc \notin UploadPcs \cup RenamePcs,
         job'[g].next # "readSource"
  PROVE  Held(g)'
  BY DEF Held, Uploading, RenamePcs

LEMMA UploadHeld ==
  ASSUME TypeInv, LeaseInv, CurrentRegistered, HeldInv, NEW g \in Gateways, Upload(g)
  PROVE  HeldInv'
<1>0. Held(g)
  BY DEF HeldInv
<1>1. ASSUME NEW o \in Ops, NEW p \in Paths, NEW body \in SUBSET Blobs, UploadBegin(g, o, p, body)
      PROVE  HeldInv'
  <2> DEFINE j == [IdleJob EXCEPT !.pc = "pending", !.op = o, !.path = p, !.base = FileRow(p),
                                  !.version = NextVersion(p), !.left = body]
  <2>1. /\ Become(g, j) /\ j.pc = "pending" /\ j.path = p /\ j.base = FileRow(p) /\ j.next = "idle"
        /\ files' = files
    BY <1>1 DEF UploadBegin, IdleJob
  <2> HIDE DEF j
  <2>2. OthersStay(g) /\ job'[g] = j
    BY <2>1, BecomeEffect
  <2>3. Held(g)'
    BY <2>1, <2>2, RowFound DEF Held, RenamePcs
  <2> QED
    BY <2>1, <2>2, <2>3, HeldKept
<1>2. CASE UploadMoves(g)
  <2>1. /\ OthersStay(g) /\ Carries(g) /\ Uploading(g) /\ job'[g].pc \in UploadPcs
        /\ files' = files
    BY <1>2, UploadMovesOn
  <2>2. Held(g)'
    BY <1>0, <2>1 DEF Held, Carries, UploadPcs, RenamePcs
  <2> QED
    BY <2>1, <2>2, HeldKept
<1>3. CASE CommitReplace(g) \/ CommitInsert(g)
  <2>1. Publish(g) /\ job[g].path \in Paths /\ files \in [Paths -> Row]
    BY <1>3 DEF CommitReplace, CommitInsert, TypeInv, DbInv, DbTypeOK, JobInv, InStep, UploadPcs
  <2>2. OthersStay(g) /\ job'[g] = IdleJob
    BY <2>1, FinishEffect DEF Publish
  <2>3. \A p \in Paths \ PathsHeld(g) : files'[p] = files[p]
    BY <2>1, NoneIsNoValue DEF Publish, PathsHeld
  <2> QED
    BY <2>2, <2>3, RestHeld, HeldKept DEF IdleJob, UploadPcs, RenamePcs
<1>4. CASE UnpinUnchanged(g) \/ UnpinFailed(g)
  <2>1. /\ OthersStay(g) /\ files' = files
        /\ job'[g].pc \in {"idle", "collect"} /\ job'[g].next = "idle"
    BY <1>4, UploadEnds
  <2> QED
    BY <2>1, RestHeld, HeldKept DEF UploadPcs, RenamePcs
<1> QED
  BY <1>1, <1>2, <1>3, <1>4, UploadCases

LEMMA DeleteOrRenameHeld ==
  ASSUME TypeInv, LeaseInv, CurrentRegistered, HeldInv, NEW g \in Gateways, DeleteOrRename(g)
  PROVE  HeldInv'
<1>0. job[g] \in Job /\ Held(g) /\ files \in [Paths -> Row]
  BY DEF TypeInv, JobInv, DbInv, DbTypeOK, HeldInv
<1>1. ASSUME NEW p \in Paths, DeleteBegin(g, p)
      PROVE  HeldInv'
  <2> DEFINE j == [IdleJob EXCEPT !.pc = "delete", !.path = p, !.base = FileRow(p)]
  <2>1. Become(g, j) /\ j.pc = "delete" /\ j.next = "idle" /\ files' = files
    BY <1>1 DEF DeleteBegin, IdleJob, dbVars
  <2> HIDE DEF j
  <2>2. OthersStay(g) /\ job'[g] = j
    BY <2>1, BecomeEffect
  <2> QED
    BY <2>1, <2>2, RestHeld, HeldKept DEF UploadPcs, RenamePcs
<1>2. ASSUME NEW s \in Paths, NEW d \in Paths, RenameBegin(g, s, d)
      PROVE  HeldInv'
  <2> DEFINE pc == IF d \in deleted THEN "purgeTarget" ELSE "readSource"
             j == [IdleJob EXCEPT !.pc = pc, !.path = s, !.dst = d]
  <2>1. /\ Become(g, j) /\ j.pc \in {"purgeTarget", "readSource"} /\ j.dst = d
        /\ files[d] = NoRow /\ files' = files
    BY <1>2, RowFound DEF RenameBegin, IdleJob, dbVars
  <2> HIDE DEF j
  <2>2. OthersStay(g) /\ job'[g] = j
    BY <2>1, BecomeEffect
  <2>3. Held(g)'
    BY <2>1, <2>2 DEF Held, Uploading, UploadPcs
  <2> QED
    BY <2>1, <2>2, <2>3, HeldKept
<1>3. CASE PurgeTarget(g)
  <2>1. PICK j : Become(g, j) /\ j.pc = "purgeTargetEnd" /\ j.dst = job[g].dst
    BY <1>3, PurgeOpens DEF PurgeTarget
  <2>2. OthersStay(g) /\ job'[g] = j /\ job[g].pc = "purgeTarget" /\ files' = files
    BY <1>3, <2>1, BecomeEffect DEF PurgeTarget, PurgeHistory, dbVars
  <2>3. Held(g)'
    BY <1>0, <2>1, <2>2 DEF Held, Uploading, UploadPcs, RenamePcs
  <2> QED
    BY <2>2, <2>3, HeldKept
<1>4. CASE PurgeTargetEnd(g)
  <2> DEFINE j == [job[g] EXCEPT !.pc = "collect", !.next = "readSource", !.purge = NoPurge]
  <2>1. Become(g, j) /\ j.pc = "collect" /\ j.dst = job[g].dst
    BY <1>0, <1>4 DEF PurgeTargetEnd, Job
  <2> HIDE DEF j
  <2>2. OthersStay(g) /\ job'[g] = j /\ job[g].pc = "purgeTargetEnd" /\ files' = files
    BY <1>4, <2>1, BecomeEffect DEF PurgeTargetEnd, PurgeTombstone
  <2>3. Held(g)'
    BY <1>0, <2>1, <2>2 DEF Held, Uploading, UploadPcs, RenamePcs
  <2> QED
    BY <2>2, <2>3, HeldKept
<1>5. CASE ReadSource(g)
  <2>1. OthersStay(g) /\ Carries(g) /\ job'[g].pc = "move"
    BY <1>5, GotoEffect DEF ReadSource
  <2>2. files' = files /\ job[g].pc = "readSource" /\ files[job[g].path] # NoRow
    BY <1>5 DEF ReadSource, FileRow, dbVars
  <2>3. Held(g)'
    BY <1>0, <2>1, <2>2 DEF Held, Carries, Uploading, UploadPcs, RenamePcs
  <2> QED
    BY <2>1, <2>2, <2>3, HeldKept
<1>6. CASE DeleteCommit(g) \/ Move(g) \/ DeleteRefused(g) \/ SourceNotFound(g) \/ MoveRefused(g)
  <2>1. OthersStay(g) /\ job'[g] = IdleJob
    BY <1>6, FinishEffect DEF DeleteCommit, Move, DeleteRefused, SourceNotFound, MoveRefused
  <2>2. \A p \in Paths \ PathsHeld(g) : files'[p] = files[p]
    <3>1. CASE DeleteCommit(g) \/ Move(g)
      <4>1. /\ job[g].path \in Paths
            /\ Move(g) => job[g].dst \in Paths
        BY <3>1 DEF DeleteCommit, Move, TypeInv, JobInv, InStep, RenamePcs
      <4> QED
        BY <1>0, <3>1, <4>1, NoneIsNoValue DEF DeleteCommit, Move, PathsHeld
    <3>2. CASE ~DeleteCommit(g) /\ ~Move(g)
      BY <1>6, <3>2 DEF DeleteRefused, SourceNotFound, MoveRefused, dbVars
    <3> QED
      BY <3>1, <3>2
  <2> QED
    BY <2>1, <2>2, RestHeld, HeldKept DEF IdleJob, UploadPcs, RenamePcs
<1> QED
  BY <1>1, <1>2, <1>3, <1>4, <1>5, <1>6 DEF DeleteOrRename

LEMMA HeldInit == Init => HeldInv
  BY DEF Init, IdleJob, HeldInv, Held, Uploading, UploadPcs, RenamePcs

LEMMA HeldNext ==
  TypeInv /\ LeaseInv /\ CurrentRegistered /\ HeldInv /\ [Next]_vars => HeldInv'
<1> SUFFICES ASSUME TypeInv, LeaseInv, CurrentRegistered, HeldInv, [Next]_vars
             PROVE  HeldInv'
  OBVIOUS
<1>1. ASSUME NEW g \in Gateways, Upload(g) \/ DeleteOrRename(g)
      PROVE  HeldInv'
  BY <1>1, UploadHeld, DeleteOrRenameHeld
<1>2. ASSUME NEW g \in Gateways, Collect(g)
      PROVE  HeldInv'
  <2>1. /\ OthersStay(g)
        /\ job'[g].pc \notin UploadPcs \cup {"delete", "purgeTarget", "purgeTargetEnd", "move"}
        /\ job'[g].pc = "readSource" \/ job'[g].next = "readSource" =>
              job[g].next = "readSource" /\ job'[g].dst = job[g].dst
    BY <1>2, CollectEffect
  <2>2. files' = files
    BY <1>2, CollectHistory
  <2>3. Held(g)
    BY DEF HeldInv
  <2>4. Held(g)'
    BY <2>1, <2>2, <2>3 DEF Held, Uploading, RenamePcs
  <2> QED
    BY <2>1, <2>2, <2>4, HeldKept
<1>3. ASSUME NEW g \in Gateways, Crash(g) \/ Restart(g)
      PROVE  HeldInv'
  <2> DEFINE j == [IdleJob EXCEPT !.pc = "down"]
  <2>1. (Become(g, j) \/ Become(g, IdleJob)) /\ files' = files
    BY <1>3 DEF Crash, Restart, Finish, dbVars
  <2>2. /\ j.pc = "down" /\ j.next = "idle"
        /\ IdleJob.pc = "idle" /\ IdleJob.next = "idle"
    BY DEF IdleJob
  <2> HIDE DEF j
  <2>3. OthersStay(g) /\ job'[g].pc \in {"down", "idle"} /\ job'[g].next = "idle"
    BY <2>1, <2>2, BecomeEffect
  <2> QED
    BY <2>1, <2>3, RestHeld, HeldKept DEF UploadPcs, RenamePcs
<1>4. CASE GraceElapses \/ UNCHANGED vars
  <2>1. UNCHANGED <<job, files>>
    BY <1>4 DEF GraceElapses, vars, dbVars
  <2> QED
    BY <2>1 DEF HeldInv, Held, Uploading
<1> QED
  BY <1>1, <1>2, <1>3, <1>4 DEF Next

---------------------------------------------------------------------------
(* The history of a path, as a gateway that is alone sees it               *)

\* The version an upload will get is above everything its path has.
UploadKnows(g) ==
    Uploading(g) =>
        /\ job[g].base # NoRow => job[g].base.version < job[g].version
        /\ \A r \in HistoryOf(job[g].path) : r.version < job[g].version

\* The target of a rename has no history and no tombstone, once they are purged.
RenameKnows(g) ==
    job[g].pc \in {"readSource", "move"} \/ job[g].next = "readSource" =>
        HistoryOf(job[g].dst) = {} /\ job[g].dst \notin deleted

\* A purge that has taken the history of its path has taken all of it, and no version is
\* archived there before the tombstone goes.
PurgeKnows(g) ==
    /\ job[g].pc \in {"purgeTargetEnd", "purgeEnd"} =>
          job[g].purge.rows = HistoryOf(job[g].purge.path)
    /\ job[g].pc = "purgeTargetEnd" => job[g].purge.path = job[g].dst

PathsKnown == \A g \in Gateways : UploadKnows(g) /\ RenameKnows(g) /\ PurgeKnows(g)

HistoryInv == HistoryBelowCurrent /\ TombstonesMatch /\ PathsKnown

LEMMA AloneKnows ==
  ASSUME Alone, NEW g \in Gateways, UploadKnows(g)', RenameKnows(g)', PurgeKnows(g)'
  PROVE  PathsKnown'
  BY DEF Alone, PathsKnown

\* The version of a new upload is above the current one and above all of the history.
LEMMA NextVersionAbove ==
  ASSUME TypeInv, CurrentRegistered, HistoryBelowCurrent, NEW p \in Paths
  PROVE  /\ files[p] # NoRow => files[p].version < NextVersion(p)
         /\ \A r \in HistoryOf(p) : r.version < NextVersion(p)
<1>0. FileRow(p) = files[p] /\ files[p] \in Row
  BY RowFound DEF TypeInv, DbInv, DbTypeOK
<1>00. \A r \in HistoryOf(p) : r \in versions /\ r.path = p /\ r.version \in Nat
  BY DEF HistoryOf, TypeInv, DbInv, DbTypeOK, Version
<1>1. CASE files[p] # NoRow
  <2>1. NextVersion(p) = files[p].version + 1 /\ files[p].version \in Nat
    BY <1>0, <1>1 DEF NextVersion, Row
  <2>2. \A r \in HistoryOf(p) : r.version < files[p].version
    BY <1>00, <1>1 DEF HistoryBelowCurrent
  <2> QED
    BY <1>00, <2>1, <2>2
<1>2. CASE files[p] = NoRow
  <2> DEFINE S == {0} \cup {r.version : r \in HistoryOf(p)}
  <2>1. S \in SUBSET Nat /\ S # {}
    BY <1>00
  <2>2. PICK n \in Nat : \A r \in versions : r.version <= n
    BY DEF TypeInv, DbInv, VersionsBounded
  <2>3. \A x \in S : x <= n
    BY <2>2, <1>00
  <2>4. Max(S) \in S /\ \A x \in S : x <= Max(S)
    BY <2>1, <2>3, MaxOfBounded
  <2>5. NextVersion(p) = Max(S) + 1
    BY <1>0, <1>2 DEF NextVersion
  <2>6. \A r \in HistoryOf(p) : r.version \in S
    OBVIOUS
  <2> HIDE DEF S
  <2>7. Max(S) \in Nat
    BY <2>1, <2>4
  <2> QED
    BY <1>00, <1>2, <2>4, <2>5, <2>6, <2>7
<1> QED
  BY <1>1, <1>2

\* A job that is no upload, no rename and no purge relies on nothing of a path.
LEMMA RestKnows ==
  ASSUME NEW g \in Gateways, job'[g].pc \notin UploadPcs \cup RenamePcs \cup {"purgeEnd"},
         job'[g].next # "readSource"
  PROVE  UploadKnows(g)' /\ RenameKnows(g)' /\ PurgeKnows(g)'
  BY DEF UploadKnows, RenameKnows, PurgeKnows, Uploading, RenamePcs

\* Losing history, and tombstones with all of theirs, disturbs nothing.
LEMMA HistoryMayShrink ==
  ASSUME HistoryBelowCurrent, TombstonesMatch,
         files' = files, versions' \subseteq versions, deleted' \subseteq deleted,
         \A p \in deleted \ deleted' : \A r \in versions' : r.path # p
  PROVE  HistoryBelowCurrent' /\ TombstonesMatch'
<1>1. Current' = Current
  BY DEF Current
<1>2. HistoryBelowCurrent'
  BY <1>1 DEF HistoryBelowCurrent
<1>3. TombstonesMatch'
  BY DEF TombstonesMatch
<1> QED
  BY <1>2, <1>3

\* The row a job archives is the current one of its path: nothing is overwritten.
LEMMA ArchiveAdds ==
  ASSUME TypeInv, HistoryBelowCurrent, NEW p \in Paths, files[p] # NoRow
  PROVE  /\ Archive(p, files[p]) =
              versions \cup {[path |-> p, version |-> files[p].version,
                              manifest |-> files[p].manifest]}
         /\ files[p].manifest \in Current
         /\ \A r \in versions : /\ r.manifest # files[p].manifest
                                /\ r.path = p => r.version < files[p].version
<1>1. files[p].manifest \in Current /\ files[p].version \in Nat
  BY RowRetained DEF TypeInv, DbInv, DbTypeOK, Row
<1>2. \A r \in versions : /\ r.manifest # files[p].manifest
                          /\ r.path = p => r.version < files[p].version
  BY <1>1 DEF HistoryBelowCurrent
<1>3. \A r \in versions : r.version \in Nat
  BY DEF TypeInv, DbInv, DbTypeOK, Version
<1>4. \A r \in versions : ~(r.path = p /\ r.version = files[p].version)
  BY <1>1, <1>2, <1>3
<1> QED
  BY <1>1, <1>2, <1>4 DEF Archive

\* A commit: the new version is above the archived one, and its manifest is new.
LEMMA PublishHistory ==
  ASSUME Alone, TypeInv, ActiveInv, HeldInv, HistoryInv, NEW g \in Gateways,
         CommitReplace(g) \/ CommitInsert(g)
  PROVE  HistoryInv'
<1> DEFINE p == job[g].path
           o == job[g].op
           b == job[g].base
           v == job[g].version
<1>1. Publish(g) /\ Uploading(g) /\ job[g].pc \in {"commit", "insert"}
  BY DEF CommitReplace, CommitInsert, Uploading, UploadPcs
<1>2. /\ p \in Paths /\ o \in Ops /\ v \in Nat /\ p \in PathsHeld(g)
      /\ files \in [Paths -> Row]
  <2>1. job[g] \in Job /\ p \in Paths /\ o \in Ops /\ files \in [Paths -> Row]
    BY <1>1 DEF TypeInv, JobInv, InStep, Uploading, DbInv, DbTypeOK
  <2> QED
    BY <2>1, NoneIsNoValue DEF Job, PathsHeld
<1>3. /\ files[p] = b
      /\ b # NoRow => b.version < v
      /\ \A r \in versions : r.path = p => r.version < v
  BY <1>1 DEF HeldInv, Held, HistoryInv, PathsKnown, UploadKnows, HistoryOf
<1>4. status[o] # "ACTIVE"
  BY <1>1 DEF ActiveInv, OwnRecord
<1>5. o \notin Retained
  BY <1>4 DEF ActiveInv, RetainedIsActive
<1>6. /\ files' = [files EXCEPT ![p] = [manifest |-> o, version |-> v]]
      /\ deleted' = deleted \ {p}
      /\ versions' = IF b = NoRow THEN versions
                     ELSE versions \cup {[path |-> p, version |-> b.version, manifest |-> b.manifest]}
  BY <1>1, <1>2, <1>3, ArchiveAdds DEF Publish, BaseArchived, HistoryInv
<1>7. /\ files'[p] = [manifest |-> o, version |-> v] /\ files'[p] # NoRow
      /\ \A q \in Paths : q # p => files'[q] = files[q]
  BY <1>2, <1>6, NoneIsNoValue DEF NoRow
<1>8. /\ b # NoRow => b.manifest \in Current /\ \A r \in versions : r.manifest # b.manifest
      /\ \A r \in versions : r.manifest \in Retained /\ r.manifest \notin Current
      /\ \A q \in Paths : files[q] # NoRow => files[q].manifest \in Current
      /\ Current \subseteq Retained
  BY <1>2, <1>3, ArchiveAdds, RowRetained DEF HistoryInv, HistoryBelowCurrent, TypeInv, Retained, Archived
<1>9. \A m \in Current' : m = o \/ \E q \in Paths : q # p /\ m = files[q].manifest /\ m # None
  BY <1>7 DEF Current
<1>10. \A r \in versions' :
          r \in versions \/ (b # NoRow /\ r = [path |-> p, version |-> b.version, manifest |-> b.manifest])
  BY <1>6
<1>11. \A m \in Current' : m \in Current \cup {o} /\ (b # NoRow => m # b.manifest)
  <2> SUFFICES ASSUME NEW m \in Current' PROVE m \in Current \cup {o} /\ (b # NoRow => m # b.manifest)
    OBVIOUS
  <2>1. CASE m = o
    BY <1>5, <1>8, <2>1
  <2>2. CASE m # o
    <3>1. PICK q \in Paths : q # p /\ m = files[q].manifest /\ m # None
      BY <1>9, <2>2
    <3>2. m \in Current
      BY <3>1 DEF Current
    <3>3. b # NoRow => files[p] # NoRow
      BY <1>3
    <3> QED
      BY <1>2, <1>3, <3>1, <3>2 DEF HistoryInv, HistoryBelowCurrent
  <2> QED
    BY <2>1, <2>2
<1>12. HistoryBelowCurrent'
  <2>1. ASSUME NEW r \in versions'
        PROVE  /\ files'[r.path] # NoRow => r.version < files'[r.path].version
               /\ r.manifest \notin Current'
    <3>1. CASE r \in versions
      <4>1. r.manifest \notin Current'
        BY <1>5, <1>8, <1>11, <3>1
      <4>2. CASE r.path = p
        BY <1>3, <1>7, <3>1, <4>1, <4>2
      <4>3. CASE r.path # p
        BY <1>7, <3>1, <4>1, <4>3 DEF HistoryInv, HistoryBelowCurrent, TypeInv, DbInv, DbTypeOK, Version
      <4> QED
        BY <4>2, <4>3
    <3>2. CASE r \notin versions
      BY <1>3, <1>7, <1>10, <1>11, <3>2
    <3> QED
      BY <3>1, <3>2
  <2>2. ASSUME NEW r \in versions', NEW q \in versions',
               r.manifest = q.manifest \/ (r.path = q.path /\ r.version = q.version)
        PROVE  r = q
    <3>1. CASE r \in versions /\ q \in versions
      BY <2>2, <3>1 DEF HistoryInv, HistoryBelowCurrent
    <3>2. CASE b # NoRow
      <4>1. \A s \in versions : s.path = p => s.version < b.version /\ s.version \in Nat
        BY <1>2, <1>3, <3>2, ArchiveAdds DEF HistoryInv, TypeInv, DbInv, DbTypeOK, Version
      <4>2. b.version \in Nat
        BY <1>2, <1>3, <3>2 DEF Row
      <4> QED
        BY <1>8, <1>10, <2>2, <3>1, <3>2, <4>1, <4>2
    <3> QED
      BY <1>6, <3>1, <3>2
  <2>3. ASSUME NEW q \in Paths, NEW s \in Paths,
               files'[q] # NoRow, files'[q].manifest = files'[s].manifest
        PROVE  q = s
    <3>1. \A t \in Paths : t # p => files'[t].manifest # o
      <4> SUFFICES ASSUME NEW t \in Paths, t # p, files'[t].manifest = o PROVE FALSE
        OBVIOUS
      <4>1. files[t] # NoRow
        BY <1>2, <1>7, NoneIsNoValue DEF NoRow
      <4> QED
        BY <1>5, <1>7, <1>8, <4>1
    <3> QED
      BY <1>7, <2>3, <3>1 DEF HistoryInv, HistoryBelowCurrent
  <2> QED
    BY <2>1, <2>2, <2>3 DEF HistoryBelowCurrent
<1>13. TombstonesMatch'
  <2>1. \A q \in deleted' : files'[q] = NoRow
    BY <1>6, <1>7 DEF HistoryInv, TombstonesMatch, TypeInv, DbInv, DbTypeOK
  <2>2. \A r \in versions' : files'[r.path] # NoRow \/ r.path \in deleted'
    <3> SUFFICES ASSUME NEW r \in versions', r.path # p
                 PROVE  files'[r.path] # NoRow \/ r.path \in deleted'
      BY <1>7
    <3>1. r \in versions /\ r.path \in Paths
      BY <1>10 DEF TypeInv, DbInv, DbTypeOK, Version
    <3> QED
      BY <1>6, <1>7, <3>1 DEF HistoryInv, TombstonesMatch
  <2> QED
    BY <2>1, <2>2 DEF TombstonesMatch
<1>14. PathsKnown'
  <2>1. job'[g] = IdleJob
    BY <1>1, FinishEffect DEF Publish
  <2> QED
    BY <2>1, RestKnows, AloneKnows DEF IdleJob, UploadPcs, RenamePcs
<1> QED
  BY <1>12, <1>13, <1>14 DEF HistoryInv

\* A step of g that drops history at most, and leaves g with what it may rely on.
LEMMA QuietHistory ==
  ASSUME Alone, HistoryInv, NEW g \in Gateways,
         files' = files, versions' \subseteq versions, deleted' \subseteq deleted,
         \A p \in deleted \ deleted' : \A r \in versions' : r.path # p,
         UploadKnows(g)' /\ RenameKnows(g)' /\ PurgeKnows(g)'
  PROVE  HistoryInv'
  BY HistoryMayShrink, AloneKnows DEF HistoryInv

LEMMA UploadBeginHistory ==
  ASSUME Alone, TypeInv, CurrentRegistered, HistoryInv,
         NEW g \in Gateways, NEW o \in Ops, NEW p \in Paths, NEW body \in SUBSET Blobs,
         UploadBegin(g, o, p, body)
  PROVE  HistoryInv'
<1> DEFINE j == [IdleJob EXCEPT !.pc = "pending", !.op = o, !.path = p, !.base = FileRow(p),
                                !.version = NextVersion(p), !.left = body]
<1>1. Become(g, j) /\ UNCHANGED <<files, versions, deleted>>
  BY DEF UploadBegin
<1>2. /\ j.pc = "pending" /\ j.path = p /\ j.base = FileRow(p) /\ j.version = NextVersion(p)
      /\ j.next = "idle"
  BY DEF IdleJob
<1> HIDE DEF j
<1>3. job'[g] = j
  BY <1>1, BecomeEffect
<1>4. FileRow(p) = files[p]
  BY RowFound
<1>5. UploadKnows(g)'
  BY <1>1, <1>2, <1>3, <1>4, NextVersionAbove DEF UploadKnows, HistoryOf, HistoryInv
<1>6. RenameKnows(g)' /\ PurgeKnows(g)'
  BY <1>2, <1>3 DEF RenameKnows, PurgeKnows
<1> QED
  BY <1>1, <1>3, <1>5, <1>6, QuietHistory

LEMMA UploadHistory ==
  ASSUME Alone, TypeInv, ActiveInv, HeldInv, CurrentRegistered, HistoryInv,
         NEW g \in Gateways, Upload(g)
  PROVE  HistoryInv'
<1>1. ASSUME NEW o \in Ops, NEW p \in Paths, NEW body \in SUBSET Blobs, UploadBegin(g, o, p, body)
      PROVE  HistoryInv'
  BY <1>1, UploadBeginHistory
<1>2. CASE UploadMoves(g)
  <2>1. /\ Carries(g) /\ Uploading(g) /\ job'[g].pc \in UploadPcs
        /\ UNCHANGED <<files, versions, deleted>>
    BY <1>2, UploadMovesOn
  <2>2. UploadKnows(g) /\ RenameKnows(g)
    BY DEF HistoryInv, PathsKnown
  <2>3. UploadKnows(g)'
    BY <2>1, <2>2 DEF UploadKnows, Carries, HistoryOf, Uploading
  <2>4. RenameKnows(g)'
    BY <2>1, <2>2 DEF RenameKnows, Carries, HistoryOf, UploadPcs
  <2>5. PurgeKnows(g)'
    BY <2>1 DEF PurgeKnows, UploadPcs
  <2> QED
    BY <2>1, <2>3, <2>4, <2>5, QuietHistory
<1>3. CASE CommitReplace(g) \/ CommitInsert(g)
  BY <1>3, PublishHistory
<1>4. CASE UnpinUnchanged(g) \/ UnpinFailed(g)
  <2>1. /\ UNCHANGED <<files, versions, deleted>>
        /\ job'[g].pc \in {"idle", "collect"} /\ job'[g].next = "idle"
    BY <1>4, UploadEnds
  <2>2. UploadKnows(g)' /\ RenameKnows(g)' /\ PurgeKnows(g)'
    BY <2>1, RestKnows DEF UploadPcs, RenamePcs
  <2> QED
    BY <2>1, <2>2, QuietHistory
<1> QED
  BY <1>1, <1>2, <1>3, <1>4, UploadCases

LEMMA DeleteCommitHistory ==
  ASSUME Alone, TypeInv, LeaseInv, HistoryInv, NEW g \in Gateways, DeleteCommit(g)
  PROVE  HistoryInv'
<1> DEFINE p == job[g].path
           b == job[g].base
           a == [path |-> p, version |-> b.version, manifest |-> b.manifest]
<1>1. /\ p \in Paths /\ b # NoRow /\ files[p] = b /\ p \in PathsHeld(g)
      /\ files \in [Paths -> Row] /\ versions \subseteq Version /\ deleted \subseteq Paths
  BY NoneIsNoValue DEF DeleteCommit, TypeInv, DbInv, DbTypeOK, JobInv, InStep, LeaseInv,
     ReadHolds, PathsHeld
<1>2. HistoryBelowCurrent /\ TombstonesMatch /\ PathsKnown
  BY DEF HistoryInv
<1>3. /\ files' = [files EXCEPT ![p] = NoRow] /\ deleted' = deleted \cup {p}
      /\ versions' = Archive(p, b) /\ job'[g] = IdleJob
  BY FinishEffect DEF DeleteCommit
<1>4. /\ versions' = versions \cup {a}
      /\ b.manifest \in Current
      /\ \A r \in versions : r.manifest # b.manifest /\ (r.path = p => r.version < b.version)
  BY <1>1, <1>2, <1>3, ArchiveAdds
<1>5. files'[p] = NoRow /\ \A q \in Paths : q # p => files'[q] = files[q]
  BY <1>1, <1>3
<1>6. \A m \in Current' : m \in Current /\ m # b.manifest
  <2> SUFFICES ASSUME NEW m \in Current' PROVE m \in Current /\ m # b.manifest
    OBVIOUS
  <2>1. PICK q \in Paths : m = files'[q].manifest /\ m # None
    BY DEF Current
  <2>2. q # p /\ m = files[q].manifest
    BY <1>5, <2>1 DEF NoRow
  <2> QED
    BY <1>1, <1>2, <2>1, <2>2 DEF Current, HistoryBelowCurrent
<1>7. a.path = p /\ a.version = b.version /\ a.manifest = b.manifest /\ b.version \in Nat
  BY <1>1 DEF Row
<1>8. \A r \in versions : r.version \in Nat /\ r.path \in Paths
  BY <1>1 DEF Version
<1> HIDE DEF a
<1>9. HistoryBelowCurrent'
  <2>1. \A r \in versions' : /\ files'[r.path] # NoRow => r.version < files'[r.path].version
                             /\ r.manifest \notin Current'
    BY <1>2, <1>4, <1>5, <1>6, <1>7, <1>8 DEF HistoryBelowCurrent
  <2>2. \A r, q \in versions' :
           r.manifest = q.manifest \/ (r.path = q.path /\ r.version = q.version) => r = q
    <3>1. \A r \in versions : r.manifest # a.manifest /\ ~(r.path = a.path /\ r.version = a.version)
      BY <1>4, <1>7, <1>8
    <3> QED
      BY <1>2, <1>4, <3>1 DEF HistoryBelowCurrent
  <2>3. \A q, s \in Paths :
           files'[q] # NoRow /\ files'[q].manifest = files'[s].manifest => q = s
    <3> SUFFICES ASSUME NEW q \in Paths, NEW s \in Paths, files'[q] # NoRow,
                        files'[q].manifest = files'[s].manifest
                 PROVE  q = s
      OBVIOUS
    <3>1. q # p /\ files'[q] = files[q]
      BY <1>5
    <3>2. files'[q].manifest # None
      BY <1>1, <3>1, NoneIsNoValue DEF Row
    <3>3. s # p
      BY <1>5, <3>2 DEF NoRow
    <3> QED
      BY <1>2, <1>5, <3>1, <3>3 DEF HistoryBelowCurrent
  <2> QED
    BY <2>1, <2>2, <2>3 DEF HistoryBelowCurrent
<1>10. TombstonesMatch'
  <2>1. \A q \in deleted' : files'[q] = NoRow
    BY <1>1, <1>2, <1>3, <1>5 DEF TombstonesMatch
  <2>2. \A r \in versions' : files'[r.path] # NoRow \/ r.path \in deleted'
    BY <1>2, <1>3, <1>4, <1>5, <1>7, <1>8 DEF TombstonesMatch
  <2> QED
    BY <2>1, <2>2 DEF TombstonesMatch
<1>11. PathsKnown'
  BY <1>3, RestKnows, AloneKnows DEF IdleJob, UploadPcs, RenamePcs
<1> QED
  BY <1>9, <1>10, <1>11 DEF HistoryInv

\* A rename takes a file and all of its history to a path that has neither.
LEMMA MoveHistory ==
  ASSUME Alone, TypeInv, HeldInv, HistoryInv, NEW g \in Gateways, Move(g)
  PROVE  HistoryInv'
<1> DEFINE s == job[g].path
           d == job[g].dst
<1>1. /\ s \in Paths /\ d \in Paths /\ s \in PathsHeld(g) /\ d \in PathsHeld(g)
      /\ files \in [Paths -> Row] /\ versions \subseteq Version /\ deleted \subseteq Paths
  BY NoneIsNoValue DEF Move, TypeInv, DbInv, DbTypeOK, JobInv, InStep, RenamePcs, PathsHeld
<1>2. HistoryBelowCurrent /\ TombstonesMatch /\ PathsKnown
  BY DEF HistoryInv
<1>3. /\ files[s] # NoRow /\ files[d] = NoRow /\ d \notin deleted
      /\ \A r \in versions : r.path # d
  BY <1>2 DEF Move, HeldInv, Held, RenamePcs, PathsKnown, RenameKnows, HistoryOf
<1>4. s # d
  BY <1>3
<1>5. /\ files' = [files EXCEPT ![s] = NoRow, ![d] = files[s]]
      /\ versions' = (versions \ HistoryOf(s)) \cup {[r EXCEPT !.path = d] : r \in HistoryOf(s)}
      /\ deleted' = deleted
  BY <1>3 DEF Move
<1>6. job'[g] = IdleJob
  BY FinishEffect DEF Move
<1>7. /\ files'[s] = NoRow /\ files'[d] = files[s]
      /\ \A q \in Paths : q # s /\ q # d => files'[q] = files[q]
  BY <1>1, <1>4, <1>5
\* Every archived version is the one it was, at the path it has now.
<1>8. ASSUME NEW r \in versions'
      PROVE  \E q \in versions :
                /\ r.version = q.version /\ r.manifest = q.manifest
                /\ q.path = s => r.path = d
                /\ q.path # s => r = q
                /\ q.path = s => r = [q EXCEPT !.path = d]
  <2>1. CASE r \in versions \ HistoryOf(s)
    BY <2>1 DEF HistoryOf
  <2>2. CASE \E q \in HistoryOf(s) : r = [q EXCEPT !.path = d]
    <3>1. PICK q \in versions : q.path = s /\ r = [q EXCEPT !.path = d]
      BY <2>2 DEF HistoryOf
    <3>2. r.path = d /\ r.version = q.version /\ r.manifest = q.manifest
      BY <1>1, <3>1 DEF Version
    <3> QED
      BY <3>1, <3>2
  <2> QED
    BY <1>5, <2>1, <2>2
<1>9. \A m \in Current' : m \in Current
  <2> SUFFICES ASSUME NEW m \in Current' PROVE m \in Current
    OBVIOUS
  <2>1. PICK q \in Paths : m = files'[q].manifest /\ m # None
    BY DEF Current
  <2>2. q # s
    BY <1>7, <2>1 DEF NoRow
  <2>3. CASE q = d
    BY <1>1, <1>7, <2>1, <2>3 DEF Current
  <2>4. CASE q # d
    BY <1>7, <2>1, <2>2, <2>4 DEF Current
  <2> QED
    BY <2>3, <2>4
<1>10. HistoryBelowCurrent'
  <2>1. ASSUME NEW r \in versions'
        PROVE  /\ files'[r.path] # NoRow => r.version < files'[r.path].version
               /\ r.manifest \notin Current'
    <3>1. PICK q \in versions :
              /\ r.version = q.version /\ r.manifest = q.manifest
              /\ q.path = s => r.path = d
              /\ q.path # s => r = q
      BY <1>8
    <3>2. r.manifest \notin Current'
      BY <1>2, <1>9, <3>1 DEF HistoryBelowCurrent
    <3>3. q.path \in Paths /\ q.path # d
      BY <1>1, <1>3 DEF Version
    <3>4. files'[r.path] # NoRow => r.version < files'[r.path].version
      BY <1>2, <1>7, <3>1, <3>3 DEF HistoryBelowCurrent
    <3> QED
      BY <3>2, <3>4
  <2>2. ASSUME NEW r \in versions', NEW t \in versions',
               r.manifest = t.manifest \/ (r.path = t.path /\ r.version = t.version)
        PROVE  r = t
    <3>1. PICK q \in versions :
              /\ r.version = q.version /\ r.manifest = q.manifest
              /\ q.path = s => r.path = d
              /\ q.path # s => r = q
              /\ q.path = s => r = [q EXCEPT !.path = d]
      BY <1>8
    <3>2. PICK u \in versions :
              /\ t.version = u.version /\ t.manifest = u.manifest
              /\ u.path = s => t.path = d
              /\ u.path # s => t = u
              /\ u.path = s => t = [u EXCEPT !.path = d]
      BY <1>8
    <3>3. q.path # d /\ u.path # d
      BY <1>3
    <3>4. q.manifest = u.manifest \/ (q.path = u.path /\ q.version = u.version)
      BY <2>2, <3>1, <3>2, <3>3
    <3>5. q = u
      BY <1>2, <3>4 DEF HistoryBelowCurrent
    <3> QED
      BY <3>1, <3>2, <3>5
  <2>3. ASSUME NEW q \in Paths, NEW t \in Paths,
               files'[q] # NoRow, files'[q].manifest = files'[t].manifest
        PROVE  q = t
    <3>1. \A x \in Paths : files[x] # NoRow => files[x].manifest # None
      BY <1>1, NoneIsNoValue DEF Row
    <3>2. q # s
      BY <1>7, <2>3
    <3>3. files'[q].manifest # None
      <4>1. CASE q = d
        BY <1>1, <1>3, <1>7, <3>1, <4>1
      <4>2. CASE q # d
        BY <1>7, <2>3, <3>1, <3>2, <4>2
      <4> QED
        BY <4>1, <4>2
    <3>4. t # s
      BY <1>7, <2>3, <3>3 DEF NoRow
    <3>5. \A x \in Paths : x # s /\ x # d => files[x].manifest # files[s].manifest
      BY <1>1, <1>2, <1>3 DEF HistoryBelowCurrent
    <3>6. CASE q = d
      BY <1>7, <2>3, <3>4, <3>5, <3>6
    <3>7. CASE q # d
      <4>1. files'[q] = files[q]
        BY <1>7, <3>2, <3>7
      <4>2. t # d
        BY <1>7, <2>3, <3>2, <3>5, <3>7, <4>1
      <4> QED
        BY <1>2, <1>7, <2>3, <3>4, <4>1, <4>2 DEF HistoryBelowCurrent
    <3> QED
      BY <3>6, <3>7
  <2> QED
    BY <2>1, <2>2, <2>3 DEF HistoryBelowCurrent
<1>11. TombstonesMatch'
  <2>1. \A q \in deleted' : files'[q] = NoRow
    BY <1>1, <1>2, <1>3, <1>5, <1>7 DEF TombstonesMatch
  <2>2. ASSUME NEW r \in versions'
        PROVE  files'[r.path] # NoRow \/ r.path \in deleted'
    <3>1. PICK q \in versions : (q.path = s => r.path = d) /\ (q.path # s => r = q)
      BY <1>8
    <3>2. q.path \in Paths /\ q.path # d
      BY <1>1, <1>3 DEF Version
    <3> QED
      BY <1>2, <1>3, <1>5, <1>7, <3>1, <3>2 DEF TombstonesMatch
  <2> QED
    BY <2>1, <2>2 DEF TombstonesMatch
<1>12. PathsKnown'
  BY <1>6, RestKnows, AloneKnows DEF IdleJob, UploadPcs, RenamePcs
<1> QED
  BY <1>10, <1>11, <1>12 DEF HistoryInv

LEMMA DeleteOrRenameHistory ==
  ASSUME Alone, TypeInv, LeaseInv, CurrentRegistered, HeldInv, HistoryInv,
         NEW g \in Gateways, DeleteOrRename(g)
  PROVE  HistoryInv'
<1>0. /\ job[g] \in Job /\ Held(g)
      /\ HistoryBelowCurrent /\ TombstonesMatch /\ RenameKnows(g) /\ PurgeKnows(g)
  BY DEF TypeInv, JobInv, HeldInv, HistoryInv, PathsKnown
<1>1. ASSUME NEW p \in Paths, DeleteBegin(g, p)
      PROVE  HistoryInv'
  <2> DEFINE j == [IdleJob EXCEPT !.pc = "delete", !.path = p, !.base = FileRow(p)]
  <2>1. Become(g, j) /\ j.pc = "delete" /\ j.next = "idle"
    BY <1>1 DEF DeleteBegin, IdleJob
  <2> HIDE DEF j
  <2>2. job'[g] = j /\ UNCHANGED <<files, versions, deleted>>
    BY <1>1, <2>1, BecomeEffect DEF DeleteBegin, dbVars
  <2>3. UploadKnows(g)' /\ RenameKnows(g)' /\ PurgeKnows(g)'
    BY <2>1, <2>2, RestKnows DEF UploadPcs, RenamePcs
  <2> QED
    BY <2>2, <2>3, QuietHistory
<1>2. ASSUME NEW s \in Paths, NEW d \in Paths, RenameBegin(g, s, d)
      PROVE  HistoryInv'
  <2> DEFINE pc == IF d \in deleted THEN "purgeTarget" ELSE "readSource"
             j == [IdleJob EXCEPT !.pc = pc, !.path = s, !.dst = d]
  <2>1. /\ Become(g, j) /\ j.pc = pc /\ j.next = "idle" /\ j.dst = d
        /\ files[d] = NoRow
    BY <1>2, RowFound DEF RenameBegin, IdleJob
  <2> HIDE DEF j
  <2>2. job'[g] = j /\ UNCHANGED <<files, versions, deleted>>
    BY <1>2, <2>1, BecomeEffect DEF RenameBegin, dbVars
  <2>3. UploadKnows(g)' /\ PurgeKnows(g)'
    BY <2>1, <2>2 DEF UploadKnows, PurgeKnows, Uploading, UploadPcs
  <2>4. RenameKnows(g)'
    BY <1>0, <2>1, <2>2 DEF RenameKnows, TombstonesMatch, HistoryOf
  <2> QED
    BY <2>2, <2>3, <2>4, QuietHistory
<1>3. CASE PurgeTarget(g)
  <2>1. PICK j : /\ Become(g, j) /\ j.pc = "purgeTargetEnd" /\ j.next = job[g].next
                 /\ j.dst = job[g].dst
                 /\ j.purge.path = job[g].dst /\ j.purge.rows = HistoryOf(job[g].dst)
    BY <1>3, PurgeOpens DEF PurgeTarget
  <2>2. job'[g] = j /\ UNCHANGED <<files, versions, deleted>>
    BY <1>3, <2>1, BecomeEffect DEF PurgeTarget, PurgeHistory, dbVars
  <2>3. UploadKnows(g)' /\ RenameKnows(g)' /\ PurgeKnows(g)'
    BY <1>0, <2>1, <2>2 DEF UploadKnows, RenameKnows, PurgeKnows, Uploading, UploadPcs, HistoryOf
  <2> QED
    BY <2>2, <2>3, QuietHistory
<1>4. CASE PurgeTargetEnd(g)
  <2> DEFINE j == [job[g] EXCEPT !.pc = "collect", !.next = "readSource", !.purge = NoPurge]
  <2>1. /\ Become(g, j) /\ j.pc = "collect" /\ j.dst = job[g].dst
        /\ job[g].pc = "purgeTargetEnd"
    BY <1>0, <1>4 DEF PurgeTargetEnd, Job
  <2> HIDE DEF j
  <2>2. job'[g] = j
    BY <2>1, BecomeEffect
  <2>3. /\ files' = files /\ versions' = versions \ HistoryOf(job[g].dst)
        /\ deleted' = deleted \ {job[g].dst}
    BY <1>0, <1>4, <2>1 DEF PurgeTargetEnd, PurgeTombstone, PurgeKnows
  <2>4. UploadKnows(g)' /\ RenameKnows(g)' /\ PurgeKnows(g)'
    BY <2>1, <2>2, <2>3 DEF UploadKnows, RenameKnows, PurgeKnows, Uploading, UploadPcs, HistoryOf
  <2> QED
    BY <2>3, <2>4, QuietHistory DEF HistoryOf
<1>5. CASE ReadSource(g)
  <2>1. Carries(g) /\ job'[g].pc = "move"
    BY <1>5, GotoEffect DEF ReadSource
  <2>2. UNCHANGED <<files, versions, deleted>> /\ job[g].pc = "readSource"
    BY <1>5 DEF ReadSource, dbVars
  <2>3. UploadKnows(g)' /\ RenameKnows(g)' /\ PurgeKnows(g)'
    BY <1>0, <2>1, <2>2 DEF UploadKnows, RenameKnows, PurgeKnows, Uploading, UploadPcs, HistoryOf,
       Carries
  <2> QED
    BY <2>2, <2>3, QuietHistory
<1>6. CASE DeleteRefused(g) \/ SourceNotFound(g) \/ MoveRefused(g)
  <2>1. job'[g] = IdleJob /\ UNCHANGED <<files, versions, deleted>>
    BY <1>6, FinishEffect DEF DeleteRefused, SourceNotFound, MoveRefused, dbVars
  <2>2. UploadKnows(g)' /\ RenameKnows(g)' /\ PurgeKnows(g)'
    BY <2>1, RestKnows DEF IdleJob, UploadPcs, RenamePcs
  <2> QED
    BY <2>1, <2>2, QuietHistory
<1> QED
  BY <1>1, <1>2, <1>3, <1>4, <1>5, <1>6, DeleteCommitHistory, MoveHistory DEF DeleteOrRename

LEMMA CollectKeepsHistory ==
  ASSUME Alone, TypeInv, HistoryInv, NEW g \in Gateways, Collect(g)
  PROVE  HistoryInv'
<1>0. RenameKnows(g) /\ PurgeKnows(g)
  BY DEF HistoryInv, PathsKnown
<1>1. /\ job'[g].pc \notin UploadPcs \cup {"delete", "purgeTarget", "purgeTargetEnd", "move"}
      /\ job'[g].pc = "readSource" \/ job'[g].next = "readSource" =>
            job[g].next = "readSource" /\ job'[g].dst = job[g].dst
      /\ job'[g].pc = "purgeEnd" => \E p \in Paths : GcPurge(g, p)
  BY CollectEffect
<1>2. /\ files' = files /\ versions' \subseteq versions
      /\ deleted' = deleted \/ GcPurgeEnd(g)
  BY CollectHistory
<1>3. /\ deleted' \subseteq deleted
      /\ \A p \in deleted \ deleted' : \A r \in versions' : r.path # p
  <2>1. CASE GcPurgeEnd(g)
    <3>1. /\ versions' = versions \ HistoryOf(job[g].purge.path)
          /\ deleted' = deleted \ {job[g].purge.path}
      BY <1>0, <2>1 DEF GcPurgeEnd, PurgeTombstone, PurgeKnows
    <3> QED
      BY <3>1 DEF HistoryOf
  <2> QED
    BY <1>2, <2>1
<1>4. UploadKnows(g)'
  BY <1>1 DEF UploadKnows, Uploading
<1>5. RenameKnows(g)'
  BY <1>0, <1>1, <1>2, <1>3 DEF RenameKnows, HistoryOf
<1>6. PurgeKnows(g)'
  <2>1. ASSUME NEW p \in Paths, GcPurge(g, p)
        PROVE  PurgeKnows(g)'
    <3>1. PICK j : /\ Become(g, j) /\ j.pc = "purgeEnd"
                   /\ j.purge.path = p /\ j.purge.rows = HistoryOf(p)
      BY <2>1, PurgeOpens DEF GcPurge
    <3>2. job'[g] = j /\ versions' = versions
      BY <2>1, <3>1, BecomeEffect DEF GcPurge, PurgeHistory, dbVars
    <3> QED
      BY <3>1, <3>2 DEF PurgeKnows, HistoryOf
  <2> QED
    BY <1>1, <2>1 DEF PurgeKnows
<1> QED
  BY <1>2, <1>3, <1>4, <1>5, <1>6, QuietHistory

LEMMA CrashHistory ==
  ASSUME Alone, TypeInv, HistoryInv, NEW g \in Gateways, Crash(g) \/ Restart(g)
  PROVE  HistoryInv'
<1> DEFINE j == [IdleJob EXCEPT !.pc = "down"]
<1>1. /\ Become(g, j) \/ Become(g, IdleJob)
      /\ UNCHANGED <<files, versions, deleted>>
  BY DEF Crash, Restart, Finish, dbVars
<1>2. /\ j.pc = "down" /\ j.next = "idle"
      /\ IdleJob.pc = "idle" /\ IdleJob.next = "idle"
  BY DEF IdleJob
<1> HIDE DEF j
<1>3. job'[g].pc \in {"down", "idle"} /\ job'[g].next = "idle"
  BY <1>1, <1>2, BecomeEffect
<1>4. UploadKnows(g)' /\ RenameKnows(g)' /\ PurgeKnows(g)'
  BY <1>3, RestKnows DEF UploadPcs, RenamePcs
<1> QED
  BY <1>1, <1>4, QuietHistory

LEMMA HistoryInit == Init => HistoryInv
<1> SUFFICES ASSUME Init PROVE HistoryInv
  OBVIOUS
<1>1. versions = {} /\ deleted = {} /\ \A p \in Paths : files[p] = NoRow
  BY DEF Init
<1>2. \A g \in Gateways : job[g].pc = "idle" /\ job[g].next = "idle"
  BY DEF Init, IdleJob
<1>3. HistoryBelowCurrent /\ TombstonesMatch
  BY <1>1 DEF HistoryBelowCurrent, TombstonesMatch
<1>4. PathsKnown
  BY <1>2 DEF PathsKnown, UploadKnows, RenameKnows, PurgeKnows, Uploading, UploadPcs
<1> QED
  BY <1>3, <1>4 DEF HistoryInv

LEMMA HistoryNext ==
  Alone /\ TypeInv /\ ActiveInv /\ LeaseInv /\ CurrentRegistered /\ HeldInv /\ HistoryInv
  /\ [Next]_vars => HistoryInv'
<1> SUFFICES ASSUME Alone, TypeInv, ActiveInv, LeaseInv, CurrentRegistered, HeldInv, HistoryInv,
                    [Next]_vars
             PROVE  HistoryInv'
  OBVIOUS
<1>1. ASSUME NEW g \in Gateways, Upload(g)
      PROVE  HistoryInv'
  BY <1>1, UploadHistory
<1>2. ASSUME NEW g \in Gateways, DeleteOrRename(g)
      PROVE  HistoryInv'
  BY <1>2, DeleteOrRenameHistory
<1>3. ASSUME NEW g \in Gateways, Collect(g)
      PROVE  HistoryInv'
  BY <1>3, CollectKeepsHistory
<1>4. ASSUME NEW g \in Gateways, Crash(g) \/ Restart(g)
      PROVE  HistoryInv'
  BY <1>4, CrashHistory
<1>5. CASE GraceElapses \/ UNCHANGED vars
  <2>1. UNCHANGED <<job, files, versions, deleted>>
    BY <1>5 DEF GraceElapses, vars, dbVars
  <2> QED
    BY <2>1 DEF HistoryInv, HistoryBelowCurrent, TombstonesMatch, PathsKnown, UploadKnows,
       RenameKnows, PurgeKnows, Uploading, HistoryOf, Current
<1> QED
  BY <1>1, <1>2, <1>3, <1>4, <1>5 DEF Next


---------------------------------------------------------------------------
(* The manifests of retained versions stay registered                      *)

DropPcs == {"dropManifests", "dropChunks", "dropRow"}

\* The manifests the collection of g is about to delete.
Doomed(g) ==
    {m \in Ops :
        \/ job[g].pc \in DropPcs /\ ManifestId(m) \in job[g].ids
        \/ job[g].pc = "dropRow" /\ ManifestId(m) = job[g].cur}

\* The record of an upload whose end is still open.
Open(g) == Uploading(g) /\ job[g].pc \notin {"unpin", "unpinFailed"}

OwnStatus ==
    \A g \in Gateways :
        /\ Open(g) => status[job[g].op] \in InProgress
        /\ job[g].pc \in {"verify", "commit", "insert"} => job[g].op \in manifests

\* A collection deletes manifests of uploads that have ended, and that no version uses.
DoomedUnused ==
    \A g \in Gateways : \A m \in Doomed(g) : m \notin Retained /\ status[m] \in {"ACTIVE", "FAILED"}

RegisteredStarted == \A m \in manifests : status[m] # "NONE"

RegInv == OwnStatus /\ DoomedUnused /\ RegisteredStarted /\ CurrentRegistered

\* What a step of g may do to the records, the manifests and the retained versions.
RecordsMove(g) ==
    \A m \in Ops :
        \/ status'[m] = status[m]
        \/ status[m] = "NONE" /\ status'[m] \in InProgress
        \/ Open(g) /\ m = job[g].op /\ status'[m] # "NONE"
ManifestsMove(g) ==
    /\ \A m \in manifests : m \in manifests' \/ m \in Doomed(g)
    /\ \A m \in manifests' : m \in manifests \/ (Open(g) /\ m = job[g].op)
RetainedMove(g) ==
    \A m \in Retained' :
        m \in Retained \/ (job[g].pc \in {"commit", "insert"} /\ m = job[g].op)

LEMMA RegistrationKept ==
  ASSUME TypeInv, ActiveInv, RegInv, NEW g \in Gateways, OthersStay(g),
         RecordsMove(g), ManifestsMove(g), RetainedMove(g),
         Open(g)' => status'[job'[g].op] \in InProgress,
         job'[g].pc \in {"verify", "commit", "insert"} => job'[g].op \in manifests',
         \A m \in Doomed(g)' : m \in Doomed(g) \/ ManifestId(m) \in UnusedManifests
  PROVE  RegInv'
<1>1. manifests \subseteq Ops /\ Retained \subseteq manifests /\ status \in [Ops -> Status]
  BY DEF TypeInv, DbInv, DbTypeOK, RegInv, CurrentRegistered
<1>2. Open(g) => status[job[g].op] \in InProgress /\ job[g].op \in Ops
  BY DEF RegInv, OwnStatus, Open, TypeInv, JobInv, InStep, Uploading
<1>3. job[g].pc \in {"commit", "insert"} => Open(g) /\ job[g].op \in manifests
  BY DEF RegInv, OwnStatus, Open, Uploading, UploadPcs
\* Settled records stay, and what they made is not taken up again.
<1>4. \A m \in Ops : status[m] \in {"ACTIVE", "FAILED"} =>
          status'[m] = status[m] /\ (m \notin Retained => m \notin Retained')
  BY <1>2, <1>3 DEF RecordsMove, RetainedMove, InProgress
<1>5. ASSUME NEW h \in Gateways \ {g}, Open(h)
      PROVE  status'[job[h].op] = status[job[h].op] /\ status[job[h].op] \in InProgress /\ job[h].op \in Ops
  <2>1. status[job[h].op] \in InProgress /\ job[h].op \in Ops
    BY <1>5 DEF RegInv, OwnStatus, Open, TypeInv, JobInv, InStep, Uploading
  <2>2. Open(g) => job[h].op # job[g].op
    BY <1>5 DEF ActiveInv, OwnRecord, Open
  <2> QED
    BY <2>1, <2>2 DEF RecordsMove, InProgress
<1>6. \A m \in Doomed(g) : m \in Ops /\ m \notin Retained /\ status[m] \in {"ACTIVE", "FAILED"}
  BY DEF RegInv, DoomedUnused, Doomed
<1>7. OwnStatus'
  <2> SUFFICES ASSUME NEW h \in Gateways \ {g}
               PROVE  /\ Open(h)' => status'[job'[h].op] \in InProgress
                      /\ job'[h].pc \in {"verify", "commit", "insert"} => job'[h].op \in manifests'
    BY DEF OwnStatus
  <2>1. job'[h] = job[h]
    BY DEF OthersStay
  <2>2. Open(h)' = Open(h)
    BY <2>1 DEF Open, Uploading
  <2>3. job[h].pc \in {"verify", "commit", "insert"} => Open(h) /\ job[h].op \in manifests
    BY DEF RegInv, OwnStatus, Open, Uploading, UploadPcs
  <2>4. ASSUME job[h].pc \in {"verify", "commit", "insert"} PROVE job[h].op \in manifests'
    <3>1. job[h].op \notin Doomed(g)
      BY <1>5, <1>6, <2>3, <2>4 DEF InProgress
    <3> QED
      BY <2>3, <2>4, <3>1 DEF ManifestsMove
  <2> QED
    BY <1>5, <2>1, <2>2, <2>4
<1>8. DoomedUnused'
  <2>1. ASSUME NEW h \in Gateways \ {g}, NEW m \in Doomed(h)'
        PROVE  m \notin Retained' /\ status'[m] \in {"ACTIVE", "FAILED"}
    <3>1. m \in Doomed(h) /\ m \in Ops
      BY <2>1 DEF OthersStay, Doomed
    <3> QED
      BY <1>4, <3>1 DEF RegInv, DoomedUnused
  <2>2. ASSUME NEW m \in Doomed(g)'
        PROVE  m \notin Retained' /\ status'[m] \in {"ACTIVE", "FAILED"}
    <3>1. m \in Ops /\ m \notin Retained /\ status[m] \in {"ACTIVE", "FAILED"}
      <4>1. CASE m \in Doomed(g)
        BY <1>6, <4>1
      <4>2. CASE ManifestId(m) \in UnusedManifests
        <5>1. m \in manifests /\ m \notin Retained /\ status[m] \notin InProgress
          BY <4>2 DEF UnusedManifests, ManifestId
        <5> QED
          BY <1>1, <5>1 DEF RegInv, RegisteredStarted, Status
      <4> QED
        BY <2>2, <4>1, <4>2
    <3> QED
      BY <1>4, <3>1
  <2> QED
    BY <2>1, <2>2 DEF DoomedUnused
<1>9. RegisteredStarted'
  <2> SUFFICES ASSUME NEW m \in manifests' PROVE status'[m] # "NONE"
    BY DEF RegisteredStarted
  <2>1. m \in Ops /\ status[m] # "NONE"
    BY <1>1, <1>2 DEF ManifestsMove, RegInv, RegisteredStarted, InProgress
  <2> QED
    BY <2>1 DEF RecordsMove
<1>10. CurrentRegistered'
  <2> SUFFICES ASSUME NEW m \in Retained' PROVE m \in manifests'
    BY DEF CurrentRegistered
  <2>1. m \in manifests
    BY <1>1, <1>3 DEF RetainedMove
  <2>2. m \notin Doomed(g)
    BY <1>2, <1>3, <1>6 DEF RetainedMove, InProgress
  <2> QED
    BY <2>1, <2>2 DEF ManifestsMove
<1> QED
  BY <1>7, <1>8, <1>9, <1>10 DEF RegInv

\* The same for a step that touches no record and no manifest, of a job that is not
\* collecting afterwards.
LEMMA RegistrationStays ==
  ASSUME TypeInv, ActiveInv, RegInv, NEW g \in Gateways, OthersStay(g),
         status' = status, manifests' = manifests, RetainedMove(g),
         Open(g)' => Open(g) /\ job'[g].op = job[g].op,
         job'[g].pc \in {"verify", "commit", "insert"} =>
            job[g].pc \in {"verify", "commit", "insert"} /\ job'[g].op = job[g].op,
         job'[g].pc \notin DropPcs
  PROVE  RegInv'
<1>1. RecordsMove(g) /\ ManifestsMove(g)
  BY DEF RecordsMove, ManifestsMove
<1>2. Open(g)' => status'[job'[g].op] \in InProgress
  BY DEF RegInv, OwnStatus
<1>3. job'[g].pc \in {"verify", "commit", "insert"} => job'[g].op \in manifests'
  BY DEF RegInv, OwnStatus
<1>4. \A m \in Doomed(g)' : m \in Doomed(g) \/ ManifestId(m) \in UnusedManifests
  BY DEF Doomed, DropPcs
<1> QED
  BY <1>1, <1>2, <1>3, <1>4, RegistrationKept

\* A commit retains its own upload; the row it archives was retained.
LEMMA PublishMovesRetained ==
  ASSUME TypeInv, HeldInv, NEW g \in Gateways, CommitReplace(g) \/ CommitInsert(g)
  PROVE  RetainedMove(g)
<1>1. Publish(g) /\ job[g].pc \in {"commit", "insert"}
  BY DEF CommitReplace, CommitInsert
<1>2. Uploading(g) /\ job[g].path \in Paths
  BY <1>1 DEF Uploading, UploadPcs, TypeInv, JobInv, InStep
<1>3. files[job[g].path] = job[g].base
  BY <1>2 DEF HeldInv, Held
<1>4. job[g].base # NoRow => job[g].base.manifest \in Retained
  BY <1>2, <1>3, RowRetained DEF TypeInv, Retained
<1> QED
  BY <1>1, <1>4, PublishRetains DEF Publishable, RetainedMove

\* A delete and a rename retain no more than there was.
LEMMA DeleteOrRenameRetains ==
  ASSUME TypeInv, LeaseInv, NEW g \in Gateways, DeleteOrRename(g)
  PROVE  RetainedMove(g) /\ UNCHANGED <<status, content, manifests>>
<1>1. UNCHANGED <<status, content, manifests>>
  BY DEF DeleteOrRename, DeleteBegin, DeleteCommit, DeleteRefused, RenameBegin, PurgeTarget,
     PurgeTargetEnd, PurgeHistory, PurgeTombstone, ReadSource, SourceNotFound, Move, MoveRefused, dbVars
<1> SUFFICES Retained' \subseteq Retained
  BY <1>1 DEF RetainedMove
<1>2. CASE DeleteCommit(g)
  <2>1. /\ job[g].path \in Paths /\ job[g].base # NoRow /\ files[job[g].path] = job[g].base
        /\ files \in [Paths -> Row]
    BY <1>2 DEF DeleteCommit, TypeInv, DbInv, DbTypeOK, JobInv, InStep, LeaseInv, ReadHolds
  <2>2. job[g].base.manifest \in Retained
    BY <2>1, RowRetained DEF TypeInv, Retained
  <2>3. Current' \subseteq Current
    BY <1>2, <2>1 DEF DeleteCommit, Current, NoRow
  <2>4. \A m \in Archived' : m \in Archived \/ m = job[g].base.manifest
    BY <1>2 DEF DeleteCommit, Archived, Archive
  <2> QED
    BY <2>2, <2>3, <2>4 DEF Retained
<1>3. CASE Move(g)
  <2>1. /\ job[g].path \in Paths /\ job[g].dst \in Paths
        /\ files \in [Paths -> Row] /\ versions \subseteq Version
    BY <1>3 DEF Move, TypeInv, DbInv, DbTypeOK, JobInv, InStep, RenamePcs
  <2>2. Current' \subseteq Current
    BY <1>3, <2>1 DEF Move, Current, NoRow
  <2>3. \A r \in versions' : \E q \in versions : q.manifest = r.manifest
    BY <1>3, <2>1 DEF Move, HistoryOf, Version
  <2> QED
    BY <2>2, <2>3 DEF Retained, Archived
<1>4. CASE ~DeleteCommit(g) /\ ~Move(g)
  <2>1. files' = files /\ versions' \subseteq versions
    BY <1>4 DEF DeleteOrRename, DeleteBegin, DeleteRefused, RenameBegin, PurgeTarget,
       PurgeTargetEnd, PurgeHistory, PurgeTombstone, ReadSource, SourceNotFound, MoveRefused, dbVars
  <2> QED
    BY <2>1, RetainedShrinks
<1> QED
  BY <1>2, <1>3, <1>4

\* Where a delete or a rename goes.
LEMMA DeleteOrRenameGoes ==
  ASSUME TypeInv, NEW g \in Gateways, DeleteOrRename(g)
  PROVE  OthersStay(g) /\ job'[g].pc \in RenamePcs \cup {"idle", "delete", "collect"}
                       /\ ~Uploading(g)
                       /\ (job'[g].ids = {} \/ job'[g].ids = job[g].ids)
<1>1. job[g] \in Job
  BY DEF TypeInv, JobInv
<1>2. ~Uploading(g)
  <2>1. job[g] = IdleJob \/ job[g].pc \in RenamePcs \cup {"delete"}
    BY DEF DeleteOrRename, DeleteBegin, DeleteCommit, DeleteRefused, RenameBegin, PurgeTarget,
       PurgeTargetEnd, ReadSource, SourceNotFound, Move, MoveRefused, RenamePcs
  <2>2. IdleJob.pc = "idle"
    BY DEF IdleJob
  <2> QED
    BY <2>1, <2>2 DEF Uploading, UploadPcs, RenamePcs
<1>3. ASSUME NEW p \in Paths, DeleteBegin(g, p)
      PROVE  OthersStay(g) /\ job'[g].pc = "delete" /\ job'[g].ids = {}
  <2> DEFINE j == [IdleJob EXCEPT !.pc = "delete", !.path = p, !.base = FileRow(p)]
  <2>1. Become(g, j) /\ j.pc = "delete" /\ j.ids = {}
    BY <1>3 DEF DeleteBegin, IdleJob
  <2> HIDE DEF j
  <2> QED
    BY <2>1, BecomeEffect
<1>4. ASSUME NEW s \in Paths, NEW d \in Paths, RenameBegin(g, s, d)
      PROVE  OthersStay(g) /\ job'[g].pc \in {"purgeTarget", "readSource"} /\ job'[g].ids = {}
  <2> DEFINE pc == IF d \in deleted THEN "purgeTarget" ELSE "readSource"
             j == [IdleJob EXCEPT !.pc = pc, !.path = s, !.dst = d]
  <2>1. Become(g, j) /\ j.pc = pc /\ j.ids = {}
    BY <1>4 DEF RenameBegin, IdleJob
  <2> HIDE DEF j
  <2> QED
    BY <2>1, BecomeEffect
<1>5. CASE PurgeTarget(g)
  <2>1. PICK j : Become(g, j) /\ j.pc = "purgeTargetEnd" /\ j.ids = job[g].ids
    BY <1>5, PurgeOpens DEF PurgeTarget
  <2> QED
    BY <1>2, <2>1, BecomeEffect DEF RenamePcs
<1>8. CASE PurgeTargetEnd(g)
  <2> DEFINE j == [job[g] EXCEPT !.pc = "collect", !.next = "readSource", !.purge = NoPurge]
  <2>1. Become(g, j) /\ j.pc = "collect" /\ j.ids = job[g].ids
    BY <1>1, <1>8 DEF PurgeTargetEnd, Job
  <2> HIDE DEF j
  <2> QED
    BY <1>2, <2>1, BecomeEffect
<1>6. CASE ReadSource(g)
  BY <1>2, <1>6, GotoEffect DEF ReadSource, RenamePcs
<1>7. CASE DeleteCommit(g) \/ DeleteRefused(g) \/ SourceNotFound(g) \/ Move(g) \/ MoveRefused(g)
  <2>1. OthersStay(g) /\ job'[g] = IdleJob
    BY <1>7, FinishEffect DEF DeleteCommit, DeleteRefused, SourceNotFound, Move, MoveRefused
  <2> QED
    BY <1>2, <2>1 DEF IdleJob
<1> QED
  BY <1>2, <1>3, <1>4, <1>5, <1>6, <1>7, <1>8 DEF DeleteOrRename, RenamePcs

LEMMA DeleteOrRenameReg ==
  ASSUME TypeInv, ActiveInv, LeaseInv, RegInv, NEW g \in Gateways, DeleteOrRename(g)
  PROVE  RegInv'
BY DeleteOrRenameRetains, DeleteOrRenameGoes, RegistrationStays DEF Open, Uploading, UploadPcs,
   RenamePcs, DropPcs

LEMMA CrashReg ==
  ASSUME TypeInv, ActiveInv, RegInv, NEW g \in Gateways, Crash(g) \/ Restart(g)
  PROVE  RegInv'
<1> DEFINE j == [IdleJob EXCEPT !.pc = "down"]
<1>1. /\ Become(g, j) \/ Become(g, IdleJob)
      /\ UNCHANGED <<files, versions, status, manifests>>
  BY DEF Crash, Restart, Finish, dbVars
<1>2. j.pc = "down" /\ IdleJob.pc = "idle"
  BY DEF IdleJob
<1> HIDE DEF j
<1>3. OthersStay(g) /\ job'[g].pc \in {"down", "idle"}
  BY <1>1, <1>2, BecomeEffect
<1>4. RetainedMove(g)
  BY <1>1, RetainedShrinks DEF RetainedMove
<1> QED
  BY <1>1, <1>3, <1>4, RegistrationStays DEF Open, Uploading, UploadPcs, DropPcs

LEMMA ReadChunkEffect ==
  ASSUME TypeInv, NEW g \in Gateways, ReadChunk(g)
  PROVE  /\ job'[g].left = job[g].left /\ job'[g].rows = job[g].rows
         /\ \/ /\ job'[g].pc = "pin"
               /\ job'[g].cur \in chunks /\ Plaintext(job'[g].cur) \in job[g].left
            \/ job'[g].pc = "putObject" /\ \E b \in job[g].left : job'[g].cur = <<job[g].op, b>>
<1>1. job[g] \in Job
  BY DEF TypeInv, JobInv
<1>2. PICK b \in job[g].left :
         \/ \E c \in chunks : /\ Plaintext(c) = b
                             /\ Become(g, [job[g] EXCEPT !.cur = c, !.pc = "pin"])
         \/ Become(g, [job[g] EXCEPT !.cur = <<job[g].op, b>>, !.pc = "putObject"])
  BY DEF ReadChunk
<1>3. ASSUME NEW c, NEW pc, Become(g, [job[g] EXCEPT !.cur = c, !.pc = pc])
      PROVE  /\ job'[g].left = job[g].left /\ job'[g].rows = job[g].rows
             /\ job'[g].pc = pc /\ job'[g].cur = c
  <2> DEFINE j == [job[g] EXCEPT !.cur = c, !.pc = pc]
  <2>1. Become(g, j) /\ j.left = job[g].left /\ j.rows = job[g].rows /\ j.pc = pc /\ j.cur = c
    BY <1>1, <1>3 DEF Job
  <2> HIDE DEF j
  <2> QED
    BY <2>1, BecomeEffect
<1> QED
  BY <1>2, <1>3

LEMMA StoreManifestEffect ==
  ASSUME TypeInv, NEW g \in Gateways, StoreManifest(g)
  PROVE  /\ job'[g].left = job[g].left /\ job'[g].rows = job[g].rows /\ job'[g].pc = "putObject"
         /\ job'[g].cur = ManifestId(job[g].op)
<1> DEFINE j == [job[g] EXCEPT !.cur = ManifestId(job[g].op), !.pc = "putObject"]
<1>1. /\ Become(g, j) /\ j.left = job[g].left /\ j.rows = job[g].rows /\ j.pc = "putObject"
      /\ j.cur = ManifestId(job[g].op)
  BY DEF StoreManifest, TypeInv, JobInv, Job
<1> HIDE DEF j
<1> QED
  BY <1>1, BecomeEffect

LEMMA PinChunkEffect ==
  ASSUME TypeInv, NEW g \in Gateways, PinChunk(g)
  PROVE  /\ job'[g].left = job[g].left \ {Plaintext(job[g].cur)}
         /\ job'[g].rows = job[g].rows \cup {job[g].cur}
         /\ job'[g].pc = "chunks" /\ job'[g].cur = NoObject
<1> DEFINE j == [job[g] EXCEPT !.pc = "chunks", !.cur = NoObject,
                                !.rows = @ \cup {job[g].cur},
                                !.left = @ \ {Plaintext(job[g].cur)}]
<1>1. /\ Become(g, j) /\ j.left = job[g].left \ {Plaintext(job[g].cur)}
      /\ j.rows = job[g].rows \cup {job[g].cur}
      /\ j.pc = "chunks" /\ j.cur = NoObject
  BY DEF PinChunk, TypeInv, JobInv, Job
<1> HIDE DEF j
<1> QED
  BY <1>1, BecomeEffect

LEMMA RegisterEffect ==
  ASSUME TypeInv, NEW g \in Gateways, RegisterManifest(g)
  PROVE  job'[g].pc = "verify" /\ job'[g].left = job[g].left /\ job'[g].rows = job[g].rows
<1> DEFINE j == [job[g] EXCEPT !.pc = "verify", !.cur = NoObject]
<1>1. Become(g, j) /\ j.pc = "verify" /\ j.left = job[g].left /\ j.rows = job[g].rows
  BY DEF RegisterManifest, TypeInv, JobInv, Job
<1> HIDE DEF j
<1> QED
  BY <1>1, BecomeEffect

\* The steps of an upload that write neither its record nor its manifest.
QuietMoves(g) ==
    \/ ReadChunk(g) \/ BodyEndsEarly(g) \/ PutObject(g) \/ PutObjectFails(g) \/ PutKey(g)
    \/ PutKeyFails(g) \/ InsertChunk(g) \/ InsertChunkRefused(g) \/ PinChunk(g)
    \/ StoreManifest(g) \/ Verify(g) \/ VerifyFails(g) \/ CommitSeesNoRow(g)
    \/ CommitRefused(g)

LEMMA QuietMovesReg ==
  ASSUME TypeInv, ActiveInv, RegInv, NEW g \in Gateways, QuietMoves(g)
  PROVE  RegInv'
<1>1. /\ OthersStay(g) /\ Carries(g) /\ job'[g].pc \in UploadPcs /\ Uploading(g)
      /\ UNCHANGED <<files, versions, deleted>>
  BY UploadMovesOn DEF QuietMoves, UploadMoves
<1>2. UNCHANGED <<status, manifests>> /\ job[g].pc \notin {"unpin", "unpinFailed"}
  BY DEF QuietMoves, ReadChunk, BodyEndsEarly, PutObject, PutObjectFails, PutKey, PutKeyFails,
     InsertChunk, InsertChunkRefused, PinChunk, StoreManifest, Verify, VerifyFails,
     CommitSeesNoRow, CommitRefused, dbVars
<1>3. job'[g].pc \in {"verify", "commit", "insert"} => job[g].pc \in {"verify", "commit", "insert"}
  <2>1. CASE ReadChunk(g) \/ StoreManifest(g) \/ PinChunk(g)
    BY <2>1, ReadChunkEffect, StoreManifestEffect, PinChunkEffect
  <2>2. CASE Verify(g) \/ CommitSeesNoRow(g)
    BY <2>2 DEF Verify, CommitSeesNoRow
  <2>3. CASE \E pc : Goto(g, pc) /\ pc \in {"fail", "putKey", "pin", "register", "insertChunk"}
    BY <2>3, GotoEffect
  <2> QED
    BY <2>1, <2>2, <2>3 DEF QuietMoves, BodyEndsEarly, PutObject, PutObjectFails, PutKey,
       PutKeyFails, InsertChunk, InsertChunkRefused, VerifyFails, CommitRefused
<1>4. RetainedMove(g)
  BY <1>1, RetainedShrinks DEF RetainedMove
<1> QED
  BY <1>1, <1>2, <1>3, <1>4, RegistrationStays DEF Open, Uploading, UploadPcs, DropPcs, Carries

\* A step of an upload that writes its record, and its manifest when it registers it.
LEMMA RecordReg ==
  ASSUME TypeInv, ActiveInv, RegInv, NEW g \in Gateways,
         UploadStart(g) \/ FinishUnchanged(g) \/ MarkFailed(g) \/ RegisterManifest(g)
  PROVE  RegInv'
<1>1. /\ OthersStay(g) /\ Carries(g) /\ job'[g].pc \in UploadPcs /\ Uploading(g)
      /\ UNCHANGED <<files, versions, deleted>>
  BY UploadMovesOn DEF UploadMoves
<1>2. job[g].op \in Ops /\ status \in [Ops -> Status] /\ Open(g)
  BY <1>1 DEF Uploading, TypeInv, JobInv, InStep, DbInv, DbTypeOK, Open, UploadStart,
     FinishUnchanged, MarkFailed, RegisterManifest
<1>3. RetainedMove(g)
  BY <1>1, RetainedShrinks DEF RetainedMove
<1>4. \A m \in Doomed(g)' : FALSE
  BY <1>1 DEF Doomed, DropPcs, UploadPcs
<1>5. PICK s : /\ status' = [status EXCEPT ![job[g].op] = s] /\ s # "NONE"
               /\ job'[g].pc \in {"unpin", "unpinFailed"} \/ s \in InProgress
  <2>1. CASE UploadStart(g)
    BY <2>1 DEF UploadStart, InProgress
  <2>2. CASE FinishUnchanged(g)
    BY <2>2, GotoEffect DEF FinishUnchanged
  <2>3. CASE MarkFailed(g)
    BY <2>3, GotoEffect DEF MarkFailed
  <2>4. CASE RegisterManifest(g)
    BY <2>4 DEF RegisterManifest, InProgress
  <2> QED
    BY <2>1, <2>2, <2>3, <2>4
<1>6. RecordsMove(g)
  BY <1>2, <1>5 DEF RecordsMove
<1>7. ManifestsMove(g)
  BY <1>2 DEF ManifestsMove, UploadStart, FinishUnchanged, MarkFailed, RegisterManifest
<1>8. Open(g)' => status'[job'[g].op] \in InProgress
  BY <1>1, <1>2, <1>5 DEF Open, Carries
<1>9. job'[g].pc \in {"verify", "commit", "insert"} => job'[g].op \in manifests'
  <2>1. CASE RegisterManifest(g)
    BY <1>1, <2>1 DEF RegisterManifest, Carries
  <2>2. CASE UploadStart(g) \/ FinishUnchanged(g) \/ MarkFailed(g)
    BY <2>2, GotoEffect DEF UploadStart, FinishUnchanged, MarkFailed
  <2> QED
    BY <2>1, <2>2
<1> QED
  BY <1>1, <1>3, <1>4, <1>6, <1>7, <1>8, <1>9, RegistrationKept

LEMMA UploadReg ==
  ASSUME TypeInv, ActiveInv, HeldInv, RegInv, NEW g \in Gateways, Upload(g)
  PROVE  RegInv'
<1>1. ASSUME NEW o \in Ops, NEW p \in Paths, NEW body \in SUBSET Blobs, UploadBegin(g, o, p, body)
      PROVE  RegInv'
  <2> DEFINE j == [IdleJob EXCEPT !.pc = "pending", !.op = o, !.path = p, !.base = FileRow(p),
                                  !.version = NextVersion(p), !.left = body]
  <2>1. Become(g, j) /\ j.pc = "pending" /\ j.op = o
    BY <1>1 DEF UploadBegin, IdleJob
  <2> HIDE DEF j
  <2>2. OthersStay(g) /\ job'[g].pc = "pending" /\ job'[g].op = o
    BY <2>1, BecomeEffect
  <2>3. /\ UNCHANGED <<files, versions, manifests>> /\ status[o] = "NONE"
        /\ status' = [status EXCEPT ![o] = "PENDING"] /\ status \in [Ops -> Status]
    BY <1>1 DEF UploadBegin, TypeInv, DbInv, DbTypeOK
  <2>4. RetainedMove(g) /\ RecordsMove(g) /\ ManifestsMove(g)
    BY <2>3, RetainedShrinks DEF RetainedMove, RecordsMove, ManifestsMove, InProgress
  <2>5. status'[job'[g].op] \in InProgress
    BY <2>2, <2>3 DEF InProgress
  <2>6. \A m \in Doomed(g)' : FALSE
    BY <2>2 DEF Doomed, DropPcs
  <2> QED
    BY <2>2, <2>4, <2>5, <2>6, RegistrationKept
<1>2. CASE CommitReplace(g) \/ CommitInsert(g)
  <2>1. Publish(g) /\ job[g].pc \in {"commit", "insert"}
    BY <1>2 DEF CommitReplace, CommitInsert
  <2>2. OthersStay(g) /\ job'[g].pc = "idle"
    BY <2>1, FinishEffect DEF Publish, IdleJob
  <2>3. /\ manifests' = manifests /\ status' = [status EXCEPT ![job[g].op] = "ACTIVE"]
        /\ status \in [Ops -> Status] /\ Open(g)
    BY <2>1 DEF Publish, TypeInv, DbInv, DbTypeOK, Open, Uploading, UploadPcs
  <2>4. RetainedMove(g)
    BY <1>2, PublishMovesRetained
  <2>5. RecordsMove(g) /\ ManifestsMove(g)
    BY <2>3 DEF RecordsMove, ManifestsMove
  <2>6. ~Open(g)' /\ \A m \in Doomed(g)' : FALSE
    BY <2>2 DEF Doomed, DropPcs, Open, Uploading, UploadPcs
  <2> QED
    BY <2>2, <2>4, <2>5, <2>6, RegistrationKept
<1>3. CASE UnpinUnchanged(g) \/ UnpinFailed(g)
  <2>1. /\ OthersStay(g) /\ job'[g].pc \in {"idle", "collect"}
        /\ UNCHANGED <<manifests, files, versions, status>>
    BY <1>3, UploadEnds
  <2>2. RetainedMove(g)
    BY <2>1, RetainedShrinks DEF RetainedMove
  <2> QED
    BY <2>1, <2>2, RegistrationStays DEF Open, Uploading, UploadPcs, DropPcs
<1>4. UploadMoves(g) => \/ QuietMoves(g) \/ UploadStart(g) \/ FinishUnchanged(g) \/ MarkFailed(g)
                        \/ RegisterManifest(g)
  BY DEF UploadMoves, QuietMoves
<1> QED
  BY <1>1, <1>2, <1>3, <1>4, QuietMovesReg, RecordReg, UploadCases

\* What a collection is about to delete: what it selected as unused, what the scan found
\* unknown, or what is left of that.
LEMMA CollectIds ==
  ASSUME TypeInv, NEW g \in Gateways, Collect(g)
  PROVE  \/ /\ job'[g].pc \notin DropPcs
            /\ job'[g].ids \subseteq job[g].ids \cup (aged \ Registered)
            /\ job'[g].pc = "sweep" => job'[g].ids = aged \ Registered
            /\ job'[g].pc = "purge" =>
                  \/ job'[g].todo = deleted /\ deleted' = deleted
                  \/ /\ job[g].pc = "purgeEnd" /\ deleted' = deleted \ {job[g].purge.path}
                     /\ job'[g].todo = job[g].todo \ {job[g].purge.path}
            /\ job'[g].pc = "purgeEnd" =>
                  /\ job[g].pc = "purge" /\ deleted' = deleted
                  /\ job'[g].todo = job[g].todo /\ job'[g].purge.path \in job[g].todo
         \/ job'[g].pc = "dropManifests" /\ job'[g].ids = UnusedManifests
         \/ job'[g].pc = "dropChunks" /\ job'[g].ids = UnusedChunks
         \/ /\ job[g].pc \in DropPcs /\ job'[g].pc \in DropPcs
            /\ job'[g].ids \subseteq job[g].ids
            /\ job'[g].pc = "dropRow" => job'[g].cur \in job[g].ids
<1> DEFINE Result(j) ==
      \/ /\ j.pc \notin DropPcs
         /\ j.ids \subseteq job[g].ids \cup (aged \ Registered)
         /\ j.pc = "sweep" => j.ids = aged \ Registered
         /\ j.pc = "purge" =>
               \/ j.todo = deleted /\ deleted' = deleted
               \/ /\ job[g].pc = "purgeEnd" /\ deleted' = deleted \ {job[g].purge.path}
                  /\ j.todo = job[g].todo \ {job[g].purge.path}
         /\ j.pc = "purgeEnd" =>
               /\ job[g].pc = "purge" /\ deleted' = deleted
               /\ j.todo = job[g].todo /\ j.purge.path \in job[g].todo
      \/ j.pc = "dropManifests" /\ j.ids = UnusedManifests
      \/ j.pc = "dropChunks" /\ j.ids = UnusedChunks
      \/ /\ job[g].pc \in DropPcs /\ j.pc \in DropPcs
         /\ j.ids \subseteq job[g].ids
         /\ j.pc = "dropRow" => j.cur \in job[g].ids
<1>1. job[g] \in Job /\ InStep(job[g])
  BY DEF TypeInv, JobInv
<1> SUFFICES \E j : Become(g, j) /\ Result(j)
  BY BecomeEffect
<1>2. CASE GcBegin(g)
  <2> DEFINE k == [IdleJob EXCEPT !.pc = "limit", !.next = "scan",
                                  !.todo = {p \in Paths : files[p] # NoRow}]
  <2>1. Become(g, k) /\ k.pc = "limit" /\ k.ids = {}
    BY <1>2 DEF GcBegin, IdleJob
  <2> HIDE DEF k
  <2> QED
    BY <2>1 DEF DropPcs
<1>3. ASSUME NEW p \in Paths, GcLimit(g, p)
      PROVE  \E j : Become(g, j) /\ Result(j)
  <2> DEFINE k == [job[g] EXCEPT !.todo = @ \ {p}]
  <2>1. Become(g, k) /\ k.pc = "limit" /\ k.ids = job[g].ids
    BY <1>1, <1>3 DEF GcLimit, Job
  <2> HIDE DEF k
  <2> QED
    BY <2>1 DEF DropPcs
<1>14. ASSUME NEW p \in Paths, GcPurge(g, p)
       PROVE  \E j : Become(g, j) /\ Result(j)
  <2>1. PICK k : /\ Become(g, k) /\ k.pc = "purgeEnd" /\ k.ids = job[g].ids
                 /\ k.todo = job[g].todo /\ k.purge.path = p
    BY <1>14, PurgeOpens DEF GcPurge
  <2>2. job[g].pc = "purge" /\ p \in job[g].todo /\ deleted' = deleted
    BY <1>14 DEF GcPurge, PurgeHistory, dbVars
  <2> QED
    BY <2>1, <2>2 DEF DropPcs
<1>15. CASE GcPurgeEnd(g)
  <2> DEFINE k == [job[g] EXCEPT !.pc = "purge", !.todo = @ \ {job[g].purge.path},
                                 !.purge = NoPurge]
  <2>1. /\ Become(g, k) /\ k.pc = "purge" /\ k.ids = job[g].ids
        /\ k.todo = job[g].todo \ {job[g].purge.path}
        /\ job[g].pc = "purgeEnd" /\ deleted' = deleted \ {job[g].purge.path}
    BY <1>1, <1>15 DEF GcPurgeEnd, PurgeTombstone, Job
  <2> HIDE DEF k
  <2> QED
    BY <2>1 DEF DropPcs
<1>4. CASE GcListDeleted(g)
  <2> DEFINE k == [job[g] EXCEPT !.pc = "purge", !.todo = deleted]
  <2>1. /\ Become(g, k) /\ k.pc = "purge" /\ k.ids = job[g].ids
        /\ k.todo = deleted /\ deleted' = deleted
    BY <1>1, <1>4 DEF GcListDeleted, Job, dbVars
  <2> HIDE DEF k
  <2> QED
    BY <2>1 DEF DropPcs
<1>5. CASE GcCapacity(g)
  <2> DEFINE k == [job[g] EXCEPT !.pc = "collect"]
  <2>1. Become(g, k) /\ k.pc = "collect" /\ k.ids = job[g].ids
    BY <1>1, <1>5 DEF GcCapacity, Goto, Job
  <2> HIDE DEF k
  <2> QED
    BY <2>1 DEF DropPcs
<1>6. ASSUME NEW pc, NEW ids, Become(g, [job[g] EXCEPT !.pc = pc, !.ids = ids]),
             \/ pc = "dropManifests" /\ ids = UnusedManifests
             \/ pc = "dropChunks" /\ ids = UnusedChunks
             \/ pc = "sweep" /\ ids = aged \ Registered
      PROVE  \E j : Become(g, j) /\ Result(j)
  <2> DEFINE k == [job[g] EXCEPT !.pc = pc, !.ids = ids]
  <2>1. Become(g, k) /\ k.pc = pc /\ k.ids = ids
    BY <1>1, <1>6 DEF Job
  <2> HIDE DEF k
  <2> QED
    BY <1>6, <2>1 DEF DropPcs
<1>7. CASE SelectManifests(g) \/ SelectChunks(g) \/ ScanKnown(g)
  BY <1>6, <1>7 DEF SelectManifests, SelectChunks, ScanKnown
<1>8. ASSUME NEW i \in ObjectIds, DropRemote(g, i)
      PROVE  \E j : Become(g, j) /\ Result(j)
  <2> DEFINE k == [job[g] EXCEPT !.pc = "dropRow", !.cur = i]
  <2>1. /\ Become(g, k) /\ k.pc = "dropRow" /\ k.ids = job[g].ids /\ k.cur = i
        /\ i \in job[g].ids /\ job[g].pc \in {"dropManifests", "dropChunks"}
    BY <1>1, <1>8 DEF DropRemote, Job
  <2> HIDE DEF k
  <2> QED
    BY <2>1 DEF DropPcs
<1>9. ASSUME NEW i \in ObjectIds, DropRemoteFails(g, i)
      PROVE  \E j : Become(g, j) /\ Result(j)
  <2> DEFINE k == [job[g] EXCEPT !.ids = @ \ {i}]
  <2>1. /\ Become(g, k) /\ k.pc = job[g].pc /\ k.ids = job[g].ids \ {i}
        /\ job[g].pc \in {"dropManifests", "dropChunks"}
    BY <1>1, <1>9 DEF DropRemoteFails, Job
  <2> HIDE DEF k
  <2> QED
    BY <2>1 DEF DropPcs
<1>10. CASE DropRow(g)
  <2> DEFINE i == job[g].cur
             jm == [job[g] EXCEPT !.pc = "dropManifests", !.cur = NoObject, !.ids = @ \ {i}]
             jc == [job[g] EXCEPT !.pc = "dropChunks", !.cur = NoObject, !.ids = @ \ {i}]
  <2>1. /\ Become(g, jm) \/ Become(g, jc)
        /\ jm.pc = "dropManifests" /\ jm.ids = job[g].ids \ {i}
        /\ jc.pc = "dropChunks" /\ jc.ids = job[g].ids \ {i}
        /\ job[g].pc = "dropRow"
    BY <1>1, <1>10 DEF DropRow, Job
  <2> HIDE DEF jm, jc
  <2> QED
    BY <2>1 DEF DropPcs
<1>11. ASSUME Finish(g)
       PROVE  \E j : Become(g, j) /\ Result(j)
  <2>1. IdleJob.pc = "idle" /\ IdleJob.ids = {}
    BY DEF IdleJob
  <2> QED
    BY <1>11, <2>1 DEF Finish, DropPcs
<1>12. CASE CollectDone(g)
  <2> DEFINE k == [job[g] EXCEPT !.pc = job[g].next]
  <2>1. CASE job[g].next = "idle"
    BY <1>11, <1>12, <2>1 DEF CollectDone
  <2>2. CASE job[g].next # "idle"
    <3>1. /\ Become(g, k) /\ k.pc = job[g].next /\ k.ids = job[g].ids
          /\ job[g].next \in {"scan", "readSource"}
      BY <1>1, <1>12, <2>2 DEF CollectDone, Goto, Job, InStep
    <3> HIDE DEF k
    <3> QED
      BY <3>1 DEF DropPcs
  <2> QED
    BY <2>1, <2>2
<1>13. CASE Sweep(g) \/ SweepFails(g)
  BY <1>11, <1>13 DEF Sweep, SweepFails
<1> QED
  BY <1>2, <1>3, <1>4, <1>5, <1>7, <1>8, <1>9, <1>10, <1>12, <1>13, <1>14, <1>15 DEF Collect

\* A chunk is no manifest.
LEMMA KindsApart ==
  ASSUME TypeInv, NEW m
  PROVE  ManifestId(m) \notin chunks /\ ManifestId(m) \notin ChunkIds
  BY NoneIsNoValue DEF ManifestId, ChunkIds, TypeInv, DbInv, DbTypeOK

LEMMA CollectReg ==
  ASSUME TypeInv, ActiveInv, RegInv, NEW g \in Gateways, Collect(g)
  PROVE  RegInv'
<1>1. OthersStay(g) /\ job'[g].pc \notin UploadPcs
  BY CollectEffect
<1>2. UNCHANGED <<files, status>> /\ versions' \subseteq versions
  BY CollectHistory
<1>3. RetainedMove(g) /\ RecordsMove(g)
  BY <1>2, RetainedShrinks DEF RetainedMove, RecordsMove
<1>4. ManifestsMove(g)
  <2>1. CASE DropRow(g)
    <3>1. CASE manifests' = manifests
      BY <3>1 DEF ManifestsMove
    <3>2. CASE manifests' # manifests
      <4>1. /\ job[g].pc = "dropRow" /\ job[g].cur \in ManifestIds
            /\ manifests' = manifests \ {job[g].cur[1]}
        BY <2>1, <3>2 DEF DropRow
      <4>2. job[g].cur = ManifestId(job[g].cur[1]) /\ job[g].cur[1] \in Ops
        BY <4>1 DEF ManifestIds, ManifestId
      <4>3. job[g].cur[1] \in Doomed(g)
        BY <4>1, <4>2 DEF Doomed
      <4> QED
        BY <4>1, <4>3 DEF ManifestsMove
    <3> QED
      BY <3>1, <3>2
  <2>2. CASE ~DropRow(g)
    <3>1. manifests' = manifests
      BY <2>2 DEF Collect, GcBegin, GcLimit, GcListDeleted, GcPurge, GcPurgeEnd, PurgeHistory,
         PurgeTombstone, GcCapacity,
         SelectManifests, SelectChunks, DropRemote, DropRemoteFails, CollectDone,
         ScanKnown, Sweep, SweepFails, dbVars
    <3> QED
      BY <3>1 DEF ManifestsMove
  <2> QED
    BY <2>1, <2>2
<1>5. ASSUME NEW m \in Doomed(g)'
      PROVE  m \in Doomed(g) \/ ManifestId(m) \in UnusedManifests
  <2>1. /\ m \in Ops /\ job'[g].pc \in DropPcs
        /\ ManifestId(m) \in job'[g].ids \/ (job'[g].pc = "dropRow" /\ ManifestId(m) = job'[g].cur)
    BY DEF Doomed, DropPcs
  <2>2. ManifestId(m) \notin UnusedChunks
    BY KindsApart DEF UnusedChunks
  <2> QED
    BY <2>1, <2>2, CollectIds DEF Doomed
<1>6. ~Open(g)' /\ job'[g].pc \notin {"verify", "commit", "insert"}
  BY <1>1 DEF Open, Uploading, UploadPcs
<1> QED
  BY <1>1, <1>3, <1>4, <1>5, <1>6, RegistrationKept

LEMMA RegInit == Init => RegInv
<1> SUFFICES ASSUME Init PROVE RegInv
  OBVIOUS
<1>1. Retained = {}
  BY DEF Init, Retained, Current, Archived, NoRow
<1>2. manifests = {} /\ \A g \in Gateways : job[g].pc = "idle"
  BY DEF Init, IdleJob
<1> QED
  BY <1>1, <1>2 DEF RegInv, OwnStatus, DoomedUnused, RegisteredStarted, CurrentRegistered, Doomed,
     DropPcs, Open, Uploading, UploadPcs

LEMMA RegNext ==
  TypeInv /\ ActiveInv /\ LeaseInv /\ HeldInv /\ RegInv /\ [Next]_vars => RegInv'
<1> SUFFICES ASSUME TypeInv, ActiveInv, LeaseInv, HeldInv, RegInv, [Next]_vars
             PROVE  RegInv'
  OBVIOUS
<1>1. ASSUME NEW g \in Gateways, Upload(g)
      PROVE  RegInv'
  BY <1>1, UploadReg
<1>2. ASSUME NEW g \in Gateways, DeleteOrRename(g)
      PROVE  RegInv'
  BY <1>2, DeleteOrRenameReg
<1>3. ASSUME NEW g \in Gateways, Collect(g)
      PROVE  RegInv'
  BY <1>3, CollectReg
<1>4. ASSUME NEW g \in Gateways, Crash(g) \/ Restart(g)
      PROVE  RegInv'
  BY <1>4, CrashReg
<1>5. CASE GraceElapses \/ UNCHANGED vars
  <2>1. UNCHANGED <<job, files, versions, status, manifests>>
    BY <1>5 DEF GraceElapses, vars, dbVars
  <2> QED
    BY <2>1 DEF RegInv, OwnStatus, DoomedUnused, RegisteredStarted, CurrentRegistered, Doomed,
       DropPcs, Open, Uploading, Retained, Current, Archived
<1> QED
  BY <1>1, <1>2, <1>3, <1>4, <1>5 DEF Next

\* Archived versions have their primary key, (path, version).
KeysUnique == \A r, q \in versions : r.path = q.path /\ r.version = q.version => r = q

LEMMA ArchiveUnique ==
  ASSUME KeysUnique, NEW p, NEW row, versions' = Archive(p, row)
  PROVE  KeysUnique'
  BY DEF KeysUnique, Archive

LEMMA KeysNext ==
  TypeInv /\ HeldInv /\ KeysUnique /\ [Next]_vars => KeysUnique'
<1> SUFFICES ASSUME TypeInv, HeldInv, KeysUnique, [Next]_vars PROVE KeysUnique'
  OBVIOUS
<1>1. CASE versions' \subseteq versions
  BY <1>1 DEF KeysUnique
<1>2. ASSUME NEW g \in Gateways, Upload(g)
      PROVE  KeysUnique'
  <2>1. CASE CommitReplace(g) \/ CommitInsert(g)
    BY <2>1, ArchiveUnique DEF CommitReplace, CommitInsert, Publish, BaseArchived, KeysUnique
  <2>2. CASE ~(CommitReplace(g) \/ CommitInsert(g))
    BY <1>1, <1>2, <2>2, UploadCases, UploadMovesOn, UploadEnds DEF UploadBegin
  <2> QED
    BY <2>1, <2>2
<1>3. ASSUME NEW g \in Gateways, DeleteCommit(g)
      PROVE  KeysUnique'
  BY <1>3, ArchiveUnique DEF DeleteCommit
<1>4. ASSUME NEW g \in Gateways, Move(g)
      PROVE  KeysUnique'
  <2>1. PICK s \in Paths, d \in Paths : s = job[g].path /\ d = job[g].dst
    BY <1>4 DEF Move, TypeInv, JobInv, InStep, RenamePcs
  <2>2. s # d /\ Clashes(s, d) = {} /\ versions \subseteq Version
    BY <1>4, <2>1 DEF Move, MoveAllowed, HeldInv, Held, RenamePcs, TypeInv, DbInv, DbTypeOK
  <2>3. \A r \in versions' :
           \/ r \in versions /\ r.path # s
           \/ \E q \in HistoryOf(s) : r = [q EXCEPT !.path = d]
    BY <1>4, <2>1 DEF Move, HistoryOf
  <2>4. \A q \in HistoryOf(s) :
           /\ q \in versions /\ q.path = s
           /\ [q EXCEPT !.path = d].path = d /\ [q EXCEPT !.path = d].version = q.version
    BY <2>1, <2>2 DEF HistoryOf, Version
  <2>5. \A q \in HistoryOf(s), r \in versions : r.path = d => r.version # q.version
    BY <2>2 DEF Clashes, HistoryOf
  <2>6. SUFFICES ASSUME NEW r \in versions', NEW q \in versions',
                        r.path = q.path, r.version = q.version
                 PROVE  r = q
    BY DEF KeysUnique
  <2>7. CASE r \in versions /\ q \in versions
    BY <2>6, <2>7 DEF KeysUnique
  <2>8. ASSUME NEW x \in versions', x \notin versions
        PROVE  \E y \in HistoryOf(s) :
                  x = [y EXCEPT !.path = d] /\ x.path = d /\ x.version = y.version
    <3>1. PICK y \in HistoryOf(s) : x = [y EXCEPT !.path = d]
      BY <2>3, <2>8
    <3>2. x.path = d /\ x.version = y.version
      BY <2>4, <3>1
    <3> QED
      BY <3>1, <3>2
  <2>9. CASE r \notin versions /\ q \notin versions
    <3>1. PICK y \in HistoryOf(s) : r = [y EXCEPT !.path = d] /\ r.version = y.version
      BY <2>8, <2>9
    <3>2. PICK z \in HistoryOf(s) : q = [z EXCEPT !.path = d] /\ q.version = z.version
      BY <2>8, <2>9
    <3>3. y = z
      BY <2>4, <2>6, <3>1, <3>2 DEF KeysUnique
    <3> QED
      BY <3>1, <3>2, <3>3
  <2>10. CASE (r \in versions) # (q \in versions)
    BY <2>5, <2>6, <2>8, <2>10
  <2> QED
    BY <2>7, <2>9, <2>10
<1>5. ASSUME NEW g \in Gateways, DeleteOrRename(g), ~DeleteCommit(g), ~Move(g)
      PROVE  versions' \subseteq versions
  BY <1>5 DEF DeleteOrRename, DeleteBegin, DeleteRefused, RenameBegin, PurgeTarget,
     PurgeTargetEnd, PurgeHistory, PurgeTombstone, ReadSource, SourceNotFound, MoveRefused, dbVars
<1>6. CASE \/ GraceElapses \/ UNCHANGED vars
           \/ \E g \in Gateways : Collect(g) \/ Crash(g) \/ Restart(g)
  BY <1>1, <1>6, CollectHistory DEF GraceElapses, vars, dbVars, Crash, Restart
<1> QED
  BY <1>1, <1>2, <1>3, <1>4, <1>5, <1>6 DEF Next

\* A protected gateway finds the rows it relies on: together the invariants carry
\* themselves over every step.
LEMMA ProtectedInvariant ==
  ASSUME Protected
  PROVE  Spec => [](TypeInv /\ ActiveInv /\ LeaseInv /\ HeldInv /\ RegInv /\ KeysUnique)
<1> DEFINE Inv == TypeInv /\ ActiveInv /\ LeaseInv /\ HeldInv /\ RegInv /\ KeysUnique
<1>1. Init => Inv
  <2>1. Init => KeysUnique
    BY DEF Init, KeysUnique
  <2> QED
    BY <2>1, TypeInit, ActiveInit, LeaseInit, HeldInit, RegInit
<1>2. Inv /\ [Next]_vars => Inv'
  BY TypeNext, ActiveNext, LeaseNext, HeldNext, RegNext, KeysNext DEF RegInv
<1> QED
  BY <1>1, <1>2, PTL DEF Spec

\* A gateway that is alone knows the history of its paths as well.
LEMMA HistoryInvariant ==
  ASSUME Alone
  PROVE  Spec => []HistoryInv
<1>1. Spec => [](TypeInv /\ ActiveInv /\ LeaseInv /\ HeldInv /\ RegInv /\ KeysUnique)
  BY ProtectedInvariant DEF Protected
<1>2. TypeInv /\ ActiveInv /\ LeaseInv /\ HeldInv /\ RegInv /\ HistoryInv /\ [Next]_vars
        => HistoryInv'
  BY HistoryNext DEF RegInv
<1> QED
  BY <1>1, <1>2, HistoryInit, PTL DEF Spec

\* When a gateway is alone, the archive of a path is older than its current version, no
\* version is archived twice and none is both archived and current: the version number
\* that upload_stream draws before it stores anything is still the next one when it
\* commits, whatever collections, renames and crashes came before.  With a second gateway
\* this is false, leases or not: gc purges by a list of tombstones that may be stale and in
\* two statements between which a DELETE commits, and what history is left then is older
\* than nothing.
THEOREM HistoryOrdered == ASSUME Alone PROVE Spec => []HistoryBelowCurrent
<1>1. HistoryInv => HistoryBelowCurrent
  BY DEF HistoryInv
<1> QED
  BY <1>1, HistoryInvariant, PTL

\* When a gateway is alone, a tombstone marks a path without a file, and history of a path
\* without a file has one: a delete leaves one, an upload and a rename remove it, and gc
\* purges the history along with it.
THEOREM TombstonesTrue == ASSUME Alone PROVE Spec => []TombstonesMatch
<1>1. HistoryInv => TombstonesMatch
  BY DEF HistoryInv
<1> QED
  BY <1>1, HistoryInvariant, PTL

\* As long as the leases hold, and always when a gateway is alone, the end of a purge that
\* began before the last delete of a path is the only step that leaves its history without
\* a file and without a tombstone: no commit, no delete, no rename, no other collection and
\* no crash does, at whatever step of another gateway it comes.
THEOREM TombstonesStay == ASSUME Protected PROVE Spec => TombstonesKept
<1> DEFINE Inv == TypeInv /\ HeldInv
           Kept == \A p \in Paths :
                      ~Forsaken(p) /\ Forsaken(p)'
                          => \E g \in Gateways : job[g].purge.path = p /\ job'[g].purge = NoPurge
<1>1. ASSUME Inv, [Next]_vars, NEW p \in Paths, ~Forsaken(p), Forsaken(p)'
      PROVE  \E g \in Gateways : job[g].purge.path = p /\ job'[g].purge = NoPurge
  <2>0. /\ files \in [Paths -> Row] /\ versions \subseteq Version
        /\ files'[p] = NoRow /\ p \notin deleted' /\ \E r \in versions' : r.path = p
    BY <1>1 DEF TypeInv, DbInv, DbTypeOK, Forsaken, HistoryOf
  \* What has happened has happened to p.
  <2>1. ~( /\ files'[p] = files[p]
           /\ \A r \in versions' : r.path = p => r \in versions
           /\ p \in deleted => p \in deleted' )
    BY <1>1, <2>0 DEF Forsaken, HistoryOf
  <2>2. ASSUME NEW g \in Gateways, Upload(g)
        PROVE  FALSE
    <3>1. CASE CommitReplace(g) \/ CommitInsert(g)
      <4> DEFINE q == job[g].path
      <4>1. /\ q \in Paths /\ deleted' = deleted \ {q}
            /\ files' = [files EXCEPT ![q] = [manifest |-> job[g].op, version |-> job[g].version]]
            /\ versions' = BaseArchived(job[g]) /\ job[g].op \in Ops
        BY <1>1, <3>1 DEF CommitReplace, CommitInsert, Publish, TypeInv, JobInv, InStep, UploadPcs
      <4>2. p # q
        BY <2>0, <4>1, NoneIsNoValue DEF NoRow
      <4>3. \A r \in versions' : r \in versions \/ r.path = q
        BY <4>1 DEF BaseArchived, Archive
      <4> QED
        BY <2>0, <2>1, <4>1, <4>2, <4>3
    <3>2. CASE ~(CommitReplace(g) \/ CommitInsert(g))
      BY <1>1, <2>1, <2>2, <3>2, UploadCases, UploadMovesOn, UploadEnds DEF UploadBegin
    <3> QED
      BY <3>1, <3>2
  <2>3. ASSUME NEW g \in Gateways, DeleteCommit(g)
        PROVE  FALSE
    <3>1. /\ job[g].path \in Paths /\ deleted' = deleted \cup {job[g].path}
          /\ files' = [files EXCEPT ![job[g].path] = NoRow]
          /\ \A r \in versions' : r \in versions \/ r.path = job[g].path
      BY <1>1, <2>3 DEF DeleteCommit, Archive, TypeInv, JobInv, InStep
    <3> QED
      BY <2>0, <2>1, <3>1
  <2>4. ASSUME NEW g \in Gateways, Move(g)
        PROVE  FALSE
    <3>1. PICK s \in Paths, d \in Paths : s = job[g].path /\ d = job[g].dst
      BY <1>1, <2>4 DEF Move, TypeInv, JobInv, InStep, RenamePcs
    <3>2. files[s] # NoRow /\ files[d] = NoRow /\ s # d
      BY <1>1, <2>4, <3>1 DEF Move, HeldInv, Held, RenamePcs
    <3>3. /\ files' = [files EXCEPT ![s] = NoRow, ![d] = files[s]] /\ deleted' = deleted
          /\ versions' = (versions \ HistoryOf(s)) \cup {[r EXCEPT !.path = d] : r \in HistoryOf(s)}
      BY <2>4, <3>1, <3>2 DEF Move
    <3>4. \A r \in HistoryOf(s) : [r EXCEPT !.path = d].path = d
      BY <2>0 DEF HistoryOf, Version
    <3>5. p # d
      BY <2>0, <3>2, <3>3
    <3>6. \A r \in versions' : r.path = p => r \in versions /\ p # s
      BY <3>2, <3>3, <3>4, <3>5 DEF HistoryOf
    <3> QED
      BY <2>0, <2>1, <3>3, <3>5, <3>6
  <2>5. ASSUME NEW g \in Gateways, PurgeTargetEnd(g) \/ GcPurgeEnd(g)
        PROVE  job[g].purge.path = p /\ job'[g].purge = NoPurge
    <3> DEFINE jt == [job[g] EXCEPT !.pc = "collect", !.next = "readSource", !.purge = NoPurge]
               jg == [job[g] EXCEPT !.pc = "purge", !.todo = @ \ {job[g].purge.path},
                                    !.purge = NoPurge]
    <3>1. job[g] \in Job
      BY <1>1 DEF TypeInv, JobInv
    <3>2. (Become(g, jt) \/ Become(g, jg)) /\ jt.purge = NoPurge /\ jg.purge = NoPurge
      BY <2>5, <3>1 DEF PurgeTargetEnd, GcPurgeEnd, Job
    <3> HIDE DEF jt, jg
    <3>3. job'[g].purge = NoPurge
      BY <1>1, <3>2, BecomeEffect
    <3>4. /\ files' = files /\ versions' \subseteq versions
          /\ deleted' = deleted \ {job[g].purge.path}
      BY <2>5 DEF PurgeTargetEnd, GcPurgeEnd, PurgeTombstone
    <3> QED
      BY <2>1, <3>3, <3>4
  <2>6. ASSUME NEW g \in Gateways, DeleteOrRename(g), ~DeleteCommit(g), ~Move(g),
               ~PurgeTargetEnd(g)
        PROVE  FALSE
    BY <2>1, <2>6 DEF DeleteOrRename, DeleteBegin, DeleteRefused, RenameBegin, PurgeTarget,
       PurgeHistory, ReadSource, SourceNotFound, MoveRefused, dbVars
  <2>7. ASSUME NEW g \in Gateways, Collect(g), ~GcPurgeEnd(g)
        PROVE  FALSE
    BY <2>1, <2>7, CollectHistory
  <2>8. CASE GraceElapses \/ UNCHANGED vars \/ \E g \in Gateways : Crash(g) \/ Restart(g)
    BY <2>1, <2>8 DEF GraceElapses, vars, dbVars, Crash, Restart
  <2> QED
    BY <1>1, <2>2, <2>3, <2>4, <2>5, <2>6, <2>7, <2>8 DEF Next
<1>2. Spec => []Inv
  BY ProtectedInvariant, PTL
<1>3. Inv /\ [Next]_vars => [Kept]_vars
  BY <1>1
<1> HIDE DEF Inv, Kept
<1>4. Spec => [][Kept]_vars
  BY <1>2, <1>3, PTL DEF Spec
<1> QED
  BY <1>4 DEF TombstonesKept, Kept

\* As long as the leases hold, and always when a gateway is alone, no collection takes the
\* manifest row of a version that is current or archived, so every file that is there is
\* found.
THEOREM RetainedRegistered == ASSUME Protected PROVE Spec => []CurrentRegistered
<1>1. RegInv => CurrentRegistered
  BY DEF RegInv
<1> QED
  BY <1>1, ProtectedInvariant, PTL

---------------------------------------------------------------------------
(* Blobs on their way to registration                                      *)

PreRegister == {"pending", "chunks", "putObject", "putKey", "insertChunk", "pin", "register"}

Stored == objects \cup keys

\* What a collection or a scan may come to delete.
Known == aged \cup Registered \cup UNION {job[h].ids : h \in Gateways}

\* The names an upload may give to what it stores.
Names(o) == {<<o, x>> : x \in Blobs \cup {None}}

\* What an upload has still to store has not been stored, unless it is the blob in hand,
\* and no collection knows it before it is registered; the blob in hand is all there when
\* it is about to be registered.
Fresh(g) ==
    /\ job[g].pc \in PreRegister =>
          \A x \in job[g].left \cup {None} :
             /\ <<job[g].op, x>> \in Known => job[g].pc = "pin" /\ job[g].cur = <<job[g].op, x>>
             /\ <<job[g].op, x>> \in Stored => job[g].cur = <<job[g].op, x>>
    /\ job[g].pc \in {"pending", "chunks"} => job[g].cur = NoObject
    /\ job[g].pc \in {"putObject", "putKey", "insertChunk", "register"} =>
          \E x \in job[g].left \cup {None} : job[g].cur = <<job[g].op, x>>
    /\ job[g].pc \in {"putKey", "insertChunk", "register"} => job[g].cur \in objects
    /\ job[g].pc \in {"insertChunk", "register"} => job[g].cur \in keys

UnusedNames == \A o \in Ops : status[o] = "NONE" => Names(o) \cap (Stored \cup Known) = {}

FreshInv == UnusedNames /\ \A g \in Gateways : Fresh(g)

\* What a step of g may do to the stored names.
NamesMove(g) ==
    /\ Stored' \subseteq Stored \cup (IF Uploading(g) THEN Names(job[g].op) ELSE {})
    /\ Registered' \subseteq Registered \cup (IF Uploading(g) THEN Names(job[g].op) ELSE {})
    /\ objects \ objects' \subseteq Known \cup (IF Uploading(g) THEN Names(job[g].op) ELSE {})
    /\ keys \ keys' \subseteq Known
    /\ aged' = aged
    /\ job'[g].ids \subseteq Known
    /\ \A o \in Ops : status'[o] = "NONE" => status[o] = "NONE"

LEMMA KnownMoves ==
  ASSUME NEW g \in Gateways, OthersStay(g), NamesMove(g)
  PROVE  Known' \subseteq Known \cup (IF Uploading(g) THEN Names(job[g].op) ELSE {})
<1> SUFFICES ASSUME NEW i \in Known'
             PROVE  i \in Known \cup (IF Uploading(g) THEN Names(job[g].op) ELSE {})
  OBVIOUS
<1>1. CASE i \in aged' \cup Registered'
  BY <1>1 DEF NamesMove, Known
<1>2. CASE \E h \in Gateways : i \in job'[h].ids
  BY <1>2 DEF NamesMove, Known, OthersStay
<1> QED
  BY <1>1, <1>2 DEF Known

\* Two uploads give no name in common.
LEMMA NamesApart ==
  ASSUME ActiveInv, NEW g \in Gateways, NEW h \in Gateways \ {g}, Uploading(g), Uploading(h), NEW x
  PROVE  <<job[h].op, x>> \notin Names(job[g].op)
  BY DEF ActiveInv, OwnRecord, Names

LEMMA FreshKept ==
  ASSUME TypeInv, ActiveInv, FreshInv, NEW g \in Gateways, OthersStay(g), NamesMove(g), Fresh(g)'
  PROVE  FreshInv'
<1>1. Known' \subseteq Known \cup (IF Uploading(g) THEN Names(job[g].op) ELSE {})
  BY KnownMoves
<1>2. ASSUME NEW h \in Gateways \ {g} PROVE Fresh(h)'
  <2>1. job'[h] = job[h] /\ Fresh(h)
    BY DEF OthersStay, FreshInv
  <2>2. job[h].pc \in PreRegister => Uploading(h)
    BY DEF PreRegister, Uploading, UploadPcs
  <2>3. ASSUME NEW x, job[h].pc \in PreRegister
        PROVE  /\ <<job[h].op, x>> \in Known' => <<job[h].op, x>> \in Known
               /\ <<job[h].op, x>> \in Stored' => <<job[h].op, x>> \in Stored
               /\ <<job[h].op, x>> \in objects \ objects' => <<job[h].op, x>> \in Known
               /\ <<job[h].op, x>> \in keys \ keys' => <<job[h].op, x>> \in Known
    <3>1. Uploading(g) => <<job[h].op, x>> \notin Names(job[g].op)
      BY <2>2, <2>3, NamesApart
    <3> QED
      BY <1>1, <3>1 DEF NamesMove
  <2>4. ASSUME job[h].pc \in {"putKey", "insertChunk", "register"}
        PROVE  job[h].cur \in objects' /\ (job[h].pc # "putKey" => job[h].cur \in keys')
    <3>1. PICK x \in job[h].left \cup {None} : job[h].cur = <<job[h].op, x>>
      BY <2>1, <2>4 DEF Fresh
    <3>2. job[h].pc \in PreRegister /\ job[h].pc # "pin"
      BY <2>4 DEF PreRegister
    <3>3. job[h].cur \notin Known
      BY <2>1, <3>1, <3>2 DEF Fresh
    <3> QED
      BY <2>1, <2>3, <2>4, <3>1, <3>2, <3>3 DEF Fresh
  <2>5. job[h].pc \in PreRegister =>
          \A x \in job[h].left \cup {None} :
             /\ <<job[h].op, x>> \in Known' => job[h].pc = "pin" /\ job[h].cur = <<job[h].op, x>>
             /\ <<job[h].op, x>> \in Stored' => job[h].cur = <<job[h].op, x>>
    BY <2>1, <2>3 DEF Fresh
  <2> QED
    BY <2>1, <2>4, <2>5 DEF Fresh
<1>3. UnusedNames'
  <2> SUFFICES ASSUME NEW o \in Ops, status'[o] = "NONE", NEW i \in Names(o)
               PROVE  i \notin Stored' /\ i \notin Known'
    BY DEF UnusedNames, Names
  <2>1. status[o] = "NONE" /\ i \notin Stored /\ i \notin Known
    BY DEF NamesMove, FreshInv, UnusedNames
  <2>2. Uploading(g) => o # job[g].op
    BY <2>1 DEF ActiveInv, OwnRecord
  <2>3. Uploading(g) => i \notin Names(job[g].op)
    BY <2>2 DEF Names
  <2> QED
    BY <1>1, <2>1, <2>3 DEF NamesMove
<1> QED
  BY <1>2, <1>3 DEF FreshInv

\* A step of a job that is storing nothing afterwards.
LEMMA NothingInHand ==
  ASSUME NEW g \in Gateways, job'[g].pc \notin PreRegister
  PROVE  Fresh(g)'
  BY DEF Fresh, PreRegister

LEMMA OwnIdsKnown ==
  ASSUME NEW g \in Gateways
  PROVE  job[g].ids \subseteq Known
  BY DEF Known

\* The blob an upload has in hand has one of its names.
LEMMA InHandOwn ==
  ASSUME TypeInv, FreshInv, NEW g \in Gateways,
         job[g].pc \in {"putObject", "putKey", "insertChunk", "register"}
  PROVE  Uploading(g) /\ job[g].op \in Ops /\ job[g].cur \in Names(job[g].op)
<1>1. Uploading(g) /\ job[g].op \in Ops /\ job[g].left \subseteq Blobs
  BY DEF Uploading, UploadPcs, TypeInv, JobInv, InStep, Job
<1>2. \E x \in job[g].left \cup {None} : job[g].cur = <<job[g].op, x>>
  BY DEF FreshInv, Fresh
<1> QED
  BY <1>1, <1>2 DEF Names

\* An upload deletes nothing but the body it has in hand, and names nothing but its own.
LEMMA UploadNames ==
  ASSUME TypeInv, FreshInv, NEW g \in Gateways, UploadMoves(g)
  PROVE  NamesMove(g)
<1>1. Uploading(g) /\ job'[g].ids = job[g].ids
  BY UploadMovesOn
<1>2. job'[g].ids \subseteq Known
  BY <1>1, OwnIdsKnown
<1>3. job[g].op \in Ops /\ status \in [Ops -> Status]
  BY <1>1 DEF Uploading, TypeInv, JobInv, InStep, DbInv, DbTypeOK
<1>4. \A o \in Ops : status'[o] = "NONE" => status[o] = "NONE"
  BY <1>3 DEF UploadMoves, UploadStart, ReadChunk, BodyEndsEarly, PutObject, PutObjectFails, PutKey,
     PutKeyFails, InsertChunk, InsertChunkRefused, PinChunk, FinishUnchanged, StoreManifest,
     RegisterManifest, Verify, VerifyFails, CommitSeesNoRow, CommitRefused, MarkFailed, dbVars
<1>5. aged' = aged /\ keys \subseteq keys'
  BY DEF UploadMoves, UploadStart, ReadChunk, BodyEndsEarly, PutObject, PutObjectFails, PutKey,
     PutKeyFails, InsertChunk, InsertChunkRefused, PinChunk, FinishUnchanged, StoreManifest,
     RegisterManifest, Verify, VerifyFails, CommitSeesNoRow, CommitRefused, MarkFailed, cloudVars
<1>6. /\ Stored' \subseteq Stored \cup Names(job[g].op)
      /\ objects \ objects' \subseteq Names(job[g].op)
  <2>1. CASE PutObject(g) \/ PutObjectFails(g) \/ PutKey(g) \/ PutKeyFails(g)
    <3>1. job[g].cur \in Names(job[g].op)
      BY <2>1, InHandOwn DEF PutObject, PutObjectFails, PutKey, PutKeyFails
    <3>2. /\ objects' \subseteq objects \cup {job[g].cur} /\ keys' \subseteq keys \cup {job[g].cur}
          /\ objects \ objects' \subseteq {job[g].cur}
      BY <2>1 DEF PutObject, PutObjectFails, PutKey, PutKeyFails
    <3> QED
      BY <3>1, <3>2 DEF Stored
  <2>2. CASE ~(PutObject(g) \/ PutObjectFails(g) \/ PutKey(g) \/ PutKeyFails(g))
    <3>1. UNCHANGED <<objects, keys>>
      BY <2>2 DEF UploadMoves, UploadStart, ReadChunk, BodyEndsEarly, InsertChunk,
         InsertChunkRefused, PinChunk, FinishUnchanged, StoreManifest, RegisterManifest, Verify,
         VerifyFails, CommitSeesNoRow, CommitRefused, MarkFailed, cloudVars
    <3> QED
      BY <3>1 DEF Stored
  <2> QED
    BY <2>1, <2>2
<1>7. Registered' \subseteq Registered \cup Names(job[g].op)
  <2>1. CASE InsertChunk(g)
    <3>1. job[g].cur \in Names(job[g].op)
      BY <2>1, InHandOwn DEF InsertChunk
    <3> QED
      BY <2>1, <3>1 DEF InsertChunk, Registered
  <2>2. CASE RegisterManifest(g)
    <3>1. ManifestId(job[g].op) \in Names(job[g].op)
      BY DEF ManifestId, Names
    <3> QED
      BY <2>2, <3>1 DEF RegisterManifest, Registered
  <2>3. CASE ~InsertChunk(g) /\ ~RegisterManifest(g)
    <3>1. UNCHANGED <<chunks, manifests>>
      BY <2>3 DEF UploadMoves, UploadStart, ReadChunk, BodyEndsEarly, PutObject, PutObjectFails,
         PutKey, PutKeyFails, InsertChunkRefused, PinChunk, FinishUnchanged, StoreManifest, Verify,
         VerifyFails, CommitSeesNoRow, CommitRefused, MarkFailed, dbVars
    <3> QED
      BY <3>1 DEF Registered
  <2> QED
    BY <2>1, <2>2, <2>3
<1> QED
  BY <1>1, <1>2, <1>4, <1>5, <1>6, <1>7 DEF NamesMove

\* After each step of an upload the blob in hand, and what is left, are still fresh.
LEMMA UploadFresh ==
  ASSUME TypeInv, ActiveInv, FreshInv, NEW g \in Gateways, UploadMoves(g)
  PROVE  FreshInv'
<1>1. OthersStay(g) /\ Carries(g) /\ Uploading(g) /\ job'[g].ids = job[g].ids
  BY UploadMovesOn
<1>2. NamesMove(g)
  BY UploadNames
<1>3. Fresh(g) /\ job[g].left \subseteq Blobs /\ job[g].op \in Ops
  BY <1>1 DEF FreshInv, TypeInv, JobInv, Job, InStep, Uploading
<1>4. job[g].op # None /\ None \notin Blobs
  BY <1>3, NoneIsNoValue
<1> SUFFICES Fresh(g)'
  BY <1>1, <1>2, FreshKept
<1>5. chunks' = chunks /\ manifests' = manifests => Known' = Known
  BY <1>1, <1>2 DEF Known, Registered, NamesMove, OthersStay
<1>6. CASE UploadStart(g)
  <2>1. /\ job[g].pc = "pending" /\ job'[g].pc = "chunks" /\ job'[g].left = job[g].left
        /\ job'[g].cur = job[g].cur /\ Known' = Known /\ Stored' = Stored
    BY <1>5, <1>6, GotoEffect DEF UploadStart, Stored, cloudVars
  <2> QED
    BY <1>1, <1>3, <2>1 DEF Fresh, Carries, PreRegister
<1>7. CASE ReadChunk(g)
  <2>1. /\ job[g].pc = "chunks" /\ job'[g].left = job[g].left /\ Known' = Known /\ Stored' = Stored
        /\ \/ job'[g].pc = "pin"
           \/ job'[g].pc = "putObject" /\ \E b \in job[g].left : job'[g].cur = <<job[g].op, b>>
    BY <1>5, <1>7, ReadChunkEffect DEF ReadChunk, Stored, dbVars, cloudVars
  <2>2. \A x \in job[g].left \cup {None} : <<job[g].op, x>> \notin Known /\ <<job[g].op, x>> \notin Stored
    BY <1>3, <1>4, <2>1 DEF Fresh, PreRegister, NoObject
  <2> QED
    BY <1>1, <2>1, <2>2 DEF Fresh, Carries
<1>8. CASE StoreManifest(g)
  <2>1. /\ job[g].pc = "chunks" /\ job'[g].left = job[g].left /\ Known' = Known /\ Stored' = Stored
        /\ job'[g].pc = "putObject" /\ job'[g].cur = <<job[g].op, None>>
    BY <1>5, <1>8, StoreManifestEffect DEF StoreManifest, Stored, dbVars, cloudVars, ManifestId
  <2>2. \A x \in job[g].left \cup {None} : <<job[g].op, x>> \notin Known /\ <<job[g].op, x>> \notin Stored
    BY <1>3, <1>4, <2>1 DEF Fresh, PreRegister, NoObject
  <2> QED
    BY <1>1, <2>1, <2>2 DEF Fresh, Carries
<1>9. CASE PutObject(g) \/ PutKey(g)
  <2>1. /\ job'[g].left = job[g].left /\ job'[g].cur = job[g].cur /\ Known' = Known
        /\ Stored' \subseteq Stored \cup {job[g].cur}
        /\ objects \subseteq objects' /\ keys \subseteq keys'
        /\ \/ job[g].pc = "putObject" /\ job'[g].pc = "putKey" /\ job[g].cur \in objects'
           \/ /\ job[g].pc = "putKey" /\ job'[g].pc \in {"register", "insertChunk"}
              /\ job[g].cur \in keys'
    BY <1>5, <1>9, GotoEffect DEF PutObject, PutKey, Stored, dbVars
  <2>2. \E x \in job[g].left \cup {None} : job[g].cur = <<job[g].op, x>>
    BY <1>3, <2>1 DEF Fresh
  <2>3. \A x \in job[g].left \cup {None} :
           /\ <<job[g].op, x>> \notin Known
           /\ <<job[g].op, x>> \in Stored => job[g].cur = <<job[g].op, x>>
    BY <1>3, <2>1 DEF Fresh, PreRegister
  <2>4. job[g].cur \in objects'
    BY <1>3, <2>1 DEF Fresh
  <2> QED
    BY <1>1, <2>1, <2>2, <2>3, <2>4 DEF Fresh, Carries
<1>10. CASE InsertChunk(g)
  <2>1. /\ job'[g].left = job[g].left /\ job'[g].cur = job[g].cur /\ job'[g].pc = "pin"
        /\ Stored' = Stored /\ job[g].pc = "insertChunk"
        /\ chunks' = chunks \cup {job[g].cur} /\ manifests' = manifests
    BY <1>10, GotoEffect DEF InsertChunk, Stored, cloudVars
  <2>2. Known' \subseteq Known \cup {job[g].cur}
    BY <1>1, <1>2, <2>1 DEF Known, Registered, NamesMove, OthersStay
  <2>3. \A x \in job[g].left \cup {None} :
           /\ <<job[g].op, x>> \notin Known
           /\ <<job[g].op, x>> \in Stored => job[g].cur = <<job[g].op, x>>
    BY <1>3, <2>1 DEF Fresh, PreRegister
  <2> QED
    BY <1>1, <2>1, <2>2, <2>3 DEF Fresh, Carries
<1>11. CASE PinChunk(g)
  <2>1. /\ job'[g].left = job[g].left \ {Plaintext(job[g].cur)} /\ job'[g].cur = NoObject
        /\ job'[g].pc = "chunks" /\ Stored' = Stored /\ Known' = Known
        /\ job[g].pc = "pin"
    BY <1>5, <1>11, PinChunkEffect DEF PinChunk, Stored, cloudVars
  <2>2. job[g].cur \in ChunkIds
    BY <2>1 DEF TypeInv, JobInv, InStep
  <2>3. \A x \in job'[g].left \cup {None} :
           x \in job[g].left \cup {None} /\ job[g].cur # <<job[g].op, x>>
    BY <1>4, <2>1, <2>2 DEF ChunkIds, Plaintext
  <2>4. \A x \in job'[g].left \cup {None} : <<job[g].op, x>> \notin Known /\ <<job[g].op, x>> \notin Stored
    BY <1>3, <2>1, <2>3 DEF Fresh, PreRegister
  <2> QED
    BY <1>1, <2>1, <2>4 DEF Fresh, Carries
<1>12. CASE RegisterManifest(g)
  BY <1>12, RegisterEffect, NothingInHand DEF PreRegister
<1>13. CASE \E pc \in {"fail", "unpin", "commit", "insert", "unpinFailed"} : Goto(g, pc)
  BY <1>13, GotoEffect, NothingInHand DEF PreRegister
<1> QED
  BY <1>6, <1>7, <1>8, <1>9, <1>10, <1>11, <1>12, <1>13 DEF UploadMoves, BodyEndsEarly,
     PutObjectFails, PutKeyFails, InsertChunkRefused, FinishUnchanged, Verify, VerifyFails,
     CommitSeesNoRow, CommitRefused, MarkFailed

LEMMA UploadBeginFresh ==
  ASSUME TypeInv, ActiveInv, FreshInv, NEW g \in Gateways, NEW o \in Ops, NEW p \in Paths,
         NEW body \in SUBSET Blobs, UploadBegin(g, o, p, body)
  PROVE  FreshInv'
<1> DEFINE j == [IdleJob EXCEPT !.pc = "pending", !.op = o, !.path = p, !.base = FileRow(p),
                                !.version = NextVersion(p), !.left = body]
<1>1. /\ Become(g, j) /\ j.pc = "pending" /\ j.op = o /\ j.left = body /\ j.cur = NoObject
      /\ j.ids = {}
  BY DEF UploadBegin, IdleJob
<1> HIDE DEF j
<1>2. OthersStay(g) /\ job'[g] = j
  BY <1>1, BecomeEffect
<1>3. /\ UNCHANGED <<chunks, manifests, cloudVars>> /\ status[o] = "NONE"
      /\ status' = [status EXCEPT ![o] = "PENDING"] /\ status \in [Ops -> Status]
  BY DEF UploadBegin, TypeInv, DbInv, DbTypeOK
<1>4. NamesMove(g)
  BY <1>1, <1>2, <1>3 DEF NamesMove, Stored, Registered, cloudVars
<1>5. Names(o) \cap (Stored \cup Known) = {}
  BY <1>3 DEF FreshInv, UnusedNames
<1>6. Stored' = Stored /\ Known' \subseteq Known
  BY <1>1, <1>2, <1>3 DEF Stored, Known, Registered, cloudVars, OthersStay
<1>7. \A x \in body \cup {None} : <<o, x>> \notin Known' /\ <<o, x>> \notin Stored'
  BY <1>5, <1>6 DEF Names
<1>8. Fresh(g)'
  BY <1>1, <1>2, <1>7 DEF Fresh
<1> QED
  BY <1>2, <1>4, <1>8, FreshKept

\* A step that names nothing new, of a job that is storing nothing afterwards.
LEMMA FreshQuiet ==
  ASSUME TypeInv, ActiveInv, FreshInv, NEW g \in Gateways, OthersStay(g),
         job'[g].pc \notin PreRegister, job'[g].ids \subseteq Known,
         UNCHANGED aged, Registered' \subseteq Registered,
         objects' \subseteq objects, keys' \subseteq keys,
         objects \ objects' \subseteq Known, keys \ keys' \subseteq Known,
         \A o \in Ops : status'[o] = "NONE" => status[o] = "NONE"
  PROVE  FreshInv'
<1>1. NamesMove(g)
  BY DEF NamesMove, Stored
<1> QED
  BY <1>1, NothingInHand, FreshKept

LEMMA UploadKeepsFresh ==
  ASSUME TypeInv, ActiveInv, FreshInv, NEW g \in Gateways, Upload(g)
  PROVE  FreshInv'
<1>1. CASE CommitReplace(g) \/ CommitInsert(g)
  <2>1. Publish(g)
    BY <1>1 DEF CommitReplace, CommitInsert
  <2>2. OthersStay(g) /\ job'[g].pc = "idle" /\ job'[g].ids = {}
    BY <2>1, FinishEffect DEF Publish, IdleJob
  <2>3. /\ UNCHANGED <<chunks, manifests, cloudVars>>
        /\ status' = [status EXCEPT ![job[g].op] = "ACTIVE"] /\ status \in [Ops -> Status]
    BY <2>1 DEF Publish, TypeInv, DbInv, DbTypeOK
  <2> QED
    BY <2>2, <2>3, FreshQuiet DEF PreRegister, Registered, cloudVars
<1>2. CASE UnpinUnchanged(g) \/ UnpinFailed(g)
  <2>1. /\ OthersStay(g)
        /\ job'[g].pc \in {"idle", "collect"} /\ job'[g].ids = {}
        /\ UNCHANGED <<chunks, manifests, status, cloudVars>>
    BY <1>2, UploadEnds
  <2> QED
    BY <2>1, FreshQuiet DEF PreRegister, Registered, cloudVars
<1> QED
  BY <1>1, <1>2, UploadCases, UploadBeginFresh, UploadFresh

LEMMA DeleteOrRenameFresh ==
  ASSUME TypeInv, ActiveInv, FreshInv, NEW g \in Gateways, DeleteOrRename(g)
  PROVE  FreshInv'
<1>1. /\ OthersStay(g)
      /\ job'[g].pc \in RenamePcs \cup {"idle", "delete", "collect"}
      /\ job'[g].ids = {} \/ job'[g].ids = job[g].ids
  BY DeleteOrRenameGoes
<1>2. UNCHANGED <<chunks, manifests, status, cloudVars>>
  BY DEF DeleteOrRename, DeleteBegin, DeleteCommit, DeleteRefused, RenameBegin, PurgeTarget,
     PurgeTargetEnd, PurgeHistory, PurgeTombstone, ReadSource, SourceNotFound, Move, MoveRefused, dbVars
<1>3. job'[g].ids \subseteq Known
  BY <1>1, OwnIdsKnown
<1> QED
  BY <1>1, <1>2, <1>3, FreshQuiet DEF PreRegister, RenamePcs, Registered, cloudVars

\* A collection deletes what it selected, nothing else.
LEMMA CollectDeletes ==
  ASSUME TypeInv, NEW g \in Gateways, Collect(g)
  PROVE  /\ objects' \subseteq objects /\ keys' \subseteq keys /\ aged' = aged
         /\ objects \ objects' \subseteq job[g].ids /\ keys \ keys' \subseteq job[g].ids
         /\ \/ job[g].pc \in {"dropManifests", "dropChunks", "sweep"}
            \/ objects' = objects /\ keys' = keys
         /\ Registered' \subseteq Registered
<1>1. CASE (\E i \in ObjectIds : DropRemote(g, i) \/ DropRemoteFails(g, i)) \/ Sweep(g) \/ SweepFails(g)
  BY <1>1 DEF DropRemote, DropRemoteFails, Sweep, SweepFails, dbVars, Registered
<1>2. CASE DropRow(g)
  <2>1. chunks' \subseteq chunks /\ manifests' \subseteq manifests /\ UNCHANGED cloudVars
    BY <1>2 DEF DropRow
  <2> QED
    BY <2>1 DEF Registered, cloudVars
<1>3. CASE ~((\E i \in ObjectIds : DropRemote(g, i) \/ DropRemoteFails(g, i)) \/ Sweep(g)
             \/ SweepFails(g) \/ DropRow(g))
  <2>1. UNCHANGED <<chunks, manifests, cloudVars>>
    BY <1>3 DEF Collect, GcBegin, GcLimit, GcListDeleted, GcPurge, GcPurgeEnd, PurgeHistory,
         PurgeTombstone, GcCapacity,
       SelectManifests, SelectChunks, CollectDone, ScanKnown, dbVars
  <2> QED
    BY <2>1 DEF Registered, cloudVars
<1> QED
  BY <1>1, <1>2, <1>3

LEMMA CollectFresh ==
  ASSUME TypeInv, ActiveInv, FreshInv, NEW g \in Gateways, Collect(g)
  PROVE  FreshInv'
<1>1. OthersStay(g) /\ job'[g].pc \notin UploadPcs /\ status' = status
  BY CollectEffect, CollectHistory
<1>2. /\ objects' \subseteq objects /\ keys' \subseteq keys /\ aged' = aged
      /\ objects \ objects' \subseteq Known /\ keys \ keys' \subseteq Known
      /\ Registered' \subseteq Registered
  BY CollectDeletes, OwnIdsKnown
<1>3. UnusedManifests \subseteq Known /\ UnusedChunks \subseteq Known /\ aged \subseteq Known
  BY DEF UnusedManifests, UnusedChunks, Known, Registered
<1>4. job'[g].ids \subseteq Known
  BY <1>3, CollectIds, OwnIdsKnown
<1> QED
  BY <1>1, <1>2, <1>4, FreshQuiet DEF PreRegister, UploadPcs

\* The grace window spares the blobs in hand; the other blobs of an upload are registered
\* already, or not stored yet.
LEMMA GraceFresh ==
  ASSUME TypeInv, FreshInv, GraceElapses
  PROVE  FreshInv'
<1>1. /\ aged' = Stored \ UNION {BeingStored(g) : g \in Gateways}
      /\ UNCHANGED <<dbVars, objects, keys, job>>
  BY DEF GraceElapses, Stored
<1>2. Stored' = Stored /\ status' = status /\ Registered' = Registered
  BY <1>1 DEF Stored, Registered, dbVars
<1>3. ASSUME NEW i \in Known'
      PROVE  i \in Known \/ (i \in Stored /\ \A g \in Gateways : i \notin BeingStored(g))
  BY <1>1, <1>2 DEF Known
<1>4. UnusedNames'
  BY <1>2, <1>3 DEF FreshInv, UnusedNames
<1>5. ASSUME NEW g \in Gateways PROVE Fresh(g)'
  <2>1. Fresh(g) /\ job'[g] = job[g] /\ objects' = objects /\ keys' = keys
    BY <1>1 DEF FreshInv
  <2>2. job[g].pc \in PreRegister => job[g].op # None
    BY NoneIsNoValue DEF PreRegister, UploadPcs, TypeInv, JobInv, InStep
  <2>3. ASSUME job[g].pc \in PreRegister, NEW x \in job[g].left \cup {None},
               <<job[g].op, x>> \in Known'
        PROVE  job[g].pc = "pin" /\ job[g].cur = <<job[g].op, x>>
    <3>1. CASE <<job[g].op, x>> \in Known
      BY <2>1, <2>3, <3>1 DEF Fresh
    <3>2. CASE <<job[g].op, x>> \in Stored /\ <<job[g].op, x>> \notin BeingStored(g)
      <4>1. job[g].cur = <<job[g].op, x>>
        BY <2>1, <2>3, <3>2 DEF Fresh
      <4>2. job[g].pc \notin {"pending", "chunks"}
        BY <2>1, <2>2, <2>3, <4>1 DEF Fresh, NoObject
      <4> QED
        BY <2>3, <3>2, <4>1, <4>2 DEF BeingStored, PreRegister
    <3> QED
      BY <1>3, <2>3, <3>1, <3>2
  <2> QED
    BY <1>2, <2>1, <2>3 DEF Fresh
<1> QED
  BY <1>4, <1>5 DEF FreshInv

LEMMA FreshInit == Init => FreshInv
<1> SUFFICES ASSUME Init PROVE FreshInv
  OBVIOUS
<1>1. Stored = {} /\ Known = {}
  BY DEF Init, Stored, Known, Registered, IdleJob
<1>2. \A g \in Gateways : job[g].pc = "idle"
  BY DEF Init, IdleJob
<1> QED
  BY <1>1, <1>2 DEF FreshInv, UnusedNames, Fresh, PreRegister

LEMMA FreshNext == TypeInv /\ ActiveInv /\ FreshInv /\ [Next]_vars => FreshInv'
<1> SUFFICES ASSUME TypeInv, ActiveInv, FreshInv, [Next]_vars PROVE FreshInv'
  OBVIOUS
<1>1. ASSUME NEW g \in Gateways, Upload(g)
      PROVE  FreshInv'
  BY <1>1, UploadKeepsFresh
<1>2. ASSUME NEW g \in Gateways, DeleteOrRename(g)
      PROVE  FreshInv'
  BY <1>2, DeleteOrRenameFresh
<1>3. ASSUME NEW g \in Gateways, Collect(g)
      PROVE  FreshInv'
  BY <1>3, CollectFresh
<1>4. ASSUME NEW g \in Gateways, Crash(g) \/ Restart(g)
      PROVE  FreshInv'
  <2> DEFINE j == [IdleJob EXCEPT !.pc = "down"]
  <2>1. /\ Become(g, j) \/ Become(g, IdleJob)
        /\ UNCHANGED <<chunks, manifests, status, cloudVars>>
    BY <1>4 DEF Crash, Restart, Finish, dbVars
  <2>2. /\ j.pc = "down" /\ j.ids = {} /\ IdleJob.pc = "idle" /\ IdleJob.ids = {}
    BY DEF IdleJob
  <2> HIDE DEF j
  <2>3. OthersStay(g) /\ job'[g].pc \in {"down", "idle"} /\ job'[g].ids = {}
    BY <2>1, <2>2, BecomeEffect
  <2> QED
    BY <2>1, <2>3, FreshQuiet DEF PreRegister, Registered, cloudVars
<1>5. CASE GraceElapses
  BY <1>5, GraceFresh
<1>6. CASE UNCHANGED vars
  BY <1>6 DEF vars, dbVars, cloudVars, FreshInv, UnusedNames, Fresh, Stored, Known, Registered
<1> QED
  BY <1>1, <1>2, <1>3, <1>4, <1>5, <1>6 DEF Next

\* With any number of gateways, and whether leases hold or not, no remote scan and no
\* collection deletes a blob that an upload has stored and is about to register: a name is
\* drawn for one upload, and no query knows it before it is registered or old
\* (_remove_unknown_remote_objects and its grace window).
THEOREM FreshSurvive == Spec => []FreshBlobsSurvive
<1>1. Spec => [](TypeInv /\ ActiveInv /\ FreshInv)
  <2> DEFINE Inv == TypeInv /\ ActiveInv /\ FreshInv
  <2>1. Init => Inv
    BY TypeInit, ActiveInit, FreshInit
  <2>2. Inv /\ [Next]_vars => Inv'
    BY TypeNext, ActiveNext, FreshNext
  <2> QED
    BY <2>1, <2>2, PTL DEF Spec
<1>2. FreshInv => FreshBlobsSurvive
  BY DEF FreshInv, Fresh, FreshBlobsSurvive, Present
<1> QED
  BY <1>1, <1>2, PTL

---------------------------------------------------------------------------
(* A gateway alone: every retained version can be read back                *)

\* m can be read back.
Intact(m) ==
    /\ m \in manifests
    /\ mchunks[m] \subseteq chunks
    /\ {Plaintext(c) : c \in mchunks[m]} = content[m]
    /\ Present(Components(m, mchunks[m]))

\* The names that a retained version needs.
Vital == UNION {Components(m, mchunks[m]) : m \in Retained}

\* What an upload has gathered, and what is left, make up what the client sends; from its
\* registration on all of it is listed, and from the verification on all of it is stored.
Gathered(g) ==
    /\ job[g].pc \in PreRegister \cup {"verify", "commit", "insert"} =>
          /\ job[g].rows \subseteq chunks
          /\ {Plaintext(c) : c \in job[g].rows} \cup job[g].left = content[job[g].op]
    /\ job[g].pc = "pin" => job[g].cur \in chunks /\ Plaintext(job[g].cur) \in job[g].left
    /\ \/ job[g].pc \in {"putObject", "putKey"} /\ job[g].cur = ManifestId(job[g].op)
       \/ job[g].pc \in {"register", "verify", "commit", "insert"}
       => job[g].left = {}
    /\ job[g].pc \in {"verify", "commit", "insert"} => mchunks[job[g].op] = job[g].rows
    /\ job[g].pc \in {"commit", "insert"} => Present(Components(job[g].op, job[g].rows))

\* No collection and no scan has selected what a retained version needs.
Spared(g) ==
    /\ job[g].pc \in DropPcs \cup {"sweep"} => job[g].ids \cap Vital = {}
    /\ job[g].pc = "dropRow" => job[g].cur \notin Vital

\* What gc purges is still tombstoned.
ListKnows(g) ==
    /\ job[g].pc \in {"purge", "purgeEnd"} => job[g].todo \subseteq deleted
    /\ job[g].pc = "purgeEnd" => job[g].purge.path \in job[g].todo

LoneInv == RetainedIntact /\ \A g \in Gateways : Gathered(g) /\ Spared(g) /\ ListKnows(g)

LEMMA IntactByPart == RetainedIntact <=> \A m \in Retained : Intact(m)
  BY DEF RetainedIntact, Intact

LEMMA VitalRegistered ==
  ASSUME RetainedIntact
  PROVE  Vital \subseteq Registered /\ Vital \subseteq objects /\ Vital \subseteq keys
  BY DEF RetainedIntact, Vital, Registered, Components, Present

\* A step that takes nothing vital away, and retains nothing new that is not intact.
LEMMA IntactKept ==
  ASSUME RetainedIntact, CurrentRegistered',
         \A m \in Retained' :
            Intact(m)' \/ (m \in Retained /\ mchunks'[m] = mchunks[m] /\ content'[m] = content[m]),
         \A i \in Vital : /\ i \in chunks => i \in chunks'
                          /\ i \in objects' /\ i \in keys'
  PROVE  RetainedIntact'
<1> SUFFICES ASSUME NEW m \in Retained', m \in Retained, mchunks'[m] = mchunks[m],
                    content'[m] = content[m]
             PROVE  Intact(m)'
  BY IntactByPart DEF RetainedIntact, Intact
<1>1. m \in manifests'
  BY DEF CurrentRegistered
<1>2. Intact(m)
  BY IntactByPart
<1>3. Components(m, mchunks[m]) \subseteq Vital
  BY DEF Vital
<1>4. mchunks[m] \subseteq Vital
  BY <1>3 DEF Components
<1>5. mchunks[m] \subseteq chunks'
  BY <1>2, <1>4 DEF Intact
<1>6. Present(Components(m, mchunks[m]))'
  BY <1>3 DEF Present, Components
<1> QED
  BY <1>1, <1>2, <1>5, <1>6 DEF Intact, Components

\* A job that neither uploads nor deletes relies on nothing.
LEMMA RestLone ==
  ASSUME NEW g \in Gateways,
         job'[g].pc \notin PreRegister \cup {"verify", "commit", "insert"},
         job'[g].pc \notin DropPcs \cup {"sweep", "purge", "purgeEnd"}
  PROVE  Gathered(g)' /\ Spared(g)' /\ ListKnows(g)'
  BY DEF Gathered, Spared, ListKnows, PreRegister, DropPcs

LEMMA AloneKept ==
  ASSUME Alone, NEW g \in Gateways, RetainedIntact', Gathered(g)', Spared(g)', ListKnows(g)'
  PROVE  LoneInv'
  BY DEF Alone, LoneInv

\* The upload in hand is not yet retained.
LEMMA OpenNotRetained ==
  ASSUME ActiveInv, RegInv, NEW g \in Gateways, Open(g)
  PROVE  job[g].op \notin Retained
  BY DEF ActiveInv, RetainedIsActive, RegInv, OwnStatus, InProgress

\* An upload takes away nothing that a retained version needs.
LEMMA UploadIntact ==
  ASSUME TypeInv, ActiveInv, FreshInv, RegInv, RegInv', RetainedIntact,
         NEW g \in Gateways, UploadMoves(g)
  PROVE  RetainedIntact'
<1>1. Uploading(g) /\ UNCHANGED <<files, versions>> /\ mchunks \in [Ops -> SUBSET ChunkIds]
  BY UploadMovesOn DEF TypeInv, DbInv, DbTypeOK
<1>2. Retained' = Retained
  BY <1>1 DEF Retained, Current, Archived
<1>3. content' = content /\ chunks \subseteq chunks' /\ keys \subseteq keys'
  BY DEF UploadMoves, UploadStart, ReadChunk, BodyEndsEarly, PutObject, PutObjectFails, PutKey,
     PutKeyFails, InsertChunk, InsertChunkRefused, PinChunk, FinishUnchanged, StoreManifest,
     RegisterManifest, Verify, VerifyFails, CommitSeesNoRow, CommitRefused, MarkFailed, dbVars,
     cloudVars
<1>4. \A m \in Retained : mchunks'[m] = mchunks[m]
  <2>1. CASE RegisterManifest(g)
    <3>1. Open(g)
      BY <1>1, <2>1 DEF Open, RegisterManifest
    <3>2. job[g].op \notin Retained
      BY <3>1, OpenNotRetained
    <3> QED
      BY <1>1, <2>1, <3>2 DEF RegisterManifest
  <2>2. CASE ~RegisterManifest(g)
    BY <2>2 DEF UploadMoves, UploadStart, ReadChunk, BodyEndsEarly, PutObject, PutObjectFails,
       PutKey, PutKeyFails, InsertChunk, InsertChunkRefused, PinChunk, FinishUnchanged,
       StoreManifest, Verify, VerifyFails, CommitSeesNoRow, CommitRefused, MarkFailed, dbVars
  <2> QED
    BY <2>1, <2>2
<1>5. \A i \in Vital : i \in objects'
  <2>1. CASE PutKeyFails(g)
    <3>1. objects' \in {objects, objects \ {job[g].cur}} /\ job[g].pc = "putKey"
      BY <2>1 DEF PutKeyFails
    <3>2. PICK x \in job[g].left \cup {None} : job[g].cur = <<job[g].op, x>>
      BY <3>1 DEF FreshInv, Fresh
    <3>3. job[g].cur \notin Known
      BY <3>1, <3>2 DEF FreshInv, Fresh, PreRegister
    <3> QED
      BY <3>1, <3>3, VitalRegistered DEF Known
  <2>2. CASE ~PutKeyFails(g)
    <3>1. objects \subseteq objects'
      BY <2>2 DEF UploadMoves, UploadStart, ReadChunk, BodyEndsEarly, PutObject, PutObjectFails,
         PutKey, InsertChunk, InsertChunkRefused, PinChunk, FinishUnchanged, StoreManifest,
         RegisterManifest, Verify, VerifyFails, CommitSeesNoRow, CommitRefused, MarkFailed,
         cloudVars
    <3> QED
      BY <3>1, VitalRegistered
  <2> QED
    BY <2>1, <2>2
<1> QED
  BY <1>2, <1>3, <1>4, <1>5, VitalRegistered, IntactKept DEF RegInv

\* What an upload gathers stays gathered, and each step adds its part.
LEMMA UploadGathers ==
  ASSUME TypeInv, FreshInv, NEW g \in Gateways, Gathered(g), UploadMoves(g)
  PROVE  Gathered(g)'
<1>1. Carries(g) /\ Uploading(g) /\ job[g].op \in Ops /\ mchunks \in [Ops -> SUBSET ChunkIds]
  BY UploadMovesOn DEF Uploading, TypeInv, JobInv, InStep, DbInv, DbTypeOK
<1>2. content' = content /\ chunks \subseteq chunks'
  BY DEF UploadMoves, UploadStart, ReadChunk, BodyEndsEarly, PutObject, PutObjectFails, PutKey,
     PutKeyFails, InsertChunk, InsertChunkRefused, PinChunk, FinishUnchanged, StoreManifest,
     RegisterManifest, Verify, VerifyFails, CommitSeesNoRow, CommitRefused, MarkFailed, dbVars
<1>3. None \notin Blobs /\ (job[g].pc \in {"insertChunk", "pin"} => job[g].cur \in ChunkIds)
  BY NoneIsNoValue DEF TypeInv, JobInv, InStep
<1>4. CASE UploadStart(g)
  <2>1. /\ job[g].pc = "pending" /\ job'[g].pc = "chunks"
        /\ job'[g].left = job[g].left /\ job'[g].rows = job[g].rows
    BY <1>4, GotoEffect DEF UploadStart
  <2> QED
    BY <1>1, <1>2, <2>1 DEF Gathered, Carries, PreRegister
<1>5. CASE ReadChunk(g)
  <2>1. /\ job[g].pc = "chunks" /\ job'[g].left = job[g].left /\ job'[g].rows = job[g].rows
        /\ \/ /\ job'[g].pc = "pin"
              /\ job'[g].cur \in chunks /\ Plaintext(job'[g].cur) \in job[g].left
           \/ job'[g].pc = "putObject" /\ \E b \in job[g].left : job'[g].cur = <<job[g].op, b>>
    BY <1>5, ReadChunkEffect DEF ReadChunk
  <2>2. job[g].left \subseteq Blobs
    BY DEF TypeInv, JobInv, Job
  <2>3. job'[g].pc = "putObject" => job'[g].cur # ManifestId(job[g].op)
    BY <1>3, <2>1, <2>2 DEF ManifestId
  <2> QED
    BY <1>1, <1>2, <2>1, <2>3 DEF Gathered, Carries, PreRegister
<1>6. CASE StoreManifest(g)
  <2>1. /\ job[g].pc = "chunks" /\ job[g].left = {} /\ job'[g].left = job[g].left
        /\ job'[g].rows = job[g].rows /\ job'[g].pc = "putObject"
    BY <1>6, StoreManifestEffect DEF StoreManifest
  <2> QED
    BY <1>1, <1>2, <2>1 DEF Gathered, Carries, PreRegister
<1>7. CASE PutObject(g) \/ PutKey(g)
  <2>1. /\ job'[g].left = job[g].left /\ job'[g].rows = job[g].rows /\ job'[g].cur = job[g].cur
        /\ job[g].pc \in {"putObject", "putKey"}
        /\ \/ job'[g].pc \in {"putKey", "insertChunk"}
           \/ job'[g].pc = "register" /\ job[g].cur = ManifestId(job[g].op)
    BY <1>7, GotoEffect DEF PutObject, PutKey
  <2> QED
    BY <1>1, <1>2, <2>1 DEF Gathered, Carries, PreRegister
<1>8. CASE InsertChunk(g)
  <2>1. /\ job'[g].left = job[g].left /\ job'[g].rows = job[g].rows /\ job'[g].cur = job[g].cur
        /\ job[g].pc = "insertChunk" /\ job'[g].pc = "pin" /\ job[g].cur \in chunks'
    BY <1>8, GotoEffect DEF InsertChunk
  <2>2. PICK x \in job[g].left \cup {None} : job[g].cur = <<job[g].op, x>>
    BY <2>1 DEF FreshInv, Fresh
  <2>3. x \in job[g].left /\ Plaintext(job[g].cur) = x
    BY <1>3, <2>1, <2>2 DEF ChunkIds, Plaintext
  <2> QED
    BY <1>1, <1>2, <2>1, <2>3 DEF Gathered, Carries, PreRegister
<1>9. CASE PinChunk(g)
  <2>1. /\ job'[g].left = job[g].left \ {Plaintext(job[g].cur)}
        /\ job'[g].rows = job[g].rows \cup {job[g].cur}
        /\ job[g].pc = "pin" /\ job'[g].pc = "chunks"
    BY <1>9, PinChunkEffect DEF PinChunk
  <2>2. /\ job[g].rows \subseteq chunks /\ job[g].cur \in chunks
        /\ Plaintext(job[g].cur) \in job[g].left
        /\ {Plaintext(c) : c \in job[g].rows} \cup job[g].left = content[job[g].op]
    BY <2>1 DEF Gathered, PreRegister
  <2>3. {Plaintext(c) : c \in job'[g].rows} =
            {Plaintext(c) : c \in job[g].rows} \cup {Plaintext(job[g].cur)}
    BY <2>1
  <2>4. {Plaintext(c) : c \in job'[g].rows} \cup job'[g].left = content[job[g].op]
    BY <2>1, <2>2, <2>3
  <2> QED
    BY <1>1, <1>2, <2>1, <2>2, <2>4 DEF Gathered, Carries
<1>10. CASE RegisterManifest(g)
  <2>1. /\ job'[g].left = job[g].left /\ job'[g].rows = job[g].rows
        /\ job[g].pc = "register" /\ job'[g].pc = "verify"
        /\ mchunks'[job[g].op] = job[g].rows
    BY <1>1, <1>10, RegisterEffect DEF RegisterManifest
  <2> QED
    BY <1>1, <1>2, <2>1 DEF Gathered, Carries, PreRegister
<1>11. CASE Verify(g) \/ CommitSeesNoRow(g)
  <2>1. /\ job'[g].left = job[g].left /\ job'[g].rows = job[g].rows
        /\ \/ job[g].pc = "verify" /\ Present(Components(job[g].op, job[g].rows))
           \/ job[g].pc = "commit"
        /\ job'[g].pc \in {"commit", "insert"}
    BY <1>11, GotoEffect DEF Verify, CommitSeesNoRow
  <2>2. UNCHANGED <<mchunks, objects, keys>>
    BY <1>11 DEF Verify, CommitSeesNoRow, dbVars, cloudVars
  <2>3. Present(Components(job[g].op, job[g].rows))
    BY <2>1 DEF Gathered
  <2> QED
    BY <1>1, <1>2, <2>1, <2>2, <2>3 DEF Gathered, Carries, Present, PreRegister
<1>12. CASE \E pc \in {"fail", "unpin", "unpinFailed"} : Goto(g, pc)
  BY <1>12, GotoEffect DEF Gathered, PreRegister
<1> QED
  BY <1>4, <1>5, <1>6, <1>7, <1>8, <1>9, <1>10, <1>11, <1>12 DEF UploadMoves, BodyEndsEarly,
     PutObjectFails, PutKeyFails, InsertChunkRefused, FinishUnchanged, VerifyFails, CommitRefused,
     MarkFailed

\* A commit retains an upload that is stored and listed.
LEMMA PublishIntact ==
  ASSUME TypeInv, HeldInv, RegInv, RegInv', RetainedIntact, NEW g \in Gateways,
         Gathered(g), CommitReplace(g) \/ CommitInsert(g)
  PROVE  RetainedIntact'
<1>1. Publish(g) /\ job[g].pc \in {"commit", "insert"}
  BY DEF CommitReplace, CommitInsert
<1>2. UNCHANGED <<chunks, manifests, mchunks, content, cloudVars>>
  BY <1>1 DEF Publish
<1>3. RetainedMove(g)
  BY PublishMovesRetained
<1>4. PICK o : o = job[g].op
  OBVIOUS
<1>5. Intact(o)
  <2>1. /\ job[g].left = {} /\ mchunks[o] = job[g].rows /\ job[g].rows \subseteq chunks
        /\ Present(Components(o, job[g].rows)) /\ o \in manifests
        /\ {Plaintext(c) : c \in job[g].rows} \cup job[g].left = content[o]
    BY <1>1, <1>4 DEF Gathered, RegInv, OwnStatus
  <2>2. {Plaintext(c) : c \in job[g].rows} = content[o]
    BY <2>1
  <2> QED
    BY <2>1, <2>2 DEF Intact
<1>6. /\ Intact(o)'
      /\ \A m \in Retained' : m \in Retained \/ m = o
  BY <1>2, <1>3, <1>4, <1>5 DEF Intact, Present, Components, cloudVars, RetainedMove
<1>7. \A i \in Vital : i \in objects' /\ i \in keys'
  BY <1>2, VitalRegistered DEF cloudVars
<1> QED
  BY <1>2, <1>6, <1>7, IntactKept DEF RegInv

\* What a collection deletes was spared from everything vital.
LEMMA CollectIntact ==
  ASSUME TypeInv, RegInv, RegInv', RetainedIntact, NEW g \in Gateways, Spared(g), Collect(g)
  PROVE  RetainedIntact' /\ Vital' \subseteq Vital
<1>1. Retained' \subseteq Retained /\ content' = content
  BY CollectHistory, RetainedShrinks
<1>2. \A i \in Vital : i \in objects' /\ i \in keys'
  BY CollectDeletes, VitalRegistered DEF Spared, DropPcs
<1>3. mchunks \in [Ops -> SUBSET ChunkIds]
  BY DEF TypeInv, DbInv, DbTypeOK
<1>4. /\ \A m \in Retained : mchunks'[m] = mchunks[m]
      /\ \A i \in Vital : i \in chunks => i \in chunks'
  <2>1. CASE DropRow(g)
    <3>1. job[g].cur \notin Vital
      BY <2>1 DEF DropRow, Spared
    <3>2. CASE /\ job[g].cur \in ManifestIds
               /\ mchunks' = [mchunks EXCEPT ![job[g].cur[1]] = {}]
               /\ chunks' = chunks
      <4>1. job[g].cur = ManifestId(job[g].cur[1])
        BY <3>2 DEF ManifestIds, ManifestId
      <4>2. job[g].cur[1] \notin Retained
        BY <3>1, <4>1 DEF Vital, Components
      <4> QED
        BY <1>3, <3>2, <4>2
    <3>3. CASE chunks' = chunks \ {job[g].cur} /\ mchunks' = mchunks
      BY <3>1, <3>3
    <3> QED
      BY <2>1, <3>2, <3>3 DEF DropRow
  <2>2. CASE ~DropRow(g)
    <3>1. UNCHANGED <<mchunks, chunks>>
      BY <2>2 DEF Collect, GcBegin, GcLimit, GcListDeleted, GcPurge, GcPurgeEnd, PurgeHistory,
         PurgeTombstone, GcCapacity,
         SelectManifests, SelectChunks, DropRemote, DropRemoteFails, CollectDone,
         ScanKnown, Sweep, SweepFails, dbVars
    <3> QED
      BY <3>1
  <2> QED
    BY <2>1, <2>2
<1>5. RetainedIntact'
  BY <1>1, <1>2, <1>4, IntactKept DEF RegInv
<1>6. Vital' \subseteq Vital
  BY <1>1, <1>4 DEF Vital, Components
<1> QED
  BY <1>5, <1>6

\* What a collection selects is not vital.
LEMMA UnusedNotVital ==
  ASSUME TypeInv, RegInv, RetainedIntact
  PROVE  /\ UnusedManifests \cap Vital = {}
         /\ UnusedChunks \cap Vital = {}
         /\ (aged \ Registered) \cap Vital = {}
<1>1. \A m \in Retained : m \in manifests /\ mchunks[m] \subseteq chunks
  BY DEF RetainedIntact
<1>2. UnusedManifests \cap Vital = {}
  <2> SUFFICES ASSUME NEW m \in manifests, m \notin Retained, ManifestId(m) \in Vital PROVE FALSE
    BY DEF UnusedManifests
  <2>1. PICK n \in Retained : ManifestId(m) \in Components(n, mchunks[n])
    BY DEF Vital
  <2>2. ManifestId(m) = ManifestId(n)
    BY <1>1, <2>1, KindsApart DEF Components
  <2> QED
    BY <2>2 DEF ManifestId
<1>3. UnusedChunks \cap Vital = {}
  <2> SUFFICES ASSUME NEW c \in chunks, \A m \in manifests : c \notin mchunks[m], c \in Vital
               PROVE  FALSE
    BY DEF UnusedChunks
  <2>1. PICK n \in Retained : c \in Components(n, mchunks[n])
    BY DEF Vital
  <2> QED
    BY <1>1, <2>1, KindsApart DEF Components
<1> QED
  BY <1>2, <1>3, VitalRegistered

LEMMA CollectSpares ==
  ASSUME TypeInv, RegInv, RegInv', RetainedIntact, NEW g \in Gateways,
         Spared(g), ListKnows(g), Collect(g)
  PROVE  Gathered(g)' /\ Spared(g)' /\ ListKnows(g)'
<1>1. Vital' \subseteq Vital
  BY CollectIntact
<1>2. job'[g].pc \notin UploadPcs
  BY CollectEffect
<1>3. Gathered(g)'
  BY <1>2 DEF Gathered, PreRegister, UploadPcs
<1>4. Spared(g)'
  <2>1. CASE job'[g].pc \notin DropPcs
    <3>1. job'[g].pc = "sweep" => job'[g].ids = aged \ Registered
      BY <2>1, CollectIds DEF DropPcs
    <3> QED
      BY <1>1, <2>1, <3>1, UnusedNotVital DEF Spared, DropPcs
  <2>2. CASE job'[g].pc = "dropManifests" /\ job'[g].ids = UnusedManifests
    BY <1>1, <2>2, UnusedNotVital DEF Spared
  <2>3. CASE job'[g].pc = "dropChunks" /\ job'[g].ids = UnusedChunks
    BY <1>1, <2>3, UnusedNotVital DEF Spared
  <2>4. CASE /\ job[g].pc \in DropPcs /\ job'[g].pc \in DropPcs
             /\ job'[g].ids \subseteq job[g].ids
             /\ job'[g].pc = "dropRow" => job'[g].cur \in job[g].ids
    BY <1>1, <2>4 DEF Spared
  <2> QED
    BY <2>1, <2>2, <2>3, <2>4, CollectIds
<1>5. ListKnows(g)'
  BY CollectIds DEF ListKnows, DropPcs
<1> QED
  BY <1>3, <1>4, <1>5

LEMMA LoneUpload ==
  ASSUME TypeInv, ActiveInv, HeldInv, RegInv, RegInv', FreshInv, LoneInv, Alone,
         NEW g \in Gateways, Upload(g)
  PROVE  LoneInv'
<1>0. RetainedIntact /\ Gathered(g)
  BY DEF LoneInv
<1>1. ASSUME NEW o \in Ops, NEW p \in Paths, NEW body \in SUBSET Blobs, UploadBegin(g, o, p, body)
      PROVE  LoneInv'
  <2> DEFINE j == [IdleJob EXCEPT !.pc = "pending", !.op = o, !.path = p, !.base = FileRow(p),
                                  !.version = NextVersion(p), !.left = body]
  <2>1. /\ Become(g, j) /\ j.pc = "pending" /\ j.op = o /\ j.left = body /\ j.rows = {}
    BY <1>1 DEF UploadBegin, IdleJob
  <2> HIDE DEF j
  <2>2. job'[g] = j
    BY <2>1, BecomeEffect
  <2>3. /\ UNCHANGED <<files, versions, manifests, mchunks, chunks, cloudVars>> /\ status[o] = "NONE"
        /\ content' = [content EXCEPT ![o] = body] /\ content \in [Ops -> SUBSET Blobs]
    BY <1>1 DEF UploadBegin, TypeInv, DbInv, DbTypeOK
  <2>4. Retained' = Retained /\ o \notin Retained
    BY <2>3 DEF Retained, Current, Archived, ActiveInv, RetainedIsActive
  <2>5. \A i \in Vital : i \in objects' /\ i \in keys'
    BY <1>0, <2>3, VitalRegistered DEF cloudVars
  <2>6. \A m \in Retained' : m \in Retained /\ mchunks'[m] = mchunks[m] /\ content'[m] = content[m]
    BY <2>3, <2>4
  <2>7. RetainedIntact'
    BY <1>0, <2>3, <2>5, <2>6, IntactKept DEF RegInv
  <2>8. Gathered(g)' /\ Spared(g)' /\ ListKnows(g)'
    BY <2>1, <2>2, <2>3 DEF Gathered, Spared, ListKnows, DropPcs
  <2> QED
    BY <2>7, <2>8, AloneKept
<1>2. CASE UploadMoves(g)
  <2>1. RetainedIntact' /\ Gathered(g)'
    BY <1>0, <1>2, UploadIntact, UploadGathers
  <2>2. Spared(g)' /\ ListKnows(g)'
    BY <1>2, UploadMovesOn DEF Spared, ListKnows, DropPcs, UploadPcs
  <2> QED
    BY <2>1, <2>2, AloneKept
<1>3. CASE CommitReplace(g) \/ CommitInsert(g)
  <2>1. RetainedIntact'
    BY <1>0, <1>3, PublishIntact
  <2>2. job'[g].pc = "idle"
    BY <1>3, FinishEffect DEF CommitReplace, CommitInsert, Publish, IdleJob
  <2> QED
    BY <2>1, <2>2, RestLone, AloneKept DEF PreRegister, DropPcs
<1>4. CASE UnpinUnchanged(g) \/ UnpinFailed(g)
  <2>1. /\ job'[g].pc \in {"idle", "collect"}
        /\ UNCHANGED <<files, versions, manifests, chunks, cloudVars>>
    BY <1>4, UploadEnds
  <2>2. UNCHANGED <<mchunks, content>>
    BY <1>4 DEF UnpinUnchanged, UnpinFailed
  <2>3. RetainedIntact'
    BY <1>0, <2>1, <2>2 DEF RetainedIntact, Retained, Current, Archived, Present, cloudVars,
       Components
  <2> QED
    BY <2>1, <2>3, RestLone, AloneKept DEF PreRegister, DropPcs
<1> QED
  BY <1>1, <1>2, <1>3, <1>4, UploadCases

LEMMA LoneDeleteOrRename ==
  ASSUME TypeInv, LeaseInv, RegInv, RegInv', LoneInv, Alone,
         NEW g \in Gateways, DeleteOrRename(g)
  PROVE  LoneInv'
<1>1. job'[g].pc \in RenamePcs \cup {"idle", "delete", "collect"}
  BY DeleteOrRenameGoes
<1>2. UNCHANGED <<chunks, mchunks, content, cloudVars>>
  BY DEF DeleteOrRename, DeleteBegin, DeleteCommit, DeleteRefused, RenameBegin, PurgeTarget,
     PurgeTargetEnd, PurgeHistory, PurgeTombstone, ReadSource, SourceNotFound, Move, MoveRefused, dbVars
<1>3. Retained' \subseteq Retained
  <2>1. RetainedMove(g)
    BY DeleteOrRenameRetains
  <2>2. job[g].pc \notin {"commit", "insert"}
    BY DeleteOrRenameGoes DEF Uploading, UploadPcs
  <2> QED
    BY <2>1, <2>2 DEF RetainedMove
<1>4. RetainedIntact'
  BY <1>2, <1>3, VitalRegistered, IntactKept DEF RegInv, LoneInv, cloudVars
<1> QED
  BY <1>1, <1>4, RestLone, AloneKept DEF PreRegister, DropPcs, RenamePcs

LEMMA LoneInit == Init => LoneInv
<1> SUFFICES ASSUME Init PROVE LoneInv
  OBVIOUS
<1>1. Retained = {}
  BY DEF Init, Retained, Current, Archived, NoRow
<1>2. \A g \in Gateways : job[g].pc = "idle"
  BY DEF Init, IdleJob
<1> QED
  BY <1>1, <1>2 DEF LoneInv, RetainedIntact, Gathered, Spared, ListKnows, PreRegister, DropPcs

LEMMA LoneNext ==
  /\ TypeInv /\ ActiveInv /\ LeaseInv /\ HeldInv /\ RegInv /\ FreshInv /\ LoneInv
  /\ RegInv' /\ Alone /\ [Next]_vars
  => LoneInv'
<1> SUFFICES ASSUME TypeInv, ActiveInv, LeaseInv, HeldInv, RegInv, FreshInv, LoneInv,
                    RegInv', Alone, [Next]_vars
             PROVE  LoneInv'
  OBVIOUS
<1>1. ASSUME NEW g \in Gateways, Upload(g)
      PROVE  LoneInv'
  BY <1>1, LoneUpload
<1>2. ASSUME NEW g \in Gateways, DeleteOrRename(g)
      PROVE  LoneInv'
  BY <1>2, LoneDeleteOrRename
<1>3. ASSUME NEW g \in Gateways, Collect(g)
      PROVE  LoneInv'
  BY <1>3, CollectIntact, CollectSpares, AloneKept DEF LoneInv
<1>4. ASSUME UNCHANGED <<dbVars, objects, keys>>
      PROVE  RetainedIntact' /\ Vital' = Vital
  BY <1>4 DEF LoneInv, RetainedIntact, Retained, Current, Archived, Present, dbVars, Vital,
     Components
<1>5. ASSUME NEW g \in Gateways, Crash(g) \/ Restart(g)
      PROVE  LoneInv'
  <2> DEFINE j == [IdleJob EXCEPT !.pc = "down"]
  <2>1. /\ Become(g, j) \/ Become(g, IdleJob)
        /\ UNCHANGED <<dbVars, objects, keys>>
    BY <1>5 DEF Crash, Restart, Finish, cloudVars
  <2>2. j.pc = "down" /\ IdleJob.pc = "idle"
    BY DEF IdleJob
  <2> HIDE DEF j
  <2>3. job'[g].pc \in {"down", "idle"}
    BY <2>1, <2>2, BecomeEffect
  <2> QED
    BY <1>4, <2>1, <2>3, RestLone, AloneKept DEF PreRegister, DropPcs
<1>6. CASE GraceElapses \/ UNCHANGED vars
  <2>1. UNCHANGED <<dbVars, objects, keys, job>>
    BY <1>6 DEF GraceElapses, vars, cloudVars
  <2>2. RetainedIntact' /\ Vital' = Vital
    BY <1>4, <2>1
  <2> QED
    BY <2>1, <2>2 DEF LoneInv, Gathered, Spared, ListKnows, Present, dbVars
<1> QED
  BY <1>1, <1>2, <1>3, <1>5, <1>6 DEF Next

LEMMA LoneInvariant ==
  ASSUME Alone
  PROVE  Spec => [](TypeInv /\ LeaseInv /\ HeldInv /\ HistoryInv /\ LoneInv)
<1> DEFINE Inv == TypeInv /\ ActiveInv /\ LeaseInv /\ HeldInv /\ RegInv /\ FreshInv /\ LoneInv
<1>1. Init => Inv
  BY TypeInit, ActiveInit, LeaseInit, HeldInit, RegInit, FreshInit, LoneInit
<1>2. Inv /\ [Next]_vars => Inv'
  BY TypeNext, ActiveNext, LeaseNext, HeldNext, RegNext, FreshNext, LoneNext
     DEF RegInv, Protected
<1> QED
  BY <1>1, <1>2, HistoryInvariant, PTL DEF Spec

\* A gateway that is alone keeps every current and every archived version readable: its
\* rows are there, they list what the client sent, and every body and every key is in
\* iCloud, whatever uploads failed, collections failed half way or crashes came before.
\* With a second gateway this is false, as the run of the gc race shows.
THEOREM AloneIntact == ASSUME Alone PROVE Spec => []RetainedIntact
<1>1. LoneInv => RetainedIntact
  BY DEF LoneInv
<1> QED
  BY <1>1, LoneInvariant, PTL
---------------------------------------------------------------------------
(* History of living paths                                                 *)

\* An upload adds to the history, a delete too, a rename takes it along, and what gc
\* purges by tombstone has no file: only the three retention steps drop more.
LEMMA LiveHistoryStep ==
  ASSUME TypeInv, LeaseInv, HeldInv, HistoryInv, LoneInv, [Next]_vars,
         NEW r \in versions, files[r.path] # NoRow, r.manifest \notin Retained'
  PROVE  \E g \in Gateways : RetentionStep(g)
<1>0. /\ HistoryBelowCurrent /\ TombstonesMatch /\ PathsKnown
      /\ files \in [Paths -> Row] /\ r.path \in Paths
  BY DEF HistoryInv, TypeInv, DbInv, DbTypeOK, Version
<1>1. \A q \in versions' : q.manifest # r.manifest
  BY DEF Retained, Archived
<1>2. versions' # versions /\ r \notin versions'
  BY <1>1
<1>3. ASSUME NEW p \in Paths, files[p] # NoRow
      PROVE  versions \subseteq Archive(p, files[p])
  BY <1>0, <1>3, ArchiveAdds
<1>4. ASSUME NEW g \in Gateways, Upload(g)
      PROVE  FALSE
  <2>1. CASE CommitReplace(g) \/ CommitInsert(g)
    <3>1. /\ versions' = BaseArchived(job[g]) /\ Uploading(g) /\ job[g].path \in Paths
      BY <2>1 DEF CommitReplace, CommitInsert, Publish, Uploading, UploadPcs, TypeInv, JobInv,
         InStep
    <3>2. files[job[g].path] = job[g].base
      BY <3>1 DEF HeldInv, Held
    <3> QED
      BY <1>2, <1>3, <3>1, <3>2 DEF BaseArchived
  <2>2. CASE UploadMoves(g)
    BY <1>2, <2>2, UploadMovesOn
  <2>3. CASE UnpinUnchanged(g) \/ UnpinFailed(g)
    BY <1>2, <2>3, UploadEnds
  <2>4. ASSUME NEW o \in Ops, NEW p \in Paths, NEW body \in SUBSET Blobs,
               UploadBegin(g, o, p, body)
        PROVE  FALSE
    BY <1>2, <2>4 DEF UploadBegin
  <2> QED
    BY <1>4, <2>1, <2>2, <2>3, <2>4, UploadCases
<1>5. ASSUME NEW g \in Gateways, DeleteOrRename(g)
      PROVE  FALSE
  <2>1. CASE DeleteCommit(g)
    <3>1. /\ job[g].path \in Paths /\ job[g].base # NoRow /\ files[job[g].path] = job[g].base
          /\ versions' = Archive(job[g].path, job[g].base)
      BY <2>1 DEF DeleteCommit, TypeInv, JobInv, InStep, LeaseInv, ReadHolds
    <3> QED
      BY <1>2, <1>3, <3>1
  <2>2. CASE Move(g)
    <3>1. [r EXCEPT !.path = job[g].dst].manifest = r.manifest
      BY DEF TypeInv, DbInv, DbTypeOK, Version
    <3> QED
      BY <1>1, <2>2, <3>1 DEF Move, HistoryOf
  <2>3. CASE PurgeTargetEnd(g)
    <3>1. files[job[g].dst] = NoRow /\ versions' = versions \ HistoryOf(job[g].dst)
      BY <1>0, <2>3 DEF PurgeTargetEnd, PurgeTombstone, PathsKnown, PurgeKnows, HeldInv, Held,
         RenamePcs
    <3> QED
      BY <1>2, <3>1 DEF HistoryOf
  <2>4. CASE ~DeleteCommit(g) /\ ~Move(g) /\ ~PurgeTargetEnd(g)
    BY <1>2, <1>5, <2>4 DEF DeleteOrRename, DeleteBegin, DeleteRefused, RenameBegin, PurgeTarget,
       PurgeHistory, ReadSource, SourceNotFound, MoveRefused, dbVars
  <2> QED
    BY <2>1, <2>2, <2>3, <2>4
<1>6. ASSUME NEW g \in Gateways, Collect(g)
      PROVE  RetentionStep(g)
  <2>0. job[g] \in Job
    BY DEF TypeInv, JobInv
  <2>1. CASE GcBegin(g)
    <3> DEFINE j == [IdleJob EXCEPT !.pc = "limit", !.next = "scan",
                                    !.todo = {p \in Paths : files[p] # NoRow}]
    <3>1. Become(g, j) /\ j.pc = "limit" /\ job[g].pc = "idle"
      BY <2>1 DEF GcBegin, IdleJob
    <3> HIDE DEF j
    <3> QED
      BY <3>1, BecomeEffect DEF RetentionStep
  <2>2. ASSUME NEW p \in Paths, GcLimit(g, p)
        PROVE  RetentionStep(g)
    <3> DEFINE j == [job[g] EXCEPT !.todo = @ \ {p}]
    <3>1. Become(g, j) /\ j.pc = "limit" /\ job[g].pc = "limit"
      BY <2>0, <2>2 DEF GcLimit, Job
    <3> HIDE DEF j
    <3> QED
      BY <3>1, BecomeEffect DEF RetentionStep
  <2>3. CASE GcCapacity(g)
    BY <2>3, GotoEffect DEF GcCapacity, RetentionStep
  <2>4. CASE GcPurgeEnd(g)
    <3> DEFINE p == job[g].purge.path
    <3>1. p \in deleted
      BY <2>4 DEF GcPurgeEnd, LoneInv, ListKnows
    <3>2. files[p] = NoRow /\ versions' = versions \ HistoryOf(p)
      BY <1>0, <2>4, <3>1 DEF GcPurgeEnd, PurgeTombstone, TombstonesMatch, PathsKnown, PurgeKnows
    <3> QED
      BY <1>2, <3>2 DEF HistoryOf
  <2>5. CASE ~GcBegin(g) /\ ~GcCapacity(g) /\ ~GcPurgeEnd(g) /\ \A p \in Paths : ~GcLimit(g, p)
    BY <1>2, <1>6, <2>5 DEF Collect, GcListDeleted, GcPurge, PurgeHistory, SelectManifests,
       SelectChunks, DropRemote, DropRemoteFails, DropRow, CollectDone, ScanKnown, Sweep,
       SweepFails, dbVars
  <2> QED
    BY <2>1, <2>2, <2>3, <2>4, <2>5
<1>7. CASE GraceElapses \/ UNCHANGED vars \/ \E g \in Gateways : Crash(g) \/ Restart(g)
  BY <1>2, <1>7 DEF GraceElapses, vars, dbVars, Crash, Restart
<1> QED
  BY <1>4, <1>5, <1>6, <1>7 DEF Next

\* When a gateway is alone, the history of a path that has a file goes only in the three
\* retention steps of its gc (age, version limit, capacity): no upload, no delete, no
\* rename and no purge of tombstones takes a version of it.  With a second gateway the
\* tombstones that gc has listed can be stale when it purges them.
THEOREM LiveHistoryStays == ASSUME Alone PROVE Spec => LiveHistoryKept
<1> DEFINE Inv == TypeInv /\ LeaseInv /\ HeldInv /\ HistoryInv /\ LoneInv
           Kept == \A r \in versions :
                      files[r.path] # NoRow /\ r.manifest \notin Retained'
                          => \E g \in Gateways : RetentionStep(g)
<1>1. Inv /\ [Next]_vars => Kept
  BY LiveHistoryStep
<1>2. Spec => []Inv
  BY LoneInvariant
<1> HIDE DEF Inv
<1>3. Inv /\ [Next]_vars => [Kept]_vars
  BY <1>1
<1> HIDE DEF Kept
<1>4. Spec => [][Kept]_vars
  BY <1>2, <1>3, PTL DEF Spec
<1> QED
  BY <1>4 DEF LiveHistoryKept, Kept
---------------------------------------------------------------------------
(* Vault implements Drive                                                  *)

\* The state of Drive that a state of Vault stands for.
CurrentUpload == [p \in Paths |-> files[p].manifest]
PastUploads == [p \in Paths |-> {r.manifest : r \in HistoryOf(p)}]
SentBody == [o \in Ops |-> IF status[o] = "ACTIVE" THEN <<content[o]>> ELSE <<>>]

\* Whatever leaves files and bodies alone and adds no history is invisible, or forgets.
LEMMA DriveForgets ==
  ASSUME files' = files, versions' \subseteq versions, SentBody' = SentBody
  PROVE  Abstract!Next
<1>1. CurrentUpload' = CurrentUpload
  BY DEF CurrentUpload
<1>2. \A p \in Paths : PastUploads'[p] \subseteq PastUploads[p]
  BY DEF PastUploads, HistoryOf
<1>3. PastUploads' = [p \in Paths |-> PastUploads'[p]]
  BY DEF PastUploads
<1>4. Abstract!Forget
  BY <1>1, <1>2, <1>3 DEF Abstract!Forget, CurrentUpload, PastUploads, SentBody
<1> QED
  BY <1>4 DEF Abstract!Next

\* The record of an upload that is under way stands for nothing.
LEMMA BodiesStay ==
  ASSUME TypeInv, NEW o \in Ops, status[o] # "ACTIVE", status'[o] # "ACTIVE",
         \A m \in Ops \ {o} : status'[m] = status[m] /\ content'[m] = content[m]
  PROVE  SentBody' = SentBody
  BY DEF SentBody

\* Its acknowledgement shows what it sent.
LEMMA BodyAcknowledged ==
  ASSUME TypeInv, NEW o \in Ops, status[o] # "ACTIVE",
         status' = [status EXCEPT ![o] = "ACTIVE"], content' = content
  PROVE  /\ SentBody[o] = <<>>
         /\ SentBody' = [SentBody EXCEPT ![o] = <<content[o]>>]
         /\ <<content[o]>> \in Abstract!Bodies
<1>1. /\ status \in [Ops -> Status] /\ content[o] \in SUBSET Blobs
  BY DEF TypeInv, DbInv, DbTypeOK
<1>2. \A m \in Ops : status'[m] = IF m = o THEN "ACTIVE" ELSE status[m]
  BY <1>1
<1>3. SentBody' = [SentBody EXCEPT ![o] = <<content[o]>>]
  BY <1>2 DEF SentBody
<1> QED
  BY <1>1, <1>3 DEF SentBody, Abstract!Bodies

\* A body that equals the current one is acknowledged and changes nothing.
LEMMA DrivePutUnchanged ==
  ASSUME TypeInv, ActiveInv, HeldInv, RegInv, NEW g \in Gateways, FinishUnchanged(g)
  PROVE  Abstract!Next
<1>0. PICK p \in Paths, o \in Ops, b \in Row :
         p = job[g].path /\ o = job[g].op /\ b = job[g].base
  BY DEF FinishUnchanged, UploadPcs, TypeInv, JobInv, InStep, Job
<1>1. /\ Open(g) /\ Uploading(g)
      /\ b.manifest # None /\ content[b.manifest] = content[o]
      /\ status' = [status EXCEPT ![o] = "ACTIVE"]
      /\ UNCHANGED <<files, versions, content>>
  BY <1>0 DEF FinishUnchanged, SameAsBase, ContentOf, Open, Uploading, UploadPcs
<1>2. status[o] # "ACTIVE"
  BY <1>0, <1>1 DEF RegInv, OwnStatus, InProgress
<1>3. files[p] = b /\ b # NoRow
  BY <1>0, <1>1 DEF HeldInv, Held, NoRow
<1>4. b.manifest \in Ops /\ status[b.manifest] = "ACTIVE"
  BY <1>0, <1>3 DEF ActiveInv, BaseActive, Row
<1>5. /\ SentBody[o] = <<>> /\ SentBody' = [SentBody EXCEPT ![o] = <<content[o]>>]
      /\ <<content[o]>> \in Abstract!Bodies
  BY <1>1, <1>2, BodyAcknowledged
<1>6. CurrentUpload[p] = b.manifest /\ SentBody[b.manifest] = <<content[o]>>
  BY <1>1, <1>3, <1>4 DEF CurrentUpload, SentBody
<1>7. CurrentUpload' = CurrentUpload /\ PastUploads' = PastUploads
  BY <1>1 DEF CurrentUpload, PastUploads, HistoryOf
<1>8. PICK c \in Abstract!Bodies : c = <<content[o]>>
  BY <1>5
<1>9. Abstract!PutUnchanged(p, o, c)
  BY <1>1, <1>5, <1>6, <1>7, <1>8
     DEF Abstract!PutUnchanged, Abstract!Acknowledge, Abstract!NoBody, CurrentUpload, PastUploads,
         SentBody
<1> QED
  BY <1>9 DEF Abstract!Next

\* The current version of p joins the history of p, and one that was there may go.
SupersededAt(p) ==
    \E lost \in (PastUploads[p] \ {CurrentUpload[p]}) \cup {None} :
        PastUploads' =
            [PastUploads EXCEPT
                ![p] = (PastUploads[p] \cup ({CurrentUpload[p]} \ {None})) \ {lost}]

\* The row a job archives joins the history of its path, and of no other.  It may meet the
\* row of its version that a purge has left there, and replaces it; there is one at most.
LEMMA DriveArchives ==
  ASSUME TypeInv, KeysUnique, NEW p \in Paths,
         versions' = IF files[p] = NoRow THEN versions ELSE Archive(p, files[p])
  PROVE  SupersededAt(p)
<1> DEFINE m == files[p].manifest
           same == {r \in HistoryOf(p) : r.version = files[p].version}
           rest == {r.manifest : r \in HistoryOf(p) \ same}
<1>1. files[p] \in Row /\ versions \subseteq Version
  BY DEF TypeInv, DbInv, DbTypeOK
<1>2. CurrentUpload[p] = m /\ None \notin PastUploads[p]
  BY <1>1, NoneIsNoValue DEF CurrentUpload, PastUploads, HistoryOf, Version
<1>3. CASE files[p] = NoRow
  <2>1. PastUploads' = PastUploads /\ m = None
    BY <1>3 DEF PastUploads, HistoryOf, NoRow
  <2>2. PastUploads = [PastUploads EXCEPT ![p] = (PastUploads[p] \cup ({m} \ {None})) \ {None}]
    BY <1>2, <2>1 DEF PastUploads
  <2> QED
    BY <1>2, <2>1, <2>2 DEF SupersededAt
<1>4. CASE files[p] # NoRow
  <2>1. m \in Ops /\ m # None
    BY <1>1, <1>4, NoneIsNoValue DEF Row
  <2>2. \A q \in Paths \ {p} : HistoryOf(q)' = HistoryOf(q)
    BY <1>4 DEF HistoryOf, Archive
  <2>3. HistoryOf(p)' = (HistoryOf(p) \ same)
                          \cup {[path |-> p, version |-> files[p].version, manifest |-> m]}
    BY <1>4 DEF HistoryOf, Archive
  <2>4. PastUploads'[p] = rest \cup {m}
    <3> DEFINE a == [path |-> p, version |-> files[p].version, manifest |-> m]
    <3>1. PastUploads'[p] = {r.manifest : r \in HistoryOf(p)'}
      BY DEF PastUploads
    <3>2. a.manifest = m /\ HistoryOf(p)' = (HistoryOf(p) \ same) \cup {a}
      BY <2>3
    <3> HIDE DEF a, m, same
    <3> QED
      BY <3>1, <3>2
  <2>5. \A q \in Paths \ {p} : PastUploads'[q] = PastUploads[q]
    BY <2>2 DEF PastUploads
  <2>6. ASSUME NEW lost \in (PastUploads[p] \ {m}) \cup {None},
               rest \cup {m} = (PastUploads[p] \cup {m}) \ {lost}
        PROVE  SupersededAt(p)
    <3>1. PastUploads' = [PastUploads EXCEPT
                            ![p] = (PastUploads[p] \cup ({m} \ {None})) \ {lost}]
      BY <2>1, <2>4, <2>5, <2>6 DEF PastUploads
    <3> QED
      BY <1>2, <2>6, <3>1 DEF SupersededAt
  <2>7. rest \subseteq PastUploads[p]
    BY DEF PastUploads
  <2>8. \A x, y \in same : x = y
    BY DEF KeysUnique, HistoryOf
  <2>9. CASE \E x \in same : x.manifest \notin rest \cup {m}
    <3>1. PICK x \in same : x.manifest \notin rest \cup {m}
      BY <2>9
    <3>2. PastUploads[p] = rest \cup {x.manifest}
      BY <2>8 DEF PastUploads
    <3> HIDE DEF m, rest, same
    <3>3. rest \cup {m} = (PastUploads[p] \cup {m}) \ {x.manifest}
      BY <3>1, <3>2
    <3> QED
      BY <2>6, <3>1, <3>2, <3>3
  <2>10. CASE \A x \in same : x.manifest \in rest \cup {m}
    <3>1. PastUploads[p] \subseteq rest \cup {m}
      BY <2>10 DEF PastUploads
    <3> HIDE DEF m, rest, same
    <3>2. rest \cup {m} = (PastUploads[p] \cup {m}) \ {None}
      BY <1>2, <2>1, <2>7, <3>1
    <3> QED
      BY <2>6, <3>2
  <2> QED
    BY <2>9, <2>10
<1> QED
  BY <1>3, <1>4

\* A commit is a Put.
LEMMA DrivePut ==
  ASSUME TypeInv, ActiveInv, HeldInv, RegInv, KeysUnique, NEW g \in Gateways,
         CommitReplace(g) \/ CommitInsert(g)
  PROVE  Abstract!Next
<1>0. PICK p \in Paths, o \in Ops : p = job[g].path /\ o = job[g].op
  BY DEF CommitReplace, CommitInsert, UploadPcs, TypeInv, JobInv, InStep
<1>1. /\ Open(g) /\ Uploading(g) /\ files \in [Paths -> Row]
      /\ Publish(g)
  BY DEF CommitReplace, CommitInsert, Open, Uploading, UploadPcs, TypeInv, DbInv, DbTypeOK
<1>2. status[o] # "ACTIVE"
  BY <1>0, <1>1 DEF RegInv, OwnStatus, InProgress
<1>3. files[p] = job[g].base
  BY <1>0, <1>1 DEF HeldInv, Held
<1>4. /\ files' = [files EXCEPT ![p] = [manifest |-> o, version |-> job[g].version]]
      /\ versions' = IF files[p] = NoRow THEN versions ELSE Archive(p, files[p])
      /\ status' = [status EXCEPT ![o] = "ACTIVE"] /\ content' = content
  BY <1>0, <1>1, <1>3 DEF Publish, BaseArchived
<1>5. /\ SentBody[o] = <<>> /\ SentBody' = [SentBody EXCEPT ![o] = <<content[o]>>]
      /\ <<content[o]>> \in Abstract!Bodies
  BY <1>1, <1>2, <1>4, BodyAcknowledged
<1>6. CurrentUpload' = [CurrentUpload EXCEPT ![p] = o]
  BY <1>1, <1>4 DEF CurrentUpload
<1>7. SupersededAt(p)
  BY <1>1, <1>4, DriveArchives
<1>8. PICK b \in Abstract!Bodies : b = <<content[o]>>
  BY <1>5
<1>9. Abstract!Put(p, o, b)
  BY <1>5, <1>6, <1>7, <1>8
     DEF Abstract!Put, Abstract!Acknowledge, Abstract!NoBody, Abstract!Supersede, SupersededAt,
         Abstract!Superseded, CurrentUpload, PastUploads, SentBody
<1> QED
  BY <1>9 DEF Abstract!Next

LEMMA DriveUpload ==
  ASSUME TypeInv, ActiveInv, HeldInv, RegInv, KeysUnique, NEW g \in Gateways, Upload(g)
  PROVE  Abstract!Next
<1>0. status \in [Ops -> Status] /\ content \in [Ops -> SUBSET Blobs]
  BY DEF TypeInv, DbInv, DbTypeOK
<1>1. ASSUME NEW o \in Ops, NEW p \in Paths, NEW body \in SUBSET Blobs, UploadBegin(g, o, p, body)
      PROVE  Abstract!Next
  <2>1. /\ status' = [status EXCEPT ![o] = "PENDING"] /\ status[o] = "NONE"
        /\ content' = [content EXCEPT ![o] = body] /\ UNCHANGED <<files, versions>>
    BY <1>1 DEF UploadBegin
  <2>2. SentBody' = SentBody
    BY <1>0, <2>1, BodiesStay
  <2> QED
    BY <2>1, <2>2, DriveForgets
<1>2. CASE UploadMoves(g) /\ ~FinishUnchanged(g)
  <2>1. /\ Uploading(g) /\ UNCHANGED <<files, versions>>
    BY <1>2, UploadMovesOn
  <2>2. CASE UNCHANGED <<status, content>>
    BY <2>1, <2>2, DriveForgets DEF SentBody
  <2>3. CASE UploadStart(g) \/ RegisterManifest(g) \/ MarkFailed(g)
    <3>1. /\ Open(g) /\ job[g].op \in Ops
      BY <2>3 DEF UploadStart, RegisterManifest, MarkFailed, Open, Uploading, UploadPcs, TypeInv,
         JobInv, InStep
    <3>2. status[job[g].op] # "ACTIVE"
      BY <3>1 DEF RegInv, OwnStatus, InProgress
    <3>3. /\ \E s \in Status \ {"ACTIVE"} : status' = [status EXCEPT ![job[g].op] = s]
          /\ content' = content
      BY <2>3 DEF UploadStart, RegisterManifest, MarkFailed, Status, InProgress
    <3>4. SentBody' = SentBody
      BY <1>0, <3>1, <3>2, <3>3, BodiesStay
    <3> QED
      BY <2>1, <3>4, DriveForgets
  <2>4. UNCHANGED <<status, content>> \/ UploadStart(g) \/ RegisterManifest(g) \/ MarkFailed(g)
    BY <1>2 DEF UploadMoves, ReadChunk, BodyEndsEarly, PutObject, PutObjectFails, PutKey,
       PutKeyFails, InsertChunk, InsertChunkRefused, PinChunk, StoreManifest, Verify, VerifyFails,
       CommitSeesNoRow, CommitRefused, dbVars
  <2> QED
    BY <2>2, <2>3, <2>4
<1>3. CASE UnpinUnchanged(g) \/ UnpinFailed(g)
  BY <1>3, DriveForgets DEF UnpinUnchanged, UnpinFailed, SentBody
<1> QED
  BY <1>1, <1>2, <1>3, UploadCases, DrivePutUnchanged, DrivePut

LEMMA DriveDelete ==
  ASSUME TypeInv, LeaseInv, KeysUnique, NEW g \in Gateways, DeleteCommit(g)
  PROVE  Abstract!Next
<1>0. PICK p \in Paths : p = job[g].path
  BY DEF DeleteCommit, TypeInv, JobInv, InStep
<1>1. /\ files[p] # NoRow /\ files[p] = job[g].base /\ files \in [Paths -> Row]
  BY <1>0 DEF DeleteCommit, TypeInv, DbInv, DbTypeOK, JobInv, InStep, LeaseInv, ReadHolds
<1>2. /\ files' = [files EXCEPT ![p] = NoRow]
      /\ versions' = IF files[p] = NoRow THEN versions ELSE Archive(p, files[p])
      /\ UNCHANGED <<status, content>>
  BY <1>0, <1>1 DEF DeleteCommit
<1>3. CurrentUpload' = [CurrentUpload EXCEPT ![p] = None] /\ CurrentUpload[p] # None
  BY <1>1, <1>2, NoneIsNoValue DEF CurrentUpload, NoRow, Row
<1>4. SupersededAt(p)
  BY <1>1, <1>2, DriveArchives
<1>5. SentBody' = SentBody
  BY <1>2 DEF SentBody
<1>6. Abstract!Delete(p)
  BY <1>3, <1>4, <1>5 DEF Abstract!Delete, Abstract!Supersede, SupersededAt, Abstract!Superseded,
     CurrentUpload, PastUploads, SentBody
<1> QED
  BY <1>1, <1>6 DEF Abstract!Next

LEMMA DriveRename ==
  ASSUME TypeInv, HeldInv, NEW g \in Gateways, Move(g)
  PROVE  Abstract!Next
<1>0. PICK s \in Paths, d \in Paths : s = job[g].path /\ d = job[g].dst
  BY DEF Move, TypeInv, JobInv, InStep, RenamePcs
<1>1. /\ files \in [Paths -> Row] /\ versions \subseteq Version
  BY DEF TypeInv, DbInv, DbTypeOK
<1>2. files[s] # NoRow /\ files[d] = NoRow
  BY <1>0 DEF Move, HeldInv, Held, RenamePcs
<1>3. s # d
  BY <1>2
<1>4. /\ files' = [files EXCEPT ![s] = NoRow, ![d] = files[s]]
      /\ versions' = (versions \ HistoryOf(s)) \cup {[r EXCEPT !.path = d] : r \in HistoryOf(s)}
      /\ UNCHANGED <<status, content>>
  BY <1>0, <1>2 DEF Move
<1>5. \A q \in Paths : files'[q] = IF q = d THEN files[s] ELSE IF q = s THEN NoRow ELSE files[q]
  BY <1>1, <1>3, <1>4
<1>6. CurrentUpload' = [CurrentUpload EXCEPT ![d] = CurrentUpload[s], ![s] = None]
  <2>1. \A q \in Paths : CurrentUpload'[q] = IF q = d THEN CurrentUpload[s]
                                             ELSE IF q = s THEN None ELSE CurrentUpload[q]
    BY <1>5 DEF CurrentUpload, NoRow
  <2> QED
    BY <1>3, <2>1 DEF CurrentUpload
<1>7. /\ CurrentUpload[s] # None /\ CurrentUpload[d] = None
  BY <1>1, <1>2, NoneIsNoValue DEF CurrentUpload, NoRow, Row
<1>9. PastUploads' = [PastUploads EXCEPT ![d] = PastUploads[s] \cup PastUploads[d], ![s] = {}]
  <2>1. \A r \in HistoryOf(s) : /\ [r EXCEPT !.path = d].path = d
                                /\ [r EXCEPT !.path = d].manifest = r.manifest
    BY <1>1 DEF HistoryOf, Version
  <2> DEFINE Moved == {[r EXCEPT !.path = d] : r \in HistoryOf(s)}
  <2>2. /\ \A t \in Moved : t.path = d
        /\ {t.manifest : t \in Moved} = {r.manifest : r \in HistoryOf(s)}
    BY <2>1
  <2>3. versions' = (versions \ HistoryOf(s)) \cup Moved
    BY <1>4
  <2> HIDE DEF Moved
  <2>4. HistoryOf(s)' = {}
    BY <1>3, <2>2, <2>3 DEF HistoryOf
  <2>5. HistoryOf(d)' = Moved \cup HistoryOf(d)
    BY <1>3, <2>2, <2>3 DEF HistoryOf
  <2>6. \A q \in Paths : q # s /\ q # d => HistoryOf(q)' = HistoryOf(q)
    BY <2>2, <2>3 DEF HistoryOf
  <2>7. PastUploads'[s] = {} /\ PastUploads'[d] = PastUploads[s] \cup PastUploads[d]
    BY <1>1, <2>2, <2>4, <2>5 DEF PastUploads
  <2>8. \A q \in Paths : q # s /\ q # d => PastUploads'[q] = PastUploads[q]
    BY <2>6 DEF PastUploads
  <2> QED
    BY <1>1, <1>3, <2>7, <2>8 DEF PastUploads
<1>10. SentBody' = SentBody
  BY <1>4 DEF SentBody
<1>11. Abstract!Rename(s, d)
  BY <1>3, <1>6, <1>7, <1>9, <1>10
     DEF Abstract!Rename, CurrentUpload, PastUploads, SentBody
<1> QED
  BY <1>1, <1>11 DEF Abstract!Next

LEMMA DriveInit == Init => Abstract!Init
<1> SUFFICES ASSUME Init PROVE Abstract!Init
  OBVIOUS
<1>1. CurrentUpload = [p \in Paths |-> None]
  BY DEF Init, CurrentUpload, NoRow
<1>2. PastUploads = [p \in Paths |-> {}]
  BY DEF Init, PastUploads, HistoryOf
<1>3. SentBody = [o \in Ops |-> <<>>]
  BY DEF Init, SentBody
<1> QED
  BY <1>1, <1>2, <1>3 DEF Abstract!Init, Abstract!NoBody, CurrentUpload, PastUploads, SentBody

LEMMA DriveNext ==
  ASSUME TypeInv, ActiveInv, LeaseInv, HeldInv, RegInv, KeysUnique, [Next]_vars
  PROVE  Abstract!Next
<1>1. ASSUME NEW g \in Gateways, Upload(g)
      PROVE  Abstract!Next
  BY <1>1, DriveUpload
<1>2. ASSUME NEW g \in Gateways, DeleteOrRename(g)
      PROVE  Abstract!Next
  <2>1. CASE ~DeleteCommit(g) /\ ~Move(g)
    <3>1. /\ files' = files /\ versions' \subseteq versions /\ UNCHANGED <<status, content>>
      BY <1>2, <2>1 DEF DeleteOrRename, DeleteBegin, DeleteRefused, RenameBegin, PurgeTarget,
         PurgeTargetEnd, PurgeHistory, PurgeTombstone, ReadSource, SourceNotFound, MoveRefused, dbVars
    <3> QED
      BY <3>1, DriveForgets DEF SentBody
  <2> QED
    BY <2>1, DriveDelete, DriveRename
<1>3. ASSUME NEW g \in Gateways, Collect(g)
      PROVE  Abstract!Next
  BY <1>3, CollectHistory, DriveForgets DEF SentBody
<1>4. CASE GraceElapses \/ UNCHANGED vars \/ \E g \in Gateways : Crash(g) \/ Restart(g)
  BY <1>4, DriveForgets DEF SentBody, GraceElapses, vars, dbVars, Crash, Restart
<1> QED
  BY <1>1, <1>2, <1>3, <1>4 DEF Next

\* As long as the leases hold, and always when a gateway is alone, the store implements
\* Drive: a PUT, a DELETE and a MOVE take effect in the one step that commits them, a PUT
\* of the current body changes nothing, and every other step of an operation, of a
\* collection, of a failure or of a crash is invisible or forgets history.
THEOREM VaultImplementsDrive == ASSUME Protected PROVE Spec => ImplementsDrive
<1> DEFINE Inv == TypeInv /\ ActiveInv /\ LeaseInv /\ HeldInv /\ RegInv /\ KeysUnique
<1>1. Spec => []Inv
  BY ProtectedInvariant
<1>2. Inv /\ [Next]_vars => [Abstract!Next]_(Abstract!vars)
  BY DriveNext
<1> HIDE DEF Inv
<1> QED
  BY <1>1, <1>2, DriveInit, PTL DEF Spec, ImplementsDrive, Abstract!Spec
=============================================================================
