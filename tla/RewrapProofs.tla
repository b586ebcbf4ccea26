------------------------------ MODULE RewrapProofs ------------------------------
(***************************************************************************)
(* Theorems about the module Rewrap, for any objects, any other clients of *)
(* the broker and any limits.                                              *)
(***************************************************************************)
EXTENDS Rewrap, KeyBrokerProofs

Writing == job.pc \in {"temporary", "delete", "rename"}
Busy == Calling \/ Writing

\* The capsules that the pass of the command through the rows has left behind.
Passed == {o \in live \ job.todo : ~(Busy /\ job.object = o)}

---------------------------------------------------------------------------
(* The invariant.                                                          *)

RowInv ==
  /\ live \subseteq Objects
  /\ capsule \in [Objects -> SUBSET Capsule]
  /\ temporary \in [Objects -> SUBSET Capsule]
  /\ verified \subseteq Objects
  /\ gateway \in Keys \cup {"stopped"}
  /\ finalizing \in BOOLEAN
  /\ \A o \in Objects : \A c, d \in capsule[o] : c = d

JobInv ==
  /\ job \in Job
  /\ gateway # "stopped" => Ended
  /\ Ended => job.todo = {} /\ job.phase = "append"
  /\ job.todo \subseteq live
  /\ Busy => job.object \in live
  /\ Calling => job.content \in capsule[job.object]
  /\ At("wrap") => job.phase = "append"
  /\ Busy /\ ~At("wrap") => "new" \in job.content

\* What an overwrite is about to leave is safe under its temporary name.
WriteInv ==
  /\ Writing /\ job.phase = "finalize" => job.content = {"new"}
  /\ Writing /\ job.phase = "append" => finalizing \/ "old" \in job.content
  /\ job.pc \in {"delete", "rename"} =>
        /\ job.content \in temporary[job.object]
        /\ job.phase = "finalize" => finalizing

\* The old key opens everything until a wrap is removed, the new one from then on.
KeyInv ==
  /\ gateway = "old" => ~finalizing
  /\ gateway # "new" /\ ~finalizing => \A o \in live : \A c \in capsule[o] : "old" \in c
  /\ gateway # "new" /\ finalizing => \A o \in live : \A c \in capsule[o] : "new" \in c
  /\ gateway = "new" => \A o \in live : capsule[o] = {{"new"}}

PassInv ==
  /\ ~Ended => \A o \in Passed : \A c \in capsule[o] : "new" \in c
  /\ job.phase = "finalize" => \A o \in live : \A c \in capsule[o] : "new" \in c
  /\ job.phase = "finalize" => \A o \in Passed : capsule[o] = {{"new"}}

CommandInv == RowInv /\ JobInv /\ WriteInv /\ KeyInv /\ PassInv

LEMMA RewrapInitInv == RewrapInit => CommandInv
<1> SUFFICES ASSUME RewrapInit PROVE CommandInv
  OBVIOUS
<1>1. job = NoJob /\ job.pc = "none" /\ job.todo = {} /\ job.phase = "append"
  BY DEF RewrapInit, NoJob
<1>2. job \in Job
  BY <1>1 DEF NoJob, Job, Capsule, Keys
<1>3. Ended /\ ~Busy /\ ~Writing /\ ~Calling
  BY <1>1 DEF Ended, Busy, Writing, Calling
<1>4. RowInv
  BY DEF RewrapInit, RowInv, Capsule, Keys
<1> QED
  BY <1>1, <1>2, <1>3, <1>4 DEF RewrapInit, CommandInv, JobInv, WriteInv, KeyInv, PassInv, At

---------------------------------------------------------------------------
(* The gateway.                                                            *)

\* Whatever ends the command leaves the rows to the next run.
LEMMA Stopping ==
  ASSUME CommandInv, job' \in {NoJob, [NoJob EXCEPT !.pc = "cut"]},
         UNCHANGED <<live, capsule, temporary, gateway, finalizing>>, verified' \subseteq Objects
  PROVE  CommandInv'
<1>1. job'.pc \in {"none", "cut"} /\ job'.todo = {} /\ job'.phase = "append" /\ job' \in Job
  <2>1. job' = NoJob \/ job' = [NoJob EXCEPT !.pc = "cut"]
    OBVIOUS
  <2>2. NoJob.todo = {} /\ NoJob.phase = "append" /\ NoJob.pc = "none"
        /\ NoJob \in Job
    BY DEF NoJob, Job, Capsule, Keys
  <2> QED
    BY <2>1, <2>2 DEF Job
<1>2. Ended' /\ ~Busy' /\ ~Writing' /\ ~Calling' /\ ~At("wrap")' /\ job'.pc \notin {"delete", "rename"}
  BY <1>1 DEF Ended, Busy, Writing, Calling, At
<1>3. RowInv'
  BY DEF CommandInv, RowInv
<1>4. JobInv'
  BY <1>1, <1>2 DEF JobInv
<1>5. KeyInv'
  BY DEF CommandInv, KeyInv
<1>6. WriteInv' /\ PassInv'
  BY <1>1, <1>2 DEF WriteInv, PassInv
<1> QED
  BY <1>3, <1>4, <1>5, <1>6 DEF CommandInv

LEMMA Idling ==
  ASSUME CommandInv, gateway # "stopped", job' = job, RowInv', KeyInv'
  PROVE  CommandInv'
<1>1. Ended /\ job.todo = {} /\ job.phase = "append"
  BY DEF CommandInv, JobInv
<1>2. ~Busy' /\ ~Writing' /\ ~Calling' /\ ~At("wrap")' /\ Ended' /\ job'.pc \notin {"delete", "rename"}
  BY <1>1 DEF Ended, Busy, Writing, Calling, At
<1> QED
  BY <1>1, <1>2 DEF CommandInv, JobInv, WriteInv, PassInv

LEMMA Running ==
  ASSUME CommandInv, NEW o \in Objects, Store(o) \/ Drop(o) \/ ScanRemote
  PROVE  CommandInv'
<1>1. CASE Store(o)
  <2>1. {gateway} \in Capsule /\ gateway \in Keys
    BY <1>1 DEF Store, CommandInv, RowInv, Capsule, Keys
  <2>2. capsule' \in [Objects -> SUBSET Capsule] /\ capsule'[o] = {{gateway}}
        /\ \A p \in Objects \ {o} : capsule'[p] = capsule[p]
    BY <1>1, <2>1 DEF Store, CommandInv, RowInv
  <2>3. RowInv'
    BY <1>1, <2>2 DEF Store, CommandInv, RowInv
  <2>4. KeyInv'
    BY <1>1, <2>1, <2>2 DEF Store, CommandInv, RowInv, KeyInv, Keys
  <2> QED
    BY <1>1, <2>3, <2>4, Idling DEF Store
<1>2. CASE Drop(o)
  <2>1. capsule' \in [Objects -> SUBSET Capsule] /\ capsule'[o] = {}
        /\ \A p \in Objects \ {o} : capsule'[p] = capsule[p]
    BY <1>2 DEF Drop, CommandInv, RowInv
  <2>2. RowInv'
    BY <1>2, <2>1 DEF Drop, CommandInv, RowInv
  <2>3. KeyInv'
    BY <1>2, <2>1 DEF Drop, CommandInv, RowInv, KeyInv
  <2> QED
    BY <1>2, <2>2, <2>3, Idling DEF Drop
<1>3. CASE ScanRemote
  <2>1. RowInv' /\ KeyInv'
    BY <1>3 DEF ScanRemote, CommandInv, RowInv, KeyInv
  <2> QED
    BY <1>3, <2>1, Idling DEF ScanRemote
<1> QED
  BY <1>1, <1>2, <1>3

LEMMA Switching ==
  ASSUME CommandInv, Stop \/ GoOnWithOld
  PROVE  CommandInv'
<1>1. Ended /\ job.todo = {} /\ job.phase = "append"
  BY DEF Stop, GoOnWithOld, CommandInv, JobInv
<1>2. ~Busy' /\ ~Writing' /\ ~Calling' /\ ~At("wrap")' /\ Ended' /\ job'.pc \notin {"delete", "rename"}
  BY <1>1 DEF Ended, Busy, Writing, Calling, At, Stop, GoOnWithOld
<1>3. job' = job
  BY DEF Stop, GoOnWithOld
<1>4. RowInv' /\ KeyInv'
  BY DEF Stop, GoOnWithOld, CommandInv, RowInv, KeyInv, Keys
<1>5. JobInv' /\ WriteInv' /\ PassInv'
  BY <1>1, <1>2, <1>3, <1>4 DEF CommandInv, JobInv, WriteInv, PassInv, RowInv
<1> QED
  BY <1>4, <1>5 DEF CommandInv

---------------------------------------------------------------------------
(* The command.                                                            *)

\* A step that keeps the capsules and does not take the command into an overwrite.
LEMMA Reading ==
  ASSUME CommandInv, UNCHANGED <<live, capsule, temporary, gateway, finalizing>>,
         verified' \subseteq Objects, gateway = "stopped",
         job' \in Job, ~Ended', job'.phase = job.phase, job'.todo \subseteq live,
         Busy' => job'.object \in live, Calling' => job'.content \in capsule[job'.object],
         At("wrap")' => job'.phase = "append", Busy' /\ ~At("wrap")' => "new" \in job'.content,
         ~Writing', ~Ended,
         \A o \in Passed' : \/ o \in Passed
                            \/ job.phase = "append" /\ \A c \in capsule[o] : "new" \in c
  PROVE  CommandInv'
<1>1. RowInv' /\ KeyInv'
  BY DEF CommandInv, RowInv, KeyInv
<1>2. JobInv'
  BY DEF JobInv
<1>3. WriteInv'
  BY DEF WriteInv, Writing
<1>4. PassInv'
  BY DEF CommandInv, PassInv, Job
<1> QED
  BY <1>1, <1>2, <1>3, <1>4 DEF CommandInv

LEMMA StoppedWhileRunning == ASSUME CommandInv, ~Ended PROVE gateway = "stopped"
BY DEF CommandInv, JobInv

LEMMA Beginning == ASSUME CommandInv, Begin PROVE CommandInv'
<1>1. PICK f \in BOOLEAN : job' = [NoJob EXCEPT !.pc = "next", !.finalize = f, !.todo = live]
  BY DEF Begin
<1>2. live \subseteq Objects /\ NoJob \in Job /\ NoJob.phase = "append"
  BY DEF CommandInv, RowInv, NoJob, Job, Capsule, Keys
<1>3. job' \in Job /\ job'.pc = "next" /\ job'.todo = live /\ job'.phase = "append"
  BY <1>1, <1>2 DEF Job
<1>4. ~Busy' /\ ~Writing' /\ ~Calling' /\ ~At("wrap")' /\ ~Ended' /\ job'.pc \notin {"delete", "rename"}
  BY <1>3 DEF Ended, Busy, Writing, Calling, At
<1>5. live' = live /\ gateway' = "stopped" /\ Passed' = {}
  BY <1>3 DEF Begin, Passed
<1>6. RowInv' /\ KeyInv'
  BY DEF Begin, CommandInv, RowInv, KeyInv
<1>7. JobInv' /\ WriteInv' /\ PassInv'
  BY <1>3, <1>4, <1>5 DEF JobInv, WriteInv, PassInv
<1> QED
  BY <1>6, <1>7 DEF CommandInv

LEMMA Downloading == ASSUME CommandInv, Download PROVE CommandInv'
<1>1. CASE job' = NoJob
  BY <1>1, Stopping DEF Download, CommandInv, RowInv
<1>2. CASE job' # NoJob
  <2>1. PICK o : o = (CHOOSE p \in job.todo : TRUE)
    OBVIOUS
  <2>2. PICK c \in capsule[o] :
           /\ job.phase = "append" \/ "new" \in c
           /\ job' = [job EXCEPT !.pc = IF "new" \in c THEN "open" ELSE "wrap",
                                !.todo = @ \ {o}, !.object = o, !.content = c]
    BY <1>2, <2>1 DEF Download, Fails
  <2>3. /\ job \in Job /\ job.pc = "next" /\ job.todo \subseteq live /\ live \subseteq Objects
        /\ o \in job.todo /\ o \in live /\ o \in Objects
    BY <2>1 DEF Download, CommandInv, RowInv, JobInv, At
  <2>4. c \in Capsule
    BY <2>2, <2>3 DEF CommandInv, RowInv
  <2>5. (job'.pc = "open" /\ "new" \in c) \/ (job'.pc = "wrap" /\ "new" \notin c)
    BY <2>2, <2>3 DEF Job
  <2>6. /\ job' \in Job /\ job'.phase = job.phase /\ job'.todo = job.todo \ {o}
        /\ job'.object = o /\ job'.content = c
    BY <2>2, <2>3, <2>4 DEF Job
  <2>7. ~Ended /\ ~Ended' /\ ~Writing' /\ Busy' /\ ~Busy /\ gateway = "stopped"
    BY <2>3, <2>5, StoppedWhileRunning DEF Ended, Writing, Busy, Calling
  <2>8. UNCHANGED <<live, capsule, temporary, verified, gateway, finalizing>>
    BY DEF Download
  <2>9. Passed' = Passed
    BY <2>3, <2>6, <2>7, <2>8 DEF Passed
  <2> QED
    BY <2>2, <2>3, <2>5, <2>6, <2>7, <2>8, <2>9, Reading DEF At, CommandInv, RowInv
<1> QED
  BY <1>1, <1>2

---------------------------------------------------------------------------
(* What the broker has answered.                                           *)

LEMMA Opening == ASSUME CommandInv, Opened, UNCHANGED <<live, capsule, temporary, gateway, finalizing>>
                 PROVE  CommandInv'
<1>1. job \in Job /\ job.pc = "open" /\ job' = [job EXCEPT !.pc = "verify"] /\ verified' = verified
  BY DEF Opened, At, Go, CommandInv, JobInv
<1>2. /\ job' \in Job /\ job'.pc = "verify" /\ job'.phase = job.phase /\ job'.todo = job.todo
      /\ job'.object = job.object /\ job'.content = job.content
  BY <1>1 DEF Job
<1>3. ~Ended /\ ~Ended' /\ ~Writing' /\ Busy' /\ Busy /\ Calling /\ gateway = "stopped" /\ ~At("wrap")
  BY <1>1, <1>2, StoppedWhileRunning DEF Ended, Writing, Busy, Calling, At
<1>4. Passed' = Passed
  BY <1>2, <1>3 DEF Passed
<1> QED
  BY <1>1, <1>2, <1>3, <1>4, Reading DEF At, CommandInv, RowInv, JobInv

LEMMA Verifying ==
  ASSUME CommandInv, Verified, job.phase = "append",
         UNCHANGED <<live, capsule, temporary, gateway, finalizing>>
  PROVE  CommandInv'
<1>1. /\ job \in Job /\ job.pc = "verify" /\ job' = [job EXCEPT !.pc = "next"]
      /\ verified' = verified \cup {job.object}
  BY DEF Verified, At, Go, CommandInv, JobInv
<1>2. /\ job' \in Job /\ job'.pc = "next" /\ job'.phase = job.phase /\ job'.todo = job.todo
  BY <1>1 DEF Job
<1>3. ~Ended /\ ~Ended' /\ ~Writing' /\ ~Busy' /\ Busy /\ Calling /\ gateway = "stopped" /\ ~At("wrap")
  BY <1>1, <1>2, StoppedWhileRunning DEF Ended, Writing, Busy, Calling, At
<1>4. job.object \in live /\ job.object \in Objects
  BY <1>3 DEF CommandInv, JobInv, RowInv
<1>5. \A c \in capsule[job.object] : "new" \in c
  BY <1>3, <1>4 DEF CommandInv, JobInv, RowInv
<1>6. \A o \in Passed' : o \in Passed \/ o = job.object
  BY <1>2, <1>3 DEF Passed
<1> QED
  BY <1>1, <1>2, <1>3, <1>4, <1>5, <1>6, Reading DEF At, CommandInv, RowInv, JobInv, Calling

\* A step with which an overwrite begins.
LEMMA Overwriting ==
  ASSUME CommandInv, UNCHANGED <<live, capsule, temporary, verified, gateway, finalizing>>,
         Calling, NEW content \in Capsule,
         job' = [job EXCEPT !.pc = "temporary", !.content = content],
         "new" \in content,
         job.phase = "finalize" => content = {"new"},
         job.phase = "append" => job.content \subseteq content
  PROVE  CommandInv'
<1>1. job \in Job
  BY DEF CommandInv, JobInv
<1>2. /\ job' \in Job /\ job'.pc = "temporary" /\ job'.phase = job.phase /\ job'.todo = job.todo
      /\ job'.object = job.object /\ job'.content = content
  BY <1>1 DEF Job
<1>3. ~Ended /\ ~Ended' /\ Writing' /\ Busy' /\ Busy /\ gateway = "stopped" /\ ~At("wrap")' /\ ~Calling'
  BY <1>2, StoppedWhileRunning DEF Ended, Writing, Busy, Calling, At
<1>4. Passed' = Passed
  BY <1>2, <1>3 DEF Passed
<1>5. RowInv' /\ KeyInv'
  BY DEF CommandInv, RowInv, KeyInv
<1>6. JobInv'
  BY <1>2, <1>3 DEF CommandInv, JobInv
<1>7. WriteInv'
  <2>1. job.object \in live /\ job.content \in capsule[job.object]
    BY <1>3 DEF CommandInv, JobInv
  <2>2. finalizing \/ "old" \in job.content
    BY <1>3, <2>1 DEF CommandInv, KeyInv, RowInv
  <2> QED
    BY <1>2, <2>2 DEF WriteInv
<1>8. PassInv'
  BY <1>2, <1>3, <1>4 DEF CommandInv, PassInv
<1> QED
  BY <1>5, <1>6, <1>7, <1>8 DEF CommandInv

LEMMA Answering == ASSUME CommandInv, Answered PROVE CommandInv'
<1>1. job \in Job /\ UNCHANGED <<live, capsule, temporary, gateway, finalizing>>
  BY DEF Answered, CommandInv, JobInv
<1>2. CASE Opened
  BY <1>1, <1>2, Opening
<1>3. CASE Wrapped
  <2>1. job' = [job EXCEPT !.pc = "temporary", !.content = @ \cup {"new"}] /\ verified' = verified
        /\ Calling /\ job.pc = "wrap"
    BY <1>3 DEF Wrapped, Calling, At
  <2>2. job.content \cup {"new"} \in Capsule
    BY <1>1 DEF Job, Capsule, Keys
  <2>3. job.phase = "append"
    BY <2>1 DEF CommandInv, JobInv, At
  <2>4. job' = [job EXCEPT !.pc = "temporary", !.content = job.content \cup {"new"}]
    BY <1>1, <2>1 DEF Job
  <2> QED
    BY <1>1, <2>1, <2>2, <2>3, <2>4, Overwriting
<1>4. CASE Verified
  <2>1. CASE job.phase = "append"
    BY <1>1, <1>4, <2>1, Verifying
  <2>2. CASE job.phase = "finalize"
    <3>1. job' = [job EXCEPT !.pc = "temporary", !.content = {"new"}] /\ verified' = verified /\ Calling
      BY <1>4, <2>2 DEF Verified, Calling, At
    <3>2. {"new"} \in Capsule
      BY DEF Capsule, Keys
    <3> QED
      BY <1>1, <2>2, <3>1, <3>2, Overwriting
  <2> QED
    BY <1>1, <2>1, <2>2 DEF Job
<1> QED
  BY <1>2, <1>3, <1>4 DEF Answered

---------------------------------------------------------------------------
(* An overwrite.                                                           *)

LEMMA Uploading == ASSUME CommandInv, UploadTemporary PROVE CommandInv'
<1> DEFINE o == job.object
<1>1. /\ job \in Job /\ job.pc = "temporary" /\ job' = [job EXCEPT !.pc = "delete"]
      /\ UNCHANGED <<live, capsule, verified, gateway>>
  BY DEF UploadTemporary, At, Go, CommandInv, JobInv
<1>2. /\ job' \in Job /\ job'.pc = "delete" /\ job'.phase = job.phase /\ job'.todo = job.todo
      /\ job'.object = o /\ job'.content = job.content
  BY <1>1 DEF Job
<1>3. ~Ended /\ ~Ended' /\ Writing /\ Writing' /\ Busy' /\ Busy /\ gateway = "stopped"
      /\ ~At("wrap")' /\ ~At("wrap") /\ ~Calling'
  BY <1>1, <1>2, StoppedWhileRunning DEF Ended, Writing, Busy, Calling, At
<1>4. Passed' = Passed
  BY <1>1, <1>2, <1>3 DEF Passed
<1>5. o \in live /\ o \in Objects /\ job.content \in Capsule
  BY <1>1, <1>3 DEF CommandInv, JobInv, RowInv, Job
<1>6. /\ temporary' \in [Objects -> SUBSET Capsule]
      /\ job.content \in temporary'[o]
  BY <1>1, <1>5 DEF UploadTemporary, CommandInv, RowInv
<1>7. finalizing' \in BOOLEAN /\ (finalizing' <=> (finalizing \/ job.phase = "finalize"))
  BY DEF UploadTemporary, CommandInv, RowInv
<1>8. RowInv'
  BY <1>1, <1>6, <1>7 DEF CommandInv, RowInv
<1>9. JobInv'
  BY <1>1, <1>2, <1>3 DEF CommandInv, JobInv
<1>10. WriteInv'
  BY <1>2, <1>3, <1>6, <1>7 DEF CommandInv, WriteInv
<1>11. KeyInv'
  <2>1. finalizing' /\ ~finalizing => \A p \in live : \A c \in capsule[p] : "new" \in c
    BY <1>7 DEF CommandInv, PassInv
  <2> QED
    BY <1>1, <1>3, <1>7, <2>1 DEF CommandInv, KeyInv
<1>12. PassInv'
  BY <1>1, <1>2, <1>3, <1>4 DEF CommandInv, PassInv
<1> QED
  BY <1>8, <1>9, <1>10, <1>11, <1>12 DEF CommandInv

LEMMA Deleting == ASSUME CommandInv, DeleteOld PROVE CommandInv'
<1> DEFINE o == job.object
<1>1. /\ job \in Job /\ job.pc = "delete" /\ job' = [job EXCEPT !.pc = "rename"]
      /\ UNCHANGED <<live, temporary, verified, gateway, finalizing>>
  BY DEF DeleteOld, At, Go, CommandInv, JobInv
<1>2. /\ job' \in Job /\ job'.pc = "rename" /\ job'.phase = job.phase /\ job'.todo = job.todo
      /\ job'.object = o /\ job'.content = job.content
  BY <1>1 DEF Job
<1>3. ~Ended /\ ~Ended' /\ Writing /\ Writing' /\ Busy' /\ Busy /\ gateway = "stopped"
      /\ ~At("wrap")' /\ ~At("wrap") /\ ~Calling'
  BY <1>1, <1>2, StoppedWhileRunning DEF Ended, Writing, Busy, Calling, At
<1>4. Passed' = Passed /\ o \notin Passed /\ Passed \subseteq live
  BY <1>1, <1>2, <1>3 DEF Passed
<1>5. o \in live /\ live \subseteq Objects
  BY <1>3 DEF CommandInv, JobInv, RowInv
<1>6. /\ capsule' \in [Objects -> SUBSET Capsule] /\ capsule'[o] = {}
      /\ \A p \in Objects \ {o} : capsule'[p] = capsule[p]
  BY <1>5 DEF DeleteOld, CommandInv, RowInv
<1>7. RowInv'
  BY <1>1, <1>6 DEF CommandInv, RowInv
<1>8. JobInv' /\ WriteInv'
  BY <1>1, <1>2, <1>3 DEF CommandInv, JobInv, WriteInv
<1>9. \A p \in live : \A c \in capsule'[p] : c \in capsule[p]
  BY <1>5, <1>6
<1>10. KeyInv'
  BY <1>1, <1>3, <1>9 DEF CommandInv, KeyInv
<1>11. PassInv'
  <2>1. \A p \in Passed : capsule'[p] = capsule[p]
    BY <1>4, <1>5, <1>6
  <2> QED
    BY <1>1, <1>2, <1>3, <1>4, <1>9, <2>1 DEF CommandInv, PassInv
<1> QED
  BY <1>7, <1>8, <1>10, <1>11 DEF CommandInv

LEMMA Renaming == ASSUME CommandInv, RenameFinal PROVE CommandInv'
<1> DEFINE o == job.object
           new == job.content
<1>1. /\ job \in Job /\ job.pc = "rename"
      /\ job' = [job EXCEPT !.pc = IF job.phase = "append" THEN "verify" ELSE "next"]
      /\ UNCHANGED <<live, verified, gateway, finalizing>>
  BY DEF RenameFinal, At, Go, CommandInv, JobInv
<1>2. /\ job' \in Job /\ job'.pc = IF job.phase = "append" THEN "verify" ELSE "next"
      /\ job'.phase = job.phase /\ job'.todo = job.todo
      /\ job'.object = o /\ job'.content = new
  BY <1>1 DEF Job
<1>3. /\ ~Ended /\ ~Ended' /\ Writing /\ ~Writing' /\ Busy /\ gateway = "stopped"
      /\ ~At("wrap")' /\ ~At("wrap") /\ (Busy' => job.phase = "append") /\ (Calling' => Busy')
      /\ job'.pc \notin {"delete", "rename"}
  BY <1>1, <1>2, StoppedWhileRunning DEF Ended, Writing, Busy, Calling, At
<1>4. Passed' \subseteq Passed \cup {o} /\ o \notin Passed /\ Passed' \subseteq live
      /\ (job.phase = "append" => o \notin Passed')
  BY <1>1, <1>2, <1>3 DEF Passed, Busy, Calling
<1>5. o \in live /\ live \subseteq Objects /\ new \in Capsule
  BY <1>1, <1>3 DEF CommandInv, JobInv, RowInv, Job
<1>6. /\ capsule' \in [Objects -> SUBSET Capsule] /\ capsule'[o] = {new}
      /\ \A p \in Objects \ {o} : capsule'[p] = capsule[p]
      /\ temporary' \in [Objects -> SUBSET Capsule]
  BY <1>5 DEF RenameFinal, CommandInv, RowInv
<1>7. /\ "new" \in new
      /\ job.phase = "finalize" => new = {"new"} /\ finalizing
      /\ job.phase = "append" => finalizing \/ "old" \in new
  BY <1>1, <1>3 DEF CommandInv, JobInv, WriteInv
<1> HIDE DEF o, new
<1>8. RowInv'
  BY <1>1, <1>6 DEF CommandInv, RowInv
<1>9. JobInv' /\ WriteInv'
  BY <1>1, <1>2, <1>3, <1>5, <1>6, <1>7 DEF CommandInv, JobInv, WriteInv
<1>10. KeyInv'
  <2>1. job.phase = "append" \/ job.phase = "finalize"
    BY <1>1 DEF Job
  <2> QED
    BY <1>1, <1>3, <1>5, <1>6, <1>7, <2>1 DEF CommandInv, KeyInv
<1>11. PassInv'
  <2>1. \A p \in Passed' : p = o \/ (p \in Passed /\ p # o /\ capsule'[p] = capsule[p])
    BY <1>4, <1>5, <1>6
  <2>2. ~Ended' => \A p \in Passed' : \A c \in capsule'[p] : "new" \in c
    BY <1>3, <1>6, <1>7, <2>1 DEF CommandInv, PassInv
  <2>3. job'.phase = "finalize" => \A p \in live : \A c \in capsule'[p] : "new" \in c
    BY <1>2, <1>5, <1>6, <1>7 DEF CommandInv, PassInv
  <2>4. job'.phase = "finalize" => \A p \in Passed' : capsule'[p] = {{"new"}}
    BY <1>2, <1>6, <1>7, <2>1 DEF CommandInv, PassInv
  <2> QED
    BY <1>1, <2>2, <2>3, <2>4 DEF PassInv
<1> QED
  BY <1>8, <1>9, <1>10, <1>11 DEF CommandInv

---------------------------------------------------------------------------
(* Between the passes and after them.                                      *)

LEMMA Finalizing == ASSUME CommandInv, Finalize PROVE CommandInv'
<1>1. UNCHANGED <<live, capsule, temporary, verified, gateway, finalizing>>
      /\ job \in Job /\ job.pc = "next" /\ job.todo = {} /\ job.phase = "append"
  BY DEF Finalize, At, CommandInv, JobInv
<1>2. CASE job' = NoJob
  BY <1>1, <1>2, Stopping DEF CommandInv, RowInv
<1>3. CASE job' # NoJob
  <2>1. job' = [job EXCEPT !.phase = "finalize", !.todo = live]
    BY <1>3 DEF Finalize, Fails
  <2>2. job' \in Job /\ job'.pc = "next" /\ job'.phase = "finalize" /\ job'.todo = live
    BY <1>1, <2>1 DEF Job, CommandInv, RowInv
  <2>3. ~Ended /\ ~Ended' /\ ~Busy /\ ~Busy' /\ ~Writing' /\ ~Calling' /\ ~At("wrap")'
        /\ job'.pc \notin {"delete", "rename"} /\ gateway = "stopped"
    BY <1>1, <2>2, StoppedWhileRunning DEF Ended, Writing, Busy, Calling, At
  <2>4. Passed = live /\ Passed' = {}
    BY <1>1, <2>2, <2>3 DEF Passed
  <2>5. RowInv' /\ KeyInv'
    BY <1>1 DEF CommandInv, RowInv, KeyInv
  <2>6. JobInv' /\ WriteInv'
    BY <1>1, <2>2, <2>3 DEF JobInv, WriteInv
  <2>7. PassInv'
    BY <1>1, <2>3, <2>4 DEF CommandInv, PassInv
  <2> QED
    BY <2>5, <2>6, <2>7 DEF CommandInv
<1> QED
  BY <1>2, <1>3

LEMMA Ending == ASSUME CommandInv, End PROVE CommandInv'
<1>1. UNCHANGED <<live, capsule, temporary, verified, finalizing>> /\ job' = NoJob
      /\ job \in Job /\ job.pc = "next" /\ job.todo = {}
      /\ (job.finalize <=> job.phase = "finalize")
      /\ gateway' = IF job.finalize THEN "new" ELSE gateway
  BY DEF End, Fails, At, CommandInv, JobInv, Job
<1>2. CASE ~job.finalize
  BY <1>1, <1>2, Stopping DEF CommandInv, RowInv
<1>3. CASE job.finalize
  <2>1. ~Busy /\ Passed = live
    BY <1>1 DEF Busy, Calling, Writing, Passed
  <2>2. job' \in Job /\ job'.pc = "none" /\ job'.todo = {} /\ job'.phase = "append"
    BY <1>1 DEF NoJob, Job, Capsule, Keys
  <2>3. Ended' /\ ~Busy' /\ ~Writing' /\ ~Calling' /\ ~At("wrap")' /\ job'.pc \notin {"delete", "rename"}
    BY <2>2 DEF Ended, Writing, Busy, Calling, At
  <2>4. gateway' = "new" /\ \A o \in live : capsule[o] = {{"new"}}
    BY <1>1, <1>3, <2>1 DEF CommandInv, PassInv
  <2>5. RowInv' /\ KeyInv'
    BY <1>1, <2>4 DEF CommandInv, RowInv, KeyInv, Keys
  <2>6. JobInv' /\ WriteInv' /\ PassInv'
    BY <2>2, <2>3 DEF JobInv, WriteInv, PassInv
  <2> QED
    BY <2>5, <2>6 DEF CommandInv
<1> QED
  BY <1>2, <1>3

LEMMA Breaking == ASSUME CommandInv, Breaks PROVE CommandInv'
<1>1. verified' \subseteq Objects
  BY DEF Breaks, Refused, StepFails, Crash, Unverified, CommandInv, RowInv
<1> QED
  BY <1>1, Stopping DEF Breaks, Refused, StepFails, Crash, CutShort

LEMMA RewrapUnchanged == ASSUME CommandInv, UNCHANGED rewrapVars PROVE CommandInv'
BY DEF rewrapVars, CommandInv, RowInv, JobInv, WriteInv, KeyInv, PassInv, Ended, Busy, Calling,
       Writing, At, Passed

LEMMA CommandNextInv == CommandInv /\ [RewrapNext]_keyVars => CommandInv'
<1> SUFFICES ASSUME CommandInv, [RewrapNext]_keyVars PROVE CommandInv'
  OBVIOUS
<1>1. CASE UNCHANGED rewrapVars
  BY <1>1, RewrapUnchanged
<1>2. ASSUME NEW o \in Objects, Store(o) \/ Drop(o) PROVE CommandInv'
  BY <1>2, Running
<1>3. CASE ScanRemote
  <2>1. CASE Objects = {}
    <3>1. RowInv' /\ KeyInv'
      BY <1>3 DEF ScanRemote, CommandInv, RowInv, KeyInv
    <3> QED
      BY <1>3, <3>1, Idling DEF ScanRemote
  <2>2. CASE Objects # {}
    BY <1>3, <2>2, Running
  <2> QED
    BY <2>1, <2>2
<1>4. CASE Stop \/ GoOnWithOld
  BY <1>4, Switching
<1>5. CASE Works
  BY <1>1, <1>5, Beginning, Downloading, Answering, Finalizing, Ending, Uploading, Deleting, Renaming
     DEF Works, Call, Admitted
<1>6. CASE Breaks
  BY <1>6, Breaking
<1> QED
  BY <1>1, <1>2, <1>3, <1>4, <1>5, <1>6 DEF RewrapNext, Others, Abandoned, Passes, keyVars, rewrapVars

---------------------------------------------------------------------------
(* Every step is one of the broker, or none.                               *)

LEMMA BrokerStep == [RewrapNext]_keyVars => [BrokerNext]_brokerVars
<1> SUFFICES ASSUME [RewrapNext]_keyVars PROVE [BrokerNext]_brokerVars
  OBVIOUS
<1>1. \A c \in Clients : Handle(c) => BrokerNext
  BY DEF BrokerNext
<1>2. Cli \in Clients
  BY CliIsAClient
<1>3. CASE Works
  BY <1>1, <1>2, <1>3 DEF Works, Begin, Download, Call, Admitted, Answered, Opened, Wrapped, Verified,
     Finalize, End, UploadTemporary, DeleteOld, RenameFinal, Handle, brokerVars
<1>4. CASE Breaks
  BY <1>1, <1>2, <1>4 DEF Breaks, Refused, StepFails, Crash, Handle, brokerVars
<1>5. CASE Others \/ Abandoned(Cli) \/ Passes
  BY <1>1, <1>2, <1>5 DEF Others, Abandoned, Passes, Handle, BrokerNext
<1>6. CASE UNCHANGED keyVars
  BY <1>6 DEF keyVars
<1> QED
  BY <1>3, <1>4, <1>5, <1>6 DEF RewrapNext, Store, Drop, Stop, GoOnWithOld, ScanRemote

LEMMA RewrapInvariant == RewrapSpec => [](BrokerInv /\ CommandInv)
<1>1. RewrapInit => BrokerInv /\ CommandInv
  BY BrokerInitInv, RewrapInitInv DEF RewrapInit
<1>2. (BrokerInv /\ CommandInv) /\ [RewrapNext]_keyVars => (BrokerInv /\ CommandInv)'
  BY BrokerStep, BrokerNextInv, CommandNextInv
<1> QED
  BY <1>1, <1>2, PTL DEF RewrapSpec

---------------------------------------------------------------------------
(* The theorems.                                                           *)

\* The command and the broker keep their state of its type, whatever cuts the command
\* short (rewrap_primary_keys).
THEOREM RewrapTypeCorrect == RewrapSpec => []RewrapTypeOK
<1>1. BrokerInv /\ CommandInv => RewrapTypeOK
  BY InvTyped DEF CommandInv, RowInv, JobInv, RewrapTypeOK
<1> QED
  BY <1>1, RewrapInvariant, PTL

\* However often the command is cut short and begun again, one primary key opens every
\* capsule, and a running gateway has it (rewrap_primary_keys).
THEOREM OneKeyAlways == RewrapSpec => []OneKeyOpensAll
<1>1. CommandInv => OneKeyOpensAll
  <2> SUFFICES ASSUME CommandInv PROVE OneKeyOpensAll
    OBVIOUS
  <2>1. CASE gateway = "new"
    BY <2>1 DEF CommandInv, KeyInv, OneKeyOpensAll
  <2>2. CASE gateway # "new" /\ ~finalizing
    <3>1. "old" \in (IF gateway = "stopped" THEN Keys ELSE {gateway})
      BY <2>2 DEF CommandInv, RowInv, Keys
    <3> QED
      BY <2>2, <3>1 DEF CommandInv, KeyInv, OneKeyOpensAll
  <2>3. CASE gateway # "new" /\ finalizing
    <3>1. gateway = "stopped" /\ "new" \in Keys
      BY <2>3 DEF CommandInv, RowInv, KeyInv, Keys
    <3> QED
      BY <2>3, <3>1 DEF CommandInv, KeyInv, OneKeyOpensAll
  <2> QED
    BY <2>1, <2>2, <2>3
<1> QED
  BY <1>1, RewrapInvariant, PTL

\* Once a run with --finalize has ended, the old key opens nothing (rewrap_primary_keys).
THEOREM OldKeyOpensNothing == RewrapSpec => []OldKeyRetired
<1>1. CommandInv => OldKeyRetired
  BY DEF CommandInv, KeyInv, OldKeyRetired
<1> QED
  BY <1>1, RewrapInvariant, PTL

\* Wherever an overwrite stops, a copy of the capsule is in iCloud (backend.py, upload).
THEOREM CopiesKept == RewrapSpec => CopyKept
<1> DEFINE Kept == \A o \in live \cap live' :
                      capsule[o] \cup temporary[o] # {} =>
                         capsule'[o] \cup temporary'[o] # {} \/ ScanRemote
<1>1. CommandInv /\ [RewrapNext]_keyVars => [Kept]_keyVars
  <2> SUFFICES ASSUME CommandInv, RewrapNext, NEW o \in live, o \in live',
                      capsule[o] \cup temporary[o] # {}, ~ScanRemote
               PROVE  capsule'[o] \cup temporary'[o] # {}
    BY DEF keyVars
  <2>1. o \in Objects /\ live \subseteq Objects /\ capsule \in [Objects -> SUBSET Capsule]
        /\ temporary \in [Objects -> SUBSET Capsule]
    BY DEF CommandInv, RowInv
  <2>2. CASE UNCHANGED <<capsule, temporary>>
    BY <2>2
  <2>3. ASSUME NEW p \in Objects, Store(p) PROVE capsule'[o] \cup temporary'[o] # {}
    BY <2>1, <2>3 DEF Store
  <2>4. ASSUME NEW p \in Objects, Drop(p) PROVE capsule'[o] \cup temporary'[o] # {}
    BY <2>1, <2>4 DEF Drop
  <2>5. Busy => job.object \in Objects
    BY <2>1 DEF CommandInv, JobInv
  <2>6. CASE UploadTemporary
    <3>1. job.object \in Objects
      BY <2>5, <2>6 DEF UploadTemporary, At, Busy, Writing
    <3> QED
      BY <2>1, <2>6, <3>1 DEF UploadTemporary
  <2>7. CASE DeleteOld
    <3>1. job.object \in Objects /\ job.content \in temporary[job.object]
      BY <2>5, <2>7 DEF DeleteOld, At, Busy, Writing, CommandInv, WriteInv
    <3> QED
      BY <2>1, <2>7, <3>1 DEF DeleteOld
  <2>8. CASE RenameFinal
    <3>1. job.object \in Objects
      BY <2>5, <2>8 DEF RenameFinal, At, Busy, Writing
    <3> QED
      BY <2>1, <2>8, <3>1 DEF RenameFinal
  <2>9. CASE Works
    BY <2>2, <2>6, <2>7, <2>8, <2>9 DEF Works, Begin, Download, Call, Admitted, Answered, Finalize, End,
       rewrapVars
  <2>10. CASE Breaks
    BY <2>2, <2>10 DEF Breaks, Refused, StepFails, Crash
  <2> QED
    BY <2>2, <2>3, <2>4, <2>9, <2>10 DEF RewrapNext, Stop, GoOnWithOld, Others, Abandoned, Passes, rewrapVars
<1> QED
  BY <1>1, RewrapInvariant, PTL DEF RewrapSpec, CopyKept
=============================================================================
