--------------------------------- MODULE Rewrap ---------------------------------
(***************************************************************************)
(* The change of the primary key: rewrap_primary_keys                      *)
(* (encryption_backend.py), run by `icloud-webdav rewrap-keys` (cli.py)    *)
(* with the recovery secret and the new Key Broker while the gateway is    *)
(* stopped; and how backend.py overwrites a capsule in iCloud.             *)
(*                                                                         *)
(* A capsule is the set of the primary keys that open it; the recovery     *)
(* secret opens every one.  Each call of the new broker is a request of    *)
(* Cli in the module KeyBroker.                                            *)
(***************************************************************************)
EXTENDS KeyBroker

CONSTANTS
    Objects,   \* bound: the chunks and manifests that are ever stored
    Cli,       \* the command, as a client of the broker
    NoObject

ASSUME CliIsAClient == Cli \in Clients
ASSUME NoObjectIsNone == NoObject \notin Objects

VARIABLES
    live,       \* rows of cas_chunks and cas_manifests
    capsule,    \* the capsule iCloud has under an object's key_name, if any
    temporary,  \* and those under temporary names
    verified,   \* cas_key_rewrap: the objects VERIFIED for the new key
    gateway,    \* the primary key the gateway runs with, or "stopped"
    finalizing, \* a run with --finalize has begun to remove old wraps
    job         \* the command, if it runs

rewrapVars == <<live, capsule, temporary, verified, gateway, finalizing, job>>
keyVars == <<brokerVars, rewrapVars>>

---------------------------------------------------------------------------
Keys == {"old", "new"}
Capsule == SUBSET Keys

NoJob == [pc |-> "none", finalize |-> FALSE, phase |-> "append", todo |-> {}, object |-> NoObject,
          content |-> {}]
Job == [pc : {"none", "cut", "next", "open", "wrap", "verify", "temporary", "delete", "rename"},
        finalize : BOOLEAN, phase : {"append", "finalize"}, todo : SUBSET Objects,
        object : Objects \cup {NoObject}, content : Capsule]

At(pc) == job.pc = pc
Go(pc) == job' = [job EXCEPT !.pc = pc]
Calling == job.pc \in {"open", "wrap", "verify"}

\* The command has ended, by itself or by something outside it.
Ended == job.pc \in {"none", "cut"}
Fails == job' = NoJob
CutShort == job' = [NoJob EXCEPT !.pc = "cut"]

RewrapInit ==
    /\ BrokerInit
    /\ live = {}
    /\ capsule = [o \in Objects |-> {}]
    /\ temporary = [o \in Objects |-> {}]
    /\ verified = {}
    /\ gateway = "old"
    /\ finalizing = FALSE
    /\ job = NoJob

---------------------------------------------------------------------------
(* The gateway, before and after.                                          *)

\* Under an id that no record has.
Store(o) ==
    /\ gateway # "stopped"
    /\ o \notin live \cup verified /\ capsule[o] = {} /\ temporary[o] = {}
    /\ live' = live \cup {o}
    /\ capsule' = [capsule EXCEPT ![o] = {{gateway}}]
    /\ UNCHANGED <<brokerVars, temporary, verified, gateway, finalizing, job>>

Drop(o) ==
    /\ gateway # "stopped"
    /\ o \in live
    /\ live' = live \ {o}
    /\ capsule' = [capsule EXCEPT ![o] = {}]
    /\ UNCHANGED <<brokerVars, temporary, verified, gateway, finalizing, job>>

Stop ==
    /\ gateway = "old"
    /\ gateway' = "stopped"
    /\ UNCHANGED <<brokerVars, live, capsule, temporary, verified, finalizing, job>>

\* Giving up is possible until old wraps are removed.
GoOnWithOld ==
    /\ gateway = "stopped" /\ Ended /\ ~finalizing
    /\ gateway' = "old"
    /\ UNCHANGED <<brokerVars, live, capsule, temporary, verified, finalizing, job>>

---------------------------------------------------------------------------
(* The command.                                                            *)

\* By then the broker is done with the calls of an earlier run.
Begin ==
    /\ gateway = "stopped" /\ Ended /\ client[Cli] = "away"
    /\ \E finalize \in BOOLEAN :
          job' = [NoJob EXCEPT !.pc = "next", !.finalize = finalize, !.todo = live]
    /\ UNCHANGED <<brokerVars, live, capsule, temporary, verified, gateway, finalizing>>

\* A faulty variant: a wrapped capsule is not taken again.
DownloadOnce ==
    /\ At("next") /\ job.todo # {}
    /\ LET o == CHOOSE p \in job.todo : TRUE
           usable == {c \in capsule[o] : "new" \in c <=> job.phase = "finalize"}
       IN IF usable = {} THEN Fails
          ELSE \E c \in usable :
              job' = [job EXCEPT !.pc = IF "new" \in c THEN "open" ELSE "wrap",
                                 !.todo = @ \ {o}, !.object = o, !.content = c]
    /\ UNCHANGED <<brokerVars, live, capsule, temporary, verified, gateway, finalizing>>

\* The capsule of the next row is downloaded; a broker that has wrapped it opens it,
\* else the recovery secret does.
Download ==
    /\ At("next") /\ job.todo # {}
    /\ LET o == CHOOSE p \in job.todo : TRUE
           usable == {c \in capsule[o] : job.phase = "append" \/ "new" \in c}
       IN IF usable = {} THEN Fails
          ELSE \E c \in usable :
              job' = [job EXCEPT !.pc = IF "new" \in c THEN "open" ELSE "wrap",
                                 !.todo = @ \ {o}, !.object = o, !.content = c]
    /\ UNCHANGED <<brokerVars, live, capsule, temporary, verified, gateway, finalizing>>

\* The command calls the broker, which admits it or not.
Call ==
    /\ Calling
    /\ Arrive(Cli)
    /\ UNCHANGED rewrapVars

Admitted == Admit(Cli) /\ UNCHANGED rewrapVars

\* The recovery secret opens what the broker does not.
Opened == At("open") /\ (Done(Cli) \/ Refuse(Cli)) /\ Go("verify") /\ UNCHANGED verified

\* A faulty variant: the new wrap takes the place of the old one.
WrappedAlone ==
    /\ At("wrap")
    /\ Done(Cli)
    /\ job' = [job EXCEPT !.pc = "temporary", !.content = {"new"}]
    /\ UNCHANGED verified

\* The new wrap goes into the capsule.
Wrapped ==
    /\ At("wrap")
    /\ Done(Cli)
    /\ job' = [job EXCEPT !.pc = "temporary", !.content = @ \cup {"new"}]
    /\ UNCHANGED verified

\* A wrap that opens is recorded, or is left as the only one.
Verified ==
    /\ At("verify")
    /\ Done(Cli)
    /\ IF job.phase = "append"
       THEN Go("next") /\ verified' = verified \cup {job.object}
       ELSE job' = [job EXCEPT !.pc = "temporary", !.content = {"new"}] /\ UNCHANGED verified

Answered == (Opened \/ Wrapped \/ Verified) /\ UNCHANGED <<live, capsule, temporary, gateway, finalizing>>

\* FAILED is recorded and the command ends.
Unverified == IF job.phase = "append" THEN verified \ {job.object} ELSE verified

Refused ==
    /\ job.pc \in {"wrap", "verify"}
    /\ Refuse(Cli)
    /\ CutShort
    /\ verified' = Unverified
    /\ UNCHANGED <<live, capsule, temporary, gateway, finalizing>>

\* A faulty variant: the old capsule goes first.
UploadOnceGone ==
    /\ At("temporary")
    /\ capsule' = [capsule EXCEPT ![job.object] = {}]
    /\ Go("delete")
    /\ finalizing' = (finalizing \/ job.phase = "finalize")
    /\ UNCHANGED <<brokerVars, live, temporary, verified, gateway>>

\* upload, over a capsule that is there: under a temporary name first.
UploadTemporary ==
    /\ At("temporary")
    /\ temporary' = [temporary EXCEPT ![job.object] = @ \cup {job.content}]
    /\ Go("delete")
    /\ finalizing' = (finalizing \/ job.phase = "finalize")
    /\ UNCHANGED <<brokerVars, live, capsule, verified, gateway>>

DeleteOld ==
    /\ At("delete")
    /\ capsule' = [capsule EXCEPT ![job.object] = {}]
    /\ Go("rename")
    /\ UNCHANGED <<brokerVars, live, temporary, verified, gateway, finalizing>>

RenameFinal ==
    /\ At("rename")
    /\ capsule' = [capsule EXCEPT ![job.object] = {job.content}]
    /\ temporary' = [temporary EXCEPT ![job.object] = @ \ {job.content}]
    /\ Go(IF job.phase = "append" THEN "verify" ELSE "next")
    /\ UNCHANGED <<brokerVars, live, verified, gateway, finalizing>>

\* iCloud raises, or the broker does not answer in time.
StepFails ==
    /\ job.pc \in {"wrap", "verify", "temporary", "delete", "rename"}
    /\ CutShort
    /\ verified' = Unverified
    /\ UNCHANGED <<brokerVars, live, capsule, temporary, gateway, finalizing>>

\* Every row has been through.
Finalize ==
    /\ At("next") /\ job.todo = {} /\ job.finalize /\ job.phase = "append"
    /\ IF Cardinality(verified) < Cardinality(live) THEN Fails
       ELSE job' = [job EXCEPT !.phase = "finalize", !.todo = live]
    /\ UNCHANGED <<brokerVars, live, capsule, temporary, verified, gateway, finalizing>>

\* A faulty variant: --finalize is done when every row is wrapped.
EndWrapped ==
    /\ At("next") /\ job.todo = {}
    /\ Fails
    /\ gateway' = IF job.finalize THEN "new" ELSE gateway
    /\ UNCHANGED <<brokerVars, live, capsule, temporary, verified, finalizing>>

\* The operator starts the gateway with the new broker after a run with --finalize.
End ==
    /\ At("next") /\ job.todo = {} /\ job.finalize = (job.phase = "finalize")
    /\ Fails
    /\ gateway' = IF job.finalize THEN "new" ELSE gateway
    /\ UNCHANGED <<brokerVars, live, capsule, temporary, verified, finalizing>>

Crash ==
    /\ ~Ended
    /\ CutShort
    /\ UNCHANGED <<brokerVars, live, capsule, temporary, verified, gateway, finalizing>>

\* The broker goes on with others, with a call whose caller is gone, and with time.
Others == \E c \in Clients \ {Cli} : Handle(c) /\ UNCHANGED rewrapVars
Abandoned(c) == (~Calling /\ (Admit(c) \/ Refuse(c) \/ Done(c))) /\ UNCHANGED rewrapVars
Passes == Tick /\ UNCHANGED rewrapVars

\* gc of a running gateway: what has no row and is old enough goes, and so does what an
\* interrupted overwrite has left under a temporary name.
ScanRemote ==
    /\ gateway # "stopped"
    /\ temporary' = [o \in Objects |-> {}]
    /\ UNCHANGED <<brokerVars, live, capsule, verified, gateway, finalizing, job>>

Works ==
    \/ Begin \/ Download \/ Call \/ Admitted \/ Answered \/ Finalize \/ End
    \/ UploadTemporary \/ DeleteOld \/ RenameFinal
Breaks == Refused \/ StepFails \/ Crash

RewrapNext ==
    \/ \E o \in Objects : Store(o) \/ Drop(o)
    \/ Stop \/ GoOnWithOld \/ ScanRemote
    \/ Works \/ Breaks
    \/ Others \/ Abandoned(Cli) \/ Passes

RewrapSpec == RewrapInit /\ [][RewrapNext]_keyVars

\* The command and the broker do not stand still, and in the end the operator runs it
\* with --finalize and nothing breaks it any more.
RewrapFairness ==
    /\ WF_keyVars(Works \/ Refused)
    /\ WF_keyVars(Abandoned(Cli))
    /\ \A c \in Clients \ {Cli} : WF_keyVars(Done(c) /\ UNCHANGED rewrapVars)
    /\ WF_keyVars(Passes)
    /\ <>[][~Breaks /\ ~(Begin /\ ~job'.finalize)]_keyVars

RewrapFairSpec == RewrapSpec /\ RewrapFairness

---------------------------------------------------------------------------
(* Properties.                                                             *)

RewrapTypeOK ==
    /\ BrokerTypeOK
    /\ live \subseteq Objects
    /\ capsule \in [Objects -> SUBSET Capsule]
    /\ temporary \in [Objects -> SUBSET Capsule]
    /\ verified \subseteq Objects
    /\ gateway \in Keys \cup {"stopped"}
    /\ finalizing \in BOOLEAN
    /\ job \in Job

\* "If the final rename fails, the new data remains recoverable under its temporary
\* name" (backend.py, upload): wherever an overwrite is cut short, a copy of the capsule
\* is left, until a running gateway's gc takes temporary names for garbage.
CopyKept ==
    [][\A o \in live \cap live' :
          capsule[o] \cup temporary[o] # {} =>
             capsule'[o] \cup temporary'[o] # {} \/ ScanRemote]_keyVars

\* Through crashes, refused calls and runs begun again there is one primary key that
\* opens every capsule there is; the gateway, when it runs, runs with such a key.
OneKeyOpensAll ==
    \E k \in (IF gateway = "stopped" THEN Keys ELSE {gateway}) :
       \A o \in live : \A c \in capsule[o] : k \in c

\* Once a run with --finalize has ended, all capsules are there, and the old key opens
\* none of them, though the records it counts may be of objects that are gone.
OldKeyRetired == gateway = "new" => \A o \in live : capsule[o] = {{"new"}}

\* A rewrap can be resumed wherever it was cut short (docs/RECOVERY.md): it gets done, or
\* is given up, unless an overwrite was cut short between its delete and its rename.
RewrapResumes ==
    []<>(gateway # "stopped" \/ \E o \in live : capsule[o] = {})
=============================================================================
