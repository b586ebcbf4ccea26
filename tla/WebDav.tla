-------------------------------- MODULE WebDav --------------------------------
(***************************************************************************)
(* The request handlers of the gateway (webdav.py) with the leases, the    *)
(* change counters and safe mode they get from Valkey (coordination.py).   *)
(*                                                                         *)
(* One gateway, with a thread for every request and the server's own loop  *)
(* for the daily gc.  A call of the backend is one step of Namespace; what *)
(* a handler reads before it has its leases is stale when it acts on it.   *)
(* Requests refused before they look at anything are no step.              *)
(***************************************************************************)
EXTENDS Namespace

CONSTANTS
    Threads,
    Requests,           \* bound: what clients and the server's loop ask for
    None, Orphan,       \* a lease of nobody; of a request that is gone
    ChangeLimit,        \* changes in the window that are too many
    RatioMinimum,       \* changes from which the share of deletions counts
    RatioOf, RatioIn,   \* the share that is too high: RatioOf deletions in RatioIn
    ValkeyMayFail       \* calls of Valkey may raise

\* __daily_gc__, which is no path.
GcLease == <<>>
LeaseKeys == Paths \cup {GcLease}

\* dst is path but for a MOVE.
Request ==
    [op : {"PUT", "MKCOL", "DELETE", "MOVE"}, path : Paths, dst : Paths, overwrite : BOOLEAN]
        \cup [op : {"GC"}, path : {GcLease}, dst : {GcLease}, overwrite : {FALSE}]

ASSUME LimitsAreNumbers ==
    /\ {ChangeLimit, RatioMinimum, RatioOf, RatioIn} \subseteq Nat \ {0}
    /\ ValkeyMayFail \in BOOLEAN
ASSUME RequestsAreRequests == Requests \subseteq Request
ASSUME NobodyIsAThread == {None, Orphan} \cap Threads = {} /\ None # Orphan

VARIABLES
    handler,   \* the request a thread is serving
    lease,     \* lock:file:<key>, by the token of its holder
    changes,   \* changes:5min
    deletes,   \* deletes:5min
    safeMode,  \* safe_mode
    disturbed  \* somebody turned safe mode off, or a count may be missing

valkey == <<lease, changes, deletes, safeMode, disturbed>>
davVars == <<vars, handler, valkey>>

---------------------------------------------------------------------------
\* What stat finds at a path.
Kind(p) ==
    IF DirectoryExists(p) THEN "directory" ELSE IF FileExists(p) THEN "file" ELSE "nothing"

\* A request and how far its handler is: what it found before its leases, the leases
\* it asked for, got, and has not lost, the number of changes it counted, and whether
\* safe mode has been on since it came.
NoRequest ==
    [op |-> "none", path |-> <<>>, dst |-> <<>>, overwrite |-> FALSE, pc |-> "idle",
     found |-> "nothing", asked |-> {}, held |-> {}, sure |-> {}, counted |-> 0, safe |-> FALSE]

Handler ==
    [op : {"none", "PUT", "MKCOL", "DELETE", "MOVE", "GC"}, path : LeaseKeys, dst : LeaseKeys,
     overwrite : BOOLEAN,
     pc : {"idle", "look", "check", "lease", "stat", "drop", "call", "count", "judge", "release"},
     found : {"nothing", "file", "directory"}, asked : SUBSET LeaseKeys,
     held : SUBSET LeaseKeys, sure : SUBSET LeaseKeys, counted : 0 .. ChangeLimit, safe : BOOLEAN]

At(t, pc) == handler[t].pc = pc
Go(t, pc) == handler' = [handler EXCEPT ![t].pc = pc]
Answer(t) == handler' = [handler EXCEPT ![t] = NoRequest]

\* Done with the backend: what is left are the counting, which tells deletions apart,
\* and the leases.
Rest(h, pc) ==
    [NoRequest EXCEPT !.op = IF pc = "count" \/ h.op = "GC" THEN h.op ELSE "none",
                      !.pc = pc, !.held = h.held, !.sure = h.sure]
Leave(t, pc) == handler' = [handler EXCEPT ![t] = Rest(handler[t], pc)]
Close(t) == IF handler[t].held = {} THEN Answer(t) ELSE Leave(t, "release")

AtMost(n, bound) == IF n < bound THEN n ELSE bound

\* changes >= change_limit, or enough of them and too high a share of deletions.
Anomalous(counted, gone) ==
    \/ counted >= ChangeLimit
    \/ counted >= RatioMinimum /\ gone * RatioIn >= RatioOf * counted

DavInit ==
    /\ Init
    /\ handler = [t \in Threads |-> NoRequest]
    /\ lease = [k \in LeaseKeys |-> None]
    /\ changes = 0
    /\ deletes = 0
    /\ safeMode = FALSE
    /\ disturbed = FALSE

---------------------------------------------------------------------------
(* A request comes, and is answered at once or gets its leases.            *)

\* service_actions is called by one thread only.
Receive(t) ==
    /\ At(t, "idle")
    /\ \E r \in Requests :
          /\ r.op = "GC" => \A u \in Threads : handler[u].op # "GC"
          /\ handler' = [handler EXCEPT ![t] =
                [NoRequest EXCEPT
                    !.op = r.op, !.path = r.path, !.dst = r.dst, !.overwrite = r.overwrite,
                    !.pc = IF r.op = "MOVE" THEN "look"
                           ELSE IF r.op \in {"DELETE", "GC"} THEN "check" ELSE "lease",
                    !.safe = safeMode]]
    /\ UNCHANGED <<vars, valkey>>

\* A faulty variant: the Overwrite header is not heeded.
LookOverwrites(t) ==
    /\ At(t, "look")
    /\ LET found == Kind(handler[t].dst) IN
       handler' = [handler EXCEPT
           ![t].found = found,
           ![t].pc = IF found = "nothing" THEN "lease" ELSE "check"]
    /\ UNCHANGED <<vars, valkey>>

\* MOVE looks at its destination.
Look(t) ==
    /\ At(t, "look")
    /\ LET found == Kind(handler[t].dst) IN
       IF found # "nothing" /\ ~handler[t].overwrite THEN Answer(t)
       ELSE handler' = [handler EXCEPT
                ![t].found = found,
                ![t].pc = IF found = "nothing" THEN "lease" ELSE "check"]
    /\ UNCHANGED <<vars, valkey>>

\* A faulty variant: safe mode is not asked for.
CheckNothing(t) ==
    /\ At(t, "check")
    /\ Go(t, "lease")
    /\ UNCHANGED <<vars, valkey>>

\* safe_mode, which DELETE, an overwriting MOVE and gc ask for.
Check(t) ==
    /\ At(t, "check")
    /\ IF safeMode THEN Answer(t) ELSE Go(t, "lease")
    /\ UNCHANGED <<vars, valkey>>

CheckUnanswered(t) ==
    /\ ValkeyMayFail
    /\ At(t, "check")
    /\ handler' = [handler EXCEPT ![t].pc = "lease", ![t].safe = FALSE]
    /\ UNCHANGED <<vars, valkey>>

\* file_lock: the keys one by one, in a fixed order.
NextKey(t) ==
    CHOOSE k \in {handler[t].path, handler[t].dst} : k \notin handler[t].asked

Asked(t, got) ==
    LET h == handler[t]
        asked == h.asked \cup {NextKey(t)}
    IN handler' = [handler EXCEPT
           ![t].asked = asked,
           ![t].held = @ \cup got,
           ![t].sure = @ \cup got,
           ![t].pc = IF asked # {h.path, h.dst} THEN "lease"
                     ELSE IF h.op = "DELETE" THEN "stat"
                     ELSE IF h.op = "MOVE" /\ h.found # "nothing" THEN "drop"
                     ELSE "call"]

Lease(t) ==
    /\ At(t, "lease")
    /\ lease[NextKey(t)] = None
    /\ lease' = [lease EXCEPT ![NextKey(t)] = t]
    /\ Asked(t, {NextKey(t)})
    /\ UNCHANGED <<vars, changes, deletes, safeMode, disturbed>>

LeaseRefused(t) ==
    /\ At(t, "lease")
    /\ lease[NextKey(t)] # None
    /\ Close(t)
    /\ UNCHANGED <<vars, valkey>>

\* Without an answer the handler goes on without a lease.  The SET may have taken effect:
\* nobody will release that lease, and when the client library asks again it is refused.
LeaseUnanswered(t) ==
    /\ ValkeyMayFail
    /\ At(t, "lease")
    /\ \/ Asked(t, {}) /\ UNCHANGED lease
       \/ /\ lease[NextKey(t)] = None
          /\ lease' = [lease EXCEPT ![NextKey(t)] = Orphan]
          /\ Asked(t, {}) \/ Close(t)
    /\ UNCHANGED <<vars, changes, deletes, safeMode, disturbed>>

---------------------------------------------------------------------------
(* The calls of the backend.                                               *)

\* DELETE looks at what it deletes.
Stat(t) ==
    /\ At(t, "stat")
    /\ LET found == Kind(handler[t].path) IN
       IF found = "nothing" THEN Close(t)
       ELSE handler' = [handler EXCEPT ![t].found = found, ![t].pc = "drop"]
    /\ UNCHANGED <<vars, valkey>>

Deleted(t) == IF handler[t].op = "MOVE" THEN handler[t].dst ELSE handler[t].path

\* delete(path, directory=...) of what was found there.
Drop(t) ==
    /\ At(t, "drop")
    /\ IF handler[t].found = "file" THEN DeleteFile(Deleted(t)) ELSE DeleteDirectory(Deleted(t))
    /\ IF handler[t].op = "MOVE" THEN Go(t, "call") ELSE Leave(t, "count")
    /\ UNCHANGED valkey

DropFails(t) ==
    /\ At(t, "drop")
    /\ IF handler[t].found = "file" THEN ~FileExists(Deleted(t))
       ELSE ~(Deleted(t) \in dirs /\ \A q \in dirs \cup LivePaths : ~Below(q, Deleted(t)))
    /\ Close(t)
    /\ UNCHANGED <<vars, valkey>>

\* An upload may find that nothing has changed.
Put(t) ==
    /\ At(t, "call") /\ handler[t].op = "PUT"
    /\ Upload(handler[t].path) \/ (FileExists(handler[t].path) /\ UNCHANGED vars)
    /\ Leave(t, "count")
    /\ UNCHANGED valkey

Mkcol(t) ==
    /\ At(t, "call") /\ handler[t].op = "MKCOL"
    /\ Mkdir(handler[t].path)
    /\ Leave(t, "count")
    /\ UNCHANGED valkey

Move(t) ==
    /\ At(t, "call") /\ handler[t].op = "MOVE"
    /\ Rename(handler[t].path, handler[t].dst)
    /\ Leave(t, "count")
    /\ UNCHANGED valkey

MoveFails(t) ==
    /\ At(t, "call") /\ handler[t].op = "MOVE"
    /\ \/ RenameFails(handler[t].path, handler[t].dst)
       \/ (~RenameAllowed(handler[t].dst) /\ UNCHANGED vars)
    /\ Close(t)
    /\ UNCHANGED valkey

\* An upload can always fail, and mkdir refuses what is there.
PutOrMkcolFails(t) ==
    /\ At(t, "call")
    /\ \/ handler[t].op = "PUT"
       \/ /\ handler[t].op = "MKCOL"
          /\ Exists(handler[t].path) \/ ~DirectoryExists(Parent(handler[t].path))
    /\ Close(t)
    /\ UNCHANGED <<vars, valkey>>

\* gc_if_due, which is not always due.
Collect(t) ==
    /\ At(t, "call") /\ handler[t].op = "GC"
    /\ Gc \/ UNCHANGED vars
    /\ Close(t)
    /\ UNCHANGED valkey

---------------------------------------------------------------------------
(* record_change, still under the leases: count, then judge.               *)

Counted(t) ==
    /\ changes' = AtMost(changes + 1, ChangeLimit)
    /\ deletes' = IF handler[t].op = "DELETE" THEN AtMost(deletes + 1, ChangeLimit) ELSE deletes

Count(t) ==
    /\ At(t, "count")
    /\ Counted(t)
    /\ handler' = [handler EXCEPT ![t].pc = "judge", ![t].counted = changes']
    /\ UNCHANGED <<vars, lease, safeMode, disturbed>>

\* A faulty variant: too many changes only, whatever they are.
JudgeChangesOnly(t) ==
    /\ At(t, "judge")
    /\ safeMode' = (safeMode \/ handler[t].counted >= ChangeLimit)
    /\ Close(t)
    /\ UNCHANGED <<vars, lease, changes, deletes, disturbed>>

Judge(t) ==
    /\ At(t, "judge")
    /\ safeMode' = (safeMode \/ Anomalous(handler[t].counted, deletes))
    /\ Close(t)
    /\ UNCHANGED <<vars, lease, changes, deletes, disturbed>>

\* What was asked of Valkey without an answer has been done or not.
RecordUnanswered(t) ==
    /\ ValkeyMayFail
    /\ \/ /\ At(t, "count")
          /\ UNCHANGED <<changes, deletes>> \/ Counted(t)
          /\ UNCHANGED safeMode
       \/ /\ At(t, "judge")
          /\ safeMode' \in {safeMode, safeMode \/ Anomalous(handler[t].counted, deletes)}
          /\ UNCHANGED <<changes, deletes>>
    /\ Close(t)
    /\ disturbed' = TRUE
    /\ UNCHANGED <<vars, lease>>

GiveUp(t, k) ==
    LET h == handler[t] IN
    handler' = [handler EXCEPT ![t] =
        IF h.held = {k} THEN NoRequest
        ELSE [h EXCEPT !.held = h.held \ {k}, !.sure = h.sure \ {k}]]

\* A faulty variant: whoever holds the lease now loses it.
ReleaseBlindly(t, k) ==
    /\ At(t, "release") /\ k \in handler[t].held
    /\ lease' = [lease EXCEPT ![k] = None]
    /\ GiveUp(t, k)
    /\ UNCHANGED <<vars, changes, deletes, safeMode, disturbed>>

\* A lease goes if it still has the token of the request.
Release(t, k) ==
    /\ At(t, "release") /\ k \in handler[t].held
    /\ lease' = [lease EXCEPT ![k] = IF @ = t THEN None ELSE @]
    /\ GiveUp(t, k)
    /\ UNCHANGED <<vars, changes, deletes, safeMode, disturbed>>

ReleaseUnanswered(t, k) ==
    /\ ValkeyMayFail
    /\ At(t, "release") /\ k \in handler[t].held
    /\ lease' = [lease EXCEPT ![k] = IF @ = t THEN Orphan ELSE @]
    /\ GiveUp(t, k)
    /\ UNCHANGED <<vars, changes, deletes, safeMode, disturbed>>

---------------------------------------------------------------------------
\* A lease lapses after its TTL: its request is gone, or its renewal has stopped.
Lapse(k) ==
    /\ lease[k] # None
    /\ lease' = [lease EXCEPT ![k] = None]
    /\ handler' = [t \in Threads |->
          IF lease[k] = t THEN [handler[t] EXCEPT !.sure = @ \ {k}] ELSE handler[t]]
    /\ UNCHANGED <<vars, changes, deletes, safeMode, disturbed>>

\* Every deletion renews both counters: changes:5min is not gone before deletes:5min.
Expire ==
    /\ changes > 0
    /\ deletes' = 0
    /\ changes' \in {0} \cup (IF deletes > 0 THEN {changes} ELSE {})
    /\ disturbed' = (disturbed /\ changes' > 0)
    /\ UNCHANGED <<vars, handler, lease, safeMode>>

\* The operator turns safe mode off.
ClearSafeMode ==
    /\ safeMode
    /\ safeMode' = FALSE
    /\ handler' = [t \in Threads |-> [handler[t] EXCEPT !.safe = FALSE]]
    /\ disturbed' = TRUE
    /\ UNCHANGED <<vars, lease, changes, deletes>>

\* The gateway is killed and started again.
Crash ==
    /\ \E t \in Threads : ~At(t, "idle")
    /\ handler' = [t \in Threads |-> NoRequest]
    /\ lease' = [k \in LeaseKeys |-> IF lease[k] = None THEN None ELSE Orphan]
    /\ disturbed' = TRUE
    /\ UNCHANGED <<vars, changes, deletes, safeMode>>

Serve(t) ==
    \/ Receive(t) \/ Look(t) \/ Check(t) \/ CheckUnanswered(t)
    \/ Lease(t) \/ LeaseRefused(t) \/ LeaseUnanswered(t)
    \/ Stat(t) \/ Drop(t) \/ DropFails(t)
    \/ Put(t) \/ Mkcol(t) \/ Move(t) \/ MoveFails(t) \/ PutOrMkcolFails(t) \/ Collect(t)
    \/ Count(t) \/ Judge(t) \/ RecordUnanswered(t)
    \/ \E k \in LeaseKeys : Release(t, k) \/ ReleaseUnanswered(t, k)

DavNext ==
    \/ \E t \in Threads : Serve(t)
    \/ \E k \in LeaseKeys : Lapse(k)
    \/ Expire \/ ClearSafeMode \/ Crash

DavSpec == DavInit /\ [][DavNext]_davVars

---------------------------------------------------------------------------
(* Properties.                                                             *)

DavTypeOK ==
    /\ TypeOK
    /\ handler \in [Threads -> Handler]
    /\ lease \in [LeaseKeys -> Threads \cup {None, Orphan}]
    /\ {changes, deletes} \subseteq 0 .. ChangeLimit
    /\ {safeMode, disturbed} \subseteq BOOLEAN

\* Two requests are never both sure of a key, whatever lapses, is released late or is
\* left behind: the one that has lost its lease is the only one mistaken (file_lock).
LeasesProtect ==
    \A t \in Threads : \A k \in handler[t].sure : lease[k] = t

\* Too many changes or deletions in the window never go unnoticed (record_change): with
\* Valkey answering, once everybody who has counted has judged, safe mode is on, though
\* each judges with its own count of the changes and a later count of the deletions.
SafeModeEntered ==
    disturbed \/ safeMode \/ ~Anomalous(changes, deletes)
        \/ \E t \in Threads : At(t, "judge")

Lost == (CurrentManifests \cup ArchivedManifests) \ (CurrentManifests' \cup ArchivedManifests')

\* A request that came in safe mode destroys nothing while it stays on, and takes no
\* file away: a PUT archives what it replaces.  Lost are only the history that a MOVE
\* finds under a tombstone, and a version with the number of the one a PUT archives,
\* after a directory was renamed over tombstones.
SafeModeKeeps ==
    [][\A t \in Threads :
          handler[t].safe /\ handler'[t] # handler[t] =>
             /\ \A r \in versions : r.manifest \in Lost =>
                   \/ r.path = handler[t].dst /\ (Move(t) \/ MoveFails(t))
                   \/ r.path = handler[t].path /\ Put(t) /\ r.version = files[r.path].version
             /\ Put(t) \/ CurrentManifests \subseteq CurrentManifests']_davVars

\* A file goes from its path by a DELETE of it, by a MOVE of it or of what LIKE takes
\* for a directory above it, or by a MOVE onto it that may overwrite and had found a file
\* there, however old that look is by then.
GoesOnRequest ==
    [][\A p \in LivePaths : files'[p] = NoRow =>
          \E t \in Threads :
             \/ handler[t].op = "DELETE" /\ handler[t].path = p
             \/ handler[t].op = "MOVE" /\ (handler[t].path = p \/ Below(p, handler[t].path))
             \/ /\ handler[t].op = "MOVE" /\ handler[t].dst = p
                /\ handler[t].overwrite /\ handler[t].found = "file"]_davVars
=============================================================================
