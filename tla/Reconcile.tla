------------------------------ MODULE Reconcile ------------------------------
(***************************************************************************)
(* EncryptedBackend._reconcile (encryption_backend.py), which list runs    *)
(* before it answers: files whose encrypted components have gone from      *)
(* iCloud are counted as missing, and hidden once they have been missing   *)
(* often and long enough.                                                  *)
(*                                                                         *)
(* The namespace is that of the module Namespace.  Several gateways share  *)
(* it; a gateway does nothing else while it reconciles, but the others     *)
(* go on, one whole call at a time.  The transaction that hides files runs *)
(* under READ COMMITTED and list takes no lease, so each of its statements *)
(* is a step; what it has written shows, and takes effect, at its commit.  *)
(* Time is counted in minutes.                                             *)
(***************************************************************************)
EXTENDS Namespace

CONSTANTS
    Gateways,
    ReconcileInterval,   \* least time between two reconciliations of a gateway
    MissingObservations, \* how often a file must be missing before it is hidden
    MissingGrace         \* and for how long

ASSUME ReconcileLimitsAreNumbers ==
    /\ {ReconcileInterval, MissingGrace} \subseteq Nat
    /\ MissingObservations \in Nat \ {0}

VARIABLES
    lost,      \* versions with a component deleted in iCloud Web
    outage,    \* minutes for which iCloud has left out what it has, or NoOutage
    observed,  \* cas_missing_observations: the row of a path
    since,     \* minutes since a gateway's last reconciliation
    listing    \* the reconciliation a gateway is in the middle of

reconcileVars == <<lost, outage, observed, since, listing>>
allVars == <<vars, reconcileVars>>

---------------------------------------------------------------------------
\* A row has the number of observations and the minutes since first_seen.  Not in
\* the table, but told apart here: the version that was missing first, and whether
\* some observation was of another version or of one committed after the listing.
NoObservation == [count |-> 0, age |-> 0, first |-> 0, mixed |-> FALSE]
Observation == [count : 0 .. MissingObservations, age : 0 .. MissingGrace,
                first : Manifests \cup {0}, mixed : BOOLEAN]

\* What iCloud showed, whether that was all it had, and how many uploads there were
\* then; the rows of cas_files that were read, later those of them that are missing; and
\* of the transaction: the paths with an observation at its start, those confirmed, those
\* of them still to do, the row in hand, the rows it has read, archived and deleted, the
\* tombstones it has set, and the paths whose history had the number of the row already.
NoVersion == [path |-> <<>>, version |-> 0, manifest |-> 0]
NoListing == [stage |-> "none", whole |-> TRUE, seen |-> {}, from |-> 0, rows |-> {},
              known |-> {}, confirmed |-> {}, todo |-> {}, row |-> NoVersion,
              read |-> {}, archived |-> {}, gone |-> {}, marked |-> {}, taken |-> {}]
Stages == {"none", "listed", "read", "compared", "begun", "counted", "insert", "delete", "mark"}
Listing == [stage : Stages, whole : BOOLEAN, seen : SUBSET Manifests, from : 0 .. MaxUploads,
            rows : SUBSET [path : Paths, manifest : Manifests],
            known : SUBSET Paths, confirmed : SUBSET Paths, todo : SUBSET Paths,
            row : Version \cup {NoVersion},
            read : SUBSET Version, archived : SUBSET Version, gone : SUBSET Version,
            marked : SUBSET Paths, taken : SUBSET Paths]

NoOutage == -1

Idle(g) == listing[g] = NoListing

\* The listing of g moves on; the other gateways' are what they were.
Become(g, l) == listing' = [listing EXCEPT ![g] = l]
Stored == (1 .. uploads) \ lost
AtMost(n, bound) == IF n < bound THEN n ELSE bound
RowAt(p) == [path |-> p, version |-> files[p].version, manifest |-> files[p].manifest]
PathsOf(rows) == {r.path : r \in rows}

ReconcileInit ==
    /\ Init
    /\ lost = {}
    /\ outage = NoOutage
    /\ observed = [p \in Paths |-> NoObservation]
    /\ since = [g \in Gateways |-> ReconcileInterval]
    /\ listing = [g \in Gateways |-> NoListing]

---------------------------------------------------------------------------
\* The four folders are listed.  A version that is just being uploaded may be there.
ListICloud(g) ==
    /\ Idle(g)
    /\ since[g] >= ReconcileInterval
    /\ \E early \in SUBSET ({uploads + 1} \cap Manifests) :
          Become(g, [NoListing EXCEPT !.stage = "listed", !.seen = Stored \cup early,
                                      !.from = uploads])
    /\ UNCHANGED <<vars, lost, outage, observed, since>>

\* iCloud answers with less than it has; each time for less than MissingGrace, until
\* listings of all there is have been recorded and have settled every observation.
ListFaulty(g) ==
    /\ Idle(g)
    /\ since[g] >= ReconcileInterval
    /\ outage' = IF outage = NoOutage THEN 0 ELSE outage
    /\ outage' < MissingGrace
    /\ \E seen \in SUBSET Stored \ {Stored} :
          Become(g, [NoListing EXCEPT !.stage = "listed", !.whole = FALSE, !.seen = seen,
                                      !.from = uploads])
    /\ UNCHANGED <<vars, lost, observed, since>>

\* SELECT * FROM cas_files
ReadFiles(g) ==
    /\ listing[g].stage = "listed"
    /\ Become(g, [listing[g] EXCEPT
          !.stage = "read",
          !.rows = {[path |-> p, manifest |-> files[p].manifest] : p \in LivePaths}])
    /\ UNCHANGED <<vars, lost, outage, observed, since>>

\* Each version is looked up in what was listed.  One that is neither current nor
\* archived any more may have been collected: with its manifest row gone it is missing.
Compare(g) ==
    /\ listing[g].stage = "read"
    /\ LET rows == listing[g].rows
           dropped == {r \in rows : r.manifest \notin CurrentManifests \cup ArchivedManifests}
       IN \E collected \in SUBSET dropped :
             Become(g, [listing[g] EXCEPT
                !.stage = "compared",
                !.rows = collected \cup {r \in rows \ dropped : r.manifest \notin listing[g].seen}])
    /\ UNCHANGED <<vars, lost, outage, observed, since>>

\* The transaction begins: SELECT path FROM cas_missing_observations
Begin(g) ==
    /\ listing[g].stage = "compared"
    /\ Become(g, [listing[g] EXCEPT !.stage = "begun",
                                    !.known = {p \in Paths : observed[p].count > 0}])
    /\ UNCHANGED <<vars, lost, outage, observed, since>>

MissingPaths(g) == PathsOf(listing[g].rows)

\* The observation of p after one more, of version m.
Again(g, p, m) ==
    LET old == IF observed[p].count > 0 THEN observed[p] ELSE [NoObservation EXCEPT !.first = m]
    IN [old EXCEPT !.count = AtMost(@ + 1, MissingObservations),
                   !.mixed = \/ @ \/ m # old.first
                             \/ m > listing[g].from \/ m \in listing[g].seen]
MissingVersion(g, p) == (CHOOSE r \in listing[g].rows : r.path = p).manifest

\* A faulty variant: every observation starts the count again.
CountedAnew(g, p) ==
    IF p \in MissingPaths(g)
    THEN [NoObservation EXCEPT !.count = 1, !.first = MissingVersion(g, p)]
    ELSE IF p \in listing[g].known THEN NoObservation ELSE observed[p]

\* The row of p after the counting: one more if p is missing; if not, it goes, unless
\* another gateway has put it there since.
Counted(g, p) ==
    IF p \in MissingPaths(g) THEN Again(g, p, MissingVersion(g, p))
    ELSE IF p \in listing[g].known THEN NoObservation ELSE observed[p]

\* A faulty variant: missing for long enough whatever the clock says.
LongEnoughAtOnce(row) == row.count >= MissingObservations

LongEnough(row) == row.count >= MissingObservations /\ row.age >= MissingGrace

Confirmed(g) == {p \in Paths : Counted(g, p).count > 0 /\ LongEnough(Counted(g, p))}

InTransaction(g) == listing[g].stage \in {"counted", "insert", "delete", "mark"}

\* The observations the transaction of g has written: another that needs one waits.
Touched(g) == MissingPaths(g) \cup listing[g].known \cup listing[g].confirmed
Others(g) == {h \in Gateways \ {g} : InTransaction(h)}

\* Delete and upsert the observations, and select the confirmed ones.
Count(g) ==
    /\ listing[g].stage = "begun"
    /\ \A h \in Others(g) :
          Touched(h) \cap (MissingPaths(g) \cup listing[g].known \cup Confirmed(g)) = {}
    /\ Become(g, [listing[g] EXCEPT !.stage = "counted",
                                    !.confirmed = Confirmed(g), !.todo = Confirmed(g)])
    /\ UNCHANGED <<vars, lost, outage, observed, since>>

\* SELECT * FROM cas_files WHERE path: there is a row, and nothing locks it ..
ReadRow(g, p) ==
    /\ listing[g].stage = "counted"
    /\ p \in listing[g].todo
    /\ FileExists(p)
    /\ Become(g, [listing[g] EXCEPT !.stage = "insert", !.row = RowAt(p),
                                    !.read = @ \cup {RowAt(p)}])
    /\ UNCHANGED <<vars, lost, outage, observed, since>>

\* .. or there is none, and nothing to hide.
SkipRow(g, p) ==
    /\ listing[g].stage = "counted"
    /\ p \in listing[g].todo
    /\ ~FileExists(p)
    /\ Become(g, [listing[g] EXCEPT !.todo = @ \ {p}])
    /\ UNCHANGED <<vars, lost, outage, observed, since>>

\* INSERT INTO cas_versions .. ON CONFLICT(path, version) DO NOTHING.  UNIQUE(manifest_id)
\* can refuse it, and the call fails.
InsertVersion(g) ==
    LET row == listing[g].row
        taken == \E r \in HistoryOf(row.path) : r.version = row.version
    IN /\ listing[g].stage = "insert"
       /\ taken \/ \A r \in versions \cup UNION {listing[h].archived : h \in Gateways} :
                       r.manifest # row.manifest
       /\ Become(g, [listing[g] EXCEPT
             !.stage = "delete",
             !.archived = IF taken THEN @ ELSE @ \cup {row},
             !.taken = IF taken THEN @ \cup {row.path} ELSE @])
       /\ UNCHANGED <<vars, lost, outage, observed, since>>

\* DELETE FROM cas_files WHERE path: whatever row is there by now.
DeleteRow(g) ==
    LET p == listing[g].row.path
    IN /\ listing[g].stage = "delete"
       /\ Become(g, [listing[g] EXCEPT
             !.stage = "mark",
             !.gone = IF FileExists(p) THEN @ \cup {RowAt(p)} ELSE @])
       /\ UNCHANGED <<vars, lost, outage, observed, since>>

\* INSERT INTO cas_deleted .. ON CONFLICT(path) DO UPDATE
MarkDeleted(g) ==
    /\ listing[g].stage = "mark"
    /\ Become(g, [listing[g] EXCEPT !.stage = "counted", !.row = NoVersion,
                                    !.todo = @ \ {listing[g].row.path},
                                    !.marked = @ \cup {listing[g].row.path}])
    /\ UNCHANGED <<vars, lost, outage, observed, since>>

\* Faulty variants: the row stays, without a manifest; hidden files leave no history.
HideClearsManifest(g) ==
    /\ versions' = versions \cup listing[g].archived
    /\ files' = [p \in Paths |-> IF p \in PathsOf(listing[g].gone)
                                 THEN [files[p] EXCEPT !.manifest = 0] ELSE files[p]]
    /\ deleted' = deleted \cup listing[g].marked
    /\ UNCHANGED <<dirs, uploads>>
HideForgets(g) ==
    /\ files' = [p \in Paths |-> IF p \in PathsOf(listing[g].gone) THEN NoRow ELSE files[p]]
    /\ deleted' = deleted \cup listing[g].marked
    /\ UNCHANGED <<dirs, versions, uploads>>

\* What the transaction wrote to the namespace shows.
Hide(g) ==
    /\ versions' = versions \cup listing[g].archived
    /\ files' = [p \in Paths |-> IF p \in PathsOf(listing[g].gone) THEN NoRow ELSE files[p]]
    /\ deleted' = deleted \cup listing[g].marked
    /\ UNCHANGED <<dirs, uploads>>

\* All gateways have seen all there is, and no observation is left that g has not seen.
Settles(g) ==
    /\ \A h \in Gateways : listing[h].whole
    /\ \A p \in Paths : observed[p].count > 0 => p \in MissingPaths(g) \cup listing[g].known

Commit(g) ==
    /\ listing[g].stage = "counted"
    /\ listing[g].todo = {}
    /\ Hide(g)
    /\ observed' = [p \in Paths |->
          IF p \in listing[g].confirmed THEN NoObservation ELSE Counted(g, p)]
    /\ since' = [since EXCEPT ![g] = 0]
    /\ Become(g, NoListing)
    /\ outage' = IF Settles(g) THEN NoOutage ELSE outage
    /\ UNCHANGED lost

\* A listing or a statement raises, and the request fails; what the transaction wrote is
\* rolled back, and _last_reconcile stays.
ListingFails(g) ==
    /\ ~Idle(g)
    /\ Become(g, NoListing)
    /\ UNCHANGED <<vars, lost, outage, observed, since>>

\* A gateway that starts again has _last_reconcile = 0.
Restart(g) ==
    /\ since' = [since EXCEPT ![g] = ReconcileInterval]
    /\ Become(g, NoListing)
    /\ UNCHANGED <<vars, lost, outage, observed>>

---------------------------------------------------------------------------
\* What the open transactions have written is locked: the deleted rows of cas_files, the
\* tombstones, and the keys of the archived rows.  UNIQUE(manifest_id) holds for all rows.
LocksKept ==
    /\ \A g \in Gateways :
          /\ \A p \in PathsOf(listing[g].gone) : files'[p] = files[p]
          /\ \A p \in listing[g].marked : p \in deleted <=> p \in deleted'
          /\ \A r \in listing[g].archived, v \in versions' \ versions :
                v.manifest # r.manifest /\ <<v.path, v.version>> # <<r.path, r.version>>
    /\ \A v, w \in versions' : v.manifest = w.manifest => v = w

\* Any other call: other gateways go on while one reconciles.
Call ==
    /\ Next
    /\ LocksKept
    /\ UNCHANGED reconcileVars

\* Somebody deletes a component of a version in iCloud Web.
Lose ==
    /\ \E m \in Stored : lost' = lost \cup {m}
    /\ UNCHANGED <<vars, outage, observed, since, listing>>

\* A minute passes.  A reconciliation is over before the next one ends.
Tick ==
    /\ \A g \in Gateways : Idle(g)
    /\ observed' = [p \in Paths |->
          IF observed[p].count = 0 THEN NoObservation
          ELSE [observed[p] EXCEPT !.age = AtMost(@ + 1, MissingGrace)]]
    /\ since' = [g \in Gateways |-> AtMost(since[g] + 1, ReconcileInterval)]
    /\ outage' = IF outage = NoOutage THEN NoOutage ELSE AtMost(outage + 1, MissingGrace)
    /\ UNCHANGED <<vars, lost, listing>>

Reconciling(g) ==
    \/ ListICloud(g) \/ ListFaulty(g) \/ ReadFiles(g) \/ Compare(g)
    \/ Begin(g) \/ Count(g) \/ InsertVersion(g) \/ DeleteRow(g) \/ MarkDeleted(g) \/ Commit(g)
    \/ \E p \in Paths : ReadRow(g, p) \/ SkipRow(g, p)
    \/ ListingFails(g) \/ Restart(g)

ReconcileNext == Call \/ Lose \/ Tick \/ \E g \in Gateways : Reconciling(g)

ReconcileSpec == ReconcileInit /\ [][ReconcileNext]_allVars

\* The database refuses to archive the row, and the request will fail.
Refused(g) == listing[g].stage = "insert" /\ ~ENABLED InsertVersion(g)

\* Clients keep listing directories, there are pauses in which no gateway lists, time
\* passes in them, and reconciliations that are begun again and again are not all cut
\* short: some commit, unless the database refuses.
ReconcileFairness ==
    /\ []<>(\A g \in Gateways : Idle(g))
    /\ SF_allVars(Tick)
    /\ WF_allVars(\E g \in Gateways : ListICloud(g))
    /\ \/ <>[](\A g \in Gateways : listing[g].stage # "listed")
       \/ []<>(\E g \in Gateways : Refused(g))
       \/ []<><<\E g \in Gateways : Commit(g)>>_allVars

ReconcileFairSpec == ReconcileSpec /\ ReconcileFairness

---------------------------------------------------------------------------
(* Properties.                                                             *)

ReconcileTypeOK ==
    /\ TypeOK
    /\ lost \subseteq Manifests
    /\ outage \in {NoOutage} \cup 0 .. MissingGrace
    /\ observed \in [Paths -> Observation]
    /\ since \in [Gateways -> 0 .. ReconcileInterval]
    /\ listing \in [Gateways -> Listing]

\* While iCloud leaves things out for less than the grace only, _reconcile hides no
\* file whose components are all there, whatever other gateways commit between the
\* listing, the reading of cas_files and the commit.  Two cases are left: rows are
\* counted by path, and the version that was missing first is not the one that is
\* hidden; and one of the observations was of another version, or of one that was
\* committed while the listing was under way or collected before it was looked up.
IntactStays ==
    [][\A g \in Gateways : Commit(g) =>
          \A r \in listing[g].gone :
              \/ r.manifest \in lost
              \/ Counted(g, r.path).first # r.manifest
              \/ Counted(g, r.path).mixed]_allVars

\* Another version was current when the transaction read the row of p.
Replaced(g, p) == \E r \in listing[g].read : r.path = p /\ r.manifest # files[p].manifest

\* What a listing hides becomes history, as with a deletion by a client, in recovery
\* mode, too, where listing reconciles but nothing may be changed for good.  Lost is only
\* a version whose number the history of its path had already (a directory was renamed
\* over tombstones, or an earlier transaction archived a row that had gone meanwhile), and
\* one that another gateway committed between the reading of the row and its deletion.
ListingDropsNothing ==
    [][\A g \in Gateways : Commit(g) =>
          /\ ArchivedManifests \subseteq ArchivedManifests'
          /\ \A p \in LivePaths :
                \/ files[p].manifest \in CurrentManifests' \cup ArchivedManifests'
                \/ p \in listing[g].taken
                \/ Replaced(g, p)]_allVars

\* No path serves a version for ever whose components are gone: if clients keep
\* listing, the file is hidden, unless it is replaced, moved or deleted before.
LostNotServed ==
    \A p \in Paths, m \in Manifests : ~<>[](files[p].manifest = m /\ m \in lost)
=============================================================================
