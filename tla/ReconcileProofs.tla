---------------------------- MODULE ReconcileProofs ----------------------------
(***************************************************************************)
(* Theorems about the module Reconcile, for any gateways, paths and        *)
(* limits.                                                                 *)
(***************************************************************************)
EXTENDS Reconcile, NamespaceProofs

---------------------------------------------------------------------------
(* The invariant.                                                          *)

ObservedInv ==
  /\ lost \subseteq Manifests
  /\ outage \in {NoOutage} \cup 0 .. MissingGrace
  /\ outage # NoOutage => MissingGrace > 0
  /\ observed \in [Paths -> Observation]
  /\ since \in [Gateways -> 0 .. ReconcileInterval]
  /\ listing \in [Gateways -> Listing]

\* A listing of all there is has what was uploaded before and is not lost; another one
\* is from a minute in which iCloud leaves things out.
Honest(l) ==
  /\ l.whole /\ l.stage # "none" => \A m \in Manifests : m <= l.from /\ m \notin lost => m \in l.seen
  /\ ~l.whole => outage # NoOutage /\ outage < MissingGrace

\* A version that has been missed at rest though it is there has been missed no longer
\* than iCloud leaves things out.
Excused(row) ==
  row.count > 0 /\ ~row.mixed /\ row.first \notin lost => row.age <= outage

MissingInv ==
  /\ ObservedInv
  /\ \A g \in Gateways : Honest(listing[g])
  /\ \A p \in Paths : Excused(observed[p])

\* What the transaction of a gateway has written so far: the rows it has read are archived,
\* unless their number was taken; those it has deleted are locked, and it read one of
\* their path before.
Pending(g) ==
  LET l == listing[g] IN
  /\ l.todo \subseteq l.confirmed
  /\ l.stage \in {"insert", "delete", "mark"} => l.row \in l.read
  /\ \A r \in l.read : r.path \in l.confirmed /\ r.version <= uploads /\ r.manifest <= uploads
  /\ l.archived \subseteq l.read
  /\ \A r \in l.read :
        r \in l.archived \/ r.path \in l.taken \/ (l.stage = "insert" /\ r = l.row)
  /\ \A r \in l.gone : /\ FileExists(r.path) /\ RowAt(r.path) = r
                        /\ \E q \in l.read : q.path = r.path
  /\ ~InTransaction(g) => l.read = {} /\ l.gone = {}
Pendings == \A g \in Gateways : Pending(g)

\* The confirmed observations are long enough and stay so.
Due(g) ==
  InTransaction(g) =>
     \A p \in listing[g].confirmed : Counted(g, p).count > 0 /\ LongEnough(Counted(g, p))

\* Observations that have come since the transaction began are of this minute.
Recent(g) ==
  InTransaction(g) \/ listing[g].stage = "begun" =>
     \A p \in Paths \ listing[g].known : observed[p].count > 0 => observed[p].age = 0

\* Two transactions have no observation in common.
Apart ==
  \A g, h \in Gateways : g # h /\ InTransaction(g) /\ InTransaction(h) =>
     Touched(g) \cap Touched(h) = {}

TxInv == Pendings /\ Apart /\ \A g \in Gateways : Due(g) /\ Recent(g)

LEMMA Limits ==
  /\ ReconcileInterval \in Nat /\ MissingGrace \in Nat /\ MissingObservations \in Nat
  /\ MissingObservations > 0 /\ NoOutage = -1
BY ReconcileLimitsAreNumbers DEF NoOutage

LEMMA Nothing ==
  /\ NoObservation \in Observation /\ NoObservation.count = 0
  /\ NoListing \in Listing /\ NoListing.whole /\ NoListing.stage = "none"
<1>1. MaxUploads \in Nat
  BY BoundsAreNumbers
<1>2. NoListing \in Listing
  BY <1>1 DEF NoListing, Listing, Stages
<1> QED
  BY <1>2, Limits DEF NoObservation, Observation, NoListing

LEMMA NothingSaid == Honest(NoListing) /\ Excused(NoObservation)
BY Nothing DEF Honest, Excused

LEMMA ReconcileInitInv == ReconcileInit => MissingInv
<1> SUFFICES ASSUME ReconcileInit PROVE MissingInv
  OBVIOUS
<1>1. ObservedInv
  BY Nothing, Limits DEF ReconcileInit, ObservedInv
<1> QED
  BY <1>1, NothingSaid DEF ReconcileInit, MissingInv

---------------------------------------------------------------------------
(* Observations.                                                           *)

LEMMA AtMostTyped ==
  \A n, bound \in Nat : /\ AtMost(n, bound) \in 0 .. bound /\ AtMost(n, bound) <= n
                        /\ (n > 0 /\ bound > 0 => AtMost(n, bound) > 0)
BY DEF AtMost

LEMMA AgainRow ==
  ASSUME MissingInv, NEW g \in Gateways, NEW p \in Paths, NEW m \in Manifests
  PROVE  LET c == Again(g, p, m)
         IN /\ c \in Observation
            /\ c.age = IF observed[p].count > 0 THEN observed[p].age ELSE 0
            /\ ~c.mixed => /\ m = c.first /\ m <= listing[g].from /\ m \notin listing[g].seen
                           /\ observed[p].count > 0 =>
                                 ~observed[p].mixed /\ observed[p].first = c.first
<1> DEFINE old == IF observed[p].count > 0 THEN observed[p] ELSE [NoObservation EXCEPT !.first = m]
           c == [old EXCEPT !.count = AtMost(@ + 1, MissingObservations),
                            !.mixed = \/ @ \/ m # old.first
                                      \/ m > listing[g].from \/ m \in listing[g].seen]
<1>1. Again(g, p, m) = c
  BY DEF Again
<1>2. observed[p] \in Observation
  BY DEF MissingInv, ObservedInv
<1>3. [NoObservation EXCEPT !.first = m] \in Observation
  BY Nothing DEF Observation
<1>4. old \in Observation
  BY <1>2, <1>3
<1>5. IF observed[p].count > 0 THEN old = observed[p] ELSE old.first = m /\ old.age = 0
  BY DEF NoObservation
<1> HIDE DEF old
<1>6. old.count + 1 \in Nat
  BY <1>4, Limits DEF Observation
<1>7. AtMost(old.count + 1, MissingObservations) \in 0 .. MissingObservations
  BY <1>6, Limits, AtMostTyped
<1>8. /\ c \in Observation /\ c.first = old.first /\ c.age = old.age
      /\ ~c.mixed => /\ ~old.mixed /\ m = old.first
                     /\ ~(m > listing[g].from) /\ m \notin listing[g].seen
  BY <1>4, <1>7 DEF Observation
<1>9. listing[g].from \in Nat /\ m \in Nat
  BY BoundsAreNumbers DEF MissingInv, ObservedInv, Listing, Manifests
<1> HIDE DEF c
<1> QED
  BY <1>1, <1>5, <1>8, <1>9

\* What is counted depends on the listing and the observation alone.
LEMMA CountedSame ==
  ASSUME NEW g \in Gateways, NEW p,
         listing'[g].rows = listing[g].rows, listing'[g].from = listing[g].from,
         listing'[g].seen = listing[g].seen, listing'[g].known = listing[g].known,
         observed'[p] = observed[p]
  PROVE  Counted(g, p)' = Counted(g, p)
<1>1. MissingPaths(g)' = MissingPaths(g) /\ MissingVersion(g, p)' = MissingVersion(g, p)
  BY DEF MissingPaths, MissingVersion, PathsOf
<1>2. Again(g, p, MissingVersion(g, p))' = Again(g, p, MissingVersion(g, p))
  BY <1>1 DEF Again
<1> QED
  BY <1>1, <1>2 DEF Counted

LEMMA MissingTyped ==
  ASSUME MissingInv, NEW g \in Gateways, NEW p \in MissingPaths(g)
  PROVE  MissingVersion(g, p) \in Manifests
<1>1. \E r \in listing[g].rows : r.path = p
  BY DEF MissingPaths, PathsOf
<1>2. PICK r : r = CHOOSE q \in listing[g].rows : q.path = p
  OBVIOUS
<1>3. r \in listing[g].rows /\ listing[g] \in Listing
  BY <1>1, <1>2 DEF MissingInv, ObservedInv
<1> QED
  BY <1>2, <1>3 DEF MissingVersion, Listing

LEMMA CountedTyped ==
  ASSUME MissingInv, NEW g \in Gateways, NEW p \in Paths
  PROVE  Counted(g, p) \in Observation
<1>1. observed[p] \in Observation
  BY DEF MissingInv, ObservedInv
<1>2. p \in MissingPaths(g) => Counted(g, p) \in Observation
  BY MissingTyped, AgainRow DEF Counted
<1> QED
  BY <1>1, <1>2, Nothing DEF Counted

\* What is not lost is missed only while iCloud leaves things out.
LEMMA MissedInOutage ==
  ASSUME MissingInv, NEW g \in Gateways, listing[g].stage # "none", NEW m \in Manifests,
         m <= listing[g].from, m \notin listing[g].seen, m \notin lost
  PROVE  ~listing[g].whole /\ outage \in Nat /\ outage < MissingGrace
<1>1. listing[g] \in Listing /\ Honest(listing[g])
  BY DEF MissingInv, ObservedInv
<1>2. ~listing[g].whole
  BY <1>1 DEF Honest
<1> QED
  BY <1>1, <1>2, Limits DEF Honest, MissingInv, ObservedInv

LEMMA CountedExcused ==
  ASSUME MissingInv, NEW g \in Gateways, listing[g].stage # "none", NEW p \in Paths
  PROVE  /\ Excused(Counted(g, p))
         /\ p \in MissingPaths(g) => LET c == Counted(g, p)
                                     IN ~c.mixed /\ c.first \notin lost =>
                                           outage \in Nat /\ outage < MissingGrace
         /\ listing[g].whole /\ p \in MissingPaths(g) =>
               Counted(g, p).mixed \/ Counted(g, p).first \in lost
<1>1. CASE p \notin MissingPaths(g)
  BY <1>1, NothingSaid DEF Counted, MissingInv
<1>2. CASE p \in MissingPaths(g)
  <2> DEFINE c == Counted(g, p)
             m == MissingVersion(g, p)
  <2>1. m \in Manifests
    BY <1>2, MissingTyped
  <2>2. c = Again(g, p, m)
    BY <1>2 DEF Counted
  <2>3. ~c.mixed => /\ m = c.first /\ m <= listing[g].from /\ m \notin listing[g].seen
                    /\ observed[p].count > 0 =>
                          ~observed[p].mixed /\ observed[p].first = c.first
                    /\ c.age = IF observed[p].count > 0 THEN observed[p].age ELSE 0
    BY <2>1, <2>2, AgainRow
  <2> HIDE DEF c, m
  <2>4. ~c.mixed /\ c.first \notin lost =>
           outage \in Nat /\ outage < MissingGrace /\ ~listing[g].whole
    BY <2>1, <2>3, MissedInOutage
  <2>5. Excused(observed[p])
    BY DEF MissingInv
  <2>6. Excused(c)
    BY <2>3, <2>4, <2>5 DEF Excused
  <2> QED
    BY <2>4, <2>6 DEF c
<1> QED
  BY <1>1, <1>2

---------------------------------------------------------------------------
(* The steps of a reconciliation.                                          *)

\* A gateway's listing changes.
LEMMA ListingStep ==
  ASSUME MissingInv, NEW g \in Gateways, NEW l \in Listing, Honest(l),
         listing' = [listing EXCEPT ![g] = l], UNCHANGED <<lost, outage, observed>>,
         since' \in [Gateways -> 0 .. ReconcileInterval]
  PROVE  MissingInv'
<1>1. listing \in [Gateways -> Listing]
  BY DEF MissingInv, ObservedInv
<1>2. listing' \in [Gateways -> Listing] /\ \A h \in Gateways : listing'[h] = listing[h] \/ listing'[h] = l
  BY <1>1
<1>3. ObservedInv'
  BY <1>2 DEF MissingInv, ObservedInv
<1>4. \A h \in Gateways : Honest(listing[h])'
  BY <1>2 DEF MissingInv, Honest
<1>5. \A p \in Paths : Excused(observed[p])'
  BY DEF MissingInv, Excused
<1> QED
  BY <1>3, <1>4, <1>5 DEF MissingInv

LEMMA ListInv ==
  ASSUME TypeInv, MissingInv, NEW g \in Gateways, ListICloud(g)
  PROVE  MissingInv'
<1>1. PICK early \in SUBSET ({uploads + 1} \cap Manifests) :
          listing' = [listing EXCEPT ![g] =
              [NoListing EXCEPT !.stage = "listed", !.seen = Stored \cup early, !.from = uploads]]
  BY DEF ListICloud, Become
<1> DEFINE l == [NoListing EXCEPT !.stage = "listed", !.seen = Stored \cup early, !.from = uploads]
<1>2. uploads \in 0 .. MaxUploads /\ MaxUploads \in Nat
  BY BoundsAreNumbers DEF TypeInv, TypeOK
<1>s. Stored \subseteq Manifests
  BY <1>2 DEF Stored, Manifests
<1>3. Stored \cup early \subseteq Manifests
  BY <1>1, <1>s
<1>4. /\ l \in Listing /\ l.stage = "listed" /\ l.whole
      /\ l.seen = Stored \cup early /\ l.from = uploads
  BY <1>2, <1>3, Nothing DEF Listing, Stages
<1>5. \A m \in Manifests : m <= uploads /\ m \notin lost => m \in Stored
  BY <1>2 DEF Manifests, Stored
<1> HIDE DEF l
<1>6. Honest(l)
  BY <1>4, <1>5 DEF Honest
<1>7. since' \in [Gateways -> 0 .. ReconcileInterval]
  BY DEF ListICloud, MissingInv, ObservedInv
<1> QED
  BY <1>1, <1>4, <1>6, <1>7, ListingStep DEF ListICloud, l

LEMMA ListFaultyInv ==
  ASSUME TypeInv, MissingInv, NEW g \in Gateways, ListFaulty(g)
  PROVE  MissingInv'
<1>1. PICK seen \in SUBSET Stored \ {Stored} :
          listing' = [listing EXCEPT ![g] =
              [NoListing EXCEPT !.stage = "listed", !.whole = FALSE, !.seen = seen, !.from = uploads]]
  BY DEF ListFaulty, Become
<1> DEFINE l == [NoListing EXCEPT !.stage = "listed", !.whole = FALSE, !.seen = seen, !.from = uploads]
<1>2. uploads \in 0 .. MaxUploads /\ MaxUploads \in Nat
  BY BoundsAreNumbers DEF TypeInv, TypeOK
<1>3. seen \subseteq Manifests
  BY <1>1, <1>2 DEF Stored, Manifests
<1>4. l \in Listing /\ l.stage = "listed" /\ ~l.whole
  BY <1>2, <1>3, Nothing DEF Listing, Stages
<1> HIDE DEF l
<1>5. /\ outage' \in 0 .. MissingGrace /\ outage' < MissingGrace /\ outage' # NoOutage
      /\ outage # NoOutage => outage' = outage
      /\ UNCHANGED <<lost, observed, since>>
  BY Limits DEF ListFaulty, MissingInv, ObservedInv
<1>6. listing \in [Gateways -> Listing] /\ listing' = [listing EXCEPT ![g] = l]
  BY <1>1 DEF MissingInv, ObservedInv, l
<1>7. listing' \in [Gateways -> Listing] /\ \A h \in Gateways : listing'[h] = listing[h] \/ listing'[h] = l
  BY <1>4, <1>6
<1>8. ObservedInv'
  <2>1. MissingGrace > 0 /\ outage' \in {NoOutage} \cup 0 .. MissingGrace
    BY <1>5, Limits
  <2> QED
    BY <1>5, <1>7, <2>1 DEF MissingInv, ObservedInv
<1>9. \A h \in Gateways : Honest(listing[h])'
  BY <1>4, <1>5, <1>7 DEF MissingInv, Honest
<1>10. \A p \in Paths : Excused(observed[p])'
  <2> SUFFICES ASSUME NEW p \in Paths PROVE Excused(observed[p])'
    OBVIOUS
  <2>1. observed[p].age \in Nat /\ Excused(observed[p])
    BY Limits DEF MissingInv, ObservedInv, Observation
  <2> QED
    BY <1>5, <2>1, Limits DEF Excused, MissingInv, ObservedInv
<1> QED
  BY <1>8, <1>9, <1>10 DEF MissingInv

\* What g has listed stays as it is while g goes on.
LEMMA GoesOn ==
  ASSUME MissingInv, NEW g \in Gateways, listing[g].stage # "none", NEW l \in Listing,
         l.whole = listing[g].whole, l.seen = listing[g].seen, l.from = listing[g].from,
         Become(g, l), UNCHANGED <<lost, outage, observed, since>>
  PROVE  MissingInv'
<1>1. Honest(l)
  BY DEF MissingInv, Honest
<1> QED
  BY <1>1, ListingStep DEF Become, MissingInv, ObservedInv

LEMMA ReadFilesInv ==
  ASSUME TypeInv, MissingInv, NEW g \in Gateways, ReadFiles(g)
  PROVE  MissingInv'
<1> DEFINE rows == {[path |-> p, manifest |-> files[p].manifest] : p \in LivePaths}
           l == [listing[g] EXCEPT !.stage = "read", !.rows = rows]
<1>1. rows \subseteq [path : Paths, manifest : Manifests]
  BY RowTyped DEF TypeInv, LivePaths
<1> HIDE DEF rows
<1>2. listing[g] \in Listing
  BY DEF MissingInv, ObservedInv
<1>3. /\ l \in Listing /\ l.whole = listing[g].whole
      /\ l.seen = listing[g].seen /\ l.from = listing[g].from
  BY <1>1, <1>2 DEF Listing, Stages
<1> QED
  BY <1>3, GoesOn DEF ReadFiles, rows

LEMMA CompareInv ==
  ASSUME MissingInv, NEW g \in Gateways, Compare(g)
  PROVE  MissingInv'
<1>1. PICK rows \in SUBSET listing[g].rows :
         Become(g, [listing[g] EXCEPT !.stage = "compared", !.rows = rows])
  BY DEF Compare
<1> DEFINE l == [listing[g] EXCEPT !.stage = "compared", !.rows = rows]
<1>2. listing[g] \in Listing
  BY DEF MissingInv, ObservedInv
<1>3. /\ l \in Listing /\ l.whole = listing[g].whole
      /\ l.seen = listing[g].seen /\ l.from = listing[g].from
  BY <1>2 DEF Listing, Stages
<1> QED
  BY <1>1, <1>3, GoesOn DEF Compare

\* A step of the transaction before its commit.
Works(g) ==
  \/ Begin(g) \/ Count(g) \/ InsertVersion(g) \/ DeleteRow(g) \/ MarkDeleted(g)
  \/ \E p \in Paths : ReadRow(g, p) \/ SkipRow(g, p)

LEMMA RowAtTyped ==
  ASSUME TypeInv, NEW p \in Paths, FileExists(p)
  PROVE  /\ RowAt(p) \in Version /\ RowAt(p).path = p
         /\ RowAt(p).version <= uploads /\ RowAt(p).manifest <= uploads
BY RowTyped DEF TypeInv, RowAt, Version, Numbered

LEMMA WorkTyped ==
  ASSUME TypeInv, MissingInv, Pendings, NEW g \in Gateways, Works(g)
  PROVE  \E l \in Listing :
            /\ Become(g, l)
            /\ l.whole = listing[g].whole /\ l.seen = listing[g].seen /\ l.from = listing[g].from
            /\ l.rows = listing[g].rows
<1> DEFINE k == listing[g]
<1>0. k \in Listing /\ Pending(g)
  BY DEF MissingInv, ObservedInv, Pendings
<1>1. CASE Begin(g)
  <2> DEFINE l == [k EXCEPT !.stage = "begun", !.known = {p \in Paths : observed[p].count > 0}]
  <2>1. /\ l \in Listing /\ l.whole = k.whole /\ l.seen = k.seen /\ l.from = k.from
        /\ l.rows = k.rows
    BY <1>0 DEF Listing, Stages
  <2> QED
    BY <1>1, <2>1 DEF Begin
<1>2. CASE Count(g)
  <2> DEFINE l == [k EXCEPT !.stage = "counted", !.confirmed = Confirmed(g), !.todo = Confirmed(g)]
  <2>1. /\ l \in Listing /\ l.whole = k.whole /\ l.seen = k.seen /\ l.from = k.from
        /\ l.rows = k.rows
    BY <1>0 DEF Listing, Stages, Confirmed
  <2> QED
    BY <1>2, <2>1 DEF Count
<1>3. CASE InsertVersion(g)
  <2> DEFINE taken == \E r \in HistoryOf(k.row.path) : r.version = k.row.version
             l == [k EXCEPT !.stage = "delete",
                            !.archived = IF taken THEN @ ELSE @ \cup {k.row},
                            !.taken = IF taken THEN @ \cup {k.row.path} ELSE @]
  <2>1. k.row \in Version /\ k.row.path \in Paths
    BY <1>0, <1>3 DEF InsertVersion, Pending, Listing, Version
  <2> HIDE DEF taken
  <2>2. /\ l \in Listing /\ l.whole = k.whole /\ l.seen = k.seen /\ l.from = k.from
        /\ l.rows = k.rows
    BY <1>0, <2>1 DEF Listing, Stages
  <2> QED
    BY <1>3, <2>2 DEF InsertVersion, taken
<1>4. CASE DeleteRow(g)
  <2> DEFINE p == k.row.path
             l == [k EXCEPT !.stage = "mark", !.gone = IF FileExists(p) THEN @ \cup {RowAt(p)} ELSE @]
  <2>1. p \in Paths
    BY <1>0, <1>4 DEF DeleteRow, Pending, Listing, Version
  <2>2. FileExists(p) => RowAt(p) \in Version
    BY <2>1, RowAtTyped
  <2>3. /\ l \in Listing /\ l.whole = k.whole /\ l.seen = k.seen /\ l.from = k.from
        /\ l.rows = k.rows
    BY <1>0, <2>2 DEF Listing, Stages
  <2> QED
    BY <1>4, <2>3 DEF DeleteRow
<1>5. CASE MarkDeleted(g)
  <2> DEFINE l == [k EXCEPT !.stage = "counted", !.row = NoVersion, !.todo = @ \ {k.row.path},
                            !.marked = @ \cup {k.row.path}]
  <2>1. k.row.path \in Paths
    BY <1>0, <1>5 DEF MarkDeleted, Pending, Listing, Version
  <2>2. /\ l \in Listing /\ l.whole = k.whole /\ l.seen = k.seen /\ l.from = k.from
        /\ l.rows = k.rows
    BY <1>0, <2>1 DEF Listing, Stages
  <2> QED
    BY <1>5, <2>2 DEF MarkDeleted
<1>6. ASSUME NEW p \in Paths, ReadRow(g, p)
      PROVE  \E l \in Listing :
                /\ Become(g, l) /\ l.whole = k.whole /\ l.seen = k.seen /\ l.from = k.from
                /\ l.rows = k.rows
  <2> DEFINE l == [k EXCEPT !.stage = "insert", !.row = RowAt(p), !.read = @ \cup {RowAt(p)}]
  <2>1. RowAt(p) \in Version
    BY <1>6, RowAtTyped DEF ReadRow
  <2>2. /\ l \in Listing /\ l.whole = k.whole /\ l.seen = k.seen /\ l.from = k.from
        /\ l.rows = k.rows
    BY <1>0, <2>1 DEF Listing, Stages
  <2> QED
    BY <1>6, <2>2 DEF ReadRow
<1>7. ASSUME NEW p \in Paths, SkipRow(g, p)
      PROVE  \E l \in Listing :
                /\ Become(g, l) /\ l.whole = k.whole /\ l.seen = k.seen /\ l.from = k.from
                /\ l.rows = k.rows
  <2> DEFINE l == [k EXCEPT !.todo = @ \ {p}]
  <2>1. /\ l \in Listing /\ l.whole = k.whole /\ l.seen = k.seen /\ l.from = k.from
        /\ l.rows = k.rows
    BY <1>0 DEF Listing, Stages
  <2> QED
    BY <1>7, <2>1 DEF SkipRow
<1> QED
  BY <1>1, <1>2, <1>3, <1>4, <1>5, <1>6, <1>7 DEF Works

LEMMA WorkInv ==
  ASSUME TypeInv, MissingInv, Pendings, NEW g \in Gateways, Works(g)
  PROVE  MissingInv'
<1>1. listing[g].stage # "none" /\ UNCHANGED <<lost, outage, observed, since>>
  BY DEF Works, Begin, Count, InsertVersion, DeleteRow, MarkDeleted, ReadRow, SkipRow
<1> QED
  BY <1>1, WorkTyped, GoesOn

LEMMA CommitInv ==
  ASSUME MissingInv, NEW g \in Gateways, Commit(g)
  PROVE  MissingInv'
<1>1. /\ observed' = [p \in Paths |->
            IF p \in listing[g].confirmed THEN NoObservation ELSE Counted(g, p)]
      /\ listing' = [listing EXCEPT ![g] = NoListing]
      /\ outage' = IF Settles(g) THEN NoOutage ELSE outage
      /\ since' = [since EXCEPT ![g] = 0] /\ lost' = lost
  BY DEF Commit, Become
<1>s. (outage' = NoOutage \/ outage' = outage) /\ since' = [since EXCEPT ![g] = 0] /\ lost' = lost
  BY <1>1
<1>2. /\ listing \in [Gateways -> Listing] /\ since \in [Gateways -> 0 .. ReconcileInterval]
      /\ outage \in {NoOutage} \cup 0 .. MissingGrace /\ lost \subseteq Manifests
      /\ outage # NoOutage => MissingGrace > 0
  BY DEF MissingInv, ObservedInv
<1>3. listing' \in [Gateways -> Listing]
      /\ \A h \in Gateways : listing'[h] = listing[h] \/ listing'[h] = NoListing
  BY <1>1, <1>2, Nothing
<1>4. \A p \in Paths : observed'[p] \in Observation
                       /\ (observed'[p] = NoObservation \/ observed'[p] = Counted(g, p))
  BY <1>1, CountedTyped, Nothing
<1>5. ObservedInv'
  <2>1. observed' \in [Paths -> Observation]
    BY <1>1, <1>4
  <2>2. since' \in [Gateways -> 0 .. ReconcileInterval]
    BY <1>s, <1>2, Limits
  <2>3. outage' \in {NoOutage} \cup 0 .. MissingGrace /\ (outage' # NoOutage => MissingGrace > 0)
    BY <1>s, <1>2
  <2>4. lost' \subseteq Manifests /\ listing' \in [Gateways -> Listing]
    BY <1>s, <1>2, <1>3
  <2> QED
    BY <2>1, <2>2, <2>3, <2>4 DEF ObservedInv
<1>6. \A h \in Gateways : Honest(listing[h])'
  <2> SUFFICES ASSUME NEW h \in Gateways PROVE Honest(listing[h])'
    OBVIOUS
  <2>1. CASE listing'[h] = NoListing
    BY <2>1, Nothing DEF Honest
  <2>2. CASE listing'[h] = listing[h]
    <3>1. Honest(listing[h])
      BY DEF MissingInv
    <3>2. ~listing[h].whole => outage' = outage
      BY <1>1 DEF Settles
    <3> QED
      BY <1>1, <2>2, <3>1, <3>2 DEF Honest
  <2> QED
    BY <1>3, <2>1, <2>2
<1>7. \A p \in Paths : Excused(observed[p])'
  <2> SUFFICES ASSUME NEW p \in Paths PROVE Excused(observed[p])'
    OBVIOUS
  <2>1. CASE observed'[p] = NoObservation
    BY <2>1, Nothing DEF Excused
  <2>2. CASE observed'[p] = Counted(g, p)
    <3> DEFINE c == Counted(g, p)
    <3>0. listing[g].stage # "none"
      BY DEF Commit
    <3>1. Excused(c)
      BY <3>0, CountedExcused
    <3>2. Settles(g) => c.count = 0 \/ c.mixed \/ c.first \in lost
      <4>1. listing[g].whole /\ p \in MissingPaths(g) => c.mixed \/ c.first \in lost
        BY <3>0, CountedExcused
      <4>2. p \notin MissingPaths(g) =>
               c = IF p \in listing[g].known THEN NoObservation ELSE observed[p]
        BY DEF Counted
      <4>3. observed[p] \in Observation
        BY DEF MissingInv, ObservedInv
      <4> HIDE DEF c
      <4>4. Settles(g) /\ p \notin MissingPaths(g) => c.count = 0
        BY <4>2, <4>3, Nothing DEF Settles, Observation
      <4> QED
        BY <4>1, <4>4 DEF Settles
    <3> HIDE DEF c
    <3>3. observed'[p] = c
      BY <2>2 DEF c
    <3>4. c.count > 0 => c.count # 0
      <4>1. c.count \in Nat
        BY <1>4, <3>3, Limits DEF Observation
      <4> QED
        BY <4>1
    <3> QED
      BY <1>1, <3>1, <3>2, <3>3, <3>4 DEF Excused
  <2> QED
    BY <1>4, <2>1, <2>2
<1> QED
  BY <1>5, <1>6, <1>7 DEF MissingInv

LEMMA GivenUpInv ==
  ASSUME MissingInv, NEW g \in Gateways, ListingFails(g) \/ Restart(g)
  PROVE  MissingInv'
<1>1. since' \in [Gateways -> 0 .. ReconcileInterval]
  BY Limits DEF ListingFails, Restart, MissingInv, ObservedInv
<1> QED
  BY <1>1, Nothing, NothingSaid, ListingStep DEF ListingFails, Restart, Become

LEMMA LoseInv ==
  ASSUME TypeInv, MissingInv, Lose
  PROVE  MissingInv'
<1>1. lost \subseteq lost' /\ lost' \subseteq Manifests /\ UNCHANGED <<outage, observed, since, listing>>
  <2>1. Stored \subseteq Manifests
    BY BoundsAreNumbers DEF Stored, Manifests, TypeInv, TypeOK
  <2> QED
    BY <2>1 DEF Lose, MissingInv, ObservedInv
<1>2. ObservedInv'
  BY <1>1 DEF MissingInv, ObservedInv
<1>3. \A g \in Gateways : Honest(listing[g])'
  BY <1>1 DEF MissingInv, Honest
<1>4. \A p \in Paths : Excused(observed[p])'
  BY <1>1 DEF MissingInv, Excused
<1> QED
  BY <1>2, <1>3, <1>4 DEF MissingInv

LEMMA TickInv ==
  ASSUME MissingInv, Tick
  PROVE  MissingInv'
<1>1. /\ listing' = listing /\ lost' = lost /\ \A g \in Gateways : listing[g] = NoListing
      /\ observed' = [p \in Paths |->
             IF observed[p].count = 0 THEN NoObservation
             ELSE [observed[p] EXCEPT !.age = AtMost(@ + 1, MissingGrace)]]
      /\ since' = [g \in Gateways |-> AtMost(since[g] + 1, ReconcileInterval)]
      /\ outage' = IF outage = NoOutage THEN NoOutage ELSE AtMost(outage + 1, MissingGrace)
  BY DEF Tick, Idle
<1>2. /\ observed \in [Paths -> Observation] /\ since \in [Gateways -> 0 .. ReconcileInterval]
      /\ outage \in {NoOutage} \cup 0 .. MissingGrace
  BY DEF MissingInv, ObservedInv
<1>3. ASSUME NEW p \in Paths
      PROVE  observed'[p] \in Observation /\ Excused(observed[p])'
  <2>1. CASE observed[p].count = 0
    BY <1>1, <2>1, Nothing DEF Excused
  <2>2. CASE observed[p].count # 0
    <3> DEFINE n == [observed[p] EXCEPT !.age = AtMost(@ + 1, MissingGrace)]
    <3>1. observed'[p] = n /\ observed[p] \in Observation
      BY <1>1, <1>2, <2>2
    <3>2. observed[p].age \in Nat /\ observed[p].count \in Nat /\ observed[p].age + 1 \in Nat
      BY <3>1, Limits DEF Observation
    <3>3. AtMost(observed[p].age + 1, MissingGrace) \in 0 .. MissingGrace
      BY <3>2, AtMostTyped, Limits
    <3>4. /\ n \in Observation /\ n.count = observed[p].count /\ n.mixed = observed[p].mixed
          /\ n.first = observed[p].first /\ n.age = AtMost(observed[p].age + 1, MissingGrace)
      BY <3>1, <3>3 DEF Observation
    <3> HIDE DEF n
    <3>5. observed[p].age <= outage => n.age <= outage'
      BY <1>1, <1>2, <3>2, <3>4, Limits DEF AtMost
    <3>6. Excused(observed[p])
      BY DEF MissingInv
    <3> QED
      BY <1>1, <3>1, <3>4, <3>5, <3>6 DEF Excused
  <2> QED
    BY <2>1, <2>2
<1>4. since' \in [Gateways -> 0 .. ReconcileInterval]
  <2>1. \A g \in Gateways : since[g] + 1 \in Nat
    BY <1>2, Limits
  <2>2. \A g \in Gateways : AtMost(since[g] + 1, ReconcileInterval) \in 0 .. ReconcileInterval
    BY <2>1, AtMostTyped, Limits
  <2> QED
    BY <1>1, <2>2
<1>5. outage' \in {NoOutage} \cup 0 .. MissingGrace /\ (outage' # NoOutage => MissingGrace > 0)
  BY <1>1, <1>2, Limits DEF AtMost, MissingInv, ObservedInv
<1>6. observed' \in [Paths -> Observation]
  BY <1>1, <1>3
<1>7. ObservedInv'
  BY <1>1, <1>4, <1>5, <1>6 DEF ObservedInv, MissingInv
<1>8. \A g \in Gateways : Honest(listing[g])'
  BY <1>1, Nothing DEF Honest
<1> QED
  BY <1>3, <1>7, <1>8 DEF MissingInv

LEMMA RowsUnchanged ==
  ASSUME MissingInv, UNCHANGED reconcileVars
  PROVE  MissingInv'
BY DEF reconcileVars, MissingInv, ObservedInv, Honest, Excused

LEMMA MissingNextInv == TypeInv /\ MissingInv /\ Pendings /\ [ReconcileNext]_allVars => MissingInv'
<1> SUFFICES ASSUME TypeInv, MissingInv, Pendings, [ReconcileNext]_allVars PROVE MissingInv'
  OBVIOUS
<1>1. ASSUME NEW g \in Gateways, Reconciling(g) PROVE MissingInv'
  BY <1>1, ListInv, ListFaultyInv, ReadFilesInv, CompareInv, WorkInv, CommitInv, GivenUpInv
     DEF Reconciling, Works
<1>2. CASE Call \/ UNCHANGED allVars
  BY <1>2, RowsUnchanged DEF Call, allVars
<1> QED
  BY <1>1, <1>2, LoseInv, TickInv DEF ReconcileNext

---------------------------------------------------------------------------
(* The transaction of a gateway, and what the others do meanwhile.         *)

\* What another gateway does with its own listing disturbs no transaction.
LEMMA OwnStep ==
  ASSUME TxInv, listing \in [Gateways -> Listing], NEW g \in Gateways, NEW l, Become(g, l),
         UNCHANGED <<files, uploads, observed>>,
         Pending(g)', Due(g)', Recent(g)',
         \A h \in Others(g) : InTransaction(g)' => Touched(g)' \cap Touched(h) = {}
  PROVE  TxInv'
<1>1. \A h \in Gateways \ {g} : listing'[h] = listing[h]
  BY DEF Become
<1>2. ASSUME NEW h \in Gateways \ {g}
      PROVE  /\ Pending(h)' /\ Due(h)' /\ Recent(h)'
             /\ Touched(h)' = Touched(h) /\ InTransaction(h)' = InTransaction(h)
  <2>1. Touched(h)' = Touched(h) /\ InTransaction(h)' = InTransaction(h)
    BY <1>1 DEF Touched, MissingPaths, PathsOf, InTransaction
  <2>2. Pending(h)'
    BY <1>1, <2>1 DEF TxInv, Pendings, Pending, FileExists, RowAt
  <2>3. Recent(h)'
    BY <1>1, <2>1 DEF TxInv, Recent
  <2>4. \A p : Counted(h, p)' = Counted(h, p)
    BY <1>1, CountedSame
  <2>5. Due(h)'
    BY <1>1, <2>1, <2>4 DEF TxInv, Due, LongEnough
  <2> QED
    BY <2>1, <2>2, <2>3, <2>5
<1>3. \A h \in Gateways : Pending(h)' /\ Due(h)' /\ Recent(h)'
  BY <1>2
<1>4. Apart'
  <2> SUFFICES ASSUME NEW h \in Gateways, NEW k \in Gateways, h # k,
                      InTransaction(h)', InTransaction(k)'
               PROVE  Touched(h)' \cap Touched(k)' = {}
    BY DEF Apart
  <2>1. CASE h # g /\ k # g
    BY <1>2, <2>1 DEF TxInv, Apart
  <2>2. CASE h = g
    BY <1>2, <2>2 DEF Others
  <2>3. CASE k = g
    BY <1>2, <2>3 DEF Others
  <2> QED
    BY <2>1, <2>2, <2>3
<1> QED
  BY <1>3, <1>4 DEF TxInv, Pendings

\* Outside of the transaction nothing is written.
LEMMA OutsideStep ==
  ASSUME TxInv, listing \in [Gateways -> Listing], NEW g \in Gateways, NEW l, Become(g, l),
         UNCHANGED <<files, uploads, observed>>,
         l.stage \in {"none", "listed", "read", "compared"},
         l.read = {}, l.archived = {}, l.gone = {}, l.todo \subseteq l.confirmed
  PROVE  TxInv'
<1>1. listing'[g] = l
  BY DEF Become
<1>2. ~InTransaction(g)' /\ listing'[g].stage # "begun"
  BY <1>1 DEF InTransaction
<1>3. Pending(g)'
  BY <1>1 DEF Pending
<1>4. Due(g)' /\ Recent(g)'
  BY <1>2 DEF Due, Recent
<1> QED
  BY <1>2, <1>3, <1>4, OwnStep

\* In the transaction the observations counted stay what they are.
LEMMA InsideStep ==
  ASSUME TxInv, listing \in [Gateways -> Listing], NEW g \in Gateways, NEW l, Become(g, l),
         UNCHANGED <<files, uploads, observed>>, InTransaction(g),
         l.rows = listing[g].rows, l.from = listing[g].from, l.seen = listing[g].seen,
         l.known = listing[g].known, l.confirmed = listing[g].confirmed, Pending(g)'
  PROVE  TxInv'
<1>1. listing'[g] = l
  BY DEF Become
<1>2. Touched(g)' = Touched(g)
  BY <1>1 DEF Touched, MissingPaths, PathsOf
<1>3. \A p : Counted(g, p)' = Counted(g, p)
  BY <1>1, CountedSame
<1>4. Due(g)' /\ Recent(g)'
  BY <1>1, <1>3 DEF TxInv, Due, Recent, LongEnough
<1>5. \A h \in Others(g) : Touched(g)' \cap Touched(h) = {}
  BY <1>2 DEF TxInv, Apart, Others
<1> QED
  BY <1>4, <1>5, OwnStep

LEMMA ListingTx ==
  ASSUME TypeInv, MissingInv, TxInv, NEW g \in Gateways,
         \/ ListICloud(g) \/ ListFaulty(g) \/ ListingFails(g) \/ Restart(g)
         \/ ReadFiles(g) \/ Compare(g)
  PROVE  TxInv'
<1>0. listing \in [Gateways -> Listing] /\ Pending(g)
  BY DEF MissingInv, ObservedInv, TxInv, Pendings
<1>1. CASE ListICloud(g) \/ ListFaulty(g)
  <2>1. CASE ListICloud(g)
    <3>1. PICK seen :
            Become(g, [NoListing EXCEPT !.stage = "listed", !.seen = seen, !.from = uploads])
      BY <2>1 DEF ListICloud
    <3> DEFINE l == [NoListing EXCEPT !.stage = "listed", !.seen = seen, !.from = uploads]
    <3>2. /\ l.stage = "listed" /\ l.read = {} /\ l.archived = {} /\ l.gone = {}
          /\ l.todo \subseteq l.confirmed
      BY DEF NoListing
    <3>3. UNCHANGED <<files, uploads, observed>>
      BY <2>1 DEF ListICloud, vars
    <3>4. Become(g, l)
      BY <3>1
    <3> HIDE DEF l
    <3> QED
      BY <1>0, <3>2, <3>3, <3>4, OutsideStep
  <2>2. CASE ListFaulty(g)
    <3>1. PICK seen :
            Become(g, [NoListing EXCEPT !.stage = "listed", !.whole = FALSE, !.seen = seen,
                                        !.from = uploads])
      BY <2>2 DEF ListFaulty
    <3> DEFINE l == [NoListing EXCEPT !.stage = "listed", !.whole = FALSE, !.seen = seen,
                                      !.from = uploads]
    <3>2. /\ l.stage = "listed" /\ l.read = {} /\ l.archived = {} /\ l.gone = {}
          /\ l.todo \subseteq l.confirmed
      BY DEF NoListing
    <3>3. UNCHANGED <<files, uploads, observed>>
      BY <2>2 DEF ListFaulty, vars
    <3>4. Become(g, l)
      BY <3>1
    <3> HIDE DEF l
    <3> QED
      BY <1>0, <3>2, <3>3, <3>4, OutsideStep
  <2> QED
    BY <1>1, <2>1, <2>2
<1>3. CASE ListingFails(g) \/ Restart(g)
  <2>1. Become(g, NoListing) /\ UNCHANGED <<files, uploads, observed>>
    BY <1>3 DEF ListingFails, Restart, vars
  <2>2. /\ NoListing.stage = "none" /\ NoListing.read = {} /\ NoListing.archived = {}
        /\ NoListing.gone = {} /\ NoListing.todo \subseteq NoListing.confirmed
    BY DEF NoListing
  <2> QED
    BY <1>0, <2>1, <2>2, OutsideStep
<1>2. CASE ReadFiles(g) \/ Compare(g)
  <2>1. PICK s \in {"read", "compared"} :
          \E rows : Become(g, [listing[g] EXCEPT !.stage = s, !.rows = rows])
    BY <1>2 DEF ReadFiles, Compare
  <2>2. PICK rows : Become(g, [listing[g] EXCEPT !.stage = s, !.rows = rows])
    BY <2>1
  <2> DEFINE l == [listing[g] EXCEPT !.stage = s, !.rows = rows]
  <2>3. ~InTransaction(g)
    BY <1>2 DEF ReadFiles, Compare, InTransaction
  <2>4. /\ listing[g].read = {} /\ listing[g].archived = {} /\ listing[g].gone = {}
        /\ listing[g].todo \subseteq listing[g].confirmed
    BY <1>0, <2>3 DEF Pending
  <2>5. /\ l.stage = s /\ l.read = {} /\ l.archived = {} /\ l.gone = {}
        /\ l.todo \subseteq l.confirmed
    BY <1>0, <2>4 DEF Listing
  <2>6. UNCHANGED <<files, uploads, observed>>
    BY <1>2 DEF ReadFiles, Compare, vars
  <2> HIDE DEF l
  <2> QED
    BY <1>0, <2>2, <2>5, <2>6, OutsideStep DEF l
<1> QED
  BY <1>1, <1>2, <1>3

LEMMA BeginTx ==
  ASSUME TypeInv, MissingInv, TxInv, NEW g \in Gateways, Begin(g)
  PROVE  TxInv'
<1> DEFINE known == {p \in Paths : observed[p].count > 0}
           l == [listing[g] EXCEPT !.stage = "begun", !.known = known]
<1>0. listing \in [Gateways -> Listing] /\ Pending(g) /\ ~InTransaction(g)
  BY DEF MissingInv, ObservedInv, TxInv, Pendings, Begin, InTransaction
<1>1. Become(g, l) /\ UNCHANGED <<files, uploads, observed>>
  BY DEF Begin, vars
<1>2. /\ listing'[g].stage = "begun" /\ listing'[g].known = known
      /\ listing'[g].todo = listing[g].todo /\ listing'[g].confirmed = listing[g].confirmed
      /\ listing'[g].read = listing[g].read /\ listing'[g].archived = listing[g].archived
      /\ listing'[g].gone = listing[g].gone
  BY <1>0, <1>1 DEF Become, Listing
<1>3. ~InTransaction(g)'
  BY <1>2 DEF InTransaction
<1>4. Pending(g)'
  BY <1>0, <1>2 DEF Pending
<1>5. Due(g)' /\ Recent(g)'
  BY <1>1, <1>2, <1>3 DEF Due, Recent
<1> HIDE DEF l
<1> QED
  BY <1>0, <1>1, <1>3, <1>4, <1>5, OwnStep

LEMMA CountTx ==
  ASSUME TypeInv, MissingInv, TxInv, NEW g \in Gateways, Count(g)
  PROVE  TxInv'
<1> DEFINE l == [listing[g] EXCEPT !.stage = "counted", !.confirmed = Confirmed(g),
                                   !.todo = Confirmed(g)]
<1>0. listing \in [Gateways -> Listing] /\ Pending(g) /\ ~InTransaction(g)
      /\ listing[g].stage = "begun"
  BY DEF MissingInv, ObservedInv, TxInv, Pendings, Count, InTransaction
<1>1. Become(g, l) /\ UNCHANGED <<files, uploads, observed>>
  BY DEF Count, vars
<1>2. /\ listing'[g].stage = "counted" /\ listing'[g].known = listing[g].known
      /\ listing'[g].todo = Confirmed(g) /\ listing'[g].confirmed = Confirmed(g)
      /\ listing'[g].read = listing[g].read /\ listing'[g].archived = listing[g].archived
      /\ listing'[g].gone = listing[g].gone /\ listing'[g].rows = listing[g].rows
      /\ listing'[g].from = listing[g].from /\ listing'[g].seen = listing[g].seen
  BY <1>0, <1>1 DEF Become, Listing
<1>3. Pending(g)'
  BY <1>0, <1>2 DEF Pending
<1>4. \A p : Counted(g, p)' = Counted(g, p)
  BY <1>1, <1>2, CountedSame
<1>5. Due(g)'
  BY <1>2, <1>4 DEF Due, Confirmed, LongEnough
<1>6. Recent(g)'
  BY <1>0, <1>1, <1>2 DEF TxInv, Recent
<1>7. Touched(g)' = MissingPaths(g) \cup listing[g].known \cup Confirmed(g)
  BY <1>2 DEF Touched, MissingPaths, PathsOf
<1>8. \A h \in Others(g) : Touched(g)' \cap Touched(h) = {}
  BY <1>7 DEF Count
<1> HIDE DEF l
<1> QED
  BY <1>0, <1>1, <1>3, <1>5, <1>6, <1>8, OwnStep

LEMMA HideTx ==
  ASSUME TypeInv, MissingInv, TxInv, NEW g \in Gateways,
         \/ \E p \in Paths : ReadRow(g, p) \/ SkipRow(g, p)
         \/ InsertVersion(g) \/ DeleteRow(g) \/ MarkDeleted(g)
  PROVE  TxInv'
<1> DEFINE k == listing[g]
           Same(l) == /\ l.rows = k.rows /\ l.from = k.from /\ l.seen = k.seen
                      /\ l.known = k.known /\ l.confirmed = k.confirmed
<1>0. listing \in [Gateways -> Listing] /\ Pending(g) /\ InTransaction(g)
  BY DEF MissingInv, ObservedInv, TxInv, Pendings, ReadRow, SkipRow, InsertVersion, DeleteRow,
     MarkDeleted, InTransaction
<1>1. k \in Listing /\ UNCHANGED <<files, uploads, observed>>
  BY <1>0 DEF ReadRow, SkipRow, InsertVersion, DeleteRow, MarkDeleted, vars
<1>2. ASSUME NEW l, Become(g, l), Same(l), Pending(g)'
      PROVE  TxInv'
  BY <1>0, <1>1, <1>2, InsideStep
<1>3. ASSUME NEW l, Become(g, l) PROVE listing'[g] = l
  BY <1>0, <1>3 DEF Become
<1>4. ASSUME NEW p \in Paths, ReadRow(g, p)
      PROVE  TxInv'
  <2> DEFINE row == RowAt(p)
             l == [k EXCEPT !.stage = "insert", !.row = row, !.read = @ \cup {row}]
  <2>1. row.path = p /\ row.version <= uploads /\ row.manifest <= uploads
    BY <1>4, RowAtTyped DEF ReadRow
  <2> HIDE DEF row
  <2>2. /\ Same(l) /\ l.stage = "insert" /\ l.row = row /\ l.read = k.read \cup {row}
        /\ l.todo = k.todo /\ l.archived = k.archived /\ l.gone = k.gone /\ l.taken = k.taken
    BY <1>1 DEF Listing
  <2>3. Become(g, l) /\ p \in k.todo /\ k.stage = "counted"
    BY <1>4 DEF ReadRow, row
  <2> HIDE DEF l
  <2>4. listing'[g] = l
    BY <1>3, <2>3
  <2>5. Pending(g)'
    BY <1>0, <1>1, <2>1, <2>2, <2>3, <2>4 DEF Pending, InTransaction, FileExists, RowAt
  <2> QED
    BY <1>2, <2>2, <2>3, <2>5
<1>5. ASSUME NEW p \in Paths, SkipRow(g, p)
      PROVE  TxInv'
  <2> DEFINE l == [k EXCEPT !.todo = @ \ {p}]
  <2>2. /\ Same(l) /\ l.stage = k.stage /\ l.row = k.row /\ l.read = k.read
        /\ l.todo = k.todo \ {p} /\ l.archived = k.archived /\ l.gone = k.gone
        /\ l.taken = k.taken
    BY <1>1 DEF Listing
  <2>3. Become(g, l) /\ k.stage = "counted"
    BY <1>5 DEF SkipRow
  <2> HIDE DEF l
  <2>4. listing'[g] = l
    BY <1>3, <2>3
  <2>5. Pending(g)'
    BY <1>0, <1>1, <2>2, <2>3, <2>4 DEF Pending, InTransaction, FileExists, RowAt
  <2> QED
    BY <1>2, <2>2, <2>3, <2>5
<1>6. CASE InsertVersion(g)
  <2> DEFINE taken == \E r \in HistoryOf(k.row.path) : r.version = k.row.version
             l == [k EXCEPT !.stage = "delete",
                            !.archived = IF taken THEN @ ELSE @ \cup {k.row},
                            !.taken = IF taken THEN @ \cup {k.row.path} ELSE @]
  <2>1. Become(g, l) /\ k.stage = "insert"
    BY <1>6 DEF InsertVersion
  <2> HIDE DEF taken
  <2>2. /\ Same(l) /\ l.stage = "delete" /\ l.row = k.row /\ l.read = k.read
        /\ l.todo = k.todo /\ l.gone = k.gone
        /\ k.archived \subseteq l.archived /\ l.archived \subseteq k.archived \cup {k.row}
        /\ k.taken \subseteq l.taken
        /\ k.row \in l.archived \/ k.row.path \in l.taken
    BY <1>1 DEF Listing
  <2> HIDE DEF l
  <2>3. listing'[g] = l
    BY <1>3, <2>1
  <2>4. Pending(g)'
    BY <1>0, <1>1, <2>1, <2>2, <2>3 DEF Pending, InTransaction, FileExists, RowAt
  <2> QED
    BY <1>2, <2>1, <2>2, <2>4
<1>7. CASE DeleteRow(g)
  <2> DEFINE p == k.row.path
             l == [k EXCEPT !.stage = "mark", !.gone = IF FileExists(p) THEN @ \cup {RowAt(p)} ELSE @]
  <2>1. Become(g, l) /\ k.stage = "delete"
    BY <1>7 DEF DeleteRow
  <2>2. /\ Same(l) /\ l.stage = "mark" /\ l.row = k.row /\ l.read = k.read
        /\ l.todo = k.todo /\ l.archived = k.archived /\ l.taken = k.taken
        /\ l.gone = IF FileExists(p) THEN k.gone \cup {RowAt(p)} ELSE k.gone
    BY <1>1 DEF Listing
  <2> HIDE DEF l
  <2>3. listing'[g] = l
    BY <1>3, <2>1
  <2>4. RowAt(p).path = p /\ k.row \in k.read
    BY <1>0, <2>1 DEF RowAt, Pending
  <2>5. \A r \in l.gone : /\ FileExists(r.path) /\ RowAt(r.path) = r
                          /\ \E q \in l.read : q.path = r.path
    BY <1>0, <2>2, <2>4 DEF Pending
  <2>6. Pending(g)'
    BY <1>0, <1>1, <2>1, <2>2, <2>3, <2>5 DEF Pending, InTransaction, FileExists, RowAt
  <2> QED
    BY <1>2, <2>1, <2>2, <2>6
<1>8. CASE MarkDeleted(g)
  <2> DEFINE l == [k EXCEPT !.stage = "counted", !.row = NoVersion, !.todo = @ \ {k.row.path},
                            !.marked = @ \cup {k.row.path}]
  <2>1. Become(g, l) /\ k.stage = "mark"
    BY <1>8 DEF MarkDeleted
  <2>2. /\ Same(l) /\ l.stage = "counted" /\ l.read = k.read /\ l.todo \subseteq k.todo
        /\ l.archived = k.archived /\ l.taken = k.taken /\ l.gone = k.gone
    BY <1>1 DEF Listing
  <2> HIDE DEF l
  <2>3. listing'[g] = l
    BY <1>3, <2>1
  <2>4. Pending(g)'
    BY <1>0, <1>1, <2>1, <2>2, <2>3 DEF Pending, InTransaction, FileExists, RowAt
  <2> QED
    BY <1>2, <2>1, <2>2, <2>4
<1> QED
  BY <1>4, <1>5, <1>6, <1>7, <1>8

\* A commit changes what its own transaction has touched.
LEMMA CommitTx ==
  ASSUME TypeInv, MissingInv, TxInv, NEW g \in Gateways, Commit(g)
  PROVE  TxInv'
<1>0. /\ listing \in [Gateways -> Listing] /\ Pending(g) /\ InTransaction(g)
      /\ listing' = [listing EXCEPT ![g] = NoListing] /\ uploads' = uploads
      /\ files' = [p \in Paths |-> IF p \in PathsOf(listing[g].gone) THEN NoRow ELSE files[p]]
      /\ observed' = [p \in Paths |->
            IF p \in listing[g].confirmed THEN NoObservation ELSE Counted(g, p)]
      /\ files \in [Paths -> Row] /\ observed \in [Paths -> Observation]
  BY DEF MissingInv, ObservedInv, TypeInv, TypeOK, TxInv, Pendings, Commit, Hide, Become,
     InTransaction
<1>1. PathsOf(listing[g].gone) \subseteq listing[g].confirmed
  BY <1>0 DEF Pending, PathsOf
<1>2. \A p \in Paths \ Touched(g) : files'[p] = files[p] /\ observed'[p] = observed[p]
  BY <1>0, <1>1 DEF Touched, Counted
<1>3. ASSUME NEW h \in Gateways \ {g}
      PROVE  /\ Pending(h)' /\ Due(h)' /\ Recent(h)'
             /\ Touched(h)' = Touched(h) /\ InTransaction(h)' = InTransaction(h)
  <2>0. listing'[h] = listing[h] /\ listing[h] \in Listing /\ Pending(h)
    BY <1>0 DEF TxInv, Pendings
  <2>1. Touched(h)' = Touched(h) /\ InTransaction(h)' = InTransaction(h)
    BY <2>0 DEF Touched, MissingPaths, PathsOf, InTransaction
  <2>2. InTransaction(h) => Touched(h) \cap Touched(g) = {}
    BY <1>0 DEF TxInv, Apart
  <2>3. listing[h].confirmed \subseteq Touched(h) /\ listing[h].confirmed \subseteq Paths
    BY <2>0 DEF Touched, Listing
  <2>4. \A r \in listing[h].gone : r.path \in Paths /\ files'[r.path] = files[r.path]
    BY <1>2, <2>0, <2>2, <2>3 DEF Pending
  <2>5. Pending(h)'
    BY <1>0, <2>0, <2>1, <2>4 DEF Pending, FileExists, RowAt
  <2>6. InTransaction(h) => \A p \in listing[h].confirmed : Counted(h, p)' = Counted(h, p)
    <3> SUFFICES ASSUME InTransaction(h), NEW p \in listing[h].confirmed
                 PROVE  Counted(h, p)' = Counted(h, p)
      OBVIOUS
    <3>1. observed'[p] = observed[p]
      BY <1>2, <2>2, <2>3
    <3> QED
      BY <2>0, <3>1, CountedSame
  <2>7. Due(h)'
    BY <2>0, <2>1, <2>6 DEF TxInv, Due, LongEnough
  <2>8. Recent(h)'
    <3> SUFFICES ASSUME InTransaction(h) \/ listing[h].stage = "begun",
                        NEW p \in Paths \ listing[h].known, observed'[p].count > 0
                 PROVE  observed'[p].age = 0
      BY <2>0, <2>1 DEF Recent
    <3>1. observed[p].count > 0 => observed[p].age = 0
      BY DEF TxInv, Recent
    <3>2. observed'[p] = Counted(g, p)
      BY <1>0, Nothing
    <3>3. CASE p \in MissingPaths(g)
      <4>1. MissingVersion(g, p) \in Manifests
        BY <3>3, MissingTyped
      <4>2. Counted(g, p).age = IF observed[p].count > 0 THEN observed[p].age ELSE 0
        BY <3>3, <4>1, AgainRow DEF Counted
      <4> QED
        BY <3>1, <3>2, <4>2
    <3>4. CASE p \notin MissingPaths(g)
      BY <3>1, <3>2, <3>4, Nothing DEF Counted
    <3> QED
      BY <3>3, <3>4
  <2> QED
    BY <2>1, <2>5, <2>7, <2>8
<1>4. Pending(g)' /\ Due(g)' /\ Recent(g)' /\ ~InTransaction(g)'
  <2>1. listing'[g] = NoListing
    BY <1>0
  <2>2. ~InTransaction(g)' /\ listing'[g].stage # "begun"
    BY <2>1, Nothing DEF InTransaction
  <2> QED
    BY <2>1, <2>2 DEF Pending, Due, Recent, NoListing
<1>5. Apart'
  BY <1>3, <1>4 DEF Apart, TxInv
<1> QED
  BY <1>3, <1>4, <1>5 DEF TxInv, Pendings

\* The locks keep what the calls of other gateways could disturb.
LEMMA CallTx ==
  ASSUME TypeInv, MissingInv, TxInv, Call
  PROVE  TxInv'
<1>0. /\ UNCHANGED <<observed, listing>> /\ uploads' \in Nat /\ uploads \in Nat
      /\ uploads <= uploads' /\ listing \in [Gateways -> Listing]
  BY BoundsAreNumbers DEF Call, reconcileVars, Next, Mkdir, Upload, DeleteDirectory, DeleteFile,
     Rename, RenameFails, Gc, TypeInv, TypeOK, MissingInv, ObservedInv
<1>1. ASSUME NEW g \in Gateways PROVE Pending(g)'
  <2>1. \A r \in listing[g].gone : files'[r.path] = files[r.path]
    BY DEF Call, LocksKept, PathsOf
  <2>2. \A r \in listing[g].read : r.version \in Nat /\ r.manifest \in Nat
    BY <1>0, BoundsAreNumbers DEF Listing, Version, Manifests
  <2>3. \A r \in listing[g].read : r.version <= uploads' /\ r.manifest <= uploads'
    BY <1>0, <2>2 DEF TxInv, Pendings, Pending
  <2> QED
    BY <1>0, <2>1, <2>3 DEF TxInv, Pendings, Pending, FileExists, RowAt, InTransaction
<1>2. ASSUME NEW g \in Gateways
      PROVE  /\ Due(g)' /\ Recent(g)'
             /\ Touched(g)' = Touched(g) /\ InTransaction(g)' = InTransaction(g)
  <2>1. Touched(g)' = Touched(g) /\ InTransaction(g)' = InTransaction(g)
    BY <1>0 DEF Touched, MissingPaths, PathsOf, InTransaction
  <2>2. \A p : Counted(g, p)' = Counted(g, p)
    BY <1>0, CountedSame
  <2> QED
    BY <1>0, <2>1, <2>2 DEF TxInv, Due, Recent, LongEnough
<1>3. Apart'
  BY <1>2 DEF Apart, TxInv
<1> QED
  BY <1>1, <1>2, <1>3 DEF TxInv, Pendings

LEMMA RestTx ==
  ASSUME TypeInv, MissingInv, TxInv, Lose \/ Tick \/ UNCHANGED allVars
  PROVE  TxInv'
<1>1. CASE Lose \/ UNCHANGED allVars
  <2>1. UNCHANGED <<listing, observed, files, uploads>>
    BY <1>1 DEF Lose, allVars, vars, reconcileVars
  <2> QED
    BY <2>1 DEF TxInv, Pendings, Pending, Apart, Due, Recent, Touched, MissingPaths, PathsOf,
       InTransaction, Counted, Again, MissingVersion, LongEnough, FileExists, RowAt
<1>2. CASE Tick
  <2>1. \A g \in Gateways : listing'[g] = NoListing
    BY <1>2 DEF Tick, Idle
  <2>2. \A g \in Gateways : ~InTransaction(g)' /\ listing'[g].stage # "begun"
    BY <2>1, Nothing DEF InTransaction
  <2>3. \A g \in Gateways : Pending(g)' /\ Due(g)' /\ Recent(g)'
    BY <2>1, <2>2 DEF Pending, Due, Recent, NoListing
  <2> QED
    BY <2>2, <2>3 DEF TxInv, Pendings, Apart
<1> QED
  BY <1>1, <1>2

LEMMA TxNext == TypeInv /\ MissingInv /\ TxInv /\ [ReconcileNext]_allVars => TxInv'
<1> SUFFICES ASSUME TypeInv, MissingInv, TxInv, [ReconcileNext]_allVars PROVE TxInv'
  OBVIOUS
<1>1. ASSUME NEW g \in Gateways, Reconciling(g) PROVE TxInv'
  BY <1>1, ListingTx, BeginTx, CountTx, HideTx, CommitTx DEF Reconciling
<1> QED
  BY <1>1, CallTx, RestTx DEF ReconcileNext

---------------------------------------------------------------------------
(* Hiding files leaves the tables well-formed.                             *)

LEMMA HideTyped ==
  ASSUME TypeInv, MissingInv, TxInv, NEW g \in Gateways, Hide(g)
  PROVE  TypeInv'
<1>1. /\ uploads' = uploads /\ dirs' = dirs
      /\ deleted' = deleted \cup listing[g].marked /\ versions' = versions \cup listing[g].archived
      /\ files' = [p \in Paths |-> IF p \in PathsOf(listing[g].gone) THEN NoRow ELSE files[p]]
  BY DEF Hide
<1>2. listing[g] \in Listing /\ Pending(g)
  BY DEF MissingInv, ObservedInv, TxInv, Pendings
<1>3. \A r \in versions' : r \in Version /\ r.manifest <= uploads /\ r.version <= uploads
  BY <1>1, <1>2 DEF TypeInv, TypeOK, Numbered, Pending, Listing
<1>4. files' \in [Paths -> Row]
      /\ \A p \in Paths : files'[p].manifest <= uploads /\ files'[p].version <= uploads
  <2>1. uploads \in Nat
    BY BoundsAreNumbers DEF TypeInv, TypeOK
  <2> QED
    BY <1>1, <2>1, NoRowTyped DEF TypeInv, TypeOK, Numbered
<1>5. deleted' \subseteq Paths
  BY <1>1, <1>2 DEF TypeInv, TypeOK, Listing
<1> QED
  BY <1>1, <1>3, <1>4, <1>5 DEF TypeInv, TypeOK, Numbered

LEMMA ReconcileKeepsTables ==
  TypeInv /\ MissingInv /\ TxInv /\ [ReconcileNext]_allVars => TypeInv'
<1> SUFFICES ASSUME TypeInv, MissingInv, TxInv, [ReconcileNext]_allVars PROVE TypeInv'
  OBVIOUS
<1>1. ASSUME NEW g \in Gateways, Commit(g) PROVE TypeInv'
  BY <1>1, HideTyped DEF Commit
<1>2. CASE [Next]_vars
  BY <1>2, TypeNext
<1> QED
  BY <1>1, <1>2 DEF ReconcileNext, Call, Lose, Tick, Reconciling, ListICloud, ListFaulty, ReadFiles,
     Compare, Begin, Count, ReadRow, SkipRow, InsertVersion, DeleteRow, MarkDeleted, ListingFails,
     Restart, allVars

LEMMA TxInit == ReconcileInit => TxInv
<1> SUFFICES ASSUME ReconcileInit PROVE TxInv
  OBVIOUS
<1>1. \A g \in Gateways : listing[g] = NoListing
  BY DEF ReconcileInit
<1>2. \A g \in Gateways : ~InTransaction(g) /\ listing[g].stage # "begun"
  BY <1>1, Nothing DEF InTransaction
<1>3. \A g \in Gateways : Pending(g) /\ Due(g) /\ Recent(g)
  BY <1>1, <1>2 DEF Pending, Due, Recent, NoListing
<1> QED
  BY <1>2, <1>3 DEF TxInv, Pendings, Apart

LEMMA ReconcileInvariant == ReconcileSpec => [](TypeInv /\ MissingInv /\ TxInv)
<1>1. ReconcileInit => TypeInv /\ MissingInv /\ TxInv
  BY TypeInit, ReconcileInitInv, TxInit DEF ReconcileInit
<1>2. TypeInv /\ MissingInv /\ TxInv /\ [ReconcileNext]_allVars
        => TypeInv' /\ MissingInv' /\ TxInv'
  BY ReconcileKeepsTables, MissingNextInv, TxNext DEF TxInv
<1> QED
  BY <1>1, <1>2, PTL DEF ReconcileSpec

---------------------------------------------------------------------------
(* The theorems.                                                           *)

\* The types of what is listed, observed and written, whatever the gateways do meanwhile.
THEOREM ReconcileTypeCorrect == ReconcileSpec => []ReconcileTypeOK
<1>1. TypeInv /\ MissingInv => ReconcileTypeOK
  BY DEF TypeInv, MissingInv, ObservedInv, ReconcileTypeOK
<1> QED
  BY <1>1, ReconcileInvariant, PTL

\* While iCloud leaves things out for less than the grace, however many gateways
\* reconcile, upload, rename and delete at once, what _reconcile hides is lost, or was
\* not there at rest each time it was missed.
THEOREM IntactFilesStay == ReconcileSpec => IntactStays
<1> DEFINE Stays == \A g \in Gateways : Commit(g) =>
                       \A r \in listing[g].gone :
                          \/ r.manifest \in lost
                          \/ Counted(g, r.path).first # r.manifest
                          \/ Counted(g, r.path).mixed
<1>1. MissingInv /\ TxInv => Stays
  <2> SUFFICES ASSUME MissingInv, TxInv, NEW g \in Gateways, Commit(g), NEW r \in listing[g].gone,
                      ~Counted(g, r.path).mixed, Counted(g, r.path).first \notin lost
               PROVE  FALSE
    OBVIOUS
  <2> DEFINE p == r.path
             c == Counted(g, p)
  <2>1. listing[g].stage # "none" /\ InTransaction(g) /\ p \in Paths
        /\ p \in listing[g].confirmed
    BY DEF Commit, InTransaction, TxInv, Pendings, Pending, MissingInv, ObservedInv, Listing, Version
  <2>2. c.count > 0 /\ c.age >= MissingGrace
    BY <2>1 DEF TxInv, Due, LongEnough
  <2>3. Excused(c) /\ (p \in MissingPaths(g) => outage \in Nat /\ outage < MissingGrace)
    BY <2>1, CountedExcused
  <2>4. c \in Observation
    BY <2>1, CountedTyped
  <2>5. p \notin MissingPaths(g) => c = observed[p] /\ c.age = 0
    BY <2>1, <2>2, Nothing, Limits DEF Counted, TxInv, Recent
  <2> HIDE DEF c
  <2>6. c.age \in Nat /\ c.age <= outage
    BY <2>2, <2>3, <2>4, Limits DEF Excused, Observation, c
  <2>7. p \in MissingPaths(g)
    BY <2>2, <2>5, <2>6, Limits DEF MissingInv, ObservedInv
  <2> QED
    BY <2>2, <2>3, <2>6, <2>7, Limits
<1> QED
  BY <1>1, ReconcileInvariant, PTL DEF ReconcileSpec, IntactStays

\* A reconciliation moves versions into the history and drops none, but for one whose
\* number the history had, and one that another gateway committed between its SELECT and
\* its DELETE (_reconcile): what it deletes is locked, and what it read is archived.
THEOREM ListingKeepsVersions == ReconcileSpec => ListingDropsNothing
<1> DEFINE Keeps == \A g \in Gateways : Commit(g) =>
       /\ ArchivedManifests \subseteq ArchivedManifests'
       /\ \A p \in LivePaths :
             \/ files[p].manifest \in CurrentManifests' \cup ArchivedManifests'
             \/ p \in listing[g].taken
             \/ Replaced(g, p)
<1>1. MissingInv /\ TxInv => Keeps
  <2> SUFFICES ASSUME TxInv, NEW g \in Gateways, Commit(g)
               PROVE  /\ ArchivedManifests \subseteq ArchivedManifests'
                      /\ \A p \in LivePaths :
                            \/ files[p].manifest \in CurrentManifests' \cup ArchivedManifests'
                            \/ p \in listing[g].taken
                            \/ Replaced(g, p)
    OBVIOUS
  <2>1. Hide(g) /\ listing[g].stage = "counted" /\ Pending(g)
    BY DEF Commit, TxInv, Pendings
  <2>2. ArchivedManifests \subseteq ArchivedManifests'
    BY <2>1 DEF Hide, ArchivedManifests
  <2>3. ASSUME NEW p \in LivePaths, p \in PathsOf(listing[g].gone),
               p \notin listing[g].taken, ~Replaced(g, p)
        PROVE  files[p].manifest \in ArchivedManifests'
    <3>1. PICK q \in listing[g].read : q.path = p
      BY <2>1, <2>3 DEF Pending, PathsOf
    <3>2. q.manifest = files[p].manifest
      BY <2>3, <3>1 DEF Replaced
    <3>3. q \in listing[g].archived
      BY <2>1, <2>3, <3>1 DEF Pending
    <3>4. q \in versions'
      BY <2>1, <3>3 DEF Hide
    <3> QED
      BY <3>2, <3>4 DEF ArchivedManifests
  <2>4. ASSUME NEW p \in LivePaths, p \notin PathsOf(listing[g].gone)
        PROVE  files[p].manifest \in CurrentManifests'
    <3>1. files'[p] = files[p] /\ files[p] # NoRow /\ p \in Paths
      BY <2>1, <2>4 DEF Hide, LivePaths, FileExists
    <3> QED
      BY <3>1 DEF CurrentManifests, LivePaths, FileExists
  <2> QED
    BY <2>2, <2>3, <2>4
<1> QED
  BY <1>1, ReconcileInvariant, PTL DEF ReconcileSpec, ListingDropsNothing
=============================================================================
