------------------------------ MODULE WebDavProofs ------------------------------
(***************************************************************************)
(* Theorems about the module WebDav, for any threads, requests, paths and  *)
(* limits, whether Valkey answers or not.                                  *)
(***************************************************************************)
EXTENDS WebDav, NamespaceProofs

---------------------------------------------------------------------------
(* The invariant.                                                          *)

\* Places of a handler that has not left the backend.
Early == {"look", "check", "lease", "stat", "drop", "call"}

\* What a handler knows of its request.
Fine(h) ==
  /\ h \in Handler
  /\ h.op \in {"PUT", "MKCOL", "DELETE", "MOVE"} /\ h.pc \in Early => h.path \in Paths /\ h.dst \in Paths
  /\ h.pc = "look" => h.op = "MOVE"
  /\ h.pc \in {"look", "check"} => h.asked = {}
  /\ h.pc = "lease" => h.asked \subseteq {h.path, h.dst} /\ h.asked # {h.path, h.dst}
  /\ h.pc = "stat" => h.op = "DELETE"
  /\ h.pc = "drop" => h.op = "DELETE" \/ (h.op = "MOVE" /\ h.found # "nothing")
  /\ h.op = "MOVE" /\ h.found # "nothing" => h.overwrite
  /\ h.safe /\ h.pc \in {"lease", "stat", "drop", "call"} =>
        \/ h.op \in {"PUT", "MKCOL"}
        \/ h.op = "MOVE" /\ h.found = "nothing"

HandlerInv ==
  /\ handler \in [Threads -> Handler]
  /\ \A t \in Threads : Fine(handler[t])
  /\ \A t \in Threads : handler[t].safe => safeMode
  /\ LeasesProtect

CountsInv ==
  /\ lease \in [LeaseKeys -> Threads \cup {None, Orphan}]
  /\ changes \in 0 .. ChangeLimit /\ deletes \in 0 .. ChangeLimit
  /\ safeMode \in BOOLEAN /\ disturbed \in BOOLEAN

DavInv == HandlerInv /\ CountsInv

LEMMA RootIsNoPath == GcLease \notin Paths /\ Paths \subseteq LeaseKeys /\ GcLease \in LeaseKeys
BY PathsAreSequencesOfNames DEF LeaseKeys, GcLease

LEMMA Places == 
  /\ \A pc \in Early : pc \notin {"idle", "count", "judge", "release"}
  /\ \A pc \in {"lease", "stat", "drop", "call"} : pc \in Early
BY DEF Early

LEMMA NoRequestFine == Fine(NoRequest) /\ NoRequest.sure = {} /\ NoRequest.safe = FALSE
                       /\ NoRequest.pc = "idle" /\ NoRequest.counted = 0
<1>1. <<>> \in LeaseKeys
  BY RootIsNoPath DEF GcLease
<1>2. 0 \in 0 .. ChangeLimit
  BY LimitsAreNumbers
<1>3. NoRequest \in Handler
  BY <1>1, <1>2 DEF NoRequest, Handler
<1> QED
  BY <1>3 DEF NoRequest, Fine, Early

LEMMA RestFine ==
  ASSUME NEW h \in Handler, NEW pc \in {"count", "release"}
  PROVE  /\ Fine(Rest(h, pc)) /\ Rest(h, pc).pc = pc /\ Rest(h, pc).sure = h.sure
         /\ Rest(h, pc).safe = FALSE
<1>1. NoRequest \in Handler
  BY NoRequestFine DEF Fine
<1> DEFINE r == Rest(h, pc)
<1>2. /\ r \in Handler /\ r.pc = pc /\ r.held = h.held /\ r.sure = h.sure
      /\ r.safe = FALSE /\ r.found = "nothing"
  <2>1. r \in Handler
    BY <1>1 DEF Rest, Handler
  <2>2. /\ r.pc = pc /\ r.held = h.held /\ r.sure = h.sure
        /\ r.safe = FALSE /\ r.found = "nothing"
    BY DEF Rest, NoRequest
  <2> QED
    BY <2>1, <2>2
<1> HIDE DEF r
<1>3. Fine(r)
  BY <1>2 DEF Fine, Early
<1> QED
  BY <1>2, <1>3 DEF r

\* One thread goes on.
LEMMA OneGoesOn ==
  ASSUME HandlerInv, NEW t \in Threads, NEW n, Fine(n), handler' = [handler EXCEPT ![t] = n],
         n.safe => safeMode', safeMode => safeMode',
         \A k \in n.sure : lease'[k] = t,
         \A u \in Threads \ {t} : \A k \in handler[u].sure : lease'[k] = lease[k]
  PROVE  HandlerInv'
<1>1. n \in Handler /\ handler \in [Threads -> Handler]
  BY DEF Fine, HandlerInv
<1>2. handler' \in [Threads -> Handler] /\ handler'[t] = n
      /\ \A u \in Threads \ {t} : handler'[u] = handler[u]
  BY <1>1
<1>3. \A u \in Threads : Fine(handler'[u])
  BY <1>2 DEF HandlerInv
<1>4. \A u \in Threads : handler'[u].safe => safeMode'
  BY <1>2 DEF HandlerInv
<1>5. LeasesProtect'
  BY <1>2 DEF HandlerInv, LeasesProtect
<1> QED
  BY <1>2, <1>3, <1>4, <1>5 DEF HandlerInv, Fine, Handler, Early

LEMMA Closed ==
  ASSUME HandlerInv, NEW t \in Threads, Close(t)
  PROVE  \E n : /\ handler' = [handler EXCEPT ![t] = n]
                /\ Fine(n) /\ n.safe = FALSE /\ n.pc \in {"idle", "release"}
                /\ n.sure \subseteq handler[t].sure
<1>1. handler[t] \in Handler
  BY DEF HandlerInv
<1>2. CASE handler[t].held = {}
  BY <1>2, NoRequestFine DEF Close, Answer
<1>3. CASE handler[t].held # {}
  <2>1. handler' = [handler EXCEPT ![t] = Rest(handler[t], "release")]
    BY <1>3 DEF Close, Leave
  <2> QED
    BY <1>1, <2>1, RestFine
<1> QED
  BY <1>2, <1>3

\* Ending a request with its leases as they are.
LEMMA Closing ==
  ASSUME HandlerInv, NEW t \in Threads, Close(t), safeMode => safeMode',
         \A u \in Threads : \A k \in handler[u].sure : lease'[k] = lease[k]
  PROVE  HandlerInv'
<1>1. PICK n : /\ handler' = [handler EXCEPT ![t] = n]
               /\ Fine(n) /\ n.safe = FALSE
               /\ n.sure \subseteq handler[t].sure
  BY Closed
<1>2. \A k \in n.sure : lease'[k] = t
  BY <1>1 DEF HandlerInv, LeasesProtect
<1> QED
  BY <1>1, <1>2, OneGoesOn

---------------------------------------------------------------------------
(* The steps of a handler.                                                 *)

LEMMA ReceiveInv ==
  ASSUME DavInv, NEW t \in Threads, Receive(t)
  PROVE  HandlerInv'
<1>1. PICK r \in Requests :
        handler' = [handler EXCEPT ![t] =
                [NoRequest EXCEPT
                    !.op = r.op, !.path = r.path, !.dst = r.dst, !.overwrite = r.overwrite,
                    !.pc = IF r.op = "MOVE" THEN "look"
                           ELSE IF r.op \in {"DELETE", "GC"} THEN "check" ELSE "lease",
                    !.safe = safeMode]]
  BY DEF Receive
<1>2. r \in Request
  BY RequestsAreRequests
<1>3. /\ r.op \in {"PUT", "MKCOL", "DELETE", "MOVE", "GC"} /\ r.overwrite \in BOOLEAN
      /\ r.path \in LeaseKeys /\ r.dst \in LeaseKeys
      /\ r.op # "GC" => r.path \in Paths /\ r.dst \in Paths
  BY <1>2, RootIsNoPath DEF Request
<1> DEFINE pc == IF r.op = "MOVE" THEN "look"
                 ELSE IF r.op \in {"DELETE", "GC"} THEN "check" ELSE "lease"
           n == [NoRequest EXCEPT !.op = r.op, !.path = r.path, !.dst = r.dst,
                                  !.overwrite = r.overwrite, !.pc = pc, !.safe = safeMode]
<1>4. safeMode \in BOOLEAN /\ NoRequest \in Handler
  BY NoRequestFine DEF DavInv, CountsInv, Fine
<1>5. /\ n \in Handler /\ n.op = r.op /\ n.path = r.path /\ n.dst = r.dst
      /\ n.pc = pc /\ n.found = "nothing" /\ n.safe = safeMode /\ n.sure = {} /\ n.asked = {}
  <2>1. /\ n.op = r.op /\ n.path = r.path /\ n.dst = r.dst
        /\ n.pc = pc /\ n.found = "nothing" /\ n.safe = safeMode /\ n.sure = {} /\ n.asked = {}
    BY DEF NoRequest
  <2>2. pc \in {"look", "check", "lease"}
    OBVIOUS
  <2> HIDE DEF pc
  <2>3. n \in Handler
    BY <1>3, <1>4, <2>2 DEF Handler
  <2> QED
    BY <2>1, <2>3
<1>6. handler' = [handler EXCEPT ![t] = n] /\ lease' = lease /\ safeMode' = safeMode
  BY <1>1 DEF Receive, valkey
<1>7. /\ pc \in {"look", "check", "lease"}
      /\ pc = "lease" => r.op \in {"PUT", "MKCOL"}
      /\ pc = "look" => r.op = "MOVE"
  BY <1>3
<1> HIDE DEF n, pc
<1>8. n.asked \subseteq {n.path, n.dst} /\ n.asked # {n.path, n.dst}
  BY <1>5
<1>9. Fine(n)
  BY <1>3, <1>5, <1>7, <1>8 DEF Fine
<1> QED
  BY <1>5, <1>6, <1>9, OneGoesOn DEF DavInv

LEMMA KindTyped == \A p : Kind(p) \in {"nothing", "file", "directory"}
BY DEF Kind

LEMMA LookInv ==
  ASSUME DavInv, NEW t \in Threads, Look(t)
  PROVE  HandlerInv'
<1> DEFINE h == handler[t]
           found == Kind(h.dst)
           n == [h EXCEPT !.found = found, !.pc = IF found = "nothing" THEN "lease" ELSE "check"]
<1>1. /\ h \in Handler /\ Fine(h) /\ handler \in [Threads -> Handler] /\ h.pc = "look"
      /\ lease' = lease /\ safeMode' = safeMode
  BY DEF DavInv, HandlerInv, Look, At, valkey
<1>2. CASE found # "nothing" /\ ~h.overwrite
  <2>1. handler' = [handler EXCEPT ![t] = NoRequest]
    BY <1>2 DEF Look, Answer
  <2> QED
    BY <1>1, <2>1, NoRequestFine, OneGoesOn DEF DavInv
<1>3. CASE found = "nothing" \/ h.overwrite
  <2>1. handler' = [handler EXCEPT ![t] = n]
    BY <1>1, <1>3 DEF Look
  <2>2. /\ n \in Handler /\ n.op = h.op /\ n.path = h.path /\ n.dst = h.dst
        /\ n.pc = (IF found = "nothing" THEN "lease" ELSE "check") /\ n.found = found
        /\ n.overwrite = h.overwrite
        /\ n.safe = h.safe /\ n.sure = h.sure /\ n.asked = h.asked
    BY <1>1, KindTyped DEF Handler
  <2> HIDE DEF n, found
  <2>4. h.op = "MOVE"
    BY <1>1 DEF Fine
  <2>5. Fine(n)
    BY <1>1, <1>3, <2>2, <2>4 DEF Fine, Early
  <2>6. (n.safe => safeMode) /\ \A k \in n.sure : lease'[k] = t
    BY <1>1, <2>2 DEF DavInv, HandlerInv, LeasesProtect
  <2> QED
    BY <1>1, <2>1, <2>5, <2>6, OneGoesOn DEF DavInv
<1> QED
  BY <1>2, <1>3

\* A step that changes the place of a handler only, and what it has found.
LEMMA Going ==
  ASSUME DavInv, NEW t \in Threads, NEW n \in Handler,
         handler' = [handler EXCEPT ![t] = n],
         n.op = handler[t].op, n.path = handler[t].path, n.dst = handler[t].dst,
         n.found = handler[t].found \/ n.op # "MOVE",
         n.overwrite = handler[t].overwrite, n.sure = handler[t].sure, n.asked = handler[t].asked,
         n.safe => handler[t].safe,
         handler[t].pc \in Early, n.pc \notin {"look", "check"},
         n.pc = "lease" => handler[t].pc = "check",
         n.pc = "stat" => n.op = "DELETE",
         n.pc = "drop" => n.op = "DELETE" \/ (n.op = "MOVE" /\ n.found # "nothing"),
         n.safe /\ n.pc \in {"lease", "stat", "drop", "call"} =>
            \/ handler[t].pc \in {"lease", "stat", "drop", "call"} /\ n.found = handler[t].found
            \/ n.op \in {"PUT", "MKCOL"},
         lease' = lease, safeMode => safeMode'
  PROVE  HandlerInv'
<1>1. Fine(handler[t]) /\ (handler[t].safe => safeMode) /\ \A k \in n.sure : lease'[k] = t
  BY DEF DavInv, HandlerInv, LeasesProtect
<1>2. Fine(n)
  BY <1>1 DEF Fine
<1> QED
  BY <1>1, <1>2, OneGoesOn DEF DavInv

LEMMA CheckInv ==
  ASSUME DavInv, NEW t \in Threads, Check(t) \/ CheckUnanswered(t)
  PROVE  HandlerInv'
<1>1. /\ handler[t] \in Handler /\ handler \in [Threads -> Handler] /\ handler[t].pc = "check"
      /\ lease' = lease /\ safeMode' = safeMode
      /\ (handler[t].safe => safeMode)
  BY DEF DavInv, HandlerInv, Check, CheckUnanswered, At, valkey
<1>2. CASE Check(t) /\ safeMode
  <2>1. handler' = [handler EXCEPT ![t] = NoRequest]
    BY <1>2 DEF Check, Answer
  <2> QED
    BY <1>1, <2>1, NoRequestFine, OneGoesOn DEF DavInv
<1>3. CASE Check(t) /\ ~safeMode
  <2> DEFINE n == [handler[t] EXCEPT !.pc = "lease"]
  <2>1. handler' = [handler EXCEPT ![t] = n]
    BY <1>1, <1>3 DEF Check, Go
  <2>2. /\ n \in Handler /\ n.op = handler[t].op /\ n.path = handler[t].path /\ n.dst = handler[t].dst
        /\ n.pc = "lease" /\ n.found = handler[t].found /\ n.overwrite = handler[t].overwrite
        /\ n.safe = handler[t].safe /\ n.sure = handler[t].sure /\ n.asked = handler[t].asked
    BY <1>1 DEF Handler
  <2> HIDE DEF n
  <2> QED
    BY <1>1, <1>3, <2>1, <2>2, Going DEF Early
<1>4. CASE CheckUnanswered(t)
  <2> DEFINE n == [handler[t] EXCEPT !.pc = "lease", !.safe = FALSE]
  <2>1. handler' = [handler EXCEPT ![t] = n]
    BY <1>1, <1>4 DEF CheckUnanswered
  <2>2. /\ n \in Handler /\ n.op = handler[t].op /\ n.path = handler[t].path /\ n.dst = handler[t].dst
        /\ n.pc = "lease" /\ n.found = handler[t].found /\ n.overwrite = handler[t].overwrite
        /\ n.safe = FALSE /\ n.sure = handler[t].sure /\ n.asked = handler[t].asked
    BY <1>1 DEF Handler
  <2> HIDE DEF n
  <2> QED
    BY <1>1, <2>1, <2>2, Going DEF Early
<1> QED
  BY <1>2, <1>3, <1>4

LEMMA NextKeyIsAKey ==
  ASSUME NEW t \in Threads, Fine(handler[t]), At(t, "lease")
  PROVE  NextKey(t) \in {handler[t].path, handler[t].dst} /\ NextKey(t) \in LeaseKeys
<1>1. handler[t].path \in LeaseKeys /\ handler[t].dst \in LeaseKeys
  BY DEF Fine, Handler
<1>2. \E k \in {handler[t].path, handler[t].dst} : k \notin handler[t].asked
  BY DEF Fine, At
<1> QED
  BY <1>1, <1>2 DEF NextKey

LEMMA AskedInv ==
  ASSUME DavInv, NEW t \in Threads, At(t, "lease"), NEW got \in SUBSET {NextKey(t)}, Asked(t, got),
         NextKey(t) \in LeaseKeys, safeMode' = safeMode,
         \A k \in handler[t].sure \cup got : lease'[k] = t,
         \A u \in Threads \ {t} : \A k \in handler[u].sure : lease'[k] = lease[k]
  PROVE  HandlerInv'
<1> DEFINE h == handler[t]
           asked == h.asked \cup {NextKey(t)}
           pc == IF asked # {h.path, h.dst} THEN "lease"
                 ELSE IF h.op = "DELETE" THEN "stat"
                 ELSE IF h.op = "MOVE" /\ h.found # "nothing" THEN "drop"
                 ELSE "call"
           n == [h EXCEPT !.asked = asked, !.held = @ \cup got, !.sure = @ \cup got, !.pc = pc]
<1>1. /\ h \in Handler /\ Fine(h) /\ handler \in [Threads -> Handler] /\ h.pc = "lease"
      /\ (h.safe => safeMode)
  BY DEF DavInv, HandlerInv, At
<1>2. handler' = [handler EXCEPT ![t] = n]
  BY <1>1 DEF Asked
<1>3. /\ pc \in {"lease", "stat", "drop", "call"}
      /\ pc = "stat" => h.op = "DELETE"
      /\ pc = "drop" => h.op = "MOVE" /\ h.found # "nothing"
  OBVIOUS
<1>7. asked \subseteq {h.path, h.dst} /\ (pc = "lease" => asked # {h.path, h.dst})
  BY <1>1, NextKeyIsAKey DEF Fine
<1>4. asked \in SUBSET LeaseKeys /\ got \in SUBSET LeaseKeys
  BY <1>1 DEF Handler
<1> HIDE DEF asked, pc
<1>5. /\ n \in Handler /\ n.op = h.op /\ n.path = h.path /\ n.dst = h.dst
      /\ n.pc = pc /\ n.found = h.found /\ n.overwrite = h.overwrite
      /\ n.safe = h.safe /\ n.sure = h.sure \cup got /\ n.asked = asked
  BY <1>1, <1>3, <1>4 DEF Handler
<1> HIDE DEF n
<1>6. Fine(n)
  BY <1>1, <1>3, <1>5, <1>7 DEF Fine, Early
<1> QED
  BY <1>1, <1>2, <1>5, <1>6, OneGoesOn DEF DavInv

LEMMA LeaseInv ==
  ASSUME DavInv, NEW t \in Threads, Lease(t) \/ LeaseRefused(t) \/ LeaseUnanswered(t)
  PROVE  HandlerInv'
<1> DEFINE k == NextKey(t)
<1>1. Fine(handler[t]) /\ At(t, "lease")
  BY DEF DavInv, HandlerInv, Lease, LeaseRefused, LeaseUnanswered
<1>2. k \in LeaseKeys /\ lease \in [LeaseKeys -> Threads \cup {None, Orphan}]
  BY <1>1, NextKeyIsAKey DEF DavInv, CountsInv
<1> HIDE DEF k
<1>3. \A u \in Threads : \A l \in handler[u].sure : lease[l] = u /\ l \in LeaseKeys
  BY DEF DavInv, HandlerInv, LeasesProtect, Handler
<1>4. CASE Lease(t)
  <2>1. lease[k] = None /\ lease' = [lease EXCEPT ![k] = t] /\ Asked(t, {k}) /\ safeMode' = safeMode
    BY <1>4 DEF Lease, k
  <2>2. \A u \in Threads : k \notin handler[u].sure
    BY <1>3, <2>1, NobodyIsAThread
  <2> QED
    BY <1>1, <1>2, <1>3, <2>1, <2>2, AskedInv DEF k
<1>5. CASE LeaseRefused(t)
  BY <1>5, Closing DEF LeaseRefused, valkey, DavInv
<1>6. CASE LeaseUnanswered(t)
  <2>1. safeMode' = safeMode
    BY <1>6 DEF LeaseUnanswered
  <2>2. CASE Asked(t, {}) /\ UNCHANGED lease
    <3>1. /\ {} \in SUBSET {NextKey(t)} /\ NextKey(t) \in LeaseKeys
          /\ \A l \in handler[t].sure \cup {} : lease'[l] = t
      BY <1>2, <1>3, <2>2 DEF k
    <3>2. \A u \in Threads \ {t} : \A l \in handler[u].sure : lease'[l] = lease[l]
      BY <2>2
    <3> QED
      BY <1>1, <2>1, <2>2, <3>1, <3>2, AskedInv
  <2>3. CASE lease[k] = None /\ lease' = [lease EXCEPT ![k] = Orphan] /\ (Asked(t, {}) \/ Close(t))
    <3>1. \A u \in Threads : k \notin handler[u].sure
      BY <1>3, <2>3, NobodyIsAThread
    <3>2. \A u \in Threads : \A l \in handler[u].sure : lease'[l] = lease[l]
      BY <1>2, <1>3, <2>3, <3>1
    <3>3. CASE Asked(t, {})
      <4>1. /\ {} \in SUBSET {NextKey(t)} /\ NextKey(t) \in LeaseKeys
            /\ \A l \in handler[t].sure \cup {} : lease'[l] = t
        BY <1>2, <1>3, <3>2 DEF k
      <4> QED
        BY <1>1, <2>1, <3>2, <3>3, <4>1, AskedInv
    <3>4. CASE Close(t)
      BY <2>1, <3>2, <3>4, Closing DEF DavInv
    <3> QED
      BY <2>3, <3>3, <3>4
  <2> QED
    BY <1>6, <2>2, <2>3 DEF LeaseUnanswered, k
<1> QED
  BY <1>4, <1>5, <1>6

---------------------------------------------------------------------------
(* The steps with the backend, and after it.                               *)

LEMMA StatInv ==
  ASSUME DavInv, NEW t \in Threads, Stat(t)
  PROVE  HandlerInv'
<1> DEFINE found == Kind(handler[t].path)
           n == [handler[t] EXCEPT !.found = found, !.pc = "drop"]
<1>1. /\ Fine(handler[t]) /\ handler[t] \in Handler /\ handler \in [Threads -> Handler]
      /\ handler[t].pc = "stat" /\ handler[t].op = "DELETE"
      /\ lease' = lease /\ safeMode' = safeMode
  BY DEF DavInv, HandlerInv, Stat, At, valkey, Fine
<1>2. CASE found = "nothing"
  BY <1>1, <1>2, Closing DEF Stat, DavInv
<1>3. CASE found # "nothing"
  <2>1. handler' = [handler EXCEPT ![t] = n]
    BY <1>1, <1>3 DEF Stat
  <2>2. /\ n \in Handler /\ n.op = handler[t].op /\ n.path = handler[t].path /\ n.dst = handler[t].dst
        /\ n.pc = "drop" /\ n.overwrite = handler[t].overwrite
        /\ n.safe = handler[t].safe /\ n.sure = handler[t].sure /\ n.asked = handler[t].asked
    BY <1>1, KindTyped DEF Handler
  <2>3. ~n.safe
    BY <1>1, <2>2 DEF Fine
  <2> HIDE DEF n
  <2> QED
    BY <1>1, <2>1, <2>2, <2>3, Going DEF Early
<1> QED
  BY <1>2, <1>3

\* Leaving the backend to count.
LEMMA LeavingInv ==
  ASSUME DavInv, NEW t \in Threads, Leave(t, "count"), lease' = lease, safeMode' = safeMode
  PROVE  HandlerInv'
<1>1. handler' = [handler EXCEPT ![t] = Rest(handler[t], "count")] /\ handler[t] \in Handler
  BY DEF Leave, DavInv, HandlerInv
<1> DEFINE n == Rest(handler[t], "count")
<1>2. Fine(n) /\ n.sure = handler[t].sure /\ n.safe = FALSE
  BY <1>1, RestFine
<1> HIDE DEF n
<1>3. \A k \in n.sure : lease'[k] = t
  BY <1>2 DEF DavInv, HandlerInv, LeasesProtect
<1>4. handler' = [handler EXCEPT ![t] = n]
  BY <1>1 DEF n
<1> QED
  BY <1>2, <1>3, <1>4, OneGoesOn DEF DavInv

LEMMA DropInv ==
  ASSUME DavInv, NEW t \in Threads, Drop(t)
  PROVE  HandlerInv'
<1>1. /\ Fine(handler[t]) /\ handler[t] \in Handler /\ handler \in [Threads -> Handler]
      /\ handler[t].pc = "drop"
      /\ lease' = lease /\ safeMode' = safeMode
  BY DEF DavInv, HandlerInv, Drop, At, valkey
<1>2. CASE handler[t].op = "MOVE"
  <2> DEFINE n == [handler[t] EXCEPT !.pc = "call"]
  <2>1. handler' = [handler EXCEPT ![t] = n]
    BY <1>1, <1>2 DEF Drop, Go
  <2>2. /\ n \in Handler /\ n.op = handler[t].op /\ n.path = handler[t].path /\ n.dst = handler[t].dst
        /\ n.pc = "call" /\ n.overwrite = handler[t].overwrite /\ n.found = handler[t].found
        /\ n.safe = handler[t].safe /\ n.sure = handler[t].sure /\ n.asked = handler[t].asked
    BY <1>1 DEF Handler
  <2> HIDE DEF n
  <2> QED
    BY <1>1, <2>1, <2>2, Going DEF Early
<1>3. CASE handler[t].op # "MOVE"
  BY <1>1, <1>3, LeavingInv DEF Drop
<1> QED
  BY <1>2, <1>3

LEMMA CallInv ==
  ASSUME DavInv, NEW t \in Threads,
         \/ DropFails(t) \/ Put(t) \/ Mkcol(t) \/ Move(t) \/ MoveFails(t) \/ PutOrMkcolFails(t) \/ Collect(t)
  PROVE  HandlerInv'
<1>1. CASE Put(t) \/ Mkcol(t) \/ Move(t)
  BY <1>1, LeavingInv DEF Put, Mkcol, Move, valkey
<1>2. CASE DropFails(t) \/ MoveFails(t) \/ PutOrMkcolFails(t) \/ Collect(t)
  BY <1>2, Closing DEF DropFails, MoveFails, PutOrMkcolFails, Collect, valkey, DavInv
<1> QED
  BY <1>1, <1>2

LEMMA RecordInv ==
  ASSUME DavInv, NEW t \in Threads, Count(t) \/ Judge(t) \/ RecordUnanswered(t)
  PROVE  HandlerInv'
<1>1. CASE Count(t)
  <2> DEFINE n == [handler[t] EXCEPT !.pc = "judge", !.counted = changes']
  <2>1. /\ Fine(handler[t]) /\ handler[t] \in Handler /\ handler \in [Threads -> Handler]
        /\ handler[t].pc = "count" /\ lease' = lease /\ safeMode' = safeMode
    BY <1>1 DEF DavInv, HandlerInv, Count, At
  <2>2. changes' \in 0 .. ChangeLimit
    BY <1>1, LimitsAreNumbers DEF Count, Counted, AtMost, DavInv, CountsInv
  <2>3. handler' = [handler EXCEPT ![t] = n]
    BY <1>1, <2>1 DEF Count
  <2>4. /\ n \in Handler /\ n.op = handler[t].op /\ n.found = handler[t].found
        /\ n.overwrite = handler[t].overwrite /\ n.pc = "judge"
        /\ n.safe = handler[t].safe /\ n.sure = handler[t].sure
    BY <2>1, <2>2 DEF Handler
  <2> HIDE DEF n
  <2>5. Fine(n)
    BY <2>1, <2>4 DEF Fine, Early
  <2>6. (n.safe => safeMode) /\ \A k \in n.sure : lease'[k] = t
    BY <2>1, <2>4 DEF DavInv, HandlerInv, LeasesProtect
  <2> QED
    BY <2>1, <2>3, <2>5, <2>6, OneGoesOn DEF DavInv
<1>2. CASE Judge(t)
  <2>1. safeMode => safeMode'
    BY <1>2, Zenon DEF Judge
  <2> QED
    BY <1>2, <2>1, Closing DEF Judge, DavInv
<1>3. CASE RecordUnanswered(t)
  <2>1. Close(t) /\ lease' = lease
    BY <1>3 DEF RecordUnanswered
  <2>2. safeMode => safeMode'
    <3>1. safeMode' = safeMode \/ safeMode' = (safeMode \/ Anomalous(handler[t].counted, deletes))
      BY <1>3 DEF RecordUnanswered
    <3> QED
      BY <3>1, Zenon
  <2> QED
    BY <2>1, <2>2, Closing DEF DavInv
<1> QED
  BY <1>1, <1>2, <1>3

LEMMA ReleaseInv ==
  ASSUME DavInv, NEW t \in Threads, NEW k \in LeaseKeys, Release(t, k) \/ ReleaseUnanswered(t, k)
  PROVE  HandlerInv'
<1> DEFINE h == handler[t]
           n == IF h.held = {k} THEN NoRequest ELSE [h EXCEPT !.held = @ \ {k}, !.sure = @ \ {k}]
<1>1. /\ Fine(h) /\ h \in Handler /\ handler \in [Threads -> Handler] /\ h.pc = "release"
      /\ safeMode' = safeMode /\ (h.safe => safeMode)
      /\ lease \in [LeaseKeys -> Threads \cup {None, Orphan}]
  BY DEF DavInv, HandlerInv, CountsInv, Release, ReleaseUnanswered, At
<1>2. handler' = [handler EXCEPT ![t] = n]
  BY <1>1 DEF Release, ReleaseUnanswered, GiveUp
<1>3. /\ \A l \in LeaseKeys \ {k} : lease'[l] = lease[l]
      /\ lease[k] # t => lease'[k] = lease[k]
  BY <1>1 DEF Release, ReleaseUnanswered
<1>4. Fine(n) /\ (n.safe => safeMode) /\ n.sure \subseteq h.sure \ {k}
  <2>1. CASE h.held = {k}
    BY <2>1, NoRequestFine
  <2>2. CASE h.held # {k}
    <3> DEFINE m == [h EXCEPT !.held = @ \ {k}, !.sure = @ \ {k}]
    <3>1. /\ m \in Handler /\ m.op = h.op /\ m.found = h.found
          /\ m.overwrite = h.overwrite /\ m.pc = "release"
          /\ m.safe = h.safe /\ m.sure = h.sure \ {k}
      BY <1>1 DEF Handler
    <3>2. n = m
      BY <2>2
    <3> HIDE DEF m, n
    <3>3. Fine(m)
      BY <1>1, <3>1 DEF Fine, Early
    <3> QED
      BY <1>1, <3>1, <3>2, <3>3
  <2> QED
    BY <2>1, <2>2
<1> HIDE DEF n
<1>5. \A u \in Threads : \A l \in handler[u].sure : lease[l] = u /\ l \in LeaseKeys
  BY DEF DavInv, HandlerInv, LeasesProtect, Handler
<1>6. \A l \in n.sure : lease'[l] = t
  BY <1>3, <1>4, <1>5
<1>7. \A u \in Threads \ {t} : \A l \in handler[u].sure : lease'[l] = lease[l]
  BY <1>3, <1>5
<1> QED
  BY <1>1, <1>2, <1>4, <1>6, <1>7, OneGoesOn DEF DavInv

---------------------------------------------------------------------------
(* What befalls all of them.                                               *)

LEMMA LapseInv ==
  ASSUME DavInv, NEW k \in LeaseKeys, Lapse(k)
  PROVE  HandlerInv'
<1> DEFINE n(t) == IF lease[k] = t THEN [handler[t] EXCEPT !.sure = @ \ {k}] ELSE handler[t]
<1>1. /\ handler' = [t \in Threads |-> n(t)] /\ safeMode' = safeMode
      /\ lease' = [lease EXCEPT ![k] = None]
      /\ lease \in [LeaseKeys -> Threads \cup {None, Orphan}]
      /\ handler \in [Threads -> Handler]
  BY DEF Lapse, DavInv, CountsInv, HandlerInv
<1>2. ASSUME NEW t \in Threads
      PROVE  /\ Fine(n(t)) /\ n(t).safe = handler[t].safe
             /\ \A l \in n(t).sure : l \in handler[t].sure /\ (l = k => lease[k] # t)
  <2>1. handler[t] \in Handler /\ Fine(handler[t])
    BY <1>1 DEF DavInv, HandlerInv
  <2>2. CASE lease[k] = t
    <3> DEFINE m == [handler[t] EXCEPT !.sure = @ \ {k}]
    <3>1. /\ m \in Handler /\ m.op = handler[t].op /\ m.found = handler[t].found
          /\ m.path = handler[t].path /\ m.dst = handler[t].dst /\ m.asked = handler[t].asked
          /\ m.overwrite = handler[t].overwrite /\ m.pc = handler[t].pc
          /\ m.safe = handler[t].safe /\ m.sure = handler[t].sure \ {k}
      BY <2>1 DEF Handler
    <3>2. n(t) = m
      BY <2>2
    <3> HIDE DEF m, n
    <3>3. Fine(m)
      BY <2>1, <3>1 DEF Fine
    <3> QED
      BY <3>1, <3>2, <3>3
  <2>3. CASE lease[k] # t
    BY <2>1, <2>3
  <2> QED
    BY <2>2, <2>3
<1> HIDE DEF n
<1>3. \A t \in Threads : handler'[t] = n(t)
  BY <1>1
<1>4. \A t \in Threads : n(t) \in Handler
  BY <1>2 DEF Fine
<1>5. \A t \in Threads : \A l \in handler[t].sure : lease[l] = t /\ l \in LeaseKeys
  BY <1>1 DEF DavInv, HandlerInv, LeasesProtect, Handler
<1>6. LeasesProtect'
  BY <1>1, <1>2, <1>3, <1>5 DEF LeasesProtect
<1>7. handler' \in [Threads -> Handler]
  BY <1>1, <1>4
<1>8. \A t \in Threads : Fine(handler'[t]) /\ (handler'[t].safe => safeMode')
  BY <1>1, <1>2, <1>3 DEF DavInv, HandlerInv
<1> QED
  BY <1>6, <1>7, <1>8 DEF HandlerInv, Fine, Handler, Early

LEMMA ClearInv ==
  ASSUME DavInv, ClearSafeMode
  PROVE  HandlerInv'
<1> DEFINE n(t) == [handler[t] EXCEPT !.safe = FALSE]
<1>1. /\ handler' = [t \in Threads |-> n(t)]
      /\ lease' = lease
      /\ handler \in [Threads -> Handler]
  BY DEF ClearSafeMode, DavInv, HandlerInv
<1>2. ASSUME NEW t \in Threads
      PROVE  Fine(n(t)) /\ n(t) \in Handler /\ n(t).safe = FALSE /\ n(t).sure = handler[t].sure
  <2>1. handler[t] \in Handler /\ Fine(handler[t])
    BY <1>1 DEF DavInv, HandlerInv
  <2>2. /\ n(t) \in Handler /\ n(t).op = handler[t].op /\ n(t).found = handler[t].found
        /\ n(t).path = handler[t].path /\ n(t).dst = handler[t].dst /\ n(t).asked = handler[t].asked
        /\ n(t).overwrite = handler[t].overwrite /\ n(t).pc = handler[t].pc
        /\ n(t).safe = FALSE /\ n(t).sure = handler[t].sure
    BY <2>1 DEF Handler
  <2> HIDE DEF n
  <2> QED
    BY <2>1, <2>2 DEF Fine
<1> HIDE DEF n
<1>3. \A t \in Threads : handler'[t] = n(t)
  BY <1>1
<1>4. handler' \in [Threads -> Handler]
  BY <1>1, <1>2
<1>5. LeasesProtect'
  BY <1>1, <1>2, <1>3 DEF LeasesProtect, DavInv, HandlerInv
<1>6. \A t \in Threads : Fine(handler'[t]) /\ (handler'[t].safe => safeMode')
  BY <1>2, <1>3
<1> QED
  BY <1>4, <1>5, <1>6 DEF HandlerInv, Fine, Handler, Early

LEMMA CrashInv ==
  ASSUME DavInv, Crash
  PROVE  HandlerInv'
<1>1. handler' = [t \in Threads |-> NoRequest]
  BY DEF Crash
<1>2. Fine(NoRequest) /\ NoRequest \in Handler /\ NoRequest.safe = FALSE /\ NoRequest.sure = {}
  BY NoRequestFine DEF Fine
<1> QED
  BY <1>1, <1>2 DEF HandlerInv, LeasesProtect, Fine, Handler, Early

---------------------------------------------------------------------------
(* The counters.                                                           *)

LEMMA AtMostTyped == \A n \in 0 .. ChangeLimit : AtMost(n + 1, ChangeLimit) \in 0 .. ChangeLimit
BY LimitsAreNumbers DEF AtMost

LEMMA CountsServed ==
  ASSUME DavInv, NEW t \in Threads, Serve(t)
  PROVE  CountsInv'
<1> USE DEF DavInv, CountsInv
<1>1. UNCHANGED valkey => CountsInv'
  BY DEF valkey
<1>2. Receive(t) \/ Look(t) \/ Check(t) \/ CheckUnanswered(t) \/ LeaseRefused(t) \/ Stat(t) \/ Drop(t)
        \/ DropFails(t) \/ Put(t) \/ Mkcol(t) \/ Move(t) \/ MoveFails(t) \/ PutOrMkcolFails(t)
        \/ Collect(t)
      => UNCHANGED valkey
  BY DEF Receive, Look, Check, CheckUnanswered, LeaseRefused, Stat, Drop, DropFails, Put, Mkcol,
         Move, MoveFails, PutOrMkcolFails, Collect
<1>8. Counted(t) => changes' \in 0 .. ChangeLimit /\ deletes' \in 0 .. ChangeLimit
  BY AtMostTyped DEF Counted
<1>3. RecordUnanswered(t) => CountsInv'
  <2> SUFFICES ASSUME RecordUnanswered(t) PROVE CountsInv'
    OBVIOUS
  <2>1. changes' \in 0 .. ChangeLimit /\ deletes' \in 0 .. ChangeLimit
    BY <1>8 DEF RecordUnanswered
  <2>2. safeMode' \in BOOLEAN
    <3>1. \/ safeMode' = safeMode
          \/ safeMode' = (safeMode \/ Anomalous(handler[t].counted, deletes))
      BY DEF RecordUnanswered
    <3> QED
      BY <3>1, Zenon
  <2> QED
    BY <2>1, <2>2 DEF RecordUnanswered
<1>9. LeaseUnanswered(t) => CountsInv'
  BY DEF LeaseUnanswered
<1>4. Lease(t) => CountsInv'
  <2> SUFFICES ASSUME Lease(t) PROVE CountsInv'
    OBVIOUS
  <2>1. lease' \in [LeaseKeys -> Threads \cup {None, Orphan}]
    BY DEF Lease
  <2> QED
    BY <2>1 DEF Lease
<1>5. Count(t) => CountsInv'
  BY AtMostTyped DEF Count, Counted
<1>6. Judge(t) => CountsInv'
  <2> SUFFICES ASSUME Judge(t) PROVE CountsInv'
    OBVIOUS
  <2>1. safeMode' \in BOOLEAN
    BY Zenon DEF Judge
  <2> QED
    BY <2>1 DEF Judge
<1>7. ASSUME NEW k \in LeaseKeys, Release(t, k) \/ ReleaseUnanswered(t, k) PROVE CountsInv'
  <2>1. lease' \in [LeaseKeys -> Threads \cup {None, Orphan}]
    BY <1>7 DEF Release, ReleaseUnanswered
  <2> QED
    BY <1>7, <2>1 DEF Release, ReleaseUnanswered
<1> QED
  BY <1>1, <1>2, <1>3, <1>4, <1>5, <1>6, <1>7, <1>9 DEF Serve

LEMMA ServedInv == ASSUME DavInv, NEW t \in Threads, Serve(t) PROVE HandlerInv'
BY ReceiveInv, LookInv, CheckInv, LeaseInv, StatInv, DropInv, CallInv, RecordInv, ReleaseInv DEF Serve

LEMMA DavInitInv == DavInit => DavInv
<1> SUFFICES ASSUME DavInit PROVE DavInv
  OBVIOUS
<1>1. Fine(NoRequest) /\ NoRequest \in Handler /\ NoRequest.safe = FALSE /\ NoRequest.sure = {}
  BY NoRequestFine DEF Fine
<1>2. HandlerInv
  BY <1>1 DEF DavInit, HandlerInv, LeasesProtect
<1>3. CountsInv
  <2>1. 0 \in 0 .. ChangeLimit
    BY LimitsAreNumbers
  <2>2. lease \in [LeaseKeys -> Threads \cup {None, Orphan}]
    BY DEF DavInit
  <2>3. changes = 0 /\ deletes = 0 /\ safeMode = FALSE /\ disturbed = FALSE
    BY DEF DavInit
  <2>4. safeMode \in BOOLEAN /\ disturbed \in BOOLEAN
    BY <2>3
  <2> QED
    BY <2>1, <2>2, <2>3, <2>4 DEF CountsInv
<1> QED
  BY <1>2, <1>3 DEF DavInv

LEMMA HandlerUnchanged ==
  ASSUME HandlerInv, handler' = handler, lease' = lease, safeMode' = safeMode
  PROVE  HandlerInv'
<1>1. \A t \in Threads : Fine(handler'[t])
  BY DEF HandlerInv
<1>2. LeasesProtect'
  BY DEF HandlerInv, LeasesProtect
<1> QED
  BY <1>1, <1>2 DEF HandlerInv, Fine, Handler, Early

LEMMA DavNextInv == DavInv /\ [DavNext]_davVars => DavInv'
<1> SUFFICES ASSUME DavInv, [DavNext]_davVars PROVE DavInv'
  OBVIOUS
<1>1. ASSUME NEW t \in Threads, Serve(t) PROVE DavInv'
  BY <1>1, ServedInv, CountsServed DEF DavInv
<1>2. ASSUME NEW k \in LeaseKeys, Lapse(k) PROVE DavInv'
  <2>1. lease' \in [LeaseKeys -> Threads \cup {None, Orphan}]
    BY <1>2 DEF Lapse, DavInv, CountsInv
  <2>2. CountsInv'
    BY <1>2, <2>1 DEF Lapse, DavInv, CountsInv
  <2> QED
    BY <1>2, <2>2, LapseInv DEF DavInv
<1>3. CASE Expire
  <2>1. CountsInv'
    BY <1>3, LimitsAreNumbers DEF Expire, DavInv, CountsInv
  <2>2. HandlerInv'
    BY <1>3, HandlerUnchanged DEF Expire, DavInv
  <2> QED
    BY <2>1, <2>2 DEF DavInv
<1>4. CASE ClearSafeMode
  <2>1. CountsInv'
    BY <1>4 DEF ClearSafeMode, DavInv, CountsInv
  <2> QED
    BY <1>4, <2>1, ClearInv DEF DavInv
<1>5. CASE Crash
  <2>1. lease' \in [LeaseKeys -> Threads \cup {None, Orphan}]
    BY <1>5 DEF Crash
  <2>2. CountsInv'
    BY <1>5, <2>1 DEF Crash, DavInv, CountsInv
  <2> QED
    BY <1>5, <2>2, CrashInv DEF DavInv
<1>6. CASE UNCHANGED davVars
  <2>1. CountsInv'
    BY <1>6 DEF davVars, valkey, DavInv, CountsInv
  <2> QED
    BY <1>6, <2>1, HandlerUnchanged DEF davVars, valkey, DavInv
<1> QED
  BY <1>1, <1>2, <1>3, <1>4, <1>5, <1>6 DEF DavNext

LEMMA DavInvariant == DavSpec => []DavInv
BY DavInitInv, DavNextInv, PTL DEF DavSpec

\* Of two requests that ask for a key one at most is sure of it, whatever lapses, is
\* released late or is left behind by a crash (file_lock).
THEOREM LeasesAlwaysProtect == DavSpec => []LeasesProtect
<1>1. DavInv => LeasesProtect
  BY DEF DavInv, HandlerInv
<1> QED
  BY <1>1, DavInvariant, PTL

---------------------------------------------------------------------------
(* The gateway does with the namespace what a backend does.                *)

LEMMA DavStep == DavInv /\ [DavNext]_davVars => [Next]_vars
<1> SUFFICES ASSUME DavInv, [DavNext]_davVars PROVE [Next]_vars
  OBVIOUS
<1>1. ASSUME NEW t \in Threads, Serve(t) PROVE [Next]_vars
  <2> DEFINE h == handler[t]
  <2>1. Fine(h)
    BY DEF DavInv, HandlerInv
  <2>2. CASE Drop(t)
    <3>1. Deleted(t) \in Paths
      BY <2>1, <2>2 DEF Drop, At, Fine, Early, Deleted
    <3> QED
      BY <2>2, <3>1 DEF Drop, Next
  <2>3. CASE Put(t)
    <3>1. h.path \in Paths
      BY <2>1, <2>3 DEF Put, At, Fine, Early
    <3> QED
      BY <2>3, <3>1 DEF Put, Next
  <2>4. CASE Mkcol(t)
    <3>1. h.path \in Paths
      BY <2>1, <2>4 DEF Mkcol, At, Fine, Early
    <3> QED
      BY <2>4, <3>1 DEF Mkcol, Next
  <2>5. CASE Move(t) \/ MoveFails(t)
    <3>1. h.path \in Paths /\ h.dst \in Paths
      BY <2>1, <2>5 DEF Move, MoveFails, At, Fine, Early
    <3> QED
      BY <2>5, <3>1 DEF Move, MoveFails, Next
  <2>6. CASE Collect(t)
    BY <2>6 DEF Collect, Next
  <2>7. CASE \/ Receive(t) \/ Look(t) \/ Check(t) \/ CheckUnanswered(t)
             \/ Lease(t) \/ LeaseRefused(t) \/ LeaseUnanswered(t)
             \/ Stat(t) \/ DropFails(t) \/ PutOrMkcolFails(t)
             \/ Count(t) \/ Judge(t) \/ RecordUnanswered(t)
             \/ \E k \in LeaseKeys : Release(t, k) \/ ReleaseUnanswered(t, k)
    BY <2>7 DEF Receive, Look, Check, CheckUnanswered, Lease, LeaseRefused, LeaseUnanswered, Stat,
                DropFails, PutOrMkcolFails, Count, Judge, RecordUnanswered, Release, ReleaseUnanswered
  <2> QED
    BY <1>1, <2>2, <2>3, <2>4, <2>5, <2>6, <2>7 DEF Serve
<1>2. CASE (\E k \in LeaseKeys : Lapse(k)) \/ Expire \/ ClearSafeMode \/ Crash \/ UNCHANGED davVars
  BY <1>2 DEF Lapse, Expire, ClearSafeMode, Crash, davVars
<1> QED
  BY <1>1, <1>2 DEF DavNext

\* Whatever a request found before it had its leases, and whatever happens to those, the
\* gateway does nothing to the tables that the backend would not do by itself: what is
\* shown of Namespace holds of the gateway, too.
THEOREM GatewayImplementsNamespace == DavSpec => Spec
<1>1. DavInit => Init
  BY DEF DavInit
<1> QED
  BY <1>1, DavInvariant, DavStep, PTL DEF DavSpec, Spec

\* The types of what the gateway and Valkey keep.
THEOREM DavTypeCorrect == DavSpec => []DavTypeOK
<1>1. DavInv /\ TypeOK => DavTypeOK
  BY DEF DavInv, HandlerInv, CountsInv, DavTypeOK
<1> QED
  BY <1>1, DavInvariant, GatewayImplementsNamespace, TypeCorrect, PTL

---------------------------------------------------------------------------
(* Safe mode is entered.  Who has counted last has still to judge, or has  *)
(* judged.                                                                 *)

Judged ==
  \/ disturbed
  \/ safeMode
  \/ ~Anomalous(changes, deletes)
  \/ \E t \in Threads : At(t, "judge") /\ handler[t].counted = changes

LEMMA Limits ==
  /\ ChangeLimit \in Nat /\ RatioMinimum \in Nat /\ RatioOf \in Nat /\ RatioIn \in Nat
  /\ ChangeLimit > 0 /\ RatioMinimum > 0 /\ RatioOf > 0
BY LimitsAreNumbers

LEMMA NoChanges == ~Anomalous(0, 0)
BY Limits DEF Anomalous

LEMMA NoDeletions ==
  ASSUME NEW n \in Nat, NEW d, Anomalous(n, 0)
  PROVE  Anomalous(n, d)
<1>1. CASE n >= ChangeLimit
  BY <1>1 DEF Anomalous
<1>2. CASE n >= RatioMinimum /\ 0 * RatioIn >= RatioOf * n
  <2>1. n > 0 /\ 0 * RatioIn = 0
    BY <1>2, Limits
  <2>2. \A x, y \in Nat : x > 0 /\ y > 0 => x * y > 0
    OBVIOUS
  <2>3. RatioOf * n > 0 /\ RatioOf * n \in Nat
    BY <2>1, <2>2, Limits
  <2> QED
    BY <1>2, <2>1, <2>3
<1> QED
  BY <1>1, <1>2 DEF Anomalous

LEMMA OthersStay ==
  ASSUME NEW t \in Threads, Serve(t), HandlerInv
  PROVE  \A u \in Threads \ {t} : handler'[u] = handler[u]
<1>1. handler \in [Threads -> Handler]
  BY DEF HandlerInv
<1>2. \A c \in {"count", "release"} : Leave(t, c) => \A u \in Threads \ {t} : handler'[u] = handler[u]
  BY <1>1 DEF Leave
<1>3. Close(t) => \A u \in Threads \ {t} : handler'[u] = handler[u]
  BY <1>1, <1>2 DEF Close, Answer
<1>4. \A got : Asked(t, got) => \A u \in Threads \ {t} : handler'[u] = handler[u]
  BY <1>1 DEF Asked
<1>5. CASE Receive(t) \/ Look(t) \/ Check(t) \/ CheckUnanswered(t)
  BY <1>1, <1>5 DEF Receive, Look, Check, CheckUnanswered, Answer, Go
<1>6. CASE Lease(t) \/ LeaseRefused(t) \/ LeaseUnanswered(t)
  BY <1>3, <1>4, <1>6 DEF Lease, LeaseRefused, LeaseUnanswered
<1>7. CASE Stat(t) \/ Drop(t) \/ DropFails(t)
  BY <1>1, <1>2, <1>3, <1>7 DEF Stat, Drop, DropFails, Go
<1>8. CASE Put(t) \/ Mkcol(t) \/ Move(t) \/ MoveFails(t) \/ PutOrMkcolFails(t) \/ Collect(t)
  BY <1>2, <1>3, <1>8 DEF Put, Mkcol, Move, MoveFails, PutOrMkcolFails, Collect
<1>9. CASE Count(t) \/ Judge(t) \/ RecordUnanswered(t)
  BY <1>1, <1>3, <1>9 DEF Count, Judge, RecordUnanswered
<1>10. CASE \E k \in LeaseKeys : Release(t, k) \/ ReleaseUnanswered(t, k)
  BY <1>1, <1>10 DEF Release, ReleaseUnanswered, GiveUp
<1> QED
  BY <1>5, <1>6, <1>7, <1>8, <1>9, <1>10 DEF Serve

LEMMA JudgedNext == DavInv /\ Judged /\ [DavNext]_davVars => Judged'
<1> SUFFICES ASSUME DavInv, Judged, [DavNext]_davVars PROVE Judged'
  OBVIOUS
<1>1. handler \in [Threads -> Handler] /\ changes \in Nat
  BY Limits DEF DavInv, HandlerInv, CountsInv
<1>2. ASSUME UNCHANGED <<changes, deletes, safeMode, disturbed>>,
             \A u \in Threads : At(u, "judge") => At(u, "judge")' /\ handler'[u].counted = handler[u].counted
      PROVE  Judged'
  BY <1>2 DEF Judged
<1>3. ASSUME NEW t \in Threads, Serve(t) PROVE Judged'
  <2>1. \A u \in Threads \ {t} : handler'[u] = handler[u]
    BY <1>3, OthersStay DEF DavInv
  <2>2. CASE Count(t)
    <3> DEFINE n == [handler[t] EXCEPT !.pc = "judge", !.counted = changes']
    <3>1. handler' = [handler EXCEPT ![t] = n]
      BY <1>1, <2>2 DEF Count
    <3>2. n.pc = "judge" /\ n.counted = changes'
      BY <1>1 DEF Handler
    <3>3. handler'[t] = n
      BY <1>1, <3>1
    <3> HIDE DEF n
    <3> QED
      BY <3>2, <3>3 DEF Judged, At
  <2>3. CASE Judge(t)
    <3>1. UNCHANGED <<changes, deletes, disturbed>>
      BY <2>3 DEF Judge
    <3>2. (safeMode => safeMode') /\ (Anomalous(handler[t].counted, deletes) => safeMode')
      BY <2>3, Zenon DEF Judge
    <3>3. CASE \E u \in Threads \ {t} : At(u, "judge") /\ handler[u].counted = changes
      BY <2>1, <3>1, <3>3 DEF Judged, At
    <3>4. CASE ~(\E u \in Threads \ {t} : At(u, "judge") /\ handler[u].counted = changes)
      BY <3>1, <3>2, <3>4 DEF Judged
    <3> QED
      BY <3>3, <3>4
  <2>4. CASE RecordUnanswered(t)
    BY <2>4 DEF RecordUnanswered, Judged
  <2>5. CASE ~(Count(t) \/ Judge(t) \/ RecordUnanswered(t))
    <3>1. UNCHANGED <<changes, deletes, safeMode, disturbed>> /\ ~At(t, "judge")
      BY <1>3, <2>5 DEF Serve, valkey, At, Receive, Look, Check, CheckUnanswered, Lease, LeaseRefused,
         LeaseUnanswered, Stat, Drop, DropFails, Put, Mkcol, Move, MoveFails, PutOrMkcolFails, Collect, Release,
         ReleaseUnanswered
    <3> QED
      BY <1>2, <2>1, <3>1 DEF At
  <2> QED
    BY <2>2, <2>3, <2>4, <2>5
<1>4. ASSUME NEW k \in LeaseKeys, Lapse(k) PROVE Judged'
  <2>1. ASSUME NEW u \in Threads
        PROVE  handler'[u].pc = handler[u].pc /\ handler'[u].counted = handler[u].counted
    <3>1. handler[u] \in Handler
      BY <1>1
    <3>2. handler'[u] = handler[u] \/ handler'[u] = [handler[u] EXCEPT !.sure = @ \ {k}]
      BY <1>4 DEF Lapse
    <3> QED
      BY <3>1, <3>2 DEF Handler
  <2> QED
    BY <1>2, <1>4, <2>1 DEF Lapse, At
<1>5. CASE Expire
  <2>1. deletes' = 0 /\ handler' = handler /\ safeMode' = safeMode /\ disturbed \in BOOLEAN
        /\ (changes' = 0 \/ changes' = changes)
        /\ (disturbed' <=> (disturbed /\ changes' > 0))
    BY <1>5 DEF Expire, DavInv, CountsInv
  <2>2. CASE changes' = 0
    BY <2>1, <2>2, NoChanges DEF Judged
  <2>3. CASE changes' # 0
    <3>1. changes' = changes /\ changes' > 0
      BY <1>1, <2>1, <2>3
    <3>2. Anomalous(changes, 0) => Anomalous(changes, deletes)
      BY <1>1, NoDeletions
    <3> QED
      BY <2>1, <3>1, <3>2 DEF Judged, At
  <2> QED
    BY <2>2, <2>3
<1>6. CASE ClearSafeMode \/ Crash
  BY <1>6 DEF ClearSafeMode, Crash, Judged
<1>7. CASE UNCHANGED davVars
  BY <1>7 DEF davVars, valkey, Judged, At
<1> QED
  BY <1>3, <1>4, <1>5, <1>6, <1>7 DEF DavNext

\* As long as Valkey answers and nobody clears it, safe mode is on once everybody who
\* has counted a change has judged (record_change), in whatever order they do.
THEOREM SafeModeAlwaysEntered == DavSpec => []SafeModeEntered
<1>1. DavInit => Judged
  BY NoChanges DEF DavInit, Judged
<1>2. DavSpec => []Judged
  BY <1>1, DavInvariant, JudgedNext, PTL DEF DavSpec
<1>3. Judged => SafeModeEntered
  BY DEF Judged, SafeModeEntered
<1> QED
  BY <1>2, <1>3, PTL

---------------------------------------------------------------------------
(* What a request may do to files.                                         *)

LEMMA NewFilesKeep ==
  ASSUME NEW s \in Paths, NEW d \in Paths, KeysUnique(s, d),
         \A p \in MovedFiles(s) : NewPath(p, s, d) \in Paths,
         NEW q \in LivePaths, q \notin MovedFiles(s)
  PROVE  NewFiles(s, d)[q] # NoRow
<1>1. NewFiles(s, d)[Target(q, s, d)] = files[q] /\ Target(q, s, d) = q
  BY FilesRenamed DEF Target
<1> QED
  BY <1>1 DEF LivePaths, FileExists

LEMMA GoesStep ==
  TypeInv /\ DavInv /\ [DavNext]_davVars =>
     \A p \in LivePaths : files'[p] = NoRow =>
          \E t \in Threads :
             \/ handler[t].op = "DELETE" /\ handler[t].path = p
             \/ handler[t].op = "MOVE" /\ (handler[t].path = p \/ Below(p, handler[t].path))
             \/ /\ handler[t].op = "MOVE" /\ handler[t].dst = p
                /\ handler[t].overwrite /\ handler[t].found = "file"
<1> SUFFICES ASSUME TypeInv, DavInv, [DavNext]_davVars, NEW p \in LivePaths, files'[p] = NoRow
             PROVE  \E t \in Threads :
                       \/ handler[t].op = "DELETE" /\ handler[t].path = p
                       \/ handler[t].op = "MOVE" /\ (handler[t].path = p \/ Below(p, handler[t].path))
                       \/ /\ handler[t].op = "MOVE" /\ handler[t].dst = p
                          /\ handler[t].overwrite /\ handler[t].found = "file"
  OBVIOUS
<1>1. p \in Paths /\ files[p] # NoRow /\ files \in [Paths -> Row] /\ uploads \in Nat
  BY BoundsAreNumbers DEF LivePaths, FileExists, TypeInv, TypeOK
<1>2. files' # files
  BY <1>1
<1>3. PICK t \in Threads : Drop(t) \/ Put(t) \/ Move(t)
  <2>1. PICK t \in Threads : Serve(t)
    BY <1>2 DEF DavNext, davVars, vars, Lapse, Expire, ClearSafeMode, Crash
  <2>2. /\ ~Receive(t) /\ ~Look(t) /\ ~Check(t) /\ ~CheckUnanswered(t)
        /\ ~Stat(t) /\ ~Count(t) /\ ~Judge(t) /\ ~RecordUnanswered(t)
    BY <1>2 DEF vars, Receive, Look, Check, CheckUnanswered, Stat, Count, Judge, RecordUnanswered
  <2>3. /\ ~Lease(t) /\ ~LeaseRefused(t) /\ ~LeaseUnanswered(t)
        /\ \A k \in LeaseKeys : ~Release(t, k) /\ ~ReleaseUnanswered(t, k)
    BY <1>2 DEF vars, Lease, LeaseRefused, LeaseUnanswered, Release, ReleaseUnanswered
  <2>4. /\ ~DropFails(t) /\ ~Mkcol(t) /\ ~MoveFails(t) /\ ~PutOrMkcolFails(t) /\ ~Collect(t)
    BY <1>2 DEF vars, DropFails, Mkcol, Mkdir, MoveFails, RenameFails, PutOrMkcolFails, Collect, Gc
  <2> QED
    BY <2>1, <2>2, <2>3, <2>4 DEF Serve
<1>4. Fine(handler[t])
  BY DEF DavInv, HandlerInv
<1>5. CASE Drop(t)
  <2>1. handler[t].found = "file" /\ DeleteFile(Deleted(t)) /\ handler[t].pc = "drop"
    BY <1>2, <1>5 DEF Drop, DeleteDirectory, At
  <2>2. p = Deleted(t)
    BY <1>1, <2>1 DEF DeleteFile
  <2> QED
    BY <1>4, <2>1, <2>2 DEF Deleted, Fine
<1>6. CASE Put(t)
  <2> DEFINE new == [manifest |-> uploads + 1, version |-> NextVersion(handler[t].path)]
  <2>1. files' = [files EXCEPT ![handler[t].path] = new]
    BY <1>2, <1>6 DEF Put, Upload, vars
  <2>2. new # NoRow
    BY <1>1 DEF NoRow
  <2> HIDE DEF new
  <2> QED
    BY <1>1, <2>1, <2>2
<1>7. CASE Move(t)
  <2> DEFINE s == handler[t].path
             d == handler[t].dst
  <2>1. Rename(s, d) /\ handler[t].op = "MOVE" /\ s \in Paths /\ d \in Paths
    BY <1>4, <1>7 DEF Move, At, Fine, Early
  <2>2. p \in MovedFiles(s)
    BY <2>1, NewFilesKeep DEF Rename
  <2>3. p = s \/ Below(p, s)
    BY <2>2 DEF MovedFiles
  <2> QED
    BY <2>1, <2>3
<1> QED
  BY <1>3, <1>5, <1>6, <1>7

\* A file goes from its path by requests that name it or a directory above it, or by an
\* overwriting MOVE onto it (do_DELETE, do_MOVE): never by another's stale look.
THEOREM FilesGoOnRequest == DavSpec => GoesOnRequest
<1>1. DavSpec => []TypeInv
  BY GatewayImplementsNamespace, TypeInit, TypeNext, PTL DEF Spec
<1> QED
  BY <1>1, DavInvariant, GoesStep, PTL DEF DavSpec, GoesOnRequest

LEMMA SafeStep ==
  TypeInv /\ DavInv /\ [DavNext]_davVars =>
     \A t \in Threads :
          handler[t].safe /\ handler'[t] # handler[t] =>
             /\ \A r \in versions : r.manifest \in Lost =>
                   \/ r.path = handler[t].dst /\ (Move(t) \/ MoveFails(t))
                   \/ r.path = handler[t].path /\ Put(t) /\ r.version = files[r.path].version
             /\ Put(t) \/ CurrentManifests \subseteq CurrentManifests'
<1> SUFFICES ASSUME TypeInv, DavInv, [DavNext]_davVars, NEW t \in Threads,
                    handler[t].safe, handler'[t] # handler[t]
             PROVE  /\ \A r \in versions : r.manifest \in Lost =>
                          \/ r.path = handler[t].dst /\ (Move(t) \/ MoveFails(t))
                          \/ /\ r.path = handler[t].path /\ Put(t)
                             /\ r.version = files[r.path].version
                    /\ Put(t) \/ CurrentManifests \subseteq CurrentManifests'
  OBVIOUS
<1>1. Fine(handler[t])
  BY DEF DavInv, HandlerInv
<1>2. \A r \in versions : r.manifest \in Lost => r \notin versions'
  BY DEF Lost, ArchivedManifests
<1>3. CASE UNCHANGED vars
  BY <1>2, <1>3 DEF vars, CurrentManifests, LivePaths, FileExists
<1>4. CASE ~(UNCHANGED vars)
  <2>1. PICK u \in Threads : Drop(u) \/ Put(u) \/ Mkcol(u) \/ Move(u) \/ MoveFails(u) \/ Collect(u)
    BY <1>4 DEF DavNext, Serve, davVars, Receive, Look, Check, CheckUnanswered, Lease,
       LeaseRefused, LeaseUnanswered, Stat, DropFails,
       PutOrMkcolFails, Count, Judge, RecordUnanswered, Release, ReleaseUnanswered,
       Lapse, Expire, ClearSafeMode, Crash
  <2>2. u = t
    BY <2>1, OthersStay DEF Serve, DavInv
  <2>3. ~Drop(t) /\ ~Collect(t)
    BY <1>1 DEF Drop, Collect, At, Fine
  <2>4. CASE Put(t)
    <3>1. Upload(handler[t].path)
      BY <1>4, <2>4 DEF Put
    <3>2. \A r \in versions : r \notin versions' =>
             r.path = handler[t].path /\ r.version = files[handler[t].path].version
      BY <3>1 DEF Upload, Archive
    <3> QED
      BY <1>2, <2>4, <3>2
  <2>5. CASE Mkcol(t)
    <3>1. files' = files /\ versions' = versions
      BY <2>5 DEF Mkcol, Mkdir
    <3> QED
      BY <1>2, <3>1 DEF CurrentManifests, LivePaths, FileExists
  <2>6. CASE MoveFails(t)
    <3>1. files' = files /\ RenameFails(handler[t].path, handler[t].dst)
      BY <1>4, <2>6 DEF MoveFails, RenameFails
    <3>2. \A r \in versions : r \notin versions' => r.path = handler[t].dst
      BY <3>1 DEF RenameFails, PurgedVersions, HistoryOf
    <3> QED
      BY <1>2, <2>6, <3>1, <3>2 DEF CurrentManifests, LivePaths, FileExists
  <2>7. CASE Move(t)
    <3> DEFINE s == handler[t].path
               d == handler[t].dst
    <3>1. Rename(s, d) /\ s \in Paths /\ d \in Paths
      BY <1>1, <2>7 DEF Move, At, Fine, Early
    <3>2. /\ KeysUnique(s, d) /\ \A p \in MovedFiles(s) : NewPath(p, s, d) \in Paths
          /\ files' = NewFiles(s, d) /\ versions' = NewVersions(s, d)
      BY <3>1 DEF Rename
    <3>3. ASSUME NEW q \in LivePaths PROVE files[q].manifest \in CurrentManifests'
      <4>1. Target(q, s, d) \in Paths /\ files'[Target(q, s, d)] = files[q]
        BY <3>1, <3>2, FilesRenamed
      <4>2. files[q] # NoRow
        BY DEF LivePaths, FileExists
      <4> QED
        BY <4>1, <4>2 DEF CurrentManifests, LivePaths, FileExists
    <3>4. ASSUME NEW r \in versions, r.path # d PROVE r.manifest \in ArchivedManifests'
      <4> DEFINE n == IF r.path \in MovedFiles(s) THEN [r EXCEPT !.path = NewPath(r.path, s, d)] ELSE r
      <4>1. r \in PurgedVersions(d)
        BY <3>4 DEF PurgedVersions, HistoryOf
      <4>2. n \in versions'
        BY <3>2, <4>1 DEF NewVersions
      <4>3. n.manifest = r.manifest
        BY DEF TypeInv, TypeOK, Version
      <4> HIDE DEF n
      <4> QED
        BY <4>2, <4>3 DEF ArchivedManifests
    <3>5. CurrentManifests \subseteq CurrentManifests'
      BY <3>3 DEF CurrentManifests
    <3> QED
      BY <2>7, <3>4, <3>5 DEF Lost
  <2> QED
    BY <2>1, <2>2, <2>3, <2>4, <2>5, <2>6, <2>7
<1> QED
  BY <1>3, <1>4

\* A request that came in safe mode destroys nothing and takes no file away while it
\* stays on, but for what a rename finds under a tombstone and an upload archives over.
THEOREM SafeModeAlwaysKeeps == DavSpec => SafeModeKeeps
<1>1. DavSpec => []TypeInv
  BY GatewayImplementsNamespace, TypeInit, TypeNext, PTL DEF Spec
<1> QED
  BY <1>1, DavInvariant, SafeStep, PTL DEF DavSpec, SafeModeKeeps
=============================================================================
