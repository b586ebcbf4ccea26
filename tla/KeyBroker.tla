------------------------------- MODULE KeyBroker -------------------------------
(***************************************************************************)
(* KeyBrokerPolicy (keybroker.py): the sliding window and the slots that   *)
(* decide whether the Key Broker serves a request, shared by the threads   *)
(* that handle the requests.  Time is counted in ticks.                    *)
(***************************************************************************)
EXTENDS Integers, FiniteSets, FiniteSetsExt, Sequences

CONSTANTS
    Clients,
    MaxConcurrent,   \* slots
    MaxRequests,     \* requests in a window
    Window,          \* a minute
    MaxWait          \* bound: ticks between reading the clock and having the lock

ASSUME PolicyLimitsArePositive ==
    /\ {MaxConcurrent, MaxRequests, Window} \subseteq Nat \ {0}
    /\ MaxWait \in Nat

VARIABLES
    client,    \* what the broker does for a client: "away", "arrived", "serving"
    waited,    \* ticks since the handler of an arrived client has read the clock
    slots,     \* _operation_slots that are free
    times,     \* _request_times, as ages
    admitted   \* not in the code: the ages of the last admissions, by the true time

brokerVars == <<client, waited, slots, times, admitted>>

---------------------------------------------------------------------------
\* Beyond this age a time is old for every handler.
Old == Window + MaxWait
Older(age) == IF age < Old THEN age + 1 ELSE Old

\* The ages from the first on that is below the limit: what precedes it is dropped.
DropOld(ages, limit) ==
    LET young == {i \in DOMAIN ages : ages[i] < limit}
    IN IF young = {} THEN <<>> ELSE SubSeq(ages, Min(young), Len(ages))

BrokerInit ==
    /\ client = [c \in Clients |-> "away"]
    /\ waited = [c \in Clients |-> 0]
    /\ slots = MaxConcurrent
    /\ times = <<>>
    /\ admitted = <<>>

\* A request comes, and its handler reads the clock before it takes the lock.
Arrive(c) ==
    /\ client[c] = "away"
    /\ client' = [client EXCEPT ![c] = "arrived"]
    /\ UNCHANGED <<waited, slots, times, admitted>>

\* A faulty variant: a handler that waited for the lock drops too much.
CurrentDropsEarly(c) == DropOld(times, Window - waited[c])

\* The window of a handler whose clock is waited[c] ticks behind.
Current(c) == DropOld(times, Window + waited[c])

Admissible(c) == Len(Current(c)) < MaxRequests /\ slots > 0

Admit(c) ==
    /\ client[c] = "arrived"
    /\ Admissible(c)
    /\ times' = Append(Current(c), waited[c])
    /\ admitted' = Append(admitted, 0)
    /\ slots' = slots - 1
    /\ client' = [client EXCEPT ![c] = "serving"]
    /\ waited' = [waited EXCEPT ![c] = 0]

\* A faulty variant: the slot is taken before the window is looked at.
RefuseTakesSlot(c) ==
    /\ client[c] = "arrived"
    /\ ~Admissible(c)
    /\ times' = Current(c)
    /\ slots' = IF slots > 0 THEN slots - 1 ELSE 0
    /\ client' = [client EXCEPT ![c] = "away"]
    /\ waited' = [waited EXCEPT ![c] = 0]
    /\ UNCHANGED admitted

\* A faulty variant: a refused request gives back a slot, too.
RefuseReleases(c) ==
    /\ client[c] = "arrived"
    /\ ~Admissible(c)
    /\ times' = Current(c)
    /\ slots' = slots + 1
    /\ client' = [client EXCEPT ![c] = "away"]
    /\ waited' = [waited EXCEPT ![c] = 0]
    /\ UNCHANGED admitted

\* 429.
Refuse(c) ==
    /\ client[c] = "arrived"
    /\ ~Admissible(c)
    /\ times' = Current(c)
    /\ client' = [client EXCEPT ![c] = "away"]
    /\ waited' = [waited EXCEPT ![c] = 0]
    /\ UNCHANGED <<slots, admitted>>

\* Answered, well or not: release_request.
Done(c) ==
    /\ client[c] = "serving"
    /\ slots' = slots + 1
    /\ client' = [client EXCEPT ![c] = "away"]
    /\ UNCHANGED <<waited, times, admitted>>

Tick ==
    /\ \A c \in Clients : client[c] = "arrived" => waited[c] < MaxWait
    /\ waited' = [c \in Clients |-> IF client[c] = "arrived" THEN waited[c] + 1 ELSE waited[c]]
    /\ times' = [i \in DOMAIN times |-> Older(times[i])]
    /\ admitted' = DropOld([i \in DOMAIN admitted |-> admitted[i] + 1], Window)
    /\ UNCHANGED <<client, slots>>

Handle(c) == Arrive(c) \/ Admit(c) \/ Refuse(c) \/ Done(c)

BrokerNext == Tick \/ \E c \in Clients : Handle(c)

BrokerSpec == BrokerInit /\ [][BrokerNext]_brokerVars

---------------------------------------------------------------------------
(* Properties.                                                             *)

BrokerTypeOK ==
    /\ client \in [Clients -> {"away", "arrived", "serving"}]
    /\ waited \in [Clients -> 0 .. MaxWait]
    /\ slots \in 0 .. MaxConcurrent
    /\ times \in Seq(0 .. Old) /\ Len(times) <= MaxRequests
    /\ admitted \in Seq(0 .. Window - 1)

\* However handlers that have read the clock overtake each other (admit_request), no
\* more requests than the limit are admitted within a window less that delay.
RateHolds ==
    Cardinality({i \in DOMAIN admitted : admitted[i] < Window - MaxWait}) <= MaxRequests

\* A slot is taken by a request that is served and by nothing else: refusals keep
\* none, so that the broker does not run dry (admit_request, release_request).
SlotsConserved == slots + Cardinality({c \in Clients : client[c] = "serving"}) = MaxConcurrent
=============================================================================
