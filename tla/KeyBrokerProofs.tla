---------------------------- MODULE KeyBrokerProofs ----------------------------
(***************************************************************************)
(* Theorems about the module KeyBroker, for any number of clients and any  *)
(* limits.                                                                 *)
(***************************************************************************)
EXTENDS KeyBroker, BoundedMax, FiniteSetTheorems, SequenceTheorems, TLAPS

Serving == {c \in Clients : client[c] = "serving"}

---------------------------------------------------------------------------
(* What is dropped from a window is a prefix.                              *)

LEMMA DropsPrefix ==
  ASSUME NEW ages \in Seq(Nat), NEW limit \in Int
  PROVE  \E n \in 0 .. Len(ages) :
            /\ DropOld(ages, limit) = SubSeq(ages, n + 1, Len(ages))
            /\ \A i \in 1 .. n : ages[i] >= limit
            /\ n < Len(ages) => ages[n + 1] < limit
<1> DEFINE young == {i \in DOMAIN ages : ages[i] < limit}
<1>1. PICK len \in Nat : len = Len(ages) /\ DOMAIN ages = 1 .. len
  OBVIOUS
<1>2. \A i \in 1 .. len : ages[i] \in Nat
  BY <1>1
<1>3. young \in SUBSET Nat /\ \A i \in young : i <= len
  BY <1>1
<1>4. CASE young = {}
  <2>1. DropOld(ages, limit) = <<>>
    BY <1>4 DEF DropOld
  <2>2. SubSeq(ages, len + 1, len) = <<>>
    BY <1>1, SubSeqEmpty
  <2>3. \A i \in 1 .. len : ages[i] >= limit
    BY <1>1, <1>2, <1>4
  <2> QED
    BY <1>1, <2>1, <2>2, <2>3
<1>5. CASE young # {}
  <2>1. Min(young) \in young /\ \A i \in young : Min(young) <= i
    BY <1>3, <1>5, MinOfNumbers
  <2>2. PICK m \in 1 .. len : m = Min(young)
    BY <1>1, <2>1
  <2>3. DropOld(ages, limit) = SubSeq(ages, m, Len(ages))
    BY <1>5, <2>2 DEF DropOld
  <2>4. ages[m] < limit /\ \A i \in 1 .. len : ages[i] < limit => m <= i
    BY <1>1, <2>1, <2>2
  <2> HIDE DEF young
  <2>5. m - 1 \in 0 .. len /\ (m - 1) + 1 = m
    BY <2>2
  <2>6. ASSUME NEW i \in 1 .. m - 1
        PROVE  ages[i] >= limit
    <3>1. i \in 1 .. len /\ ~(m <= i)
      BY <1>1, <2>2
    <3>2. ages[i] \in Int /\ ~(ages[i] < limit)
      BY <1>2, <2>4, <3>1
    <3> QED
      BY <3>2
  <2> QED
    BY <1>1, <2>3, <2>4, <2>5, <2>6
<1> QED
  BY <1>4, <1>5

LEMMA Suffix ==
  ASSUME NEW s \in Seq(Nat), NEW n \in 0 .. Len(s)
  PROVE  LET t == SubSeq(s, n + 1, Len(s))
         IN /\ t \in Seq(Nat)
            /\ Len(t) = Len(s) - n
            /\ \A i \in 1 .. Len(t) : t[i] = s[i + n]
<1> DEFINE t == SubSeq(s, n + 1, Len(s))
<1>1. Len(s) \in Nat /\ n \in Nat /\ n <= Len(s) /\ \A i \in n + 1 .. Len(s) : s[i] \in Nat
  OBVIOUS
<1>2. /\ t \in Seq(Nat)
      /\ Len(t) = IF n + 1 <= Len(s) THEN Len(s) - (n + 1) + 1 ELSE 0
      /\ \A i \in 1 .. Len(s) - (n + 1) + 1 : t[i] = s[(n + 1) + i - 1]
  BY <1>1, SubSeqProperties
<1> HIDE DEF t
<1>3. Len(t) = Len(s) - n
  BY <1>1, <1>2
<1>4. ASSUME NEW i \in 1 .. Len(t)
      PROVE  t[i] = s[i + n]
  <2>1. i \in 1 .. Len(s) - (n + 1) + 1 /\ (n + 1) + i - 1 = i + n
    BY <1>1, <1>3
  <2> QED
    BY <1>2, <2>1
<1> QED
  BY <1>2, <1>3, <1>4 DEF t

LEMMA Bounded ==
  ASSUME NEW s \in Seq(Nat), NEW b \in Nat, \A i \in 1 .. Len(s) : s[i] <= b
  PROVE  s \in Seq(0 .. b)
<1>1. Len(s) \in Nat /\ DOMAIN s = 1 .. Len(s) /\ \A i \in 1 .. Len(s) : s[i] \in 0 .. b
  OBVIOUS
<1>2. s \in [1 .. Len(s) -> 0 .. b]
  BY <1>1, LenProperties
<1>3. s \in UNION {[1 .. n -> 0 .. b] : n \in Nat}
  BY <1>1, <1>2
<1> QED
  BY <1>3, SeqDef

---------------------------------------------------------------------------
(* The invariant.  The ages of admissions fall from left to right, and     *)
(* from the right every recent one has its entry in the window of the      *)
(* broker, which is at most MaxWait ticks older.                           *)

Falling == \A i, j \in DOMAIN admitted : i < j => admitted[i] >= admitted[j]

Record(i, j) ==
  /\ Len(times) - j = Len(admitted) - i
  /\ times[j] <= admitted[i] + MaxWait

Recorded ==
  \A i \in DOMAIN admitted :
     admitted[i] < Window - MaxWait => \E j \in DOMAIN times : Record(i, j)

WindowInv ==
  /\ times \in Seq(Nat) /\ Len(times) <= MaxRequests
  /\ \A i \in 1 .. Len(times) : times[i] <= Old
  /\ admitted \in Seq(Nat)
  /\ \A i \in 1 .. Len(admitted) : admitted[i] < Window
  /\ Falling
  /\ Recorded

SlotInv ==
  /\ client \in [Clients -> {"away", "arrived", "serving"}]
  /\ waited \in [Clients -> 0 .. MaxWait]
  /\ slots \in Nat
  /\ IsFiniteSet(Serving)
  /\ SlotsConserved

BrokerInv == SlotInv /\ WindowInv

LEMMA Limits ==
  /\ MaxConcurrent \in Nat /\ MaxRequests \in Nat /\ Window \in Nat /\ MaxWait \in Nat
  /\ MaxConcurrent > 0 /\ MaxRequests > 0 /\ Window > 0
  /\ Old = Window + MaxWait /\ Old \in Nat
BY PolicyLimitsArePositive DEF Old

LEMMA BrokerInitInv == BrokerInit => BrokerInv
<1> SUFFICES ASSUME BrokerInit PROVE BrokerInv
  OBVIOUS
<1> USE Limits
<1>1. Serving = {}
  BY DEF BrokerInit, Serving
<1>2. IsFiniteSet(Serving) /\ Cardinality(Serving) = 0
  BY <1>1, FS_EmptySet
<1>3. SlotInv
  BY <1>2 DEF BrokerInit, SlotInv, SlotsConserved, Serving
<1>4. WindowInv
  BY DEF BrokerInit, WindowInv, Falling, Recorded, Record
<1> QED
  BY <1>3, <1>4 DEF BrokerInv

---------------------------------------------------------------------------
(* The window.                                                             *)

LEMMA WindowDropped ==
  ASSUME BrokerInv, NEW c \in Clients
  PROVE  LET t == Current(c)
         IN /\ t \in Seq(Nat) /\ Len(t) <= Len(times)
            /\ \A j \in DOMAIN t : t[j] <= Old
            /\ \A i \in DOMAIN admitted :
                  admitted[i] < Window - MaxWait =>
                     \E j \in DOMAIN t : /\ Len(t) - j = Len(admitted) - i
                                        /\ t[j] <= admitted[i] + MaxWait
<1> USE Limits
<1>1. waited[c] \in 0 .. MaxWait /\ times \in Seq(Nat) /\ admitted \in Seq(Nat)
  BY DEF BrokerInv, SlotInv, WindowInv
<1>2. PICK len \in Nat : len = Len(times) /\ DOMAIN times = 1 .. len
  BY <1>1
<1>3. PICK n \in 0 .. len :
         /\ Current(c) = SubSeq(times, n + 1, Len(times))
         /\ \A i \in 1 .. n : times[i] >= Window + waited[c]
  <2>1. Window + waited[c] \in Int
    BY <1>1
  <2> QED
    BY <1>1, <1>2, <2>1, DropsPrefix DEF Current
<1> DEFINE t == Current(c)
<1>4. t \in Seq(Nat) /\ Len(t) = len - n /\ \A i \in 1 .. Len(t) : t[i] = times[i + n]
  BY <1>1, <1>2, <1>3, Suffix
<1>5. DOMAIN t = 1 .. len - n
  BY <1>2, <1>4
<1> HIDE DEF t
<1>6. \A j \in DOMAIN t : t[j] <= Old
  <2>1. \A j \in 1 .. len - n : j + n \in 1 .. len
    BY <1>2, <1>3
  <2> QED
    BY <1>2, <1>4, <1>5, <2>1 DEF BrokerInv, WindowInv
<1>7. ASSUME NEW i \in DOMAIN admitted, admitted[i] < Window - MaxWait
      PROVE  \E j \in DOMAIN t : Len(t) - j = Len(admitted) - i /\ t[j] <= admitted[i] + MaxWait
  <2>1. PICK j \in 1 .. len : Record(i, j)
    BY <1>2, <1>7 DEF BrokerInv, WindowInv, Recorded
  <2>2. admitted[i] \in Nat /\ times[j] \in Nat
    BY <1>1, <1>2
  <2>3. times[j] < Window
    BY <1>7, <2>1, <2>2 DEF Record
  <2>4. j \notin 1 .. n
    <3>1. waited[c] \in Nat /\ ~(times[j] >= Window + waited[c])
      BY <1>1, <2>2, <2>3
    <3> QED
      BY <1>3, <3>1
  <2>5. j - n \in 1 .. len - n /\ (j - n) + n = j
    BY <1>2, <1>3, <2>1, <2>4
  <2>6. t[j - n] = times[j]
    BY <1>4, <2>5
  <2>7. i \in Int /\ Len(admitted) \in Int
    BY <1>1
  <2>8. Len(t) - (j - n) = Len(admitted) - i
    BY <1>2, <1>3, <1>4, <2>1, <2>7 DEF Record
  <2> QED
    BY <1>5, <2>1, <2>5, <2>6, <2>8 DEF Record
<1>8. Len(t) <= Len(times)
  BY <1>2, <1>3, <1>4
<1> QED
  BY <1>4, <1>6, <1>7, <1>8 DEF t

LEMMA WindowAdmit ==
  ASSUME BrokerInv, NEW c \in Clients, Admit(c)
  PROVE  WindowInv'
<1> USE Limits
<1>1. waited[c] \in 0 .. MaxWait /\ admitted \in Seq(Nat)
  BY DEF BrokerInv, SlotInv, WindowInv
<1> DEFINE t == Current(c)
<1>2. /\ t \in Seq(Nat) /\ \A j \in DOMAIN t : t[j] <= Old
      /\ \A i \in DOMAIN admitted :
            admitted[i] < Window - MaxWait =>
               \E j \in DOMAIN t : Len(t) - j = Len(admitted) - i /\ t[j] <= admitted[i] + MaxWait
  BY WindowDropped
<1>3. Len(t) < MaxRequests /\ times' = Append(t, waited[c]) /\ admitted' = Append(admitted, 0)
  BY DEF Admit, Admissible
<1> HIDE DEF t
<1>4. PICK n \in Nat : n = Len(t) /\ DOMAIN t = 1 .. n
  BY <1>2
<1>5. PICK m \in Nat : m = Len(admitted) /\ DOMAIN admitted = 1 .. m
  BY <1>1
<1>6. /\ times' \in Seq(Nat) /\ Len(times') = n + 1 /\ DOMAIN times' = 1 .. n + 1
      /\ (\A j \in 1 .. n : times'[j] = t[j]) /\ times'[n + 1] = waited[c]
  BY <1>1, <1>2, <1>3, <1>4
<1>7. /\ admitted' \in Seq(Nat) /\ Len(admitted') = m + 1 /\ DOMAIN admitted' = 1 .. m + 1
      /\ (\A i \in 1 .. m : admitted'[i] = admitted[i]) /\ admitted'[m + 1] = 0
  BY <1>1, <1>3, <1>5
<1>8. \A i \in 1 .. m : admitted[i] \in Nat /\ admitted[i] < Window
  BY <1>1, <1>5 DEF BrokerInv, WindowInv
<1>9. \A k \in Nat : \A i \in 1 .. k + 1 : i \in 1 .. k \/ i = k + 1
  OBVIOUS
<1>10. Falling'
  <2> SUFFICES ASSUME NEW i \in 1 .. m + 1, NEW j \in 1 .. m + 1, i < j
               PROVE  admitted'[i] >= admitted'[j]
    BY <1>7 DEF Falling
  <2>1. i \in 1 .. m
    OBVIOUS
  <2>2. CASE j = m + 1
    BY <1>7, <1>8, <2>1, <2>2
  <2>3. CASE j \in 1 .. m
    BY <1>5, <1>7, <2>1, <2>3 DEF BrokerInv, WindowInv, Falling
  <2> QED
    BY <1>9, <2>2, <2>3
<1>11. Recorded'
  <2> SUFFICES ASSUME NEW i \in 1 .. m + 1, admitted'[i] < Window - MaxWait
               PROVE  \E j \in 1 .. n + 1 : Record(i, j)'
    BY <1>6, <1>7 DEF Recorded
  <2>1. CASE i = m + 1
    <3>1. n + 1 \in 1 .. n + 1 /\ waited[c] <= 0 + MaxWait
      BY <1>1
    <3>2. Record(i, n + 1)'
      BY <1>6, <1>7, <2>1, <3>1 DEF Record
    <3> QED
      BY <3>1, <3>2
  <2>2. CASE i \in 1 .. m
    <3>1. PICK j \in 1 .. n : n - j = m - i /\ t[j] <= admitted[i] + MaxWait
      BY <1>2, <1>4, <1>5, <1>7, <2>2
    <3>2. j \in 1 .. n + 1 /\ (n + 1) - j = (m + 1) - i
      BY <3>1
    <3>3. Record(i, j)'
      BY <1>6, <1>7, <2>2, <3>1, <3>2 DEF Record
    <3> QED
      BY <3>2, <3>3
  <2> QED
    BY <1>9, <2>1, <2>2
<1>12. \A j \in 1 .. n + 1 : times'[j] <= Old
  <2>1. waited[c] <= Old
    BY <1>1
  <2> QED
    BY <1>2, <1>4, <1>6, <1>9, <2>1
<1>13. \A i \in 1 .. m + 1 : admitted'[i] < Window
  BY <1>7, <1>8, <1>9
<1>14. Len(times') <= MaxRequests
  BY <1>3, <1>4, <1>6
<1> QED
  BY <1>6, <1>7, <1>10, <1>11, <1>12, <1>13, <1>14 DEF WindowInv

LEMMA WindowRefuse ==
  ASSUME BrokerInv, NEW c \in Clients, Refuse(c)
  PROVE  WindowInv'
<1> USE Limits
<1>1. times' = Current(c) /\ admitted' = admitted
  BY DEF Refuse
<1>2. times \in Seq(Nat) /\ Len(times) \in Nat /\ Len(times) <= MaxRequests
  BY DEF BrokerInv, WindowInv
<1>3. /\ times' \in Seq(Nat) /\ Len(times') <= Len(times)
      /\ \A j \in DOMAIN times' : times'[j] <= Old
  BY <1>1, WindowDropped
<1>4. Len(times') \in Nat /\ DOMAIN times' = 1 .. Len(times')
  BY <1>3
<1>5. Len(times') <= MaxRequests
  BY <1>2, <1>3, <1>4
<1>6. Recorded'
  BY <1>1, WindowDropped DEF Recorded, Record
<1> QED
  BY <1>1, <1>3, <1>4, <1>5, <1>6 DEF WindowInv, BrokerInv, Falling

LEMMA WindowTick ==
  ASSUME BrokerInv, Tick
  PROVE  WindowInv'
<1> USE Limits
<1> DEFINE aged == [i \in DOMAIN admitted |-> admitted[i] + 1]
<1>1. /\ times \in Seq(Nat) /\ Len(times) <= MaxRequests
      /\ admitted \in Seq(Nat)
  BY DEF BrokerInv, WindowInv
<1>2. times' = [j \in DOMAIN times |-> Older(times[j])] /\ admitted' = DropOld(aged, Window)
  BY DEF Tick
<1>3. PICK n \in Nat : n = Len(times) /\ DOMAIN times = 1 .. n
  BY <1>1
<1>4. PICK m \in Nat : m = Len(admitted) /\ DOMAIN admitted = 1 .. m
  BY <1>1
<1>5. \A j \in 1 .. n : times[j] \in Nat /\ times[j] <= Old
  BY <1>1, <1>3 DEF BrokerInv, WindowInv
<1>6. \A i \in 1 .. m : admitted[i] \in Nat
  BY <1>1, <1>4
<1>7. \A j \in 1 .. n : /\ Older(times[j]) \in Nat /\ Older(times[j]) <= Old
                        /\ Older(times[j]) <= times[j] + 1
  BY <1>5 DEF Older
<1>8. /\ times' \in Seq(Nat) /\ Len(times') = n /\ DOMAIN times' = 1 .. n
      /\ \A j \in 1 .. n : times'[j] = Older(times[j])
  <2>1. times' = [j \in 1 .. n |-> Older(times[j])]
    BY <1>2, <1>3
  <2> QED
    BY <1>7, <2>1
<1>9. aged \in Seq(Nat) /\ Len(aged) = m /\ \A i \in 1 .. m : aged[i] = admitted[i] + 1
  <2>1. aged = [i \in 1 .. m |-> admitted[i] + 1]
    BY <1>4
  <2>2. \A i \in 1 .. m : admitted[i] + 1 \in Nat
    BY <1>6
  <2> HIDE DEF aged
  <2> QED
    BY <2>1, <2>2
<1> HIDE DEF aged
<1>10. PICK d \in 0 .. m :
          /\ admitted' = SubSeq(aged, d + 1, Len(aged))
          /\ d < m => aged[d + 1] < Window
  <2>1. Window \in Int
    OBVIOUS
  <2> QED
    BY <1>2, <1>9, <2>1, DropsPrefix
<1>11. PICK k \in Nat : /\ k = m - d /\ admitted' \in Seq(Nat)
                        /\ Len(admitted') = k /\ DOMAIN admitted' = 1 .. k
                        /\ \A i \in 1 .. k : admitted'[i] = aged[i + d]
  <2>1. d \in 0 .. Len(aged)
    BY <1>9
  <2>2. /\ admitted' \in Seq(Nat) /\ Len(admitted') = Len(aged) - d
        /\ \A i \in 1 .. Len(admitted') : admitted'[i] = aged[i + d]
    BY <1>9, <1>10, <2>1, Suffix
  <2>3. m - d \in Nat /\ Len(admitted') = m - d /\ DOMAIN admitted' = 1 .. m - d
    BY <1>9, <1>10, <2>2
  <2> QED
    BY <2>2, <2>3
<1>12. \A i \in 1 .. k : i + d \in 1 .. m
  BY <1>10, <1>11
<1>13. \A i \in 1 .. k : admitted'[i] = admitted[i + d] + 1 /\ admitted[i + d] \in Nat
  BY <1>6, <1>9, <1>11, <1>12
<1>14. \A i, j \in 1 .. k : i < j => admitted'[i] >= admitted'[j]
  <2> SUFFICES ASSUME NEW i \in 1 .. k, NEW j \in 1 .. k, i < j
               PROVE  admitted'[i] >= admitted'[j]
    OBVIOUS
  <2>1. i + d < j + d
    BY <1>10
  <2>2. admitted[i + d] >= admitted[j + d]
    BY <1>4, <1>12, <2>1 DEF BrokerInv, WindowInv, Falling
  <2> QED
    BY <1>13, <2>2
<1>15. \A i \in 1 .. k : admitted'[i] < Window
  <2> SUFFICES ASSUME NEW i \in 1 .. k PROVE admitted'[i] < Window
    OBVIOUS
  <2>1. 1 \in 1 .. k /\ d < m /\ 1 + d = d + 1
    BY <1>10, <1>11
  <2>2. admitted'[1] < Window /\ admitted'[1] \in Nat /\ admitted'[i] \in Nat
    BY <1>10, <1>11, <1>13, <2>1
  <2>3. CASE i = 1
    BY <2>2, <2>3
  <2>4. CASE i # 1
    <3>1. admitted'[1] >= admitted'[i]
      BY <1>14, <2>1, <2>4
    <3> QED
      BY <2>2, <3>1
  <2> QED
    BY <2>3, <2>4
<1>16. Recorded'
  <2> SUFFICES ASSUME NEW i \in 1 .. k, admitted'[i] < Window - MaxWait
               PROVE  \E j \in 1 .. n : Record(i, j)'
    BY <1>8, <1>11 DEF Recorded
  <2>1. i + d \in 1 .. m /\ admitted[i + d] \in Nat /\ admitted'[i] = admitted[i + d] + 1
    BY <1>12, <1>13
  <2>2. admitted[i + d] < Window - MaxWait
    BY <2>1
  <2>3. PICK j \in 1 .. n : n - j = m - (i + d) /\ times[j] <= admitted[i + d] + MaxWait
    BY <1>3, <1>4, <2>1, <2>2 DEF BrokerInv, WindowInv, Recorded, Record
  <2>4. n - j = k - i
    BY <1>10, <1>11, <2>3
  <2>5. times'[j] <= admitted'[i] + MaxWait
    <3>1. /\ times[j] \in Int /\ times'[j] \in Int
          /\ times'[j] <= times[j] + 1
      BY <1>5, <1>7, <1>8
    <3> QED
      BY <2>1, <2>3, <3>1
  <2>6. Record(i, j)'
    BY <1>8, <1>11, <2>4, <2>5 DEF Record
  <2> QED
    BY <2>6
<1>17. \A j \in 1 .. n : times'[j] <= Old
  BY <1>7, <1>8
<1>18. n <= MaxRequests
  BY <1>1, <1>3
<1>19. Falling'
  BY <1>11, <1>14 DEF Falling
<1> QED
  BY <1>8, <1>11, <1>15, <1>16, <1>17, <1>18, <1>19 DEF WindowInv

---------------------------------------------------------------------------
(* The slots.                                                              *)

LEMMA SlotTaken ==
  ASSUME BrokerInv, NEW c \in Clients, Admit(c)
  PROVE  SlotInv'
<1> USE Limits
<1>1. Serving' = Serving \cup {c} /\ c \notin Serving
  BY DEF Admit, BrokerInv, SlotInv, Serving
<1>2. IsFiniteSet(Serving') /\ Cardinality(Serving') = Cardinality(Serving) + 1
  BY <1>1, FS_AddElement DEF BrokerInv, SlotInv
<1>3. slots' = slots - 1 /\ slots > 0 /\ slots \in Nat /\ Cardinality(Serving) \in Nat
  BY FS_CardinalityType DEF Admit, Admissible, BrokerInv, SlotInv
<1>4. slots + Cardinality(Serving) = MaxConcurrent
  BY DEF BrokerInv, SlotInv, SlotsConserved, Serving
<1>5. slots' + Cardinality(Serving') = MaxConcurrent
  BY <1>2, <1>3, <1>4
<1>6. SlotsConserved'
  BY <1>5 DEF SlotsConserved, Serving
<1>7. client' \in [Clients -> {"away", "arrived", "serving"}] /\ waited' \in [Clients -> 0 .. MaxWait]
  BY DEF Admit, BrokerInv, SlotInv
<1> QED
  BY <1>2, <1>3, <1>6, <1>7 DEF SlotInv

LEMMA SlotGivenBack ==
  ASSUME BrokerInv, NEW c \in Clients, Done(c)
  PROVE  SlotInv'
<1> USE Limits
<1>1. Serving' = Serving \ {c} /\ c \in Serving
  BY DEF Done, BrokerInv, SlotInv, Serving
<1>2. IsFiniteSet(Serving') /\ Cardinality(Serving') = Cardinality(Serving) - 1
  BY <1>1, FS_RemoveElement DEF BrokerInv, SlotInv
<1>3. slots' = slots + 1 /\ slots \in Nat /\ Cardinality(Serving) \in Nat
  BY FS_CardinalityType DEF Done, BrokerInv, SlotInv
<1>4. slots + Cardinality(Serving) = MaxConcurrent
  BY DEF BrokerInv, SlotInv, SlotsConserved, Serving
<1>5. slots' + Cardinality(Serving') = MaxConcurrent
  BY <1>2, <1>3, <1>4
<1>6. SlotsConserved'
  BY <1>5 DEF SlotsConserved, Serving
<1>7. client' \in [Clients -> {"away", "arrived", "serving"}] /\ waited' \in [Clients -> 0 .. MaxWait]
  BY DEF Done, BrokerInv, SlotInv
<1> QED
  BY <1>2, <1>3, <1>6, <1>7 DEF SlotInv

LEMMA SlotsAlone ==
  ASSUME BrokerInv, slots' = slots, Serving' = Serving,
         client' \in [Clients -> {"away", "arrived", "serving"}],
         waited' \in [Clients -> 0 .. MaxWait]
  PROVE  SlotInv'
BY DEF BrokerInv, SlotInv, SlotsConserved, Serving

LEMMA BrokerNextInv == BrokerInv /\ [BrokerNext]_brokerVars => BrokerInv'
<1> SUFFICES ASSUME BrokerInv, [BrokerNext]_brokerVars PROVE BrokerInv'
  OBVIOUS
<1> USE Limits
<1>1. ASSUME NEW c \in Clients, Arrive(c) PROVE BrokerInv'
  <2>1. Serving' = Serving /\ slots' = slots /\ waited' = waited
        /\ client' \in [Clients -> {"away", "arrived", "serving"}]
    BY <1>1 DEF Arrive, Serving, BrokerInv, SlotInv
  <2>2. SlotInv'
    BY <2>1, SlotsAlone DEF BrokerInv, SlotInv
  <2> QED
    BY <1>1, <2>2 DEF Arrive, BrokerInv, WindowInv, Falling, Recorded, Record
<1>2. ASSUME NEW c \in Clients, Admit(c) PROVE BrokerInv'
  BY <1>2, SlotTaken, WindowAdmit DEF BrokerInv
<1>3. ASSUME NEW c \in Clients, Refuse(c) PROVE BrokerInv'
  <2>1. Serving' = Serving /\ slots' = slots
        /\ client' \in [Clients -> {"away", "arrived", "serving"}]
        /\ waited' \in [Clients -> 0 .. MaxWait]
    BY <1>3 DEF Refuse, Serving, BrokerInv, SlotInv
  <2>2. SlotInv'
    BY <2>1, SlotsAlone
  <2> QED
    BY <1>3, <2>2, WindowRefuse DEF BrokerInv
<1>4. ASSUME NEW c \in Clients, Done(c) PROVE BrokerInv'
  BY <1>4, SlotGivenBack DEF Done, BrokerInv, WindowInv, Falling, Recorded, Record
<1>5. CASE Tick
  <2>1. Serving' = Serving /\ slots' = slots
        /\ client' \in [Clients -> {"away", "arrived", "serving"}]
        /\ waited' \in [Clients -> 0 .. MaxWait]
    BY <1>5 DEF Tick, Serving, BrokerInv, SlotInv
  <2>2. SlotInv'
    BY <2>1, SlotsAlone
  <2> QED
    BY <1>5, <2>2, WindowTick DEF BrokerInv
<1>6. CASE UNCHANGED brokerVars
  BY <1>6 DEF brokerVars, BrokerInv, SlotInv, SlotsConserved, Serving, WindowInv, Falling, Recorded, Record
<1> QED
  BY <1>1, <1>2, <1>3, <1>4, <1>5, <1>6 DEF BrokerNext, Handle

---------------------------------------------------------------------------
(* What follows from the invariant.                                        *)

LEMMA InvTyped == BrokerInv => BrokerTypeOK
<1> SUFFICES ASSUME BrokerInv PROVE BrokerTypeOK
  OBVIOUS
<1>1. slots \in Nat /\ Cardinality(Serving) \in Nat /\ slots + Cardinality(Serving) = MaxConcurrent
  BY FS_CardinalityType DEF BrokerInv, SlotInv, SlotsConserved, Serving
<1>2. slots \in 0 .. MaxConcurrent
  BY <1>1, Limits
<1>3. times \in Seq(0 .. Old) /\ Len(times) <= MaxRequests
  BY Bounded, Limits DEF BrokerInv, WindowInv
<1>4. admitted \in Seq(0 .. Window - 1)
  <2>1. admitted \in Seq(Nat) /\ \A i \in 1 .. Len(admitted) : admitted[i] < Window
    BY DEF BrokerInv, WindowInv
  <2>2. Window - 1 \in Nat /\ \A i \in 1 .. Len(admitted) : admitted[i] <= Window - 1
    BY <2>1, Limits
  <2> QED
    BY <2>1, <2>2, Bounded
<1> QED
  BY <1>2, <1>3, <1>4 DEF BrokerInv, SlotInv, BrokerTypeOK

LEMMA InvLimitsRate == BrokerInv => RateHolds
<1> SUFFICES ASSUME BrokerInv PROVE RateHolds
  OBVIOUS
<1> USE Limits
<1> DEFINE recent == {i \in DOMAIN admitted : admitted[i] < Window - MaxWait}
           m == Len(admitted)
           n == Len(times)
<1>1. admitted \in Seq(Nat) /\ m \in Nat /\ n \in Nat /\ n <= MaxRequests
  BY DEF BrokerInv, WindowInv
<1>2. recent \subseteq (m - n) + 1 .. m
  <2>1. SUFFICES ASSUME NEW i \in recent PROVE i \in (m - n) + 1 .. m
    OBVIOUS
  <2>2. DOMAIN times = 1 .. n /\ i \in 1 .. m
    BY <1>1 DEF BrokerInv, WindowInv
  <2>3. PICK j \in 1 .. n : n - j = m - i
    BY <2>2 DEF BrokerInv, WindowInv, Recorded, Record
  <2> HIDE DEF m, n
  <2> QED
    BY <1>1, <2>2, <2>3
<1> HIDE DEF recent
<1>3. (m - n) + 1 \in Int /\ m \in Int /\ (m - ((m - n) + 1)) + 1 = n
  BY <1>1
<1> HIDE DEF m, n
<1>4. IsFiniteSet((m - n) + 1 .. m) /\ Cardinality((m - n) + 1 .. m) <= n
  <2>1. IsFiniteSet((m - n) + 1 .. m)
        /\ Cardinality((m - n) + 1 .. m)
              = IF (m - n) + 1 > m THEN 0 ELSE (m - ((m - n) + 1)) + 1
    BY <1>3, FS_Interval
  <2> QED
    BY <1>1, <1>3, <2>1
<1>5. Cardinality(recent) <= Cardinality((m - n) + 1 .. m) /\ Cardinality(recent) \in Nat
      /\ Cardinality((m - n) + 1 .. m) \in Nat
  BY <1>2, <1>4, FS_Subset, FS_CardinalityType
<1>6. Cardinality(recent) <= MaxRequests
  BY <1>1, <1>4, <1>5
<1> QED
  BY <1>6 DEF recent, RateHolds

LEMMA BrokerInvariant == BrokerSpec => []BrokerInv
BY BrokerInitInv, BrokerNextInv, PTL DEF BrokerSpec

\* The state of the broker is of its type: there are never fewer than no slots free nor
\* more than there are, and the window holds no more times than the limit
\* (admit_request, release_request).
THEOREM BrokerTypeCorrect == BrokerSpec => []BrokerTypeOK
BY BrokerInvariant, InvTyped, PTL

\* Handlers that overtake each other between reading the clock and taking the lock
\* exceed the rate by no more than that delay gives (admit_request).
THEOREM RateLimited == BrokerSpec => []RateHolds
BY BrokerInvariant, InvLimitsRate, PTL

\* Refusals keep no slot, and every admission gives its own back (do_POST).
THEOREM SlotsKept == BrokerSpec => []SlotsConserved
<1>1. BrokerInv => SlotsConserved
  BY DEF BrokerInv, SlotInv
<1> QED
  BY <1>1, BrokerInvariant, PTL
=============================================================================
