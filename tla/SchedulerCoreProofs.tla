-------------------------- MODULE SchedulerCoreProofs --------------------------
(***************************************************************************)
(* Lemmas about the core operations that both schedulers use: they keep the *)
(* table filled, typed and in agreement with the ready queue, a partial     *)
(* scan wakes a part of the contexts that match, and a queue with a slot    *)
(* for every registered context never refuses one.                          *)
(***************************************************************************)
EXTENDS SchedulerCore, SequenceTheorems, FiniteSetTheorems, TLAPS

CoreInv == CoreTypeOK /\ TableFilled /\ QueueAgreement

\* A sequence of contexts on which MakeReady succeeds one after the other.
Wakeable(woken) ==
  /\ woken \in Seq(Contexts)
  /\ \A i \in 1 .. Len(woken) : states[woken[i]] \in Blocked
  /\ \A i, j \in 1 .. Len(woken) : woken[i] = woken[j] => i = j
  /\ Len(ready) + Len(woken) <= ReadyCapacity
  /\ traced + Len(woken) <= TraceCapacity

\* The empty core satisfies the invariant.
LEMMA InitCoreInv == CoreInit => CoreInv
  BY CoreAssumption, EmptySeq
  DEF CoreInit, CoreInv, CoreTypeOK, TableFilled, QueueAgreement, Contexts, Times

\* Nothing the invariant reads has moved.
LEMMA StutterKeepsCore == CoreInv /\ UNCHANGED coreVars => CoreInv'
  BY DEF coreVars, CoreInv, CoreTypeOK, TableFilled, QueueAgreement

\* The clock may be set to any time.
LEMMA ClockKeepsCore ==
  ASSUME CoreInv, now' \in Times,
         UNCHANGED <<states, waitKinds, sleepUntil, queued, ready, contextCount, traced>>
  PROVE  CoreInv'
  BY DEF CoreInv, CoreTypeOK, TableFilled, QueueAgreement

\* Registration fills the next slot and queues it.
LEMMA RegisterKeepsCore ==
  ASSUME CoreInv, CoreRegister(RegisterStatus)
  PROVE  CoreInv'
<1>1. CASE RegisterStatus # "Ok"
  BY <1>1, StutterKeepsCore DEF CoreRegister
<1>2. CASE RegisterStatus = "Ok"
  <2> DEFINE c == contextCount + 1
  <2>1. /\ contextCount < ContextCapacity
        /\ Len(ready) < ReadyCapacity
        /\ traced < TraceCapacity
    BY <1>2, CoreAssumption, LenProperties
    DEF RegisterStatus, ReadyFull, TraceFull, CoreInv, CoreTypeOK
  <2>2. c \in Contexts /\ states[c] = "Absent" /\ ~queued[c]
    BY <2>1, CoreAssumption
    DEF CoreInv, CoreTypeOK, TableFilled, QueueAgreement, Contexts
  <2>3. /\ states' = [states EXCEPT ![c] = "Ready"]
        /\ queued' = [queued EXCEPT ![c] = TRUE]
        /\ ready' = Append(ready, c)
        /\ contextCount' = c
        /\ traced' = traced + 1
        /\ UNCHANGED <<waitKinds, sleepUntil, now>>
    BY <1>2 DEF CoreRegister
  <2>4. /\ ready \in Seq(Contexts)
        /\ Len(ready) \in Nat
        /\ \A i \in 1 .. Len(ready) : ready[i] \in Contexts /\ ready[i] # c
    <3>1. ready \in Seq(Contexts)
      BY DEF CoreInv, CoreTypeOK
    <3>2. \A i \in 1 .. Len(ready) : queued[ready[i]]
      BY <3>1, ElementOfSeq DEF CoreInv, QueueAgreement
    <3>3. QED
      BY <2>2, <3>1, <3>2, ElementOfSeq, LenProperties
  <2>5. /\ ready' \in Seq(Contexts)
        /\ Len(ready') = Len(ready) + 1
        /\ \A i \in 1 .. Len(ready) : ready'[i] = ready[i]
        /\ ready'[Len(ready) + 1] = c
    BY <2>2, <2>3, <2>4, AppendProperties
  <2> HIDE DEF c
  <2>6. CoreTypeOK'
    BY <2>1, <2>2, <2>3, <2>4, <2>5, CoreAssumption
    DEF CoreInv, CoreTypeOK, ExecutionStates, Contexts
  <2>7. TableFilled'
    BY <2>1, <2>2, <2>3, CoreAssumption DEF CoreInv, CoreTypeOK, TableFilled, Contexts, c
  <2>8. \A i \in 1 .. Len(ready') : i \in 1 .. Len(ready) \/ i = Len(ready) + 1
    BY <2>4, <2>5
  <2>9. \A i, j \in 1 .. Len(ready') : ready'[i] = ready'[j] => i = j
    BY <2>4, <2>5, <2>8 DEF CoreInv, QueueAgreement
  <2>10. \A d \in Contexts : queued'[d] <=> \E i \in 1 .. Len(ready') : ready'[i] = d
    <3>1. TAKE d \in Contexts
    <3>2. CASE d = c
      <4>1. Len(ready) + 1 \in 1 .. Len(ready')
        BY <2>4, <2>5
      <4>2. queued'[c]
        BY <2>2, <2>3 DEF CoreInv, CoreTypeOK
      <4>3. QED
        BY <2>5, <3>2, <4>1, <4>2
    <3>3. CASE d # c
      <4>1. queued'[d] <=> queued[d]
        BY <2>3, <3>3 DEF CoreInv, CoreTypeOK
      <4>2. (\E i \in 1 .. Len(ready') : ready'[i] = d) <=> \E i \in 1 .. Len(ready) : ready[i] = d
        BY <2>4, <2>5, <2>8, <3>3
      <4>3. QED
        BY <4>1, <4>2 DEF CoreInv, QueueAgreement
    <3>4. QED
      BY <3>2, <3>3
  <2>11. \A d \in Contexts : queued'[d] <=> states'[d] = "Ready"
    BY <2>2, <2>3 DEF CoreInv, CoreTypeOK, QueueAgreement
  <2>12. QED
    BY <2>6, <2>7, <2>9, <2>10, <2>11 DEF CoreInv, QueueAgreement
<1>3. QED
  BY <1>1, <1>2

\* Waking blocked contexts queues each of them once.
LEMMA MakeAllReadyKeepsCore ==
  ASSUME CoreInv, NEW woken, Wakeable(woken), MakeAllReady(woken), now' \in Times
  PROVE  CoreInv'
<1> DEFINE n == Len(ready)
           m == Len(woken)
<1>1. /\ ready \in Seq(Contexts) /\ woken \in Seq(Contexts)
      /\ n \in Nat /\ m \in Nat
      /\ \A i \in 1 .. n : ready[i] \in Contexts
      /\ \A i \in 1 .. m : woken[i] \in Contexts
  BY LenProperties, ElementOfSeq DEF CoreInv, CoreTypeOK, Wakeable
<1>2. Range(woken) = {woken[i] : i \in 1 .. m}
  BY <1>1, RangeEquality
<1>3. \A c \in Contexts : c \in Range(woken) <=> \E i \in 1 .. m : woken[i] = c
  BY <1>2
<1>4. \A c \in Range(woken) : c \in Contexts /\ states[c] \in Blocked
  BY <1>1, <1>2 DEF Wakeable
<1>5. /\ ready' \in Seq(Contexts)
      /\ Len(ready') = n + m
      /\ \A i \in 1 .. n + m : ready'[i] = IF i <= n THEN ready[i] ELSE woken[i - n]
  BY <1>1, ConcatProperties DEF MakeAllReady
<1>6. \A i \in 1 .. n : i \in 1 .. n + m /\ ready'[i] = ready[i]
  BY <1>1, <1>5
<1>7. \A i \in 1 .. m : n + i \in 1 .. n + m /\ ready'[n + i] = woken[i]
  <2>1. TAKE i \in 1 .. m
  <2>2. n + i \in 1 .. n + m /\ ~(n + i <= n) /\ (n + i) - n = i
    BY <1>1
  <2>3. QED
    BY <1>5, <2>2
<1>8. \A k \in 1 .. n + m : k \in 1 .. n \/ \E i \in 1 .. m : k = n + i
  <2>1. TAKE k \in 1 .. n + m
  <2>2. CASE k <= n
    BY <1>1, <2>2
  <2>3. CASE k > n
    <3>1. k - n \in 1 .. m /\ k = n + (k - n)
      BY <1>1, <2>3
    <3>2. QED
      BY <3>1
  <2>4. QED
    BY <1>1, <2>2, <2>3
<1>9. \A i \in 1 .. n : states[ready[i]] = "Ready" /\ queued[ready[i]]
  BY <1>1 DEF CoreInv, QueueAgreement
<1>10. \A i \in 1 .. n, j \in 1 .. m : ready[i] # woken[j]
  BY <1>1, <1>9 DEF Wakeable, Blocked
<1>11. CoreTypeOK'
  <2>1. states' \in [Contexts -> ExecutionStates \cup {"Absent"}]
    BY DEF MakeAllReady, CoreInv, CoreTypeOK, ExecutionStates
  <2>2. /\ waitKinds' \in [Contexts -> Kinds \cup {NoKind}]
        /\ queued' \in [Contexts -> BOOLEAN]
    BY DEF MakeAllReady, CoreInv, CoreTypeOK
  <2>3. sleepUntil' \in [Contexts -> Times]
    BY CoreAssumption DEF MakeAllReady, CoreInv, CoreTypeOK, Times
  <2>4. Len(ready') <= ReadyCapacity /\ traced' \in 0 .. TraceCapacity
    BY <1>1, <1>5, CoreAssumption DEF MakeAllReady, Wakeable, CoreInv, CoreTypeOK
  <2>5. QED
    BY <1>5, <2>1, <2>2, <2>3, <2>4 DEF MakeAllReady, CoreInv, CoreTypeOK
<1>12. TableFilled'
  BY <1>4 DEF MakeAllReady, CoreInv, TableFilled, Blocked
<1>13. \A k, l \in 1 .. n + m : ready'[k] = ready'[l] => k = l
  <2>1. SUFFICES ASSUME NEW k \in 1 .. n + m, NEW l \in 1 .. n + m, ready'[k] = ready'[l]
                 PROVE  k = l
    OBVIOUS
  <2>2. CASE k \in 1 .. n /\ l \in 1 .. n
    BY <1>6, <2>1, <2>2 DEF CoreInv, QueueAgreement
  <2>3. CASE \E i, j \in 1 .. m : k = n + i /\ l = n + j
    BY <1>7, <2>1, <2>3 DEF Wakeable
  <2>4. CASE (k \in 1 .. n /\ \E j \in 1 .. m : l = n + j)
             \/ (l \in 1 .. n /\ \E j \in 1 .. m : k = n + j)
    BY <1>6, <1>7, <1>10, <2>1, <2>4
  <2>5. QED
    BY <1>8, <2>2, <2>3, <2>4
<1>14. \A c \in Contexts : queued'[c] <=> \E k \in 1 .. n + m : ready'[k] = c
  <2>1. TAKE c \in Contexts
  <2>2. queued'[c] <=> c \in Range(woken) \/ queued[c]
    BY DEF MakeAllReady
  <2>3. queued[c] <=> \E i \in 1 .. n : ready[i] = c
    BY DEF CoreInv, QueueAgreement
  <2>4. ASSUME queued'[c] PROVE \E k \in 1 .. n + m : ready'[k] = c
    BY <1>3, <1>6, <1>7, <2>2, <2>3, <2>4
  <2>5. ASSUME NEW k \in 1 .. n + m, ready'[k] = c PROVE queued'[c]
    <3>1. CASE k \in 1 .. n
      BY <1>6, <2>2, <2>3, <2>5, <3>1
    <3>2. CASE \E i \in 1 .. m : k = n + i
      BY <1>3, <1>7, <2>2, <2>5, <3>2
    <3>3. QED
      BY <1>8, <3>1, <3>2
  <2>6. QED
    BY <2>4, <2>5
<1>15. \A c \in Contexts : queued'[c] <=> states'[c] = "Ready"
  BY DEF MakeAllReady, CoreInv, QueueAgreement
<1>16. QED
  BY <1>5, <1>11, <1>12, <1>13, <1>14, <1>15 DEF CoreInv, QueueAgreement

\* A queue that agrees with the table holds no more ids than there are contexts other
\* than one that is not Ready.
QueueHasRoom == \A c \in Known : ~queued[c] => Len(ready) < contextCount

\* A context that is not queued leaves a place: the queue is shorter than the table in use.
LEMMA QueueLeavesRoom == CoreInv => QueueHasRoom
<1> SUFFICES ASSUME CoreInv, NEW c \in Known, ~queued[c]
             PROVE  Len(ready) < contextCount
  BY DEF QueueHasRoom
<1> DEFINE n == Len(ready)
           Others == Known \ {c}
<1>1. /\ ready \in Seq(Contexts) /\ n \in Nat
      /\ contextCount \in Nat /\ contextCount <= ContextCapacity /\ ContextCapacity \in Nat
  BY LenProperties, CoreAssumption DEF CoreInv, CoreTypeOK
<1>2. \A i \in 1 .. n : ready[i] \in Others
  <2>1. TAKE i \in 1 .. n
  <2>2. ready[i] \in Contexts /\ queued[ready[i]]
    BY <1>1, ElementOfSeq DEF CoreInv, QueueAgreement
  <2>3. states[ready[i]] # "Absent"
    BY <2>2 DEF CoreInv, QueueAgreement
  <2>4. QED
    BY <1>1, <2>2, <2>3 DEF CoreInv, TableFilled, Known, Contexts
<1>3. IsFiniteSet(Known) /\ Cardinality(Known) = contextCount
  <2>1. PICK k \in Nat : k = contextCount
    BY <1>1
  <2>2. IsFiniteSet(1 .. k) /\ Cardinality(1 .. k) = IF 1 > k THEN 0 ELSE k - 1 + 1
    BY FS_Interval
  <2>3. QED
    BY <2>1, <2>2 DEF Known
<1>4. IsFiniteSet(Others) /\ Cardinality(Others) = contextCount - 1
  BY <1>3, FS_RemoveElement
<1>5. IsFiniteSet(1 .. n) /\ Cardinality(1 .. n) = n
  BY <1>1, FS_Interval
<1>6. CASE n >= contextCount
  <2>1. PICK f \in [1 .. n -> Others] : \A i \in 1 .. n : f[i] = ready[i]
    <3>1. [i \in 1 .. n |-> ready[i]] \in [1 .. n -> Others]
      BY <1>2
    <3>2. QED
      BY <3>1
  <2>2. Cardinality(Others) < Cardinality(1 .. n)
    BY <1>1, <1>4, <1>5, <1>6
  <2> HIDE DEF Others, n
  <2>3. \E i, j \in 1 .. n : i # j /\ f[i] = f[j]
    BY <1>4, <1>5, <2>2, FS_PigeonHole
  <2>4. QED
    BY <2>1, <2>3 DEF CoreInv, QueueAgreement, n
<1>7. QED
  BY <1>1, <1>6

-----------------------------------------------------------------------------
(* Scans.                                                                   *)

\* What a scan over blocked contexts does: it wakes some of them, once each, and all of
\* them unless MakeReady refused one that it did not wake.
ScanResult(set, status) ==
  \E woken \in Seq(Contexts) :
    /\ Wakeable(woken)
    /\ MakeAllReady(woken)
    /\ \A i \in 1 .. Len(woken) : woken[i] \in set
    /\ \A c \in set :
         \/ \E i \in 1 .. Len(woken) : woken[i] = c
         \/ \E d \in set : /\ status # "Ok"
                           /\ status = MakeReadyStatus(d, Len(woken))
                           /\ \A i \in 1 .. Len(woken) : woken[i] # d

\* WakeEach, however far it gets, makes some of the matching contexts Ready and queues
\* them.
LEMMA ScanWakesMatches ==
  ASSUME CoreInv, NEW set, set \subseteq {c \in Contexts : states[c] \in Blocked},
         NEW status, WakeEach(set, status)
  PROVE  ScanResult(set, status)
<1>1. /\ Contexts = 1 .. ContextCapacity /\ ContextCapacity \in Nat
      /\ set \in SUBSET Contexts
  BY CoreAssumption DEF Contexts
<1>2. IsFiniteSet(set) /\ Cardinality(set) \in Nat
  <2>1. IsFiniteSet(1 .. ContextCapacity)
    BY <1>1, FS_Interval
  <2>2. IsFiniteSet(set)
    BY <1>1, <2>1, FS_Subset
  <2>3. QED
    BY <2>2, FS_CardinalityType
<1>3. PICK order \in IndexOrders(set), n \in 0 .. Cardinality(set) :
        /\ \A i \in 1 .. n : MakeReadyStatus(order[i], i - 1) = "Ok"
        /\ status = IF n = Cardinality(set) THEN "Ok" ELSE MakeReadyStatus(order[n + 1], n)
        /\ n < Cardinality(set) => status # "Ok"
        /\ MakeAllReady(SubSeq(order, 1, n))
  BY DEF WakeEach
<1> DEFINE woken == SubSeq(order, 1, n)
<1>4. /\ order \in [1 .. Cardinality(set) -> set]
      /\ \A i, j \in 1 .. Cardinality(set) : i < j => order[i] < order[j]
      /\ \A c \in set : \E i \in 1 .. Cardinality(set) : order[i] = c
  BY <1>3 DEF IndexOrders
<1>5. n \in Nat /\ n <= Cardinality(set)
  BY <1>2, <1>3
<1>6. \A i \in 1 .. n : i \in 1 .. Cardinality(set) /\ order[i] \in Contexts
  <2>1. TAKE i \in 1 .. n
  <2>2. i \in 1 .. Cardinality(set)
    BY <1>2, <1>5
  <2>3. order[i] \in set
    BY <1>4, <2>2
  <2>4. QED
    BY <1>1, <2>2, <2>3
<1>7. /\ woken \in Seq(Contexts) /\ Len(woken) = n
      /\ \A i \in 1 .. n : woken[i] = order[i]
  <2>1. /\ SubSeq(order, 1, n) \in Seq(Contexts)
        /\ Len(SubSeq(order, 1, n)) = IF 1 <= n THEN n - 1 + 1 ELSE 0
        /\ \A i \in 1 .. n - 1 + 1 : SubSeq(order, 1, n)[i] = order[1 + i - 1]
    BY <1>5, <1>6, SubSeqProperties
  <2>2. n - 1 + 1 = n /\ \A i \in 1 .. n : 1 + i - 1 = i
    BY <1>5
  <2>3. QED
    BY <1>5, <2>1, <2>2
<1> HIDE DEF woken
<1>8. MakeAllReady(woken)
  BY <1>3 DEF woken
<1>9. Len(ready) \in Nat
  BY LenProperties DEF CoreInv, CoreTypeOK
<1>10. Wakeable(woken)
  <2>1. \A i \in 1 .. n : states[woken[i]] \in Blocked
    BY <1>4, <1>6, <1>7
  <2>2. \A i, j \in 1 .. n : woken[i] = woken[j] => i = j
    <3>1. SUFFICES ASSUME NEW i \in 1 .. n, NEW j \in 1 .. n, woken[i] = woken[j]
                   PROVE  i = j
      OBVIOUS
    <3>2. order[i] \in Int /\ order[i] = order[j]
      BY <1>1, <1>6, <1>7, <3>1
    <3>3. ~(i < j) /\ ~(j < i)
      BY <1>4, <1>6, <3>2
    <3>4. QED
      BY <1>5, <3>3
  <2>3. Len(ready) + n <= ReadyCapacity /\ traced + n <= TraceCapacity
    <3>1. CASE n = 0
      BY <1>9, <3>1, CoreAssumption DEF CoreInv, CoreTypeOK
    <3>2. CASE n # 0
      <4>1. n \in 1 .. n
        BY <1>5, <3>2
      <4>2. MakeReadyStatus(order[n], n - 1) = "Ok"
        BY <1>3, <4>1
      <4>3. ~(Len(ready) + (n - 1) >= ReadyCapacity) /\ ~(traced + (n - 1) >= TraceCapacity)
        BY <4>2 DEF MakeReadyStatus
      <4>4. QED
        BY <1>5, <1>9, <4>3, CoreAssumption DEF CoreInv, CoreTypeOK
    <3>3. QED
      BY <3>1, <3>2
  <2>4. QED
    BY <1>7, <2>1, <2>2, <2>3 DEF Wakeable
<1>11. \A i \in 1 .. n : woken[i] \in set
  BY <1>4, <1>6, <1>7
<1>12. ASSUME n # Cardinality(set)
       PROVE  \E d \in set : /\ status # "Ok"
                             /\ status = MakeReadyStatus(d, n)
                             /\ \A i \in 1 .. n : woken[i] # d
  <2>1. n + 1 \in 1 .. Cardinality(set) /\ n < Cardinality(set)
    BY <1>2, <1>5, <1>12
  <2>2. order[n + 1] \in set /\ status = MakeReadyStatus(order[n + 1], n) /\ status # "Ok"
    BY <1>3, <1>4, <1>12, <2>1
  <2>3. \A i \in 1 .. n : woken[i] # order[n + 1]
    <3>1. TAKE i \in 1 .. n
    <3>2. i < n + 1 /\ order[i] \in Int
      BY <1>1, <1>5, <1>6
    <3>3. order[i] < order[n + 1]
      BY <1>4, <1>6, <2>1, <3>2
    <3>4. QED
      BY <1>7, <3>2, <3>3
  <2>4. QED
    BY <2>2, <2>3
<1>13. ASSUME n = Cardinality(set), NEW c \in set PROVE \E i \in 1 .. n : woken[i] = c
  BY <1>4, <1>7, <1>13
<1>14. QED
  BY <1>7, <1>8, <1>10, <1>11, <1>12, <1>13 DEF ScanResult

\* A scan keeps the core well formed.
LEMMA ScanKeepsCore ==
  ASSUME CoreInv, NEW set, NEW status, ScanResult(set, status), now' \in Times
  PROVE  CoreInv'
  BY MakeAllReadyKeepsCore DEF ScanResult

\* Where the queue has a slot for every registered context, only a full trace can keep a
\* scan from waking a context that matches.
LEMMA ScanStopsAtTraceOnly ==
  ASSUME CoreInv, NEW set, set \subseteq {c \in Contexts : states[c] \in Blocked},
         NEW status, ScanResult(set, status), now' \in Times,
         contextCount <= ReadyCapacity, ~TraceFull'
  PROVE  \A c \in set : states'[c] = "Ready"
<1>1. PICK woken \in Seq(Contexts) :
        /\ Wakeable(woken)
        /\ MakeAllReady(woken)
        /\ \A i \in 1 .. Len(woken) : woken[i] \in set
        /\ \A c \in set :
             \/ \E i \in 1 .. Len(woken) : woken[i] = c
             \/ \E d \in set : /\ status # "Ok"
                               /\ status = MakeReadyStatus(d, Len(woken))
                               /\ \A i \in 1 .. Len(woken) : woken[i] # d
  BY DEF ScanResult
<1>2. CoreInv'
  BY <1>1, MakeAllReadyKeepsCore
<1>3. Len(woken) \in Nat /\ Range(woken) = {woken[i] : i \in 1 .. Len(woken)}
  BY LenProperties, RangeEquality
<1>4. /\ ready \in Seq(Contexts) /\ Len(ready) \in Nat
      /\ Len(ready') = Len(ready) + Len(woken)
      /\ contextCount' = contextCount /\ traced' = traced + Len(woken)
  BY <1>1, LenProperties, ConcatProperties DEF CoreInv, CoreTypeOK, MakeAllReady
<1>5. ASSUME NEW d \in set, status # "Ok", status = MakeReadyStatus(d, Len(woken)),
             \A i \in 1 .. Len(woken) : woken[i] # d
      PROVE  FALSE
  <2>1. d \in Contexts /\ states[d] \in Blocked /\ ~queued[d]
    BY DEF CoreInv, QueueAgreement, Blocked
  <2>2. ~queued'[d]
    BY <1>1, <1>3, <1>5, <2>1 DEF MakeAllReady
  <2>3. d \in Known'
    BY <1>4, <2>1, CoreAssumption
    DEF CoreInv, CoreTypeOK, TableFilled, Known, Contexts, Blocked
  <2>4. Len(ready') < contextCount'
    <3>1. QueueHasRoom'
      BY <1>2, QueueLeavesRoom, PTL
    <3>2. QED
      BY <2>2, <2>3, <3>1 DEF QueueHasRoom
  <2>5. traced' < TraceCapacity
    BY <1>2, CoreAssumption DEF TraceFull, CoreInv, CoreTypeOK
  <2>6. MakeReadyStatus(d, Len(woken)) = "Ok"
    BY <1>3, <1>4, <2>1, <2>4, <2>5, CoreAssumption
    DEF MakeReadyStatus, CoreInv, CoreTypeOK
  <2>7. QED
    BY <1>5, <2>6
<1>6. \A c \in set : c \in Range(woken)
  BY <1>1, <1>3, <1>5
<1>7. QED
  BY <1>1, <1>6 DEF MakeAllReady

-----------------------------------------------------------------------------
(* Claims and the ends of quanta.                                           *)

\* The oldest id belongs to a Ready, flagged context of the table.
LEMMA OldestIsReady ==
  ASSUME CoreInv, ready # << >>
  PROVE  /\ Head(ready) \in Contexts /\ Head(ready) \in Known
         /\ states[Head(ready)] = "Ready" /\ queued[Head(ready)]
<1>1. ready \in Seq(Contexts) /\ Len(ready) \in Nat \ {0}
  BY EmptySeq, LenProperties DEF CoreInv, CoreTypeOK
<1>2. 1 \in 1 .. Len(ready) /\ Head(ready) = ready[1]
  BY <1>1
<1>3. ready[1] \in Contexts
  BY <1>1, <1>2, ElementOfSeq
<1>4. queued[ready[1]] /\ states[ready[1]] = "Ready"
  BY <1>2, <1>3 DEF CoreInv, QueueAgreement
<1>5. ready[1] \in Known
  BY <1>3, <1>4, CoreAssumption DEF CoreInv, CoreTypeOK, TableFilled, Known, Contexts
<1>6. QED
  BY <1>2, <1>3, <1>4, <1>5

\* Taking the oldest id and making its context Running.
LEMMA ClaimKeepsCore ==
  ASSUME CoreInv, ready # << >>,
         NEW c, c = Head(ready),
         ready' = Tail(ready),
         queued' = [queued EXCEPT ![c] = FALSE],
         states' = [states EXCEPT ![c] = "Running"],
         UNCHANGED <<waitKinds, sleepUntil, contextCount, now>>,
         traced' \in 0 .. TraceCapacity
  PROVE  CoreInv'
<1> DEFINE n == Len(ready)
<1>1. ready \in Seq(Contexts) /\ n \in Nat \ {0}
  BY EmptySeq, LenProperties DEF CoreInv, CoreTypeOK
<1>2. c \in Contexts /\ states[c] = "Ready" /\ queued[c] /\ c = ready[1] /\ 1 \in 1 .. n
  BY <1>1, OldestIsReady
<1>3. /\ ready' \in Seq(Contexts) /\ Len(ready') = n - 1
      /\ \A i \in 1 .. n - 1 : ready'[i] = ready[i + 1]
  BY <1>1, HeadTailProperties
<1>4. \A i \in 1 .. n - 1 : i + 1 \in 1 .. n /\ i + 1 # 1
  BY <1>1
<1>5. \A i \in 1 .. n : i = 1 \/ \E j \in 1 .. n - 1 : i = j + 1
  <2>1. TAKE i \in 1 .. n
  <2>2. i = 1 \/ (i - 1 \in 1 .. n - 1 /\ i = (i - 1) + 1)
    BY <1>1
  <2>3. QED
    BY <2>2
<1>6. \A i, j \in 1 .. n : ready[i] = ready[j] => i = j
  BY DEF CoreInv, QueueAgreement
<1>7. CoreTypeOK'
  <2>1. Len(ready') <= ReadyCapacity
    BY <1>1, <1>3, CoreAssumption DEF CoreInv, CoreTypeOK
  <2>2. QED
    BY <1>2, <1>3, <2>1 DEF CoreInv, CoreTypeOK, ExecutionStates
<1>8. TableFilled'
  BY <1>2 DEF CoreInv, CoreTypeOK, TableFilled
<1>9. \A i, j \in 1 .. n - 1 : ready'[i] = ready'[j] => i = j
  <2>1. TAKE i, j \in 1 .. n - 1
  <2>2. ready'[i] = ready'[j] => i + 1 = j + 1
    BY <1>3, <1>4, <1>6
  <2>3. QED
    BY <2>2
<1>10. \A d \in Contexts : queued'[d] <=> \E i \in 1 .. n - 1 : ready'[i] = d
  <2>1. TAKE d \in Contexts
  <2>2. CASE d = c
    <3>1. \A i \in 1 .. n - 1 : ready'[i] # c
      BY <1>2, <1>3, <1>4, <1>6
    <3>2. QED
      BY <1>2, <2>2, <3>1 DEF CoreInv, CoreTypeOK
  <2>3. CASE d # c
    <3>1. queued'[d] <=> \E i \in 1 .. n : ready[i] = d
      BY <2>3 DEF CoreInv, CoreTypeOK, QueueAgreement
    <3>2. (\E i \in 1 .. n : ready[i] = d) <=> \E j \in 1 .. n - 1 : ready'[j] = d
      BY <1>2, <1>3, <1>4, <1>5, <2>3
    <3>3. QED
      BY <3>1, <3>2
  <2>4. QED
    BY <2>2, <2>3
<1>11. \A d \in Contexts : queued'[d] <=> states'[d] = "Ready"
  BY <1>2 DEF CoreInv, CoreTypeOK, QueueAgreement
<1>12. QED
  BY <1>3, <1>7, <1>8, <1>9, <1>10, <1>11 DEF CoreInv, QueueAgreement

\* The state, kind and deadline of an outcome.
LEMMA OutcomeFields ==
  ASSUME NEW result \in Outcomes
  PROVE  /\ result.state \in {"Ready"} \cup Blocked \cup Terminal
         /\ result.kind \in Kinds \cup {NoKind}
         /\ result.deadline \in Times
<1>1. 0 \in Times
  BY CoreAssumption DEF Times
<1>2. QED
  BY <1>1 DEF Outcomes, Outcome, Blocked

\* The fields a quantum leaves in its context.
QuantumFields(c, state) ==
  /\ c \in Contexts
  /\ states[c] = "Running"
  /\ states' = [states EXCEPT ![c] = state]
  /\ waitKinds' \in [Contexts -> Kinds \cup {NoKind}]
  /\ sleepUntil' \in [Contexts -> Times]
  /\ UNCHANGED <<contextCount, now>>
  /\ traced' \in 0 .. TraceCapacity

\* A quantum that blocks, completes or fails its context leaves the queue alone.
LEMMA StopKeepsCore ==
  ASSUME CoreInv, NEW c, NEW state \in Blocked \cup Terminal, QuantumFields(c, state),
         UNCHANGED <<ready, queued>>
  PROVE  CoreInv'
<1>1. CoreTypeOK' /\ TableFilled'
  BY DEF QuantumFields, CoreInv, CoreTypeOK, TableFilled, ExecutionStates, Blocked, Terminal
<1>2. QueueAgreement'
  BY DEF QuantumFields, CoreInv, CoreTypeOK, QueueAgreement, Blocked, Terminal
<1>3. QED
  BY <1>1, <1>2 DEF CoreInv

\* A quantum that leaves its context Ready puts it at the tail.
LEMMA RequeueKeepsCore ==
  ASSUME CoreInv, NEW c, QuantumFields(c, "Ready"), Len(ready) < ReadyCapacity,
         ready' = Append(ready, c), queued' = [queued EXCEPT ![c] = TRUE]
  PROVE  CoreInv'
<1> DEFINE n == Len(ready)
<1>1. ready \in Seq(Contexts) /\ n \in Nat
  BY LenProperties DEF CoreInv, CoreTypeOK
<1>2. c \in Contexts /\ ~queued[c]
  BY DEF QuantumFields, CoreInv, QueueAgreement
<1>3. \A i \in 1 .. n : ready[i] # c
  BY <1>2 DEF CoreInv, QueueAgreement
<1>4. /\ ready' \in Seq(Contexts) /\ Len(ready') = n + 1
      /\ \A i \in 1 .. n : ready'[i] = ready[i]
      /\ ready'[n + 1] = c
  BY <1>1, <1>2, AppendProperties
<1>5. /\ \A i \in 1 .. n + 1 : i \in 1 .. n \/ i = n + 1
      /\ \A i \in 1 .. n : i \in 1 .. n + 1
      /\ n + 1 \in 1 .. n + 1
  BY <1>1
<1>6. CoreTypeOK' /\ TableFilled'
  <2>1. Len(ready') <= ReadyCapacity
    BY <1>1, <1>4, CoreAssumption
  <2>2. QED
    BY <1>4, <2>1 DEF QuantumFields, CoreInv, CoreTypeOK, TableFilled, ExecutionStates
<1>7. \A i, j \in 1 .. n + 1 : ready'[i] = ready'[j] => i = j
  BY <1>3, <1>4, <1>5 DEF CoreInv, QueueAgreement
<1>8. \A d \in Contexts : queued'[d] <=> \E i \in 1 .. n + 1 : ready'[i] = d
  <2>1. TAKE d \in Contexts
  <2>2. CASE d = c
    BY <1>2, <1>4, <1>5, <2>2 DEF CoreInv, CoreTypeOK
  <2>3. CASE d # c
    <3>1. queued'[d] <=> \E i \in 1 .. n : ready[i] = d
      BY <2>3 DEF CoreInv, CoreTypeOK, QueueAgreement
    <3>2. QED
      BY <1>4, <1>5, <2>3, <3>1
  <2>4. QED
    BY <2>2, <2>3
<1>9. \A d \in Contexts : queued'[d] <=> states'[d] = "Ready"
  BY DEF QuantumFields, CoreInv, CoreTypeOK, QueueAgreement
<1>10. QED
  BY <1>4, <1>6, <1>7, <1>8, <1>9 DEF CoreInv, QueueAgreement
=============================================================================
