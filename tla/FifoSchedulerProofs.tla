-------------------------- MODULE FifoSchedulerProofs --------------------------
(***************************************************************************)
(* For every size of the table, the queue and the trace, every clock and    *)
(* every budget: the FIFO scheduler keeps its queue, flags and states in    *)
(* agreement, strands no context, records a decision it has begun to its    *)
(* end, passes a queued context over a bounded number of times and keeps to *)
(* the edges of the lifecycle.                                              *)
(*                                                                          *)
(* None of these is inductive alone.  IInv adds how much of the reservation *)
(* of ScheduleOne is left at each of its steps (RecordsReserved), that the  *)
(* selected context has left a place in the queue (OneRunner), and that a   *)
(* context enters the queue with nothing passed over (PassedWhileQueued).   *)
(***************************************************************************)
EXTENDS FifoScheduler, SchedulerCoreProofs

\* The one Running context is the one whose quantum is in progress, and it left a place in
\* the queue.
OneRunner ==
  phase = "quantum" =>
    current \in Contexts /\ states[current] = "Running" /\ Len(ready) < ReadyCapacity

\* What remains of the reservation: two records before the quantum, two after it.
RecordsReserved ==
  /\ phase = "select" => traced + 4 <= TraceCapacity
  /\ phase = "quantum" => traced + 2 <= TraceCapacity

\* A decision in the loop of RunUntilIdle has a budget left, and only the loop has one.
BudgetAgreement ==
  /\ phase = "rest" => budget = NoCall
  /\ phase = "loop" => budget # NoCall
  /\ phase \in {"select", "quantum"} => budget # 0

PassedWhileQueued == \A c \in Contexts : ~queued[c] => passed[c] = 0

IInv ==
  /\ TypeOK
  /\ TableFilled
  /\ QueueAgreement
  /\ NobodyStrandedRunning
  /\ OneRunner
  /\ RecordsReserved
  /\ BudgetAgreement
  /\ PassedWhileQueued
  /\ BoundedBypass

\* The part of IInv that speaks of the core.
LEMMA IInvCore == IInv => CoreInv
  BY DEF IInv, CoreInv, TypeOK

\* Nothing is queued, running or reserved at the start.
LEMMA InitIInv == Init => IInv
<1> SUFFICES ASSUME Init PROVE IInv
  OBVIOUS
<1>1. CoreInv
  BY InitCoreInv DEF Init
<1>2. TypeOK
  BY <1>1, CoreAssumption, BudgetAssumption DEF Init, TypeOK, CoreInv
<1>3. NobodyStrandedRunning /\ PassedWhileQueued
  BY DEF Init, CoreInit, NobodyStrandedRunning, PassedWhileQueued
<1>4. OneRunner /\ RecordsReserved /\ BudgetAgreement
  BY DEF Init, OneRunner, RecordsReserved, BudgetAgreement
<1>5. BoundedBypass
  BY EmptySeq DEF Init, CoreInit, BoundedBypass
<1>6. QED
  BY <1>1, <1>2, <1>3, <1>4, <1>5 DEF IInv, CoreInv

-----------------------------------------------------------------------------
(* Calls on the core.                                                       *)

\* What registrations, wakes and scans do, and no more: contexts join the queue at its
\* tail, along legal edges, with a trace entry for each of them.
CallEffect ==
  /\ CoreInv'
  /\ \A c \in Contexts : LegalEdge(states[c], states'[c])
  /\ \A c \in Contexts : states'[c] = "Running" <=> states[c] = "Running"
  /\ \A c \in Contexts : queued[c] => queued'[c]
  /\ Len(ready) <= Len(ready')
  /\ \A i \in 1 .. Len(ready) : ready'[i] = ready[i]
  /\ \A i \in 1 .. Len(ready') : i > Len(ready) => ~queued[ready'[i]]
  /\ traced' <= traced + ContextCapacity

\* A call that leaves the core alone, the clock excepted.
LEMMA StutterCall ==
  ASSUME IInv, now' \in Times,
         UNCHANGED <<states, waitKinds, sleepUntil, queued, ready, contextCount, traced>>
  PROVE  CallEffect
<1>1. CoreInv'
  BY IInvCore, ClockKeepsCore
<1>2. Len(ready) \in Nat
  BY LenProperties DEF IInv, TypeOK, CoreTypeOK
<1>3. traced' <= traced + ContextCapacity
  BY CoreAssumption DEF IInv, TypeOK, CoreTypeOK
<1>4. QED
  BY <1>1, <1>2, <1>3 DEF CallEffect, LegalEdge

\* A registration appends the new context.
LEMMA RegisterCall == ASSUME IInv, CoreRegister(RegisterStatus) PROVE CallEffect
<1>1. CASE RegisterStatus # "Ok"
  <2>1. UNCHANGED coreVars /\ now' \in Times
    BY <1>1 DEF CoreRegister, coreVars, IInv, TypeOK, CoreTypeOK
  <2>2. QED
    BY <2>1, StutterCall DEF coreVars
<1>2. CASE RegisterStatus = "Ok"
  <2> DEFINE c == contextCount + 1
             n == Len(ready)
  <2>1. CoreInv'
    BY IInvCore, RegisterKeepsCore
  <2>2. /\ states' = [states EXCEPT ![c] = "Ready"]
        /\ queued' = [queued EXCEPT ![c] = TRUE]
        /\ ready' = Append(ready, c)
        /\ contextCount' = c
        /\ traced' = traced + 1
    BY <1>2 DEF CoreRegister
  <2>3. c \in Contexts
    BY <2>1, <2>2, CoreAssumption DEF CoreInv, CoreTypeOK, Contexts, IInv, TypeOK
  <2>4. states[c] = "Absent" /\ ~queued[c]
    BY <2>3, CoreAssumption
    DEF IInv, TypeOK, CoreTypeOK, TableFilled, QueueAgreement, Contexts
  <2>5. /\ ready \in Seq(Contexts) /\ n \in Nat
        /\ Len(ready') = n + 1
        /\ \A i \in 1 .. n : ready'[i] = ready[i]
        /\ ready'[n + 1] = c
    BY <2>2, <2>3, AppendProperties, LenProperties DEF IInv, TypeOK, CoreTypeOK
  <2> HIDE DEF c
  <2>6. \A i \in 1 .. Len(ready') : i > n => ~queued[ready'[i]]
    <3>1. \A i \in 1 .. n + 1 : i > n => i = n + 1
      BY <2>5
    <3>2. QED
      BY <2>4, <2>5, <3>1
  <2>7. /\ \A d \in Contexts : LegalEdge(states[d], states'[d])
        /\ \A d \in Contexts : states'[d] = "Running" <=> states[d] = "Running"
        /\ \A d \in Contexts : queued[d] => queued'[d]
    BY <2>2, <2>3, <2>4 DEF LegalEdge, IInv, TypeOK, CoreTypeOK
  <2>8. traced' <= traced + ContextCapacity
    BY <2>2, CoreAssumption DEF IInv, TypeOK, CoreTypeOK
  <2>9. n <= Len(ready')
    BY <2>5
  <2>10. QED
    BY <2>1, <2>5, <2>6, <2>7, <2>8, <2>9 DEF CallEffect
<1>3. QED
  BY <1>1, <1>2

\* Distinct contexts are no more than the table has.
DistinctContexts(woken) ==
  /\ woken \in Seq(Contexts)
  /\ \A i, j \in 1 .. Len(woken) : woken[i] = woken[j] => i = j

LEMMA DistinctContextsFit ==
  ASSUME NEW woken, DistinctContexts(woken)
  PROVE  Len(woken) <= ContextCapacity
<1>1. woken \in Seq(Contexts) /\ Len(woken) \in Nat /\ ContextCapacity \in Nat
  BY LenProperties, CoreAssumption DEF DistinctContexts
<1>2. \A i \in 1 .. Len(woken) : woken[i] \in Contexts
  BY <1>1, ElementOfSeq
<1>3. PICK n \in Nat : n = Len(woken)
  BY <1>1
<1>4. PICK k \in Nat : k = ContextCapacity
  BY <1>1
<1>5. /\ IsFiniteSet(1 .. n) /\ Cardinality(1 .. n) = n
      /\ IsFiniteSet(1 .. k) /\ Cardinality(1 .. k) = k
  BY FS_Interval
<1>6. CASE n > k
  <2>1. PICK f \in [1 .. n -> 1 .. k] : \A i \in 1 .. n : f[i] = woken[i]
    <3>1. [i \in 1 .. n |-> woken[i]] \in [1 .. n -> 1 .. k]
      BY <1>2, <1>3, <1>4 DEF Contexts
    <3>2. QED
      BY <3>1
  <2>2. \E i, j \in 1 .. n : i # j /\ f[i] = f[j]
    BY <1>5, <1>6, FS_PigeonHole
  <2>3. QED
    BY <1>3, <2>1, <2>2 DEF DistinctContexts
<1>7. QED
  BY <1>3, <1>4, <1>6

\* A scan appends the contexts it wakes.
LEMMA ScanCall ==
  ASSUME IInv, NEW set, NEW status, ScanResult(set, status), now' \in Times
  PROVE  CallEffect
<1> DEFINE n == Len(ready)
<1>1. PICK woken \in Seq(Contexts) : Wakeable(woken) /\ MakeAllReady(woken)
  BY DEF ScanResult
<1>2. CoreInv'
  BY IInvCore, ScanKeepsCore
<1>3. /\ Len(woken) \in Nat /\ Range(woken) = {woken[i] : i \in 1 .. Len(woken)}
      /\ \A i \in 1 .. Len(woken) : woken[i] \in Contexts
  BY LenProperties, RangeEquality, ElementOfSeq
<1>4. \A c \in Range(woken) : states[c] \in Blocked
  BY <1>1, <1>3 DEF Wakeable
<1>5. \A i \in 1 .. Len(woken) : ~queued[woken[i]]
  BY <1>1, <1>3 DEF Wakeable, Blocked, IInv, QueueAgreement
<1>6. /\ ready \in Seq(Contexts) /\ n \in Nat
      /\ Len(ready') = n + Len(woken)
      /\ \A i \in 1 .. n + Len(woken) : ready'[i] = IF i <= n THEN ready[i] ELSE woken[i - n]
  BY <1>1, LenProperties, ConcatProperties DEF IInv, TypeOK, CoreTypeOK, MakeAllReady
<1>7. \A i \in 1 .. n : i \in 1 .. n + Len(woken) /\ i <= n
  BY <1>3, <1>6
<1>8. \A i \in 1 .. n + Len(woken) : i > n => i - n \in 1 .. Len(woken) /\ ~(i <= n)
  BY <1>3, <1>6
<1>9. /\ n <= Len(ready')
      /\ \A i \in 1 .. n : ready'[i] = ready[i]
      /\ \A i \in 1 .. Len(ready') : i > n => ~queued[ready'[i]]
  BY <1>3, <1>5, <1>6, <1>7, <1>8
<1>10. /\ \A c \in Contexts : LegalEdge(states[c], states'[c])
       /\ \A c \in Contexts : states'[c] = "Running" <=> states[c] = "Running"
  BY <1>1, <1>4 DEF MakeAllReady, LegalEdge, Blocked
<1>11. \A c \in Contexts : queued[c] => queued'[c]
  BY <1>1 DEF MakeAllReady
<1>12. traced' <= traced + ContextCapacity
  <2>1. Len(woken) <= ContextCapacity
    BY <1>1, DistinctContextsFit DEF Wakeable, DistinctContexts
  <2>2. QED
    BY <1>1, <1>3, <2>1, CoreAssumption DEF MakeAllReady, IInv, TypeOK, CoreTypeOK
<1>13. QED
  BY <1>2, <1>9, <1>10, <1>11, <1>12 DEF CallEffect

\* Waking one context is a scan of it alone.
LEMMA WakeCall == ASSUME IInv, NEW c, CoreWake(c, WakeStatus(c)) PROVE CallEffect
<1>0. now' \in Times
  BY DEF CoreWake, coreVars, IInv, TypeOK, CoreTypeOK
<1>1. CASE WakeStatus(c) # "Ok"
  BY <1>0, <1>1, StutterCall DEF CoreWake, coreVars
<1>2. CASE WakeStatus(c) = "Ok"
  <2>1. Len(ready) \in Nat /\ traced \in Nat
    BY LenProperties, CoreAssumption DEF IInv, TypeOK, CoreTypeOK
  <2>2. /\ c \in Known /\ states[c] \in Blocked
        /\ Len(ready) + 0 < ReadyCapacity /\ traced + 0 < TraceCapacity
    <3>1. c \in Known /\ states[c] \in Blocked /\ MakeReadyStatus(c, 0) = "Ok"
      BY <1>2 DEF WakeStatus
    <3>2. ~(Len(ready) + 0 >= ReadyCapacity) /\ ~(traced + 0 >= TraceCapacity)
      BY <3>1 DEF MakeReadyStatus
    <3>3. QED
      BY <2>1, <3>1, <3>2, CoreAssumption
  <2>3. c \in Contexts
    BY <2>2, CoreAssumption DEF IInv, TypeOK, CoreTypeOK, Known, Contexts
  <2>4. <<c>> \in Seq(Contexts) /\ Len(<<c>>) = 1 /\ <<c>>[1] = c
    BY <2>3
  <2>5. Wakeable(<<c>>)
    BY <2>1, <2>2, <2>4, CoreAssumption DEF Wakeable
  <2>6. MakeAllReady(<<c>>)
    BY <1>2 DEF CoreWake
  <2>7. ScanResult({c}, "Ok")
    <3>1. \A i \in 1 .. Len(<<c>>) : <<c>>[i] \in {c}
      BY <2>4
    <3>2. \E i \in 1 .. Len(<<c>>) : <<c>>[i] = c
      BY <2>4
    <3>3. QED
      BY <2>4, <2>5, <2>6, <3>1, <3>2 DEF ScanResult
  <2>8. QED
    BY <1>0, <2>7, ScanCall
<1>3. QED
  BY <1>1, <1>2

\* Scans look at blocked contexts only, whoever asks for them.
LEMMA WakeEachCall ==
  ASSUME IInv, UNCHANGED now, NEW status, NEW set,
         WakeEach(set, status),
         set \subseteq {c \in Known : states[c] \in Blocked}
  PROVE  CallEffect
<1>1. set \subseteq {c \in Contexts : states[c] \in Blocked}
  BY CoreAssumption DEF Known, Contexts, IInv, TypeOK, CoreTypeOK
<1>2. ScanResult(set, status)
  BY <1>1, IInvCore, ScanWakesMatches
<1>3. now' \in Times
  BY DEF IInv, TypeOK, CoreTypeOK
<1>4. QED
  BY <1>2, <1>3, ScanCall

\* An event reaches contexts that wait for it.
LEMMA NotifyCall ==
  ASSUME IInv, NEW kind, NEW status, CoreNotifyEvent(kind, status)
  PROVE  CallEffect
  BY WakeEachCall DEF CoreNotifyEvent, WaitingFor, Blocked

\* A deadline reaches contexts that sleep.
LEMMA WakeExpiredCall ==
  ASSUME IInv, NEW status, CoreWakeExpired(status)
  PROVE  CallEffect
  BY WakeEachCall DEF CoreWakeExpired, ExpiredAt, Blocked

\* Who joins the queue joins it behind the others, with nothing passed over.
LEMMA CallKeepsBypass ==
  ASSUME IInv, CallEffect, UNCHANGED passed
  PROVE  PassedWhileQueued' /\ BoundedBypass'
<1>1. PassedWhileQueued'
  BY DEF IInv, CallEffect, PassedWhileQueued
<1>2. /\ Len(ready) \in Nat /\ Len(ready') \in Nat /\ Len(ready') <= ReadyCapacity
      /\ \A i \in 1 .. Len(ready') : ready'[i] \in Contexts
  BY LenProperties, ElementOfSeq DEF IInv, TypeOK, CoreTypeOK, CallEffect, CoreInv
<1>3. ASSUME NEW i \in 1 .. Len(ready') PROVE passed[ready'[i]] + i <= ReadyCapacity
  <2>1. CASE i <= Len(ready)
    <3>1. i \in 1 .. Len(ready)
      BY <1>2, <2>1
    <3>2. QED
      BY <3>1 DEF IInv, CallEffect, BoundedBypass
  <2>2. CASE i > Len(ready)
    <3>1. passed[ready'[i]] = 0
      BY <1>2, <2>2 DEF IInv, CallEffect, PassedWhileQueued
    <3>2. QED
      BY <1>2, <3>1, CoreAssumption
  <2>3. QED
    BY <1>2, <2>1, <2>2
<1>4. QED
  BY <1>1, <1>3 DEF BoundedBypass

\* A step between quanta that treats the core as a call does, keeps the books of the loop
\* and respects the reservation.
LEMMA CallKeeps ==
  ASSUME IInv, CallEffect, UNCHANGED passed,
         phase # "quantum", phase' \in {"rest", "loop", "select"},
         current' \in 0 .. ContextCapacity,
         budget' \in {NoCall} \cup 0 .. MaxDecisions,
         BudgetAgreement',
         phase' = "select" => traced' + 4 <= TraceCapacity
  PROVE  IInv'
<1>1. CoreInv'
  BY DEF CallEffect
<1>2. TypeOK'
  BY <1>1 DEF IInv, TypeOK, CoreInv
<1>3. NobodyStrandedRunning'
  BY DEF IInv, NobodyStrandedRunning, CallEffect
<1>4. OneRunner' /\ RecordsReserved'
  BY DEF OneRunner, RecordsReserved
<1>5. QED
  BY <1>1, <1>2, <1>3, <1>4, CallKeepsBypass DEF IInv, CoreInv

-----------------------------------------------------------------------------
(* The actions.                                                             *)

\* Every call the host makes between decisions.
LEMMA HostCallKeeps ==
  ASSUME IInv, CallEffect, NEW op, NEW status, HostCall(op, status)
  PROVE  IInv'
  BY CallKeeps DEF HostCall, IInv, TypeOK, BudgetAgreement

\* Where a decision returns to, and what it leaves of the budget.
LEMMA ReturnTyped ==
  ASSUME IInv, budget # 0, NEW status, Return(status)
  PROVE  /\ phase' \in {"rest", "loop"} /\ current' = 0
         /\ current' \in 0 .. ContextCapacity
         /\ budget' \in {NoCall} \cup 0 .. MaxDecisions
         /\ BudgetAgreement'
<1>1. current' = 0 /\ 0 \in 0 .. ContextCapacity
  BY CoreAssumption DEF Return
<1>2. CASE budget = NoCall
  BY <1>1, <1>2 DEF Return, BudgetAgreement
<1>3. CASE budget # NoCall /\ status = "Ok"
  <2>1. budget \in 0 .. MaxDecisions
    BY <1>3 DEF IInv, TypeOK
  <2>2. budget - 1 \in 0 .. MaxDecisions /\ budget - 1 # NoCall
    BY <2>1, BudgetAssumption DEF NoCall
  <2>3. QED
    BY <1>1, <1>3, <2>2 DEF Return, BudgetAgreement
<1>4. CASE budget # NoCall /\ status # "Ok"
  BY <1>1, <1>4 DEF Return, BudgetAgreement
<1>5. QED
  BY <1>2, <1>3, <1>4

\* A decision that may start has a decision to count.
LEMMA DecisionCounted == IInv /\ MayDecide => budget # 0 /\ phase \in {"rest", "loop"}
  BY DEF MayDecide, IInv, BudgetAgreement, NoCall

\* The core as it was.
LEMMA NoCoreCall == IInv /\ UNCHANGED coreVars => CallEffect
  BY StutterCall DEF coreVars, IInv, TypeOK, CoreTypeOK

\* A refused decision leaves everything but the call state alone.
LEMMA RefuseKeeps == ASSUME IInv, RefuseDecision PROVE IInv' /\ CallEffect
<1>1. CallEffect
  BY NoCoreCall DEF RefuseDecision
<1>2. budget # 0 /\ phase # "quantum" /\ Return("TraceCapacityExhausted") /\ UNCHANGED passed
  BY DecisionCounted DEF RefuseDecision
<1>3. QED
  BY <1>1, <1>2, ReturnTyped, CallKeeps

\* The wakes of a decision use the part of the reservation that is theirs.
LEMMA BeginKeeps == ASSUME IInv, BeginDecision PROVE IInv' /\ CallEffect
<1>1. PICK status \in ScanStatuses :
        /\ CoreWakeExpired(status)
        /\ IF status = "Ok"
           THEN phase' = "select" /\ UNCHANGED <<current, budget, reply>>
           ELSE Return(status)
  BY DEF BeginDecision
<1>2. CallEffect
  BY <1>1, WakeExpiredCall
<1>3. budget # 0 /\ phase # "quantum" /\ UNCHANGED passed
  BY DecisionCounted DEF BeginDecision
<1>4. traced' + 4 <= TraceCapacity
  <2>1. traced \in Nat /\ ContextCapacity \in Nat /\ TraceCapacity \in Nat
    BY CoreAssumption DEF IInv, TypeOK, CoreTypeOK
  <2>2. traced' \in Nat /\ traced' <= traced + ContextCapacity
    BY <1>2, CoreAssumption DEF CallEffect, CoreInv, CoreTypeOK
  <2>3. traced + ContextCapacity + 4 <= TraceCapacity
    BY DEF BeginDecision, TraceReserved
  <2>4. \A t, c, e, k \in Nat : t + c + 4 <= k /\ e <= t + c => e + 4 <= k
    OBVIOUS
  <2>5. QED
    BY <2>1, <2>2, <2>3, <2>4
<1>5. CASE status = "Ok"
  BY <1>1, <1>2, <1>3, <1>4, <1>5, CallKeeps DEF IInv, TypeOK, BudgetAgreement
<1>6. CASE status # "Ok"
  BY <1>1, <1>2, <1>3, <1>6, ReturnTyped, CallKeeps
<1>7. QED
  BY <1>2, <1>5, <1>6

\* A decision that finds the queue empty.
LEMMA NothingKeeps == ASSUME IInv, NothingToSelect PROVE IInv' /\ CallEffect
<1>1. CallEffect
  BY NoCoreCall DEF NothingToSelect
<1>2. /\ budget # 0 /\ phase # "quantum"
      /\ Return("NoRunnableContext") /\ UNCHANGED passed
  BY DEF NothingToSelect, IInv, BudgetAgreement
<1>3. QED
  BY <1>1, <1>2, ReturnTyped, CallKeeps

\* RunUntilIdle starts with a budget, or is refused.
LEMMA CallRunKeeps ==
  ASSUME IInv, NEW max \in -1 .. MaxDecisions, CallRunUntilIdle(max)
  PROVE  IInv' /\ CallEffect
<1>1. CallEffect
  BY NoCoreCall DEF CallRunUntilIdle
<1>2. CASE max < 0
  BY <1>1, <1>2, CallKeeps DEF CallRunUntilIdle, IInv, TypeOK, BudgetAgreement
<1>3. CASE ~(max < 0)
  <2>1. max \in 0 .. MaxDecisions /\ max # NoCall
    BY <1>3, BudgetAssumption DEF NoCall
  <2>2. QED
    BY <1>1, <1>3, <2>1, CallKeeps DEF CallRunUntilIdle, IInv, TypeOK, BudgetAgreement
<1>4. QED
  BY <1>1, <1>2, <1>3

\* RunUntilIdle returns from between two decisions.
LEMMA EndRunKeeps == ASSUME IInv, EndRun PROVE IInv' /\ CallEffect
<1>1. CallEffect
  BY NoCoreCall DEF EndRun
<1>2. QED
  BY <1>1, CallKeeps DEF EndRun, IInv, TypeOK, BudgetAgreement

\* What Select does: the oldest id is a Ready, flagged context's and the trace has room.
LEMMA SelectStep ==
  ASSUME IInv, Select
  PROVE  LET c == Head(ready) IN
         /\ ready # << >> /\ ready' = Tail(ready)
         /\ c \in Contexts /\ states[c] = "Ready" /\ queued[c]
         /\ states' = [states EXCEPT ![c] = "Running"]
         /\ queued' = [queued EXCEPT ![c] = FALSE]
         /\ traced' = traced + 2 /\ traced + 4 <= TraceCapacity
         /\ passed' = [d \in Contexts |-> IF d # c /\ queued[d] THEN passed[d] + 1 ELSE 0]
         /\ phase = "select" /\ phase' = "quantum" /\ current' = c
         /\ UNCHANGED <<waitKinds, sleepUntil, contextCount, now, budget, reply>>
<1>1. /\ Head(ready) \in Contexts
      /\ states[Head(ready)] = "Ready" /\ queued[Head(ready)]
  BY IInvCore, OldestIsReady DEF Select
<1>2. traced + 4 <= TraceCapacity /\ traced + 2 <= TraceCapacity
  BY CoreAssumption DEF Select, IInv, TypeOK, CoreTypeOK, RecordsReserved
<1>3. QED
  BY <1>1, <1>2 DEF Select

\* A selection moves everybody left in the queue up by one.
LEMMA SelectKeeps ==
  ASSUME IInv, Select
  PROVE  IInv' /\ \A d \in Contexts : LegalEdge(states[d], states'[d])
<1> DEFINE c == Head(ready)
           n == Len(ready)
<1>1. /\ ready # << >> /\ ready' = Tail(ready)
      /\ c \in Contexts /\ states[c] = "Ready" /\ queued[c]
      /\ states' = [states EXCEPT ![c] = "Running"]
      /\ queued' = [queued EXCEPT ![c] = FALSE]
      /\ traced' = traced + 2 /\ traced + 4 <= TraceCapacity
      /\ passed' = [d \in Contexts |-> IF d # c /\ queued[d] THEN passed[d] + 1 ELSE 0]
      /\ phase = "select" /\ phase' = "quantum" /\ current' = c
      /\ UNCHANGED <<waitKinds, sleepUntil, contextCount, now, budget, reply>>
  BY SelectStep
<1>2. /\ ready \in Seq(Contexts) /\ n \in Nat \ {0} /\ c = ready[1]
      /\ ready' \in Seq(Contexts) /\ Len(ready') = n - 1
      /\ \A i \in 1 .. n - 1 : ready'[i] = ready[i + 1]
  BY <1>1, EmptySeq, LenProperties, HeadTailProperties DEF IInv, TypeOK, CoreTypeOK
<1> HIDE DEF c
<1>3. traced' \in 0 .. TraceCapacity
  BY <1>1, CoreAssumption DEF IInv, TypeOK, CoreTypeOK
<1>4. CoreInv'
  BY <1>1, <1>3, IInvCore, ClaimKeepsCore DEF c
<1>5. /\ states'[c] = "Running"
      /\ \A d \in Contexts : d # c => states'[d] = states[d] /\ states[d] # "Running"
  BY <1>1 DEF IInv, TypeOK, CoreTypeOK, NobodyStrandedRunning
<1>6. \A d \in Contexts : LegalEdge(states[d], states'[d])
  BY <1>1, <1>5 DEF LegalEdge
<1>7. TypeOK'
  <2>1. passed' \in [Contexts -> Nat]
    BY <1>1 DEF IInv, TypeOK
  <2>2. current' \in 0 .. ContextCapacity
    BY <1>1, CoreAssumption DEF Contexts
  <2>3. QED
    BY <1>1, <1>4, <2>1, <2>2 DEF IInv, TypeOK, CoreInv
<1>8. NobodyStrandedRunning'
  BY <1>1, <1>5 DEF NobodyStrandedRunning
<1>9. OneRunner'
  <2>1. Len(ready') < ReadyCapacity
    BY <1>2, CoreAssumption DEF IInv, TypeOK, CoreTypeOK
  <2>2. QED
    BY <1>1, <1>5, <2>1 DEF OneRunner
<1>10. RecordsReserved'
  <2>1. traced \in Nat /\ TraceCapacity \in Nat
    BY CoreAssumption DEF IInv, TypeOK, CoreTypeOK
  <2>2. traced' + 2 <= TraceCapacity
    BY <1>1, <2>1
  <2>3. QED
    BY <1>1, <2>2 DEF RecordsReserved
<1>11. BudgetAgreement'
  BY <1>1 DEF IInv, BudgetAgreement
<1>12. PassedWhileQueued'
  <2>1. SUFFICES ASSUME NEW d \in Contexts, ~queued'[d] PROVE passed'[d] = 0
    BY DEF PassedWhileQueued
  <2>2. d = c \/ ~queued[d]
    BY <1>1, <2>1 DEF IInv, TypeOK, CoreTypeOK
  <2>3. QED
    BY <1>1, <2>2
<1>13. BoundedBypass'
  <2>1. SUFFICES ASSUME NEW i \in 1 .. n - 1 PROVE passed'[ready'[i]] + i <= ReadyCapacity
    BY <1>2 DEF BoundedBypass
  <2>2. i + 1 \in 1 .. n /\ ready'[i] = ready[i + 1] /\ ready[i + 1] \in Contexts
    BY <1>2, <2>1, ElementOfSeq
  <2>3. passed[ready[i + 1]] + (i + 1) <= ReadyCapacity
    BY <2>2 DEF IInv, BoundedBypass
  <2>4. passed'[ready'[i]] \in {passed[ready[i + 1]] + 1, 0}
    BY <1>1, <2>2
  <2>5. passed[ready[i + 1]] \in Nat
    BY <2>2 DEF IInv, TypeOK
  <2>6. QED
    BY <2>1, <2>3, <2>4, <2>5, CoreAssumption
<1>14. QED
  BY <1>4, <1>6, <1>7, <1>8, <1>9, <1>10, <1>11, <1>12, <1>13 DEF IInv, CoreInv

\* What the end of a quantum does: the reservation holds its records, so it always returns
\* Ok.
LEMMA EndStep ==
  ASSUME IInv, NEW outcome \in Outcomes, EndQuantum(outcome)
  PROVE  /\ phase = "quantum" /\ Return("Ok") /\ budget # 0
         /\ current \in Contexts /\ states[current] = "Running"
         /\ Len(ready) < ReadyCapacity
         /\ outcome.state \in {"Ready"} \cup Blocked \cup Terminal
         /\ QuantumFields(current, outcome.state)
         /\ queued' = [queued EXCEPT ![current] = (outcome.state = "Ready")]
         /\ IF outcome.state = "Ready" THEN ready' = Append(ready, current) ELSE UNCHANGED ready
         /\ UNCHANGED passed
<1>1. /\ phase = "quantum" /\ budget # 0
      /\ current \in Contexts /\ states[current] = "Running" /\ Len(ready) < ReadyCapacity
  BY DEF EndQuantum, IInv, OneRunner, BudgetAgreement
<1>2. /\ outcome.state \in {"Ready"} \cup Blocked \cup Terminal
      /\ outcome.kind \in Kinds \cup {NoKind} /\ outcome.deadline \in Times
  BY OutcomeFields
<1>3. traced \in Nat /\ TraceCapacity \in Nat /\ traced + 2 <= TraceCapacity
  BY <1>1, CoreAssumption DEF IInv, TypeOK, CoreTypeOK, RecordsReserved
<1> DEFINE needed == IF outcome.state = "Ready" THEN 1 ELSE 2
<1>4. traced + needed <= TraceCapacity /\ traced + needed \in 0 .. TraceCapacity
  BY <1>3
<1>5. traced' = traced + needed /\ Return("Ok")
  BY <1>4 DEF EndQuantum
<1> HIDE DEF needed
<1>6. /\ states' = [states EXCEPT ![current] = outcome.state]
      /\ waitKinds' = [waitKinds EXCEPT ![current] = outcome.kind]
      /\ sleepUntil' = [sleepUntil EXCEPT ![current] = outcome.deadline]
      /\ queued' = [queued EXCEPT ![current] = (outcome.state = "Ready")]
      /\ IF outcome.state = "Ready" THEN ready' = Append(ready, current) ELSE UNCHANGED ready
      /\ UNCHANGED <<contextCount, now, passed>>
  BY DEF EndQuantum, Requeue
<1>7. QuantumFields(current, outcome.state)
  BY <1>1, <1>2, <1>4, <1>5, <1>6 DEF QuantumFields, IInv, TypeOK, CoreTypeOK
<1>8. QED
  BY <1>1, <1>2, <1>5, <1>6, <1>7

\* The end of a quantum puts its context at the tail, or takes it out of circulation.
LEMMA EndKeeps ==
  ASSUME IInv, NEW outcome \in Outcomes, EndQuantum(outcome)
  PROVE  IInv' /\ \A d \in Contexts : LegalEdge(states[d], states'[d])
<1>1. /\ phase = "quantum" /\ Return("Ok") /\ budget # 0
      /\ current \in Contexts /\ states[current] = "Running"
      /\ Len(ready) < ReadyCapacity
      /\ outcome.state \in {"Ready"} \cup Blocked \cup Terminal
      /\ QuantumFields(current, outcome.state)
      /\ queued' = [queued EXCEPT ![current] = (outcome.state = "Ready")]
      /\ IF outcome.state = "Ready" THEN ready' = Append(ready, current) ELSE UNCHANGED ready
      /\ UNCHANGED passed
  BY EndStep
<1>2. ~queued[current] /\ passed[current] = 0 /\ queued \in [Contexts -> BOOLEAN]
  BY <1>1 DEF IInv, TypeOK, CoreTypeOK, QueueAgreement, PassedWhileQueued
<1>3. CoreInv'
  <2>1. CASE outcome.state = "Ready"
    <3>1. queued' = [queued EXCEPT ![current] = TRUE]
      BY <1>1, <2>1
    <3>2. QED
      BY <1>1, <2>1, <3>1, IInvCore, RequeueKeepsCore
  <2>2. CASE outcome.state # "Ready"
    <3>1. UNCHANGED queued
      BY <1>1, <1>2, <2>2
    <3>2. QED
      BY <1>1, <2>2, <3>1, IInvCore, StopKeepsCore
  <2>3. QED
    BY <2>1, <2>2
<1>4. /\ phase' \in {"rest", "loop"} /\ current' \in 0 .. ContextCapacity
      /\ budget' \in {NoCall} \cup 0 .. MaxDecisions
      /\ BudgetAgreement'
  BY <1>1, ReturnTyped
<1>5. TypeOK'
  BY <1>1, <1>3, <1>4 DEF IInv, TypeOK, CoreInv
<1>6. /\ states'[current] = outcome.state
      /\ \A d \in Contexts : d # current => states'[d] = states[d] /\ states[d] # "Running"
  BY <1>1 DEF QuantumFields, IInv, TypeOK, CoreTypeOK, NobodyStrandedRunning
<1>7. \A d \in Contexts : LegalEdge(states[d], states'[d])
  BY <1>1, <1>6 DEF LegalEdge
<1>8. NobodyStrandedRunning'
  BY <1>1, <1>6 DEF NobodyStrandedRunning, Blocked, Terminal
<1>9. OneRunner' /\ RecordsReserved'
  BY <1>4 DEF OneRunner, RecordsReserved
<1>10. PassedWhileQueued'
  BY <1>1, <1>2 DEF IInv, PassedWhileQueued
<1>11. BoundedBypass'
  <2>1. CASE outcome.state # "Ready"
    BY <1>1, <2>1 DEF IInv, BoundedBypass
  <2>2. CASE outcome.state = "Ready"
    <3>1. /\ ready \in Seq(Contexts) /\ Len(ready) \in Nat
          /\ Len(ready') = Len(ready) + 1
          /\ \A i \in 1 .. Len(ready) : ready'[i] = ready[i]
          /\ ready'[Len(ready) + 1] = current
      <4>1. ready \in Seq(Contexts) /\ ready' = Append(ready, current)
        BY <1>1, <2>2 DEF IInv, TypeOK, CoreTypeOK
      <4>2. QED
        BY <1>1, <4>1, LenProperties, AppendProperties
    <3>2. ASSUME NEW i \in 1 .. Len(ready') PROVE passed[ready'[i]] + i <= ReadyCapacity
      <4>1. CASE i <= Len(ready)
        <5>1. i \in 1 .. Len(ready)
          BY <3>1, <4>1
        <5>2. QED
          BY <3>1, <5>1 DEF IInv, BoundedBypass
      <4>2. CASE i > Len(ready)
        <5>1. i = Len(ready) + 1
          BY <3>1, <3>2, <4>2
        <5>2. QED
          BY <1>1, <1>2, <3>1, <5>1, CoreAssumption
      <4>3. QED
        BY <3>1, <3>2, <4>1, <4>2
    <3>3. QED
      BY <1>1, <3>2 DEF BoundedBypass
  <2>3. QED
    BY <2>1, <2>2
<1>12. QED
  BY <1>3, <1>5, <1>7, <1>8, <1>9, <1>10, <1>11, <1>4 DEF IInv, CoreInv

\* Whatever a step is, it keeps the invariant and the lifecycle.
StepEffect == IInv' /\ \A c \in Contexts : LegalEdge(states[c], states'[c])

\* Host calls between decisions.
LEMMA HostSteps ==
  ASSUME IInv,
         \/ Register
         \/ \E c \in 1 .. ContextCapacity + 1 : Wake(c)
         \/ \E kind \in Kinds : NotifyEvent(kind)
         \/ WakeExpired
         \/ \E time \in Times : SetClock(time)
  PROVE  StepEffect
<1>1. CASE Register
  <2>1. CallEffect /\ HostCall("Register", RegisterStatus)
    BY <1>1, RegisterCall DEF Register
  <2>2. QED
    BY <2>1, HostCallKeeps DEF CallEffect, StepEffect
<1>2. ASSUME NEW c \in 1 .. ContextCapacity + 1, Wake(c) PROVE StepEffect
  <2>1. CallEffect /\ HostCall("Wake", WakeStatus(c))
    BY <1>2, WakeCall DEF Wake
  <2>2. QED
    BY <2>1, HostCallKeeps DEF CallEffect, StepEffect
<1>3. ASSUME NEW kind \in Kinds, NotifyEvent(kind) PROVE StepEffect
  <2>1. PICK status \in ScanStatuses :
          CoreNotifyEvent(kind, status) /\ HostCall("NotifyEvent", status)
    BY <1>3 DEF NotifyEvent
  <2>2. QED
    BY <2>1, NotifyCall, HostCallKeeps DEF CallEffect, StepEffect
<1>4. CASE WakeExpired
  <2>1. PICK status \in ScanStatuses :
          CoreWakeExpired(status) /\ HostCall("WakeExpired", status)
    BY <1>4 DEF WakeExpired
  <2>2. QED
    BY <2>1, WakeExpiredCall, HostCallKeeps DEF CallEffect, StepEffect
<1>5. ASSUME NEW time \in Times, SetClock(time) PROVE StepEffect
  <2>1. CallEffect /\ HostCall("SetClock", "Ok")
    BY <1>5, StutterCall DEF SetClock
  <2>2. QED
    BY <2>1, HostCallKeeps DEF CallEffect, StepEffect
<1>6. QED
  BY <1>1, <1>2, <1>3, <1>4, <1>5

\* Every step keeps the invariant.
LEMMA NextStep == IInv /\ [Next]_vars => StepEffect
<1> SUFFICES ASSUME IInv, [Next]_vars PROVE StepEffect
  OBVIOUS
<1>1. CASE \/ Register
           \/ \E c \in 1 .. ContextCapacity + 1 : Wake(c)
           \/ \E kind \in Kinds : NotifyEvent(kind)
           \/ WakeExpired
           \/ \E time \in Times : SetClock(time)
  BY <1>1, HostSteps
<1>2. CASE RefuseDecision \/ BeginDecision \/ NothingToSelect
  BY <1>2, RefuseKeeps, BeginKeeps, NothingKeeps DEF CallEffect, StepEffect
<1>3. CASE Select
  BY <1>3, SelectKeeps DEF StepEffect
<1>4. ASSUME NEW outcome \in Outcomes, EndQuantum(outcome) PROVE StepEffect
  BY <1>4, EndKeeps DEF StepEffect
<1>5. ASSUME NEW max \in -1 .. MaxDecisions, CallRunUntilIdle(max) PROVE StepEffect
  BY <1>5, CallRunKeeps DEF CallEffect, StepEffect
<1>6. CASE EndRun
  BY <1>6, EndRunKeeps DEF CallEffect, StepEffect
<1>7. CASE UNCHANGED vars
  <2>1. CoreInv'
    BY <1>7, IInvCore, StutterKeepsCore DEF vars
  <2>2. IInv'
    BY <1>7, <2>1 DEF vars, coreVars, IInv, TypeOK, CoreInv, NobodyStrandedRunning, OneRunner,
       RecordsReserved, BudgetAgreement, PassedWhileQueued, BoundedBypass
  <2>3. QED
    BY <1>7, <2>2 DEF vars, coreVars, StepEffect, LegalEdge
<1>8. QED
  BY <1>1, <1>2, <1>3, <1>4, <1>5, <1>6, <1>7 DEF Next

\* The half of it that an induction needs.
LEMMA NextIInv == IInv /\ [Next]_vars => IInv'
  BY NextStep DEF StepEffect

\* The inductive invariant holds in every reachable state.
THEOREM AlwaysIInv == Spec => []IInv
<1>1. QED
  BY InitIInv, NextIInv, PTL DEF Spec

-----------------------------------------------------------------------------
(* The theorems.                                                            *)

\* The table, the queue, the trace and the budget of RunUntilIdle keep their types.
THEOREM AlwaysTyped == Spec => []TypeOK
<1>1. IInv => TypeOK
  BY DEF IInv
<1>2. QED
  BY <1>1, AlwaysIInv, PTL

\* No call, however far it gets before it fails, makes queue, flags and states disagree.
THEOREM AlwaysQueueAgreement == Spec => []QueueAgreement
<1>1. IInv => QueueAgreement
  BY DEF IInv
<1>2. QED
  BY <1>1, AlwaysIInv, PTL

\* ScheduleOne never leaves the context it selected Running.
THEOREM AlwaysNobodyStranded == Spec => []NobodyStrandedRunning
<1>1. IInv => NobodyStrandedRunning
  BY DEF IInv
<1>2. QED
  BY <1>1, AlwaysIInv, PTL

\* A queued context is passed over at most as often as there are places ahead of it.
THEOREM AlwaysBoundedBypass == Spec => []BoundedBypass
<1>1. IInv => BoundedBypass
  BY DEF IInv
<1>2. QED
  BY <1>1, AlwaysIInv, PTL

\* Contexts move along the documented edges of the lifecycle only.
THEOREM EdgesAreLegal == Spec => LifecycleEdges
<1>1. IInv /\ [Next]_vars => [\A c \in Contexts : LegalEdge(states[c], states'[c])]_vars
  BY NextStep DEF StepEffect
<1>2. QED
  BY <1>1, AlwaysIInv, PTL DEF Spec, LifecycleEdges

\* The two parts of a reply.
LEMMA ReplyParts ==
  ASSUME NEW op, NEW status
  PROVE  Reply(op, status).op = op /\ Reply(op, status).status = status
  BY DEF Reply

\* A decision that got past the reservation of ScheduleOne does not run out of trace.
THEOREM DecisionsAreRecorded == Spec => BegunDecisionsAreRecorded
<1>1. ASSUME IInv, [Next]_vars, phase \in {"select", "quantum"}, phase' = "rest"
      PROVE  reply'.status # "TraceCapacityExhausted"
  <2>1. ASSUME NEW status, Return(status), status # "TraceCapacityExhausted"
        PROVE  reply'.status # "TraceCapacityExhausted"
    BY <1>1, <2>1, ReplyParts DEF Return
  <2>2. CASE NothingToSelect
    BY <2>1, <2>2 DEF NothingToSelect
  <2>3. ASSUME NEW outcome \in Outcomes, EndQuantum(outcome)
        PROVE  reply'.status # "TraceCapacityExhausted"
    BY <1>1, <2>1, <2>3, EndStep
  <2>4. ~Select
    BY <1>1, SelectStep
  <2>5. ~UNCHANGED vars
    BY <1>1 DEF vars
  <2>6. /\ ~RefuseDecision /\ ~BeginDecision
        /\ ~EndRun /\ \A max \in -1 .. MaxDecisions : ~CallRunUntilIdle(max)
    BY <1>1 DEF RefuseDecision, BeginDecision, MayDecide, EndRun, CallRunUntilIdle
  <2>7. /\ ~Register /\ ~WakeExpired
        /\ \A c \in 1 .. ContextCapacity + 1 : ~Wake(c)
        /\ \A kind \in Kinds : ~NotifyEvent(kind)
        /\ \A time \in Times : ~SetClock(time)
    BY <1>1 DEF Register, WakeExpired, Wake, NotifyEvent, SetClock, HostCall
  <2>8. QED
    BY <1>1, <2>2, <2>3, <2>4, <2>5, <2>6, <2>7 DEF Next
<1>2. IInv /\ [Next]_vars =>
        [(phase \in {"select", "quantum"} /\ phase' = "rest")
           => reply'.status # "TraceCapacityExhausted"]_vars
  BY <1>1
<1>3. QED
  BY <1>2, AlwaysIInv, PTL DEF Spec, BegunDecisionsAreRecorded

-----------------------------------------------------------------------------
(* The reply Idle.  BeginDecision leaves the reply of the call before in    *)
(* place, so what an old Idle still says has to be carried along.           *)

IdleReply == Reply("RunUntilIdle", "Idle")

\* While Idle stands as the last reply nothing is queued, except during a ScheduleOne that
\* the host called itself, which will replace it.
IdleReplied ==
  reply = IdleReply =>
    /\ phase \in {"rest", "loop"} => ready = << >>
    /\ phase \in {"select", "quantum"} => budget = NoCall

\* An error or a counted decision never turns the reply into Idle.
LEMMA ReturnKeepsIdle ==
  ASSUME IInv, IdleReplied, NEW status, Return(status), status # "Idle",
         phase \in {"select", "quantum"} \/ ready # << >> \/ budget = NoCall
  PROVE  reply' # IdleReply
<1>1. Reply("ScheduleOne", status) # IdleReply /\ Reply("RunUntilIdle", status) # IdleReply
  <2>1. "ScheduleOne" # "RunUntilIdle"
    OBVIOUS
  <2>2. QED
    BY <2>1, ReplyParts DEF IdleReply
<1>2. CASE budget = NoCall
  BY <1>1, <1>2 DEF Return
<1>3. CASE budget # NoCall
  <2>1. reply # IdleReply
    BY <1>3 DEF IdleReplied, IInv, TypeOK
  <2>2. QED
    BY <1>1, <1>3, <2>1 DEF Return
<1>4. QED
  BY <1>2, <1>3

\* No step breaks it, and Idle is said in the loop only where the queue is empty.
LEMMA IdleSteps ==
  IInv /\ IdleReplied /\ [Next]_vars
    => IdleReplied' /\ (phase = "loop" /\ reply' = IdleReply => ready' = << >>)
<1> SUFFICES ASSUME IInv, IdleReplied, [Next]_vars
             PROVE  IdleReplied' /\ (phase = "loop" /\ reply' = IdleReply => ready' = << >>)
  OBVIOUS
<1> DEFINE Goal == IdleReplied' /\ (phase = "loop" /\ reply' = IdleReply => ready' = << >>)
<1>1. ASSUME NEW op \in {"Register", "Wake", "NotifyEvent", "WakeExpired", "SetClock"},
             NEW status, HostCall(op, status)
      PROVE  Goal
  <2>1. Reply(op, status) # IdleReply
    BY ReplyParts DEF IdleReply
  <2>2. QED
    BY <1>1, <2>1 DEF HostCall, IdleReplied
<1>2. ASSUME reply' # IdleReply PROVE Goal
  BY <1>2 DEF IdleReplied
<1>3. CASE RefuseDecision
  <2>1. Return("TraceCapacityExhausted") /\ (ready # << >> \/ budget = NoCall)
    BY <1>3 DEF RefuseDecision, MayDecide, IInv, BudgetAgreement
  <2>2. QED
    BY <1>2, <2>1, ReturnKeepsIdle
<1>4. CASE BeginDecision
  <2>1. PICK status \in ScanStatuses :
          IF status = "Ok"
          THEN phase' = "select" /\ UNCHANGED <<current, budget, reply>>
          ELSE Return(status)
    BY <1>4 DEF BeginDecision
  <2>2. \/ phase = "rest" /\ budget = NoCall
        \/ phase = "loop" /\ ready # << >>
    BY <1>4 DEF BeginDecision, MayDecide, IInv, BudgetAgreement
  <2>3. CASE status = "Ok"
    BY <2>1, <2>2, <2>3 DEF IdleReplied
  <2>4. CASE status # "Ok"
    BY <1>2, <2>1, <2>2, <2>4, ReturnKeepsIdle DEF ScanStatuses
  <2>5. QED
    BY <2>3, <2>4
<1>5. CASE NothingToSelect
  BY <1>2, <1>5, ReturnKeepsIdle DEF NothingToSelect
<1>6. CASE Select
  BY <1>6, SelectStep DEF IdleReplied
<1>7. ASSUME NEW outcome \in Outcomes, EndQuantum(outcome) PROVE Goal
  BY <1>2, <1>7, EndStep, ReturnKeepsIdle
<1>8. ASSUME NEW max \in -1 .. MaxDecisions, CallRunUntilIdle(max) PROVE Goal
  <2>1. CASE max < 0
    <3>1. Reply("RunUntilIdle", "NegativeBudget") # IdleReply
      BY ReplyParts DEF IdleReply
    <3>2. QED
      BY <1>2, <1>8, <2>1, <3>1 DEF CallRunUntilIdle
  <2>2. CASE ~(max < 0)
    BY <1>8, <2>2 DEF CallRunUntilIdle, coreVars, IdleReplied
  <2>3. QED
    BY <2>1, <2>2
<1>9. CASE EndRun
  <2>1. CASE ready = << >>
    BY <1>9, <2>1 DEF EndRun, coreVars, IdleReplied
  <2>2. CASE ready # << >>
    <3>1. reply' = Reply("RunUntilIdle", "DecisionBudgetExhausted")
      BY <1>9, <2>2 DEF EndRun, RunResult
    <3>2. QED
      BY <1>2, <3>1, ReplyParts DEF IdleReply
  <2>3. QED
    BY <2>1, <2>2
<1>10. CASE UNCHANGED vars
  BY <1>10 DEF vars, coreVars, IdleReplied
<1>11. QED
  BY <1>1, <1>3, <1>4, <1>5, <1>6, <1>7, <1>8, <1>9, <1>10
  DEF Next, Register, Wake, NotifyEvent, WakeExpired, SetClock

\* RunUntilIdle reports Idle only when no context is Ready.
THEOREM IdleIsHonest == Spec => IdleMeansNoReady
<1>1. Init => IdleReplied
  BY DEF Init, CoreInit, IdleReplied
<1>2. IInv /\ IdleReplied /\ [Next]_vars => IdleReplied'
  BY IdleSteps
<1>3. ASSUME IInv, IdleReplied, [Next]_vars,
             phase = "loop", reply' = Reply("RunUntilIdle", "Idle")
      PROVE  \A c \in Contexts : states'[c] # "Ready"
  <2>1. ready' = << >>
    BY <1>3, IdleSteps DEF IdleReply
  <2>2. QueueAgreement'
    BY <1>3, NextIInv DEF IInv
  <2>3. Len(ready') = 0
    BY <2>1, EmptySeq
  <2>4. QED
    BY <2>2, <2>3 DEF QueueAgreement
<1>4. IInv /\ IdleReplied /\ [Next]_vars =>
        [(phase = "loop" /\ reply' = Reply("RunUntilIdle", "Idle"))
           => \A c \in Contexts : states'[c] # "Ready"]_vars
  BY <1>3
<1>5. QED
  BY <1>1, <1>2, <1>4, AlwaysIInv, PTL DEF Spec, IdleMeansNoReady
=============================================================================
