------------------------ MODULE ParallelSchedulerProofs ------------------------
(***************************************************************************)
(* For every number of workers, hosts, contexts, kinds and times and every  *)
(* capacity: no machine is stepped by two workers, no call marked ! fails,  *)
(* no deadline is missed, no notification is lost, workers leave only when  *)
(* nothing is left to run, and the scheduler implements the context         *)
(* lifecycle.                                                               *)
(*                                                                          *)
(* The invariants the runs check are not inductive.  IInv adds: the holder  *)
(* of the gate is where the gate is held; a worker holds a context exactly  *)
(* between its claim and its publication; every registered context has its  *)
(* slot in the queue (the reservation); and what was accepted during a      *)
(* quantum is what the pending marks say.                                   *)
(***************************************************************************)
EXTENDS ParallelScheduler, SchedulerCoreProofs

\* Register keeps one queue slot for every context.
SlotsReserved == contextCount <= ReadyCapacity

GateAgreement == \A w \in Workers : gate = w <=> pc[w] \in {"claim", "publish"}

HeldContext ==
  \A w \in Workers : current[w] # 0 <=> pc[w] \in {"run", "leave", "publish"}

OutcomeReady == \A w \in Workers : pc[w] \in {"leave", "publish"} => outcome[w] \in Outcomes

ToldIsPending ==
  \A c \in Contexts :
    /\ NoKind \in told[c] => pendingWake[c]
    /\ \A k \in told[c] : k # NoKind => pendingEvent[c] = k

\* NobodyOversleeps without its condition on the gate.
NobodyPastDeadline ==
  ~TraceFull => \A c \in Contexts : states[c] = "Sleeping" => now < sleepUntil[c]

IInv ==
  /\ TypeOK
  /\ TableFilled
  /\ QueueAgreement
  /\ SlotsReserved
  /\ GateAgreement
  /\ HeldContext
  /\ OutcomeReady
  /\ ClaimedOnce
  /\ NeverTraps
  /\ ToldIsPending
  /\ NobodyPastDeadline

\* The workers and their view of the contexts they hold.
Holders == {w \in Workers : current[w] # 0}

\* The part of IInv that speaks of the core.
LEMMA IInvCore == IInv => CoreInv
  BY DEF IInv, CoreInv, TypeOK

\* Nobody runs anything at the start.
LEMMA InitIInv == Init => IInv
<1> SUFFICES ASSUME Init PROVE IInv
  OBVIOUS
<1>1. CoreInv
  BY InitCoreInv DEF Init
<1>2. TypeOK
  <2>1. CoreTypeOK /\ runningCount \in 0 .. ContextCapacity
    BY <1>1, CoreAssumption DEF Init, CoreInv
  <2>2. /\ gate \in {Free} \cup Workers \cup Hosts
        /\ pc \in [Workers -> {"out", "enter", "claim", "run", "leave", "publish"}]
        /\ current \in [Workers -> {0} \cup Contexts]
        /\ outcome \in [Workers -> Outcomes \cup {NoOutcome}]
    BY DEF Init
  <2>3. /\ pendingWake \in [Contexts -> BOOLEAN]
        /\ pendingEvent \in [Contexts -> Kinds \cup {NoKind}]
        /\ trapped \in BOOLEAN
    BY DEF Init
  <2>4. told \in [Contexts -> SUBSET (Kinds \cup {NoKind})]
    BY DEF Init
  <2>5. QED
    BY <2>1, <2>2, <2>3, <2>4 DEF TypeOK
<1>3. {w \in Workers : current[w] # 0} = {}
  BY DEF Init
<1>4. ClaimedOnce
  <2>1. \A c \in Contexts : states[c] # "Running"
    BY DEF Init, CoreInit
  <2>2. runningCount = Cardinality({w \in Workers : current[w] # 0})
    BY <1>3, FS_EmptySet DEF Init
  <2>3. QED
    BY <2>1, <2>2 DEF Init, ClaimedOnce, Contexts
<1>5. SlotsReserved /\ NobodyPastDeadline
  BY CoreAssumption DEF Init, CoreInit, SlotsReserved, NobodyPastDeadline
<1>6. GateAgreement /\ HeldContext /\ OutcomeReady /\ NeverTraps /\ ToldIsPending
  BY ThreadAssumption
  DEF Init, GateAgreement, HeldContext, OutcomeReady, NeverTraps, ToldIsPending
<1>7. QED
  BY <1>1, <1>2, <1>4, <1>5, <1>6 DEF IInv, CoreInv

-----------------------------------------------------------------------------
(* Host calls.                                                              *)

\* What a host call may do to the table: nothing to Running contexts, no new sleepers.
HostEffect ==
  /\ \A c \in Contexts : states'[c] = "Running" <=> states[c] = "Running"
  /\ \A c \in Contexts :
       states'[c] = "Sleeping" => states[c] = "Sleeping" /\ sleepUntil'[c] = sleepUntil[c]
  /\ contextCount' <= ReadyCapacity

\* A call that leaves the core alone.
LEMMA StutterEffect ==
  ASSUME IInv, UNCHANGED coreVars
  PROVE  CoreInv' /\ HostEffect /\ NobodyPastDeadline'
<1>1. CoreInv' /\ HostEffect
  BY IInvCore, StutterKeepsCore DEF coreVars, HostEffect, IInv, SlotsReserved
<1>2. NobodyPastDeadline'
  BY DEF coreVars, IInv, NobodyPastDeadline, TraceFull
<1>3. QED
  BY <1>1, <1>2

\* A scan, with the clock where it is, of contexts that are blocked.
LEMMA ScanEffect ==
  ASSUME IInv, NEW set, NEW status, ScanResult(set, status), now' \in Times
  PROVE  CoreInv' /\ HostEffect /\ (TraceFull => TraceFull')
<1>1. CoreInv /\ CoreInv'
  BY IInvCore, ScanKeepsCore
<1>2. PICK woken \in Seq(Contexts) : Wakeable(woken) /\ MakeAllReady(woken)
  BY DEF ScanResult
<1>3. Len(woken) \in Nat /\ Range(woken) = {woken[i] : i \in 1 .. Len(woken)}
  BY LenProperties, RangeEquality
<1>4. \A c \in Range(woken) : states[c] \in Blocked
  BY <1>2, <1>3 DEF Wakeable
<1>5. HostEffect
  BY <1>2, <1>4 DEF HostEffect, MakeAllReady, Blocked, IInv, SlotsReserved
<1>6. TraceFull => TraceFull'
  BY <1>2, <1>3, CoreAssumption DEF TraceFull, MakeAllReady, CoreInv, CoreTypeOK, IInv, TypeOK
<1>7. QED
  BY <1>1, <1>5, <1>6

\* A scan with the clock where it is cannot make a deadline pass.
LEMMA ScanNowEffect ==
  ASSUME IInv, NEW set, NEW status, ScanResult(set, status), UNCHANGED now
  PROVE  CoreInv' /\ HostEffect /\ NobodyPastDeadline'
<1>1. now' \in Times
  BY DEF IInv, TypeOK, CoreTypeOK
<1>2. CoreInv' /\ HostEffect /\ (TraceFull => TraceFull')
  BY <1>1, ScanEffect
<1>3. NobodyPastDeadline'
  BY <1>2 DEF HostEffect, IInv, NobodyPastDeadline
<1>4. QED
  BY <1>2, <1>3

\* Waking one context is a scan of it alone.
LEMMA WakeEffect ==
  ASSUME IInv, NEW c, CoreWake(c, WakeStatus(c))
  PROVE  CoreInv' /\ HostEffect /\ NobodyPastDeadline'
<1>1. CASE WakeStatus(c) # "Ok"
  BY <1>1, StutterEffect DEF CoreWake
<1>2. CASE WakeStatus(c) = "Ok"
  <2>1. /\ c \in Known /\ states[c] \in Blocked
        /\ Len(ready) + 0 < ReadyCapacity /\ traced + 0 < TraceCapacity
    <3>1. c \in Known /\ states[c] \in Blocked /\ MakeReadyStatus(c, 0) = "Ok"
      BY <1>2 DEF WakeStatus
    <3>2. ~(Len(ready) + 0 >= ReadyCapacity) /\ ~(traced + 0 >= TraceCapacity)
      BY <3>1 DEF MakeReadyStatus
    <3>3. Len(ready) \in Nat
      BY LenProperties DEF IInv, TypeOK, CoreTypeOK
    <3>4. QED
      BY <3>1, <3>2, <3>3, CoreAssumption DEF IInv, TypeOK, CoreTypeOK
  <2>2. c \in Contexts
    BY <2>1, CoreAssumption DEF IInv, TypeOK, CoreTypeOK, Known, Contexts
  <2>3. <<c>> \in Seq(Contexts) /\ Len(<<c>>) = 1 /\ <<c>>[1] = c
    BY <2>2
  <2>4. Wakeable(<<c>>)
    <3>1. Len(ready) \in Nat /\ traced \in Nat
      BY LenProperties, CoreAssumption DEF IInv, TypeOK, CoreTypeOK
    <3>2. QED
      BY <2>1, <2>3, <3>1, CoreAssumption DEF Wakeable
  <2>5. MakeAllReady(<<c>>) /\ UNCHANGED now
    BY <1>2 DEF CoreWake
  <2>6. ScanResult({c}, "Ok")
    <3>1. \A i \in 1 .. Len(<<c>>) : <<c>>[i] \in {c}
      BY <2>3
    <3>2. \E i \in 1 .. Len(<<c>>) : <<c>>[i] = c
      BY <2>3
    <3>3. QED
      BY <2>3, <2>4, <2>5, <3>1, <3>2 DEF ScanResult
  <2>7. QED
    BY <2>5, <2>6, ScanNowEffect
<1>3. QED
  BY <1>1, <1>2

\* A registration, admitted or refused, keeps the reservation of queue slots.
LEMMA RegisterEffect ==
  ASSUME IInv,
         IF AllSlotsReserved THEN UNCHANGED coreVars ELSE CoreRegister(RegisterStatus)
  PROVE  CoreInv' /\ HostEffect /\ NobodyPastDeadline'
<1>1. CASE UNCHANGED coreVars
  BY <1>1, StutterEffect
<1>2. CASE ~AllSlotsReserved /\ CoreRegister(RegisterStatus) /\ RegisterStatus = "Ok"
  <2>1. CoreInv'
    BY <1>2, IInvCore, RegisterKeepsCore
  <2>2. /\ states' = [states EXCEPT ![contextCount + 1] = "Ready"]
        /\ contextCount' = contextCount + 1
        /\ traced' = traced + 1
        /\ UNCHANGED <<sleepUntil, now>>
    BY <1>2 DEF CoreRegister
  <2>3. contextCount + 1 <= ReadyCapacity
    BY <1>2, CoreAssumption DEF AllSlotsReserved, IInv, TypeOK, CoreTypeOK
  <2>4. \A c \in Contexts : states'[c] = states[c] \/ (states[c] = "Absent" /\ states'[c] = "Ready")
    <3>1. states[contextCount + 1] = "Absent" \/ contextCount + 1 \notin Contexts
      BY CoreAssumption DEF IInv, TypeOK, CoreTypeOK, TableFilled, Contexts
    <3>2. QED
      BY <2>2, <3>1 DEF IInv, TypeOK, CoreTypeOK
  <2>5. HostEffect
    BY <2>2, <2>3, <2>4 DEF HostEffect
  <2>6. NobodyPastDeadline'
    <3>1. TraceFull => TraceFull'
      BY <2>2, CoreAssumption DEF TraceFull, IInv, TypeOK, CoreTypeOK
    <3>2. QED
      BY <2>2, <2>5, <3>1 DEF HostEffect, IInv, NobodyPastDeadline
  <2>7. QED
    BY <2>1, <2>5, <2>6
<1>3. QED
  BY <1>1, <1>2 DEF CoreRegister

\* A host call that keeps the core well formed and gives the gate back keeps the rest.
LEMMA HostCallKeeps ==
  ASSUME IInv, NEW h \in Hosts, InHost(h),
         CoreInv', HostEffect, NobodyPastDeadline',
         pendingWake' \in [Contexts -> BOOLEAN],
         pendingEvent' \in [Contexts -> Kinds \cup {NoKind}],
         told' \in [Contexts -> SUBSET (Kinds \cup {NoKind})],
         ToldIsPending'
  PROVE  IInv'
<1>1. /\ gate = h /\ gate' = Free /\ UNCHANGED <<pc, current, outcome, runningCount, trapped>>
  BY DEF InHost, Release, workerVars
<1>2. TypeOK'
  BY <1>1 DEF IInv, TypeOK, CoreInv
<1>3. GateAgreement'
  BY <1>1, ThreadAssumption DEF IInv, GateAgreement
<1>4. HeldContext' /\ OutcomeReady' /\ NeverTraps'
  BY <1>1 DEF IInv, HeldContext, OutcomeReady, NeverTraps
<1>5. ClaimedOnce'
  BY <1>1 DEF IInv, ClaimedOnce, HostEffect
<1>6. SlotsReserved'
  BY DEF HostEffect, SlotsReserved
<1>7. QED
  BY <1>2, <1>3, <1>4, <1>5, <1>6 DEF IInv, CoreInv

\* A host that takes the gate finds it free, so no worker is where the gate is held.
LEMMA HostAcquireKeeps == ASSUME IInv, NEW h \in Hosts, HostAcquire(h) PROVE IInv'
<1>1. gate = Free /\ gate' = h
  BY DEF HostAcquire, Acquire
<1>2. UNCHANGED <<coreVars, workerVars, pendingVars, runningCount, trapped>>
  BY DEF HostAcquire
<1>3. TypeOK' /\ TableFilled' /\ QueueAgreement'
  BY <1>1, <1>2 DEF IInv, TypeOK, CoreTypeOK, TableFilled, QueueAgreement,
     coreVars, workerVars, pendingVars
<1>4. GateAgreement'
  BY <1>1, <1>2, ThreadAssumption DEF IInv, GateAgreement, workerVars
<1>5. /\ SlotsReserved' /\ HeldContext' /\ OutcomeReady' /\ ClaimedOnce' /\ NeverTraps'
      /\ ToldIsPending' /\ NobodyPastDeadline'
  BY <1>2 DEF IInv, SlotsReserved, HeldContext, OutcomeReady, ClaimedOnce, NeverTraps,
     ToldIsPending, NobodyPastDeadline, TraceFull, coreVars, workerVars, pendingVars
<1>6. QED
  BY <1>3, <1>4, <1>5 DEF IInv

\* Register leaves the workers and the marks alone.
LEMMA RegisterKeeps == ASSUME IInv, NEW h \in Hosts, Register(h) PROVE IInv'
<1>1. InHost(h) /\ CoreInv' /\ HostEffect /\ NobodyPastDeadline'
  BY RegisterEffect DEF Register
<1>2. UNCHANGED pendingVars
  BY DEF Register
<1>3. QED
  BY <1>1, <1>2, HostCallKeeps DEF pendingVars, IInv, TypeOK, ToldIsPending

\* Wake marks a Running context, or wakes one through the core.
LEMMA WakeKeeps ==
  ASSUME IInv, NEW h \in Hosts, NEW c \in 1 .. ContextCapacity + 1, Wake(h, c)
  PROVE  IInv'
<1>1. CASE CoreWake(c, WakeStatus(c)) /\ UNCHANGED pendingVars
  <2>1. InHost(h) /\ CoreInv' /\ HostEffect /\ NobodyPastDeadline'
    BY <1>1, WakeEffect DEF Wake
  <2>2. QED
    BY <1>1, <2>1, HostCallKeeps DEF pendingVars, IInv, TypeOK, ToldIsPending
<1>2. CASE /\ c \in Known
           /\ pendingWake' = [pendingWake EXCEPT ![c] = TRUE]
           /\ told' = [told EXCEPT ![c] = @ \cup {NoKind}]
           /\ UNCHANGED <<coreVars, pendingEvent>>
  <2>1. InHost(h) /\ CoreInv' /\ HostEffect /\ NobodyPastDeadline'
    BY <1>2, StutterEffect DEF Wake
  <2>2. c \in Contexts
    BY <1>2, CoreAssumption DEF IInv, TypeOK, CoreTypeOK, Known, Contexts
  <2>3. /\ pendingWake' \in [Contexts -> BOOLEAN]
        /\ told' \in [Contexts -> SUBSET (Kinds \cup {NoKind})]
        /\ ToldIsPending'
    BY <1>2, <2>2 DEF IInv, TypeOK, ToldIsPending
  <2>4. QED
    BY <1>2, <2>1, <2>3, HostCallKeeps DEF IInv, TypeOK
<1>3. QED
  BY <1>1, <1>2 DEF Wake

\* The contexts a scan looks at are blocked ones.
LEMMA WaitingAreBlocked ==
  ASSUME IInv, NEW kind
  PROVE  WaitingFor(kind) \subseteq {c \in Contexts : states[c] \in Blocked}
  BY CoreAssumption DEF WaitingFor, Known, Contexts, Blocked, IInv, TypeOK, CoreTypeOK

\* Only Sleeping contexts expire.
LEMMA ExpiredAreBlocked ==
  ASSUME IInv, NEW time
  PROVE  ExpiredAt(time) \subseteq {c \in Contexts : states[c] \in Blocked}
  BY CoreAssumption DEF ExpiredAt, Known, Contexts, Blocked, IInv, TypeOK, CoreTypeOK

\* NotifyEvent refuses, or wakes the waiting contexts and marks the Running ones, which
\* then remember no other kind.
LEMMA NotifyEventKeeps ==
  ASSUME IInv, NEW h \in Hosts, NEW kind \in Kinds, NotifyEvent(h, kind)
  PROVE  IInv'
<1>1. InHost(h) /\ UNCHANGED pendingWake
  BY DEF NotifyEvent
<1>2. CASE UNCHANGED <<coreVars, pendingEvent, told>>
  <2>1. CoreInv' /\ HostEffect /\ NobodyPastDeadline'
    BY <1>2, StutterEffect
  <2>2. QED
    BY <1>1, <1>2, <2>1, HostCallKeeps DEF IInv, TypeOK, ToldIsPending
<1>3. ASSUME ~Conflicts(kind), NEW status \in ScanStatuses, CoreNotifyEvent(kind, status),
             NEW heard, heard = {c \in Known : status = "Ok" /\ states[c] = "Running"},
             pendingEvent' = [c \in Contexts |-> IF c \in heard THEN kind ELSE pendingEvent[c]],
             told' = [c \in Contexts |-> IF c \in heard THEN told[c] \cup {kind} ELSE told[c]]
      PROVE  IInv'
  <2>1. CoreInv' /\ HostEffect /\ NobodyPastDeadline'
    <3>1. ScanResult(WaitingFor(kind), status) /\ UNCHANGED now
      BY <1>3, WaitingAreBlocked, ScanWakesMatches, IInvCore DEF CoreNotifyEvent
    <3>2. QED
      BY <3>1, ScanNowEffect
  <2>2. /\ pendingEvent' \in [Contexts -> Kinds \cup {NoKind}]
        /\ told' \in [Contexts -> SUBSET (Kinds \cup {NoKind})]
    BY <1>3 DEF IInv, TypeOK
  <2>3. \A c \in heard : pendingEvent[c] \in {NoKind, kind}
    BY <1>3 DEF Conflicts
  <2>4. ToldIsPending'
    <3>1. ASSUME NEW c \in Contexts, NoKind \in told'[c] PROVE pendingWake'[c]
      BY <1>1, <1>3, <3>1, CoreAssumption DEF IInv, ToldIsPending
    <3>2. ASSUME NEW c \in Contexts, NEW k \in told'[c], k # NoKind PROVE pendingEvent'[c] = k
      <4>1. CASE c \in heard
        BY <1>3, <2>3, <3>2, <4>1 DEF IInv, ToldIsPending
      <4>2. CASE c \notin heard
        BY <1>3, <3>2, <4>2 DEF IInv, ToldIsPending
      <4>3. QED
        BY <4>1, <4>2
    <3>3. QED
      BY <3>1, <3>2 DEF ToldIsPending
  <2>5. QED
    BY <1>1, <2>1, <2>2, <2>4, HostCallKeeps DEF IInv, TypeOK
<1>4. QED
  BY <1>2, <1>3 DEF NotifyEvent

\* A scan for expired sleepers.
LEMMA WakeExpiredKeeps == ASSUME IInv, NEW h \in Hosts, WakeExpired(h) PROVE IInv'
<1>1. PICK status \in ScanStatuses : CoreWakeExpired(status)
  BY DEF WakeExpired
<1>2. ScanResult(ExpiredAt(now), status) /\ UNCHANGED now
  BY <1>1, ExpiredAreBlocked, ScanWakesMatches, IInvCore DEF CoreWakeExpired
<1>3. InHost(h) /\ UNCHANGED pendingVars /\ CoreInv' /\ HostEffect /\ NobodyPastDeadline'
  BY <1>2, ScanNowEffect DEF WakeExpired
<1>4. QED
  BY <1>3, HostCallKeeps DEF pendingVars, IInv, TypeOK, ToldIsPending

\* The clock moves and the scan wakes whoever it has caught up with, unless the trace is full.
LEMMA AdvanceTimeKeeps ==
  ASSUME IInv, NEW h \in Hosts, NEW time \in Times, AdvanceTime(h, time)
  PROVE  IInv'
<1>1. PICK status \in ScanStatuses : WakeEach(ExpiredAt(time), status)
  BY DEF AdvanceTime
<1>2. InHost(h) /\ UNCHANGED pendingVars /\ now' = time
  BY DEF AdvanceTime
<1>3. ScanResult(ExpiredAt(time), status)
  BY <1>1, ExpiredAreBlocked, ScanWakesMatches, IInvCore
<1>4. CoreInv' /\ HostEffect /\ (TraceFull => TraceFull')
  BY <1>2, <1>3, ScanEffect
<1>5. NobodyPastDeadline'
  <2>1. SUFFICES ASSUME ~TraceFull', NEW c \in Contexts, states'[c] = "Sleeping"
                 PROVE  time < sleepUntil'[c]
    BY <1>2 DEF NobodyPastDeadline
  <2>2. states[c] = "Sleeping" /\ sleepUntil'[c] = sleepUntil[c]
    BY <1>4, <2>1 DEF HostEffect
  <2>3. \A d \in ExpiredAt(time) : states'[d] = "Ready"
    BY <1>2, <1>3, <2>1, ExpiredAreBlocked, IInvCore, ScanStopsAtTraceOnly
    DEF IInv, SlotsReserved
  <2>4. c \notin ExpiredAt(time)
    BY <2>1, <2>3
  <2>5. c \in Known
    BY <2>2, CoreAssumption DEF IInv, TypeOK, CoreTypeOK, TableFilled, Known, Contexts
  <2>6. QED
    BY <2>2, <2>4, <2>5, CoreAssumption DEF ExpiredAt, IInv, TypeOK, CoreTypeOK, Times
<1>6. QED
  BY <1>2, <1>4, <1>5, HostCallKeeps DEF pendingVars, IInv, TypeOK, ToldIsPending

-----------------------------------------------------------------------------
(* Worker steps.                                                            *)

AtGate == {"claim", "publish"}
Holding == {"run", "leave", "publish"}

\* A step that moves a worker and perhaps the gate, and neither claims nor publishes.
WorkerMoves(w, from, to) ==
  /\ Goto(w, from, to)
  /\ to \in {"out", "enter", "claim", "run", "leave", "publish"}
  /\ from \in Holding <=> to \in Holding
  /\ \/ to \in AtGate /\ gate = Free /\ gate' = w
     \/ to \notin AtGate /\ from \notin AtGate /\ gate' = gate
     \/ to \notin AtGate /\ from \in AtGate /\ gate' = Free
  /\ outcome' \in [Workers -> Outcomes \cup {NoOutcome}]
  /\ to \in {"leave", "publish"} => outcome'[w] \in Outcomes
  /\ \A v \in Workers : v # w => outcome'[v] = outcome[v]
  /\ UNCHANGED <<coreVars, current, pendingVars, runningCount, trapped>>

\* A worker that only moves, taking or leaving the gate as its new place requires.
LEMMA MoveKeeps ==
  ASSUME IInv, NEW w \in Workers, NEW from, NEW to, WorkerMoves(w, from, to)
  PROVE  IInv'
<1>1. /\ pc[w] = from /\ pc' = [pc EXCEPT ![w] = to]
      /\ pc \in [Workers -> {"out", "enter", "claim", "run", "leave", "publish"}]
  BY DEF WorkerMoves, Goto, IInv, TypeOK
<1>2. pc'[w] = to /\ \A v \in Workers : v # w => pc'[v] = pc[v]
  BY <1>1
<1>3. GateAgreement'
  BY <1>1, <1>2, ThreadAssumption DEF WorkerMoves, AtGate, IInv, GateAgreement
<1>4. HeldContext'
  BY <1>1, <1>2 DEF WorkerMoves, Holding, IInv, HeldContext
<1>5. OutcomeReady'
  BY <1>1, <1>2 DEF WorkerMoves, IInv, OutcomeReady
<1>6. TypeOK' /\ TableFilled' /\ QueueAgreement'
  <2>1. pc' \in [Workers -> {"out", "enter", "claim", "run", "leave", "publish"}]
    BY <1>1 DEF WorkerMoves
  <2>2. gate' \in {Free} \cup Workers \cup Hosts
    BY DEF WorkerMoves, IInv, TypeOK
  <2>3. CoreInv'
    BY IInvCore, StutterKeepsCore DEF WorkerMoves
  <2>4. QED
    BY <2>1, <2>2, <2>3 DEF WorkerMoves, IInv, TypeOK, CoreInv, pendingVars
<1>7. /\ SlotsReserved' /\ ClaimedOnce' /\ NeverTraps' /\ ToldIsPending' /\ NobodyPastDeadline'
  BY DEF WorkerMoves, IInv, SlotsReserved, ClaimedOnce, NeverTraps,
     ToldIsPending, NobodyPastDeadline, TraceFull, coreVars, pendingVars
<1>8. QED
  BY <1>3, <1>4, <1>5, <1>6, <1>7 DEF IInv

\* The six steps of that kind.
LEMMA MovesKeep ==
  ASSUME IInv, NEW w \in Workers,
         \/ StartWorker(w) \/ EnterGate(w) \/ FindBusy(w) \/ FindIdle(w) \/ LeaveGate(w)
         \/ \E result \in Outcomes : RunQuantum(w, result)
  PROVE  IInv'
<1>0. outcome \in [Workers -> Outcomes \cup {NoOutcome}]
  BY DEF IInv, TypeOK
<1>1. CASE StartWorker(w)
  <2>1. WorkerMoves(w, "out", "enter")
    BY <1>0, <1>1 DEF StartWorker, WorkerMoves, AtGate, Holding
  <2>2. QED
    BY <2>1, MoveKeeps
<1>2. CASE EnterGate(w)
  <2>1. WorkerMoves(w, "enter", "claim")
    BY <1>0, <1>2 DEF EnterGate, Acquire, WorkerMoves, AtGate, Holding
  <2>2. QED
    BY <2>1, MoveKeeps
<1>3. CASE FindBusy(w)
  <2>1. WorkerMoves(w, "claim", "enter")
    BY <1>0, <1>3 DEF FindBusy, Release, WorkerMoves, AtGate, Holding
  <2>2. QED
    BY <2>1, MoveKeeps
<1>4. CASE FindIdle(w)
  <2>1. WorkerMoves(w, "claim", "out")
    BY <1>0, <1>4 DEF FindIdle, Release, WorkerMoves, AtGate, Holding
  <2>2. QED
    BY <2>1, MoveKeeps
<1>5. CASE LeaveGate(w)
  <2>1. outcome[w] \in Outcomes
    BY <1>5 DEF LeaveGate, Goto, IInv, OutcomeReady
  <2>2. WorkerMoves(w, "leave", "publish")
    BY <1>0, <1>5, <2>1 DEF LeaveGate, Acquire, WorkerMoves, AtGate, Holding
  <2>3. QED
    BY <2>2, MoveKeeps
<1>6. ASSUME NEW result \in Outcomes, RunQuantum(w, result) PROVE IInv'
  <2>1. outcome' = [outcome EXCEPT ![w] = result]
    BY <1>6 DEF RunQuantum
  <2>2. WorkerMoves(w, "run", "leave")
    BY <1>0, <1>6, <2>1 DEF RunQuantum, WorkerMoves, AtGate, Holding
  <2>3. QED
    BY <2>2, MoveKeeps
<1>7. QED
  BY <1>1, <1>2, <1>3, <1>4, <1>5, <1>6

\* Workers that hold different contexts are no more than the contexts.
OneWorkerEach == \A v, w \in Workers : current[v] = current[w] /\ current[v] # 0 => v = w
CurrentTyped == current \in [Workers -> {0} \cup Contexts]
HoldersBounded == IsFiniteSet(Holders) /\ Cardinality(Holders) \in 0 .. ContextCapacity

\* Workers hold different contexts, so there are no more holders than contexts.
LEMMA HoldersFewerThanContexts == OneWorkerEach /\ CurrentTyped => HoldersBounded
<1> SUFFICES ASSUME OneWorkerEach, CurrentTyped PROVE HoldersBounded
  OBVIOUS
<1>1. IsFiniteSet(Holders) /\ Cardinality(Holders) \in Nat
  <2>1. Holders \in SUBSET Workers
    BY DEF Holders
  <2>2. IsFiniteSet(Holders)
    BY <2>1, ThreadAssumption, FS_Subset
  <2>3. QED
    BY <2>2, FS_CardinalityType
<1>2. IsFiniteSet(Contexts) /\ Cardinality(Contexts) = ContextCapacity
  <2>1. PICK n \in Nat : n = ContextCapacity
    BY CoreAssumption
  <2>2. IsFiniteSet(1 .. n) /\ Cardinality(1 .. n) = IF 1 > n THEN 0 ELSE n - 1 + 1
    BY FS_Interval
  <2>3. QED
    BY <2>1, <2>2 DEF Contexts
<1>3. CASE Cardinality(Contexts) < Cardinality(Holders)
  <2>1. PICK f \in [Holders -> Contexts] : \A w \in Holders : f[w] = current[w]
    <3>1. [w \in Holders |-> current[w]] \in [Holders -> Contexts]
      BY DEF Holders, CurrentTyped
    <3>2. QED
      BY <3>1
  <2>2. \E v, w \in Holders : v # w /\ f[v] = f[w]
    BY <1>1, <1>2, <1>3, <2>1, FS_PigeonHole
  <2>3. QED
    BY <2>1, <2>2 DEF Holders, OneWorkerEach
<1>4. QED
  BY <1>1, <1>2, <1>3, CoreAssumption DEF HoldersBounded

\* A claim takes the oldest context, which is Ready and nobody's.
LEMMA ClaimStep ==
  ASSUME IInv, NEW w \in Workers, Claim(w)
  PROVE  LET c == Head(ready) IN
         /\ c \in Contexts /\ states[c] = "Ready"
         /\ ready # << >> /\ ready' = Tail(ready)
         /\ queued' = [queued EXCEPT ![c] = FALSE]
         /\ states' = [states EXCEPT ![c] = "Running"]
         /\ runningCount' = runningCount + 1
         /\ current' = [current EXCEPT ![w] = c]
         /\ pc[w] = "claim" /\ pc' = [pc EXCEPT ![w] = "run"]
         /\ gate' = Free
         /\ UNCHANGED <<waitKinds, sleepUntil, contextCount, now, traced, outcome,
                        pendingVars, trapped>>
<1>1. ready # << >>
  BY DEF Claim
<1>2. Head(ready) \in Contexts /\ states[Head(ready)] = "Ready" /\ queued[Head(ready)]
  BY <1>1, IInvCore, OldestIsReady
<1>3. QED
  BY <1>1, <1>2 DEF Claim, Goto, Release

\* A claim moves one context from the queue to one worker.
LEMMA ClaimKeeps == ASSUME IInv, NEW w \in Workers, Claim(w) PROVE IInv'
<1> DEFINE c == Head(ready)
<1>1. /\ c \in Contexts /\ states[c] = "Ready"
      /\ ready # << >> /\ ready' = Tail(ready)
      /\ queued' = [queued EXCEPT ![c] = FALSE]
      /\ states' = [states EXCEPT ![c] = "Running"]
      /\ runningCount' = runningCount + 1
      /\ current' = [current EXCEPT ![w] = c]
      /\ pc[w] = "claim" /\ pc' = [pc EXCEPT ![w] = "run"]
      /\ gate' = Free
      /\ UNCHANGED <<waitKinds, sleepUntil, contextCount, now, traced, outcome,
                     pendingVars, trapped>>
  BY ClaimStep
<1> HIDE DEF c
<1>2. CoreInv'
  <2>1. traced' \in 0 .. TraceCapacity /\ CoreInv /\ c = Head(ready)
    BY <1>1, IInvCore DEF IInv, TypeOK, CoreTypeOK, c
  <2>2. QED
    BY <1>1, <2>1, ClaimKeepsCore
<1>3. /\ current \in [Workers -> {0} \cup Contexts] /\ current[w] = 0 /\ c # 0
      /\ states \in [Contexts -> ExecutionStates \cup {"Absent"}]
      /\ pc \in [Workers -> {"out", "enter", "claim", "run", "leave", "publish"}]
  BY <1>1 DEF IInv, TypeOK, CoreTypeOK, HeldContext, Contexts
<1>4. \A v \in Workers : current[v] # c
  BY <1>1 DEF IInv, ClaimedOnce
<1>5. current'[w] = c /\ \A v \in Workers : v # w => current'[v] = current[v]
  BY <1>1, <1>3
<1>6. OneWorkerEach' /\ CurrentTyped'
  BY <1>1, <1>3, <1>4, <1>5 DEF OneWorkerEach, CurrentTyped, IInv, ClaimedOnce
<1>7. HoldersBounded'
  BY <1>6, HoldersFewerThanContexts, PTL
<1>8. runningCount' = Cardinality(Holders')
  <2>1. Holders' = Holders \cup {w} /\ w \notin Holders
    BY <1>3, <1>5 DEF Holders
  <2>2. IsFiniteSet(Holders)
    <3>1. OneWorkerEach /\ CurrentTyped
      BY <1>3 DEF OneWorkerEach, CurrentTyped, IInv, ClaimedOnce
    <3>2. QED
      BY <3>1, HoldersFewerThanContexts DEF HoldersBounded
  <2>3. Cardinality(Holders \cup {w}) = Cardinality(Holders) + 1
    BY <2>1, <2>2, FS_AddElement
  <2>4. runningCount = Cardinality(Holders)
    BY DEF IInv, ClaimedOnce, Holders
  <2>5. QED
    BY <1>1, <2>1, <2>3, <2>4
<1>9. ClaimedOnce'
  <2>1. \A d \in Contexts : states'[d] = "Running" <=> \E v \in Workers : current'[v] = d
    <3>1. TAKE d \in Contexts
    <3>2. CASE d = c
      BY <1>1, <1>3, <1>5, <3>2
    <3>3. CASE d # c
      <4>1. states'[d] = states[d]
        BY <1>1, <3>3
      <4>2. (\E v \in Workers : current'[v] = d) <=> \E v \in Workers : current[v] = d
        BY <1>3, <1>5, <3>3, CoreAssumption DEF Contexts
      <4>3. QED
        BY <4>1, <4>2 DEF IInv, ClaimedOnce
    <3>4. QED
      BY <3>2, <3>3
  <2>2. QED
    BY <1>6, <1>8, <2>1 DEF ClaimedOnce, OneWorkerEach, Holders
<1>10. TypeOK'
  <2>1. runningCount' \in 0 .. ContextCapacity
    BY <1>7, <1>8 DEF HoldersBounded
  <2>2. pc' \in [Workers -> {"out", "enter", "claim", "run", "leave", "publish"}]
    BY <1>1, <1>3
  <2>3. QED
    BY <1>1, <1>2, <1>6, <2>1, <2>2
    DEF IInv, TypeOK, CoreInv, CurrentTyped, pendingVars
<1>11. GateAgreement'
  BY <1>1, <1>3, ThreadAssumption DEF IInv, GateAgreement
<1>12. HeldContext'
  BY <1>1, <1>3, <1>5 DEF IInv, HeldContext
<1>13. OutcomeReady' /\ SlotsReserved' /\ NeverTraps' /\ ToldIsPending'
  BY <1>1, <1>3 DEF IInv, OutcomeReady, SlotsReserved, NeverTraps, ToldIsPending, pendingVars
<1>14. NobodyPastDeadline'
  BY <1>1, <1>3 DEF IInv, NobodyPastDeadline, TraceFull
<1>15. QED
  BY <1>2, <1>9, <1>10, <1>11, <1>12, <1>13, <1>14 DEF IInv, CoreInv

\* The context a worker publishes, and where it goes.
Final(c, result) == IF WokenMeanwhile(c, result) THEN "Ready" ELSE result.state

\* What a publication does, once the trap is known to be out of reach.
LEMMA PublishStep ==
  ASSUME IInv, NEW w \in Workers, Publish(w)
  PROVE  LET c == current[w]
             result == outcome[w]
             final == Final(c, result)
         IN
         /\ c \in Contexts /\ states[c] = "Running" /\ result \in Outcomes
         /\ states' = [states EXCEPT ![c] = final]
         /\ final \in {"Ready"} \cup Blocked \cup Terminal
         /\ waitKinds' = [waitKinds EXCEPT ![c] =
                            IF WokenMeanwhile(c, result) THEN NoKind ELSE result.kind]
         /\ sleepUntil' = [sleepUntil EXCEPT ![c] =
                             IF WokenMeanwhile(c, result) THEN 0 ELSE result.deadline]
         /\ IF final = "Ready"
            THEN ready' = Append(ready, c) /\ queued' = [queued EXCEPT ![c] = TRUE]
            ELSE UNCHANGED <<ready, queued>>
         /\ Len(ready) < ReadyCapacity
         /\ pc[w] = "publish" /\ pc' = [pc EXCEPT ![w] = "enter"]
         /\ current' = [current EXCEPT ![w] = 0]
         /\ gate' = Free /\ runningCount' = runningCount - 1
         /\ UNCHANGED <<contextCount, now, traced, trapped>>
<1> DEFINE c == current[w]
           result == outcome[w]
           final == Final(c, result)
<1>1. pc[w] = "publish"
  BY DEF Publish, Goto
<1>2. c \in Contexts /\ states[c] = "Running" /\ result \in Outcomes
  BY <1>1 DEF IInv, TypeOK, HeldContext, OutcomeReady, ClaimedOnce
<1>3. final \in {"Ready"} \cup Blocked \cup Terminal
  BY <1>2, OutcomeFields DEF Final
<1>4. ~queued[c] /\ c \in Known
  BY <1>2, CoreAssumption
  DEF IInv, TypeOK, CoreTypeOK, QueueAgreement, TableFilled, Known, Contexts
<1>5. Len(ready) < ReadyCapacity
  <2>1. Len(ready) < contextCount
    BY <1>4, IInvCore, QueueLeavesRoom DEF QueueHasRoom
  <2>2. Len(ready) \in Nat
    BY LenProperties DEF IInv, TypeOK, CoreTypeOK
  <2>3. QED
    BY <2>1, <2>2, CoreAssumption DEF IInv, TypeOK, CoreTypeOK, SlotsReserved
<1>6. ~ReadyFull /\ ~\E i \in 1 .. Len(ready) : ready[i] = c
  <2>1. Len(ready) \in Nat
    BY LenProperties DEF IInv, TypeOK, CoreTypeOK
  <2>2. QED
    BY <1>2, <1>4, <1>5, <2>1, CoreAssumption DEF ReadyFull, IInv, QueueAgreement
<1>7. IF final = "Ready"
      THEN ready' = Append(ready, c) /\ queued' = [queued EXCEPT ![c] = TRUE] /\ UNCHANGED trapped
      ELSE UNCHANGED <<ready, queued, trapped>>
  BY <1>6 DEF Publish, RequeueOrTrap, Final
<1>8. QED
  BY <1>1, <1>2, <1>3, <1>5, <1>7 DEF Publish, Goto, Release, Final

\* A publication gives the context back and queues it if it is Ready.
LEMMA PublishKeeps == ASSUME IInv, NEW w \in Workers, Publish(w) PROVE IInv'
<1> DEFINE c == current[w]
           result == outcome[w]
           final == Final(c, result)
<1>1. /\ c \in Contexts /\ states[c] = "Running" /\ result \in Outcomes
      /\ states' = [states EXCEPT ![c] = final]
      /\ final \in {"Ready"} \cup Blocked \cup Terminal
      /\ waitKinds' = [waitKinds EXCEPT ![c] =
                         IF WokenMeanwhile(c, result) THEN NoKind ELSE result.kind]
      /\ sleepUntil' = [sleepUntil EXCEPT ![c] =
                          IF WokenMeanwhile(c, result) THEN 0 ELSE result.deadline]
      /\ IF final = "Ready"
         THEN ready' = Append(ready, c) /\ queued' = [queued EXCEPT ![c] = TRUE]
         ELSE UNCHANGED <<ready, queued>>
      /\ Len(ready) < ReadyCapacity
      /\ pc[w] = "publish" /\ pc' = [pc EXCEPT ![w] = "enter"]
      /\ current' = [current EXCEPT ![w] = 0]
      /\ gate' = Free /\ runningCount' = runningCount - 1
      /\ UNCHANGED <<contextCount, now, traced, trapped>>
  BY PublishStep
<1>2. /\ pendingWake' = [pendingWake EXCEPT ![c] = FALSE]
      /\ pendingEvent' = [pendingEvent EXCEPT ![c] = NoKind]
      /\ told' = [told EXCEPT ![c] = {}]
      /\ outcome' = [outcome EXCEPT ![w] = NoOutcome]
  BY DEF Publish
<1>3. /\ result.kind \in Kinds \cup {NoKind} /\ result.deadline \in Times /\ 0 \in Times
  BY <1>1, OutcomeFields, CoreAssumption DEF Times
<1>4. /\ current \in [Workers -> {0} \cup Contexts]
      /\ states \in [Contexts -> ExecutionStates \cup {"Absent"}]
      /\ pc \in [Workers -> {"out", "enter", "claim", "run", "leave", "publish"}]
      /\ outcome \in [Workers -> Outcomes \cup {NoOutcome}]
      /\ sleepUntil \in [Contexts -> Times]
      /\ c # 0 /\ current[w] = c
  BY <1>1, CoreAssumption DEF IInv, TypeOK, CoreTypeOK, Contexts
<1>5. \A v \in Workers : v # w => current[v] # c
  BY <1>4 DEF IInv, ClaimedOnce
<1>6. NobodyPastDeadline'
  <2>1. SUFFICES ASSUME ~TraceFull, NEW d \in Contexts, states'[d] = "Sleeping"
                 PROVE  now < sleepUntil'[d]
    BY <1>1 DEF NobodyPastDeadline, TraceFull
  <2>2. CASE d # c
    BY <1>1, <1>4, <2>1, <2>2 DEF IInv, NobodyPastDeadline
  <2>3. CASE d = c
    <3>1. final = "Sleeping" /\ ~WokenMeanwhile(c, result)
      BY <1>1, <1>4, <2>1, <2>3 DEF Final
    <3>2. result.state = "Sleeping" /\ ~(now >= result.deadline)
      BY <3>1 DEF Final, WokenMeanwhile
    <3>3. sleepUntil'[c] = result.deadline
      BY <1>1, <1>4, <3>1
    <3>4. now \in Int /\ result.deadline \in Int
      BY <1>3, CoreAssumption DEF IInv, TypeOK, CoreTypeOK, Times
    <3>5. QED
      BY <2>3, <3>2, <3>3, <3>4
  <2>4. QED
    BY <2>2, <2>3
<1>7. /\ waitKinds' \in [Contexts -> Kinds \cup {NoKind}]
      /\ sleepUntil' \in [Contexts -> Times]
  BY <1>1, <1>3, <1>4 DEF IInv, TypeOK, CoreTypeOK
<1> HIDE DEF c, result, final
<1>8. CoreInv'
  <2>1. QuantumFields(c, final)
    BY <1>1, <1>7 DEF QuantumFields, IInv, TypeOK, CoreTypeOK
  <2>2. CASE final = "Ready"
    BY <1>1, <2>1, <2>2, IInvCore, RequeueKeepsCore
  <2>3. CASE final # "Ready"
    BY <1>1, <2>1, <2>3, IInvCore, StopKeepsCore
  <2>4. QED
    BY <2>2, <2>3
<1>9. current'[w] = 0 /\ \A v \in Workers : v # w => current'[v] = current[v]
  BY <1>1, <1>4
<1>10. OneWorkerEach' /\ CurrentTyped'
  BY <1>1, <1>4, <1>9 DEF OneWorkerEach, CurrentTyped, IInv, ClaimedOnce
<1>11. HoldersBounded'
  BY <1>10, HoldersFewerThanContexts, PTL
<1>12. runningCount' = Cardinality(Holders')
  <2>1. Holders' = Holders \ {w} /\ w \in Holders
    BY <1>4, <1>9 DEF Holders
  <2>2. HoldersBounded
    <3>1. OneWorkerEach /\ CurrentTyped
      BY <1>4 DEF OneWorkerEach, CurrentTyped, IInv, ClaimedOnce
    <3>2. QED
      BY <3>1, HoldersFewerThanContexts
  <2>3. Cardinality(Holders \ {w}) = Cardinality(Holders) - 1
    BY <2>1, <2>2, FS_RemoveElement DEF HoldersBounded
  <2>4. runningCount = Cardinality(Holders)
    BY DEF IInv, ClaimedOnce, Holders
  <2>5. QED
    BY <1>1, <2>1, <2>3, <2>4
<1>13. ClaimedOnce'
  <2>1. \A d \in Contexts : states'[d] = "Running" <=> \E v \in Workers : current'[v] = d
    <3>1. TAKE d \in Contexts
    <3>2. CASE d = c
      <4>1. states'[c] # "Running"
        BY <1>1, <1>4 DEF Blocked, Terminal
      <4>2. \A v \in Workers : current'[v] # c
        BY <1>4, <1>5, <1>9
      <4>3. QED
        BY <3>2, <4>1, <4>2
    <3>3. CASE d # c
      <4>1. states'[d] = states[d]
        BY <1>1, <3>3
      <4>2. d # 0
        BY CoreAssumption DEF Contexts
      <4>3. (\E v \in Workers : current'[v] = d) <=> \E v \in Workers : current[v] = d
        BY <1>4, <1>9, <3>3, <4>2
      <4>4. QED
        BY <4>1, <4>3 DEF IInv, ClaimedOnce
    <3>4. QED
      BY <3>2, <3>3
  <2>2. QED
    BY <1>10, <1>12, <2>1 DEF ClaimedOnce, OneWorkerEach, Holders
<1>14. TypeOK'
  <2>1. runningCount' \in 0 .. ContextCapacity
    BY <1>11, <1>12 DEF HoldersBounded
  <2>2. /\ pc' \in [Workers -> {"out", "enter", "claim", "run", "leave", "publish"}]
        /\ outcome' \in [Workers -> Outcomes \cup {NoOutcome}]
    BY <1>1, <1>2, <1>4
  <2>3. /\ pendingWake' \in [Contexts -> BOOLEAN]
        /\ pendingEvent' \in [Contexts -> Kinds \cup {NoKind}]
        /\ told' \in [Contexts -> SUBSET (Kinds \cup {NoKind})]
    BY <1>2 DEF IInv, TypeOK
  <2>4. QED
    BY <1>1, <1>8, <1>10, <2>1, <2>2, <2>3 DEF IInv, TypeOK, CoreInv, CurrentTyped
<1>15. GateAgreement'
  BY <1>1, <1>4, ThreadAssumption DEF IInv, GateAgreement
<1>16. HeldContext' /\ OutcomeReady'
  BY <1>1, <1>2, <1>4, <1>9 DEF IInv, HeldContext, OutcomeReady
<1>17. SlotsReserved' /\ NeverTraps'
  BY <1>1 DEF IInv, SlotsReserved, NeverTraps
<1>18. ToldIsPending'
  BY <1>1, <1>2 DEF IInv, TypeOK, ToldIsPending
<1>19. QED
  BY <1>6, <1>8, <1>13, <1>14, <1>15, <1>16, <1>17, <1>18 DEF IInv, CoreInv

\* Every step keeps the invariant.
LEMMA NextIInv == IInv /\ [Next]_vars => IInv'
<1> SUFFICES ASSUME IInv, [Next]_vars PROVE IInv'
  OBVIOUS
<1>1. ASSUME NEW h \in Hosts, HostStep(h) PROVE IInv'
  BY <1>1, HostAcquireKeeps, RegisterKeeps, WakeKeeps, NotifyEventKeeps, WakeExpiredKeeps,
     AdvanceTimeKeeps DEF HostStep
<1>2. ASSUME NEW w \in Workers, StartWorker(w) \/ WorkerStep(w) PROVE IInv'
  BY <1>2, MovesKeep, ClaimKeeps, PublishKeeps DEF WorkerStep
<1>3. CASE UNCHANGED vars
  <2>1. CoreInv'
    BY <1>3, IInvCore, StutterKeepsCore DEF vars
  <2>2. QED
    BY <1>3, <2>1 DEF vars, coreVars, workerVars, pendingVars, IInv, TypeOK, CoreInv,
       SlotsReserved, GateAgreement, HeldContext, OutcomeReady, ClaimedOnce, NeverTraps,
       ToldIsPending, NobodyPastDeadline, TraceFull
<1>4. QED
  BY <1>1, <1>2, <1>3 DEF Next

\* The inductive invariant of RunOne, RunWorker and the host calls holds in every reachable
\* state.
THEOREM AlwaysIInv == Spec => []IInv
<1>1. QED
  BY InitIInv, NextIInv, PTL DEF Spec

-----------------------------------------------------------------------------
(* The theorems.                                                            *)

\* The fields keep their types: counters stay within their capacities, whatever is called.
THEOREM AlwaysTyped == Spec => []TypeOK
<1>1. IInv => TypeOK
  BY DEF IInv
<1>2. QED
  BY <1>1, AlwaysIInv, PTL

\* Queue, flags and lifecycle states agree, with any number of workers.
THEOREM AlwaysQueueAgreement == Spec => []QueueAgreement
<1>1. IInv => QueueAgreement
  BY DEF IInv
<1>2. QED
  BY <1>1, AlwaysIInv, PTL

\* No machine is ever stepped by two workers, and runningCount is exact.
THEOREM AlwaysClaimedOnce == Spec => []ClaimedOnce
<1>1. IInv => ClaimedOnce
  BY DEF IInv
<1>2. QED
  BY <1>1, AlwaysIInv, PTL

\* The Enqueue marked ! in RunOne cannot fail.
THEOREM AlwaysNeverTraps == Spec => []NeverTraps
<1>1. IInv => NeverTraps
  BY DEF IInv
<1>2. QED
  BY <1>1, AlwaysIInv, PTL

\* No context sleeps past its deadline while the core trace has room.
THEOREM AlwaysNobodyOversleeps == Spec => []NobodyOversleeps
<1>1. IInv => NobodyOversleeps
  BY DEF IInv, NobodyPastDeadline, NobodyOversleeps
<1>2. QED
  BY <1>1, AlwaysIInv, PTL

-----------------------------------------------------------------------------
(***************************************************************************)
(* What a step may never do: lose a notification, send a worker home while  *)
(* a context is left to run, or leave the context lifecycle.  Each proof    *)
(* finds the one action that can take the step and uses IInv in the state   *)
(* before it.                                                               *)
(***************************************************************************)
\* Which action moves a worker that is about to publish, or that has the gate to claim.
LEMMA WhoMovesWorker ==
  ASSUME IInv, Next, NEW w \in Workers, pc'[w] # pc[w]
  PROVE  /\ pc[w] = "publish" => Publish(w)
         /\ pc[w] = "claim" /\ pc'[w] = "out" => FindIdle(w)
<1>1. pc \in [Workers -> {"out", "enter", "claim", "run", "leave", "publish"}]
  BY DEF IInv, TypeOK
<1>2. ASSUME NEW h \in Hosts, HostStep(h) PROVE FALSE
  <2>1. UNCHANGED pc
    BY <1>2 DEF HostStep, HostAcquire, Register, Wake, NotifyEvent, WakeExpired, AdvanceTime,
       InHost, workerVars
  <2>2. QED
    BY <2>1
<1>3. PICK v \in Workers : StartWorker(v) \/ WorkerStep(v)
  BY <1>2 DEF Next
<1>4. \A u \in Workers : u # v => pc'[u] = pc[u]
  <2>1. CASE Claim(v)
    BY <1>1, <2>1, ClaimStep
  <2>2. CASE ~Claim(v)
    BY <1>1, <1>3, <2>2 DEF StartWorker, WorkerStep, EnterGate, FindBusy, FindIdle,
       RunQuantum, LeaveGate, Publish, Goto
  <2>3. QED
    BY <2>1, <2>2
<1>5. v = w
  BY <1>4
<1>6. ASSUME Claim(w) PROVE pc[w] = "claim" /\ pc'[w] = "run"
  BY <1>1, <1>6, ClaimStep
<1>7. QED
  BY <1>1, <1>3, <1>5, <1>6 DEF StartWorker, WorkerStep, EnterGate, FindBusy, RunQuantum,
     LeaveGate, Publish, FindIdle, Goto

\* What a publication does to a notification accepted during the quantum.
LEMMA PublishKeepsNotifications ==
  ASSUME IInv, NEW w \in Workers, Publish(w)
  PROVE  LET c == current[w] IN
         /\ states'[c] \in Blocked => NoKind \notin told[c]
         /\ states'[c] = "Waiting" => waitKinds'[c] \notin told[c]
<1> DEFINE c == current[w]
           result == outcome[w]
<1>1. /\ c \in Contexts
      /\ states' = [states EXCEPT ![c] = Final(c, result)]
      /\ waitKinds' = [waitKinds EXCEPT ![c] =
                         IF WokenMeanwhile(c, result) THEN NoKind ELSE result.kind]
  BY PublishStep
<1>2. states'[c] = Final(c, result)
  BY <1>1 DEF IInv, TypeOK, CoreTypeOK
<1>3. /\ NoKind \in told[c] => pendingWake[c]
      /\ \A k \in told[c] : k # NoKind => pendingEvent[c] = k
  BY <1>1 DEF IInv, ToldIsPending
<1>4. ASSUME states'[c] \in Blocked
      PROVE  ~WokenMeanwhile(c, result) /\ result.state = states'[c]
  BY <1>2, <1>4 DEF Final, Blocked
<1>5. ASSUME states'[c] \in Blocked PROVE NoKind \notin told[c]
  BY <1>3, <1>4, <1>5 DEF WokenMeanwhile
<1>6. ASSUME states'[c] = "Waiting" PROVE waitKinds'[c] \notin told[c]
  <2>1. states'[c] \in Blocked
    BY <1>6 DEF Blocked
  <2>2. ~WokenMeanwhile(c, result) /\ result.state = "Waiting"
    BY <1>4, <1>6, <2>1
  <2>3. waitKinds'[c] = result.kind
    BY <1>1, <2>2 DEF IInv, TypeOK, CoreTypeOK
  <2>4. pendingEvent[c] # result.kind
    BY <2>2 DEF WokenMeanwhile
  <2>5. QED
    BY <1>3, <1>5, <2>1, <2>3, <2>4
<1>7. QED
  BY <1>5, <1>6

\* No wake or event accepted during a quantum is lost when the quantum is published: the
\* marks remember all of them, because a second kind is refused while one is remembered.
THEOREM NotificationsAreKept == Spec => NoLostNotification
<1> DEFINE Kept(w) ==
      pc[w] = "publish" /\ pc'[w] # "publish" =>
        LET c == current[w] IN
        /\ states'[c] \in Blocked => NoKind \notin told[c]
        /\ states'[c] = "Waiting" => waitKinds'[c] \notin told[c]
<1>1. IInv /\ [Next]_vars => [\A w \in Workers : Kept(w)]_vars
  <2> SUFFICES ASSUME IInv, Next, NEW w \in Workers, pc[w] = "publish", pc'[w] # "publish"
               PROVE  LET c == current[w] IN
                      /\ states'[c] \in Blocked => NoKind \notin told[c]
                      /\ states'[c] = "Waiting" => waitKinds'[c] \notin told[c]
    OBVIOUS
  <2>1. Publish(w)
    BY WhoMovesWorker
  <2>2. QED
    BY <2>1, PublishKeepsNotifications
<1>2. QED
  BY <1>1, AlwaysIInv, PTL DEF Spec, NoLostNotification

\* With the queue empty and nobody holding a context, nothing is Ready or Running.
LEMMA IdleStates ==
  ASSUME IInv, ready = << >>, NobodyRuns
  PROVE  \A c \in Contexts : states[c] \notin {"Ready", "Running"}
<1>1. \A c \in Contexts : states[c] # "Ready"
  BY DEF IInv, QueueAgreement
<1>2. HoldersBounded
  <2>1. OneWorkerEach /\ CurrentTyped
    BY DEF OneWorkerEach, CurrentTyped, IInv, ClaimedOnce, TypeOK
  <2>2. QED
    BY <2>1, HoldersFewerThanContexts
<1>3. Cardinality(Holders) = 0
  BY <1>2, CoreAssumption DEF IInv, ClaimedOnce, Holders, NobodyRuns, TypeOK, HoldersBounded
<1>4. Holders = {}
  BY <1>2, <1>3, FS_EmptySet DEF HoldersBounded
<1>5. \A c \in Contexts : states[c] # "Running"
  BY <1>4, CoreAssumption DEF Holders, IInv, ClaimedOnce, Contexts
<1>6. QED
  BY <1>1, <1>5

\* RunWorker returns only when no context is Ready or Running, with any number of workers.
THEOREM WorkersStay == Spec => WorkersLeaveOnlyWhenIdle
<1>1. IInv /\ [Next]_vars =>
        [\A w \in Workers : pc[w] = "claim" /\ pc'[w] = "out" =>
           \A c \in Contexts : states[c] \notin {"Ready", "Running"}]_vars
  <2> SUFFICES ASSUME IInv, Next, NEW w \in Workers, pc[w] = "claim", pc'[w] = "out"
               PROVE  \A c \in Contexts : states[c] \notin {"Ready", "Running"}
    OBVIOUS
  <2>1. FindIdle(w)
    BY WhoMovesWorker
  <2>2. ready = << >> /\ NobodyRuns
    BY <2>1 DEF FindIdle
  <2>3. QED
    BY <2>2, IdleStates
<1>2. QED
  BY <1>1, AlwaysIInv, PTL DEF Spec, WorkersLeaveOnlyWhenIdle

-----------------------------------------------------------------------------
(* The scheduler implements ContextLifecycle.                               *)

\* A scan is a wake of the contexts it made Ready.
LEMMA ScanIsWakeSome ==
  ASSUME IInv, NEW set, NEW status, ScanResult(set, status), UNCHANGED current
  PROVE  Lifecycle!WakeSome
<1>1. PICK woken \in Seq(Contexts) : Wakeable(woken) /\ MakeAllReady(woken)
  BY DEF ScanResult
<1>2. Range(woken) = {woken[i] : i \in 1 .. Len(woken)}
  BY <1>1, RangeEquality
<1>3. Range(woken) \in SUBSET {c \in Contexts : states[c] \in Lifecycle!Blocked}
  BY <1>1, <1>2, ElementOfSeq DEF Wakeable, Blocked, Lifecycle!Blocked
<1>4. states' = [c \in Contexts |-> IF c \in Range(woken) THEN "Ready" ELSE states[c]]
  BY <1>1 DEF MakeAllReady
<1>5. QED
  BY <1>3, <1>4 DEF Lifecycle!WakeSome

\* A host step admits a context, wakes some, or leaves the lifecycle alone.
LEMMA HostStepRefines ==
  ASSUME IInv, NEW h \in Hosts, HostStep(h)
  PROVE  [Lifecycle!Next]_(Lifecycle!vars)
<1>1. UNCHANGED current
  BY DEF HostStep, HostAcquire, Register, Wake, NotifyEvent, WakeExpired, AdvanceTime,
     InHost, workerVars
<1>2. CASE UNCHANGED states
  BY <1>1, <1>2 DEF Lifecycle!vars
<1>3. ASSUME NEW set, NEW status, ScanResult(set, status) PROVE Lifecycle!Next
  BY <1>1, <1>3, ScanIsWakeSome DEF Lifecycle!Next
<1>4. CASE HostAcquire(h)
  BY <1>2, <1>4 DEF HostAcquire, coreVars
<1>5. CASE Register(h)
  <2>1. CASE ~UNCHANGED states
    <3>1. states' = [states EXCEPT ![contextCount + 1] = "Ready"] /\ RegisterStatus = "Ok"
      BY <1>5, <2>1 DEF Register, CoreRegister, coreVars
    <3>2. contextCount + 1 \in Contexts
      BY <3>1, CoreAssumption DEF RegisterStatus, IInv, TypeOK, CoreTypeOK, Contexts
    <3>3. states[contextCount + 1] = "Absent"
      BY <3>2, CoreAssumption DEF IInv, TypeOK, CoreTypeOK, TableFilled, Contexts
    <3>4. Lifecycle!Admit(contextCount + 1)
      BY <1>1, <3>1, <3>3 DEF Lifecycle!Admit
    <3>5. QED
      BY <3>2, <3>4 DEF Lifecycle!Next
  <2>2. QED
    BY <1>2, <2>1
<1>6. ASSUME NEW c \in 1 .. ContextCapacity + 1, Wake(h, c)
      PROVE  [Lifecycle!Next]_(Lifecycle!vars)
  <2>1. CASE CoreWake(c, WakeStatus(c)) /\ WakeStatus(c) = "Ok"
    <3>1. c \in Contexts /\ states[c] \in Blocked
      BY <2>1, CoreAssumption
      DEF WakeStatus, IInv, TypeOK, CoreTypeOK, Known, Contexts
    <3>2. <<c>> \in Seq(Contexts) /\ Len(<<c>>) = 1 /\ <<c>>[1] = c
      BY <3>1
    <3>3. Range(<<c>>) = {c}
      <4>1. Range(<<c>>) = {<<c>>[i] : i \in 1 .. Len(<<c>>)}
        BY <3>2, RangeEquality
      <4>2. QED
        BY <3>2, <4>1
    <3>4. states' = [d \in Contexts |-> IF d \in {c} THEN "Ready" ELSE states[d]]
      BY <2>1, <3>3 DEF CoreWake, MakeAllReady
    <3>5. {c} \in SUBSET {d \in Contexts : states[d] \in Lifecycle!Blocked}
      BY <3>1 DEF Blocked, Lifecycle!Blocked
    <3>6. Lifecycle!WakeSome
      BY <1>1, <3>4, <3>5 DEF Lifecycle!WakeSome
    <3>7. QED
      BY <3>6 DEF Lifecycle!Next
  <2>2. QED
    BY <1>2, <1>6, <2>1 DEF Wake, CoreWake, coreVars
<1>7. ASSUME NEW kind \in Kinds, NotifyEvent(h, kind) PROVE [Lifecycle!Next]_(Lifecycle!vars)
  <2>1. CASE UNCHANGED coreVars
    BY <1>2, <2>1 DEF coreVars
  <2>2. ASSUME NEW status \in ScanStatuses, CoreNotifyEvent(kind, status)
        PROVE  Lifecycle!Next
    BY <1>3, <2>2, WaitingAreBlocked, ScanWakesMatches, IInvCore DEF CoreNotifyEvent
  <2>3. QED
    BY <1>7, <2>1, <2>2 DEF NotifyEvent
<1>8. CASE WakeExpired(h)
  <2>1. PICK status \in ScanStatuses : CoreWakeExpired(status)
    BY <1>8 DEF WakeExpired
  <2>2. QED
    BY <1>3, <2>1, ExpiredAreBlocked, ScanWakesMatches, IInvCore DEF CoreWakeExpired
<1>9. ASSUME NEW time \in Times, AdvanceTime(h, time) PROVE [Lifecycle!Next]_(Lifecycle!vars)
  <2>1. PICK status \in ScanStatuses : WakeEach(ExpiredAt(time), status)
    BY <1>9 DEF AdvanceTime
  <2>2. QED
    BY <1>3, <2>1, ExpiredAreBlocked, ScanWakesMatches, IInvCore
<1>10. QED
  BY <1>4, <1>5, <1>6, <1>7, <1>8, <1>9 DEF HostStep

\* A worker step takes a context, gives one back, or leaves the lifecycle alone.
LEMMA WorkerStepRefines ==
  ASSUME IInv, NEW w \in Workers, StartWorker(w) \/ WorkerStep(w)
  PROVE  [Lifecycle!Next]_(Lifecycle!vars)
<1>1. CASE Claim(w)
  <2> DEFINE c == Head(ready)
  <2>1. /\ c \in Contexts /\ states[c] = "Ready" /\ pc[w] = "claim"
        /\ states' = [states EXCEPT ![c] = "Running"]
        /\ current' = [current EXCEPT ![w] = c]
    BY <1>1, ClaimStep
  <2>2. current[w] = 0
    BY <2>1 DEF IInv, HeldContext
  <2> HIDE DEF c
  <2>3. Lifecycle!Take(w, c)
    BY <2>1, <2>2 DEF Lifecycle!Take
  <2>4. QED
    BY <2>1, <2>3 DEF Lifecycle!Next
<1>2. CASE Publish(w)
  <2> DEFINE c == current[w]
             final == Final(c, outcome[w])
  <2>1. /\ c \in Contexts /\ states[c] = "Running"
        /\ states' = [states EXCEPT ![c] = final]
        /\ final \in {"Ready"} \cup Blocked \cup Terminal
        /\ current' = [current EXCEPT ![w] = 0]
    BY <1>2, PublishStep
  <2>2. final \in Lifecycle!Released
    BY <2>1 DEF Blocked, Terminal, Lifecycle!Released, Lifecycle!Blocked
  <2>3. Lifecycle!Give(w, c, final)
    BY <2>1 DEF Lifecycle!Give
  <2> HIDE DEF c, final
  <2>4. QED
    BY <2>1, <2>2, <2>3 DEF Lifecycle!Next
<1>3. CASE ~Claim(w) /\ ~Publish(w)
  <2>1. UNCHANGED <<states, current>>
    BY <1>3 DEF StartWorker, WorkerStep, EnterGate, FindBusy, FindIdle, RunQuantum, LeaveGate,
       coreVars
  <2>2. QED
    BY <2>1 DEF Lifecycle!vars
<1>4. QED
  BY <1>1, <1>2, <1>3

\* With any number of workers, hosts and contexts and any capacities, what the host and the
\* workers do to contexts are steps of the lifecycle or change nothing of it.
THEOREM SchedulerImplementsLifecycle == Spec => ImplementsLifecycle
<1>1. Init => Lifecycle!Init
  BY DEF Init, CoreInit, Lifecycle!Init
<1>2. IInv /\ [Next]_vars => [Lifecycle!Next]_(Lifecycle!vars)
  <2> SUFFICES ASSUME IInv, [Next]_vars PROVE [Lifecycle!Next]_(Lifecycle!vars)
    OBVIOUS
  <2>1. CASE UNCHANGED vars
    BY <2>1 DEF vars, coreVars, workerVars, Lifecycle!vars
  <2>2. CASE Next
    BY <2>2, HostStepRefines, WorkerStepRefines DEF Next
  <2>3. QED
    BY <2>1, <2>2
<1>3. QED
  BY <1>1, <1>2, AlwaysIInv, PTL DEF Spec, ImplementsLifecycle, Lifecycle!Spec
=============================================================================
