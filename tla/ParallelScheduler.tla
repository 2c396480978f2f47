-------------------------- MODULE ParallelScheduler --------------------------
(***************************************************************************)
(* ParallelScheduler of libraries/DragonGod/Scheduling/Parallel.concept:    *)
(* worker threads in RunWorker and host threads in Register, Wake,          *)
(* NotifyEvent, WakeExpired and AdvanceTime share one FifoScheduler core    *)
(* under a spin lock.  Taking the gate is a step of its own; what a thread  *)
(* does while it holds the gate is one step that ends with the release,     *)
(* since everything it reads and writes is read and written under the gate  *)
(* only.  A machine is stepped outside the gate.                            *)
(*                                                                          *)
(* RunOne(w) visits pc: "enter" (spinning at 179), "claim" (180-209),       *)
(* "run" (211-226), "leave" (spinning at 228), "publish" (229-278); pc is   *)
(* "out" while w is not in RunWorker.  A host thread that holds the gate    *)
(* performs any one of its operations.  The postfix ! of the code traps on  *)
(* an error: `trapped` records that one did.  The worker trace is a ring    *)
(* nothing reads; it is left out, as is the step count of a quantum.        *)
(***************************************************************************)
EXTENDS SchedulerCore

CONSTANTS
  Workers,   \* threads that call RunWorker
  Hosts,     \* threads that call the other operations
  Free       \* holder of the gate when nobody holds it

ASSUME ThreadAssumption ==
  /\ IsFiniteSet(Workers)
  /\ Workers \cap Hosts = {}
  /\ Free \notin Workers \cup Hosts

VARIABLES
  gate,          \* holder of the spin lock
  pc,            \* where each worker is
  current,       \* worker.current: the context it claimed, 0 if none
  outcome,       \* how the quantum of each worker ended
  pendingWake,   \* a Wake arrived while the context was Running
  pendingEvent,  \* kind of the event that arrived while it was Running, or NoKind
  runningCount,  \* contexts being run
  trapped,       \* a call marked ! failed
  told           \* history: notifications accepted during the context's quantum;
                 \* NoKind stands for a Wake

workerVars == <<pc, current, outcome>>
pendingVars == <<pendingWake, pendingEvent, told>>
vars == <<coreVars, gate, workerVars, pendingVars, runningCount, trapped>>

NoOutcome == Outcome("None", NoKind, 0)

Init ==
  /\ CoreInit
  /\ gate = Free
  /\ pc = [w \in Workers |-> "out"]
  /\ current = [w \in Workers |-> 0]
  /\ outcome = [w \in Workers |-> NoOutcome]
  /\ pendingWake = [c \in Contexts |-> FALSE]
  /\ pendingEvent = [c \in Contexts |-> NoKind]
  /\ runningCount = 0
  /\ trapped = FALSE
  /\ told = [c \in Contexts |-> {}]

\* Acquire(ref gate): the exchange that succeeds.
Acquire(thread) == gate = Free /\ gate' = thread
Release == gate' = Free

-----------------------------------------------------------------------------
(* Host operations.                                                         *)

HostAcquire(h) ==
  /\ Acquire(h)
  /\ UNCHANGED <<coreVars, workerVars, pendingVars, runningCount, trapped>>

\* A host operation in progress; it leaves the workers alone and ends with the release.
InHost(h) ==
  /\ gate = h
  /\ Release
  /\ UNCHANGED <<workerVars, runningCount, trapped>>

\* Mutant: no queue slot is reserved for contexts that are running.
NoSlotReserved == FALSE

\* One ready slot per registered context is reserved, running or not (56-62).
AllSlotsReserved == contextCount >= ReadyCapacity

Register(h) ==
  /\ InHost(h)
  /\ IF AllSlotsReserved THEN UNCHANGED coreVars ELSE CoreRegister(RegisterStatus)
  /\ UNCHANGED pendingVars

\* Mutant: a Running context is made Ready at once instead of being marked.
WakeRunningNow(h, c) ==
  /\ InHost(h)
  /\ IF c \in Known /\ MakeReadyStatus(c, 0) = "Ok"
     THEN MakeAllReady(<<c>>) /\ UNCHANGED now
     ELSE UNCHANGED coreVars
  /\ UNCHANGED pendingVars

Wake(h, c) ==
  /\ InHost(h)
  /\ \/ /\ c \in Known
        /\ states[c] = "Running"
        /\ pendingWake' = [pendingWake EXCEPT ![c] = TRUE]
        /\ told' = [told EXCEPT ![c] = @ \cup {NoKind}]
        /\ UNCHANGED <<coreVars, pendingEvent>>
     \/ /\ c \in Known => states[c] # "Running"
        /\ CoreWake(c, WakeStatus(c))
        /\ UNCHANGED pendingVars

\* Mutant: a second event replaces the one already remembered.
NeverConflicts(kind) == FALSE

\* A Running context already remembers an event of another kind (101-107).
Conflicts(kind) ==
  \E c \in Known : states[c] = "Running" /\ pendingEvent[c] \notin {NoKind, kind}

NotifyEvent(h, kind) ==
  /\ InHost(h)
  /\ UNCHANGED pendingWake
  /\ \/ /\ Conflicts(kind)
        /\ UNCHANGED <<coreVars, pendingEvent, told>>
     \/ /\ ~Conflicts(kind)
        /\ \E status \in ScanStatuses :
             /\ CoreNotifyEvent(kind, status)
             /\ LET heard == {c \in Known : status = "Ok" /\ states[c] = "Running"}
                IN  /\ pendingEvent' =
                         [c \in Contexts |-> IF c \in heard THEN kind ELSE pendingEvent[c]]
                    /\ told' =
                         [c \in Contexts |-> IF c \in heard THEN told[c] \cup {kind} ELSE told[c]]

WakeExpired(h) ==
  /\ InHost(h)
  /\ \E status \in ScanStatuses : CoreWakeExpired(status)
  /\ UNCHANGED pendingVars

\* The clock is set before the scan, whatever the scan answers, to any value (171).
AdvanceTime(h, time) ==
  /\ InHost(h)
  /\ now' = time
  /\ \E status \in ScanStatuses : WakeEach(ExpiredAt(time), status)
  /\ UNCHANGED pendingVars

-----------------------------------------------------------------------------
(* Workers.                                                                 *)

Goto(w, from, to) == pc[w] = from /\ pc' = [pc EXCEPT ![w] = to]

\* The host calls RunWorker, again after it returned.
StartWorker(w) ==
  /\ Goto(w, "out", "enter")
  /\ UNCHANGED <<coreVars, gate, current, outcome, pendingVars, runningCount, trapped>>

EnterGate(w) ==
  /\ Goto(w, "enter", "claim")
  /\ Acquire(w)
  /\ UNCHANGED <<coreVars, current, outcome, pendingVars, runningCount, trapped>>

\* Mutant: a worker goes home on an empty queue while others still run.
NobodyRunsIgnored == TRUE

NobodyRuns == runningCount <= 0

\* Mutant: the Busy return forgets to release the gate.
FindBusyKeepsGate(w) ==
  /\ ready = << >>
  /\ ~NobodyRuns
  /\ Goto(w, "claim", "enter")
  /\ UNCHANGED <<coreVars, gate, current, outcome, pendingVars, runningCount, trapped>>

\* RunOne answers Busy and RunWorker calls it again.
FindBusy(w) ==
  /\ ready = << >>
  /\ ~NobodyRuns
  /\ Goto(w, "claim", "enter")
  /\ Release
  /\ UNCHANGED <<coreVars, current, outcome, pendingVars, runningCount, trapped>>

\* RunOne answers Idle and RunWorker returns.
FindIdle(w) ==
  /\ ready = << >>
  /\ NobodyRuns
  /\ Goto(w, "claim", "out")
  /\ Release
  /\ UNCHANGED <<coreVars, current, outcome, pendingVars, runningCount, trapped>>

\* The oldest id is taken; if its context is not Ready and flagged the worker returns
\* with InvalidState and the id is gone.
Claim(w) ==
  /\ ready # << >>
  /\ ready' = Tail(ready)
  /\ Release
  /\ LET c == Head(ready)
         valid == states[c] = "Ready" /\ queued[c]
     IN  /\ queued' = IF valid THEN [queued EXCEPT ![c] = FALSE] ELSE queued
         /\ states' = IF valid THEN [states EXCEPT ![c] = "Running"] ELSE states
         /\ runningCount' = IF valid THEN runningCount + 1 ELSE runningCount
         /\ current' = IF valid THEN [current EXCEPT ![w] = c] ELSE current
         /\ Goto(w, "claim", IF valid THEN "run" ELSE "out")
  /\ UNCHANGED <<waitKinds, sleepUntil, contextCount, now, traced, outcome,
                 pendingVars, trapped>>

RunQuantum(w, result) ==
  /\ Goto(w, "run", "leave")
  /\ outcome' = [outcome EXCEPT ![w] = result]
  /\ UNCHANGED <<coreVars, gate, current, pendingVars, runningCount, trapped>>

LeaveGate(w) ==
  /\ Goto(w, "leave", "publish")
  /\ Acquire(w)
  /\ UNCHANGED <<coreVars, current, outcome, pendingVars, runningCount, trapped>>

\* Mutant: the clock is not read again when the quantum ends.
WokenMeanwhileNoDeadline(c, result) ==
  \/ result.state = "Waiting" /\ pendingEvent[c] = result.kind
  \/ result.state \in Blocked /\ pendingWake[c]

\* A wake that arrived during the quantum, or a deadline already reached, turns Waiting or
\* Sleeping into Ready (247-262).
WokenMeanwhile(c, result) ==
  \/ result.state = "Waiting" /\ pendingEvent[c] = result.kind
  \/ result.state = "Sleeping" /\ now >= result.deadline
  \/ result.state \in Blocked /\ pendingWake[c]

\* Mutant: the context goes back to the head of the queue.
RequeueAtHead(c) ==
  /\ ready' = <<c>> \o ready
  /\ queued' = [queued EXCEPT ![c] = TRUE]
  /\ UNCHANGED trapped

\* ready.Enqueue(id)! with the queue's own tests.
RequeueOrTrap(c) ==
  IF ReadyFull \/ (\E i \in 1 .. Len(ready) : ready[i] = c)
  THEN trapped' = TRUE /\ UNCHANGED <<ready, queued>>
  ELSE /\ ready' = Append(ready, c)
       /\ queued' = [queued EXCEPT ![c] = TRUE]
       /\ UNCHANGED trapped

Publish(w) ==
  /\ Goto(w, "publish", "enter")
  /\ Release
  /\ LET c == current[w]
         result == outcome[w]
         woken == WokenMeanwhile(c, result)
         final == IF woken THEN "Ready" ELSE result.state
     IN  /\ states' = [states EXCEPT ![c] = final]
         /\ waitKinds' = [waitKinds EXCEPT ![c] = IF woken THEN NoKind ELSE result.kind]
         /\ sleepUntil' = [sleepUntil EXCEPT ![c] = IF woken THEN 0 ELSE result.deadline]
         /\ pendingWake' = [pendingWake EXCEPT ![c] = FALSE]
         /\ pendingEvent' = [pendingEvent EXCEPT ![c] = NoKind]
         /\ told' = [told EXCEPT ![c] = {}]
         /\ IF final = "Ready"
            THEN RequeueOrTrap(c)
            ELSE UNCHANGED <<ready, queued, trapped>>
  /\ runningCount' = runningCount - 1
  /\ current' = [current EXCEPT ![w] = 0]
  /\ outcome' = [outcome EXCEPT ![w] = NoOutcome]
  /\ UNCHANGED <<contextCount, now, traced>>

HostStep(h) ==
  \/ HostAcquire(h)
  \/ Register(h)
  \/ \E c \in 1 .. ContextCapacity + 1 : Wake(h, c)
  \/ \E kind \in Kinds : NotifyEvent(h, kind)
  \/ WakeExpired(h)
  \/ \E time \in Times : AdvanceTime(h, time)

\* A worker inside RunWorker.
WorkerStep(w) ==
  \/ EnterGate(w)
  \/ FindBusy(w)
  \/ FindIdle(w)
  \/ Claim(w)
  \/ \E result \in Outcomes : RunQuantum(w, result)
  \/ LeaveGate(w)
  \/ Publish(w)

Next ==
  \/ \E h \in Hosts : HostStep(h)
  \/ \E w \in Workers : StartWorker(w) \/ WorkerStep(w)

Spec == Init /\ [][Next]_vars

-----------------------------------------------------------------------------
(* Fairness.  A thread runs on when it can, and its exchange on the gate    *)
(* succeeds at last if the gate is free again and again.  Nothing makes the *)
(* host call anything.                                                      *)

WorkerFairness ==
  \A w \in Workers :
    /\ SF_vars(EnterGate(w))
    /\ SF_vars(LeaveGate(w))
    /\ WF_vars(FindBusy(w) \/ FindIdle(w) \/ Claim(w) \/ Publish(w))
    /\ WF_vars(\E result \in Outcomes : RunQuantum(w, result))

\* A host thread that took the gate gives it back.
HostFairness ==
  \A h \in Hosts : WF_vars(gate = h /\ HostStep(h))

FairSpec == Spec /\ WorkerFairness /\ HostFairness

\* The host also keeps waking every context.
WakingSpec ==
  /\ FairSpec
  /\ \A h \in Hosts, c \in Contexts : SF_vars(HostAcquire(h)) /\ SF_vars(Wake(h, c))

-----------------------------------------------------------------------------
(* Properties.                                                              *)

\* Types of the scheduler's fields and of the threads' positions.
TypeOK ==
  /\ CoreTypeOK
  /\ gate \in {Free} \cup Workers \cup Hosts
  /\ pc \in [Workers -> {"out", "enter", "claim", "run", "leave", "publish"}]
  /\ current \in [Workers -> {0} \cup Contexts]
  /\ outcome \in [Workers -> Outcomes \cup {NoOutcome}]
  /\ pendingWake \in [Contexts -> BOOLEAN]
  /\ pendingEvent \in [Contexts -> Kinds \cup {NoKind}]
  /\ runningCount \in 0 .. ContextCapacity
  /\ trapped \in BOOLEAN
  /\ told \in [Contexts -> SUBSET (Kinds \cup {NoKind})]

\* A machine is stepped by one worker at a time: every Running context is claimed by
\* exactly one worker, no other context is claimed, and runningCount counts them.
\* Steps run outside the gate, so this is all that keeps two threads off one machine.
ClaimedOnce ==
  /\ \A c \in Contexts : states[c] = "Running" <=> \E w \in Workers : current[w] = c
  /\ \A v, w \in Workers : current[v] = current[w] /\ current[v] # 0 => v = w
  /\ runningCount = Cardinality({w \in Workers : current[w] # 0})

\* No call marked ! ever fails: the slot Register reserved is still there when a worker
\* publishes, whatever was woken or registered during the quantum.
NeverTraps == ~trapped

\* A wake or event accepted during a quantum is not lost: the context does not stay
\* Waiting for a kind, or blocked after a Wake, that was accepted since it was claimed.
NoLostNotification ==
  [][\A w \in Workers : pc[w] = "publish" /\ pc'[w] # "publish" =>
        LET c == current[w] IN
        /\ states'[c] \in Blocked => NoKind \notin told[c]
        /\ states'[c] = "Waiting" => waitKinds'[c] \notin told[c]]_vars

\* A deadline is not missed: with the gate free, a context sleeps past its deadline only
\* if the core trace is full and MakeReady refuses every wake.
NobodyOversleeps ==
  gate = Free /\ ~TraceFull =>
    \A c \in Contexts : states[c] = "Sleeping" => now < sleepUntil[c]

\* RunWorker returns only when no context is Ready or Running; otherwise a context could
\* be left with nobody to run it although the host had started enough workers.
WorkersLeaveOnlyWhenIdle ==
  [][\A w \in Workers : pc[w] = "claim" /\ pc'[w] = "out" =>
        \A c \in Contexts : states[c] \notin {"Ready", "Running"}]_vars

Lifecycle == INSTANCE ContextLifecycle WITH
  Nobody <- 0, state <- states, holding <- current

\* Queue, gate, flags and trace together implement the context lifecycle.
ImplementsLifecycle == Lifecycle!Spec

\* A Ready context runs, as long as one worker is inside RunWorker: no worker has to be
\* restarted for it, and FIFO order lets no other context overtake it for ever.
ReadyContextsRun ==
  \A c \in Contexts :
    (states[c] = "Ready" /\ \E w \in Workers : pc[w] # "out") ~> states[c] = "Running"

\* A claimed context is published: its worker gets the gate back, past all others.
QuantaArePublished ==
  \A c \in Contexts : states[c] = "Running" ~> states[c] # "Running"

\* What docs/library/DRAGONGOD-WORKERS.md says of wakes: a Waiting context that the host
\* keeps waking does not stay Waiting.
WaitingContextsCanBeWoken ==
  \A c \in Contexts : states[c] = "Waiting" ~> states[c] # "Waiting"
=============================================================================
