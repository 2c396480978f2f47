---------------------------- MODULE FifoScheduler ----------------------------
(***************************************************************************)
(* FifoScheduler of libraries/DragonGod/Scheduling/Fifo.concept, driven by  *)
(* one host: registration, wakes, clock changes, single decisions           *)
(* (ScheduleOne) and bounded runs (RunUntilIdle).                           *)
(*                                                                          *)
(* A call of ScheduleOne takes three steps, which no other call can come    *)
(* between: the trace check and WakeExpired, the selection of the oldest    *)
(* context, and its quantum.  A machine is the outcome its quantum ends     *)
(* with: "Ready" when each of the stepQuantum steps asked to continue,      *)
(* otherwise the first other disposition.  The configured quantum is        *)
(* positive; with any other value Register and ScheduleOne refuse every     *)
(* call (InvalidQuantum) and nothing ever happens.                          *)
(***************************************************************************)
EXTENDS SchedulerCore

CONSTANT MaxDecisions   \* bound on the argument of RunUntilIdle

ASSUME BudgetAssumption == MaxDecisions \in Nat

VARIABLES
  phase,    \* "rest", "loop" (in RunUntilIdle), or a step of ScheduleOne
  current,  \* the context selected by the decision in progress, 0 if none
  budget,   \* decisions left to the RunUntilIdle call in progress, or NoCall
  reply,    \* the operation that returned last and its status
  passed    \* history: decisions taken for others since a context was queued

vars == <<coreVars, phase, current, budget, reply, passed>>

NoCall == -1

Reply(op, status) == [op |-> op, status |-> status]

Init ==
  /\ CoreInit
  /\ phase = "rest"
  /\ current = 0
  /\ budget = NoCall
  /\ reply = Reply("None", "Ok")
  /\ passed = [c \in Contexts |-> 0]

-----------------------------------------------------------------------------
(* Host calls that take one step.                                           *)

HostCall(op, status) ==
  /\ phase = "rest"
  /\ reply' = Reply(op, status)
  /\ UNCHANGED <<phase, current, budget, passed>>

Register == CoreRegister(RegisterStatus) /\ HostCall("Register", RegisterStatus)

\* Context ids one past the table stand for unknown ids.
Wake(c) == CoreWake(c, WakeStatus(c)) /\ HostCall("Wake", WakeStatus(c))

NotifyEvent(kind) ==
  \E status \in ScanStatuses :
    CoreNotifyEvent(kind, status) /\ HostCall("NotifyEvent", status)

WakeExpired ==
  \E status \in ScanStatuses : CoreWakeExpired(status) /\ HostCall("WakeExpired", status)

\* The host assigns scheduler.clock; nothing in the scheduler checks its direction.
SetClock(time) ==
  /\ time # now
  /\ now' = time
  /\ UNCHANGED <<states, waitKinds, sleepUntil, queued, ready, contextCount, traced>>
  /\ HostCall("SetClock", "Ok")

-----------------------------------------------------------------------------
(* One decision.                                                            *)

\* ScheduleOne returns: to the host, or to the loop of RunUntilIdle, which hands every
\* error on (241) and counts a decision otherwise (242).
Return(status) ==
  /\ current' = 0
  /\ IF budget = NoCall
     THEN /\ phase' = "rest"
          /\ reply' = Reply("ScheduleOne", status)
          /\ UNCHANGED budget
     ELSE IF status = "Ok"
     THEN /\ phase' = "loop"
          /\ budget' = budget - 1
          /\ UNCHANGED reply
     ELSE /\ phase' = "rest"
          /\ reply' = Reply("RunUntilIdle", status)
          /\ budget' = NoCall

\* Mutant: reserves the decision's own four entries but none for the expired sleepers.
DecisionReservedOnly == traced + 4 <= TraceCapacity

\* Mutant: only asks for a trace that is not full.
TraceNotFull == ~TraceFull

\* Room in the core trace for every expired sleeper and for the decision (169).
TraceReserved == traced + ContextCapacity + 4 <= TraceCapacity

\* A decision may start at the host's request or as the loop's next iteration.
MayDecide ==
  \/ phase = "rest"
  \/ phase = "loop" /\ budget > 0 /\ ready # << >>

RefuseDecision ==
  /\ MayDecide
  /\ ~TraceReserved
  /\ Return("TraceCapacityExhausted")
  /\ UNCHANGED <<coreVars, passed>>

BeginDecision ==
  /\ MayDecide
  /\ TraceReserved
  /\ \E status \in ScanStatuses :
       /\ CoreWakeExpired(status)
       /\ IF status = "Ok"
          THEN phase' = "select" /\ UNCHANGED <<current, budget, reply>>
          ELSE Return(status)
  /\ UNCHANGED passed

NothingToSelect ==
  /\ phase = "select"
  /\ ready = << >>
  /\ Return("NoRunnableContext")
  /\ UNCHANGED <<coreVars, passed>>

\* Dequeue, claim, and the records Selected and QuantumBegin.  A context found in another
\* state is dropped from the queue; a full trace leaves the claimed context Running.
Select ==
  /\ phase = "select"
  /\ ready # << >>
  /\ ready' = Tail(ready)
  /\ LET c == Head(ready)
         claimed == states[c] = "Ready" /\ queued[c]
         begun == claimed /\ traced + 2 <= TraceCapacity
     IN  /\ states' = IF claimed THEN [states EXCEPT ![c] = "Running"] ELSE states
         /\ queued' = IF claimed THEN [queued EXCEPT ![c] = FALSE] ELSE queued
         /\ traced' = IF begun THEN traced + 2 ELSE IF claimed THEN TraceCapacity ELSE traced
         /\ passed' = [d \in Contexts |-> IF d # c /\ queued[d] THEN passed[d] + 1 ELSE 0]
         /\ IF begun
            THEN phase' = "quantum" /\ current' = c /\ UNCHANGED <<budget, reply>>
            ELSE Return(IF claimed THEN "TraceCapacityExhausted" ELSE "InvalidState")
  /\ UNCHANGED <<waitKinds, sleepUntil, contextCount, now>>

\* Mutant: a context that wants to continue goes back to the head of the queue.
RequeueAtHead(c) == ready' = <<c>> \o ready

\* A context that wants to continue goes back to the tail (225).
Requeue(c) == ready' = Append(ready, c)

\* The quantum's last outcome: its state, its record unless it is Ready, the requeue if it
\* is, and QuantumEnd.
EndQuantum(outcome) ==
  /\ phase = "quantum"
  /\ states' = [states EXCEPT ![current] = outcome.state]
  /\ waitKinds' = [waitKinds EXCEPT ![current] = outcome.kind]
  /\ sleepUntil' = [sleepUntil EXCEPT ![current] = outcome.deadline]
  /\ queued' = [queued EXCEPT ![current] = (outcome.state = "Ready")]
  /\ IF outcome.state = "Ready" THEN Requeue(current) ELSE UNCHANGED ready
  /\ LET needed == IF outcome.state = "Ready" THEN 1 ELSE 2
         fits == traced + needed <= TraceCapacity
     IN  /\ traced' = IF fits THEN traced + needed ELSE TraceCapacity
         /\ Return(IF fits THEN "Ok" ELSE "TraceCapacityExhausted")
  /\ UNCHANGED <<contextCount, now, passed>>

-----------------------------------------------------------------------------
(* RunUntilIdle: decisions until the queue is empty or the budget is spent. *)

CallRunUntilIdle(max) ==
  /\ phase = "rest"
  /\ IF max < 0
     THEN reply' = Reply("RunUntilIdle", "NegativeBudget") /\ UNCHANGED <<phase, budget>>
     ELSE phase' = "loop" /\ budget' = max /\ UNCHANGED reply
  /\ UNCHANGED <<coreVars, current, passed>>

RunResult == IF ready = << >> THEN "Idle" ELSE "DecisionBudgetExhausted"

EndRun ==
  /\ phase = "loop"
  /\ budget = 0 \/ ready = << >>
  /\ phase' = "rest"
  /\ reply' = Reply("RunUntilIdle", RunResult)
  /\ budget' = NoCall
  /\ UNCHANGED <<coreVars, current, passed>>

Next ==
  \/ Register
  \/ \E c \in 1 .. ContextCapacity + 1 : Wake(c)
  \/ \E kind \in Kinds : NotifyEvent(kind)
  \/ WakeExpired
  \/ \E time \in Times : SetClock(time)
  \/ RefuseDecision
  \/ BeginDecision
  \/ NothingToSelect
  \/ Select
  \/ \E outcome \in Outcomes : EndQuantum(outcome)
  \/ \E max \in -1 .. MaxDecisions : CallRunUntilIdle(max)
  \/ EndRun

Spec == Init /\ [][Next]_vars

-----------------------------------------------------------------------------

\* Types of the table and of the host's call state.
TypeOK ==
  /\ CoreTypeOK
  /\ phase \in {"rest", "loop", "select", "quantum"}
  /\ current \in 0 .. ContextCapacity
  /\ budget \in {NoCall} \cup 0 .. MaxDecisions
  /\ passed \in [Contexts -> Nat]

\* A decision never strands the context it selected: outside a quantum nobody is Running,
\* because the reservation of ScheduleOne (169) outlasts the wakes it performs and every
\* record of the decision.  A Running context with no quantum could never be woken,
\* requeued or selected again.
NobodyStrandedRunning ==
  \A c \in Contexts : states[c] = "Running" => phase = "quantum" /\ current = c

\* The reservation also covers the sleepers the decision wakes first: once a context can
\* be selected no record fails any more, so a machine is never stepped by a decision that
\* then reports an error and leaves its trace without an end.
BegunDecisionsAreRecorded ==
  [][(phase \in {"select", "quantum"} /\ phase' = "rest")
       => reply'.status # "TraceCapacityExhausted"]_vars

\* Rotation: a queued context is passed over at most as often as there were ids ahead of
\* it when it was queued, so fewer than ReadyCapacity times, whatever is woken, slept or
\* requeued meanwhile ("continuously ready contexts rotate without starvation").
BoundedBypass == \A i \in 1 .. Len(ready) : passed[ready[i]] + i <= ReadyCapacity

\* RunUntilIdle reports Idle only when no context is Ready.
IdleMeansNoReady ==
  [][(phase = "loop" /\ reply' = Reply("RunUntilIdle", "Idle"))
       => \A c \in Contexts : states'[c] # "Ready"]_vars

\* Lifecycle edges (documented in docs/library/DRAGONGOD-SCHEDULING.md): whatever partial
\* wake or failed record a call goes through, a context is only selected from Ready, only
\* becomes Ready from Running or by a wake from Waiting or Sleeping, and a Completed or
\* Failed context never changes again.
LegalEdge(from, to) ==
  \/ from = to
  \/ from = "Absent" /\ to = "Ready"
  \/ from = "Ready" /\ to = "Running"
  \/ from = "Running" /\ to \in {"Ready"} \cup Blocked \cup Terminal
  \/ from \in Blocked /\ to = "Ready"

LifecycleEdges == [][\A c \in Contexts : LegalEdge(states[c], states'[c])]_vars

\* A call that has started runs on, and the host keeps asking for decisions.
FairSpec ==
  /\ Spec
  /\ WF_vars(NothingToSelect \/ Select \/ (\E o \in Outcomes : EndQuantum(o)) \/ EndRun)
  /\ SF_vars(BeginDecision)

\* What docs/design/DRAGONGOD-SCHEDULING-DIRECTION.md says of rotation: a queued context
\* is selected eventually, or the trace has no room for another decision.
RotationWithoutStarvation ==
  \A c \in Contexts : queued[c] ~> (states[c] = "Running" \/ ~TraceReserved)
=============================================================================
