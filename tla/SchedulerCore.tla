---------------------------- MODULE SchedulerCore ----------------------------
(***************************************************************************)
(* The context table, ready queue, clock and trace of FifoScheduler         *)
(* (libraries/DragonGod/Scheduling/Fifo.concept), and the operations that   *)
(* FifoScheduler offers directly and ParallelScheduler calls on its `core`  *)
(* with the gate held.                                                      *)
(*                                                                          *)
(* Contexts are numbered in registration order: slots fill from index 0, no *)
(* slot is ever freed and nextContextId starts at 1, so context c is the    *)
(* slot c - 1 and its ContextId is c.  The machine a slot owns is not       *)
(* modelled; its steps are the outcomes the schedulers choose from.  The    *)
(* ready queue is the sequence that ReadyQueue implements.  waitKinds and   *)
(* sleepUntil keep stale values in the code, which reads them only in the   *)
(* states Waiting and Sleeping: here they are reset on leaving that state.  *)
(* The duplicate and capacity tests inside ready.Enqueue repeat guards that *)
(* MakeReady and Register have passed, so those calls cannot fail there.    *)
(***************************************************************************)
EXTENDS Integers, Sequences, FiniteSets, Functions

CONSTANTS
  ContextCapacity,  \* slots of the context table
  ReadyCapacity,    \* slots of the ready queue
  TraceCapacity,    \* slots of the core trace, which is never emptied
  Kinds,            \* the EventKind values used
  NoKind,           \* EventKind{0}, what a context that is not Waiting holds
  MaxTime           \* bound on the clock and on deadlines

ASSUME CoreAssumption ==
  /\ ContextCapacity \in Nat \ {0}
  /\ ReadyCapacity \in Nat
  /\ TraceCapacity \in Nat
  /\ MaxTime \in Nat
  /\ NoKind \notin Kinds

VARIABLES
  states,       \* ExecutionState of each slot; "Absent" where active is false
  waitKinds,    \* the event a Waiting context waits for
  sleepUntil,   \* the deadline of a Sleeping context
  queued,       \* the table's own flag for "its id is in the ready queue"
  ready,        \* the ready queue
  contextCount, \* slots in use
  now,          \* the explicit monotonic clock
  traced        \* entries in the core trace

coreVars ==
  <<states, waitKinds, sleepUntil, queued, ready, contextCount, now, traced>>

Contexts == 1 .. ContextCapacity
Times == 0 .. MaxTime
Known == 1 .. contextCount
Blocked == {"Waiting", "Sleeping"}
Terminal == {"Completed", "Failed"}
ExecutionStates == {"Ready", "Running"} \cup Blocked \cup Terminal

CoreInit ==
  /\ states = [c \in Contexts |-> "Absent"]
  /\ waitKinds = [c \in Contexts |-> NoKind]
  /\ sleepUntil = [c \in Contexts |-> 0]
  /\ queued = [c \in Contexts |-> FALSE]
  /\ ready = << >>
  /\ contextCount = 0
  /\ now = 0
  /\ traced = 0

\* Record refuses an entry when the core trace is full.
TraceFull == traced >= TraceCapacity

ReadyFull == Len(ready) >= ReadyCapacity

\* Mutant: no test of the trace.
RegisterStatusUntraced ==
  IF contextCount = ContextCapacity \/ ReadyFull THEN "CapacityExhausted" ELSE "Ok"

RegisterStatus ==
  IF contextCount = ContextCapacity \/ ReadyFull THEN "CapacityExhausted"
  ELSE IF TraceFull THEN "TraceCapacityExhausted"
  ELSE "Ok"

CoreRegister(status) ==
  /\ status = RegisterStatus
  /\ IF status # "Ok"
     THEN UNCHANGED coreVars
     ELSE LET c == contextCount + 1 IN
          /\ states' = [states EXCEPT ![c] = "Ready"]
          /\ queued' = [queued EXCEPT ![c] = TRUE]
          /\ ready' = Append(ready, c)
          /\ contextCount' = c
          /\ traced' = traced + 1
          /\ UNCHANGED <<waitKinds, sleepUntil, now>>

-----------------------------------------------------------------------------
(* Wakes.  NotifyEvent and WakeExpired scan the table in index order and    *)
(* call MakeReady on every match until one call fails; the contexts woken   *)
(* before the failure stay woken.                                           *)

\* Mutant: no capacity test before the queue is written.
MakeReadyStatusUnchecked(c, earlier) ==
  IF queued[c] THEN "AlreadyQueued"
  ELSE IF traced + earlier >= TraceCapacity THEN "TraceCapacityExhausted"
  ELSE "Ok"

\* What MakeReady(c) answers once `earlier` contexts have been woken by this call.
MakeReadyStatus(c, earlier) ==
  IF queued[c] THEN "AlreadyQueued"
  ELSE IF Len(ready) + earlier >= ReadyCapacity THEN "CapacityExhausted"
  ELSE IF traced + earlier >= TraceCapacity THEN "TraceCapacityExhausted"
  ELSE "Ok"

\* Mutant: wakes without putting the context back in the queue.
MakeAllReadyUnqueued(woken) ==
  LET set == Range(woken) IN
  /\ states' = [c \in Contexts |-> IF c \in set THEN "Ready" ELSE states[c]]
  /\ waitKinds' = [c \in Contexts |-> IF c \in set THEN NoKind ELSE waitKinds[c]]
  /\ sleepUntil' = [c \in Contexts |-> IF c \in set THEN 0 ELSE sleepUntil[c]]
  /\ traced' = traced + Len(woken)
  /\ UNCHANGED <<queued, ready, contextCount>>

\* MakeReady on each context of a sequence, every call having succeeded.
MakeAllReady(woken) ==
  LET set == Range(woken) IN
  /\ states' = [c \in Contexts |-> IF c \in set THEN "Ready" ELSE states[c]]
  /\ waitKinds' = [c \in Contexts |-> IF c \in set THEN NoKind ELSE waitKinds[c]]
  /\ sleepUntil' = [c \in Contexts |-> IF c \in set THEN 0 ELSE sleepUntil[c]]
  /\ queued' = [c \in Contexts |-> c \in set \/ queued[c]]
  /\ ready' = ready \o woken
  /\ traced' = traced + Len(woken)
  /\ UNCHANGED contextCount

\* The one listing of a set of contexts in index order.
IndexOrders(set) ==
  {order \in [1 .. Cardinality(set) -> set] :
     /\ \A i, j \in 1 .. Cardinality(set) : i < j => order[i] < order[j]
     /\ \A c \in set : \E i \in 1 .. Cardinality(set) : order[i] = c}

\* The scan stops after n wakes: all matches woken, or MakeReady failed on the next one.
WakeEach(set, status) ==
  \E order \in IndexOrders(set), n \in 0 .. Cardinality(set) :
    /\ \A i \in 1 .. n : MakeReadyStatus(order[i], i - 1) = "Ok"
    /\ status = IF n = Cardinality(set) THEN "Ok" ELSE MakeReadyStatus(order[n + 1], n)
    /\ n < Cardinality(set) => status # "Ok"
    /\ MakeAllReady(SubSeq(order, 1, n))

\* Mutant: wakes a context in any state.
WakeStatusAnyState(c) ==
  IF c \notin Known THEN "UnknownContext" ELSE MakeReadyStatus(c, 0)

WakeStatus(c) ==
  IF c \notin Known THEN "UnknownContext"
  ELSE IF states[c] \notin Blocked THEN "InvalidState"
  ELSE MakeReadyStatus(c, 0)

CoreWake(c, status) ==
  /\ status = WakeStatus(c)
  /\ IF status = "Ok" THEN MakeAllReady(<<c>>) /\ UNCHANGED now ELSE UNCHANGED coreVars

WaitingFor(kind) == {c \in Known : states[c] = "Waiting" /\ waitKinds[c] = kind}

CoreNotifyEvent(kind, status) ==
  WakeEach(WaitingFor(kind), status) /\ UNCHANGED now

\* Reached(clock, deadline) for every Sleeping context.
ExpiredAt(time) == {c \in Known : states[c] = "Sleeping" /\ time >= sleepUntil[c]}

CoreWakeExpired(status) ==
  WakeEach(ExpiredAt(now), status) /\ UNCHANGED now

ScanStatuses == {"Ok", "AlreadyQueued", "CapacityExhausted", "TraceCapacityExhausted"}

\* How a machine's quantum can end: with the last disposition its steps returned.
Outcome(state, kind, deadline) == [state |-> state, kind |-> kind, deadline |-> deadline]

Outcomes ==
  {Outcome(s, NoKind, 0) : s \in {"Ready"} \cup Terminal}
    \cup {Outcome("Waiting", k, 0) : k \in Kinds}
    \cup {Outcome("Sleeping", NoKind, t) : t \in Times}

-----------------------------------------------------------------------------

\* The table's fields keep their types; the queue and the trace stay within capacity.
CoreTypeOK ==
  /\ states \in [Contexts -> ExecutionStates \cup {"Absent"}]
  /\ waitKinds \in [Contexts -> Kinds \cup {NoKind}]
  /\ sleepUntil \in [Contexts -> Times]
  /\ queued \in [Contexts -> BOOLEAN]
  /\ ready \in Seq(Contexts)
  /\ Len(ready) <= ReadyCapacity
  /\ contextCount \in 0 .. ContextCapacity
  /\ now \in Times
  /\ traced \in 0 .. TraceCapacity

\* The slots in use are exactly the first contextCount, and hold a real state.
TableFilled == \A c \in Contexts : (states[c] = "Absent") <=> (c > contextCount)

\* The ready queue, the queued flags and the lifecycle states always tell the same story:
\* an id is in the queue once exactly when its context is Ready and flagged, so no wake,
\* requeue or partial scan can dispatch a context twice or leave a Ready one unreachable.
QueueAgreement ==
  /\ \A i, j \in 1 .. Len(ready) : ready[i] = ready[j] => i = j
  /\ \A c \in Contexts : queued[c] <=> \E i \in 1 .. Len(ready) : ready[i] = c
  /\ \A c \in Contexts : queued[c] <=> states[c] = "Ready"
=============================================================================
