----------------------------- MODULE AgentContext -----------------------------
(***************************************************************************)
(* An agent's context of libraries/DragonGod (Agent/Core.concept): a Mind    *)
(* with its frames and its trace (Machine/Execution, Trace/Core), the three  *)
(* stores, a clock and a seed; the ReplayDriver that applies a log to it     *)
(* (Replay/Core) and a CheckpointSlot (Replay/Checkpoint).                   *)
(*                                                                           *)
(* One host uses all of them, so a store is what its own module shows it to  *)
(* be for one caller (Blackboard, EventLog, Obligations).  Reasons, ticks    *)
(* and dirty marks are left out.  ExecuteBatch is calls of Step up to the    *)
(* first error, ApplyAll takes one step per input.  A context is saved with  *)
(* the driver's cursor and the host puts both back.                          *)
(***************************************************************************)
EXTENDS Integers, Sequences, SequencesExt, FiniteSets

CONSTANTS
  States,          \* StateId values
  Start,           \* state of the first frame
  FrameCapacity,
  TraceCapacity,
  MemoryCapacity,
  EventCapacity,
  Pending,         \* obligations dispatched before the log begins
  Inputs,          \* ReplayInput values
  LogCapacity

InputKinds ==
  {"Advance", "MemoryWrite", "EventDispatch", "ActuationComplete", "ActuationFail", "RngSeed"}

ASSUME AgentAssumption ==
  /\ Start \in States
  /\ FrameCapacity \in Nat \ {0}
  /\ TraceCapacity \in Nat /\ MemoryCapacity \in Nat /\ EventCapacity \in Nat
  /\ \A input \in Inputs : input.k \in InputKinds

VARIABLES
  mind,            \* frames and status
  trace,           \* TraceRecorder: the entries recorded
  stores,          \* memory, events, obligations, clock and seed
  log,             \* ReplayLog
  cursor,          \* of the ReplayDriver
  applying,        \* ApplyAll has begun and not returned
  checkpoint       \* KernelCheckpoint, none at first

context == <<mind, trace, stores>>
agentVars == <<mind, trace, stores, log, cursor, applying, checkpoint>>

-----------------------------------------------------------------------------
(* The trace *)

Entry(kind, from, to) == [kind |-> kind, from |-> from, to |-> to]
Full(entries) == Len(entries) >= TraceCapacity
\* TraceRecorder.Record; a full trace stays as it is and the caller is told.
Record(entries, entry) == IF Full(entries) THEN entries ELSE Append(entries, entry)

-----------------------------------------------------------------------------
(* The mind *)

Signals ==
  [k : {"None", "Yield", "Pop", "AwaitActuation", "Succeed", "Fail"}, target : {Start}]
    \cup [k : {"TransitionTo", "Push"}, target : States]

\* What a signal does to the frames, the last of which is the current one.
Moved(frames, signal) ==
  CASE signal.k = "TransitionTo" -> [frames EXCEPT ![Len(frames)] = signal.target]
    [] signal.k = "Push" -> Append(frames, signal.target)
    [] signal.k = "Pop" -> Front(frames)
    [] OTHER -> frames

StatusAfter(signal) ==
  CASE signal.k = "AwaitActuation" -> "WaitingActuation"
    [] signal.k = "Succeed" -> "Succeeded"
    [] signal.k = "Fail" -> "Failed"
    [] OTHER -> "Running"

Recorded ==
  [None |-> {}, AwaitActuation |-> {}, Yield |-> {"Yield"}, TransitionTo |-> {"Transition"},
   Push |-> {"Push"}, Pop |-> {"Pop"}, Succeed |-> {"Completion"}, Fail |-> {"Failure"}]

\* StackOverflow and StackUnderflow.
Refused(signal) ==
  \/ signal.k = "Push" /\ Len(mind.frames) >= FrameCapacity
  \/ signal.k = "Pop" /\ Len(mind.frames) <= 1

\* Step: the record of the step itself comes first, that of the signal after the change,
\* and may find the trace full.
Step(signal) ==
  /\ ~applying
  /\ ~Full(trace)
  /\ LET before == Last(mind.frames)
         stepped == Append(trace, Entry("Step", before, before))
         after == IF Refused(signal) THEN mind.frames ELSE Moved(mind.frames, signal)
         kinds == IF Refused(signal) THEN {} ELSE Recorded[signal.k]
     IN  /\ mind' = [frames |-> after, status |-> IF Refused(signal) THEN "Running" ELSE StatusAfter(signal)]
         /\ trace' = IF kinds = {} THEN stepped
                     ELSE Record(stepped, Entry(CHOOSE k \in kinds : TRUE, before, Last(after)))
  /\ UNCHANGED <<stores, log, cursor, applying, checkpoint>>

-----------------------------------------------------------------------------
(* The stores, for one caller *)

Written(memory, key, value) ==
  [k \in (DOMAIN memory) \cup {key} |-> IF k = key THEN value ELSE memory[k]]

Accepts(s, input) ==
  CASE input.k = "MemoryWrite" -> input.key \in DOMAIN s.memory \/ Cardinality(DOMAIN s.memory) < MemoryCapacity
    [] input.k = "EventDispatch" -> Len(s.events) < EventCapacity
    [] input.k \in {"ActuationComplete", "ActuationFail"} ->
         input.id \in DOMAIN s.obligations /\ s.obligations[input.id] = "Pending"
    [] OTHER -> TRUE

Effect(s, input) ==
  CASE input.k = "Advance" -> [s EXCEPT !.clock = @ + input.elapsed]
    [] input.k = "MemoryWrite" -> [s EXCEPT !.memory = Written(@, input.key, input.value)]
    [] input.k = "EventDispatch" -> [s EXCEPT !.events = Append(@, input.kind)]
    [] input.k = "ActuationComplete" -> [s EXCEPT !.obligations[input.id] = "Completed"]
    [] input.k = "ActuationFail" -> [s EXCEPT !.obligations[input.id] = "Failed"]
    [] input.k = "RngSeed" -> [s EXCEPT !.seed = input.seed]

\* Inputs whose effect is recorded in the trace once it has happened.
RecordedEffect(input) ==
  CASE input.k = "EventDispatch" -> {"EventEnqueue"}
    [] input.k = "ActuationComplete" -> {"ActuationComplete"}
    [] OTHER -> {}

InitialStores ==
  [memory |-> [k \in {} |-> 0], events |-> <<>>,
   obligations |-> [id \in Pending |-> "Pending"], clock |-> 0, seed |-> 0]

-----------------------------------------------------------------------------
(* Replay *)

AppendInput(input) ==
  /\ ~applying
  /\ Len(log) < LogCapacity
  /\ log' = Append(log, input)
  /\ UNCHANGED <<context, cursor, applying, checkpoint>>

BeginApplyAll ==
  /\ ~applying
  /\ applying' = TRUE
  /\ UNCHANGED <<context, log, cursor, checkpoint>>

Here(kind) == Entry(kind, Last(mind.frames), Last(mind.frames))

\* Mutant: the input is applied although its record finds no room.
RecordInputAnyway == TRUE
RecordInput == ~Full(trace)

\* ApplyInput fails after the effect if the trace has no room for its record, and ApplyAll
\* then leaves the cursor before the input.
ApplyInput ==
  /\ applying
  /\ cursor < Len(log)
  /\ RecordInput
  /\ LET input == log[cursor + 1]
         noted == Record(trace, Here("ReplayInput"))
         kinds == RecordedEffect(input)
     IN  \/ /\ ~Accepts(stores, input)
            /\ trace' = noted
            /\ applying' = FALSE
            /\ UNCHANGED <<stores, cursor>>
         \/ /\ Accepts(stores, input)
            /\ stores' = Effect(stores, input)
            /\ \/ /\ kinds = {}
                  /\ trace' = noted
                  /\ cursor' = cursor + 1
                  /\ UNCHANGED applying
               \/ /\ kinds # {} /\ ~Full(noted)
                  /\ trace' = Append(noted, Here(CHOOSE k \in kinds : TRUE))
                  /\ cursor' = cursor + 1
                  /\ UNCHANGED applying
               \/ /\ kinds # {} /\ Full(noted)
                  /\ trace' = noted
                  /\ applying' = FALSE
                  /\ UNCHANGED cursor
  /\ UNCHANGED <<mind, log, checkpoint>>

\* The log is done, or the next input cannot be recorded.
EndApplyAll ==
  /\ applying
  /\ cursor = Len(log) \/ ~RecordInput
  /\ applying' = FALSE
  /\ UNCHANGED <<context, log, cursor, checkpoint>>

-----------------------------------------------------------------------------
(* Checkpoints *)

Save ==
  /\ ~applying
  /\ checkpoint' = {[context |-> context, replayCursor |-> cursor]}
  /\ UNCHANGED <<context, log, cursor, applying>>

Restore ==
  /\ ~applying
  /\ \E saved \in checkpoint :
       /\ mind' = saved.context[1] /\ trace' = saved.context[2] /\ stores' = saved.context[3]
       /\ cursor' = saved.replayCursor
  /\ UNCHANGED <<log, applying, checkpoint>>

AgentInit ==
  /\ mind = [frames |-> <<Start>>, status |-> "Idle"]
  /\ trace = <<>>
  /\ stores = InitialStores
  /\ log = <<>> /\ cursor = 0 /\ applying = FALSE
  /\ checkpoint = {}

AgentNext ==
  \/ \E signal \in Signals : Step(signal)
  \/ \E input \in Inputs : AppendInput(input)
  \/ BeginApplyAll \/ ApplyInput \/ EndApplyAll
  \/ Save \/ Restore

AgentSpec == AgentInit /\ [][AgentNext]_agentVars

-----------------------------------------------------------------------------

\* The stores after the first n inputs of the log.
StoresAfter(n) == FoldLeft(Effect, InitialStores, SubSeq(log, 1, n))

\* The frames that the entries of the trace tell of.
Retold(frames, entry) ==
  CASE entry.kind = "Transition" -> [frames EXCEPT ![Len(frames)] = entry.to]
    [] entry.kind = "Push" -> Append(frames, entry.to)
    [] entry.kind = "Pop" -> Front(frames)
    [] OTHER -> frames

\* An input takes effect once and in the order of the log, whatever failed half way, was
\* applied again or was put back by a checkpoint; the stores are ahead of the cursor by one
\* input at most, and then the trace is full.
StoresFollowLog ==
  \E n \in cursor .. Len(log) :
    /\ stores = StoresAfter(n)
    /\ n # cursor => n = cursor + 1 /\ Full(trace)

\* The trace tells how the frames came about; it lacks at most the last change, and then it
\* is full.
FramesFollowTrace ==
  LET told == FoldLeft(Retold, <<Start>>, trace) IN
    \/ mind.frames = told
    \/ Full(trace) /\ \E signal \in Signals : mind.frames = Moved(told, signal)

\* A context can be told from its log and its trace, but for one input and one signal for
\* which the trace had no room (Step, ApplyInput, ApplyAll, Restore).
ContextIsReplayable == StoresFollowLog /\ FramesFollowTrace
===============================================================================
