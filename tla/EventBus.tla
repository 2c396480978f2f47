------------------------------- MODULE EventBus -------------------------------
(***************************************************************************)
(* EventBus of libraries/DragonGod/Events/Core.concept: producers publish   *)
(* under a spin lock, consumers read without one, relying on the order of   *)
(* the slot's contents, the Release store of count and their Acquire load.  *)
(* Each consumer owns its cursor and asks for any kind at any call.         *)
(*                                                                          *)
(* nextId starts at 1 and moves with count, so ids are slot numbers.  A     *)
(* payload is whatever was published with the id and is left out.  The scan *)
(* of ReadNext copies slots beyond the count it loaded and never looks at   *)
(* the copies; the slots below it do not change any more (ImplementsLog), so *)
(* the scan after the load is one step.                                     *)
(***************************************************************************)
EXTENDS Integers, Sequences, FiniteSets

CONSTANTS
  Producers,
  Readers,
  Kinds,
  NoKind,     \* EventKind{0}, what an empty slot holds
  Capacity,   \* slots of the bus
  Free        \* holder of the gate when nobody holds it

ASSUME BusAssumption ==
  /\ Capacity \in Nat
  /\ Kinds # {} /\ NoKind \notin Kinds
  /\ Free \notin Producers

VARIABLES
  nextId,     \* the id the next event takes
  count,      \* events published
  gate,       \* holder of producerGate
  events,     \* the array of slots
  pc,         \* where each producer and reader is
  taken,      \* the slot number a producer read from count
  seen,       \* the count a reader loaded, NoCall outside ReadNext
  asked,      \* the kind a reader asks for
  cursor,     \* nextIndex of each reader's cursor, NoCursor before it has one
  answer      \* what each reader's last call answered; an Event, or None for Missing

busVars == <<nextId, count, gate, events>>
readerVars == <<seen, asked, cursor, answer>>
vars == <<busVars, pc, taken, readerVars>>

Slots == 1 .. Capacity
Event(id, kind) == [id |-> id, kind |-> kind]
None == Event(0, NoKind)
NoCursor == -1
NoCall == -1

Init ==
  /\ nextId = 1
  /\ count = 0
  /\ gate = Free
  /\ events = [i \in Slots |-> None]
  /\ pc = [t \in Producers \cup Readers |-> "idle"]
  /\ taken = [p \in Producers |-> 0]
  /\ seen = [r \in Readers |-> NoCall]
  /\ asked = [r \in Readers |-> NoKind]
  /\ cursor = [r \in Readers |-> NoCursor]
  /\ answer = [r \in Readers |-> None]

Goto(t, from, to) == pc[t] = from /\ pc' = [pc EXCEPT ![t] = to]

-----------------------------------------------------------------------------
(* Dispatch.                                                                *)

\* Mutant: room for one event too many.
FullLate(p) == taken[p] > Capacity + 1

Full(p) == taken[p] > Capacity

\* The gate and the load of count.
BeginDispatch(p) ==
  /\ Goto(p, "idle", "write")
  /\ gate = Free
  /\ gate' = p
  /\ taken' = [taken EXCEPT ![p] = count + 1]
  /\ UNCHANGED <<nextId, count, events, readerVars>>

RefuseDispatch(p) ==
  /\ Full(p)
  /\ Goto(p, "write", "idle")
  /\ gate' = Free
  /\ taken' = [taken EXCEPT ![p] = 0]
  /\ UNCHANGED <<nextId, count, events, readerVars>>

WriteSlot(p, kind) ==
  /\ ~Full(p)
  /\ Goto(p, "write", "publish")
  /\ nextId' = nextId + 1
  /\ events' = [events EXCEPT ![taken[p]] = Event(nextId, kind)]
  /\ UNCHANGED <<count, gate, taken, readerVars>>

\* The release store of count, and the gate.
PublishCount(p) ==
  /\ Goto(p, "publish", "idle")
  /\ count' = taken[p]
  /\ gate' = Free
  /\ taken' = [taken EXCEPT ![p] = 0]
  /\ UNCHANGED <<nextId, events, readerVars>>

-----------------------------------------------------------------------------
(* Readers.                                                                 *)

\* StartCursor and TailCursor: a consumer that wants another cursor is another reader.
OpenCursor(r) ==
  /\ cursor[r] = NoCursor
  /\ \E start \in {0, count} : cursor' = [cursor EXCEPT ![r] = start]
  /\ UNCHANGED <<busVars, pc, taken, seen, asked, answer>>

\* ReadNext: the acquire load of count.
BeginRead(r, kind) ==
  /\ cursor[r] # NoCursor
  /\ Goto(r, "idle", "scan")
  /\ seen' = [seen EXCEPT ![r] = count]
  /\ asked' = [asked EXCEPT ![r] = kind]
  /\ UNCHANGED <<busVars, taken, cursor, answer>>

\* Events between the cursor and the count that was loaded.
Ahead(r) == cursor[r] + 1 .. seen[r]

Found(r) == {i \in Ahead(r) : events[i].kind = asked[r]}

Answer(r, to, given) ==
  /\ Goto(r, "scan", "idle")
  /\ cursor' = [cursor EXCEPT ![r] = to]
  /\ answer' = [answer EXCEPT ![r] = given]
  /\ seen' = [seen EXCEPT ![r] = NoCall]
  /\ asked' = [asked EXCEPT ![r] = NoKind]
  /\ UNCHANGED <<busVars, taken>>

\* The cursor stops after the first event of the kind.
ReadFound(r) ==
  /\ pc[r] = "scan"
  /\ \E i \in Found(r) : (\A j \in Found(r) : i <= j) /\ Answer(r, i, events[i])

\* Mutant: count is read again when the scan has found nothing.
ReadMissingRecounted(r) ==
  /\ pc[r] = "scan"
  /\ Found(r) = {}
  /\ Answer(r, count, None)

\* Missing: the cursor moves to the count that was loaded.
ReadMissing(r) ==
  /\ pc[r] = "scan"
  /\ Found(r) = {}
  /\ Answer(r, seen[r], None)

Next ==
  \/ \E p \in Producers :
       \/ BeginDispatch(p)
       \/ RefuseDispatch(p)
       \/ \E kind \in Kinds : WriteSlot(p, kind)
       \/ PublishCount(p)
  \/ \E r \in Readers :
       \/ OpenCursor(r)
       \/ \E kind \in Kinds : BeginRead(r, kind)
       \/ ReadFound(r)
       \/ ReadMissing(r)

Spec == Init /\ [][Next]_vars

-----------------------------------------------------------------------------

\* Types of the bus and of the calls in progress.
TypeOK ==
  /\ nextId \in 1 .. Capacity + 1
  /\ count \in 0 .. Capacity
  /\ gate \in {Free} \cup Producers
  /\ events \in [Slots -> [id : 0 .. Capacity, kind : Kinds \cup {NoKind}]]
  /\ pc \in [Producers \cup Readers -> {"idle", "write", "publish", "scan"}]
  /\ taken \in [Producers -> 0 .. Capacity + 1]
  /\ seen \in [Readers -> {NoCall} \cup 0 .. Capacity]
  /\ asked \in [Readers -> Kinds \cup {NoKind}]
  /\ cursor \in [Readers -> {NoCursor} \cup 0 .. Capacity]
  /\ answer \in [Readers -> {None} \cup [id : Slots, kind : Kinds]]

\* What readers can see: the slots below count.
Published == SubSeq(events, 1, count)

Log == INSTANCE EventLog WITH log <- Published, before <- seen

\* The published slots are one log that only grows, in the order of the ids, and every
\* read answers from it in order: a reader never sees a half written or overwritten event,
\* and never goes past an event of the kind it asked for without being given it, even when
\* that event is published while the read is under way.
ImplementsLog == Log!Spec
=============================================================================
