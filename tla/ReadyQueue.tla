------------------------------ MODULE ReadyQueue ------------------------------
(***************************************************************************)
(* FifoReadyQueue<Capacity> of libraries/DragonGod/Scheduling/Queue.concept: *)
(* a ring of Capacity slots with a head index and a count.  Slots outside   *)
(* the window of count entries from head keep the ids they last held, and   *)
(* nothing distinguishes a stale slot, or the filler EmptyContextId, from   *)
(* a queued id: only the window does.                                       *)
(***************************************************************************)
EXTENDS Integers, Sequences

CONSTANTS
  Ids,            \* the ContextId values
  EmptyContextId, \* the id every slot holds at construction
  Capacity        \* length of the entries array

ASSUME RingAssumption == Capacity \in Nat \ {0} /\ EmptyContextId \in Ids

VARIABLES
  entries,        \* the slots, numbered from 0 as in the code
  head,           \* slot of the oldest id
  count,          \* ids in the window
  reply           \* what the last call returned

vars == <<entries, head, count, reply>>

Slots == 0 .. Capacity - 1

Reply(status, id) == [status |-> status, id |-> id]

\* The slot offset places after the head, wrapping once (34-38 and 57-61).
SlotAt(offset) ==
  IF head + offset >= Capacity THEN head + offset - Capacity ELSE head + offset

\* Mutant: scans the first count slots instead of the window.
ContainsUnwrapped(id) == \E slot \in 0 .. count - 1 : entries[slot] = id

\* Mutant: scans the whole array, stale slots included.
ContainsAnywhere(id) == \E slot \in Slots : entries[slot] = id

\* Contains looks at the window only.
ContainsId(id) == \E offset \in 0 .. count - 1 : entries[SlotAt(offset)] = id

Init ==
  /\ entries = [s \in Slots |-> EmptyContextId]
  /\ head = 0
  /\ count = 0
  /\ reply = Reply("Ok", EmptyContextId)

Enqueue(id) ==
  /\ UNCHANGED head
  /\ \/ /\ ContainsId(id)
        /\ reply' = Reply("AlreadyQueued", id)
        /\ UNCHANGED <<entries, count>>
     \/ /\ ~ContainsId(id)
        /\ count >= Capacity
        /\ reply' = Reply("CapacityExhausted", id)
        /\ UNCHANGED <<entries, count>>
     \/ /\ ~ContainsId(id)
        /\ count < Capacity
        /\ entries' = [entries EXCEPT ![SlotAt(count)] = id]
        /\ count' = count + 1
        /\ reply' = Reply("Ok", id)

\* Mutant: wraps one slot late.
NextHeadLate == IF head + 1 > Capacity THEN 0 ELSE head + 1

\* The head index wraps after it is advanced (74-78).
NextHead == IF head + 1 >= Capacity THEN 0 ELSE head + 1

Dequeue ==
  /\ UNCHANGED entries
  /\ \/ /\ count = 0
        /\ reply' = Reply("NoRunnableContext", reply.id)
        /\ UNCHANGED <<head, count>>
     \/ /\ count # 0
        /\ reply' = Reply("Ok", entries[head])
        /\ head' = NextHead
        /\ count' = count - 1

Next == Dequeue \/ \E id \in Ids : Enqueue(id)

Spec == Init /\ [][Next]_vars

-----------------------------------------------------------------------------

Statuses == {"Ok", "AlreadyQueued", "CapacityExhausted", "NoRunnableContext"}

\* The ring's fields keep their types and the indices stay inside the array.
TypeOK ==
  /\ entries \in [Slots -> Ids]
  /\ head \in Slots
  /\ count \in 0 .. Capacity
  /\ reply \in [status : Statuses, id : Ids]

\* No id occupies two slots of the window: a context that two Enqueue calls name is
\* dispatched once (Enqueue's Contains test, 49-52, over every wrap of the ring).
WindowDistinct ==
  \A i, j \in 0 .. count - 1 :
    entries[SlotAt(i)] = entries[SlotAt(j)] => i = j

\* The window read from the head, as a sequence: the refinement mapping.
Window == [i \in 1 .. count |-> entries[SlotAt(i - 1)]]

Fifo == INSTANCE FifoQueue WITH queue <- Window

\* The ring implements the bounded duplicate-free FIFO queue: whatever the wraps, every
\* call returns what the abstract queue returns and ids leave in the order they came.
ImplementsFifo == Fifo!Spec
=============================================================================
