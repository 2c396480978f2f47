------------------------------ MODULE FifoQueue ------------------------------
(***************************************************************************)
(* What a ready queue promises its scheduler: a bounded sequence of         *)
(* distinct context ids, oldest first.  Enqueue refuses a duplicate before  *)
(* it looks at the capacity; Dequeue returns the oldest id.  The ring of    *)
(* Scheduling/Queue.concept (module ReadyQueue) implements this.            *)
(***************************************************************************)
EXTENDS Naturals, Sequences

CONSTANTS
  Ids,        \* the ContextId values
  Capacity    \* template parameter of FifoReadyQueue<Capacity>

VARIABLES
  queue,      \* the ids waiting for a decision, oldest first
  reply       \* what the last call returned: a status and an id

vars == <<queue, reply>>

Reply(status, id) == [status |-> status, id |-> id]

Queued(id) == \E i \in 1..Len(queue) : queue[i] = id

Init ==
  /\ queue = << >>
  /\ \E id \in Ids : reply = Reply("Ok", id)

Enqueue(id) ==
  IF Queued(id)
  THEN reply' = Reply("AlreadyQueued", id) /\ UNCHANGED queue
  ELSE IF Len(queue) >= Capacity
  THEN reply' = Reply("CapacityExhausted", id) /\ UNCHANGED queue
  ELSE reply' = Reply("Ok", id) /\ queue' = Append(queue, id)

Dequeue ==
  \/ /\ queue = << >>
     /\ reply' = Reply("NoRunnableContext", reply.id)
     /\ UNCHANGED queue
  \/ /\ queue # << >>
     /\ reply' = Reply("Ok", Head(queue))
     /\ queue' = Tail(queue)

Next == Dequeue \/ \E id \in Ids : Enqueue(id)

Spec == Init /\ [][Next]_vars
=============================================================================
