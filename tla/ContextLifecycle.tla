-------------------------- MODULE ContextLifecycle --------------------------
(***************************************************************************)
(* What the scheduler promises about contexts and workers, without queue,   *)
(* gate, trace or pending flags (docs/library/DRAGONGOD-SCHEDULING.md,      *)
(* "Lifecycle and wakeups", and DRAGONGOD-WORKERS.md): a worker takes a     *)
(* Ready context that nobody holds, holds it while it is Running, and is    *)
(* the only one to move it on; a wake touches blocked contexts only; a      *)
(* Completed or Failed context never moves again.                           *)
(***************************************************************************)
EXTENDS Naturals

CONSTANTS
  Contexts,
  Workers,
  Nobody      \* held by a worker that holds no context

VARIABLES
  state,      \* lifecycle state of each context
  holding     \* the context each worker is running

vars == <<state, holding>>

Blocked == {"Waiting", "Sleeping"}
Released == {"Ready", "Completed", "Failed"} \cup Blocked

Init ==
  /\ state = [c \in Contexts |-> "Absent"]
  /\ holding = [w \in Workers |-> Nobody]

Admit(c) ==
  /\ state[c] = "Absent"
  /\ state' = [state EXCEPT ![c] = "Ready"]
  /\ UNCHANGED holding

\* One call may wake several contexts.
WakeSome ==
  /\ \E set \in SUBSET {c \in Contexts : state[c] \in Blocked} :
       state' = [c \in Contexts |-> IF c \in set THEN "Ready" ELSE state[c]]
  /\ UNCHANGED holding

Take(w, c) ==
  /\ holding[w] = Nobody
  /\ state[c] = "Ready"
  /\ state' = [state EXCEPT ![c] = "Running"]
  /\ holding' = [holding EXCEPT ![w] = c]

Give(w, c, to) ==
  /\ holding[w] = c
  /\ state[c] = "Running"
  /\ state' = [state EXCEPT ![c] = to]
  /\ holding' = [holding EXCEPT ![w] = Nobody]

Next ==
  \/ \E c \in Contexts : Admit(c)
  \/ WakeSome
  \/ \E w \in Workers, c \in Contexts : Take(w, c)
  \/ \E w \in Workers, c \in Contexts, to \in Released : Give(w, c, to)

Spec == Init /\ [][Next]_vars
=============================================================================
