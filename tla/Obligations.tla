----------------------------- MODULE Obligations -----------------------------
(***************************************************************************)
(* What an actuator host promises about obligations (docs/design/           *)
(* DRAGONGOD-SYNCHRONIZATION-DIRECTION.md: "stable side-effect obligations  *)
(* and internal claim/commit authority"): an accepted obligation is Pending *)
(* until one caller claims or settles it, a claimed one is settled once, by *)
(* a commit, and nothing settled moves again.  No slots, no gate, no races. *)
(***************************************************************************)
EXTENDS Naturals, FiniteSets

CONSTANTS
  Ids,
  Capacity    \* obligations the host can hold

VARIABLE state    \* of each id; "Unknown" until it is accepted

Accepted == {id \in Ids : state[id] # "Unknown"}

Init == state = [id \in Ids |-> "Unknown"]

Move(id, from, to) == state[id] = from /\ state' = [state EXCEPT ![id] = to]

Accept(id) == Cardinality(Accepted) < Capacity /\ Move(id, "Unknown", "Pending")

Claim(id) == Move(id, "Pending", "Claimed")

Commit(id) == Move(id, "Claimed", "Completed")

Settle(id) == \E to \in {"Completed", "Failed"} : Move(id, "Pending", to)

Next == \E id \in Ids : Accept(id) \/ Claim(id) \/ Commit(id) \/ Settle(id)

Spec == Init /\ [][Next]_state
=============================================================================
