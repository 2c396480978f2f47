----------------------------- MODULE ActuatorHost -----------------------------
(***************************************************************************)
(* ActuatorHost of libraries/DragonGod/Actuation/Core.concept, called by    *)
(* several threads.  Dispatch works under the allocation gate; Claim,       *)
(* Commit, Complete and Fail find their slot and then rely on one           *)
(* compare-exchange of its status, with other threads in between, and the   *)
(* reason is written after the exchange.                                    *)
(*                                                                          *)
(* The scan for a slot is one step: a published slot never changes its id,  *)
(* ids are not reused, and slots are published one after the other, so a    *)
(* scan answers what it would have answered at the moment it read the slot  *)
(* that matters.  The claim value a caller passes to Commit is data anyone  *)
(* can build ("the atomic slot transition remains the runtime arbiter even  *)
(* if a value is forged", 17-18): Commit takes any id and any authority.    *)
(***************************************************************************)
EXTENDS Integers, FiniteSets, Sequences

CONSTANTS
  Threads,
  Capacity,   \* slots of the host
  Reasons,    \* the Reason values callers pass
  NoReason,   \* Reason{0}, what an empty slot holds
  MaxId,      \* bound on the ids handed out
  Free        \* holder of the gate when nobody holds it

ASSUME HostAssumption ==
  /\ Capacity \in Nat
  /\ MaxId \in Nat
  /\ NoReason \notin Reasons
  /\ Free \notin Threads

VARIABLES
  nextId,     \* the id the next Dispatch takes
  gate,       \* holder of allocationGate
  slots,      \* the array of slots
  pc,         \* where each thread is
  call,       \* the call each thread is in
  granted,    \* history: claims handed out per id
  settled     \* history: reasons of the calls that answered Ok to settle an id

vars == <<nextId, gate, slots, pc, call, granted, settled>>

Slots == 1 .. Capacity
Ids == 1 .. MaxId

\* Codes of ActuationStatus that a slot takes.
Empty == 0
Allocating == 1
Pending == 2
Claimed == 3
Completed == 4
Failed == 5

NoCall == [op |-> "None", id |-> 0, slot |-> 0, reason |-> NoReason]

Init ==
  /\ nextId = 1
  /\ gate = Free
  /\ slots = [i \in Slots |-> [id |-> 0, status |-> Empty, reason |-> NoReason]]
  /\ pc = [t \in Threads |-> "idle"]
  /\ call = [t \in Threads |-> NoCall]
  /\ granted = [id \in Ids |-> 0]
  /\ settled = [id \in Ids |-> << >>]

Goto(t, from, to) == pc[t] = from /\ pc' = [pc EXCEPT ![t] = to]

\* The thread's call returns.
Return(t, from) == Goto(t, from, "idle") /\ call' = [call EXCEPT ![t] = NoCall]

-----------------------------------------------------------------------------
(* Dispatch.                                                                *)

BeginDispatch(t) ==
  /\ Goto(t, "idle", "allocate")
  /\ nextId <= MaxId
  /\ gate = Free
  /\ gate' = t
  /\ UNCHANGED <<nextId, slots, call, granted, settled>>

\* Mutant: the slot of a settled obligation is used again.
ReusableSlots == {i \in Slots : slots[i].status \in {Empty, Completed, Failed}}

EmptySlots == {i \in Slots : slots[i].status = Empty}

\* Every dispatch takes an id.  A denied one, or one that finds no slot, stores nothing.
Allocate(t, allowed, reason) ==
  /\ nextId' = nextId + 1
  /\ IF allowed /\ EmptySlots # {}
     THEN LET i == CHOOSE i \in EmptySlots : \A j \in EmptySlots : i <= j IN
          /\ Goto(t, "allocate", "fill")
          /\ call' = [call EXCEPT ![t] =
                        [op |-> "Dispatch", id |-> nextId, slot |-> i, reason |-> reason]]
          /\ slots' = [slots EXCEPT ![i].status = Allocating]
          /\ UNCHANGED gate
     ELSE Return(t, "allocate") /\ gate' = Free /\ UNCHANGED slots
  /\ UNCHANGED <<granted, settled>>

FillSlot(t) ==
  /\ Goto(t, "fill", "open")
  /\ slots' = [slots EXCEPT ![call[t].slot].id = call[t].id,
                            ![call[t].slot].reason = call[t].reason]
  /\ UNCHANGED <<nextId, gate, call, granted, settled>>

\* The release store of Pending, and the gate.
OpenSlot(t) ==
  /\ Return(t, "open")
  /\ slots' = [slots EXCEPT ![call[t].slot].status = Pending]
  /\ gate' = Free
  /\ UNCHANGED <<nextId, granted, settled>>

-----------------------------------------------------------------------------
(* Claim, Commit, Complete, Fail.                                           *)

Change(from, to) == [from |-> from, to |-> to]

\* Mutant: Fail stores the wrong code.
FailStoresDenied(op) ==
  CASE op = "Claim"    -> Change(Pending, Claimed)
    [] op = "Commit"   -> Change(Claimed, Completed)
    [] op = "Complete" -> Change(Pending, Completed)
    [] op = "Fail"     -> Change(Pending, 6)

\* The status each call expects in its exchange and the one it stores.
Exchange(op) ==
  CASE op = "Claim"    -> Change(Pending, Claimed)
    [] op = "Commit"   -> Change(Claimed, Completed)
    [] op = "Complete" -> Change(Pending, Completed)
    [] op = "Fail"     -> Change(Pending, Failed)

Published(i) == slots[i].status >= Pending

\* A call that finds no slot of its id answers Missing.
Miss(t, id) ==
  /\ pc[t] = "idle"
  /\ \A i \in Slots : Published(i) => slots[i].id # id
  /\ UNCHANGED vars

\* A call finds the slot of its id.  (A Commit whose claim has not the authority 1 ends here
\* with InvalidClaim and changes nothing.)
Seek(t, op, id, reason) ==
  /\ Goto(t, "idle", "exchange")
  /\ \E i \in Slots :
       /\ Published(i) /\ slots[i].id = id
       /\ call' = [call EXCEPT ![t] = [op |-> op, id |-> id, slot |-> i, reason |-> reason]]
  /\ UNCHANGED <<nextId, gate, slots, granted, settled>>

\* Mutant: the status is stored without being compared.
AlwaysExpected(i, status) == TRUE

Expected(i, status) == slots[i].status = status

\* Mutant: the reason is recorded before the exchange is known to have succeeded.
LoseStamps(t) ==
  LET i == call[t].slot IN
  /\ Return(t, "exchange")
  /\ ~Expected(i, Exchange(call[t].op).from)
  /\ slots' = [slots EXCEPT ![i].reason = call[t].reason]
  /\ UNCHANGED <<nextId, gate, granted, settled>>

\* The exchange fails: AlreadyClaimed or AlreadyCommitted.
Lose(t) ==
  LET i == call[t].slot IN
  /\ Return(t, "exchange")
  /\ ~Expected(i, Exchange(call[t].op).from)
  /\ UNCHANGED <<nextId, gate, slots, granted, settled>>

\* The exchange succeeds.  A claim is handed out; the other calls go on to the reason.
Win(t) ==
  LET i == call[t].slot
      id == call[t].id
      change == Exchange(call[t].op)
  IN  /\ pc[t] = "exchange"
      /\ Expected(i, change.from)
      /\ slots' = [slots EXCEPT ![i].status = change.to]
      /\ IF call[t].op = "Claim"
         THEN /\ Return(t, "exchange")
              /\ granted' = [granted EXCEPT ![id] = @ + 1]
              /\ UNCHANGED settled
         ELSE /\ Goto(t, "exchange", "stamp")
              /\ settled' = [settled EXCEPT ![id] = Append(@, call[t].reason)]
              /\ UNCHANGED <<call, granted>>
      /\ UNCHANGED <<nextId, gate>>

Stamp(t) ==
  /\ Return(t, "stamp")
  /\ slots' = [slots EXCEPT ![call[t].slot].reason = call[t].reason]
  /\ UNCHANGED <<nextId, gate, granted, settled>>

Next ==
  \E t \in Threads :
    \/ BeginDispatch(t)
    \/ \E allowed \in BOOLEAN, reason \in Reasons : Allocate(t, allowed, reason)
    \/ FillSlot(t)
    \/ OpenSlot(t)
    \/ \E op \in {"Claim", "Commit", "Complete", "Fail"}, id \in Ids, reason \in Reasons :
         Seek(t, op, id, reason)
    \/ \E id \in Ids : Miss(t, id)
    \/ Lose(t)
    \/ Win(t)
    \/ Stamp(t)

Spec == Init /\ [][Next]_vars

-----------------------------------------------------------------------------

\* Types of the host's fields and of the calls in progress.
TypeOK ==
  /\ nextId \in 1 .. MaxId + 1
  /\ gate \in {Free} \cup Threads
  /\ slots \in [Slots -> [id : 0 .. MaxId, status : Empty .. Failed,
                          reason : Reasons \cup {NoReason}]]
  /\ pc \in [Threads -> {"idle", "allocate", "fill", "open", "exchange", "stamp"}]
  /\ call \in [Threads -> [op : {"None", "Dispatch", "Claim", "Commit", "Complete", "Fail"},
                           id : 0 .. MaxId, slot : {0} \cup Slots,
                           reason : Reasons \cup {NoReason}]]
  /\ granted \in [Ids -> Nat]
  /\ settled \in [Ids -> Seq(Reasons)]

\* Exactly once: whatever threads race and whatever claim values they pass, an id's claim
\* is handed out once and one call at most answers Ok to settle it; no caller is told that
\* it completed an obligation that another one settled.
ExactlyOnce == \A id \in Ids : granted[id] <= 1 /\ Len(settled[id]) <= 1

\* The reason a slot ends with is the winner's: no thread that lost the race, or claimed
\* and never committed, can have its reason recorded, although the reason is written
\* outside any lock and after the exchange.
ReasonIsWinners ==
  \A i \in Slots :
    (slots[i].status \in {Completed, Failed}
       /\ ~\E t \in Threads : pc[t] = "stamp" /\ call[t].slot = i)
      => <<slots[i].reason>> = settled[slots[i].id]

StatusName(code) ==
  CASE code = Pending -> "Pending"
    [] code = Claimed -> "Claimed"
    [] code = Completed -> "Completed"
    [] code = Failed -> "Failed"

\* What Status(id) answers: the first published slot with the id.
Status(id) ==
  LET found == {i \in Slots : Published(i) /\ slots[i].id = id}
  IN  IF found = {} THEN "Unknown"
      ELSE StatusName(slots[CHOOSE i \in found : \A j \in found : i <= j].status)

Abstract == INSTANCE Obligations WITH state <- [id \in Ids |-> Status(id)]

\* What Status answers follows the obligation lifecycle: an accepted id never disappears
\* or shows another one's status, and no race skips or repeats a transition.
ImplementsObligations == Abstract!Spec
=============================================================================
