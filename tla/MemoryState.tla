----------------------------- MODULE MemoryState -----------------------------
(***************************************************************************)
(* MemoryState of libraries/DragonGod/Memory/State.concept: several threads *)
(* write keys and clear the dirty marks.  Write looks for the key without a *)
(* lock, updates an existing slot under the slot's writer lock, and inserts *)
(* under the insertion lock after looking again; ClearDirty takes no lock.  *)
(* Each atomic store is a step of its own, except those to a slot that is   *)
(* not yet occupied, which only ClearDirty can come between.  A scan for a  *)
(* key is one step: a slot that has become occupied keeps its key, so the   *)
(* scan answers what it would have answered when it read the slot.          *)
(*                                                                          *)
(* A writer holds the insertion lock until it has counted its change, the   *)
(* writer lock until it returns; releasing a lock is part of the step       *)
(* before it.                                                               *)
(***************************************************************************)
EXTENDS Integers, FiniteSets

CONSTANTS
  Threads,
  Keys,
  NoKey,        \* MemoryKey{0}, what an empty slot holds
  Values,
  NoValue,      \* the value of an empty slot
  Capacity,     \* slots
  MaxRevision,  \* bound: no new Write once the revision has reached it
  Free          \* holder of a lock when nobody holds it

ASSUME MemoryAssumption ==
  /\ Capacity \in Nat
  /\ MaxRevision \in Nat
  /\ IsFiniteSet(Threads)
  /\ NoKey \notin Keys /\ NoValue \notin Values /\ Free \notin Threads

VARIABLES
  key, value, occupied, dirty,  \* the fields of each slot
  writer,     \* holder of each slot's writer lock
  insertion,  \* holder of the insertion lock
  revision,
  pc,         \* where each thread is
  call,       \* the key and value each thread is writing
  at,         \* the slot each thread is working on, 0 if none
  changes,    \* history: writes that changed what readers see
  changed     \* history: the slot's value was replaced since ClearDirty last passed it

slotVars == <<key, value, occupied, dirty>>
locks == <<writer, insertion>>
threadVars == <<pc, call, at>>
vars == <<slotVars, locks, revision, threadVars, changes, changed>>

Slots == 1 .. Capacity
NoCall == [key |-> NoKey, value |-> NoValue]

Init ==
  /\ key = [i \in Slots |-> NoKey]
  /\ value = [i \in Slots |-> NoValue]
  /\ occupied = [i \in Slots |-> FALSE]
  /\ dirty = [i \in Slots |-> FALSE]
  /\ writer = [i \in Slots |-> Free]
  /\ insertion = Free
  /\ revision = 0
  /\ pc = [t \in Threads |-> "idle"]
  /\ call = [t \in Threads |-> NoCall]
  /\ at = [t \in Threads |-> 0]
  /\ changes = 0
  /\ changed = [i \in Slots |-> FALSE]

Goto(t, from, to) == pc[t] = from /\ pc' = [pc EXCEPT ![t] = to]

\* SlotMatches.
Matching(k) == {i \in Slots : occupied[i] /\ key[i] = k}
First(set) == CHOOSE i \in set : \A j \in set : i <= j

\* The call returns and its guards release what the thread holds.
Return(t, from) ==
  /\ Goto(t, from, "idle")
  /\ call' = [call EXCEPT ![t] = NoCall]
  /\ at' = [at EXCEPT ![t] = 0]
  /\ writer' = [i \in Slots |-> IF writer[i] = t THEN Free ELSE writer[i]]
  /\ insertion' = IF insertion = t THEN Free ELSE insertion

-----------------------------------------------------------------------------
(* Write.                                                                   *)

\* The scan without a lock.
BeginWrite(t, k, v) ==
  /\ revision < MaxRevision
  /\ call' = [call EXCEPT ![t] = [key |-> k, value |-> v]]
  /\ IF Matching(k) # {}
     THEN Goto(t, "idle", "lock slot") /\ at' = [at EXCEPT ![t] = First(Matching(k))]
     ELSE Goto(t, "idle", "lock insertion") /\ UNCHANGED at
  /\ UNCHANGED <<slotVars, locks, revision, changes, changed>>

LockInsertion(t) ==
  /\ Goto(t, "lock insertion", "look again")
  /\ insertion = Free
  /\ insertion' = t
  /\ UNCHANGED <<slotVars, writer, revision, call, at, changes, changed>>

\* Mutant: the key is not looked for again under the lock.
NothingLookedFor(t) == {}

LookedFor(t) == Matching(call[t].key)

FindAgain(t) ==
  /\ LookedFor(t) # {}
  /\ Goto(t, "look again", "lock slot")
  /\ at' = [at EXCEPT ![t] = First(LookedFor(t))]
  /\ UNCHANGED <<slotVars, locks, revision, call, changes, changed>>

\* Mutant: a slot without a dirty mark is taken for an empty one.
CleanSlots == {i \in Slots : ~dirty[i]}

EmptySlots == {i \in Slots : ~occupied[i]}

\* The first empty slot gets its key, its value and its dirty mark.
FillSlot(t) ==
  /\ LookedFor(t) = {}
  /\ EmptySlots # {}
  /\ Goto(t, "look again", "open")
  /\ LET i == First(EmptySlots) IN
       /\ at' = [at EXCEPT ![t] = i]
       /\ key' = [key EXCEPT ![i] = call[t].key]
       /\ value' = [value EXCEPT ![i] = call[t].value]
       /\ dirty' = [dirty EXCEPT ![i] = TRUE]
  /\ UNCHANGED <<occupied, locks, revision, call, changes, changed>>

\* CapacityExhausted.
RefuseWrite(t) ==
  /\ LookedFor(t) = {}
  /\ EmptySlots = {}
  /\ Return(t, "look again")
  /\ UNCHANGED <<slotVars, revision, changes, changed>>

\* The release store of occupied, which makes the key visible.
OpenSlot(t) ==
  /\ Goto(t, "open", "count")
  /\ occupied' = [occupied EXCEPT ![at[t]] = TRUE]
  /\ changes' = changes + 1
  /\ UNCHANGED <<key, value, dirty, locks, revision, call, at, changed>>

\* Mutant: updates of a slot do not exclude each other.
AnyWriter(i) == TRUE

WriterIsFree(i) == writer[i] = Free

LockSlot(t) ==
  /\ Goto(t, "lock slot", "compare")
  /\ WriterIsFree(at[t])
  /\ writer' = [writer EXCEPT ![at[t]] = t]
  /\ UNCHANGED <<slotVars, insertion, revision, call, at, changes, changed>>

\* An equal value ends the write.
CompareEqual(t) ==
  /\ pc[t] = "compare"
  /\ value[at[t]] = call[t].value
  /\ Return(t, "compare")
  /\ UNCHANGED <<slotVars, revision, changes, changed>>

CompareOther(t) ==
  /\ pc[t] = "compare"
  /\ value[at[t]] # call[t].value
  /\ Goto(t, "compare", "store")
  /\ UNCHANGED <<slotVars, locks, revision, call, at, changes, changed>>

StoreValue(t) ==
  /\ Goto(t, "store", "mark")
  /\ LET replaced == value[at[t]] # call[t].value IN
       /\ value' = [value EXCEPT ![at[t]] = call[t].value]
       /\ changes' = IF replaced THEN changes + 1 ELSE changes
       /\ changed' = IF replaced THEN [changed EXCEPT ![at[t]] = TRUE] ELSE changed
  /\ UNCHANGED <<key, occupied, dirty, locks, revision, call, at>>

\* Mutant: only an insertion marks its slot.
MarkNothing(t) ==
  /\ Goto(t, "mark", "count")
  /\ UNCHANGED <<slotVars, locks, revision, call, at, changes, changed>>

MarkDirty(t) ==
  /\ Goto(t, "mark", "count")
  /\ dirty' = [dirty EXCEPT ![at[t]] = TRUE]
  /\ UNCHANGED <<key, value, occupied, locks, revision, call, at, changes, changed>>

CountChange(t) ==
  /\ Return(t, "count")
  /\ revision' = revision + 1
  /\ UNCHANGED <<slotVars, changes, changed>>

-----------------------------------------------------------------------------
(* ClearDirty.                                                              *)

BeginClear(t) ==
  /\ Capacity > 0
  /\ Goto(t, "idle", "clear")
  /\ at' = [at EXCEPT ![t] = 1]
  /\ UNCHANGED <<slotVars, locks, revision, call, changes, changed>>

\* Mutant: the sweep runs one slot too far.
PastLast(i) == i > Capacity

AtLast(i) == i >= Capacity

ClearSlot(t) ==
  /\ pc[t] = "clear"
  /\ dirty' = [dirty EXCEPT ![at[t]] = FALSE]
  /\ changed' = [changed EXCEPT ![at[t]] = FALSE]
  /\ IF AtLast(at[t])
     THEN Return(t, "clear")
     ELSE at' = [at EXCEPT ![t] = @ + 1] /\ UNCHANGED <<pc, call, locks>>
  /\ UNCHANGED <<key, value, occupied, revision, changes>>

Next ==
  \E t \in Threads :
    \/ \E k \in Keys, v \in Values : BeginWrite(t, k, v)
    \/ LockInsertion(t)
    \/ FindAgain(t)
    \/ FillSlot(t)
    \/ RefuseWrite(t)
    \/ OpenSlot(t)
    \/ LockSlot(t)
    \/ CompareEqual(t)
    \/ CompareOther(t)
    \/ StoreValue(t)
    \/ MarkDirty(t)
    \/ CountChange(t)
    \/ BeginClear(t)
    \/ ClearSlot(t)

Spec == Init /\ [][Next]_vars

-----------------------------------------------------------------------------

\* Types of the slots, the locks and the calls in progress.
TypeOK ==
  /\ key \in [Slots -> Keys \cup {NoKey}]
  /\ value \in [Slots -> Values \cup {NoValue}]
  /\ occupied \in [Slots -> BOOLEAN]
  /\ dirty \in [Slots -> BOOLEAN]
  /\ writer \in [Slots -> Threads \cup {Free}]
  /\ insertion \in Threads \cup {Free}
  /\ revision \in Nat
  /\ pc \in [Threads -> {"idle", "lock insertion", "look again", "open", "lock slot",
                         "compare", "store", "mark", "count", "clear"}]
  /\ call \in [Threads -> [key : Keys \cup {NoKey}, value : Values \cup {NoValue}]]
  /\ at \in [Threads -> {0} \cup Slots]
  /\ changes \in Nat
  /\ changed \in [Slots -> BOOLEAN]

\* Two threads that both find a key absent insert it once: a second slot for the key would
\* split its later writes, dirty marks and reads.
KeysAreUnique ==
  \A i, j \in Slots : occupied[i] /\ occupied[j] /\ key[i] = key[j] => i = j

\* The revision counts the writes that changed something, exactly: what is missing from it
\* are the changes whose writers are still between their store and the increment ("Equal
\* writes do not increment revision", docs/design/DRAGONGOD-DOMINATUS-PARITY.md:27).
RevisionCountsChanges ==
  changes = revision + Cardinality({t \in Threads : pc[t] \in {"mark", "count"}})

\* A replaced value is dirty until a later ClearDirty passes its slot, unless its writer is
\* still on the way to the mark: the mark follows the value, so a concurrent ClearDirty can
\* report one change too many and never one too few.
ReplacedValuesAreDirty ==
  \A i \in Slots :
    changed[i] => dirty[i] \/ \E t \in Threads : pc[t] = "mark" /\ at[t] = i

\* What Read(k) answers.
Read(k) == IF Matching(k) = {} THEN NoValue ELSE value[First(Matching(k))]

Board == INSTANCE Blackboard WITH
  Absent <- NoValue, contents <- [k \in Keys |-> Read(k)]

\* Readers see a bounded map in which every write takes effect at once, whichever path it
\* takes: no half inserted key, no value under a wrong key, no key that disappears.
ImplementsBlackboard == Board!Spec

\* What the test says of a first write (agentic_kernel.concept_test:94, "a changed key is
\* dirty"): a key is dirty when it becomes visible.
NewKeysAreDirty == [][\A i \in Slots : ~occupied[i] /\ occupied'[i] => dirty'[i]]_vars
=============================================================================
