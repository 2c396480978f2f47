--------------------------- MODULE MemoryStateProofs ---------------------------
(***************************************************************************)
(* For every number of threads, keys, values and slots: no key gets two     *)
(* slots, the revision counts the changes exactly, a replaced value is      *)
(* dirty until a later sweep, and readers see a map whose writes take       *)
(* effect at one moment.                                                    *)
(*                                                                          *)
(* IInv adds what a thread may rely on at each place of a write: which lock *)
(* it holds, that the slot it found is still the key's, that the slot it    *)
(* fills is nobody else's, and that the value it is about to store differs  *)
(* from the one in the slot.                                                *)
(***************************************************************************)
EXTENDS MemoryState, FiniteSetTheorems, WellFoundedInduction, TLAPS

\* What a thread relies on at its place in a call.
ThreadOK(t) ==
  /\ pc[t] \in {"look again", "open"} => insertion = t
  /\ pc[t] \notin {"idle", "clear"} => call[t].key \in Keys /\ call[t].value \in Values
  /\ pc[t] = "open" =>
       /\ at[t] \in Slots /\ ~occupied[at[t]]
       /\ key[at[t]] = call[t].key /\ value[at[t]] = call[t].value
       /\ \A i \in Slots : occupied[i] => key[i] # call[t].key
  /\ pc[t] \in {"lock slot", "compare", "store", "mark"} =>
       at[t] \in Slots /\ occupied[at[t]] /\ key[at[t]] = call[t].key
  /\ pc[t] \in {"compare", "store", "mark"} => writer[at[t]] = t
  /\ pc[t] = "store" => value[at[t]] # call[t].value
  /\ pc[t] = "clear" => at[t] \in Slots

ThreadsOK == \A t \in Threads : ThreadOK(t)

OccupiedFilled == \A i \in Slots : occupied[i] => key[i] \in Keys /\ value[i] \in Values

IInv ==
  /\ TypeOK
  /\ ThreadsOK
  /\ OccupiedFilled
  /\ KeysAreUnique
  /\ RevisionCountsChanges
  /\ ReplacedValuesAreDirty

\* A set of naturals has a least element (its initial segments are well founded).
LEMMA LeastExists ==
  ASSUME NEW S, S \subseteq Nat, S # {} PROVE \E m \in S : \A k \in S : m <= k
<1> DEFINE Upto(m) == S \cap (0 .. m)
           T == {Upto(m) : m \in S}
<1>1. \A m \in S : Upto(m) \in FiniteSubsetsOf(Nat)
  <2>1. TAKE m \in S
  <2>2. IsFiniteSet(0 .. m)
    BY FS_Interval
  <2>3. Upto(m) \subseteq 0 .. m /\ Upto(m) \subseteq Nat
    OBVIOUS
  <2>4. QED
    BY <2>2, <2>3, FS_Subset DEF FiniteSubsetsOf
<1>2. T \subseteq FiniteSubsetsOf(Nat) /\ T # {}
  BY <1>1
<1>3. PICK x \in T : \A y \in T : ~ (<<y, x>> \in StrictSubsetOrdering(Nat))
  <2> HIDE DEF T
  <2>1. QED
    BY <1>2, FS_StrictSubsetOrderingWellFounded, WFMin
<1>4. PICK m \in S : x = Upto(m)
  BY <1>3
<1>5. \A a, b \in Nat : a \in 0 .. a /\ (a < b => 0 .. a \subseteq 0 .. b /\ b \notin 0 .. a) /\ (a < b \/ b <= a)
  OBVIOUS
<1>6. ASSUME NEW k \in S, k < m PROVE FALSE
  <2>1. k \in Nat /\ m \in Nat
    OBVIOUS
  <2>2. Upto(k) \subseteq Upto(m) /\ m \in Upto(m) /\ m \notin Upto(k)
    BY <1>5, <1>6, <2>1
  <2>3. Upto(k) \in T /\ Upto(k) \in SUBSET Nat /\ Upto(m) \in SUBSET Nat
    BY <1>1 DEF FiniteSubsetsOf
  <2> HIDE DEF Upto, T
  <2>4. <<Upto(k), x>> \in StrictSubsetOrdering(Nat)
    BY <1>4, <2>2, <2>3 DEF StrictSubsetOrdering
  <2>5. QED
    BY <1>3, <2>3, <2>4
<1>7. QED
  BY <1>5, <1>6

\* The slot a scan finds is one of those it looks for.
LEMMA FirstIsOne == ASSUME NEW set, set \subseteq Slots, set # {} PROVE First(set) \in set
<1>1. set \subseteq Nat
  BY MemoryAssumption DEF Slots
<1>2. \E i \in set : \A j \in set : i <= j
  BY <1>1, LeastExists
<1>3. QED
  BY <1>2 DEF First

\* An empty board, and nobody writing.
LEMMA InitIInv == Init => IInv
<1> SUFFICES ASSUME Init PROVE IInv
  OBVIOUS
<1>1. TypeOK
  BY DEF Init, TypeOK, NoCall
<1>2. ThreadsOK
  BY DEF Init, ThreadsOK, ThreadOK
<1>3. OccupiedFilled /\ KeysAreUnique /\ ReplacedValuesAreDirty
  BY DEF Init, OccupiedFilled, KeysAreUnique, ReplacedValuesAreDirty
<1>4. RevisionCountsChanges
  <2>1. {t \in Threads : pc[t] \in {"mark", "count"}} = {}
    BY DEF Init
  <2>2. Cardinality({t \in Threads : pc[t] \in {"mark", "count"}}) = 0
    BY <2>1, FS_EmptySet
  <2>3. QED
    BY <2>2 DEF Init, RevisionCountsChanges
<1>5. QED
  BY <1>1, <1>2, <1>3, <1>4 DEF IInv

-----------------------------------------------------------------------------
(* The count of changes on their way to the revision.                       *)

Uncounted == {t \in Threads : pc[t] \in {"mark", "count"}}

LEMMA UncountedFinite == IInv => IsFiniteSet(Uncounted) /\ Cardinality(Uncounted) \in Nat
<1>1. Uncounted \subseteq Threads
  BY DEF Uncounted
<1>2. QED
  BY <1>1, MemoryAssumption, FS_Subset, FS_CardinalityType

\* Nobody comes to or leaves the steps between a change and its count.
LEMMA CountStays ==
  ASSUME IInv, UNCHANGED <<changes, revision>>,
         \A u \in Threads : pc'[u] \in {"mark", "count"} <=> pc[u] \in {"mark", "count"}
  PROVE  RevisionCountsChanges'
<1>1. {u \in Threads : pc'[u] \in {"mark", "count"}} = {u \in Threads : pc[u] \in {"mark", "count"}}
  OBVIOUS
<1>2. QED
  BY <1>1 DEF IInv, RevisionCountsChanges

\* A thread changes a value and has not counted it yet.
LEMMA CountPending ==
  ASSUME IInv, NEW t \in Threads, changes' = changes + 1, UNCHANGED revision,
         pc[t] \notin {"mark", "count"}, pc'[t] \in {"mark", "count"},
         \A u \in Threads : u # t => pc'[u] = pc[u]
  PROVE  RevisionCountsChanges'
<1>1. Uncounted' = Uncounted \cup {t} /\ t \notin Uncounted
  BY DEF Uncounted
<1>2. Cardinality(Uncounted \cup {t}) = Cardinality(Uncounted) + 1
  BY <1>1, UncountedFinite, FS_AddElement
<1>3. changes = revision + Cardinality(Uncounted)
  BY DEF IInv, RevisionCountsChanges, Uncounted
<1>4. PICK n \in Nat : n = Cardinality(Uncounted)
  BY UncountedFinite
<1>5. changes' = revision' + Cardinality(Uncounted')
  <2>1. Cardinality(Uncounted') = n + 1
    BY <1>1, <1>2, <1>4
  <2>2. changes = revision + n /\ changes \in Nat /\ revision \in Nat
    BY <1>3, <1>4 DEF IInv, TypeOK
  <2>3. \A c, r, m \in Nat : c = r + m => c + 1 = r + (m + 1)
    OBVIOUS
  <2>4. QED
    BY <2>1, <2>2, <2>3
<1>6. QED
  BY <1>5 DEF RevisionCountsChanges, Uncounted

\* A thread counts its change.
LEMMA CountDone ==
  ASSUME IInv, NEW t \in Threads, UNCHANGED changes, revision' = revision + 1,
         pc[t] \in {"mark", "count"}, pc'[t] \notin {"mark", "count"},
         \A u \in Threads : u # t => pc'[u] = pc[u]
  PROVE  RevisionCountsChanges'
<1>1. Uncounted' = Uncounted \ {t} /\ t \in Uncounted
  BY DEF Uncounted
<1>2. Cardinality(Uncounted \ {t}) = Cardinality(Uncounted) - 1
  BY <1>1, UncountedFinite, FS_RemoveElement
<1>3. changes = revision + Cardinality(Uncounted)
  BY DEF IInv, RevisionCountsChanges, Uncounted
<1>4. PICK n \in Nat : n = Cardinality(Uncounted)
  BY UncountedFinite
<1>5. changes' = revision' + Cardinality(Uncounted')
  <2>1. Cardinality(Uncounted') = n - 1
    BY <1>1, <1>2, <1>4
  <2>2. changes = revision + n /\ changes \in Nat /\ revision \in Nat
    BY <1>3, <1>4 DEF IInv, TypeOK
  <2>3. \A c, r, m \in Nat : c = r + m => c = (r + 1) + (m - 1)
    OBVIOUS
  <2>4. QED
    BY <2>1, <2>2, <2>3
<1>6. QED
  BY <1>5 DEF RevisionCountsChanges, Uncounted

-----------------------------------------------------------------------------
(* Steps that leave the slots alone.                                        *)

\* Only the thread that moves has something to show, if the others keep their locks.
Others(t) ==
  /\ \A u \in Threads : u # t => pc'[u] = pc[u] /\ call'[u] = call[u] /\ at'[u] = at[u]
  /\ \A u \in Threads : u # t /\ insertion = u => insertion' = u
  /\ \A u \in Threads, i \in Slots : u # t /\ writer[i] = u => writer'[i] = u

LEMMA QuietKeeps ==
  ASSUME IInv, NEW t \in Threads, UNCHANGED <<slotVars, changed>>,
         Others(t), TypeOK', ThreadOK(t)', pc[t] # "mark", RevisionCountsChanges'
  PROVE  IInv'
<1>1. UNCHANGED <<key, value, occupied, dirty, changed>>
  BY DEF slotVars
<1>2. ASSUME NEW u \in Threads, u # t PROVE ThreadOK(u)'
  <2>1. ThreadOK(u)
    BY DEF IInv, ThreadsOK
  <2>2. /\ pc'[u] = pc[u] /\ call'[u] = call[u] /\ at'[u] = at[u]
        /\ insertion = u => insertion' = u
        /\ \A i \in Slots : writer[i] = u => writer'[i] = u
    BY <1>2 DEF Others
  <2>3. /\ pc'[u] \in {"look again", "open"} => insertion' = u
        /\ pc'[u] \in {"compare", "store", "mark"} => writer'[at'[u]] = u
    BY <2>1, <2>2 DEF ThreadOK
  <2>4. QED
    BY <1>1, <2>1, <2>2, <2>3 DEF ThreadOK
<1>3. ThreadsOK'
  BY <1>2 DEF ThreadsOK
<1>4. OccupiedFilled' /\ KeysAreUnique'
  BY <1>1 DEF IInv, OccupiedFilled, KeysAreUnique
<1>5. ReplacedValuesAreDirty'
  <2>1. \A u \in Threads : pc[u] = "mark" => pc'[u] = "mark" /\ at'[u] = at[u]
    BY DEF Others
  <2>2. QED
    BY <1>1, <2>1 DEF IInv, ReplacedValuesAreDirty
<1>6. QED
  BY <1>3, <1>4, <1>5 DEF IInv

\* The scan without a lock finds the key's slot, or none.
LEMMA BeginWriteKeeps ==
  ASSUME IInv, NEW t \in Threads, NEW k \in Keys, NEW v \in Values, BeginWrite(t, k, v) PROVE IInv'
<1> USE DEF BeginWrite, Goto
<1>0. Matching(k) # {} => First(Matching(k)) \in Slots /\ occupied[First(Matching(k))] /\ key[First(Matching(k))] = k
  BY FirstIsOne DEF Matching
<1>1. TypeOK'
  BY <1>0 DEF IInv, TypeOK, slotVars, locks
<1>2. Others(t)
  BY DEF Others, IInv, TypeOK, locks
<1>3. ThreadOK(t)'
  BY <1>0 DEF ThreadOK, IInv, TypeOK, slotVars, locks
<1>4. RevisionCountsChanges'
  <2>1. \A u \in Threads : pc'[u] \in {"mark", "count"} <=> pc[u] \in {"mark", "count"}
    BY DEF IInv, TypeOK
  <2>2. QED
    BY <2>1, CountStays
<1>5. QED
  BY <1>1, <1>2, <1>3, <1>4, QuietKeeps

\* The insertion lock was free: nobody else is past it.
LEMMA LockInsertionKeeps ==
  ASSUME IInv, NEW t \in Threads, LockInsertion(t) PROVE IInv'
<1> USE DEF LockInsertion, Goto
<1>1. TypeOK'
  BY DEF IInv, TypeOK, slotVars, locks
<1>2. Others(t)
  BY MemoryAssumption DEF Others, IInv, TypeOK, locks
<1>3. ThreadOK(t)'
  BY DEF ThreadOK, IInv, TypeOK, ThreadsOK, slotVars, locks
<1>4. RevisionCountsChanges'
  <2>1. \A u \in Threads : pc'[u] \in {"mark", "count"} <=> pc[u] \in {"mark", "count"}
    BY DEF IInv, TypeOK
  <2>2. QED
    BY <2>1, CountStays
<1>5. QED
  BY <1>1, <1>2, <1>3, <1>4, QuietKeeps

\* The second look finds a slot that somebody else has opened meanwhile.
LEMMA FindAgainKeeps ==
  ASSUME IInv, NEW t \in Threads, FindAgain(t) PROVE IInv'
<1> USE DEF FindAgain, Goto
<1>0. /\ First(LookedFor(t)) \in Slots /\ occupied[First(LookedFor(t))]
      /\ key[First(LookedFor(t))] = call[t].key
  BY FirstIsOne DEF LookedFor, Matching
<1>1. TypeOK'
  BY <1>0 DEF IInv, TypeOK, slotVars, locks
<1>2. Others(t)
  BY DEF Others, IInv, TypeOK, locks
<1>3. ThreadOK(t)'
  BY <1>0 DEF ThreadOK, IInv, TypeOK, ThreadsOK, slotVars, locks
<1>4. RevisionCountsChanges'
  <2>1. \A u \in Threads : pc'[u] \in {"mark", "count"} <=> pc[u] \in {"mark", "count"}
    BY DEF IInv, TypeOK
  <2>2. QED
    BY <2>1, CountStays
<1>5. QED
  BY <1>1, <1>2, <1>3, <1>4, QuietKeeps

\* What a return leaves behind: the thread is idle and the locks it held are free.
LEMMA ReturnEffect ==
  ASSUME IInv, NEW t \in Threads, NEW from, Return(t, from)
  PROVE  /\ Others(t) /\ ThreadOK(t)' /\ pc'[t] = "idle" /\ pc[t] = from
         /\ pc' \in [Threads -> {"idle", "lock insertion", "look again", "open", "lock slot",
                                 "compare", "store", "mark", "count", "clear"}]
         /\ call' \in [Threads -> [key : Keys \cup {NoKey}, value : Values \cup {NoValue}]]
         /\ at' \in [Threads -> {0} \cup Slots]
         /\ writer' \in [Slots -> Threads \cup {Free}]
         /\ insertion' \in Threads \cup {Free}
<1> USE DEF Return, Goto
<1>1. Others(t)
  BY DEF Others, IInv, TypeOK
<1>2. pc'[t] = "idle" /\ pc[t] = from
  BY DEF IInv, TypeOK
<1>3. ThreadOK(t)'
  BY <1>2 DEF ThreadOK
<1>4. QED
  BY <1>1, <1>2, <1>3 DEF IInv, TypeOK, NoCall

\* A board without an empty slot stays as it is.
LEMMA RefuseWriteKeeps ==
  ASSUME IInv, NEW t \in Threads, RefuseWrite(t) PROVE IInv'
<1>1. Return(t, "look again") /\ UNCHANGED <<slotVars, changes, changed>> /\ revision' = revision
  BY DEF RefuseWrite
<1>2. TypeOK'
  BY <1>1, ReturnEffect DEF IInv, TypeOK, slotVars
<1>3. RevisionCountsChanges'
  <2>1. \A u \in Threads : u # t => pc'[u] = pc[u]
    BY <1>1, ReturnEffect DEF Others
  <2>2. QED
    BY <1>1, <2>1, ReturnEffect, CountStays
<1>4. pc[t] # "mark" /\ Others(t) /\ ThreadOK(t)'
  <2>1. Others(t)
    BY <1>1, ReturnEffect
  <2>2. ThreadOK(t)'
    BY <1>1, ReturnEffect
  <2>3. pc[t] # "mark"
    BY <1>1 DEF Return, Goto
  <2>4. QED
    BY <2>1, <2>2, <2>3
<1>5. UNCHANGED <<slotVars, changed>>
  BY <1>1
<1>6. QED
  BY <1>2, <1>3, <1>4, <1>5, QuietKeeps

\* A writer takes the lock of a slot that nobody else is writing.
LEMMA LockSlotKeeps ==
  ASSUME IInv, NEW t \in Threads, LockSlot(t) PROVE IInv'
<1> USE DEF LockSlot, Goto
<1>0. at[t] \in Slots /\ occupied[at[t]] /\ key[at[t]] = call[t].key /\ writer[at[t]] = Free
  BY DEF IInv, ThreadsOK, ThreadOK, WriterIsFree
<1>1. TypeOK'
  BY <1>0 DEF IInv, TypeOK, slotVars, locks
<1>2. Others(t)
  <2>1. \A u \in Threads, i \in Slots : writer[i] = u => i # at[t]
    BY <1>0, MemoryAssumption
  <2>2. QED
    BY <2>1 DEF Others, IInv, TypeOK
<1>3. ThreadOK(t)'
  BY <1>0 DEF ThreadOK, IInv, TypeOK, ThreadsOK, slotVars, locks
<1>4. RevisionCountsChanges'
  <2>1. \A u \in Threads : pc'[u] \in {"mark", "count"} <=> pc[u] \in {"mark", "count"}
    BY DEF IInv, TypeOK
  <2>2. QED
    BY <2>1, CountStays
<1>5. QED
  BY <1>1, <1>2, <1>3, <1>4, QuietKeeps

\* An equal value changes nothing and counts nothing.
LEMMA CompareEqualKeeps ==
  ASSUME IInv, NEW t \in Threads, CompareEqual(t) PROVE IInv'
<1>1. Return(t, "compare") /\ UNCHANGED <<slotVars, changes, changed>> /\ revision' = revision
  BY DEF CompareEqual
<1>2. TypeOK'
  BY <1>1, ReturnEffect DEF IInv, TypeOK, slotVars
<1>3. RevisionCountsChanges'
  <2>1. \A u \in Threads : u # t => pc'[u] = pc[u]
    BY <1>1, ReturnEffect DEF Others
  <2>2. QED
    BY <1>1, <2>1, ReturnEffect, CountStays
<1>4. pc[t] # "mark" /\ Others(t) /\ ThreadOK(t)'
  <2>1. Others(t)
    BY <1>1, ReturnEffect
  <2>2. ThreadOK(t)'
    BY <1>1, ReturnEffect
  <2>3. pc[t] # "mark"
    BY <1>1 DEF Return, Goto
  <2>4. QED
    BY <2>1, <2>2, <2>3
<1>5. UNCHANGED <<slotVars, changed>>
  BY <1>1
<1>6. QED
  BY <1>2, <1>3, <1>4, <1>5, QuietKeeps

\* The value differs, and only the holder of the lock can change it.
LEMMA CompareOtherKeeps ==
  ASSUME IInv, NEW t \in Threads, CompareOther(t) PROVE IInv'
<1> USE DEF CompareOther, Goto
<1>1. TypeOK'
  BY DEF IInv, TypeOK, slotVars, locks
<1>2. Others(t)
  BY DEF Others, IInv, TypeOK, locks
<1>3. ThreadOK(t)'
  BY DEF ThreadOK, IInv, TypeOK, ThreadsOK, slotVars, locks
<1>4. RevisionCountsChanges'
  <2>1. \A u \in Threads : pc'[u] \in {"mark", "count"} <=> pc[u] \in {"mark", "count"}
    BY DEF IInv, TypeOK
  <2>2. QED
    BY <2>1, CountStays
<1>5. QED
  BY <1>1, <1>2, <1>3, <1>4, QuietKeeps

\* The change is counted once.
LEMMA CountChangeKeeps ==
  ASSUME IInv, NEW t \in Threads, CountChange(t) PROVE IInv'
<1>1. Return(t, "count") /\ UNCHANGED <<slotVars, changes, changed>> /\ revision' = revision + 1
  BY DEF CountChange
<1>2. TypeOK'
  <2>1. /\ pc' \in [Threads -> {"idle", "lock insertion", "look again", "open", "lock slot",
                               "compare", "store", "mark", "count", "clear"}]
        /\ call' \in [Threads -> [key : Keys \cup {NoKey}, value : Values \cup {NoValue}]]
        /\ at' \in [Threads -> {0} \cup Slots]
        /\ writer' \in [Slots -> Threads \cup {Free}]
        /\ insertion' \in Threads \cup {Free}
    BY <1>1, ReturnEffect
  <2>2. revision' \in Nat
    <3>1. revision \in Nat /\ revision' = revision + 1
      BY <1>1 DEF IInv, TypeOK
    <3>2. QED
      BY <3>1
  <2>3. QED
    BY <1>1, <2>1, <2>2 DEF IInv, TypeOK, slotVars
<1>3. RevisionCountsChanges'
  <2>1. \A u \in Threads : u # t => pc'[u] = pc[u]
    BY <1>1, ReturnEffect DEF Others
  <2>2. QED
    BY <1>1, <2>1, ReturnEffect, CountDone
<1>4. pc[t] # "mark" /\ Others(t) /\ ThreadOK(t)'
  <2>1. Others(t)
    BY <1>1, ReturnEffect
  <2>2. ThreadOK(t)'
    BY <1>1, ReturnEffect
  <2>3. pc[t] # "mark"
    BY <1>1 DEF Return, Goto
  <2>4. QED
    BY <2>1, <2>2, <2>3
<1>5. UNCHANGED <<slotVars, changed>>
  BY <1>1
<1>6. QED
  BY <1>2, <1>3, <1>4, <1>5, QuietKeeps

\* A sweep starts at the first slot.
LEMMA BeginClearKeeps ==
  ASSUME IInv, NEW t \in Threads, BeginClear(t) PROVE IInv'
<1> USE DEF BeginClear, Goto
<1>0. 1 \in Slots
  BY MemoryAssumption DEF Slots
<1>1. TypeOK'
  BY <1>0 DEF IInv, TypeOK, slotVars, locks
<1>2. Others(t)
  BY DEF Others, IInv, TypeOK, locks
<1>3. ThreadOK(t)'
  BY <1>0 DEF ThreadOK, IInv, TypeOK, ThreadsOK, slotVars, locks
<1>4. RevisionCountsChanges'
  <2>1. \A u \in Threads : pc'[u] \in {"mark", "count"} <=> pc[u] \in {"mark", "count"}
    BY DEF IInv, TypeOK
  <2>2. QED
    BY <2>1, CountStays
<1>5. QED
  BY <1>1, <1>2, <1>3, <1>4, QuietKeeps

-----------------------------------------------------------------------------
(* Steps that change a slot.                                                *)

\* The other threads keep what they rely on in slots that are not the one that changes.
LEMMA SlotKeeps ==
  ASSUME IInv, NEW t \in Threads, NEW a \in Slots, UNCHANGED <<writer, insertion>>,
         \A u \in Threads : u # t => pc'[u] = pc[u] /\ call'[u] = call[u] /\ at'[u] = at[u],
         \A i \in Slots : i # a => key'[i] = key[i] /\ value'[i] = value[i] /\ occupied'[i] = occupied[i],
         occupied[a] => occupied'[a] /\ key'[a] = key[a],
         writer[a] = t \/ value'[a] = value[a] \/ ~occupied[a],
         insertion = t \/ (occupied[a] /\ occupied'[a]),
         NEW u \in Threads, u # t
  PROVE  ThreadOK(u)'
<1>1. ThreadOK(u) /\ ThreadOK(t)
  BY DEF IInv, ThreadsOK
<1>2. pc'[u] = pc[u] /\ call'[u] = call[u] /\ at'[u] = at[u]
  OBVIOUS
<1>3. pc'[u] \in {"look again", "open"} => insertion' = u
  BY <1>1, <1>2 DEF ThreadOK
<1>4. pc'[u] \notin {"idle", "clear"} => call'[u].key \in Keys /\ call'[u].value \in Values
  BY <1>1, <1>2 DEF ThreadOK
<1>5. ASSUME pc'[u] = "open"
      PROVE  /\ at'[u] \in Slots /\ ~occupied'[at'[u]]
             /\ key'[at'[u]] = call'[u].key /\ value'[at'[u]] = call'[u].value
             /\ \A i \in Slots : occupied'[i] => key'[i] # call'[u].key
  <2>1. insertion = u /\ occupied[a] /\ occupied'[a]
    BY <1>1, <1>2, <1>5 DEF ThreadOK
  <2>2. at[u] \in Slots /\ ~occupied[at[u]] /\ at[u] # a
    BY <1>1, <1>2, <1>5, <2>1 DEF ThreadOK
  <2>3. \A i \in Slots : occupied'[i] => occupied[i] /\ key'[i] = key[i]
    BY <2>1
  <2>4. /\ key[at[u]] = call[u].key /\ value[at[u]] = call[u].value
        /\ \A i \in Slots : occupied[i] => key[i] # call[u].key
    BY <1>1, <1>2, <1>5 DEF ThreadOK
  <2>5. ~occupied'[at[u]] /\ key'[at[u]] = key[at[u]] /\ value'[at[u]] = value[at[u]]
    BY <2>2
  <2>6. \A i \in Slots : occupied'[i] => key'[i] # call[u].key
    BY <2>3, <2>4
  <2>7. QED
    BY <1>2, <2>2, <2>4, <2>5, <2>6
<1>6. ASSUME pc'[u] \in {"lock slot", "compare", "store", "mark"}
      PROVE  at'[u] \in Slots /\ occupied'[at'[u]] /\ key'[at'[u]] = call'[u].key
  <2>1. at[u] \in Slots /\ occupied[at[u]] /\ key[at[u]] = call[u].key
    BY <1>1, <1>2, <1>6 DEF ThreadOK
  <2>2. QED
    BY <1>2, <2>1
<1>7. pc'[u] \in {"compare", "store", "mark"} => writer'[at'[u]] = u
  BY <1>1, <1>2 DEF ThreadOK
<1>8. ASSUME pc'[u] = "store" PROVE value'[at'[u]] # call'[u].value
  <2>1. /\ at[u] \in Slots /\ occupied[at[u]] /\ writer[at[u]] = u
        /\ value[at[u]] # call[u].value
    BY <1>1, <1>2, <1>8 DEF ThreadOK
  <2>2. value'[at[u]] = value[at[u]]
    BY <2>1
  <2>3. QED
    BY <1>2, <2>1, <2>2
<1>9. pc'[u] = "clear" => at'[u] \in Slots
  BY <1>1, <1>2 DEF ThreadOK
<1>10. QED
  BY <1>3, <1>4, <1>5, <1>6, <1>7, <1>8, <1>9 DEF ThreadOK

\* The first empty slot, which nobody reads yet, is filled under the insertion lock.
LEMMA FillSlotKeeps ==
  ASSUME IInv, NEW t \in Threads, FillSlot(t) PROVE IInv'
<1> First(EmptySlots) \in EmptySlots
  <2>1. EmptySlots \subseteq Slots /\ EmptySlots # {}
    BY DEF FillSlot, EmptySlots
  <2>2. QED
    BY <2>1, FirstIsOne
<1>0. PICK a \in Slots : a = First(EmptySlots) /\ ~occupied[a]
  BY DEF EmptySlots
<1>1. ThreadOK(t) /\ TypeOK
  BY DEF IInv, ThreadsOK
<1>2. /\ pc[t] = "look again" /\ insertion = t
      /\ call[t].key \in Keys /\ call[t].value \in Values
      /\ \A i \in Slots : occupied[i] => key[i] # call[t].key
  BY <1>1 DEF FillSlot, Goto, ThreadOK, LookedFor, Matching
<1>3. /\ pc' = [pc EXCEPT ![t] = "open"]
      /\ at' = [at EXCEPT ![t] = a]
      /\ key' = [key EXCEPT ![a] = call[t].key]
      /\ value' = [value EXCEPT ![a] = call[t].value]
      /\ dirty' = [dirty EXCEPT ![a] = TRUE]
      /\ UNCHANGED <<occupied, writer, insertion, revision, call, changes, changed>>
  BY <1>0 DEF FillSlot, Goto, locks
<1>4. TypeOK'
  BY <1>1, <1>2, <1>3 DEF TypeOK
<1>5. \A u \in Threads : u # t => pc'[u] = pc[u] /\ call'[u] = call[u] /\ at'[u] = at[u]
  BY <1>1, <1>3 DEF TypeOK
<1>6. /\ \A i \in Slots : i # a => key'[i] = key[i] /\ value'[i] = value[i] /\ occupied'[i] = occupied[i]
      /\ key'[a] = call[t].key /\ value'[a] = call[t].value
      /\ pc'[t] = "open" /\ at'[t] = a
  BY <1>1, <1>3 DEF TypeOK
<1>7. ThreadOK(t)'
  BY <1>0, <1>2, <1>3, <1>6 DEF ThreadOK
<1>8. \A u \in Threads : u # t => ThreadOK(u)'
  <2>1. TAKE u \in Threads
  <2>2. HAVE u # t
  <2>3. QED
    BY <1>0, <1>2, <1>3, <1>5, <1>6, <2>2, SlotKeeps
<1>9. OccupiedFilled' /\ KeysAreUnique'
  BY <1>0, <1>3, <1>6 DEF IInv, OccupiedFilled, KeysAreUnique
<1>10. RevisionCountsChanges'
  <2>1. \A u \in Threads : pc'[u] \in {"mark", "count"} <=> pc[u] \in {"mark", "count"}
    BY <1>2, <1>5, <1>6
  <2>2. QED
    BY <1>3, <2>1, CountStays
<1>11. ReplacedValuesAreDirty'
  <2>1. \A i \in Slots : dirty[i] => dirty'[i]
    BY <1>1, <1>3 DEF TypeOK
  <2>2. \A u \in Threads : pc[u] = "mark" => pc'[u] = "mark" /\ at'[u] = at[u]
    BY <1>2, <1>5
  <2>3. QED
    BY <1>3, <2>1, <2>2 DEF IInv, ReplacedValuesAreDirty
<1>12. QED
  BY <1>4, <1>7, <1>8, <1>9, <1>10, <1>11 DEF IInv, ThreadsOK

\* The key that becomes visible is in no other slot.
LEMMA OpenSlotKeeps ==
  ASSUME IInv, NEW t \in Threads, OpenSlot(t) PROVE IInv'
<1>1. ThreadOK(t) /\ TypeOK
  BY DEF IInv, ThreadsOK
<1>2. pc[t] = "open"
  BY DEF OpenSlot, Goto
<1>0. PICK a \in Slots : a = at[t]
  BY <1>1, <1>2 DEF ThreadOK
<1>3. /\ insertion = t /\ call[t].key \in Keys /\ call[t].value \in Values
      /\ ~occupied[a] /\ key[a] = call[t].key /\ value[a] = call[t].value
      /\ \A i \in Slots : occupied[i] => key[i] # call[t].key
  BY <1>0, <1>1, <1>2 DEF ThreadOK
<1>4. /\ pc' = [pc EXCEPT ![t] = "count"]
      /\ occupied' = [occupied EXCEPT ![a] = TRUE]
      /\ changes' = changes + 1
      /\ UNCHANGED <<key, value, dirty, writer, insertion, revision, call, at, changed>>
  BY <1>0 DEF OpenSlot, Goto, locks
<1>5. TypeOK'
  <2>1. changes' \in Nat
    <3>1. changes \in Nat
      BY <1>1 DEF TypeOK
    <3>2. QED
      BY <1>4, <3>1
  <2>2. QED
    BY <1>1, <1>4, <2>1 DEF TypeOK
<1>6. \A u \in Threads : u # t => pc'[u] = pc[u] /\ call'[u] = call[u] /\ at'[u] = at[u]
  BY <1>1, <1>4 DEF TypeOK
<1>7. /\ \A i \in Slots : i # a => occupied'[i] = occupied[i]
      /\ occupied'[a] /\ pc'[t] = "count"
  BY <1>1, <1>4 DEF TypeOK
<1>8. ThreadOK(t)'
  BY <1>3, <1>4, <1>7 DEF ThreadOK
<1>9. \A u \in Threads : u # t => ThreadOK(u)'
  <2>1. TAKE u \in Threads
  <2>2. HAVE u # t
  <2>3. /\ \A i \in Slots : i # a => key'[i] = key[i] /\ value'[i] = value[i] /\ occupied'[i] = occupied[i]
        /\ occupied[a] => occupied'[a] /\ key'[a] = key[a]
        /\ writer[a] = t \/ value'[a] = value[a] \/ ~occupied[a]
        /\ insertion = t
    BY <1>3, <1>4, <1>7
  <2>4. UNCHANGED <<writer, insertion>>
    BY <1>4
  <2>5. QED
    BY <1>6, <2>2, <2>3, <2>4, SlotKeeps
<1>10. OccupiedFilled'
  BY <1>3, <1>4, <1>7 DEF IInv, OccupiedFilled
<1>11. KeysAreUnique'
  <2>1. ASSUME NEW i \in Slots, NEW j \in Slots, occupied'[i], occupied'[j], key'[i] = key'[j]
        PROVE  i = j
    <3>1. CASE i = a \/ j = a
      BY <1>3, <1>4, <1>7, <2>1, <3>1
    <3>2. CASE i # a /\ j # a
      BY <1>4, <1>7, <2>1, <3>2 DEF IInv, KeysAreUnique
    <3>3. QED
      BY <3>1, <3>2
  <2>2. QED
    BY <2>1 DEF KeysAreUnique
<1>12. RevisionCountsChanges'
  BY <1>2, <1>4, <1>6, <1>7, CountPending
<1>13. ReplacedValuesAreDirty'
  <2>1. \A u \in Threads : pc[u] = "mark" => pc'[u] = "mark" /\ at'[u] = at[u]
    BY <1>2, <1>6
  <2>2. QED
    BY <1>4, <2>1 DEF IInv, ReplacedValuesAreDirty
<1>14. QED
  BY <1>5, <1>8, <1>9, <1>10, <1>11, <1>12, <1>13 DEF IInv, ThreadsOK

\* Nobody else writes the slot: the value still differs, and the change is pending.
LEMMA StoreValueKeeps ==
  ASSUME IInv, NEW t \in Threads, StoreValue(t) PROVE IInv'
<1>1. ThreadOK(t) /\ TypeOK
  BY DEF IInv, ThreadsOK
<1>2. pc[t] = "store"
  BY DEF StoreValue, Goto
<1>0. PICK a \in Slots : a = at[t]
  BY <1>1, <1>2 DEF ThreadOK
<1>3. /\ call[t].key \in Keys /\ call[t].value \in Values
      /\ occupied[a] /\ key[a] = call[t].key /\ value[a] # call[t].value /\ writer[a] = t
  BY <1>0, <1>1, <1>2 DEF ThreadOK
<1>4. /\ pc' = [pc EXCEPT ![t] = "mark"]
      /\ value' = [value EXCEPT ![a] = call[t].value]
      /\ changes' = changes + 1
      /\ changed' = [changed EXCEPT ![a] = TRUE]
      /\ UNCHANGED <<key, occupied, dirty, writer, insertion, revision, call, at>>
  BY <1>0, <1>3 DEF StoreValue, Goto, locks
<1>5. TypeOK'
  <2>1. changes' \in Nat
    <3>1. changes \in Nat
      BY <1>1 DEF TypeOK
    <3>2. QED
      BY <1>4, <3>1
  <2>2. QED
    BY <1>1, <1>3, <1>4, <2>1 DEF TypeOK
<1>6. \A u \in Threads : u # t => pc'[u] = pc[u] /\ call'[u] = call[u] /\ at'[u] = at[u]
  BY <1>1, <1>4 DEF TypeOK
<1>7. /\ \A i \in Slots : i # a => value'[i] = value[i] /\ changed'[i] = changed[i]
      /\ value'[a] = call[t].value /\ pc'[t] = "mark"
  BY <1>1, <1>4 DEF TypeOK
<1>8. ThreadOK(t)'
  BY <1>0, <1>3, <1>4, <1>7 DEF ThreadOK
<1>9. \A u \in Threads : u # t => ThreadOK(u)'
  <2>1. TAKE u \in Threads
  <2>2. HAVE u # t
  <2>3. /\ \A i \in Slots : i # a => key'[i] = key[i] /\ value'[i] = value[i] /\ occupied'[i] = occupied[i]
        /\ occupied[a] => occupied'[a] /\ key'[a] = key[a]
        /\ writer[a] = t
        /\ occupied[a] /\ occupied'[a]
    BY <1>3, <1>4, <1>7
  <2>4. UNCHANGED <<writer, insertion>>
    BY <1>4
  <2>5. QED
    BY <1>6, <2>2, <2>3, <2>4, SlotKeeps
<1>10. OccupiedFilled' /\ KeysAreUnique'
  BY <1>3, <1>4, <1>7 DEF IInv, OccupiedFilled, KeysAreUnique
<1>11. RevisionCountsChanges'
  BY <1>2, <1>4, <1>6, <1>7, CountPending
<1>12. ReplacedValuesAreDirty'
  <2>1. \A u \in Threads : pc[u] = "mark" => pc'[u] = "mark" /\ at'[u] = at[u]
    BY <1>2, <1>6
  <2>2. pc'[t] = "mark" /\ at'[t] = a
    BY <1>0, <1>4, <1>7
  <2>3. QED
    BY <1>4, <1>7, <2>1, <2>2 DEF IInv, ReplacedValuesAreDirty
<1>13. QED
  BY <1>5, <1>8, <1>9, <1>10, <1>11, <1>12 DEF IInv, ThreadsOK

\* The mark is on before the change is counted.
LEMMA MarkDirtyKeeps ==
  ASSUME IInv, NEW t \in Threads, MarkDirty(t) PROVE IInv'
<1>1. ThreadOK(t) /\ TypeOK
  BY DEF IInv, ThreadsOK
<1>2. pc[t] = "mark"
  BY DEF MarkDirty, Goto
<1>0. PICK a \in Slots : a = at[t]
  BY <1>1, <1>2 DEF ThreadOK
<1>3. call[t].key \in Keys /\ call[t].value \in Values /\ occupied[a]
  BY <1>0, <1>1, <1>2 DEF ThreadOK
<1>4. /\ pc' = [pc EXCEPT ![t] = "count"]
      /\ dirty' = [dirty EXCEPT ![a] = TRUE]
      /\ UNCHANGED <<key, value, occupied, writer, insertion, revision, call, at, changes, changed>>
  BY <1>0 DEF MarkDirty, Goto, locks
<1>5. TypeOK'
  BY <1>1, <1>4 DEF TypeOK
<1>6. \A u \in Threads : u # t => pc'[u] = pc[u] /\ call'[u] = call[u] /\ at'[u] = at[u]
  BY <1>1, <1>4 DEF TypeOK
<1>7. dirty'[a] /\ pc'[t] = "count" /\ \A i \in Slots : dirty[i] => dirty'[i]
  BY <1>1, <1>4 DEF TypeOK
<1>8. ThreadOK(t)'
  BY <1>3, <1>4, <1>7 DEF ThreadOK
<1>9. \A u \in Threads : u # t => ThreadOK(u)'
  <2>1. TAKE u \in Threads
  <2>2. HAVE u # t
  <2>3. /\ \A i \in Slots : i # a => key'[i] = key[i] /\ value'[i] = value[i] /\ occupied'[i] = occupied[i]
        /\ occupied[a] => occupied'[a] /\ key'[a] = key[a]
        /\ value'[a] = value[a]
        /\ occupied[a] /\ occupied'[a]
    BY <1>3, <1>4
  <2>4. UNCHANGED <<writer, insertion>>
    BY <1>4
  <2>5. QED
    BY <1>6, <2>2, <2>3, <2>4, SlotKeeps
<1>10. OccupiedFilled' /\ KeysAreUnique'
  BY <1>4 DEF IInv, OccupiedFilled, KeysAreUnique
<1>11. RevisionCountsChanges'
  <2>1. \A u \in Threads : pc'[u] \in {"mark", "count"} <=> pc[u] \in {"mark", "count"}
    BY <1>2, <1>6, <1>7
  <2>2. QED
    BY <1>4, <2>1, CountStays
<1>12. ReplacedValuesAreDirty'
  <2>1. ASSUME NEW i \in Slots, changed'[i]
        PROVE  dirty'[i] \/ \E u \in Threads : pc'[u] = "mark" /\ at'[u] = i
    <3>1. CASE i = a
      BY <1>7, <3>1
    <3>2. CASE i # a
      <4>1. dirty[i] \/ \E u \in Threads : pc[u] = "mark" /\ at[u] = i
        BY <1>4, <2>1 DEF IInv, ReplacedValuesAreDirty
      <4>2. QED
        BY <1>0, <1>6, <1>7, <3>2, <4>1
    <3>3. QED
      BY <3>1, <3>2
  <2>2. QED
    BY <2>1 DEF ReplacedValuesAreDirty
<1>13. QED
  BY <1>5, <1>8, <1>9, <1>10, <1>11, <1>12 DEF IInv, ThreadsOK

\* A sweep takes the mark off a slot and passes to the next.
LEMMA ClearSlotKeeps ==
  ASSUME IInv, NEW t \in Threads, ClearSlot(t) PROVE IInv'
<1>1. ThreadOK(t) /\ TypeOK
  BY DEF IInv, ThreadsOK
<1>2. pc[t] = "clear"
  BY DEF ClearSlot
<1>0. PICK a \in Slots : a = at[t]
  BY <1>1, <1>2 DEF ThreadOK
<1>3. /\ dirty' = [dirty EXCEPT ![a] = FALSE]
      /\ changed' = [changed EXCEPT ![a] = FALSE]
      /\ UNCHANGED <<key, value, occupied, revision, changes>>
  BY <1>0 DEF ClearSlot
<1>4. dirty' \in [Slots -> BOOLEAN] /\ changed' \in [Slots -> BOOLEAN]
  BY <1>1, <1>3 DEF TypeOK
<1>5. /\ Others(t) /\ ThreadOK(t)' /\ pc'[t] # "mark" /\ pc'[t] # "count"
      /\ pc' \in [Threads -> {"idle", "lock insertion", "look again", "open", "lock slot",
                              "compare", "store", "mark", "count", "clear"}]
      /\ call' \in [Threads -> [key : Keys \cup {NoKey}, value : Values \cup {NoValue}]]
      /\ at' \in [Threads -> {0} \cup Slots]
      /\ writer' \in [Slots -> Threads \cup {Free}]
      /\ insertion' \in Threads \cup {Free}
  <2>1. CASE AtLast(a)
    <3>1. Return(t, "clear")
      BY <1>0, <2>1 DEF ClearSlot
    <3>2. Others(t)
      BY <3>1, ReturnEffect
    <3>3. ThreadOK(t)' /\ pc'[t] = "idle"
      <4>1. ThreadOK(t)'
        BY <3>1, ReturnEffect
      <4>2. pc'[t] = "idle"
        BY <3>1, ReturnEffect
      <4>3. QED
        BY <4>1, <4>2
    <3>4. QED
      BY <3>1, <3>2, <3>3, ReturnEffect
  <2>2. CASE ~AtLast(a)
    <3>1. at' = [at EXCEPT ![t] = a + 1] /\ UNCHANGED <<pc, call, writer, insertion>>
      BY <1>0, <2>2 DEF ClearSlot, locks
    <3>2. a + 1 \in Slots
      BY <2>2, MemoryAssumption DEF AtLast, Slots
    <3>3. at' \in [Threads -> {0} \cup Slots] /\ at'[t] = a + 1
      BY <1>1, <3>1, <3>2 DEF TypeOK
    <3>4. ThreadOK(t)'
      BY <1>2, <3>1, <3>2, <3>3 DEF ThreadOK
    <3>5. Others(t)
      BY <1>1, <3>1 DEF Others, TypeOK
    <3>6. QED
      BY <1>1, <1>2, <3>1, <3>3, <3>4, <3>5 DEF TypeOK
  <2>3. QED
    BY <2>1, <2>2
<1>6. TypeOK'
  BY <1>1, <1>3, <1>4, <1>5 DEF TypeOK
<1>7. ThreadsOK'
  <2>1. ASSUME NEW u \in Threads, u # t PROVE ThreadOK(u)'
    <3>1. ThreadOK(u)
      BY DEF IInv, ThreadsOK
    <3>2. /\ pc'[u] = pc[u] /\ call'[u] = call[u] /\ at'[u] = at[u]
          /\ insertion = u => insertion' = u
          /\ \A i \in Slots : writer[i] = u => writer'[i] = u
      BY <1>5, <2>1 DEF Others
    <3>3. /\ pc'[u] \in {"look again", "open"} => insertion' = u
          /\ pc'[u] \in {"compare", "store", "mark"} => writer'[at'[u]] = u
      BY <3>1, <3>2 DEF ThreadOK
    <3>4. QED
      BY <1>3, <3>1, <3>2, <3>3 DEF ThreadOK
  <2>2. QED
    BY <1>5, <2>1 DEF ThreadsOK
<1>8. OccupiedFilled' /\ KeysAreUnique'
  BY <1>3 DEF IInv, OccupiedFilled, KeysAreUnique
<1>9. RevisionCountsChanges'
  <2>1. \A u \in Threads : pc'[u] \in {"mark", "count"} <=> pc[u] \in {"mark", "count"}
    BY <1>2, <1>5 DEF Others
  <2>2. QED
    BY <1>3, <2>1, CountStays
<1>10. ReplacedValuesAreDirty'
  <2>1. \A i \in Slots : changed'[i] => i # a /\ changed[i] /\ dirty'[i] = dirty[i]
    BY <1>1, <1>3 DEF TypeOK
  <2>2. \A u \in Threads : pc[u] = "mark" => pc'[u] = "mark" /\ at'[u] = at[u]
    BY <1>2, <1>5 DEF Others
  <2>3. QED
    BY <2>1, <2>2 DEF IInv, ReplacedValuesAreDirty
<1>11. QED
  BY <1>6, <1>7, <1>8, <1>9, <1>10 DEF IInv

-----------------------------------------------------------------------------

\* Every step of every thread keeps IInv.
LEMMA NextIInv == IInv /\ [Next]_vars => IInv'
<1> SUFFICES ASSUME IInv, [Next]_vars PROVE IInv'
  OBVIOUS
<1>1. CASE UNCHANGED vars
  <2>1. /\ UNCHANGED <<key, value, occupied, dirty>> /\ UNCHANGED <<writer, insertion>>
        /\ UNCHANGED <<revision, pc, call, at, changes, changed>>
    BY <1>1 DEF vars, slotVars, locks, threadVars
  <2>2. TypeOK'
    BY <2>1 DEF IInv, TypeOK
  <2>3. ThreadsOK'
    BY <2>1 DEF IInv, ThreadsOK, ThreadOK
  <2>4. OccupiedFilled' /\ KeysAreUnique' /\ ReplacedValuesAreDirty'
    BY <2>1 DEF IInv, OccupiedFilled, KeysAreUnique, ReplacedValuesAreDirty
  <2>5. RevisionCountsChanges'
    BY <2>1, CountStays
  <2>6. QED
    BY <2>2, <2>3, <2>4, <2>5 DEF IInv
<1>2. CASE Next
  <2>1. PICK t \in Threads :
          \/ \E k \in Keys, v \in Values : BeginWrite(t, k, v)
          \/ LockInsertion(t) \/ FindAgain(t) \/ FillSlot(t) \/ RefuseWrite(t) \/ OpenSlot(t)
          \/ LockSlot(t) \/ CompareEqual(t) \/ CompareOther(t) \/ StoreValue(t) \/ MarkDirty(t)
          \/ CountChange(t) \/ BeginClear(t) \/ ClearSlot(t)
    BY <1>2 DEF Next
  <2>2. QED
    BY <2>1, BeginWriteKeeps, LockInsertionKeeps, FindAgainKeeps, FillSlotKeeps, RefuseWriteKeeps,
       OpenSlotKeeps, LockSlotKeeps, CompareEqualKeeps, CompareOtherKeeps, StoreValueKeeps,
       MarkDirtyKeeps, CountChangeKeeps, BeginClearKeeps, ClearSlotKeeps
<1>3. QED
  BY <1>1, <1>2

\* IInv is an invariant of Write and ClearDirty.
THEOREM AlwaysIInv == Spec => []IInv
  BY InitIInv, NextIInv, PTL DEF Spec

\* The slots, the locks and the calls keep their types.
THEOREM AlwaysTyped == Spec => []TypeOK
<1>1. IInv => TypeOK
  BY DEF IInv
<1>2. QED
  BY <1>1, AlwaysIInv, PTL

\* Two threads that both find a key absent insert it once, however many race.
THEOREM AlwaysKeysAreUnique == Spec => []KeysAreUnique
<1>1. IInv => KeysAreUnique
  BY DEF IInv
<1>2. QED
  BY <1>1, AlwaysIInv, PTL

\* The revision is exact but for the writers between their store and the increment.
THEOREM AlwaysRevisionCounts == Spec => []RevisionCountsChanges
<1>1. IInv => RevisionCountsChanges
  BY DEF IInv
<1>2. QED
  BY <1>1, AlwaysIInv, PTL

\* A sweep never loses the mark of a replaced value.
THEOREM AlwaysReplacedAreDirty == Spec => []ReplacedValuesAreDirty
<1>1. IInv => ReplacedValuesAreDirty
  BY DEF IInv
<1>2. QED
  BY <1>1, AlwaysIInv, PTL

-----------------------------------------------------------------------------
(* What readers see.                                                        *)

\* Read answers the value of the one occupied slot with the key, or none.
ReadShown ==
  /\ \A i \in Slots, k \in Keys : occupied[i] /\ key[i] = k => Read(k) = value[i] /\ Read(k) \in Values
  /\ \A k \in Keys : (\A i \in Slots : occupied[i] => key[i] # k) => Read(k) = NoValue

LEMMA ReadFinds == IInv => ReadShown
<1> SUFFICES ASSUME IInv PROVE ReadShown
  OBVIOUS
<1>1. ASSUME NEW i \in Slots, NEW k \in Keys, occupied[i], key[i] = k
      PROVE  Read(k) = value[i] /\ Read(k) \in Values
  <2>1. Matching(k) = {i}
    BY <1>1 DEF Matching, IInv, KeysAreUnique
  <2>2. First({i}) = i
    BY FirstIsOne
  <2>3. value[i] \in Values
    BY <1>1 DEF IInv, OccupiedFilled
  <2>4. QED
    BY <2>1, <2>2, <2>3 DEF Read
<1>2. ASSUME NEW k \in Keys, \A i \in Slots : occupied[i] => key[i] # k PROVE Read(k) = NoValue
  BY <1>2 DEF Read, Matching
<1>3. QED
  BY <1>1, <1>2 DEF ReadShown

\* A key whose occupied slot keeps its value shows what it showed.
LEMMA ReadStays ==
  ASSUME ReadShown, ReadShown', NEW k \in Keys,
         \A i \in Slots : (occupied'[i] /\ key'[i] = k) <=> (occupied[i] /\ key[i] = k),
         \A i \in Slots : occupied[i] /\ key[i] = k => value'[i] = value[i]
  PROVE  Read(k)' = Read(k)
<1>1. CASE \A i \in Slots : occupied[i] => key[i] # k
  <2>1. Read(k) = NoValue
    BY <1>1 DEF ReadShown
  <2>2. \A i \in Slots : occupied'[i] => key'[i] # k
    BY <1>1
  <2>3. Read(k)' = NoValue
    BY <2>2 DEF ReadShown
  <2>4. QED
    BY <2>1, <2>3
<1>2. ASSUME NEW i \in Slots, occupied[i], key[i] = k PROVE Read(k)' = Read(k)
  <2>1. Read(k) = value[i]
    BY <1>2 DEF ReadShown
  <2>2. Read(k)' = value'[i]
    BY <1>2 DEF ReadShown
  <2>3. QED
    BY <1>2, <2>1, <2>2
<1>3. QED
  BY <1>1, <1>2

\* While a slot is not occupied the board has room.
LEMMA RoomLeft ==
  ASSUME IInv, NEW s \in Slots, ~occupied[s] PROVE Cardinality(Board!Present) < Capacity
<1> DEFINE A == Board!Present
           Rest == Slots \ {s}
           f == [k \in A |-> CHOOSE i \in Slots : occupied[i] /\ key[i] = k]
<1>1. IsFiniteSet(Slots) /\ Cardinality(Slots) = Capacity
  BY FS_Interval, MemoryAssumption DEF Slots
<1>2. IsFiniteSet(Rest) /\ Cardinality(Rest) = Capacity - 1
  BY <1>1, FS_RemoveElement
<1>3. \A k \in A : k \in Keys /\ \E i \in Slots : occupied[i] /\ key[i] = k
  BY ReadFinds DEF Board!Present, ReadShown
<1>4. \A k \in A : f[k] \in Slots /\ occupied[f[k]] /\ key[f[k]] = k
  BY <1>3
<1>5. \A k \in A : f[k] \in Rest
  BY <1>4
<1>6. f \in [A -> Rest]
  BY <1>5
<1>7. \A x, y \in A : f[x] = f[y] => x = y
  BY <1>4
<1> HIDE DEF f, A, Rest
<1>8. f \in Injection(A, Rest)
  BY <1>6, <1>7 DEF Injection, IsInjective
<1>9. IsFiniteSet(A) /\ Cardinality(A) <= Cardinality(Rest)
  BY <1>2, <1>8, FS_Injection
<1>10. Cardinality(A) \in Nat
  BY <1>9, FS_CardinalityType
<1>11. QED
  BY <1>2, <1>9, <1>10, MemoryAssumption DEF A

\* One key shows a new value: the mapped board makes that write.
LEMMA PutsOne ==
  ASSUME NEW k \in Keys, NEW v \in Values, Read(k)' = v,
         k \in Board!Present \/ Cardinality(Board!Present) < Capacity,
         \A j \in Keys : j # k => Read(j)' = Read(j)
  PROVE  Board!Next
<1>1. \A S : Board!Cardinality(S) = Cardinality(S)
  BY DEF Board!Cardinality, Cardinality
<1>2. Board!Put(k, v)
  BY <1>1 DEF Board!Put
<1>3. QED
  BY <1>2 DEF Board!Next

\* Every step writes one key, or shows nothing.
LEMMA StepMaps ==
  ASSUME IInv, IInv', [Next]_vars
  PROVE  Board!Next \/ \A k \in Keys : Read(k)' = Read(k)
<1>0. ReadShown /\ ReadShown'
  BY ReadFinds, PTL
<1>1. ASSUME UNCHANGED <<key, value, occupied>> PROVE \A k \in Keys : Read(k)' = Read(k)
  BY <1>0, <1>1, ReadStays
<1>2. ASSUME NEW t \in Threads, FillSlot(t) PROVE \A k \in Keys : Read(k)' = Read(k)
  <2>1. EmptySlots \subseteq Slots /\ EmptySlots # {}
    BY <1>2 DEF FillSlot, EmptySlots
  <2>2. PICK a \in Slots : a = First(EmptySlots) /\ ~occupied[a]
    BY <2>1, FirstIsOne DEF EmptySlots
  <2>3. /\ key' = [key EXCEPT ![a] = call[t].key]
        /\ value' = [value EXCEPT ![a] = call[t].value]
        /\ occupied' = occupied
    BY <1>2, <2>2 DEF FillSlot
  <2>4. \A i \in Slots : occupied[i] => key'[i] = key[i] /\ value'[i] = value[i]
    BY <2>2, <2>3 DEF IInv, TypeOK
  <2>5. QED
    BY <1>0, <2>3, <2>4, ReadStays
<1>3. ASSUME NEW t \in Threads, OpenSlot(t) PROVE Board!Next
  <2>1. pc[t] = "open" /\ ThreadOK(t)
    BY <1>3 DEF OpenSlot, Goto, IInv, ThreadsOK
  <2>2. PICK a \in Slots, k \in Keys, v \in Values :
          /\ a = at[t] /\ k = call[t].key /\ v = call[t].value
          /\ ~occupied[a] /\ key[a] = k /\ value[a] = v
          /\ \A i \in Slots : occupied[i] => key[i] # k
    BY <2>1 DEF ThreadOK
  <2>3. occupied' = [occupied EXCEPT ![a] = TRUE] /\ UNCHANGED <<key, value>>
    BY <1>3, <2>2 DEF OpenSlot
  <2>4. occupied'[a] /\ \A i \in Slots : i # a => occupied'[i] = occupied[i]
    BY <2>3 DEF IInv, TypeOK
  <2>5. Read(k)' = v
    <3>1. Read(k)' = value'[a]
      BY <1>0, <2>2, <2>3, <2>4 DEF ReadShown
    <3>2. QED
      BY <2>2, <2>3, <3>1
  <2>6. \A j \in Keys : j # k => Read(j)' = Read(j)
    <3>1. \A j \in Keys : j # k => \A i \in Slots :
            (occupied'[i] /\ key'[i] = j) <=> (occupied[i] /\ key[i] = j)
      BY <2>2, <2>3, <2>4
    <3>2. QED
      BY <1>0, <2>3, <3>1, ReadStays
  <2>7. Cardinality(Board!Present) < Capacity
    BY <2>2, RoomLeft
  <2>8. QED
    BY <2>5, <2>6, <2>7, PutsOne
<1>4. ASSUME NEW t \in Threads, StoreValue(t) PROVE Board!Next
  <2>1. pc[t] = "store" /\ ThreadOK(t)
    BY <1>4 DEF StoreValue, Goto, IInv, ThreadsOK
  <2>2. PICK a \in Slots, k \in Keys, v \in Values :
          /\ a = at[t] /\ k = call[t].key /\ v = call[t].value
          /\ occupied[a] /\ key[a] = k
    BY <2>1 DEF ThreadOK
  <2>3. value' = [value EXCEPT ![a] = v] /\ UNCHANGED <<key, occupied>>
    BY <1>4, <2>2 DEF StoreValue
  <2>4. value'[a] = v /\ \A i \in Slots : i # a => value'[i] = value[i]
    BY <2>3 DEF IInv, TypeOK
  <2>5. Read(k)' = v
    <3>1. Read(k)' = value'[a]
      BY <1>0, <2>2, <2>3 DEF ReadShown
    <3>2. QED
      BY <2>4, <3>1
  <2>6. \A j \in Keys : j # k => Read(j)' = Read(j)
    BY <1>0, <2>2, <2>3, <2>4, ReadStays
  <2>7. k \in Board!Present
    <3>1. Read(k) \in Values
      BY <1>0, <2>2 DEF ReadShown
    <3>2. QED
      BY <3>1, MemoryAssumption DEF Board!Present
  <2>8. QED
    BY <2>5, <2>6, <2>7, PutsOne
<1>5. ASSUME NEW t \in Threads, NEW k \in Keys, NEW v \in Values, BeginWrite(t, k, v)
      PROVE  UNCHANGED <<key, value, occupied>>
  BY <1>5 DEF BeginWrite, slotVars
<1>6. ASSUME NEW t \in Threads,
             \/ LockInsertion(t) \/ FindAgain(t) \/ RefuseWrite(t)
             \/ LockSlot(t) \/ CompareEqual(t) \/ CompareOther(t) \/ MarkDirty(t)
             \/ CountChange(t) \/ BeginClear(t) \/ ClearSlot(t)
      PROVE  UNCHANGED <<key, value, occupied>>
  BY <1>6
  DEF LockInsertion, FindAgain, RefuseWrite, LockSlot, CompareEqual, CompareOther, MarkDirty,
      CountChange, BeginClear, ClearSlot, slotVars
<1>7. CASE UNCHANGED vars
  BY <1>1, <1>7 DEF vars, slotVars
<1>8. CASE Next
  <2>1. PICK t \in Threads :
          \/ \E k \in Keys, v \in Values : BeginWrite(t, k, v)
          \/ LockInsertion(t) \/ FindAgain(t) \/ FillSlot(t) \/ RefuseWrite(t) \/ OpenSlot(t)
          \/ LockSlot(t) \/ CompareEqual(t) \/ CompareOther(t) \/ StoreValue(t) \/ MarkDirty(t)
          \/ CountChange(t) \/ BeginClear(t) \/ ClearSlot(t)
    BY <1>8 DEF Next
  <2>2. QED
    BY <1>1, <1>2, <1>3, <1>4, <1>5, <1>6, <2>1
<1>9. QED
  BY <1>7, <1>8

\* Readers see a bounded map written one key at a time, for every number of threads and slots.
THEOREM StateImplementsBlackboard == Spec => ImplementsBlackboard
<1>1. Init => Board!Init
  <2> SUFFICES ASSUME Init PROVE Board!Init
    OBVIOUS
  <2>1. \A k \in Keys : Read(k) = NoValue
    <3>1. \A i \in Slots : ~occupied[i]
      BY DEF Init
    <3>2. \A k \in Keys : Matching(k) = {}
      BY <3>1 DEF Matching
    <3>3. QED
      BY <3>2 DEF Read
  <2>2. QED
    BY <2>1 DEF Board!Init
<1>2. IInv /\ IInv' /\ [Next]_vars => [Board!Next]_([k \in Keys |-> Read(k)])
  <2> SUFFICES ASSUME IInv, IInv', [Next]_vars
               PROVE  Board!Next \/ [k \in Keys |-> Read(k)]' = [k \in Keys |-> Read(k)]
    OBVIOUS
  <2>1. QED
    BY StepMaps
<1>3. QED
  BY AlwaysIInv, <1>1, <1>2, PTL DEF Spec, ImplementsBlackboard, Board!Spec
=============================================================================
