-------------------------- MODULE ActuatorHostProofs --------------------------
(***************************************************************************)
(* For every number of threads, slots, ids and reasons: an obligation is    *)
(* claimed once and settled once, the reason that stays is the winner's,    *)
(* and what Status answers follows the obligation lifecycle.                *)
(*                                                                          *)
(* The invariants the run checks are not inductive.  IInv adds what each    *)
(* thread may rely on at its place in a call, that published slots have     *)
(* different ids, that an id which is not published has not been granted,   *)
(* and what the status of a slot says of the claims and reasons of its id.  *)
(***************************************************************************)
EXTENDS ActuatorHost, FiniteSetTheorems, WellFoundedInduction, TLAPS

Settled == {Completed, Failed}
Calls == {"Claim", "Commit", "Complete", "Fail"}

\* The allocation gate is held from the first to the last step of Dispatch.
GateAgreement == \A t \in Threads : pc[t] \in {"allocate", "fill", "open"} => gate = t

\* A dispatch that has begun finds an id.
IdLeft == \A t \in Threads : pc[t] = "allocate" => nextId <= MaxId

IdsUnique ==
  \A i, j \in Slots : Published(i) /\ Published(j) /\ slots[i].id = slots[j].id => i = j

PublishedIds == \A i \in Slots : Published(i) => slots[i].id \in Ids /\ slots[i].id < nextId

\* The slot and the id of a Dispatch are its own until it opens the slot.
DispatchOwns ==
  \A t \in Threads : pc[t] \in {"fill", "open"} =>
    /\ call[t].slot \in Slots /\ slots[call[t].slot].status = Allocating
    /\ call[t].id \in Ids /\ call[t].id < nextId
    /\ \A i \in Slots : Published(i) => slots[i].id # call[t].id
    /\ pc[t] = "open" => slots[call[t].slot].id = call[t].id

\* The slot a call has found stays the slot of its id.
CallFound ==
  \A t \in Threads : pc[t] \in {"exchange", "stamp"} =>
    /\ call[t].slot \in Slots /\ Published(call[t].slot)
    /\ call[t].op \in Calls /\ call[t].reason \in Reasons
    /\ slots[call[t].slot].id = call[t].id

\* A thread on its way to the reason has settled the id, with that reason.
StampIsWinners ==
  \A t \in Threads : pc[t] = "stamp" =>
    /\ slots[call[t].slot].status \in Settled
    /\ settled[call[t].id] = <<call[t].reason>>

\* What the status of a slot says of its id.
StatusTells ==
  \A i \in Slots : Published(i) =>
    LET id == slots[i].id IN
    /\ slots[i].status = Pending => granted[id] = 0
    /\ granted[id] <= 1
    /\ slots[i].status \notin Settled => settled[id] = << >>
    /\ slots[i].status \in Settled => Len(settled[id]) = 1

UnpublishedUntouched ==
  \A id \in Ids : (\A i \in Slots : Published(i) => slots[i].id # id) => granted[id] = 0 /\ settled[id] = << >>

IInv ==
  /\ TypeOK
  /\ GateAgreement
  /\ IdLeft
  /\ IdsUnique
  /\ PublishedIds
  /\ DispatchOwns
  /\ CallFound
  /\ StampIsWinners
  /\ StatusTells
  /\ UnpublishedUntouched
  /\ ReasonIsWinners

\* A set of naturals has a least element (its initial segments are well founded).
LEMMA LeastExists ==
  ASSUME NEW S, S \subseteq Nat, S # {} PROVE \E m \in S : \A k \in S : m <= k
<1> DEFINE Upto(m) == S \cap (0 .. m)
           T == {Upto(m) : m \in S}
<1>1. \A m \in S : Upto(m) \in FiniteSubsetsOf(Nat)
  <2>1. TAKE m \in S
  <2>2. IsFiniteSet(0 .. m)
    BY FS_Interval
  <2>3. Upto(m) \subseteq 0 .. m /\ Upto(m) \subseteq Nat
    OBVIOUS
  <2>4. QED
    BY <2>2, <2>3, FS_Subset DEF FiniteSubsetsOf
<1>2. T \subseteq FiniteSubsetsOf(Nat) /\ T # {}
  BY <1>1
<1>3. PICK x \in T : \A y \in T : ~ (<<y, x>> \in StrictSubsetOrdering(Nat))
  <2> HIDE DEF T
  <2>1. QED
    BY <1>2, FS_StrictSubsetOrderingWellFounded, WFMin
<1>4. PICK m \in S : x = Upto(m)
  BY <1>3
<1>5. \A a, b \in Nat : a \in 0 .. a /\ (a < b => 0 .. a \subseteq 0 .. b /\ b \notin 0 .. a) /\ (a < b \/ b <= a)
  OBVIOUS
<1>6. ASSUME NEW k \in S, k < m PROVE FALSE
  <2>1. k \in Nat /\ m \in Nat
    OBVIOUS
  <2>2. Upto(k) \subseteq Upto(m) /\ m \in Upto(m) /\ m \notin Upto(k)
    BY <1>5, <1>6, <2>1
  <2>3. Upto(k) \in T /\ Upto(k) \in SUBSET Nat /\ Upto(m) \in SUBSET Nat
    BY <1>1 DEF FiniteSubsetsOf
  <2> HIDE DEF Upto, T
  <2>4. <<Upto(k), x>> \in StrictSubsetOrdering(Nat)
    BY <1>4, <2>2, <2>3 DEF StrictSubsetOrdering
  <2>5. QED
    BY <1>3, <2>3, <2>4
<1>7. QED
  BY <1>5, <1>6

\* The slot Dispatch takes is an empty one.
LEMMA LeastEmpty ==
  ASSUME EmptySlots # {}
  PROVE  /\ (CHOOSE i \in EmptySlots : \A j \in EmptySlots : i <= j) \in Slots
         /\ slots[CHOOSE i \in EmptySlots : \A j \in EmptySlots : i <= j].status = Empty
<1>1. EmptySlots \subseteq Nat
  BY HostAssumption DEF EmptySlots, Slots
<1>2. \E i \in EmptySlots : \A j \in EmptySlots : i <= j
  BY <1>1, LeastExists
<1>3. QED
  BY <1>2 DEF EmptySlots

\* Nothing is published at the start.
LEMMA InitIInv == Init => IInv
<1> SUFFICES ASSUME Init PROVE IInv
  OBVIOUS
<1>1. TypeOK
  BY HostAssumption DEF Init, TypeOK, Ids, Slots, NoCall, Empty, Failed
<1>2. \A i \in Slots : ~Published(i)
  BY DEF Init, Published, Empty, Pending
<1>3. /\ GateAgreement /\ IdLeft /\ DispatchOwns /\ CallFound /\ StampIsWinners
      /\ UnpublishedUntouched
  BY DEF Init, GateAgreement, IdLeft, DispatchOwns, CallFound, StampIsWinners, UnpublishedUntouched
<1>4. IdsUnique /\ PublishedIds /\ StatusTells
  BY <1>2 DEF IdsUnique, PublishedIds, StatusTells
<1>5. ReasonIsWinners
  BY DEF Init, ReasonIsWinners, Empty, Completed, Failed
<1>6. QED
  BY <1>1, <1>3, <1>4, <1>5 DEF IInv

-----------------------------------------------------------------------------
(* Steps that leave the slots alone.                                        *)

\* Where the slots, the histories and the ids stay, only the thread's own place is left to show.
LEMMA SlotsKept ==
  ASSUME IInv, UNCHANGED <<slots, granted, settled>>, nextId' >= nextId
  PROVE  IdsUnique' /\ (TypeOK' => PublishedIds') /\ StatusTells' /\ UnpublishedUntouched'
<1>1. \A i \in Slots : Published(i)' <=> Published(i)
  BY DEF Published
<1>2. IdsUnique' /\ StatusTells' /\ UnpublishedUntouched'
  BY <1>1 DEF IInv, IdsUnique, StatusTells, UnpublishedUntouched
<1>3. ASSUME TypeOK' PROVE PublishedIds'
  <2>1. nextId \in Nat /\ nextId' \in Nat /\ \A i \in Slots : slots[i].id \in Nat
    BY <1>3 DEF IInv, TypeOK
  <2>2. QED
    BY <1>1, <2>1 DEF IInv, PublishedIds
<1>4. QED
  BY <1>2, <1>3

\* What a slot may hold; writing one field of a slot leaves every slot such a record.
SlotRecords == [id : 0 .. MaxId, status : Empty .. Failed, reason : Reasons \cup {NoReason}]

LEMMA SlotWritten ==
  ASSUME NEW table \in [Slots -> SlotRecords], NEW i \in Slots
  PROVE  /\ \A v \in Empty .. Failed : [table EXCEPT ![i].status = v] \in [Slots -> SlotRecords]
         /\ \A v \in Reasons \cup {NoReason} : [table EXCEPT ![i].reason = v] \in [Slots -> SlotRecords]
         /\ \A v \in 0 .. MaxId, r \in Reasons \cup {NoReason} :
              [table EXCEPT ![i].id = v, ![i].reason = r] \in [Slots -> SlotRecords]
<1>1. ASSUME NEW new \in SlotRecords PROVE [table EXCEPT ![i] = new] \in [Slots -> SlotRecords]
  OBVIOUS
<1>2. table[i] \in SlotRecords
  OBVIOUS
<1>3. ASSUME NEW v \in Empty .. Failed PROVE [table EXCEPT ![i].status = v] \in [Slots -> SlotRecords]
  <2>1. [table[i] EXCEPT !.status = v] \in SlotRecords
    BY <1>2, <1>3 DEF SlotRecords
  <2>2. QED
    BY <1>1, <2>1
<1>4. ASSUME NEW v \in Reasons \cup {NoReason} PROVE [table EXCEPT ![i].reason = v] \in [Slots -> SlotRecords]
  <2>1. [table[i] EXCEPT !.reason = v] \in SlotRecords
    BY <1>2, <1>4 DEF SlotRecords
  <2>2. QED
    BY <1>1, <2>1
<1>5. ASSUME NEW v \in 0 .. MaxId, NEW r \in Reasons \cup {NoReason}
      PROVE  [table EXCEPT ![i].id = v, ![i].reason = r] \in [Slots -> SlotRecords]
  <2>1. [table[i] EXCEPT !.id = v, !.reason = r] \in SlotRecords
    BY <1>2, <1>5 DEF SlotRecords
  <2>2. [table EXCEPT ![i].id = v, ![i].reason = r] = [table EXCEPT ![i] = [table[i] EXCEPT !.id = v, !.reason = r]]
    OBVIOUS
  <2>3. QED
    BY <1>1, <2>1, <2>2
<1>6. QED
  BY <1>3, <1>4, <1>5

\* Taking the gate: nobody else holds it.
LEMMA BeginDispatchKeeps ==
  ASSUME IInv, NEW t \in Threads, BeginDispatch(t) PROVE IInv'
<1> USE DEF BeginDispatch, Goto
<1>1. TypeOK'
  BY DEF IInv, TypeOK
<1>2. IdsUnique' /\ PublishedIds' /\ StatusTells' /\ UnpublishedUntouched'
  BY <1>1, SlotsKept DEF IInv, TypeOK
<1>3. GateAgreement' /\ IdLeft'
  BY HostAssumption DEF IInv, TypeOK, GateAgreement, IdLeft
<1>4. DispatchOwns' /\ CallFound' /\ StampIsWinners' /\ ReasonIsWinners'
  BY DEF IInv, TypeOK, DispatchOwns, CallFound, StampIsWinners, ReasonIsWinners, Published
<1>5. QED
  BY <1>1, <1>2, <1>3, <1>4 DEF IInv

\* A call that returns without touching a slot.
LEMMA ReturnKeeps ==
  ASSUME IInv, NEW t \in Threads, NEW from, Return(t, from), from # "stamp",
         UNCHANGED <<slots, granted, settled>>,
         nextId' \in 1 .. MaxId + 1, nextId' >= nextId,
         gate' = gate \/ (gate = t /\ gate' = Free), nextId' = nextId \/ gate = t
  PROVE  IInv'
<1> USE DEF Return, Goto
<1>1. TypeOK'
  <2>1. call' \in [Threads -> [op : {"None", "Dispatch", "Claim", "Commit", "Complete", "Fail"},
                               id : 0 .. MaxId, slot : {0} \cup Slots, reason : Reasons \cup {NoReason}]]
    BY HostAssumption DEF IInv, TypeOK, NoCall
  <2>2. QED
    BY <2>1 DEF IInv, TypeOK
<1>2. IdsUnique' /\ PublishedIds' /\ StatusTells' /\ UnpublishedUntouched'
  BY <1>1, SlotsKept DEF IInv
<1>3. \A u \in Threads : u # t => pc'[u] = pc[u] /\ call'[u] = call[u]
  BY DEF IInv, TypeOK
<1>4. pc'[t] = "idle"
  BY DEF IInv, TypeOK
<1>5. GateAgreement' /\ IdLeft'
  BY <1>3, <1>4 DEF IInv, GateAgreement, IdLeft
<1>6. DispatchOwns'
  BY <1>1, <1>3, <1>4 DEF IInv, TypeOK, DispatchOwns, Published
<1>7. CallFound' /\ StampIsWinners'
  BY <1>3, <1>4, SMTT(120) DEF IInv, CallFound, StampIsWinners, Published
<1>8. ReasonIsWinners'
  <2>1. \A u \in Threads : pc[u] = "stamp" => pc'[u] = "stamp" /\ call'[u] = call[u]
    BY <1>3
  <2>2. QED
    BY <2>1 DEF IInv, ReasonIsWinners
<1>9. QED
  BY <1>1, <1>2, <1>5, <1>6, <1>7, <1>8 DEF IInv

\* A call that has found its slot.
LEMMA SeekKeeps ==
  ASSUME IInv, NEW t \in Threads, NEW op \in Calls, NEW id \in Ids, NEW reason \in Reasons,
         Seek(t, op, id, reason)
  PROVE  IInv'
<1> USE DEF Seek, Goto
<1>1. PICK i \in Slots :
        /\ Published(i) /\ slots[i].id = id
        /\ call' = [call EXCEPT ![t] = [op |-> op, id |-> id, slot |-> i, reason |-> reason]]
  OBVIOUS
<1>2. TypeOK'
  BY <1>1 DEF IInv, TypeOK, Calls, Ids
<1>3. IdsUnique' /\ PublishedIds' /\ StatusTells' /\ UnpublishedUntouched'
  BY <1>2, SlotsKept DEF IInv, TypeOK
<1>4. \A u \in Threads : u # t => pc'[u] = pc[u] /\ call'[u] = call[u]
  BY <1>1 DEF IInv, TypeOK
<1>5. /\ pc'[t] = "exchange"
      /\ call'[t] = [op |-> op, id |-> id, slot |-> i, reason |-> reason]
  BY <1>1 DEF IInv, TypeOK
<1>6. GateAgreement' /\ IdLeft' /\ DispatchOwns' /\ StampIsWinners'
  BY <1>4, <1>5 DEF IInv, GateAgreement, IdLeft, DispatchOwns, StampIsWinners, Published
<1>7. CallFound'
  BY <1>1, <1>4, <1>5 DEF IInv, CallFound, Published
<1>8. ReasonIsWinners'
  <2>1. \A u \in Threads : pc[u] = "stamp" => pc'[u] = "stamp" /\ call'[u] = call[u]
    BY <1>4
  <2>2. QED
    BY <2>1 DEF IInv, ReasonIsWinners
<1>9. QED
  BY <1>2, <1>3, <1>6, <1>7, <1>8 DEF IInv

-----------------------------------------------------------------------------
(* Dispatch.                                                                *)

\* A dispatch takes the first empty slot, or returns.
LEMMA AllocateKeeps ==
  ASSUME IInv, NEW t \in Threads, NEW allowed, NEW reason \in Reasons,
         Allocate(t, allowed, reason)
  PROVE  IInv'
<1>1. nextId' = nextId + 1 /\ nextId' \in 1 .. MaxId + 1 /\ UNCHANGED <<granted, settled>>
  <2>1. pc[t] = "allocate"
    BY DEF Allocate, Return, Goto
  <2>2. QED
    BY <2>1, HostAssumption DEF Allocate, IInv, TypeOK, IdLeft
<1>2. CASE ~(allowed /\ EmptySlots # {})
  <2>1. Return(t, "allocate") /\ gate' = Free /\ UNCHANGED slots
    BY <1>2 DEF Allocate
  <2>2. gate = t
    BY <2>1 DEF Return, Goto, IInv, GateAgreement
  <2>3. QED
    BY <1>1, <2>1, <2>2, ReturnKeeps DEF IInv, TypeOK
<1>3. CASE allowed /\ EmptySlots # {}
  <2> DEFINE i == CHOOSE i \in EmptySlots : \A j \in EmptySlots : i <= j
             mine == [op |-> "Dispatch", id |-> nextId, slot |-> i, reason |-> reason]
  <2>1. /\ pc[t] = "allocate" /\ pc' = [pc EXCEPT ![t] = "fill"]
        /\ call' = [call EXCEPT ![t] = mine]
        /\ slots' = [slots EXCEPT ![i].status = Allocating]
        /\ gate' = gate
    BY <1>3 DEF Allocate, Goto
  <2>2. i \in Slots /\ slots[i].status = Empty
    BY <1>3, LeastEmpty
  <2> HIDE DEF i
  <2>3. nextId \in Ids
    BY <2>1 DEF IInv, TypeOK, IdLeft, Ids
  <2>4. TypeOK'
    <3>0. Allocating \in Empty .. Failed
      BY DEF Allocating, Empty, Failed
    <3>1. slots' \in [Slots -> SlotRecords]
      <4>1. slots \in [Slots -> SlotRecords]
        BY DEF IInv, TypeOK, SlotRecords
      <4>2. QED
        BY <2>1, <2>2, <3>0, <4>1, SlotWritten
    <3>2. mine \in [op : {"None", "Dispatch", "Claim", "Commit", "Complete", "Fail"}, id : 0 .. MaxId,
                    slot : {0} \cup Slots, reason : Reasons \cup {NoReason}]
      BY <2>2, <2>3, HostAssumption DEF Ids
    <3>3. QED
      BY <1>1, <2>1, <3>1, <3>2 DEF IInv, TypeOK, SlotRecords
  <2>5. /\ \A j \in Slots : j # i => slots'[j] = slots[j]
        /\ slots'[i].status = Allocating
    BY <2>1, <2>2 DEF IInv, TypeOK
  <2>6. \A j \in Slots : (Published(j)' <=> Published(j)) /\ (Published(j) => j # i)
    BY <2>2, <2>5 DEF Published, Pending, Allocating, Empty
  <2>7. \A u \in Threads : u # t => pc'[u] = pc[u] /\ call'[u] = call[u]
    BY <2>1 DEF IInv, TypeOK
  <2>8. pc'[t] = "fill" /\ call'[t] = mine
    BY <2>1 DEF IInv, TypeOK
  <2>9. IdsUnique'
    BY <2>5, <2>6 DEF IInv, IdsUnique
  <2>10. PublishedIds'
    BY <1>1, <2>5, <2>6 DEF IInv, TypeOK, PublishedIds, Ids
  <2>11. StatusTells' /\ UnpublishedUntouched'
    BY <1>1, <2>5, <2>6 DEF IInv, StatusTells, UnpublishedUntouched
  <2>12. GateAgreement' /\ IdLeft'
    BY <2>1, <2>7, <2>8 DEF IInv, GateAgreement, IdLeft
  <2>13. DispatchOwns'
    <3>1. \A u \in Threads : u # t => pc'[u] \notin {"fill", "open"}
      BY <2>1, <2>7 DEF IInv, GateAgreement
    <3>2. \A j \in Slots : Published(j)' => slots'[j].id # nextId
      BY <2>5, <2>6 DEF IInv, TypeOK, PublishedIds, Ids
    <3>3. nextId < nextId'
      BY <1>1 DEF IInv, TypeOK
    <3>4. QED
      BY <2>2, <2>3, <2>5, <2>8, <3>1, <3>2, <3>3 DEF DispatchOwns
  <2>14. CallFound' /\ StampIsWinners'
    BY <1>1, <2>5, <2>6, <2>7, <2>8, SMTT(120) DEF IInv, CallFound, StampIsWinners
  <2>15. ReasonIsWinners'
    <3>1. \A u \in Threads : pc[u] = "stamp" => pc'[u] = "stamp" /\ call'[u] = call[u]
      BY <2>1, <2>7
    <3>2. slots'[i].status \notin {Completed, Failed}
      BY <2>5 DEF Allocating, Completed, Failed
    <3>3. QED
      BY <1>1, <2>5, <3>1, <3>2 DEF IInv, ReasonIsWinners
  <2>16. QED
    BY <2>4, <2>9, <2>10, <2>11, <2>12, <2>13, <2>14, <2>15 DEF IInv
<1>4. QED
  BY <1>2, <1>3

\* The slot being filled is not visible, so nobody depends on what is written.
LEMMA FillSlotKeeps ==
  ASSUME IInv, NEW t \in Threads, FillSlot(t) PROVE IInv'
<1> DEFINE s == call[t].slot
<1> USE DEF FillSlot, Goto
<1>1. /\ s \in Slots /\ slots[s].status = Allocating /\ call[t].id \in Ids
      /\ call[t].id < nextId
      /\ \A i \in Slots : Published(i) => slots[i].id # call[t].id
  BY DEF IInv, DispatchOwns
<1>2. /\ \A i \in Slots : slots'[i].status = slots[i].status
      /\ \A i \in Slots : i # s => slots'[i] = slots[i]
      /\ slots'[s].id = call[t].id
  BY <1>1 DEF IInv, TypeOK
<1>a. UNCHANGED <<nextId, gate, call, granted, settled>> /\ pc[t] = "fill"
  OBVIOUS
<1>4. TypeOK'
  <2>1. call[t].id \in 0 .. MaxId /\ call[t].reason \in Reasons \cup {NoReason}
    BY DEF IInv, TypeOK
  <2>2. slots' \in [Slots -> SlotRecords]
    <3>1. slots \in [Slots -> SlotRecords]
      BY DEF IInv, TypeOK, SlotRecords
    <3>2. slots' = [slots EXCEPT ![s].id = call[t].id, ![s].reason = call[t].reason]
      OBVIOUS
    <3> HIDE DEF FillSlot, s
    <3>3. QED
      BY <1>1, <2>1, <3>1, <3>2, SlotWritten
  <2>3. pc' \in [Threads -> {"idle", "allocate", "fill", "open", "exchange", "stamp"}]
    BY DEF IInv, TypeOK
  <2>4. QED
    <3> HIDE DEF FillSlot, Goto, s
    <3>1. QED
      BY <1>a, <2>2, <2>3 DEF IInv, TypeOK, SlotRecords
<1>5. \A u \in Threads : u # t => pc'[u] = pc[u]
  BY DEF IInv, TypeOK
<1>6. pc'[t] = "open"
  BY DEF IInv, TypeOK
<1> HIDE DEF FillSlot, Goto, s
<1>3. \A i \in Slots : (Published(i)' <=> Published(i)) /\ (Published(i) => i # s)
  BY <1>1, <1>2 DEF Published, Allocating, Pending
<1>7. GateAgreement' /\ IdLeft'
  BY <1>5, <1>6, <1>a DEF IInv, GateAgreement, IdLeft
<1>8. IdsUnique' /\ PublishedIds' /\ StatusTells' /\ UnpublishedUntouched'
  BY <1>2, <1>3, <1>a DEF IInv, IdsUnique, PublishedIds, StatusTells, UnpublishedUntouched
<1>9. DispatchOwns'
  <2>1. \A u \in Threads : u # t => pc'[u] \notin {"fill", "open"}
    BY <1>5, <1>a DEF IInv, GateAgreement
  <2>2. QED
    BY <1>1, <1>2, <1>3, <1>6, <1>a, <2>1 DEF DispatchOwns, s
<1>10. CallFound' /\ StampIsWinners'
  BY <1>2, <1>3, <1>5, <1>6, <1>a DEF IInv, CallFound, StampIsWinners
<1>11. ReasonIsWinners'
  <2>1. slots'[s].status \notin {Completed, Failed}
    BY <1>1, <1>2 DEF Allocating, Completed, Failed
  <2>2. \A u \in Threads : pc[u] = "stamp" <=> pc'[u] = "stamp"
    BY <1>5, <1>6, <1>a
  <2>3. QED
    BY <1>2, <1>a, <2>1, <2>2 DEF IInv, ReasonIsWinners
<1>12. QED
  BY <1>4, <1>7, <1>8, <1>9, <1>10, <1>11 DEF IInv

\* A slot becomes visible with an id that no visible slot has.
LEMMA OpenSlotKeeps ==
  ASSUME IInv, NEW t \in Threads, OpenSlot(t) PROVE IInv'
<1> DEFINE s == call[t].slot
<1> USE DEF OpenSlot, Return, Goto
<1>1. /\ s \in Slots /\ slots[s].status = Allocating /\ call[t].id \in Ids
      /\ call[t].id < nextId /\ slots[s].id = call[t].id
      /\ \A i \in Slots : Published(i) => slots[i].id # call[t].id
  BY DEF IInv, DispatchOwns
<1>2. /\ \A i \in Slots : i # s => slots'[i] = slots[i]
      /\ slots'[s].id = call[t].id /\ slots'[s].status = Pending
  BY <1>1 DEF IInv, TypeOK
<1>a. /\ UNCHANGED <<nextId, granted, settled>> /\ pc[t] = "open" /\ gate' = Free
  OBVIOUS
<1>4. TypeOK'
  <2>1. Pending \in Empty .. Failed
    BY DEF Pending, Empty, Failed
  <2>2. slots' \in [Slots -> SlotRecords]
    <3>1. slots \in [Slots -> SlotRecords]
      BY DEF IInv, TypeOK, SlotRecords
    <3>2. slots' = [slots EXCEPT ![s].status = Pending]
      OBVIOUS
    <3> HIDE DEF OpenSlot, s
    <3>3. QED
      BY <1>1, <2>1, <3>1, <3>2, SlotWritten
  <2>3. call' \in [Threads -> [op : {"None", "Dispatch", "Claim", "Commit", "Complete", "Fail"},
                               id : 0 .. MaxId, slot : {0} \cup Slots, reason : Reasons \cup {NoReason}]]
    BY HostAssumption DEF IInv, TypeOK, NoCall
  <2>4. QED
    BY <2>2, <2>3 DEF IInv, TypeOK, SlotRecords
<1>5. \A u \in Threads : u # t => pc'[u] = pc[u] /\ call'[u] = call[u]
  BY DEF IInv, TypeOK
<1>6. pc'[t] = "idle"
  BY DEF IInv, TypeOK
<1> HIDE DEF OpenSlot, Return, Goto, s
<1>3. /\ \A i \in Slots : i = s => ~Published(i) /\ Published(i)'
      /\ \A i \in Slots : i # s => (Published(i)' <=> Published(i))
  BY <1>1, <1>2 DEF Published, Allocating, Pending
<1>7. \A u \in Threads : u # t => pc[u] \notin {"allocate", "fill", "open"}
  BY <1>a DEF IInv, GateAgreement
<1>8. GateAgreement' /\ IdLeft' /\ DispatchOwns'
  BY <1>5, <1>6, <1>7, <1>a DEF GateAgreement, IdLeft, DispatchOwns
<1>9. IdsUnique' /\ PublishedIds'
  BY <1>1, <1>2, <1>3, <1>a DEF IInv, IdsUnique, PublishedIds
<1>10. granted[call[t].id] = 0 /\ settled[call[t].id] = << >>
  BY <1>1 DEF IInv, UnpublishedUntouched
<1>11. StatusTells'
  <2>1. \A i \in Slots : i # s /\ Published(i)' => Published(i) /\ slots'[i] = slots[i]
    BY <1>2, <1>3
  <2>2. Pending \notin Settled
    BY DEF Pending, Settled, Completed, Failed
  <2>3. QED
    BY <1>2, <1>10, <1>a, <2>1, <2>2 DEF IInv, StatusTells
<1>12. UnpublishedUntouched'
  BY <1>2, <1>3, <1>a DEF IInv, UnpublishedUntouched
<1>13. CallFound' /\ StampIsWinners'
  BY <1>2, <1>3, <1>5, <1>6, <1>a DEF IInv, CallFound, StampIsWinners
<1>14. ReasonIsWinners'
  <2>1. slots'[s].status \notin {Completed, Failed}
    BY <1>2 DEF Pending, Completed, Failed
  <2>2. \A u \in Threads : pc[u] = "stamp" => pc'[u] = "stamp" /\ call'[u] = call[u]
    BY <1>5, <1>a
  <2>3. QED
    BY <1>2, <1>a, <2>1, <2>2 DEF IInv, ReasonIsWinners
<1>15. QED
  BY <1>4, <1>8, <1>9, <1>11, <1>12, <1>13, <1>14 DEF IInv

-----------------------------------------------------------------------------
(* The exchange and the reason.                                             *)

\* The winner of an exchange: the slot and its id were untouched by a settlement so far.
LEMMA WinKeeps ==
  ASSUME IInv, NEW t \in Threads, Win(t) PROVE IInv'
<1> DEFINE s == call[t].slot
           id == call[t].id
           change == Exchange(call[t].op)
<1>1. /\ s \in Slots /\ Published(s) /\ call[t].op \in Calls /\ call[t].reason \in Reasons
      /\ slots[s].id = id /\ id \in Ids /\ pc[t] = "exchange"
  BY DEF Win, IInv, CallFound, PublishedIds
<1>2. /\ slots[s].status = change.from
      /\ slots' = [slots EXCEPT ![s].status = change.to]
      /\ UNCHANGED <<nextId, gate>>
  BY DEF Win, Expected
<1>3. /\ change.from \in {Pending, Claimed} /\ change.to \in {Claimed} \cup Settled
      /\ call[t].op = "Claim" => change = Change(Pending, Claimed)
      /\ call[t].op # "Claim" => change.to \in Settled
  BY <1>1 DEF Exchange, Change, Calls, Settled
<1>4. /\ \A i \in Slots : i # s => slots'[i] = slots[i]
      /\ slots'[s].id = id /\ slots'[s].status = change.to /\ slots'[s].reason = slots[s].reason
  BY <1>1, <1>2 DEF IInv, TypeOK
<1>5. \A i \in Slots : (Published(i)' <=> Published(i)) /\ slots'[i].id = slots[i].id
  BY <1>1, <1>3, <1>4 DEF Published, Pending, Claimed, Settled, Completed, Failed
<1>6. \A i \in Slots : Published(i) /\ i # s => slots[i].id # id
  BY <1>1 DEF IInv, IdsUnique
<1>7. settled[id] = << >> /\ granted[id] <= 1 /\ (slots[s].status = Pending => granted[id] = 0)
  BY <1>1, <1>2, <1>3 DEF IInv, StatusTells, Pending, Claimed, Settled, Completed, Failed
<1>8. pc' = [pc EXCEPT ![t] = IF call[t].op = "Claim" THEN "idle" ELSE "stamp"]
  BY DEF Win, Return, Goto
<1>9. \A u \in Threads : u # t => pc'[u] = pc[u] /\ call'[u] = call[u]
  BY DEF Win, Return, Goto, IInv, TypeOK
<1>10. slots' \in [Slots -> [id : 0 .. MaxId, status : Empty .. Failed, reason : Reasons \cup {NoReason}]]
  <2>1. change.to \in Empty .. Failed
    BY <1>3 DEF Settled, Claimed, Completed, Failed, Empty
  <2>2. slots \in [Slots -> SlotRecords]
    BY DEF IInv, TypeOK, SlotRecords
  <2> HIDE DEF s, change
  <2>3. slots' \in [Slots -> SlotRecords]
    BY <1>1, <1>2, <2>1, <2>2, SlotWritten
  <2>4. QED
    BY <2>3 DEF SlotRecords
<1>11. GateAgreement' /\ IdLeft'
  BY <1>2, <1>8 DEF IInv, TypeOK, GateAgreement, IdLeft
<1>12. IdsUnique' /\ PublishedIds'
  BY <1>2, <1>5 DEF IInv, IdsUnique, PublishedIds
<1>13. DispatchOwns'
  <2>1. \A u \in Threads : pc'[u] \in {"fill", "open"} => u # t /\ pc'[u] = pc[u]
    BY <1>1, <1>8 DEF IInv, TypeOK
  <2>2. \A u \in Threads : pc[u] \in {"fill", "open"} => call[u].slot # s
    BY <1>1 DEF IInv, DispatchOwns, Published, Allocating, Pending
  <2>3. QED
    BY <1>2, <1>4, <1>5, <1>9, <2>1, <2>2 DEF IInv, DispatchOwns
<1>14. \A u \in Threads : pc[u] = "stamp" => call[u].id # id /\ call[u].slot # s
  <2>1. change.from \notin Settled
    BY <1>3 DEF Settled, Pending, Claimed, Completed, Failed
  <2> HIDE DEF change, s, id
  <2>2. \A u \in Threads : pc[u] = "stamp" => settled[call[u].id] # << >> /\ call[u].slot # s
    BY <1>2, <2>1 DEF IInv, StampIsWinners
  <2>3. QED
    BY <1>7, <2>2
<1>15. CASE call[t].op = "Claim"
  <2> HIDE DEF change, s, id
  <2>1. /\ call' = [call EXCEPT ![t] = NoCall]
        /\ granted' = [granted EXCEPT ![id] = @ + 1]
        /\ settled' = settled
    BY <1>15 DEF Win, Return, id
  <2>2. /\ change.from = Pending /\ slots'[s].status = Claimed
        /\ pc'[t] = "idle" /\ granted[id] = 0
    BY <1>2, <1>3, <1>4, <1>7, <1>8, <1>15 DEF Change, IInv, TypeOK
  <2>3. granted'[id] = 1 /\ \A o \in Ids : o # id => granted'[o] = granted[o]
    BY <1>1, <2>1, <2>2 DEF IInv, TypeOK
  <2>4. TypeOK'
    <3>1. call' \in [Threads -> [op : {"None", "Dispatch", "Claim", "Commit", "Complete", "Fail"},
                                 id : 0 .. MaxId, slot : {0} \cup Slots, reason : Reasons \cup {NoReason}]]
      BY <2>1, HostAssumption DEF IInv, TypeOK, NoCall
    <3>2. granted' \in [Ids -> Nat]
      BY <1>1, <2>1 DEF IInv, TypeOK
    <3>3. QED
      BY <1>2, <1>8, <1>10, <2>1, <3>1, <3>2 DEF IInv, TypeOK
  <2>5. Claimed \notin Settled /\ Claimed # Pending
    BY DEF Claimed, Settled, Completed, Failed, Pending
  <2>6. StatusTells'
    <3>1. ASSUME NEW i \in Slots, Published(i)', i # s
          PROVE  Published(i) /\ slots'[i] = slots[i] /\ slots[i].id \in Ids /\ granted'[slots[i].id] = granted[slots[i].id]
      BY <1>4, <1>5, <1>6, <2>3, <3>1 DEF IInv, PublishedIds
    <3>2. QED
      BY <1>4, <1>7, <2>1, <2>2, <2>3, <2>5, <3>1 DEF IInv, StatusTells
  <2>7. UnpublishedUntouched'
    <3>1. \A o \in Ids : (\A i \in Slots : Published(i)' => slots'[i].id # o) => o # id
      BY <1>1, <1>5
    <3>2. QED
      BY <1>5, <2>1, <2>3, <3>1 DEF IInv, UnpublishedUntouched
  <2>8. CallFound'
    BY <1>5, <1>9, <2>2 DEF IInv, CallFound
  <2>9. StampIsWinners'
    <3>1. \A u \in Threads : pc'[u] = "stamp" => u # t /\ pc[u] = "stamp" /\ call[u].slot # s
      BY <1>9, <1>14, <2>2 DEF id
    <3>2. \A u \in Threads : pc[u] = "stamp" => call[u].slot \in Slots
      BY DEF IInv, CallFound
    <3>3. QED
      BY <1>4, <1>9, <2>1, <3>1, <3>2, SMTT(120) DEF IInv, StampIsWinners
  <2>10. ReasonIsWinners'
    <3>1. \A u \in Threads : pc[u] = "stamp" => pc'[u] = "stamp" /\ call'[u] = call[u]
      BY <1>1, <1>9
    <3>2. \A i \in Slots : slots'[i].status \in {Completed, Failed} => slots'[i] = slots[i]
      BY <1>4, <2>2, <2>5 DEF Settled
    <3>3. ASSUME NEW i \in Slots, slots'[i].status \in {Completed, Failed},
                 ~\E u \in Threads : pc'[u] = "stamp" /\ call'[u].slot = i
          PROVE  <<slots'[i].reason>> = settled'[slots'[i].id]
      <4>1. ~\E u \in Threads : pc[u] = "stamp" /\ call[u].slot = i
        BY <3>1, <3>3
      <4>2. QED
        BY <2>1, <3>2, <3>3, <4>1 DEF IInv, ReasonIsWinners
    <3>4. QED
      BY <3>3 DEF ReasonIsWinners
  <2>11. QED
    BY <1>11, <1>12, <1>13, <2>4, <2>6, <2>7, <2>8, <2>9, <2>10 DEF IInv
<1>16. CASE call[t].op # "Claim"
  <2> HIDE DEF change, s, id
  <2>1. /\ call' = call /\ granted' = granted
        /\ settled' = [settled EXCEPT ![id] = Append(@, call[t].reason)]
    BY <1>16 DEF Win, id
  <2>2. slots'[s].status \in Settled /\ pc'[t] = "stamp"
    BY <1>3, <1>4, <1>8, <1>16 DEF IInv, TypeOK
  <2>3. settled'[id] = <<call[t].reason>> /\ \A o \in Ids : o # id => settled'[o] = settled[o]
    BY <1>1, <1>7, <2>1 DEF IInv, TypeOK
  <2>4. TypeOK'
    <3>1. settled' \in [Ids -> Seq(Reasons)]
      BY <1>1, <2>1 DEF IInv, TypeOK
    <3>2. QED
      BY <1>2, <1>8, <1>10, <2>1, <3>1 DEF IInv, TypeOK
  <2>5. \A x \in Settled : x # Pending
    BY DEF Settled, Completed, Failed, Pending
  <2>6. StatusTells'
    <3>1. ASSUME NEW i \in Slots, Published(i)', i # s
          PROVE  Published(i) /\ slots'[i] = slots[i] /\ slots[i].id \in Ids /\ settled'[slots[i].id] = settled[slots[i].id]
      BY <1>4, <1>5, <1>6, <2>3, <3>1 DEF IInv, PublishedIds
    <3>2. Len(settled'[id]) = 1
      BY <2>3
    <3>3. QED
      BY <1>4, <1>7, <2>1, <2>2, <2>5, <3>1, <3>2 DEF IInv, StatusTells
  <2>7. UnpublishedUntouched'
    <3>1. \A o \in Ids : (\A i \in Slots : Published(i)' => slots'[i].id # o) => o # id
      BY <1>1, <1>5
    <3>2. QED
      BY <1>5, <2>1, <2>3, <3>1 DEF IInv, UnpublishedUntouched
  <2>8. CallFound'
    BY <1>1, <1>5, <1>9, <2>1 DEF IInv, CallFound
  <2>9. StampIsWinners'
    <3>1. ASSUME NEW u \in Threads, pc'[u] = "stamp", u # t
          PROVE  /\ pc[u] = "stamp" /\ call[u].slot # s /\ call[u].slot \in Slots
                 /\ call[u].id # id /\ call[u].id \in Ids
      BY <1>9, <1>14, <3>1 DEF IInv, CallFound, PublishedIds, s, id
    <3>2. QED
      BY <1>4, <2>1, <2>2, <2>3, <3>1 DEF IInv, StampIsWinners, s, id
  <2>10. ReasonIsWinners'
    <3>1. \A u \in Threads : pc[u] = "stamp" => pc'[u] = "stamp" /\ call'[u] = call[u]
      BY <1>1, <1>9
    <3>2. ASSUME NEW i \in Slots, i # s, slots'[i].status \in {Completed, Failed}
          PROVE  slots'[i] = slots[i] /\ slots[i].id \in Ids /\ settled'[slots[i].id] = settled[slots[i].id]
      <4>1. Published(i)
        BY <1>4, <3>2 DEF Published, Pending, Completed, Failed
      <4>2. QED
        BY <1>4, <1>6, <2>3, <3>2, <4>1 DEF IInv, PublishedIds
    <3>3. call'[t].slot = s
      BY <2>1 DEF s
    <3>4. ASSUME NEW i \in Slots, slots'[i].status \in {Completed, Failed},
                 ~\E u \in Threads : pc'[u] = "stamp" /\ call'[u].slot = i
          PROVE  <<slots'[i].reason>> = settled'[slots'[i].id]
      <4>1. i # s
        BY <2>2, <3>3, <3>4
      <4>2. ~\E u \in Threads : pc[u] = "stamp" /\ call[u].slot = i
        BY <3>1, <3>4
      <4>3. QED
        BY <3>2, <3>4, <4>1, <4>2 DEF IInv, ReasonIsWinners
    <3>5. QED
      BY <3>4 DEF ReasonIsWinners
  <2>11. QED
    BY <1>11, <1>12, <1>13, <2>4, <2>6, <2>7, <2>8, <2>9, <2>10 DEF IInv
<1>17. QED
  BY <1>15, <1>16

\* The reason of the winner reaches the slot: no other thread's can follow it.
LEMMA StampKeeps ==
  ASSUME IInv, NEW t \in Threads, Stamp(t) PROVE IInv'
<1> DEFINE s == call[t].slot
<1> USE DEF Stamp, Return, Goto
<1>1. /\ s \in Slots /\ Published(s) /\ slots[s].id = call[t].id /\ pc[t] = "stamp"
      /\ settled[call[t].id] = <<call[t].reason>>
      /\ UNCHANGED <<nextId, gate, granted, settled>>
  BY DEF IInv, CallFound, StampIsWinners
<1>2. /\ \A i \in Slots : slots'[i].status = slots[i].status /\ slots'[i].id = slots[i].id
      /\ \A i \in Slots : i # s => slots'[i] = slots[i]
      /\ slots'[s].reason = call[t].reason
  BY <1>1 DEF IInv, TypeOK
<1>3. TypeOK'
  <2>1. call[t].reason \in Reasons
    BY DEF IInv, CallFound
  <2>2. slots' \in [Slots -> SlotRecords]
    <3>1. slots \in [Slots -> SlotRecords]
      BY DEF IInv, TypeOK, SlotRecords
    <3>2. slots' = [slots EXCEPT ![s].reason = call[t].reason]
      OBVIOUS
    <3> HIDE DEF Stamp, s
    <3>3. QED
      BY <1>1, <2>1, <3>1, <3>2, SlotWritten
  <2>3. call' \in [Threads -> [op : {"None", "Dispatch", "Claim", "Commit", "Complete", "Fail"},
                               id : 0 .. MaxId, slot : {0} \cup Slots, reason : Reasons \cup {NoReason}]]
    BY HostAssumption DEF IInv, TypeOK, NoCall
  <2>4. QED
    BY <2>2, <2>3 DEF IInv, TypeOK, SlotRecords
<1>4. \A u \in Threads : u # t => pc'[u] = pc[u] /\ call'[u] = call[u]
  BY DEF IInv, TypeOK
<1>5. pc'[t] = "idle"
  BY DEF IInv, TypeOK
<1> HIDE DEF Stamp, Return, Goto, s
<1>6. \A i \in Slots : Published(i)' <=> Published(i)
  BY <1>2 DEF Published
<1>7. GateAgreement' /\ IdLeft'
  BY <1>1, <1>4, <1>5 DEF IInv, GateAgreement, IdLeft
<1>8. IdsUnique' /\ PublishedIds' /\ StatusTells' /\ UnpublishedUntouched'
  BY <1>1, <1>2, <1>6 DEF IInv, IdsUnique, PublishedIds, StatusTells, UnpublishedUntouched
<1>9. DispatchOwns'
  BY <1>1, <1>2, <1>4, <1>5, <1>6 DEF IInv, DispatchOwns
<1>10. CallFound' /\ StampIsWinners'
  <2>1. \A u \in Threads : pc[u] \in {"exchange", "stamp"} => call[u].slot \in Slots
    BY DEF IInv, CallFound
  <2>2. QED
    BY <1>1, <1>2, <1>4, <1>5, <1>6, <2>1, SMTT(120) DEF IInv, CallFound, StampIsWinners
<1>11. ReasonIsWinners'
  <2>1. ASSUME NEW i \in Slots, slots'[i].status \in {Completed, Failed},
               ~\E u \in Threads : pc'[u] = "stamp" /\ call'[u].slot = i
        PROVE  <<slots'[i].reason>> = settled'[slots'[i].id]
    <3>1. CASE i = s
      BY <1>1, <1>2, <3>1
    <3>2. CASE i # s
      <4>1. ~\E u \in Threads : pc[u] = "stamp" /\ call[u].slot = i
        BY <1>4, <2>1, <3>2 DEF s
      <4>2. QED
        BY <1>1, <1>2, <2>1, <3>2, <4>1 DEF IInv, ReasonIsWinners
    <3>3. QED
      BY <3>1, <3>2
  <2>2. QED
    BY <2>1 DEF ReasonIsWinners
<1>12. QED
  BY <1>3, <1>7, <1>8, <1>9, <1>10, <1>11 DEF IInv

\* Every step of every thread keeps the invariant.
LEMMA NextIInv == IInv /\ [Next]_vars => IInv'
<1> SUFFICES ASSUME IInv, [Next]_vars PROVE IInv'
  OBVIOUS
<1>1. ASSUME UNCHANGED vars PROVE IInv'
  <2>1. \A i \in Slots : Published(i)' <=> Published(i)
    BY <1>1 DEF vars, Published
  <2>2. UNCHANGED <<nextId, gate, slots, pc, call, granted, settled>>
    BY <1>1 DEF vars
  <2>3. TypeOK' /\ GateAgreement' /\ IdLeft' /\ ReasonIsWinners'
    BY <2>2 DEF IInv, TypeOK, GateAgreement, IdLeft, ReasonIsWinners
  <2>4. IdsUnique' /\ PublishedIds' /\ StatusTells' /\ UnpublishedUntouched'
    BY <2>1, <2>2 DEF IInv, IdsUnique, PublishedIds, StatusTells, UnpublishedUntouched
  <2>5. DispatchOwns' /\ CallFound' /\ StampIsWinners'
    BY <2>1, <2>2 DEF IInv, DispatchOwns, CallFound, StampIsWinners
  <2>6. QED
    BY <2>3, <2>4, <2>5 DEF IInv
<1>2. ASSUME NEW t \in Threads, Lose(t) PROVE IInv'
  <2>1. Return(t, "exchange") /\ UNCHANGED <<nextId, gate, slots, granted, settled>>
    BY <1>2 DEF Lose
  <2>2. nextId' \in 1 .. MaxId + 1 /\ nextId' >= nextId
    BY <2>1 DEF IInv, TypeOK
  <2>3. QED
    BY <2>1, <2>2, ReturnKeeps
<1>3. ASSUME NEW t \in Threads, NEW id \in Ids, Miss(t, id) PROVE IInv'
  BY <1>1, <1>3 DEF Miss
<1>4. ASSUME NEW t \in Threads, NEW id \in Ids, NEW op \in {"Claim", "Commit", "Complete", "Fail"},
             NEW reason \in Reasons, Seek(t, op, id, reason)
      PROVE  IInv'
  BY <1>4, SeekKeeps DEF Calls
<1>5. QED
  BY <1>1, <1>2, <1>3, <1>4, BeginDispatchKeeps, AllocateKeeps, FillSlotKeeps, OpenSlotKeeps, WinKeeps,
     StampKeeps
  DEF Next

\* What the run checks of small instances, for every number of threads, slots and ids.
THEOREM AlwaysIInv == Spec => []IInv
  BY InitIInv, NextIInv, PTL DEF Spec

\* The host's fields and the calls in progress keep their types: no index leaves the array.
THEOREM AlwaysTyped == Spec => []TypeOK
<1>1. IInv => TypeOK
  BY DEF IInv
<1>2. QED
  BY AlwaysIInv, <1>1, PTL

\* An id's claim is handed out once and the id is settled once, whatever threads race.
THEOREM AlwaysExactlyOnce == Spec => []ExactlyOnce
<1>1. IInv => ExactlyOnce
  <2> SUFFICES ASSUME IInv, NEW id \in Ids PROVE granted[id] <= 1 /\ Len(settled[id]) <= 1
    BY DEF ExactlyOnce
  <2>1. CASE \A i \in Slots : Published(i) => slots[i].id # id
    BY <2>1 DEF IInv, UnpublishedUntouched
  <2>2. CASE \E i \in Slots : Published(i) /\ slots[i].id = id
    <3>1. PICK i \in Slots : Published(i) /\ slots[i].id = id
      BY <2>2
    <3>2. granted[id] <= 1
      BY <3>1 DEF IInv, StatusTells
    <3>3. settled[id] = << >> \/ Len(settled[id]) = 1
      BY <3>1 DEF IInv, StatusTells
    <3>4. Len(settled[id]) <= 1
      <4>1. CASE settled[id] = << >>
        <5>1. Len(<< >>) = 0
          OBVIOUS
        <5>2. QED
          BY <4>1, <5>1
      <4>2. CASE Len(settled[id]) = 1
        BY <4>2
      <4>3. QED
        BY <3>3, <4>1, <4>2
    <3>5. QED
      BY <3>2, <3>4
  <2>3. QED
    BY <2>1, <2>2
<1>2. QED
  BY AlwaysIInv, <1>1, PTL

\* The reason that stays in a settled slot is the winner's.
THEOREM AlwaysReasonIsWinners == Spec => []ReasonIsWinners
<1>1. IInv => ReasonIsWinners
  BY DEF IInv
<1>2. QED
  BY AlwaysIInv, <1>1, PTL

-----------------------------------------------------------------------------
(* Refinement: what Status answers.                                         *)

Codes == {Pending, Claimed, Completed, Failed}
StatusShown ==
  /\ \A i \in Slots, o \in Ids, c \in Codes :
       Published(i) /\ slots[i].id = o /\ slots[i].status = c => Status(o) = StatusName(c)
  /\ \A o \in Ids : (\A i \in Slots : Published(i) => slots[i].id # o) => Status(o) = "Unknown"
  /\ \A i \in Slots : Published(i) => slots[i].status \in Codes

\* Status reads the one visible slot with the id.
LEMMA StatusReads == IInv => StatusShown
<1> SUFFICES ASSUME IInv PROVE StatusShown
  OBVIOUS
<1>1. ASSUME NEW i \in Slots, NEW o \in Ids, Published(i), slots[i].id = o
      PROVE  Status(o) = StatusName(slots[i].status)
  <2> DEFINE found == {j \in Slots : Published(j) /\ slots[j].id = o}
  <2>1. found = {i}
    BY <1>1 DEF IInv, IdsUnique
  <2>2. i \in Int
    BY HostAssumption DEF Slots
  <2>3. (CHOOSE j \in found : \A k \in found : j <= k) = i
    BY <2>1, <2>2
  <2>4. QED
    BY <2>1, <2>3 DEF Status
<1>2. ASSUME NEW o \in Ids, \A i \in Slots : Published(i) => slots[i].id # o
      PROVE  Status(o) = "Unknown"
  BY <1>2 DEF Status
<1>3. ASSUME NEW i \in Slots, Published(i) PROVE slots[i].status \in Codes
  <2>1. slots[i].status \in 0 .. 5
    BY DEF IInv, TypeOK, Empty, Failed
  <2>2. slots[i].status >= 2
    BY <1>3 DEF Published, Pending
  <2>3. QED
    BY <2>1, <2>2 DEF Codes, Pending, Claimed, Completed, Failed
<1>4. QED
  BY <1>1, <1>2, <1>3 DEF StatusShown

\* An id whose visible slot stays as it is shows what it showed.
LEMMA StatusStays ==
  ASSUME StatusShown, StatusShown', NEW o \in Ids,
         \A i \in Slots : (Published(i)' /\ slots'[i].id = o) <=> (Published(i) /\ slots[i].id = o),
         \A i \in Slots : Published(i) /\ slots[i].id = o => slots'[i].status = slots[i].status
  PROVE  Status(o)' = Status(o)
<1>1. CASE \A i \in Slots : Published(i) => slots[i].id # o
  BY <1>1 DEF StatusShown
<1>2. ASSUME NEW i \in Slots, Published(i), slots[i].id = o PROVE Status(o)' = Status(o)
  <2>1. PICK c \in Codes : slots[i].status = c
    BY <1>2 DEF StatusShown
  <2>2. Status(o) = StatusName(c) /\ Status(o)' = StatusName(c)
    <3>1. Published(i)' /\ slots'[i].id = o /\ slots'[i].status = c
      BY <1>2, <2>1
    <3>2. QED
      BY <1>2, <2>1, <3>1 DEF StatusShown
  <2>3. QED
    BY <2>2
<1>3. QED
  BY <1>1, <1>2

\* One id shows something else: the mapped state makes that move.
LEMMA MovesOne ==
  ASSUME NEW id \in Ids, NEW from, NEW to, Status(id) = from, Status(id)' = to,
         \A o \in Ids : o # id => Status(o)' = Status(o)
  PROVE  Abstract!Move(id, from, to)
  BY DEF Abstract!Move

\* Fewer ids than slots are accepted while some slot is not visible.
LEMMA RoomLeft ==
  ASSUME IInv, NEW s \in Slots, ~Published(s) PROVE Cardinality(Abstract!Accepted) < Capacity
<1> DEFINE A == Abstract!Accepted
           Others == Slots \ {s}
           f == [id \in A |-> CHOOSE i \in Slots : Published(i) /\ slots[i].id = id]
<1>1. IsFiniteSet(Slots) /\ Cardinality(Slots) = Capacity
  BY FS_Interval, HostAssumption DEF Slots
<1>2. IsFiniteSet(Others) /\ Cardinality(Others) = Capacity - 1
  BY <1>1, FS_RemoveElement
<1>3. \A id \in A : id \in Ids /\ \E i \in Slots : Published(i) /\ slots[i].id = id
  BY StatusReads DEF Abstract!Accepted, StatusShown
<1>4. \A id \in A : f[id] \in Slots /\ Published(f[id]) /\ slots[f[id]].id = id
  BY <1>3
<1>5. \A id \in A : f[id] \in Others
  BY <1>4
<1>6. f \in [A -> Others]
  BY <1>5
<1>7. \A x, y \in A : f[x] = f[y] => x = y
  BY <1>4
<1> HIDE DEF f, A, Others
<1>8. f \in Injection(A, Others)
  BY <1>6, <1>7 DEF Injection, IsInjective
<1>9. IsFiniteSet(A) /\ Cardinality(A) <= Cardinality(Others)
  BY <1>2, <1>8, FS_Injection
<1>10. Cardinality(A) \in Nat
  BY <1>9, FS_CardinalityType
<1>11. QED
  BY <1>2, <1>9, <1>10, HostAssumption DEF A

\* Every step is a move of one obligation, or shows nothing.
LEMMA StepMaps ==
  ASSUME IInv, IInv', [Next]_vars
  PROVE  Abstract!Next \/ \A o \in Ids : Status(o)' = Status(o)
<1>0. StatusShown /\ StatusShown'
  BY StatusReads, PTL
<1>1. ASSUME UNCHANGED slots PROVE \A o \in Ids : Status(o)' = Status(o)
  BY <1>1 DEF Status, Published
<1>2. ASSUME NEW t \in Threads, NEW reason \in Reasons, NEW allowed, Allocate(t, allowed, reason)
      PROVE  \A o \in Ids : Status(o)' = Status(o)
  <2>1. CASE UNCHANGED slots
    BY <1>1, <2>1
  <2>2. CASE EmptySlots # {} /\ ~UNCHANGED slots
    <3>1. PICK i \in Slots : slots[i].status = Empty /\ slots' = [slots EXCEPT ![i].status = Allocating]
      BY <1>2, <2>2, LeastEmpty DEF Allocate
    <3>2. \A j \in Slots : (Published(j)' <=> Published(j)) /\ (Published(j) => slots'[j] = slots[j])
      BY <3>1 DEF IInv, TypeOK, Published, Pending, Allocating, Empty
    <3>3. QED
      BY <1>0, <3>2, StatusStays
  <2>3. QED
    BY <1>2, <2>1, <2>2 DEF Allocate
<1>3. ASSUME NEW t \in Threads, FillSlot(t)
      PROVE  \A o \in Ids : Status(o)' = Status(o)
  <2>1. PICK i \in Slots : slots[i].status = Allocating
          /\ slots' = [slots EXCEPT ![i].id = call[t].id, ![i].reason = call[t].reason]
    BY <1>3 DEF FillSlot, Goto, IInv, DispatchOwns
  <2>2. \A j \in Slots : (Published(j)' <=> Published(j)) /\ (Published(j) => slots'[j] = slots[j])
    BY <2>1 DEF IInv, TypeOK, Published, Pending, Allocating
  <2>3. QED
    BY <1>0, <2>2, StatusStays
<1>4. ASSUME NEW t \in Threads, Stamp(t)
      PROVE  \A o \in Ids : Status(o)' = Status(o)
  <2>1. PICK i \in Slots : slots' = [slots EXCEPT ![i].reason = call[t].reason]
    BY <1>4 DEF Stamp, Return, Goto, IInv, CallFound
  <2>2. \A j \in Slots : slots'[j].status = slots[j].status /\ slots'[j].id = slots[j].id
    BY <2>1 DEF IInv, TypeOK
  <2>3. \A j \in Slots : Published(j)' <=> Published(j)
    BY <2>2 DEF Published
  <2>4. QED
    BY <1>0, <2>2, <2>3, StatusStays
<1>5. ASSUME NEW t \in Threads, OpenSlot(t) PROVE Abstract!Next
  <2>1. PICK s \in Slots, id \in Ids :
          /\ slots[s].status = Allocating /\ slots[s].id = id
          /\ slots' = [slots EXCEPT ![s].status = Pending]
          /\ \A i \in Slots : Published(i) => slots[i].id # id
    <3>1. pc[t] = "open" /\ slots' = [slots EXCEPT ![call[t].slot].status = Pending]
      BY <1>5 DEF OpenSlot, Return, Goto
    <3>2. /\ call[t].slot \in Slots /\ call[t].id \in Ids
          /\ slots[call[t].slot].status = Allocating /\ slots[call[t].slot].id = call[t].id
          /\ \A i \in Slots : Published(i) => slots[i].id # call[t].id
      BY <3>1 DEF IInv, DispatchOwns
    <3>3. QED
      BY <3>1, <3>2
  <2>2. /\ slots'[s].id = id /\ slots'[s].status = Pending
        /\ \A i \in Slots : i # s => slots'[i] = slots[i]
    BY <2>1 DEF IInv, TypeOK
  <2>3. ~Published(s) /\ Published(s)'
    BY <2>1, <2>2 DEF Published, Allocating, Pending
  <2>4. \A i \in Slots : i # s => (Published(i)' <=> Published(i))
    BY <2>2 DEF Published
  <2>5. \A o \in Ids : o # id => Status(o)' = Status(o)
    <3>1. \A o \in Ids : o # id => \A i \in Slots :
            /\ (Published(i)' /\ slots'[i].id = o) <=> (Published(i) /\ slots[i].id = o)
            /\ Published(i) /\ slots[i].id = o => slots'[i].status = slots[i].status
      BY <2>1, <2>2, <2>3, <2>4
    <3>2. QED
      BY <1>0, <3>1, StatusStays
  <2>6. Status(id) = "Unknown" /\ Status(id)' = StatusName(Pending)
    BY <1>0, <2>1, <2>2, <2>3 DEF StatusShown, Codes
  <2>7. Cardinality(Abstract!Accepted) < Capacity
    BY <2>3, RoomLeft
  <2>8. Abstract!Move(id, "Unknown", "Pending")
    <3>1. Abstract!Move(id, "Unknown", StatusName(Pending))
      BY <2>5, <2>6, MovesOne
    <3>2. StatusName(Pending) = "Pending"
      BY DEF StatusName, Pending, Claimed, Completed, Failed
    <3>3. QED
      BY <3>1, <3>2
  <2>9. Abstract!Accept(id)
    <3>1. \A S : Abstract!Cardinality(S) = Cardinality(S)
      BY DEF Abstract!Cardinality, Cardinality
    <3>2. QED
      BY <2>7, <2>8, <3>1 DEF Abstract!Accept
  <2>10. QED
    BY <2>9 DEF Abstract!Next
<1>6. ASSUME NEW t \in Threads, Win(t) PROVE Abstract!Next
  <2>1. PICK s \in Slots, id \in Ids, op \in Calls :
          /\ Published(s) /\ slots[s].id = id
          /\ slots[s].status = Exchange(op).from
          /\ slots' = [slots EXCEPT ![s].status = Exchange(op).to]
    BY <1>6 DEF Win, Expected, IInv, CallFound, PublishedIds
  <2>2. /\ slots'[s].id = id /\ slots'[s].status = Exchange(op).to
        /\ \A i \in Slots : i # s => slots'[i] = slots[i]
    BY <2>1 DEF IInv, TypeOK
  <2>3. Exchange(op).from \in Codes /\ Exchange(op).to \in Codes
    BY DEF Exchange, Change, Codes, Calls
  <2>4. \A i \in Slots : (Published(i)' <=> Published(i)) /\ slots'[i].id = slots[i].id
    BY <2>1, <2>2, <2>3 DEF Published, Codes, Pending, Claimed, Completed, Failed
  <2>5. \A o \in Ids : o # id => Status(o)' = Status(o)
    <3>1. \A o \in Ids : o # id => \A i \in Slots :
            Published(i) /\ slots[i].id = o => slots'[i].status = slots[i].status
      BY <2>1, <2>2
    <3>2. QED
      BY <1>0, <2>4, <3>1, StatusStays
  <2>6. Status(id) = StatusName(Exchange(op).from) /\ Status(id)' = StatusName(Exchange(op).to)
    BY <1>0, <2>1, <2>2, <2>3, <2>4 DEF StatusShown
  <2>7. Abstract!Move(id, StatusName(Exchange(op).from), StatusName(Exchange(op).to))
    BY <2>5, <2>6, MovesOne
  <2>8. Abstract!Claim(id) \/ Abstract!Commit(id) \/ Abstract!Settle(id)
    BY <2>7
    DEF Exchange, Change, Calls, StatusName, Pending, Claimed, Completed, Failed,
        Abstract!Claim, Abstract!Commit, Abstract!Settle
  <2>9. QED
    BY <2>8 DEF Abstract!Next
<1>7. ASSUME NEW t \in Threads, BeginDispatch(t) \/ Lose(t) PROVE UNCHANGED slots
  BY <1>7 DEF BeginDispatch, Lose
<1>8. ASSUME NEW t \in Threads, NEW id \in Ids, Miss(t, id) PROVE UNCHANGED slots
  BY <1>8 DEF Miss, vars
<1>9. ASSUME NEW t \in Threads, NEW id \in Ids, NEW op, NEW reason, Seek(t, op, id, reason)
      PROVE  UNCHANGED slots
  BY <1>9 DEF Seek
<1>10. QED
  BY <1>1, <1>2, <1>3, <1>4, <1>5, <1>6, <1>7, <1>8, <1>9 DEF Next, vars

\* What Status answers follows the obligation lifecycle, for every number of threads and slots.
THEOREM HostImplementsObligations == Spec => ImplementsObligations
<1>1. Init => Abstract!Init
  <2> SUFFICES ASSUME Init PROVE Abstract!Init
    OBVIOUS
  <2>1. \A i \in Slots : ~Published(i)
    BY DEF Init, Published, Empty, Pending
  <2>2. \A id \in Ids : Status(id) = "Unknown"
    BY <2>1 DEF Status
  <2>3. QED
    BY <2>2 DEF Abstract!Init
<1>2. IInv /\ IInv' /\ [Next]_vars => [Abstract!Next]_([id \in Ids |-> Status(id)])
  <2> SUFFICES ASSUME IInv, IInv', [Next]_vars
               PROVE  Abstract!Next \/ [id \in Ids |-> Status(id)]' = [id \in Ids |-> Status(id)]
    OBVIOUS
  <2>1. QED
    BY StepMaps
<1>3. QED
  BY AlwaysIInv, <1>1, <1>2, PTL DEF Spec, ImplementsObligations, Abstract!Spec
=============================================================================
