---------------------------- MODULE EventBusProofs ----------------------------
(***************************************************************************)
(* For every number of producers, readers, slots and kinds: the published   *)
(* slots are one log that only grows, and readers walk through it in order. *)
(*                                                                          *)
(* IInv says what the run leaves implicit: between the load of count and    *)
(* its store the gate keeps count and nextId as the producer found them,    *)
(* the slots below count are filled with their own numbers as ids, and a    *)
(* reader's cursor is never past the count it works with.                   *)
(***************************************************************************)
EXTENDS EventBus, SequenceTheorems, TLAPS

GateAgreement == \A p \in Producers : pc[p] \in {"write", "publish"} => gate = p

\* What a producer relies on between the load of count and its store.
ProducerCount ==
  /\ \A p \in Producers : pc[p] = "write" => taken[p] = count + 1
  /\ \A p \in Producers : pc[p] = "publish" =>
       /\ taken[p] = count + 1 /\ count < Capacity /\ nextId = count + 2
       /\ events[count + 1].id = count + 1 /\ events[count + 1].kind \in Kinds
  /\ (\A p \in Producers : pc[p] # "publish") => nextId = count + 1

LogFilled == \A i \in 1 .. count : events[i].id = i /\ events[i].kind \in Kinds

ReadsInOrder ==
  \A r \in Readers :
    /\ cursor[r] \in {NoCursor} \cup 0 .. count
    /\ pc[r] = "scan" => seen[r] \in 0 .. count /\ cursor[r] \in 0 .. seen[r] /\ asked[r] \in Kinds
    /\ pc[r] # "scan" => seen[r] = NoCall

IInv ==
  /\ TypeOK
  /\ GateAgreement
  /\ ProducerCount
  /\ LogFilled
  /\ ReadsInOrder

\* Nothing is published at the start.
LEMMA InitIInv == Init => IInv
<1> SUFFICES ASSUME Init PROVE IInv
  OBVIOUS
<1>1. TypeOK
  BY BusAssumption DEF Init, TypeOK, None, Event, NoCall, NoCursor
<1>2. GateAgreement /\ ProducerCount /\ LogFilled
  BY DEF Init, GateAgreement, ProducerCount, LogFilled
<1>3. ReadsInOrder
  BY DEF Init, ReadsInOrder
<1>4. QED
  BY <1>1, <1>2, <1>3 DEF IInv

-----------------------------------------------------------------------------
(* Dispatch.                                                                *)

\* The gate is free, so nobody is between the load and the store of count.
LEMMA BeginDispatchKeeps ==
  ASSUME IInv, NEW p \in Producers, BeginDispatch(p) PROVE IInv'
<1> USE DEF BeginDispatch, Goto
<1>1. \A q \in Producers : pc[q] \notin {"write", "publish"}
  BY BusAssumption DEF IInv, GateAgreement
<1>2. TypeOK'
  BY BusAssumption DEF IInv, TypeOK, readerVars
<1>3. \A t \in Producers \cup Readers : t # p => pc'[t] = pc[t]
  BY DEF IInv, TypeOK
<1>4. pc'[p] = "write" /\ taken'[p] = count + 1
  BY DEF IInv, TypeOK
<1>5. GateAgreement' /\ ProducerCount'
  BY <1>1, <1>3, <1>4 DEF IInv, GateAgreement, ProducerCount
<1>6. LogFilled' /\ ReadsInOrder'
  BY <1>3, <1>4 DEF IInv, LogFilled, ReadsInOrder, readerVars
<1>7. QED
  BY <1>2, <1>5, <1>6 DEF IInv

\* A full bus: the producer leaves everything as it was.
LEMMA RefuseDispatchKeeps ==
  ASSUME IInv, NEW p \in Producers, RefuseDispatch(p) PROVE IInv'
<1> USE DEF RefuseDispatch, Goto
<1>1. \A q \in Producers : q # p => pc[q] \notin {"write", "publish"}
  BY DEF IInv, GateAgreement
<1>2. TypeOK'
  BY BusAssumption DEF IInv, TypeOK, readerVars
<1>3. \A t \in Producers \cup Readers : t # p => pc'[t] = pc[t]
  BY DEF IInv, TypeOK
<1>4. pc[p] = "write" /\ pc'[p] = "idle"
  BY DEF IInv, TypeOK
<1>5. GateAgreement' /\ ProducerCount'
  BY <1>1, <1>3, <1>4 DEF IInv, GateAgreement, ProducerCount
<1>6. LogFilled' /\ ReadsInOrder'
  BY <1>3, <1>4 DEF IInv, LogFilled, ReadsInOrder, readerVars
<1>7. QED
  BY <1>2, <1>5, <1>6 DEF IInv

\* The slot written is the one after the published ones, and the id its number.
LEMMA WriteSlotKeeps ==
  ASSUME IInv, NEW p \in Producers, NEW kind \in Kinds, WriteSlot(p, kind) PROVE IInv'
<1> USE DEF WriteSlot, Goto
<1>1. \A q \in Producers : q # p => pc[q] \notin {"write", "publish"}
  BY DEF IInv, GateAgreement
<1>2. /\ pc[p] = "write" /\ taken[p] = count + 1 /\ taken[p] \in Slots /\ nextId = count + 1
      /\ count \in Nat /\ count < Capacity
  <2>1. pc[p] = "write" /\ taken[p] = count + 1
    BY DEF IInv, ProducerCount
  <2>2. nextId = count + 1
    BY <1>1, <2>1 DEF IInv, ProducerCount
  <2>3. QED
    BY <2>1, <2>2, BusAssumption DEF Full, Slots, IInv, TypeOK
<1>3. events' = [events EXCEPT ![count + 1] = Event(count + 1, kind)] /\ nextId' = count + 2
  BY <1>2
<1>4. TypeOK'
  <2>1. Event(count + 1, kind) \in [id : 0 .. Capacity, kind : Kinds \cup {NoKind}]
    BY <1>2, BusAssumption DEF Event
  <2>2. events' \in [Slots -> [id : 0 .. Capacity, kind : Kinds \cup {NoKind}]]
    BY <1>3, <2>1 DEF IInv, TypeOK
  <2>3. nextId' \in 1 .. Capacity + 1
    BY <1>2, <1>3, BusAssumption
  <2>4. QED
    BY <2>2, <2>3 DEF IInv, TypeOK, readerVars
<1>5. \A t \in Producers \cup Readers : t # p => pc'[t] = pc[t]
  BY DEF IInv, TypeOK
<1>6. pc'[p] = "publish" /\ UNCHANGED <<count, gate, taken, seen, asked, cursor, answer>>
  BY DEF IInv, TypeOK, readerVars
<1> HIDE DEF WriteSlot, Goto
<1>7. /\ events'[count + 1].id = count + 1 /\ events'[count + 1].kind \in Kinds
      /\ \A i \in 1 .. count : events'[i] = events[i]
  <2>1. count + 1 \in Slots /\ \A i \in 1 .. count : i \in Slots /\ i # count + 1
    BY <1>2, BusAssumption DEF Slots
  <2>2. QED
    BY <1>3, <2>1 DEF IInv, TypeOK, Event
<1>8. GateAgreement' /\ ProducerCount'
  BY <1>1, <1>2, <1>3, <1>5, <1>6, <1>7 DEF IInv, GateAgreement, ProducerCount
<1>9. LogFilled' /\ ReadsInOrder'
  BY <1>2, <1>5, <1>6, <1>7 DEF IInv, LogFilled, ReadsInOrder
<1>10. QED
  BY <1>4, <1>8, <1>9 DEF IInv

\* The slot becomes part of the log.
LEMMA PublishCountKeeps ==
  ASSUME IInv, NEW p \in Producers, PublishCount(p) PROVE IInv'
<1> USE DEF PublishCount, Goto
<1>1. \A q \in Producers : q # p => pc[q] \notin {"write", "publish"}
  BY DEF IInv, GateAgreement
<1>2. /\ pc[p] = "publish" /\ taken[p] = count + 1 /\ count < Capacity /\ nextId = count + 2
      /\ events[count + 1].id = count + 1 /\ events[count + 1].kind \in Kinds
  BY DEF IInv, ProducerCount
<1>3. count' = count + 1 /\ count \in Nat /\ UNCHANGED <<nextId, events, seen, asked, cursor, answer>>
  BY <1>2 DEF IInv, TypeOK, readerVars
<1>4. TypeOK'
  BY <1>2, <1>3, BusAssumption DEF IInv, TypeOK
<1>5. \A t \in Producers \cup Readers : t # p => pc'[t] = pc[t]
  BY DEF IInv, TypeOK
<1>6. pc'[p] = "idle"
  BY DEF IInv, TypeOK
<1> HIDE DEF PublishCount, Goto
<1>7. GateAgreement' /\ ProducerCount'
  BY <1>1, <1>2, <1>3, <1>5, <1>6 DEF GateAgreement, ProducerCount
<1>8. LogFilled'
  BY <1>2, <1>3 DEF IInv, LogFilled
<1>9. ReadsInOrder'
  <2>1. \A n \in 0 .. count : n \in 0 .. count'
    BY <1>3
  <2>2. QED
    BY <1>2, <1>3, <1>5, <1>6, <2>1 DEF IInv, ReadsInOrder
<1>10. QED
  BY <1>4, <1>7, <1>8, <1>9 DEF IInv

-----------------------------------------------------------------------------
(* Readers.                                                                 *)

\* A reader's step leaves the bus and the producers alone.
LEMMA BusKept ==
  ASSUME IInv, NEW r \in Readers, UNCHANGED <<busVars, taken>>,
         pc' = pc \/ (pc[r] \in {"idle", "scan"} /\ pc' \in {[pc EXCEPT ![r] = "idle"], [pc EXCEPT ![r] = "scan"]})
  PROVE  GateAgreement' /\ ProducerCount' /\ LogFilled'
<1>1. UNCHANGED <<nextId, count, gate, events, taken>>
  BY DEF busVars
<1>2. \A p \in Producers : \A place \in {"write", "publish"} : pc'[p] = place <=> pc[p] = place
  BY DEF IInv, TypeOK
<1>3. QED
  BY <1>1, <1>2 DEF IInv, GateAgreement, ProducerCount, LogFilled

\* A cursor starts at the beginning or at the end of the log.
LEMMA OpenCursorKeeps ==
  ASSUME IInv, NEW r \in Readers, OpenCursor(r) PROVE IInv'
<1> USE DEF OpenCursor
<1>1. PICK start \in {0, count} : cursor' = [cursor EXCEPT ![r] = start]
  OBVIOUS
<1>2. start \in 0 .. count /\ start \in 0 .. Capacity
  BY BusAssumption DEF IInv, TypeOK
<1>3. TypeOK'
  BY <1>1, <1>2 DEF IInv, TypeOK, busVars
<1>4. pc[r] # "scan"
  BY DEF IInv, ReadsInOrder, NoCursor
<1>5. ReadsInOrder'
  BY <1>1, <1>2, <1>4 DEF IInv, TypeOK, ReadsInOrder, busVars
<1>6. QED
  BY <1>3, <1>5, BusKept DEF IInv

\* The count a reader loads is not before its cursor.
LEMMA BeginReadKeeps ==
  ASSUME IInv, NEW r \in Readers, NEW kind \in Kinds, BeginRead(r, kind) PROVE IInv'
<1> USE DEF BeginRead, Goto
<1>1. cursor[r] \in 0 .. count /\ count \in 0 .. Capacity
  BY DEF IInv, TypeOK, ReadsInOrder
<1>2. TypeOK'
  BY <1>1 DEF IInv, TypeOK, busVars
<1>3. /\ \A q \in Readers : q # r => pc'[q] = pc[q] /\ seen'[q] = seen[q] /\ asked'[q] = asked[q]
      /\ pc'[r] = "scan" /\ seen'[r] = count /\ asked'[r] = kind
      /\ UNCHANGED <<count, cursor>>
  BY DEF IInv, TypeOK, busVars
<1>4. GateAgreement' /\ ProducerCount' /\ LogFilled'
  BY BusKept
<1>5. ReadsInOrder'
  BY <1>1, <1>3 DEF IInv, ReadsInOrder
<1>6. QED
  BY <1>2, <1>4, <1>5 DEF IInv

\* An answer moves the cursor forward inside the log.
LEMMA AnswerKeeps ==
  ASSUME IInv, NEW r \in Readers, NEW to \in 0 .. count,
         NEW given \in {None} \cup [id : Slots, kind : Kinds], Answer(r, to, given)
  PROVE  IInv'
<1> USE DEF Answer, Goto
<1>1. to \in 0 .. Capacity
  BY BusAssumption DEF IInv, TypeOK
<1>2. TypeOK'
  BY <1>1 DEF IInv, TypeOK, busVars
<1>3. /\ \A q \in Readers : q # r => pc'[q] = pc[q] /\ seen'[q] = seen[q] /\ asked'[q] = asked[q] /\ cursor'[q] = cursor[q]
      /\ pc'[r] = "idle" /\ seen'[r] = NoCall /\ cursor'[r] = to
      /\ UNCHANGED count
  BY DEF IInv, TypeOK, busVars
<1>4. GateAgreement' /\ ProducerCount' /\ LogFilled'
  BY BusKept
<1>5. ReadsInOrder'
  BY <1>3 DEF IInv, ReadsInOrder
<1>6. QED
  BY <1>2, <1>4, <1>5 DEF IInv

\* What a reader finds is in the log, past its cursor.
LEMMA FoundInLog ==
  ASSUME IInv, NEW r \in Readers, pc[r] = "scan", NEW i \in Found(r)
  PROVE  /\ i \in Slots /\ i \in 1 .. count /\ i \in cursor[r] + 1 .. seen[r]
         /\ events[i] \in [id : Slots, kind : Kinds]
<1>1. i \in cursor[r] + 1 .. seen[r] /\ seen[r] \in 0 .. count /\ cursor[r] \in Nat
  BY DEF Found, Ahead, IInv, ReadsInOrder
<1>2. count \in 0 .. Capacity /\ Capacity \in Nat
  BY BusAssumption DEF IInv, TypeOK
<1>3. i \in 1 .. count /\ i \in Slots
  BY <1>1, <1>2 DEF Slots
<1>4. events[i].id = i /\ events[i].kind \in Kinds
  BY <1>3 DEF IInv, LogFilled
<1>5. events[i] \in [id : Slots, kind : Kinds]
  BY <1>3, <1>4 DEF IInv, TypeOK
<1>6. QED
  BY <1>1, <1>3, <1>5

\* Every step of every producer and reader keeps the invariant.
LEMMA NextIInv == IInv /\ [Next]_vars => IInv'
<1> SUFFICES ASSUME IInv, [Next]_vars PROVE IInv'
  OBVIOUS
<1>1. ASSUME UNCHANGED vars PROVE IInv'
  BY <1>1 DEF vars, busVars, readerVars, IInv, TypeOK, GateAgreement, ProducerCount, LogFilled, ReadsInOrder
<1>2. ASSUME NEW r \in Readers, ReadFound(r) PROVE IInv'
  <2>1. PICK i \in Found(r) : pc[r] = "scan" /\ Answer(r, i, events[i])
    BY <1>2 DEF ReadFound
  <2>2. i \in 0 .. count /\ events[i] \in [id : Slots, kind : Kinds]
    BY <2>1, FoundInLog DEF IInv, TypeOK
  <2>3. QED
    BY <2>1, <2>2, AnswerKeeps
<1>3. ASSUME NEW r \in Readers, ReadMissing(r) PROVE IInv'
  <2>1. seen[r] \in 0 .. count /\ Answer(r, seen[r], None)
    BY <1>3 DEF ReadMissing, IInv, ReadsInOrder
  <2>2. QED
    BY <2>1, AnswerKeeps
<1>4. QED
  BY <1>1, <1>2, <1>3, BeginDispatchKeeps, RefuseDispatchKeeps, WriteSlotKeeps, PublishCountKeeps,
     OpenCursorKeeps, BeginReadKeeps
  DEF Next

\* What holds in every reachable state, for every number of producers, readers and slots.
THEOREM AlwaysIInv == Spec => []IInv
  BY InitIInv, NextIInv, PTL DEF Spec

\* Indices, counts and ids stay inside the array, and every answer is an event of it.
THEOREM AlwaysTyped == Spec => []TypeOK
<1>1. IInv => TypeOK
  BY DEF IInv
<1>2. QED
  BY AlwaysIInv, <1>1, PTL

-----------------------------------------------------------------------------
(* Refinement.                                                              *)

\* The log is the slots below count.
LogShape ==
  /\ Published = [i \in 1 .. count |-> events[i]]
  /\ Published \in Seq([id : 0 .. Capacity, kind : Kinds \cup {NoKind}])
  /\ Len(Published) = count
  /\ \A i \in 1 .. count : Published[i] = events[i]

LEMMA LogIsPublished == IInv => LogShape
<1> SUFFICES ASSUME IInv PROVE LogShape
  OBVIOUS
<1>1. count \in Nat /\ count <= Capacity
  BY BusAssumption DEF IInv, TypeOK
<1>2. Published = [i \in 1 .. count |-> events[i]]
  BY <1>1 DEF Published
<1>3. \A i \in 1 .. count : i \in Slots
  BY <1>1, BusAssumption DEF Slots
<1>4. QED
  BY <1>1, <1>2, <1>3 DEF IInv, TypeOK, LogShape

\* A slot that is not below count is not in the log.
LEMMA WriteShowsNothing ==
  ASSUME IInv, IInv', NEW p \in Producers, NEW kind \in Kinds, WriteSlot(p, kind)
  PROVE  Published' = Published
<1>1. LogShape /\ LogShape'
  BY LogIsPublished, PTL
<1>2. pc[p] = "write" /\ taken[p] = count + 1 /\ count' = count /\ count \in Nat
  BY DEF WriteSlot, Goto, IInv, ProducerCount, TypeOK
<1>3. taken[p] \in Slots
  BY <1>2, BusAssumption DEF WriteSlot, Full, Slots, IInv, TypeOK
<1>4. \A i \in 1 .. count : i # taken[p] /\ i \in Slots
  BY <1>2, <1>3, BusAssumption DEF Slots
<1>5. \A i \in 1 .. count : events'[i] = events[i]
  BY <1>3, <1>4 DEF WriteSlot, IInv, TypeOK
<1>6. QED
  BY <1>1, <1>2, <1>5 DEF LogShape

\* A store of count appends one event, numbered with its place.
LEMMA PublishMaps ==
  ASSUME IInv, IInv', NEW p \in Producers, PublishCount(p)
  PROVE  \E kind \in Kinds : Log!Publish(kind)
<1>1. LogShape /\ LogShape'
  BY LogIsPublished, PTL
<1>2. /\ count' = count + 1 /\ count < Capacity /\ count \in Nat
      /\ events[count + 1].id = count + 1 /\ events[count + 1].kind \in Kinds
      /\ UNCHANGED <<events, seen, asked, cursor, answer>>
  BY DEF PublishCount, Goto, IInv, ProducerCount, TypeOK, readerVars
<1> DEFINE kind == events[count + 1].kind
<1>3. events[count + 1] = [id |-> count + 1, kind |-> kind]
  <2>1. count + 1 \in Slots
    BY <1>2, BusAssumption DEF Slots
  <2>2. QED
    BY <1>2, <2>1 DEF IInv, TypeOK
<1>4. Published' = Append(Published, [id |-> count + 1, kind |-> kind])
  <2>1. Append(Published, [id |-> count + 1, kind |-> kind])
          = [i \in 1 .. count + 1 |-> IF i = count + 1 THEN [id |-> count + 1, kind |-> kind] ELSE Published[i]]
    BY <1>1, <1>2 DEF LogShape
  <2>2. \A i \in 1 .. count + 1 : i # count + 1 => i \in 1 .. count
    BY <1>2
  <2>3. QED
    BY <1>1, <1>2, <1>3, <2>1, <2>2 DEF LogShape
<1>5. Log!Publish(kind)
  BY <1>1, <1>2, <1>4 DEF Log!Publish, LogShape
<1>6. QED
  BY <1>2, <1>5

\* A reader that finds an event is given the next one of its kind.
LEMMA FoundMaps ==
  ASSUME IInv, NEW r \in Readers, ReadFound(r) PROVE Log!Reply(r)
<1>1. LogShape
  BY LogIsPublished
<1>2. PICK i \in Found(r) : (\A j \in Found(r) : i <= j) /\ Answer(r, i, events[i]) /\ pc[r] = "scan"
  BY DEF ReadFound
<1>3. /\ i \in 1 .. count /\ i \in cursor[r] + 1 .. seen[r] /\ i \in Slots
      /\ seen[r] \in 0 .. count /\ cursor[r] \in Nat /\ count \in Nat
  BY <1>2, FoundInLog DEF IInv, TypeOK, ReadsInOrder
<1>4. /\ cursor' = [cursor EXCEPT ![r] = i] /\ answer' = [answer EXCEPT ![r] = events[i]]
      /\ seen' = [seen EXCEPT ![r] = NoCall] /\ asked' = [asked EXCEPT ![r] = NoKind]
      /\ Published' = Published
  BY <1>2 DEF Answer, busVars, Published
<1>5. seen[r] # NoCall
  BY <1>3 DEF NoCall
<1>6. \A j \in cursor[r] + 1 .. i - 1 : Published[j].kind # asked[r]
  <2>1. ASSUME NEW j \in cursor[r] + 1 .. i - 1 PROVE j \in 1 .. count /\ j \in Ahead(r) /\ j < i
    BY <1>3 DEF Ahead
  <2>2. ASSUME NEW j \in cursor[r] + 1 .. i - 1, events[j].kind = asked[r] PROVE FALSE
    <3>1. j \in Found(r) /\ j < i /\ j \in Nat /\ i \in Nat
      BY <1>3, <2>1, <2>2 DEF Found
    <3>2. QED
      BY <1>2, <3>1
  <2>3. QED
    BY <1>1, <2>1, <2>2 DEF LogShape
<1>7. Published[i].kind = asked[r] /\ Published[i] = events[i]
  BY <1>1, <1>3 DEF LogShape, Found
<1>8. i \in cursor[r] + 1 .. Len(Published) /\ i \in 0 .. Len(Published)
  BY <1>1, <1>3 DEF LogShape
<1>9. Log!Give(r, asked[r], i)
  BY <1>4, <1>6, <1>7, <1>8 DEF Log!Give, Log!NoneOfKind
<1>10. QED
  BY <1>4, <1>5, <1>8, <1>9 DEF Log!Reply

\* A reader that finds none goes past events of other kinds only, up to the count it loaded.
LEMMA MissingMaps ==
  ASSUME IInv, NEW r \in Readers, ReadMissing(r) PROVE Log!Reply(r)
<1>1. LogShape
  BY LogIsPublished
<1>2. Answer(r, seen[r], None) /\ pc[r] = "scan" /\ Found(r) = {}
  BY DEF ReadMissing
<1>3. seen[r] \in 0 .. count /\ cursor[r] \in 0 .. seen[r] /\ count \in Nat
  BY <1>2 DEF IInv, TypeOK, ReadsInOrder
<1>4. /\ cursor' = [cursor EXCEPT ![r] = seen[r]] /\ answer' = [answer EXCEPT ![r] = None]
      /\ seen' = [seen EXCEPT ![r] = NoCall] /\ asked' = [asked EXCEPT ![r] = NoKind]
      /\ Published' = Published
  BY <1>2 DEF Answer, busVars, Published
<1>5. seen[r] # NoCall
  BY <1>3 DEF NoCall
<1>6. \A j \in cursor[r] + 1 .. seen[r] : Published[j].kind # asked[r]
  <2>1. ASSUME NEW j \in cursor[r] + 1 .. seen[r] PROVE j \in 1 .. count /\ events[j].kind # asked[r]
    BY <1>2, <1>3 DEF Found, Ahead
  <2>2. QED
    BY <1>1, <2>1 DEF LogShape
<1>7. seen[r] \in seen[r] .. Len(Published) /\ seen[r] \in 0 .. Len(Published) /\ seen[r] >= cursor[r]
  BY <1>1, <1>3 DEF LogShape
<1>8. Log!GiveNone(r, asked[r], seen[r])
  BY <1>4, <1>6, <1>7 DEF Log!GiveNone, Log!NoneOfKind
<1>9. QED
  BY <1>4, <1>5, <1>7, <1>8 DEF Log!Reply

\* Every step of the bus is a step of the log, or shows nothing.
LEMMA StepMaps ==
  ASSUME IInv, IInv', [Next]_vars PROVE [Log!Next]_(Log!vars)
<1> DEFINE Shown == <<Published, cursor, seen, asked, answer>>
<1>1. LogShape
  BY LogIsPublished
<1>2. ASSUME UNCHANGED <<count, events, readerVars>> PROVE UNCHANGED Log!vars
  BY <1>2 DEF Log!vars, Published, readerVars
<1>3. ASSUME NEW p \in Producers, BeginDispatch(p) \/ RefuseDispatch(p) PROVE UNCHANGED Log!vars
  BY <1>2, <1>3 DEF BeginDispatch, RefuseDispatch
<1>4. ASSUME NEW p \in Producers, NEW kind \in Kinds, WriteSlot(p, kind) PROVE UNCHANGED Log!vars
  BY <1>4, WriteShowsNothing DEF Log!vars, WriteSlot, readerVars
<1>5. ASSUME NEW r \in Readers, OpenCursor(r) PROVE Log!OpenCursor(r)
  BY <1>1, <1>5 DEF OpenCursor, Log!OpenCursor, busVars, Published, LogShape
<1>6. ASSUME NEW r \in Readers, NEW kind \in Kinds, BeginRead(r, kind) PROVE Log!Ask(r, kind)
  <2>1. seen[r] = NoCall
    BY <1>6 DEF BeginRead, Goto, IInv, ReadsInOrder
  <2>2. QED
    BY <1>1, <1>6, <2>1 DEF BeginRead, Log!Ask, busVars, Published, LogShape
<1>7. ASSUME UNCHANGED vars PROVE UNCHANGED Log!vars
  BY <1>2, <1>7 DEF vars, busVars
<1>8. CASE UNCHANGED vars
  BY <1>7, <1>8
<1>9. CASE \E p \in Producers : BeginDispatch(p) \/ RefuseDispatch(p) \/ \E kind \in Kinds : WriteSlot(p, kind)
  BY <1>3, <1>4, <1>9
<1>10. CASE \E p \in Producers : PublishCount(p)
  BY <1>10, PublishMaps DEF Log!Next
<1>11. CASE \E r \in Readers : OpenCursor(r) \/ ReadFound(r) \/ ReadMissing(r) \/ \E kind \in Kinds : BeginRead(r, kind)
  BY <1>5, <1>6, <1>11, FoundMaps, MissingMaps DEF Log!Next
<1>12. QED
  BY <1>8, <1>9, <1>10, <1>11 DEF Next

\* The bus is one log that only grows, read in order, for every number of producers and readers.
THEOREM BusImplementsLog == Spec => ImplementsLog
<1>1. Init => Log!Init
  <2> SUFFICES ASSUME Init PROVE Log!Init
    OBVIOUS
  <2>1. Published = << >>
    BY DEF Init, Published
  <2>2. QED
    BY <2>1 DEF Init, Log!Init
<1>2. IInv /\ IInv' /\ [Next]_vars => [Log!Next]_(Log!vars)
  BY StepMaps
<1>3. QED
  BY AlwaysIInv, <1>1, <1>2, PTL DEF Spec, ImplementsLog, Log!Spec
=============================================================================
