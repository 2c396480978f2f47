---------------------------- MODULE SequentialProofs ----------------------------
(***************************************************************************)
(* The parts of the library that one caller uses at a time, for every value *)
(* of their constants; the three share no state.                             *)
(*                                                                           *)
(* The ready ring: its array implements the bounded queue without duplicates *)
(* (RingIInv: the window lies inside the array and holds no id twice).       *)
(*                                                                           *)
(* The collector: what a collection keeps is what the registered handles     *)
(* lead to, and a handle is given out once.  HeapIInv: a handle that was     *)
(* given out is that of a live object or of an earlier generation of its     *)
(* slot (HandlesPass); the root table holds what clients registered, all of  *)
(* it live (RootsHeld); while a collection runs, marked slots are those on   *)
(* the worklist and can be reached (MarkedReached), and everything before    *)
(* the place it has come to is marked (TraceProgress).                       *)
(*                                                                           *)
(* The agent's context: it can be told from its log and its trace.           *)
(* AgentIInv: the stores are what the applied inputs make of them            *)
(* (StoresFollow), the frames are what the trace tells (FramesFollow), and   *)
(* both hold of a saved context with the log as it is now (SavedFollow).     *)
(***************************************************************************)
EXTENDS ReadyQueue, MarkSweepCollector, AgentContext, SequenceTheorems, WellFoundedInduction, TLAPS

-----------------------------------------------------------------------------
(* The ready ring *)

RingIInv == TypeOK /\ WindowDistinct

\* Inside the array an offset below the capacity names a slot, and different offsets name
\* different slots (the single conditional subtraction of 34-38 and 57-61 is enough).
LEMMA SlotAtInjective ==
  ASSUME TypeOK, NEW i \in 0 .. Capacity - 1, NEW j \in 0 .. Capacity - 1
  PROVE  /\ SlotAt(i) \in Slots
         /\ SlotAt(i) = SlotAt(j) => i = j
  BY RingAssumption DEF TypeOK, SlotAt, Slots

\* The initial ring is typed and its window is empty.
LEMMA RingInitIInv == Init => RingIInv
  BY RingAssumption DEF Init, RingIInv, TypeOK, WindowDistinct, Slots, Statuses, Reply

\* Every call keeps the ring's types and the distinctness of its window.
LEMMA RingNextIInv == RingIInv /\ [Next]_vars => RingIInv'
<1> SUFFICES ASSUME RingIInv, [Next]_vars PROVE RingIInv'
  OBVIOUS
<1> USE RingAssumption
<1>1. ASSUME NEW id \in Ids, Enqueue(id) PROVE RingIInv'
  <2>1. CASE UNCHANGED <<entries, count>> /\ reply' \in [status : Statuses, id : Ids]
    BY <1>1, <2>1 DEF Enqueue, RingIInv, TypeOK, WindowDistinct, SlotAt, Slots
  <2>2. CASE /\ ~ContainsId(id)
             /\ count < Capacity
             /\ entries' = [entries EXCEPT ![SlotAt(count)] = id]
             /\ count' = count + 1
             /\ reply' = Reply("Ok", id)
    <3>1. SlotAt(count) \in Slots
      BY <2>2, SlotAtInjective DEF RingIInv, TypeOK
    <3>2. head' = head
      BY <1>1 DEF Enqueue
    <3>3. TypeOK'
      BY <2>2, <3>1, <3>2 DEF RingIInv, TypeOK, Statuses, Reply
    <3>4. \A i \in 0 .. count' - 1 : SlotAt(i)' = SlotAt(i)
      BY <3>2 DEF SlotAt
    <3>5. \A i \in 0 .. count - 1 :
            /\ entries'[SlotAt(i)] = entries[SlotAt(i)]
            /\ entries[SlotAt(i)] # id
      <4>1. TAKE i \in 0 .. count - 1
      <4>2. SlotAt(i) \in Slots /\ SlotAt(i) # SlotAt(count)
        BY <2>2, SlotAtInjective, i # count DEF RingIInv, TypeOK
      <4>3. QED
        BY <2>2, <4>2 DEF ContainsId, RingIInv, TypeOK
    <3>6. entries'[SlotAt(count)] = id
      BY <2>2, <3>1 DEF RingIInv, TypeOK
    <3>7. WindowDistinct'
      BY <2>2, <3>4, <3>5, <3>6 DEF RingIInv, TypeOK, WindowDistinct
    <3>8. QED
      BY <3>3, <3>7 DEF RingIInv
  <2>3. QED
    BY <1>1, <2>1, <2>2 DEF Enqueue, Reply, Statuses
<1>2. ASSUME Dequeue PROVE RingIInv'
  <2>1. CASE count = 0 /\ reply' = Reply("NoRunnableContext", reply.id)
             /\ UNCHANGED <<head, count>>
    BY <1>2, <2>1 DEF Dequeue, RingIInv, TypeOK, WindowDistinct, SlotAt, Slots, Reply, Statuses
  <2>2. CASE count # 0 /\ reply' = Reply("Ok", entries[head])
             /\ head' = NextHead /\ count' = count - 1
    <3>1. TypeOK'
      BY <1>2, <2>2 DEF Dequeue, RingIInv, TypeOK, Slots, NextHead, Reply, Statuses
    <3>2. \A i \in 0 .. count' - 1 : SlotAt(i)' = SlotAt(i + 1)
      BY <2>2 DEF SlotAt, NextHead, RingIInv, TypeOK, Slots
    <3>3. \A i, j \in 0 .. count' - 1 :
            i + 1 \in 0 .. count - 1 /\ (i + 1 = j + 1 => i = j)
      BY <2>2 DEF RingIInv, TypeOK
    <3>4. WindowDistinct'
      BY <1>2, <3>2, <3>3 DEF Dequeue, RingIInv, WindowDistinct
    <3>5. QED
      BY <3>1, <3>4 DEF RingIInv
  <2>3. QED
    BY <1>2, <2>1, <2>2 DEF Dequeue
<1>3. CASE UNCHANGED vars
  BY <1>3 DEF vars, RingIInv, TypeOK, WindowDistinct, SlotAt, Slots
<1>4. QED
  BY <1>1, <1>2, <1>3 DEF Next

\* The ring's indices and window stay well formed for every capacity and id set.
THEOREM RingInvariant == Spec => [](TypeOK /\ WindowDistinct)
<1>1. QED
  BY RingInitIInv, RingNextIInv, PTL DEF Spec, RingIInv

\* The ring, its counters and the held ids keep their types.
THEOREM RingTyped == Spec => []TypeOK
<1>1. TypeOK /\ WindowDistinct => TypeOK
  OBVIOUS
<1>2. QED
  BY <1>1, RingInvariant, PTL

-----------------------------------------------------------------------------
(* Refinement.                                                              *)

WindowOK ==
  /\ Window \in Seq(Ids)
  /\ Len(Window) = count
  /\ \A i \in 1 .. count : Window[i] = entries[SlotAt(i - 1)]

\* The window is a sequence of count ids.
LEMMA WindowType == TypeOK => WindowOK
<1> SUFFICES ASSUME TypeOK PROVE WindowOK
  OBVIOUS
<1>1. \A i \in 1 .. count : entries[SlotAt(i - 1)] \in Ids
  <2>1. TAKE i \in 1 .. count
  <2>2. i - 1 \in 0 .. Capacity - 1
    BY RingAssumption DEF TypeOK
  <2>3. SlotAt(i - 1) \in Slots
    BY <2>2, SlotAtInjective
  <2>4. QED
    BY <2>3 DEF TypeOK
<1>2. Window \in [1 .. count -> Ids] /\ count \in Nat
  BY <1>1, RingAssumption DEF Window, TypeOK
<1>3. Window \in Seq(Ids) /\ Len(Window) = count
  BY <1>2
<1>4. QED
  BY <1>3 DEF Window, WindowOK

\* The abstract queue starts empty.
LEMMA RingRefinesInit == Init => Fifo!Init
<1> SUFFICES ASSUME Init PROVE Fifo!Init
  OBVIOUS
<1>1. TypeOK
  BY RingInitIInv DEF RingIInv
<1>2. Window = << >>
  BY <1>1, WindowType, EmptySeq DEF Init, WindowOK
<1>3. reply = Fifo!Reply("Ok", EmptyContextId)
  BY DEF Init, Reply, Fifo!Reply
<1>4. QED
  BY <1>2, <1>3, RingAssumption DEF Fifo!Init

\* Every call answers and moves the window as the abstract queue does.
LEMMA RingRefinesNext == RingIInv /\ RingIInv' /\ [Next]_vars => [Fifo!Next]_(Fifo!vars)
<1> SUFFICES ASSUME RingIInv, RingIInv', [Next]_vars PROVE [Fifo!Next]_(Fifo!vars)
  OBVIOUS
<1> USE RingAssumption
<1>a. /\ Window \in Seq(Ids) /\ Len(Window) = count
      /\ \A i \in 1 .. count : Window[i] = entries[SlotAt(i - 1)]
  BY WindowType DEF RingIInv, WindowOK
<1>b. /\ Window' \in Seq(Ids) /\ Len(Window') = count'
      /\ \A i \in 1 .. count' : Window'[i] = entries'[SlotAt(i - 1)']
  <2>1. TypeOK'
    BY DEF RingIInv
  <2>2. WindowOK'
    BY <2>1, WindowType, PTL
  <2>3. QED
    BY <2>2 DEF WindowOK
<1>c. count \in Nat /\ head \in Nat /\ Capacity \in Nat
  BY DEF RingIInv, TypeOK, Slots
<1>1. ASSUME NEW id \in Ids, Enqueue(id) PROVE Fifo!Enqueue(id)
  <2>1. Fifo!Queued(id) <=> ContainsId(id)
    <3>1. ASSUME NEW i \in 1 .. count PROVE i - 1 \in 0 .. count - 1
      BY <1>c
    <3>2. ASSUME NEW o \in 0 .. count - 1 PROVE o + 1 \in 1 .. count /\ (o + 1) - 1 = o
      BY <1>c
    <3>3. QED
      BY <1>a, <3>1, <3>2 DEF Fifo!Queued, ContainsId
  <2>2. CASE UNCHANGED <<entries, count>>
    <3>1. UNCHANGED Window
      BY <1>1, <2>2 DEF Enqueue, Window, SlotAt
    <3>2. QED
      BY <1>1, <1>a, <1>c, <2>1, <2>2, <3>1 DEF Enqueue, Fifo!Enqueue, Reply, Fifo!Reply
  <2>3. CASE ~ContainsId(id) /\ count < Capacity
             /\ entries' = [entries EXCEPT ![SlotAt(count)] = id]
             /\ count' = count + 1 /\ reply' = Reply("Ok", id)
    <3>1. head' = head
      BY <1>1 DEF Enqueue
    <3>2. \A o \in 0 .. Capacity - 1 : SlotAt(o)' = SlotAt(o)
      BY <3>1 DEF SlotAt
    <3>3. \A i \in 1 .. count :
            entries'[SlotAt(i - 1)'] = entries[SlotAt(i - 1)]
      <4>1. TAKE i \in 1 .. count
      <4>2. /\ i - 1 \in 0 .. Capacity - 1 /\ count \in 0 .. Capacity - 1 /\ i - 1 # count
        BY <2>3, <1>c
      <4>3. SlotAt(i - 1) \in Slots /\ SlotAt(i - 1) # SlotAt(count)
        BY <4>2, SlotAtInjective DEF RingIInv
      <4>4. QED
        BY <2>3, <3>2, <4>2, <4>3 DEF RingIInv, TypeOK
    <3>4. entries'[SlotAt(count)] = id
      <4>1. count \in 0 .. Capacity - 1
        BY <2>3, <1>c
      <4>2. SlotAt(count) \in Slots
        BY <4>1, SlotAtInjective DEF RingIInv
      <4>3. QED
        BY <2>3, <4>2 DEF RingIInv, TypeOK
    <3>5. Window' = Append(Window, id)
      <4>1. /\ Append(Window, id) \in Seq(Ids)
            /\ Len(Append(Window, id)) = count + 1
            /\ \A i \in 1 .. count : Append(Window, id)[i] = Window[i]
            /\ Append(Window, id)[count + 1] = id
        BY <1>a, AppendProperties
      <4>2. \A i \in 1 .. count : Window'[i] = Window[i]
        BY <1>a, <1>b, <1>c, <2>3, <3>3
      <4>3. Window'[count + 1] = id
        <5>1. PICK k \in 1 .. count' : k = count + 1
          BY <1>c, <2>3
        <5>2. SlotAt(k - 1)' = SlotAt(count)
          BY <1>c, <3>1, <5>1 DEF SlotAt
        <5>3. QED
          BY <1>b, <3>4, <5>1, <5>2
      <4>4. \A i \in 1 .. Len(Window') : Window'[i] = Append(Window, id)[i]
        <5>1. TAKE i \in 1 .. Len(Window')
        <5>2. i \in 1 .. count \/ i = count + 1
          BY <1>b, <1>c, <2>3
        <5>3. QED
          BY <4>1, <4>2, <4>3, <5>2
      <4>5. QED
        BY <1>b, <2>3, <4>1, <4>4, SeqEqual
    <3>6. QED
      BY <1>a, <1>c, <2>1, <2>3, <3>5 DEF Fifo!Enqueue, Reply, Fifo!Reply
  <2>4. QED
    BY <1>1, <2>2, <2>3 DEF Enqueue
<1>2. ASSUME Dequeue PROVE Fifo!Dequeue
  <2>1. CASE count = 0
    <3>1. Window = << >> /\ UNCHANGED Window
      BY <1>2, <1>a, <2>1, EmptySeq DEF Dequeue, Window, SlotAt
    <3>2. QED
      BY <1>2, <2>1, <3>1 DEF Dequeue, Fifo!Dequeue, Reply, Fifo!Reply
  <2>2. CASE count # 0
    <3>1. Window # << >> /\ Head(Window) = entries[head]
      <4>1. 1 \in 1 .. count /\ SlotAt(1 - 1) = head
        BY <1>c, <2>2 DEF SlotAt, RingIInv, TypeOK, Slots
      <4>2. Window # << >> /\ Window[1] = entries[head]
        BY <1>a, <2>2, <4>1, EmptySeq
      <4>3. QED
        BY <4>2, <1>a
    <3>2. /\ Tail(Window) \in Seq(Ids) /\ Len(Tail(Window)) = count - 1
          /\ \A i \in 1 .. count - 1 : Tail(Window)[i] = Window[i + 1]
      BY <1>a, <3>1, HeadTailProperties
    <3>3. \A i \in 1 .. count - 1 : SlotAt(i - 1)' = SlotAt((i + 1) - 1)
      <4>1. head' = NextHead
        BY <1>2, <2>2 DEF Dequeue
      <4>2. head \in 0 .. Capacity - 1 /\ count <= Capacity
        BY DEF RingIInv, TypeOK, Slots
      <4>3. TAKE i \in 1 .. count - 1
      <4>4. i - 1 + 1 = (i + 1) - 1 /\ i \in Int /\ i <= Capacity - 1 /\ i >= 1
        BY <1>c, <4>2
      <4>5. QED
        BY <1>c, <4>1, <4>2, <4>4 DEF SlotAt, NextHead
    <3>4. \A i \in 1 .. count - 1 : Window'[i] = Window[i + 1]
      BY <1>2, <1>a, <1>b, <1>c, <2>2, <3>3 DEF Dequeue
    <3>5. Window' = Tail(Window)
      BY <1>2, <1>b, <2>2, <3>2, <3>4, SeqEqual DEF Dequeue
    <3>6. QED
      BY <1>2, <2>2, <3>1, <3>5 DEF Dequeue, Fifo!Dequeue, Reply, Fifo!Reply
  <2>3. QED
    BY <2>1, <2>2
<1>3. CASE UNCHANGED vars
  BY <1>3 DEF vars, Fifo!vars, Window, SlotAt
<1>4. QED
  BY <1>1, <1>2, <1>3 DEF Next, Fifo!Next

\* The ring implements the bounded duplicate-free FIFO queue, for every capacity.
THEOREM RingImplementsFifo == Spec => ImplementsFifo
<1>1. Spec => []RingIInv
  BY RingInitIInv, RingNextIInv, PTL DEF Spec
<1>2. QED
  BY <1>1, RingRefinesInit, RingRefinesNext, PTL DEF Spec, ImplementsFifo, Fifo!Spec

-----------------------------------------------------------------------------
(* The collector: what its state means *)

AnyHandle == Handles \cup {Foreign}

CollectorTypeOK ==
  /\ occupied \in [SlotIndexes -> BOOLEAN]
  /\ generation \in [SlotIndexes -> Generations]
  /\ values \in [SlotIndexes -> Seq(AnyHandle)]
  /\ roots \in [SlotIndexes -> Handles \cup {None}]
  /\ stage \in {"idle", "roots", "trace"}
  /\ position \in Nat \ {0}
  /\ edge \in Nat \ {0}
  /\ marked \in SUBSET SlotIndexes
  /\ worklist \in Seq(SlotIndexes)
  /\ valid \in BOOLEAN
  /\ issued \in SUBSET Handles

Passed(h) ==
  \/ generation[h.index] = 0
  \/ h.generation < generation[h.index]
  \/ h.generation = generation[h.index] /\ occupied[h.index]

HandlesPass ==
  /\ \A h \in issued : Passed(h)
  /\ \A i \in SlotIndexes : occupied[i] => generation[i] > 0 /\ HandleAt(i) \in issued

RootsHeld ==
  /\ held = [r \in {s \in SlotIndexes : roots[s] # None} |-> roots[r]]
  /\ \A r \in SlotIndexes : roots[r] # None => ValidHandle(roots[r])

\* A handle that the trace has dealt with.
Visited(h) == ValidHandle(h) /\ h.index \in marked

MarkedReached ==
  /\ \A n \in 1 .. Len(worklist) : worklist[n] \in marked
  /\ \A i \in marked : \E n \in 1 .. Len(worklist) : worklist[n] = i
  /\ \A i \in marked : occupied[i] /\ HandleAt(i) \in Heap!Reachable

RootsMarked(end) == \A r \in SlotIndexes : r < end /\ roots[r] # None => roots[r].index \in marked
ObjectMarked(i, end) == \A e \in 1 .. Len(values[i]) : e < end => Visited(values[i][e])

TraceProgress ==
  /\ stage = "idle" => position = 1 /\ edge = 1 /\ marked = {} /\ worklist = <<>> /\ valid
  /\ stage = "roots" => edge = 1 /\ valid /\ position <= SlotCount + 1 /\ RootsMarked(position)
  /\ stage = "trace" =>
       /\ RootsMarked(SlotCount + 1)
       /\ position <= Len(worklist) + 1
       /\ \A n \in 1 .. Len(worklist) : n < position => ObjectMarked(worklist[n], Len(values[worklist[n]]) + 1)
       /\ position <= Len(worklist) =>
            /\ valid => ObjectMarked(worklist[position], edge)
            /\ ~valid => \E e \in 1 .. Len(values[worklist[position]]) : ~ValidHandle(values[worklist[position]][e])
       /\ position > Len(worklist) => valid /\ edge = 1

HeapIInv == CollectorTypeOK /\ HandlesPass /\ RootsHeld /\ MarkedReached /\ TraceProgress

-----------------------------------------------------------------------------
(* Reachability *)

\* Values refer to handles by their places.
LEMMA EdgesOf ==
  ASSUME CollectorTypeOK, NEW h \in Live
  PROVE  /\ h.index \in SlotIndexes /\ h = HandleAt(h.index)
         /\ ReferencesOf(values[h.index]) = {values[h.index][e] : e \in 1 .. Len(values[h.index])}
<1>1. h \in Handles /\ ValidHandle(h)
  BY DEF Live
<1>2. h.index \in SlotIndexes /\ h = HandleAt(h.index)
  BY <1>1 DEF ValidHandle, Handles, HandleAt, Handle
<1>3. values[h.index] \in Seq(AnyHandle)
  BY <1>2 DEF CollectorTypeOK
<1>4. DOMAIN values[h.index] = 1 .. Len(values[h.index])
  BY <1>3
<1> QED BY <1>2, <1>4 DEF ReferencesOf

\* What a client registered is live and reachable.
LEMMA RootsReachable ==
  ASSUME CollectorTypeOK, RootsHeld, NEW r \in SlotIndexes, roots[r] # None
  PROVE  roots[r] \in Live /\ roots[r] \in Heap!Rooted /\ roots[r] \in Heap!Reachable
<1>1. roots[r] \in Handles /\ ValidHandle(roots[r])
  BY DEF CollectorTypeOK, RootsHeld
<1>2. roots[r] \in Live
  BY <1>1 DEF Live
<1>3. r \in DOMAIN held /\ held[r] = roots[r]
  BY DEF RootsHeld
<1>4. roots[r] \in Heap!Rooted
  BY <1>3 DEF Heap!Rooted
<1> QED BY <1>2, <1>4 DEF Heap!Reachable

\* Only registered handles are roots.
LEMMA RootedAreRoots ==
  ASSUME CollectorTypeOK, RootsHeld, NEW h \in Heap!Rooted
  PROVE  \E r \in SlotIndexes : roots[r] # None /\ roots[r] = h
<1>1. PICK r \in DOMAIN held : h = held[r]
  BY DEF Heap!Rooted
<1>2. r \in SlotIndexes /\ roots[r] # None /\ held[r] = roots[r]
  BY <1>1 DEF RootsHeld
<1> QED BY <1>1, <1>2

\* A live object that a reachable one refers to is reachable.
LEMMA ReferencesReachable ==
  ASSUME CollectorTypeOK, NEW h \in Heap!Reachable, NEW k \in ReferencesOf(values[h.index]), k \in Live
  PROVE  k \in Heap!Reachable
<1>1. h \in Live
  BY DEF Heap!Reachable
<1> SUFFICES ASSUME NEW S \in SUBSET Live, Heap!Rooted \subseteq S, Heap!Closed(S)
             PROVE  k \in S
  BY DEF Heap!Reachable
<1>2. h \in S
  BY DEF Heap!Reachable
<1>3. [x \in Live |-> ReferencesOf(values[x.index])][h] \cap Live \subseteq S
  BY <1>2 DEF Heap!Closed
<1> QED BY <1>1, <1>3

\* Reachable objects are in every set that holds the roots and is closed.
LEMMA ReachableLeast ==
  ASSUME NEW S \in SUBSET Live, Heap!Rooted \subseteq S,
         \A h \in S : ReferencesOf(values[h.index]) \cap Live \subseteq S
  PROVE  Heap!Reachable \subseteq S
<1>1. Heap!Closed(S)
  BY DEF Heap!Closed
<1> QED BY <1>1 DEF Heap!Reachable

\* Reachability depends on the heap and the roots alone.
LEMMA QuietReachable ==
  UNCHANGED <<state, held>> => Heap!Reachable' = Heap!Reachable /\ Live' = Live
<1> SUFFICES ASSUME UNCHANGED <<state, held>>
             PROVE  Heap!Reachable' = Heap!Reachable /\ Live' = Live
  OBVIOUS
<1>1. Live' = Live
  BY DEF state, Live, ValidHandle
<1>2. [x \in Live |-> ReferencesOf(values[x.index])]' = [x \in Live |-> ReferencesOf(values[x.index])]
  BY <1>1 DEF state, ReferencesOf
<1>3. Heap!Rooted' = Heap!Rooted
  BY DEF Heap!Rooted
<1>4. Heap!Reachable' = Heap!Reachable
  BY <1>1, <1>2, <1>3 DEF Heap!Reachable, Heap!Closed
<1> QED BY <1>1, <1>4

-----------------------------------------------------------------------------
(* The invariant is kept by the calls between collections *)

LEMMA HeapInitIInv == CollectorInit => HeapIInv
<1> SUFFICES ASSUME CollectorInit PROVE HeapIInv
  OBVIOUS
<1> USE CollectorAssumption DEF CollectorInit
<1>1. CollectorTypeOK
  BY DEF CollectorTypeOK, Generations, AnyHandle
<1>2. HandlesPass
  BY DEF HandlesPass
<1>3. RootsHeld
  <2>1. {s \in SlotIndexes : roots[s] # None} = {}
    OBVIOUS
  <2> QED BY <2>1 DEF RootsHeld
<1>4. MarkedReached
  BY DEF MarkedReached
<1>5. TraceProgress
  BY DEF TraceProgress
<1> QED BY <1>1, <1>2, <1>3, <1>4, <1>5 DEF HeapIInv

\* Between collections nothing is marked and nothing is under way.
LEMMA QuietBetween ==
  HeapIInv /\ Between => MarkedReached' /\ TraceProgress'
<1> SUFFICES ASSUME HeapIInv, Between PROVE MarkedReached' /\ TraceProgress'
  OBVIOUS
<1>1. /\ stage' = "idle" /\ position' = 1 /\ edge' = 1
      /\ marked' = {} /\ worklist' = <<>> /\ valid' = TRUE
  BY DEF Between, visitor, HeapIInv, TraceProgress
<1>2. TraceProgress'
  BY <1>1 DEF TraceProgress
<1>3. MarkedReached'
  BY <1>1 DEF MarkedReached
<1> QED BY <1>2, <1>3

\* A value is a sequence of handles.
LEMMA ContentsAreSequences ==
  ASSUME HeapIInv, NEW value \in Contents(Known)
  PROVE  value \in Seq(AnyHandle)
<1>1. PICK n \in 0 .. MaxReferences : value \in [1 .. n -> Known]
  BY DEF Contents
<1>2. Known \subseteq AnyHandle
  BY DEF HeapIInv, CollectorTypeOK, Known, AnyHandle
<1>3. n \in Nat
  BY <1>1
<1> QED BY <1>1, <1>2, <1>3

\* A slot that is free has not given out its present handle.
LEMMA AllocateKeeps ==
  ASSUME HeapIInv, NEW value \in Contents(Known), AllocateObject(value)
  PROVE  HeapIInv'
<1>1. PICK index \in SlotIndexes :
        /\ ~occupied[index] /\ generation[index] > 0
        /\ occupied' = [occupied EXCEPT ![index] = TRUE]
        /\ values' = [values EXCEPT ![index] = value]
        /\ issued' = issued \cup {HandleAt(index)}
  BY DEF AllocateObject, IsFirst
<1>2. UNCHANGED <<generation, roots, held>> /\ Between
  BY DEF AllocateObject
<1>3. value \in Seq(AnyHandle)
  BY ContentsAreSequences
<1>4. HandleAt(index) \in Handles
  BY <1>1, CollectorAssumption DEF HandleAt, Handle, Handles, HeapIInv, CollectorTypeOK, Generations
<1>5. CollectorTypeOK'
  <2>1. occupied' \in [SlotIndexes -> BOOLEAN] /\ values' \in [SlotIndexes -> Seq(AnyHandle)]
    BY <1>1, <1>3 DEF HeapIInv, CollectorTypeOK
  <2>2. issued' \in SUBSET Handles
    BY <1>1, <1>4 DEF HeapIInv, CollectorTypeOK
  <2> QED BY <1>2, <2>1, <2>2 DEF HeapIInv, CollectorTypeOK, Between, visitor
<1>6. HandlesPass'
  <2>1. \A h \in issued' : Passed(h)'
    BY <1>1, <1>2 DEF HeapIInv, HandlesPass, Passed, HandleAt, Handle, CollectorTypeOK, Handles
  <2>2. \A i \in SlotIndexes : occupied'[i] => generation'[i] > 0 /\ HandleAt(i)' \in issued'
    BY <1>1, <1>2 DEF HeapIInv, HandlesPass, HandleAt, CollectorTypeOK
  <2> QED BY <2>1, <2>2 DEF HandlesPass
<1>7. RootsHeld'
  BY <1>1, <1>2 DEF HeapIInv, RootsHeld, ValidHandle, CollectorTypeOK
<1> QED BY <1>2, <1>5, <1>6, <1>7, QuietBetween DEF HeapIInv

LEMMA BorrowKeeps ==
  ASSUME HeapIInv, NEW value \in Contents(Known), NEW h \in issued, BorrowMutable(h, value)
  PROVE  HeapIInv'
<1>1. value \in Seq(AnyHandle) /\ h.index \in SlotIndexes
  BY ContentsAreSequences DEF BorrowMutable, ValidHandle
<1>2. Between /\ UNCHANGED <<occupied, generation, roots, issued, held>>
  BY DEF BorrowMutable
<1>3. CollectorTypeOK'
  BY <1>1, <1>2 DEF HeapIInv, CollectorTypeOK, BorrowMutable, Between, visitor
<1>4. HandlesPass'
  BY <1>2 DEF HeapIInv, HandlesPass, Passed, HandleAt
<1>5. RootsHeld'
  BY <1>2 DEF HeapIInv, RootsHeld, ValidHandle
<1> QED BY <1>2, <1>3, <1>4, <1>5, QuietBetween DEF HeapIInv

LEMMA NoneIsNoHandle == None \notin Handles
  BY DEF None, Handles, Domain

LEMMA RegisterKeeps ==
  ASSUME HeapIInv, NEW h \in issued, RegisterRoot(h)
  PROVE  HeapIInv'
<1>1. PICK root \in SlotIndexes :
        /\ roots[root] = None
        /\ roots' = [roots EXCEPT ![root] = h]
        /\ held' = [t \in (DOMAIN held) \cup {root} |-> IF t = root THEN h ELSE held[t]]
  BY DEF RegisterRoot, IsFirst
<1>2. Between /\ UNCHANGED <<occupied, generation, values, issued>> /\ ValidHandle(h)
  BY DEF RegisterRoot
<1>3. h \in Handles /\ h # None
  BY NoneIsNoHandle DEF HeapIInv, CollectorTypeOK
<1>4. CollectorTypeOK'
  BY <1>1, <1>2, <1>3 DEF HeapIInv, CollectorTypeOK, Between, visitor
<1>5. HandlesPass'
  BY <1>2 DEF HeapIInv, HandlesPass, Passed, HandleAt
<1>6. RootsHeld'
  <2>1. {s \in SlotIndexes : roots'[s] # None} = (DOMAIN held) \cup {root}
    BY <1>1, <1>3 DEF HeapIInv, RootsHeld, CollectorTypeOK
  <2>2. held' = [r \in {s \in SlotIndexes : roots'[s] # None} |-> roots'[r]]
    BY <1>1, <2>1 DEF HeapIInv, RootsHeld, CollectorTypeOK
  <2>3. \A r \in SlotIndexes : roots'[r] # None => ValidHandle(roots[r])'
    BY <1>1, <1>2 DEF HeapIInv, RootsHeld, CollectorTypeOK, ValidHandle
  <2> QED BY <2>2, <2>3 DEF RootsHeld
<1> QED BY <1>2, <1>4, <1>5, <1>6, QuietBetween DEF HeapIInv

LEMMA UnregisterKeeps ==
  ASSUME HeapIInv, NEW root \in SlotIndexes, UnregisterRoot(root)
  PROVE  HeapIInv'
<1>1. /\ roots' = [roots EXCEPT ![root] = None]
      /\ held' = [t \in (DOMAIN held) \ {root} |-> held[t]]
  BY DEF UnregisterRoot
<1>2. Between /\ UNCHANGED <<occupied, generation, values, issued>>
  BY DEF UnregisterRoot
<1>3. CollectorTypeOK'
  BY <1>1, <1>2 DEF HeapIInv, CollectorTypeOK, Between, visitor
<1>4. HandlesPass'
  BY <1>2 DEF HeapIInv, HandlesPass, Passed, HandleAt
<1>5. RootsHeld'
  <2>1. {s \in SlotIndexes : roots'[s] # None} = (DOMAIN held) \ {root}
    BY <1>1 DEF HeapIInv, RootsHeld, CollectorTypeOK
  <2>2. held' = [r \in {s \in SlotIndexes : roots'[s] # None} |-> roots'[r]]
    BY <1>1, <2>1 DEF HeapIInv, RootsHeld, CollectorTypeOK
  <2>3. \A r \in SlotIndexes : roots'[r] # None => ValidHandle(roots[r])'
    BY <1>1, <1>2 DEF HeapIInv, RootsHeld, CollectorTypeOK, ValidHandle
  <2> QED BY <2>2, <2>3 DEF RootsHeld
<1> QED BY <1>2, <1>3, <1>4, <1>5, QuietBetween DEF HeapIInv

-----------------------------------------------------------------------------
(* The invariant is kept by the steps of Collect *)

\* While the collection reads the heap, what it knows of types and handles stays.
LEMMA HeapUntouched ==
  HeapIInv /\ UNCHANGED <<state, issued, held>> => HandlesPass' /\ RootsHeld'
<1> SUFFICES ASSUME HeapIInv, UNCHANGED <<state, issued, held>> PROVE HandlesPass' /\ RootsHeld'
  OBVIOUS
<1>1. HandlesPass'
  BY DEF HeapIInv, HandlesPass, Passed, HandleAt, state
<1>2. RootsHeld'
  BY DEF HeapIInv, RootsHeld, ValidHandle, state
<1> QED BY <1>1, <1>2

\* One visit: the worklist grows at its end, marks stay, and the handle is dealt with or the
\* visitor is no longer valid.
LEMMA VisitEffect ==
  ASSUME HeapIInv, NEW h \in AnyHandle, Visit(h)
  PROVE  /\ marked' \in SUBSET SlotIndexes /\ worklist' \in Seq(SlotIndexes) /\ valid' \in BOOLEAN
         /\ marked \subseteq marked'
         /\ Len(worklist) <= Len(worklist')
         /\ \A n \in 1 .. Len(worklist) : worklist'[n] = worklist[n]
         /\ \A n \in 1 .. Len(worklist') : worklist'[n] \in marked'
         /\ \A i \in marked' : \E n \in 1 .. Len(worklist') : worklist'[n] = i
         /\ ValidHandle(h) => h.index \in marked' /\ valid' = valid
         /\ ~ValidHandle(h) => ~valid'
         /\ \A i \in marked' \ marked : ValidHandle(h) /\ i = h.index
<1>0. /\ marked \in SUBSET SlotIndexes /\ worklist \in Seq(SlotIndexes) /\ valid \in BOOLEAN
      /\ \A n \in 1 .. Len(worklist) : worklist[n] \in marked
      /\ \A i \in marked : \E n \in 1 .. Len(worklist) : worklist[n] = i
  BY DEF HeapIInv, CollectorTypeOK, MarkedReached
<1>1. CASE ~ValidHandle(h)
  <2>1. valid' = FALSE /\ marked' = marked /\ worklist' = worklist
    BY <1>1 DEF Visit
  <2>2. marked' \subseteq marked /\ Len(worklist) <= Len(worklist')
    BY <1>0, <2>1
  <2>3. /\ marked' \in SUBSET SlotIndexes /\ worklist' \in Seq(SlotIndexes) /\ valid' \in BOOLEAN /\ ~valid'
        /\ \A n \in 1 .. Len(worklist') : worklist'[n] \in marked'
        /\ \A i \in marked' : \E n \in 1 .. Len(worklist') : worklist'[n] = i
    BY <1>0, <2>1
  <2> QED BY <1>1, <2>1, <2>2, <2>3
<1>2. CASE ValidHandle(h) /\ h.index \in marked
  <2>1. valid' = valid /\ marked' = marked /\ worklist' = worklist
    BY <1>2 DEF Visit
  <2> QED BY <1>0, <1>2, <2>1
<1>3. CASE ValidHandle(h) /\ h.index \notin marked
  <2>1. /\ marked' = marked \cup {h.index} /\ worklist' = Append(worklist, h.index) /\ valid' = valid
        /\ h.index \in SlotIndexes
    BY <1>3 DEF Visit, ValidHandle
  <2>2. /\ worklist' \in Seq(SlotIndexes) /\ Len(worklist') = Len(worklist) + 1
        /\ worklist'[Len(worklist) + 1] = h.index
        /\ \A n \in 1 .. Len(worklist) : worklist'[n] = worklist[n]
    BY <1>0, <2>1
  <2>3. \A n \in 1 .. Len(worklist') : worklist'[n] \in marked'
    BY <1>0, <2>1, <2>2
  <2>4. \A i \in marked' : \E n \in 1 .. Len(worklist') : worklist'[n] = i
    <3> SUFFICES ASSUME NEW i \in marked' PROVE \E n \in 1 .. Len(worklist') : worklist'[n] = i
      OBVIOUS
    <3>1. CASE i = h.index
      <4>1. Len(worklist) + 1 \in 1 .. Len(worklist')
        BY <1>0, <2>2
      <4> QED BY <2>2, <3>1, <4>1
    <3>2. CASE i # h.index
      <4>1. PICK n \in 1 .. Len(worklist) : worklist[n] = i
        BY <1>0, <2>1, <3>2
      <4> QED BY <1>0, <4>1, <2>2
    <3> QED BY <3>1, <3>2
  <2> QED BY <1>0, <1>3, <2>1, <2>2, <2>3, <2>4
<1> QED BY <1>1, <1>2, <1>3

\* A visit to a handle that is reachable if it is valid marks reachable objects only.
LEMMA VisitReaches ==
  ASSUME HeapIInv, NEW h \in AnyHandle, Visit(h), UNCHANGED <<state, held>>,
         ValidHandle(h) => h \in Heap!Reachable
  PROVE  MarkedReached'
<1>1. Heap!Reachable' = Heap!Reachable
  BY QuietReachable
<1>2. UNCHANGED <<occupied, generation>>
  BY DEF state
<1>3. \A i \in marked' : occupied'[i] /\ HandleAt(i)' \in Heap!Reachable'
  <2> SUFFICES ASSUME NEW i \in marked' PROVE occupied[i] /\ HandleAt(i) \in Heap!Reachable
    BY <1>1, <1>2 DEF HandleAt
  <2>1. CASE i \in marked
    BY <2>1 DEF HeapIInv, MarkedReached
  <2>2. CASE i \notin marked
    <3>1. ValidHandle(h) /\ i = h.index
      BY <2>2, VisitEffect
    <3>2. h \in Live
      BY <3>1 DEF Heap!Reachable
    <3>3. h = HandleAt(i)
      BY <3>1, <3>2, EdgesOf DEF HeapIInv
    <3> QED BY <3>1, <3>3 DEF ValidHandle
  <2> QED BY <2>1, <2>2
<1> QED BY <1>3, VisitEffect DEF MarkedReached

LEMMA BeginKeeps == HeapIInv /\ BeginCollect => HeapIInv'
<1> SUFFICES ASSUME HeapIInv, BeginCollect PROVE HeapIInv'
  OBVIOUS
<1>1. UNCHANGED <<state, held, issued>> /\ UNCHANGED <<position, edge, marked, worklist, valid>> /\ stage' = "roots"
  BY DEF BeginCollect
<1>2. HandlesPass' /\ RootsHeld'
  BY <1>1, HeapUntouched
<1>3. CollectorTypeOK'
  BY <1>1 DEF HeapIInv, CollectorTypeOK, state
<1>4. position = 1 /\ edge = 1 /\ marked = {} /\ worklist = <<>> /\ valid
  BY DEF HeapIInv, TraceProgress, BeginCollect
<1>5. MarkedReached'
  BY <1>1, <1>4 DEF MarkedReached
<1>6. TraceProgress'
  BY <1>1, <1>4, CollectorAssumption DEF TraceProgress, RootsMarked, SlotIndexes
<1> QED BY <1>2, <1>3, <1>5, <1>6 DEF HeapIInv

LEMMA VisitRootKeeps == HeapIInv /\ VisitRoot => HeapIInv'
<1> SUFFICES ASSUME HeapIInv, VisitRoot PROVE HeapIInv'
  OBVIOUS
<1>1. /\ UNCHANGED <<state, stage, edge, issued, held>> /\ stage = "roots"
      /\ position \in SlotIndexes /\ position' = position + 1
  BY DEF VisitRoot
<1>2. HandlesPass' /\ RootsHeld'
  BY <1>1, HeapUntouched
<1>3. edge = 1 /\ valid /\ position <= SlotCount + 1 /\ RootsMarked(position)
  BY <1>1 DEF HeapIInv, TraceProgress
<1>4. /\ marked' \in SUBSET SlotIndexes /\ worklist' \in Seq(SlotIndexes) /\ valid' = TRUE
      /\ MarkedReached'
      /\ marked \subseteq marked'
      /\ roots[position] # None => roots[position].index \in marked'
  <2>1. CASE roots[position] = None
    <3>1. UNCHANGED <<marked, worklist, valid>>
      BY <2>1 DEF VisitRoot, Visit
    <3>2. Heap!Reachable' = Heap!Reachable
      BY <1>1, QuietReachable
    <3>3. MarkedReached'
      BY <1>1, <3>1, <3>2 DEF HeapIInv, MarkedReached, HandleAt, state
    <3> QED BY <2>1, <3>1, <3>3, <1>3 DEF HeapIInv, CollectorTypeOK
  <2>2. CASE roots[position] # None
    <3>1. Visit(roots[position])
      BY <2>2 DEF VisitRoot
    <3>2. roots[position] \in Heap!Reachable /\ ValidHandle(roots[position])
      BY <1>1, <2>2, RootsReachable DEF HeapIInv, RootsHeld
    <3>3. roots[position] \in AnyHandle
      BY <1>1, <2>2 DEF HeapIInv, CollectorTypeOK, AnyHandle
    <3>4. MarkedReached'
      BY <1>1, <3>1, <3>2, <3>3, VisitReaches
    <3> QED BY <1>3, <3>1, <3>2, <3>3, <3>4, VisitEffect
  <2> QED BY <2>1, <2>2
<1>5. CollectorTypeOK'
  BY <1>1, <1>4, CollectorAssumption DEF HeapIInv, CollectorTypeOK, state, SlotIndexes
<1>6. TraceProgress'
  <2>1. \A r \in SlotIndexes : r < position' /\ roots'[r] # None => roots'[r].index \in marked'
    <3> SUFFICES ASSUME NEW r \in SlotIndexes, r < position', roots'[r] # None
                 PROVE  roots'[r].index \in marked'
      OBVIOUS
    <3>1. roots' = roots
      BY <1>1 DEF state
    <3>2. r < position \/ r = position
      BY <1>1, CollectorAssumption DEF SlotIndexes
    <3> QED BY <1>3, <1>4, <3>1, <3>2 DEF RootsMarked
  <2>2. position' <= SlotCount + 1
    BY <1>1, CollectorAssumption DEF SlotIndexes
  <2> QED BY <1>1, <1>3, <1>4, <2>1, <2>2 DEF TraceProgress, RootsMarked
<1> QED BY <1>2, <1>4, <1>5, <1>6 DEF HeapIInv

LEMMA BeginTraceKeeps == HeapIInv /\ BeginTrace => HeapIInv'
<1> SUFFICES ASSUME HeapIInv, BeginTrace PROVE HeapIInv'
  OBVIOUS
<1>1. /\ UNCHANGED <<state, edge, marked, worklist, valid, issued, held>>
      /\ stage = "roots" /\ position > SlotCount /\ valid
      /\ stage' = "trace" /\ position' = 1
  BY DEF BeginTrace, RootsVisited
<1>2. HandlesPass' /\ RootsHeld'
  BY <1>1, HeapUntouched
<1>3. CollectorTypeOK'
  BY <1>1 DEF HeapIInv, CollectorTypeOK, state
<1>4. Heap!Reachable' = Heap!Reachable
  BY <1>1, QuietReachable
<1>5. MarkedReached'
  BY <1>1, <1>4 DEF HeapIInv, MarkedReached, HandleAt, state
<1>6. edge = 1 /\ position = SlotCount + 1 /\ RootsMarked(SlotCount + 1)
  BY <1>1, CollectorAssumption DEF HeapIInv, TraceProgress, CollectorTypeOK
<1>7. RootsMarked(SlotCount + 1)'
  BY <1>1, <1>6 DEF RootsMarked, state
<1>8. Len(worklist) \in Nat /\ worklist' = worklist
  BY <1>1 DEF HeapIInv, CollectorTypeOK
<1>9. TraceProgress'
  <2>1. \A n \in 1 .. Len(worklist') : ~(n < position')
    BY <1>1, <1>8
  <2>2. position' <= Len(worklist') + 1 /\ valid' /\ edge' = 1
    BY <1>1, <1>6, <1>8
  <2>3. position' <= Len(worklist') => ObjectMarked(worklist[position], edge)'
    <3>1. \A e \in 1 .. Len(values'[worklist'[position']]) : ~(e < edge')
      BY <2>2
    <3> QED BY <3>1 DEF ObjectMarked
  <2> QED BY <1>1, <1>7, <2>1, <2>2, <2>3 DEF TraceProgress
<1> QED BY <1>2, <1>3, <1>5, <1>9 DEF HeapIInv

\* What the trace has dealt with stays so while marks are only added.
LEMMA ObjectStaysMarked ==
  ASSUME CollectorTypeOK, UNCHANGED state, marked \subseteq marked', NEW i \in SlotIndexes, NEW end \in Nat, ObjectMarked(i, end)
  PROVE  \A e \in 1 .. Len(values[i]) : e < end => ValidHandle(values[i][e]) /\ values[i][e].index \in marked'
BY DEF ObjectMarked, Visited

LEMMA TraceReferenceKeeps == HeapIInv /\ TraceReference => HeapIInv'
<1> SUFFICES ASSUME HeapIInv, TraceReference PROVE HeapIInv'
  OBVIOUS
<1>1. /\ UNCHANGED <<state, stage, position, issued, held>> /\ stage = "trace"
      /\ position <= Len(worklist) /\ edge <= Len(Traced) /\ edge' = edge + 1
      /\ Visit(Traced[edge])
  BY DEF TraceReference
<1> DEFINE here == worklist[position]
<1>2. /\ worklist \in Seq(SlotIndexes) /\ Len(worklist) \in Nat /\ position \in 1 .. Len(worklist)
      /\ here \in SlotIndexes /\ values[here] \in Seq(AnyHandle) /\ Len(values[here]) \in Nat
      /\ edge \in 1 .. Len(values[here]) /\ Traced = values[here]
  <2>1. worklist \in Seq(SlotIndexes) /\ position \in Nat \ {0} /\ edge \in Nat \ {0}
    BY DEF HeapIInv, CollectorTypeOK
  <2>2. Len(worklist) \in Nat /\ position \in 1 .. Len(worklist)
    BY <1>1, <2>1
  <2>3. here \in SlotIndexes
    BY <2>1, <2>2
  <2>4. values[here] \in Seq(AnyHandle)
    BY <2>3 DEF HeapIInv, CollectorTypeOK
  <2> QED BY <1>1, <2>1, <2>2, <2>3, <2>4 DEF Traced
<1> DEFINE h == values[here][edge]
<1>3. h \in AnyHandle /\ Visit(h)
  BY <1>1, <1>2
<1>4. HandlesPass' /\ RootsHeld'
  BY <1>1, HeapUntouched
<1>5. /\ marked' \in SUBSET SlotIndexes /\ worklist' \in Seq(SlotIndexes) /\ valid' \in BOOLEAN
      /\ marked \subseteq marked'
      /\ Len(worklist) <= Len(worklist')
      /\ \A n \in 1 .. Len(worklist) : worklist'[n] = worklist[n]
      /\ ValidHandle(h) => h.index \in marked' /\ valid' = valid
      /\ ~ValidHandle(h) => ~valid'
  BY <1>3, VisitEffect
<1>6. CollectorTypeOK'
  BY <1>1, <1>5, SMTT(120) DEF HeapIInv, CollectorTypeOK, state
<1>7. ValidHandle(h) => h \in Heap!Reachable
  <2> SUFFICES ASSUME ValidHandle(h) PROVE h \in Heap!Reachable
    OBVIOUS
  <2>1. here \in marked /\ HandleAt(here) \in Heap!Reachable
    BY <1>2 DEF HeapIInv, MarkedReached
  <2>2. h \in Handles
    BY <1>3 DEF AnyHandle, ValidHandle, Foreign, Domain
  <2>3. h \in Live
    BY <2>2 DEF Live
  <2>4. HandleAt(here) \in Live /\ HandleAt(here).index = here
    BY <2>1 DEF Heap!Reachable, HandleAt, Handle
  <2>5. h \in ReferencesOf(values[HandleAt(here).index])
    BY <1>2, <2>4, EdgesOf DEF HeapIInv
  <2> QED BY <2>1, <2>3, <2>5, ReferencesReachable DEF HeapIInv
<1>8. MarkedReached'
  BY <1>1, <1>3, <1>7, VisitReaches
<1>9. values' = values /\ roots' = roots
  BY <1>1 DEF state
<1>10. TraceProgress'
  <2>1. /\ RootsMarked(SlotCount + 1)
        /\ \A n \in 1 .. Len(worklist) : n < position => ObjectMarked(worklist[n], Len(values[worklist[n]]) + 1)
        /\ valid => ObjectMarked(here, edge)
        /\ ~valid => \E e \in 1 .. Len(values[here]) : ~ValidHandle(values[here][e])
    BY <1>1 DEF HeapIInv, TraceProgress
  <2>2. RootsMarked(SlotCount + 1)'
    BY <2>1, <1>5, <1>9 DEF RootsMarked
  <2>3. position' \in 1 .. Len(worklist') /\ worklist'[position'] = here
    BY <1>1, <1>2, <1>5
  <2>4. \A n \in 1 .. Len(worklist') : n < position' =>
           \A e \in 1 .. Len(values[worklist'[n]]) : e < Len(values[worklist'[n]]) + 1 =>
             ValidHandle(values[worklist'[n]][e]) /\ values[worklist'[n]][e].index \in marked'
    <3> SUFFICES ASSUME NEW n \in 1 .. Len(worklist'), n < position'
                 PROVE  \A e \in 1 .. Len(values[worklist'[n]]) : e < Len(values[worklist'[n]]) + 1 =>
                          ValidHandle(values[worklist'[n]][e]) /\ values[worklist'[n]][e].index \in marked'
      OBVIOUS
    <3>1. n \in 1 .. Len(worklist) /\ n < position
      BY <1>1, <1>2
    <3>2. worklist'[n] = worklist[n] /\ worklist[n] \in SlotIndexes
      BY <1>2, <1>5, <3>1
    <3>3. Len(values[worklist[n]]) + 1 \in Nat
      BY <3>2 DEF HeapIInv, CollectorTypeOK
    <3>4. ObjectMarked(worklist[n], Len(values[worklist[n]]) + 1)
      BY <2>1, <3>1
    <3>5. \A e \in 1 .. Len(values[worklist[n]]) : e < Len(values[worklist[n]]) + 1 =>
            ValidHandle(values[worklist[n]][e]) /\ values[worklist[n]][e].index \in marked'
      BY <1>1, <1>5, <3>2, <3>3, <3>4, ObjectStaysMarked DEF HeapIInv
    <3> QED BY <3>2, <3>5
  <2>5. valid' => \A e \in 1 .. Len(values[here]) : e < edge' => ValidHandle(values[here][e]) /\ values[here][e].index \in marked'
    <3> SUFFICES ASSUME valid', NEW e \in 1 .. Len(values[here]), e < edge'
                 PROVE  ValidHandle(values[here][e]) /\ values[here][e].index \in marked'
      OBVIOUS
    <3>1. valid /\ ValidHandle(h) /\ h.index \in marked'
      BY <1>5
    <3>2. CASE e = edge
      BY <3>1, <3>2
    <3>3. CASE e # edge
      <4>1. e < edge /\ edge \in Nat
        BY <1>1, <1>2, <3>3
      <4> QED BY <1>1, <1>2, <1>5, <2>1, <3>1, <4>1, ObjectStaysMarked DEF HeapIInv
    <3> QED BY <3>2, <3>3
  <2>6. ~valid' => \E e \in 1 .. Len(values[here]) : ~ValidHandle(values[here][e])
    <3> SUFFICES ASSUME ~valid' PROVE \E e \in 1 .. Len(values[here]) : ~ValidHandle(values[here][e])
      OBVIOUS
    <3>1. CASE valid
      BY <1>2, <1>5, <3>1
    <3>2. CASE ~valid
      BY <2>1, <3>2
    <3> QED BY <3>1, <3>2
  <2>7. stage' = "trace" /\ position' <= Len(worklist') /\ Len(worklist') \in Nat
    BY <1>1, <1>5, <2>3
  <2>8. position' <= Len(worklist') + 1 /\ ~(position' > Len(worklist'))
    BY <2>3, <2>7
  <2>9. UNCHANGED <<occupied, generation, values>>
    BY <1>1 DEF state
  <2>10. \A n \in 1 .. Len(worklist') : n < position' => ObjectMarked(worklist[n], Len(values[worklist[n]]) + 1)'
    BY <2>4, <2>9 DEF ObjectMarked, Visited, ValidHandle
  <2>11. valid' => ObjectMarked(worklist[position], edge)'
    BY <2>3, <2>5, <2>9 DEF ObjectMarked, Visited, ValidHandle
  <2>12. ~valid' => \E e \in 1 .. Len(values'[worklist'[position']]) : ~ValidHandle(values[worklist[position]][e])'
    BY <2>3, <2>6, <2>9 DEF ValidHandle
  <2> HIDE DEF here
  <2> QED BY <2>2, <2>7, <2>8, <2>10, <2>11, <2>12 DEF TraceProgress
<1> QED BY <1>4, <1>6, <1>8, <1>10 DEF HeapIInv

LEMMA NextObjectKeeps == HeapIInv /\ NextObject => HeapIInv'
<1> SUFFICES ASSUME HeapIInv, NextObject PROVE HeapIInv'
  OBVIOUS
<1>1. /\ UNCHANGED <<state, stage, marked, worklist, valid, issued, held>> /\ stage = "trace"
      /\ position <= Len(worklist) /\ edge > Len(Traced) /\ valid
      /\ position' = position + 1 /\ edge' = 1
  BY DEF NextObject, ObjectVisited
<1>2. HandlesPass' /\ RootsHeld'
  BY <1>1, HeapUntouched
<1>3. CollectorTypeOK'
  BY <1>1 DEF HeapIInv, CollectorTypeOK, state
<1>4. Heap!Reachable' = Heap!Reachable
  BY <1>1, QuietReachable
<1>5. MarkedReached'
  BY <1>1, <1>4 DEF HeapIInv, MarkedReached, HandleAt, state
<1>6. /\ RootsMarked(SlotCount + 1)
      /\ \A n \in 1 .. Len(worklist) : n < position => ObjectMarked(worklist[n], Len(values[worklist[n]]) + 1)
      /\ ObjectMarked(worklist[position], edge)
  BY <1>1 DEF HeapIInv, TraceProgress
<1>7. RootsMarked(SlotCount + 1)'
  BY <1>1, <1>6 DEF RootsMarked, state
<1>8. worklist \in Seq(SlotIndexes) /\ Len(worklist) \in Nat /\ position \in 1 .. Len(worklist)
  BY <1>1 DEF HeapIInv, CollectorTypeOK
<1>9. TraceProgress'
  <2>1. \A n \in 1 .. Len(worklist) : n < position + 1 => ObjectMarked(worklist[n], Len(values[worklist[n]]) + 1)
    <3> SUFFICES ASSUME NEW n \in 1 .. Len(worklist), n < position + 1
                 PROVE  ObjectMarked(worklist[n], Len(values[worklist[n]]) + 1)
      OBVIOUS
    <3>1. CASE n < position
      BY <1>6, <3>1
    <3>2. CASE n = position
      <4>1. worklist[position] \in SlotIndexes
        BY <1>8
      <4>2. Len(values[worklist[position]]) \in Nat /\ edge \in Nat
        BY <4>1 DEF HeapIInv, CollectorTypeOK
      <4> QED BY <1>1, <1>6, <3>2, <4>2 DEF ObjectMarked, Traced
    <3> QED BY <1>8, <3>1, <3>2
  <2>2. \A n \in 1 .. Len(worklist') : n < position' => ObjectMarked(worklist[n], Len(values[worklist[n]]) + 1)'
    BY <1>1, <2>1 DEF ObjectMarked, Visited, ValidHandle, state
  <2>3. position' <= Len(worklist') + 1 /\ valid' /\ edge' = 1 /\ stage' = "trace"
    BY <1>1, <1>8
  <2>4. \A i : \A e \in 1 .. Len(values'[i]) : ~(e < edge')
    BY <2>3
  <2> QED BY <1>7, <2>2, <2>3, <2>4 DEF TraceProgress, ObjectMarked
<1> QED BY <1>2, <1>3, <1>5, <1>9 DEF HeapIInv

\* The end of a collection forgets the marks.
LEMMA EndForgets == EndCollect => MarkedReached' /\ TraceProgress'
<1> SUFFICES ASSUME EndCollect PROVE MarkedReached' /\ TraceProgress'
  OBVIOUS
<1>1. /\ stage' = "idle" /\ position' = 1 /\ edge' = 1
      /\ marked' = {} /\ worklist' = <<>> /\ valid' = TRUE
  BY DEF EndCollect
<1>2. TraceProgress'
  BY <1>1 DEF TraceProgress
<1>3. MarkedReached'
  BY <1>1 DEF MarkedReached
<1> QED BY <1>2, <1>3

LEMMA RefuseKeeps == HeapIInv /\ Refuse => HeapIInv'
<1> SUFFICES ASSUME HeapIInv, Refuse PROVE HeapIInv'
  OBVIOUS
<1>1. EndCollect /\ UNCHANGED <<state, issued, held>>
  BY DEF Refuse
<1>2. HandlesPass' /\ RootsHeld'
  BY <1>1, HeapUntouched
<1>3. CollectorTypeOK'
  BY <1>1 DEF HeapIInv, CollectorTypeOK, state, EndCollect
<1> QED BY <1>1, <1>2, <1>3, EndForgets DEF HeapIInv

\* The slots that Sweep empties held no root.
LEMMA SweepKeeps == HeapIInv /\ Sweep => HeapIInv'
<1> SUFFICES ASSUME HeapIInv, Sweep PROVE HeapIInv'
  OBVIOUS
<1>1. /\ stage = "trace" /\ position > Len(worklist) /\ EndCollect
      /\ UNCHANGED <<roots, issued, held>>
      /\ occupied' = [i \in SlotIndexes |-> occupied[i] /\ i \in marked]
      /\ generation' = [i \in SlotIndexes |-> IF i \in Unmarked THEN NextGeneration(generation[i]) ELSE generation[i]]
      /\ values' = [i \in SlotIndexes |-> IF i \in Unmarked THEN <<>> ELSE values[i]]
  BY DEF Sweep
<1>2. \A g \in Generations : NextGeneration(g) \in Generations /\ (NextGeneration(g) = 0 \/ NextGeneration(g) = g + 1)
  BY CollectorAssumption DEF NextGeneration, Generations
<1>3. \A i \in SlotIndexes : generation[i] \in Generations /\ generation[i] \in Int
  BY CollectorAssumption DEF HeapIInv, CollectorTypeOK, Generations
<1>4. CollectorTypeOK'
  <2>1. occupied' \in [SlotIndexes -> BOOLEAN]
    BY <1>1 DEF HeapIInv, CollectorTypeOK
  <2>2. generation' \in [SlotIndexes -> Generations]
    BY <1>1, <1>2, <1>3
  <2>3. values' \in [SlotIndexes -> Seq(AnyHandle)]
    BY <1>1 DEF HeapIInv, CollectorTypeOK
  <2>4. /\ stage' = "idle" /\ position' = 1 /\ edge' = 1
        /\ marked' = {} /\ worklist' = <<>> /\ valid' = TRUE
    BY <1>1 DEF EndCollect
  <2>5. /\ roots' \in [SlotIndexes -> Handles \cup {None}] /\ issued' \in SUBSET Handles
        /\ stage' \in {"idle", "roots", "trace"} /\ position' \in Nat \ {0} /\ edge' \in Nat \ {0}
        /\ marked' \in SUBSET SlotIndexes /\ worklist' \in Seq(SlotIndexes) /\ valid' \in BOOLEAN
    BY <1>1, <2>4 DEF HeapIInv, CollectorTypeOK
  <2> QED BY <2>1, <2>2, <2>3, <2>5 DEF CollectorTypeOK
<1>5. HandlesPass'
  <2>1. \A h \in issued' : Passed(h)'
    <3> SUFFICES ASSUME NEW h \in issued PROVE Passed(h)'
      BY <1>1
    <3>1. h \in Handles /\ Passed(h)
      BY DEF HeapIInv, CollectorTypeOK, HandlesPass
    <3>2. h.index \in SlotIndexes /\ h.generation \in Int
      BY <3>1, CollectorAssumption DEF Handles, Generations
    <3>3. CASE h.index \in Unmarked
      <4>1. generation'[h.index] = 0 \/ generation'[h.index] = generation[h.index] + 1
        BY <1>1, <1>2, <1>3, <3>2, <3>3
      <4>2. generation[h.index] = 0 \/ h.generation <= generation[h.index]
        BY <1>3, <3>1, <3>2 DEF Passed
      <4>3. generation[h.index] # 0
        BY <3>3 DEF Unmarked, HeapIInv, HandlesPass
      <4> QED BY <1>3, <3>2, <4>1, <4>2, <4>3 DEF Passed
    <3>4. CASE h.index \notin Unmarked
      BY <1>1, <1>3, <3>1, <3>2, <3>4 DEF Passed, Unmarked
    <3> QED BY <3>3, <3>4
  <2>2. \A i \in SlotIndexes : occupied'[i] => generation'[i] > 0 /\ HandleAt(i)' \in issued'
    <3> SUFFICES ASSUME NEW i \in SlotIndexes, occupied'[i] PROVE generation'[i] > 0 /\ HandleAt(i)' \in issued'
      OBVIOUS
    <3>1. occupied[i] /\ i \in marked
      BY <1>1
    <3>2. generation'[i] = generation[i]
      BY <1>1, <3>1 DEF Unmarked
    <3> QED BY <1>1, <3>1, <3>2 DEF HeapIInv, HandlesPass, HandleAt
  <2> QED BY <2>1, <2>2 DEF HandlesPass
<1>6. RootsHeld'
  <2>1. RootsMarked(SlotCount + 1)
    BY <1>1 DEF HeapIInv, TraceProgress
  <2>2. \A r \in SlotIndexes : roots'[r] # None => ValidHandle(roots[r])'
    <3> SUFFICES ASSUME NEW r \in SlotIndexes, roots[r] # None PROVE ValidHandle(roots[r])'
      BY <1>1
    <3>1. ValidHandle(roots[r])
      BY DEF HeapIInv, RootsHeld
    <3>2. r < SlotCount + 1
      BY CollectorAssumption DEF SlotIndexes
    <3>3. roots[r].index \in marked
      BY <2>1, <3>2 DEF RootsMarked
    <3> QED BY <1>1, <3>1, <3>3 DEF ValidHandle, Unmarked
  <2>3. held' = [r \in {s \in SlotIndexes : roots'[s] # None} |-> roots'[r]]
    BY <1>1 DEF HeapIInv, RootsHeld
  <2> QED BY <2>2, <2>3 DEF RootsHeld
<1> QED BY <1>1, <1>4, <1>5, <1>6, EndForgets DEF HeapIInv

\* In every reachable state, between collections and in the midst of one, the root table is
\* what clients registered, and the marks are on objects that can be reached.
THEOREM CollectorInvariant == CollectorSpec => []HeapIInv
<1>1. CollectorInit => HeapIInv
  BY HeapInitIInv
<1>2. HeapIInv /\ [CollectorNext]_collectorVars => HeapIInv'
  <2> SUFFICES ASSUME HeapIInv, [CollectorNext]_collectorVars PROVE HeapIInv'
    OBVIOUS
  <2>1. CASE \E value \in Contents(Known) : AllocateObject(value) \/ \E h \in issued : BorrowMutable(h, value)
    BY <2>1, AllocateKeeps, BorrowKeeps
  <2>2. CASE \E h \in issued : RegisterRoot(h)
    BY <2>2, RegisterKeeps
  <2>3. CASE \E root \in SlotIndexes : UnregisterRoot(root)
    BY <2>3, UnregisterKeeps
  <2>4. CASE BeginCollect
    BY <2>4, BeginKeeps
  <2>5. CASE VisitRoot
    BY <2>5, VisitRootKeeps
  <2>6. CASE BeginTrace
    BY <2>6, BeginTraceKeeps
  <2>7. CASE TraceReference
    BY <2>7, TraceReferenceKeeps
  <2>8. CASE NextObject
    BY <2>8, NextObjectKeeps
  <2>9. CASE Refuse
    BY <2>9, RefuseKeeps
  <2>10. CASE Sweep
    BY <2>10, SweepKeeps
  <2>11. CASE UNCHANGED collectorVars
    <3>1. UNCHANGED <<state, issued, held>> /\ UNCHANGED visitor
      BY <2>11 DEF collectorVars, state, visitor
    <3>2. HandlesPass' /\ RootsHeld'
      BY <3>1, HeapUntouched
    <3>3. Heap!Reachable' = Heap!Reachable
      BY <3>1, QuietReachable
    <3>4. MarkedReached'
      BY <3>1, <3>3 DEF HeapIInv, MarkedReached, HandleAt, state, visitor
    <3>5. CollectorTypeOK'
      BY <3>1 DEF HeapIInv, CollectorTypeOK, state, visitor
    <3>6. TraceProgress'
      BY <3>1 DEF HeapIInv, TraceProgress, RootsMarked, ObjectMarked, Visited, ValidHandle, state, visitor
    <3> QED BY <3>2, <3>4, <3>5, <3>6 DEF HeapIInv
  <2> QED BY <2>1, <2>2, <2>3, <2>4, <2>5, <2>6, <2>7, <2>8, <2>9, <2>10, <2>11 DEF CollectorNext
<1> QED BY <1>1, <1>2, PTL DEF CollectorSpec

-----------------------------------------------------------------------------
(* Every step is one of the abstract heap, or none *)

LEMMA InitRefines == CollectorInit => Heap!Init
<1> SUFFICES ASSUME CollectorInit PROVE Heap!Init
  OBVIOUS
<1>1. Live = {}
  BY DEF CollectorInit, Live, ValidHandle
<1>2. [h \in Live |-> ReferencesOf(values[h.index])] = [o \in {} |-> {}]
  BY <1>1
<1>3. held = [t \in {} |-> {}]
  BY DEF CollectorInit
<1> QED BY <1>1, <1>2, <1>3 DEF CollectorInit, Heap!Init

\* The handle of a free slot was never given out, and only its object is new.
LEMMA AllocateRefines ==
  ASSUME HeapIInv, NEW value \in Contents(Known), AllocateObject(value)
  PROVE  \E o \in Handles : Heap!Allocate(o)
<1>1. PICK index \in SlotIndexes :
        /\ ~occupied[index] /\ generation[index] > 0
        /\ occupied' = [occupied EXCEPT ![index] = TRUE]
        /\ values' = [values EXCEPT ![index] = value]
        /\ issued' = issued \cup {HandleAt(index)}
  BY DEF AllocateObject, IsFirst
<1>2. UNCHANGED <<generation, roots, held>> /\ answer' = "None"
  BY DEF AllocateObject
<1> DEFINE o == HandleAt(index)
<1>3. o \in Handles /\ o.index = index /\ o.generation = generation[index] /\ generation[index] \in Int
  BY <1>1, CollectorAssumption DEF HandleAt, Handle, Handles, HeapIInv, CollectorTypeOK, Generations
<1>4. o \notin issued
  BY <1>1, <1>3 DEF HeapIInv, HandlesPass, Passed
<1>5. occupied'[index] /\ \A i \in SlotIndexes : i # index => occupied'[i] = occupied[i] /\ values'[i] = values[i]
  BY <1>1 DEF HeapIInv, CollectorTypeOK
<1>6. \A h \in Handles : h.index = index /\ h.generation = generation[index] => h = o
  BY <1>3 DEF Handles, HandleAt, Handle
<1>7. Live' = Live \cup {o}
  <2>1. \A h \in Handles : ValidHandle(h)' <=> ValidHandle(h) \/ h = o
    <3> SUFFICES ASSUME NEW h \in Handles PROVE ValidHandle(h)' <=> ValidHandle(h) \/ h = o
      OBVIOUS
    <3>1. h.index \in SlotIndexes /\ h.domain = Domain
      BY DEF Handles
    <3>2. CASE h.index = index
      BY <1>1, <1>2, <1>3, <1>5, <1>6, <3>1, <3>2 DEF ValidHandle
    <3>3. CASE h.index # index
      BY <1>2, <1>3, <1>5, <3>1, <3>3 DEF ValidHandle
    <3> QED BY <3>2, <3>3
  <2> QED BY <1>3, <2>1 DEF Live
<1>8. \A x \in Live \ {o} : ReferencesOf(values'[x.index]) = ReferencesOf(values[x.index])
  BY <1>1, <1>5 DEF Live, ValidHandle
<1>9. Heap!Write(o)
  BY <1>7, <1>8 DEF Heap!Write, ReferencesOf
<1> QED BY <1>1, <1>2, <1>3, <1>4, <1>7, <1>9 DEF Heap!Allocate

LEMMA BorrowRefines ==
  ASSUME HeapIInv, NEW value \in Contents(Known), NEW h \in issued, BorrowMutable(h, value)
  PROVE  h \in Handles /\ Heap!Edit(h)
<1>1. /\ UNCHANGED <<occupied, generation, roots, issued, held>> /\ ValidHandle(h)
      /\ values' = [values EXCEPT ![h.index] = value] /\ answer' = "None"
  BY DEF BorrowMutable
<1>2. h \in Handles /\ h \in Live
  BY <1>1 DEF HeapIInv, CollectorTypeOK, Live
<1>3. Live' = Live
  BY <1>1 DEF Live, ValidHandle
<1>4. \A x \in Live \ {h} : values'[x.index] = values[x.index]
  BY <1>1, <1>2 DEF HeapIInv, CollectorTypeOK, Live, ValidHandle, Handles
<1>5. Heap!Write(h)
  BY <1>3, <1>4 DEF Heap!Write, ReferencesOf
<1> QED BY <1>1, <1>2, <1>3, <1>5 DEF Heap!Edit

\* The live objects and what they refer to, if the heap is as it was.
LEMMA QuietEdges ==
  UNCHANGED state => UNCHANGED <<Live, [x \in Live |-> ReferencesOf(values[x.index])]>>
<1> SUFFICES ASSUME UNCHANGED state
             PROVE  UNCHANGED <<Live, [x \in Live |-> ReferencesOf(values[x.index])]>>
  OBVIOUS
<1>1. Live' = Live
  BY DEF state, Live, ValidHandle
<1> QED BY <1>1 DEF state, ReferencesOf

LEMMA RegisterRefines ==
  ASSUME HeapIInv, NEW h \in issued, RegisterRoot(h)
  PROVE  \E root \in SlotIndexes : h \in Handles /\ Heap!Register(root, h)
<1>1. PICK root \in SlotIndexes :
        /\ roots[root] = None
        /\ held' = [t \in (DOMAIN held) \cup {root} |-> IF t = root THEN h ELSE held[t]]
  BY DEF RegisterRoot, IsFirst
<1>2. ValidHandle(h) /\ answer' = "None" /\ UNCHANGED <<occupied, generation, values, issued>>
  BY DEF RegisterRoot
<1>3. h \in Handles /\ h \in Live
  BY <1>2 DEF HeapIInv, CollectorTypeOK, Live
<1>4. root \notin DOMAIN held
  BY <1>1 DEF HeapIInv, RootsHeld
<1>5. Live' = Live
  BY <1>2 DEF Live, ValidHandle
<1>6. UNCHANGED [x \in Live |-> ReferencesOf(values[x.index])]
  BY <1>2, <1>5 DEF ReferencesOf
<1> QED BY <1>1, <1>2, <1>3, <1>4, <1>5, <1>6 DEF Heap!Register, Heap!With

LEMMA UnregisterRefines ==
  ASSUME NEW root \in SlotIndexes, UnregisterRoot(root)
  PROVE  Heap!Unregister(root)
<1>1. /\ root \in DOMAIN held /\ held' = [t \in (DOMAIN held) \ {root} |-> held[t]]
      /\ answer' = "None" /\ UNCHANGED <<occupied, generation, values, issued>>
  BY DEF UnregisterRoot
<1>2. Live' = Live
  BY <1>1 DEF Live, ValidHandle
<1>3. UNCHANGED [x \in Live |-> ReferencesOf(values[x.index])]
  BY <1>1, <1>2 DEF ReferencesOf
<1> QED BY <1>1, <1>2, <1>3 DEF Heap!Unregister, Heap!Without

\* A refusal is for an object that must be kept and refers to one that is gone.
LEMMA RefuseRefines ==
  ASSUME HeapIInv, Refuse
  PROVE  Heap!Collect
<1>1. /\ RootsVisited \/ ObjectVisited
      /\ ~valid /\ answer' = "InvalidHandle" /\ UNCHANGED <<state, issued, held>>
  BY DEF Refuse
<1>2. stage = "trace" /\ position <= Len(worklist)
  BY <1>1 DEF RootsVisited, ObjectVisited, HeapIInv, TraceProgress
<1>3. PICK e \in 1 .. Len(values[worklist[position]]) : ~ValidHandle(values[worklist[position]][e])
  BY <1>1, <1>2 DEF HeapIInv, TraceProgress
<1>4. position \in 1 .. Len(worklist)
  BY <1>2 DEF HeapIInv, CollectorTypeOK
<1> DEFINE o == HandleAt(worklist[position])
<1>5. o \in Heap!Reachable /\ o.index = worklist[position]
  BY <1>4 DEF HeapIInv, MarkedReached, HandleAt, Handle
<1>6. o \in Live
  BY <1>5 DEF Heap!Reachable
<1>7. values[o.index][e] \in ReferencesOf(values[o.index]) \ Live
  BY <1>3, <1>5, <1>6, EdgesOf DEF HeapIInv, Live
<1>8. ~Heap!Sound
  BY <1>5, <1>6, <1>7 DEF Heap!Sound
<1> QED BY <1>1, <1>8, QuietEdges DEF Heap!Collect

\* When the worklist is used up, what is marked is closed under references.
LEMMA MarkedAreReachable ==
  ASSUME HeapIInv, stage = "trace", position > Len(worklist)
  PROVE  /\ Heap!Reachable = {h \in Live : h.index \in marked}
         /\ Heap!Sound
<1> DEFINE M == {h \in Live : h.index \in marked}
<1>1. M \subseteq Heap!Reachable
  BY EdgesOf DEF HeapIInv, MarkedReached
<1>2. \A h \in M : \A k \in ReferencesOf(values[h.index]) : k \in M
  <2> SUFFICES ASSUME NEW h \in M, NEW k \in ReferencesOf(values[h.index]) PROVE k \in M
    OBVIOUS
  <2>1. h.index \in marked /\ h.index \in SlotIndexes /\ h \in Live
    BY EdgesOf DEF HeapIInv
  <2>2. PICK n \in 1 .. Len(worklist) : worklist[n] = h.index
    BY <2>1 DEF HeapIInv, MarkedReached
  <2>3. ObjectMarked(h.index, Len(values[h.index]) + 1)
    <3>1. Len(worklist) \in Nat /\ position \in Nat
      BY DEF HeapIInv, CollectorTypeOK
    <3>2. n < position
      BY <3>1
    <3> QED BY <2>2, <3>2 DEF HeapIInv, TraceProgress
  <2>4. PICK e \in 1 .. Len(values[h.index]) : k = values[h.index][e]
    BY <2>1, EdgesOf DEF HeapIInv
  <2>5. values[h.index] \in Seq(AnyHandle) /\ Len(values[h.index]) \in Nat
    BY <2>1 DEF HeapIInv, CollectorTypeOK
  <2>6. k \in AnyHandle /\ Visited(k)
    BY <2>3, <2>4, <2>5 DEF ObjectMarked
  <2>7. k \in Handles
    BY <2>6 DEF AnyHandle, Visited, ValidHandle, Foreign, Domain
  <2> QED BY <2>6, <2>7 DEF Visited, Live
<1>3. Heap!Rooted \subseteq M
  <2> SUFFICES ASSUME NEW h \in Heap!Rooted PROVE h \in M
    OBVIOUS
  <2>1. PICK r \in SlotIndexes : roots[r] # None /\ roots[r] = h
    BY RootedAreRoots DEF HeapIInv
  <2>2. RootsMarked(SlotCount + 1) /\ r < SlotCount + 1
    BY CollectorAssumption DEF HeapIInv, TraceProgress, SlotIndexes
  <2>3. h \in Live
    BY <2>1, RootsReachable DEF HeapIInv
  <2> QED BY <2>1, <2>2, <2>3 DEF RootsMarked
<1>4. Heap!Reachable \subseteq M
  BY <1>2, <1>3, ReachableLeast
<1>5. Heap!Sound
  BY <1>1, <1>2, <1>4 DEF Heap!Sound
<1> QED BY <1>1, <1>4, <1>5

LEMMA SweepRefines ==
  ASSUME HeapIInv, Sweep
  PROVE  Heap!Collect
<1>1. /\ stage = "trace" /\ position > Len(worklist)
      /\ UNCHANGED <<roots, issued, held>> /\ answer' = "Collected"
      /\ occupied' = [i \in SlotIndexes |-> occupied[i] /\ i \in marked]
      /\ generation' = [i \in SlotIndexes |-> IF i \in Unmarked THEN NextGeneration(generation[i]) ELSE generation[i]]
      /\ values' = [i \in SlotIndexes |-> IF i \in Unmarked THEN <<>> ELSE values[i]]
  BY DEF Sweep
<1>2. Heap!Reachable = {h \in Live : h.index \in marked} /\ Heap!Sound
  BY <1>1, MarkedAreReachable
<1>3. Live' = Heap!Reachable
  <2>1. \A h \in Handles : ValidHandle(h)' <=> ValidHandle(h) /\ h.index \in marked
    BY <1>1 DEF ValidHandle, Unmarked, HeapIInv, CollectorTypeOK
  <2> QED BY <1>2, <2>1 DEF Live
<1>4. \A h \in Live' : values'[h.index] = values[h.index]
  BY <1>1, <1>2, <1>3 DEF Unmarked, Live, ValidHandle
<1>5. Live \ (Live \ Heap!Reachable) = Heap!Reachable
  BY <1>2
<1>6. [h \in Live |-> ReferencesOf(values[h.index])]'
        = [h \in Heap!Reachable |-> [x \in Live |-> ReferencesOf(values[x.index])][h]]
  BY <1>2, <1>3, <1>4 DEF ReferencesOf
<1> QED BY <1>1, <1>2, <1>3, <1>5, <1>6 DEF Heap!Collect, Heap!Without

\* Every execution of the collector is one of the heap of ObjectHeap: handles are never given
\* out twice, and a collection keeps exactly what the registered handles lead to or, when such
\* an object refers to one that is gone, keeps everything and says so.
THEOREM CollectorImplementsHeap == CollectorSpec => ImplementsHeap
<1>1. CollectorInit => Heap!Init
  BY InitRefines
<1>2. HeapIInv /\ [CollectorNext]_collectorVars => [Heap!Next]_(Heap!vars)
  <2> SUFFICES ASSUME HeapIInv, [CollectorNext]_collectorVars PROVE Heap!Next \/ UNCHANGED Heap!vars
    OBVIOUS
  <2>1. CASE \E value \in Contents(Known) : AllocateObject(value) \/ \E h \in issued : BorrowMutable(h, value)
    BY <2>1, AllocateRefines, BorrowRefines DEF Heap!Next
  <2>2. CASE \E h \in issued : RegisterRoot(h)
    BY <2>2, RegisterRefines DEF Heap!Next
  <2>3. CASE \E root \in SlotIndexes : UnregisterRoot(root)
    BY <2>3, UnregisterRefines DEF Heap!Next
  <2>4. CASE BeginCollect \/ VisitRoot \/ BeginTrace \/ TraceReference \/ NextObject \/ UNCHANGED collectorVars
    <3>1. UNCHANGED <<state, issued, held, answer>>
      BY <2>4 DEF BeginCollect, VisitRoot, BeginTrace, TraceReference, NextObject, collectorVars, state
    <3> QED BY <3>1, QuietEdges DEF Heap!vars
  <2>5. CASE Refuse
    BY <2>5, RefuseRefines DEF Heap!Next
  <2>6. CASE Sweep
    BY <2>6, SweepRefines DEF Heap!Next
  <2> QED BY <2>1, <2>2, <2>3, <2>4, <2>5, <2>6 DEF CollectorNext
<1>3. CollectorSpec => []HeapIInv
  BY CollectorInvariant
<1> QED BY <1>1, <1>2, <1>3, PTL DEF CollectorSpec, ImplementsHeap, Heap!Spec

-----------------------------------------------------------------------------
(* The agent: induction over the naturals, and what a fold over a prefix is *)

\* A set of numbers with 0 and the successor of each member holds all the naturals.
LEMMA NaturalsByInduction ==
  ASSUME NEW S, 0 \in S, \A n \in Nat : n \in S => n + 1 \in S
  PROVE  \A n \in Nat : n \in S
<1> DEFINE T == {n \in Nat : n \notin S}
<1> SUFFICES ASSUME T # {} PROVE FALSE
  OBVIOUS
<1>1. PICK x \in T : \A y \in T : ~(<<y, x>> \in OpToRel(<, Nat))
  BY NatLessThanWellFounded, WFMin
<1>2. x # 0 /\ x - 1 \in Nat /\ x - 1 < x
  OBVIOUS
<1>3. x - 1 \notin T
  BY <1>1, <1>2 DEF OpToRel
<1>4. QED
  BY <1>2, <1>3

LEMMA MaxIsLargest ==
  ASSUME NEW n \in Nat, NEW t \in SUBSET (1 .. n + 1), n + 1 \in t
  PROVE  Max(t) = n + 1
<1>1. \A y \in t : n + 1 >= y
  OBVIOUS
<1>2. \A x \in t : (\A y \in t : x >= y) => x = n + 1
  OBVIOUS
<1>3. QED
  BY <1>1, <1>2 DEF Max

\* What FoldLeft iterates over the first n elements of s.
StoreFold(f, s, n) ==
  f = [t \in SUBSET (1 .. n) |-> IF t = {} THEN InitialStores ELSE Effect(f[t \ {Max(t)}], s[Max(t)])]

LEMMA StoreFoldExists ==
  ASSUME NEW s
  PROVE  \A n \in Nat : \E f : StoreFold(f, s, n)
<1> DEFINE S == {n \in Nat : \E f : StoreFold(f, s, n)}
<1>1. 0 \in S
  <2> DEFINE f == [t \in SUBSET (1 .. 0) |-> InitialStores]
  <2>1. StoreFold(f, s, 0)
    BY DEF StoreFold
  <2>2. QED
    BY <2>1
<1>2. ASSUME NEW n \in Nat, n \in S PROVE n + 1 \in S
  <2>1. PICK f : StoreFold(f, s, n)
    BY <1>2
  <2> DEFINE g == [t \in SUBSET (1 .. n + 1) |-> IF n + 1 \in t THEN Effect(f[t \ {n + 1}], s[n + 1]) ELSE f[t]]
  <2>2. ASSUME NEW t \in SUBSET (1 .. n + 1)
        PROVE  g[t] = IF t = {} THEN InitialStores ELSE Effect(g[t \ {Max(t)}], s[Max(t)])
    <3>1. CASE n + 1 \in t
      <4>1. Max(t) = n + 1
        BY <3>1, MaxIsLargest
      <4>2. t \ {n + 1} \in SUBSET (1 .. n + 1) /\ n + 1 \notin t \ {n + 1}
        OBVIOUS
      <4>3. g[t \ {n + 1}] = f[t \ {n + 1}]
        BY <4>2
      <4>4. QED
        BY <3>1, <4>1, <4>3
    <3>2. CASE n + 1 \notin t
      <4>1. t \in SUBSET (1 .. n)
        BY <3>2
      <4>2. f[t] = IF t = {} THEN InitialStores ELSE Effect(f[t \ {Max(t)}], s[Max(t)])
        BY <2>1, <4>1 DEF StoreFold
      <4>3. t \ {Max(t)} \in SUBSET (1 .. n + 1) /\ n + 1 \notin t \ {Max(t)}
        BY <3>2
      <4>4. QED
        BY <3>2, <4>2, <4>3
    <3>3. QED
      BY <3>1, <3>2
  <2>3. StoreFold(g, s, n + 1)
    BY <2>2 DEF StoreFold
  <2>4. QED
    BY <2>3
<1> HIDE DEF S
<1>3. \A n \in Nat : n \in S
  BY <1>1, <1>2, NaturalsByInduction
<1>4. QED
  BY <1>3 DEF S

LEMMA StoresFolded ==
  ASSUME NEW s, NEW n \in Nat, DOMAIN s = 1 .. n
  PROVE \E f : StoreFold(f, s, n) /\ FoldLeft(Effect, InitialStores, s) = f[1 .. n]
<1> DEFINE F == CHOOSE f : StoreFold(f, s, n)
<1>1. StoreFold(F, s, n)
  BY StoreFoldExists
<1>2. FoldLeft(Effect, InitialStores, s) = F[1 .. n]
  BY DEF FoldLeft, MapThenFoldSet, StoreFold
<1>3. QED BY <1>1, <1>2

\* Folds over sequences that agree up to m agree on the sets of their first elements.
LEMMA StoreFoldPrefix ==
  ASSUME NEW s, NEW z, NEW n \in Nat, NEW m \in Nat, n <= m, \A i \in 1 .. n : s[i] = z[i],
         NEW f, StoreFold(f, s, n), NEW g, StoreFold(g, z, m)
  PROVE  f[1 .. n] = g[1 .. n]
<1> DEFINE S == {k \in Nat : k <= n => f[1 .. k] = g[1 .. k]}
<1>1. 0 \in S
  <2>1. {} \in SUBSET (1 .. n) /\ {} \in SUBSET (1 .. m)
    OBVIOUS
  <2>2. f[{}] = InitialStores /\ g[{}] = InitialStores
    BY <2>1 DEF StoreFold
  <2>3. 1 .. 0 = {}
    OBVIOUS
  <2>4. QED
    BY <2>2, <2>3
<1>2. ASSUME NEW k \in Nat, k \in S PROVE k + 1 \in S
  <2> SUFFICES ASSUME k + 1 <= n PROVE f[1 .. k + 1] = g[1 .. k + 1]
    OBVIOUS
  <2>1. Max(1 .. k + 1) = k + 1
    BY MaxIsLargest, k + 1 \in 1 .. k + 1
  <2>a. (1 .. k + 1) \ {k + 1} = 1 .. k /\ 1 .. k + 1 # {}
    OBVIOUS
  <2>2. 1 .. k + 1 \in SUBSET (1 .. n) /\ 1 .. k + 1 \in SUBSET (1 .. m)
    OBVIOUS
  <2>3. f[1 .. k + 1] = Effect(f[1 .. k], s[k + 1])
    <3>1. f[1 .. k + 1] = IF 1 .. k + 1 = {} THEN InitialStores
                          ELSE Effect(f[(1 .. k + 1) \ {Max(1 .. k + 1)}], s[Max(1 .. k + 1)])
      BY <2>2 DEF StoreFold
    <3>2. QED
      BY <2>1, <2>a, <3>1
  <2>4. g[1 .. k + 1] = Effect(g[1 .. k], z[k + 1])
    <3>1. g[1 .. k + 1] = IF 1 .. k + 1 = {} THEN InitialStores
                          ELSE Effect(g[(1 .. k + 1) \ {Max(1 .. k + 1)}], z[Max(1 .. k + 1)])
      BY <2>2 DEF StoreFold
    <3>2. QED
      BY <2>1, <2>a, <3>1
  <2>5. QED
    BY <1>2, <2>3, <2>4
<1> HIDE DEF S
<1>3. \A k \in Nat : k \in S
  BY <1>1, <1>2, NaturalsByInduction
<1>4. QED
  BY <1>3 DEF S
\* One more element: FoldLeft applies the operator to what it had.
LEMMA StoreFoldExtends ==
  ASSUME NEW n \in Nat, NEW s, DOMAIN s = 1 .. n, NEW z, DOMAIN z = 1 .. n + 1, \A i \in 1 .. n : s[i] = z[i]
  PROVE  FoldLeft(Effect, InitialStores, z) = Effect(FoldLeft(Effect, InitialStores, s), z[n + 1])
<1>1. PICK f : StoreFold(f, s, n) /\ FoldLeft(Effect, InitialStores, s) = f[1 .. n]
  BY StoresFolded
<1>2. PICK g : StoreFold(g, z, n + 1) /\ FoldLeft(Effect, InitialStores, z) = g[1 .. n + 1]
  BY StoresFolded, n + 1 \in Nat
<1>3. f[1 .. n] = g[1 .. n]
  <2>1. StoreFold(f, s, n) /\ StoreFold(g, z, n + 1) /\ n + 1 \in Nat /\ n <= n + 1
    BY <1>1, <1>2
  <2> HIDE <1>1, <1>2
  <2>2. QED
    BY <2>1, StoreFoldPrefix
<1>4. g[1 .. n + 1] = IF 1 .. n + 1 = {} THEN InitialStores
                      ELSE Effect(g[(1 .. n + 1) \ {Max(1 .. n + 1)}], z[Max(1 .. n + 1)])
  BY <1>2, 1 .. n + 1 \in SUBSET (1 .. n + 1) DEF StoreFold
<1>5. Max(1 .. n + 1) = n + 1
  BY MaxIsLargest, n + 1 \in 1 .. n + 1
<1>6. (1 .. n + 1) \ {n + 1} = 1 .. n /\ 1 .. n + 1 # {}
  OBVIOUS
<1>7. QED
  BY <1>1, <1>2, <1>3, <1>4, <1>5, <1>6

LEMMA StoreFoldEmpty == FoldLeft(Effect, InitialStores, <<>>) = InitialStores
<1>1. PICK f : StoreFold(f, <<>>, 0) /\ FoldLeft(Effect, InitialStores, <<>>) = f[1 .. 0]
  BY StoresFolded, DOMAIN <<>> = 1 .. 0
<1>2. 1 .. 0 = {} /\ {} \in SUBSET (1 .. 0)
  OBVIOUS
<1>3. QED
  BY <1>1, <1>2 DEF StoreFold

\* What FoldLeft iterates over the first n elements of s.
FrameFold(f, s, n) ==
  f = [t \in SUBSET (1 .. n) |-> IF t = {} THEN <<Start>> ELSE Retold(f[t \ {Max(t)}], s[Max(t)])]

LEMMA FrameFoldExists ==
  ASSUME NEW s
  PROVE  \A n \in Nat : \E f : FrameFold(f, s, n)
<1> DEFINE S == {n \in Nat : \E f : FrameFold(f, s, n)}
<1>1. 0 \in S
  <2> DEFINE f == [t \in SUBSET (1 .. 0) |-> <<Start>>]
  <2>1. FrameFold(f, s, 0)
    BY DEF FrameFold
  <2>2. QED
    BY <2>1
<1>2. ASSUME NEW n \in Nat, n \in S PROVE n + 1 \in S
  <2>1. PICK f : FrameFold(f, s, n)
    BY <1>2
  <2> DEFINE g == [t \in SUBSET (1 .. n + 1) |-> IF n + 1 \in t THEN Retold(f[t \ {n + 1}], s[n + 1]) ELSE f[t]]
  <2>2. ASSUME NEW t \in SUBSET (1 .. n + 1)
        PROVE  g[t] = IF t = {} THEN <<Start>> ELSE Retold(g[t \ {Max(t)}], s[Max(t)])
    <3>1. CASE n + 1 \in t
      <4>1. Max(t) = n + 1
        BY <3>1, MaxIsLargest
      <4>2. t \ {n + 1} \in SUBSET (1 .. n + 1) /\ n + 1 \notin t \ {n + 1}
        OBVIOUS
      <4>3. g[t \ {n + 1}] = f[t \ {n + 1}]
        BY <4>2
      <4>4. QED
        BY <3>1, <4>1, <4>3
    <3>2. CASE n + 1 \notin t
      <4>1. t \in SUBSET (1 .. n)
        BY <3>2
      <4>2. f[t] = IF t = {} THEN <<Start>> ELSE Retold(f[t \ {Max(t)}], s[Max(t)])
        BY <2>1, <4>1 DEF FrameFold
      <4>3. t \ {Max(t)} \in SUBSET (1 .. n + 1) /\ n + 1 \notin t \ {Max(t)}
        BY <3>2
      <4>4. QED
        BY <3>2, <4>2, <4>3
    <3>3. QED
      BY <3>1, <3>2
  <2>3. FrameFold(g, s, n + 1)
    BY <2>2 DEF FrameFold
  <2>4. QED
    BY <2>3
<1> HIDE DEF S
<1>3. \A n \in Nat : n \in S
  BY <1>1, <1>2, NaturalsByInduction
<1>4. QED
  BY <1>3 DEF S

LEMMA FramesFolded ==
  ASSUME NEW s, NEW n \in Nat, DOMAIN s = 1 .. n
  PROVE \E f : FrameFold(f, s, n) /\ FoldLeft(Retold, <<Start>>, s) = f[1 .. n]
<1> DEFINE F == CHOOSE f : FrameFold(f, s, n)
<1>1. FrameFold(F, s, n)
  BY FrameFoldExists
<1>2. FoldLeft(Retold, <<Start>>, s) = F[1 .. n]
  BY DEF FoldLeft, MapThenFoldSet, FrameFold
<1>3. QED BY <1>1, <1>2

\* Folds over sequences that agree up to m agree on the sets of their first elements.
LEMMA FrameFoldPrefix ==
  ASSUME NEW s, NEW z, NEW n \in Nat, NEW m \in Nat, n <= m, \A i \in 1 .. n : s[i] = z[i],
         NEW f, FrameFold(f, s, n), NEW g, FrameFold(g, z, m)
  PROVE  f[1 .. n] = g[1 .. n]
<1> DEFINE S == {k \in Nat : k <= n => f[1 .. k] = g[1 .. k]}
<1>1. 0 \in S
  <2>1. {} \in SUBSET (1 .. n) /\ {} \in SUBSET (1 .. m)
    OBVIOUS
  <2>2. f[{}] = <<Start>> /\ g[{}] = <<Start>>
    BY <2>1 DEF FrameFold
  <2>3. 1 .. 0 = {}
    OBVIOUS
  <2>4. QED
    BY <2>2, <2>3
<1>2. ASSUME NEW k \in Nat, k \in S PROVE k + 1 \in S
  <2> SUFFICES ASSUME k + 1 <= n PROVE f[1 .. k + 1] = g[1 .. k + 1]
    OBVIOUS
  <2>1. Max(1 .. k + 1) = k + 1
    BY MaxIsLargest, k + 1 \in 1 .. k + 1
  <2>a. (1 .. k + 1) \ {k + 1} = 1 .. k /\ 1 .. k + 1 # {}
    OBVIOUS
  <2>2. 1 .. k + 1 \in SUBSET (1 .. n) /\ 1 .. k + 1 \in SUBSET (1 .. m)
    OBVIOUS
  <2>3. f[1 .. k + 1] = Retold(f[1 .. k], s[k + 1])
    <3>1. f[1 .. k + 1] = IF 1 .. k + 1 = {} THEN <<Start>>
                          ELSE Retold(f[(1 .. k + 1) \ {Max(1 .. k + 1)}], s[Max(1 .. k + 1)])
      BY <2>2 DEF FrameFold
    <3>2. QED
      BY <2>1, <2>a, <3>1
  <2>4. g[1 .. k + 1] = Retold(g[1 .. k], z[k + 1])
    <3>1. g[1 .. k + 1] = IF 1 .. k + 1 = {} THEN <<Start>>
                          ELSE Retold(g[(1 .. k + 1) \ {Max(1 .. k + 1)}], z[Max(1 .. k + 1)])
      BY <2>2 DEF FrameFold
    <3>2. QED
      BY <2>1, <2>a, <3>1
  <2>5. QED
    BY <1>2, <2>3, <2>4
<1> HIDE DEF S
<1>3. \A k \in Nat : k \in S
  BY <1>1, <1>2, NaturalsByInduction
<1>4. QED
  BY <1>3 DEF S
\* One more element: FoldLeft applies the operator to what it had.
LEMMA FrameFoldExtends ==
  ASSUME NEW n \in Nat, NEW s, DOMAIN s = 1 .. n, NEW z, DOMAIN z = 1 .. n + 1, \A i \in 1 .. n : s[i] = z[i]
  PROVE  FoldLeft(Retold, <<Start>>, z) = Retold(FoldLeft(Retold, <<Start>>, s), z[n + 1])
<1>1. PICK f : FrameFold(f, s, n) /\ FoldLeft(Retold, <<Start>>, s) = f[1 .. n]
  BY FramesFolded
<1>2. PICK g : FrameFold(g, z, n + 1) /\ FoldLeft(Retold, <<Start>>, z) = g[1 .. n + 1]
  BY FramesFolded, n + 1 \in Nat
<1>3. f[1 .. n] = g[1 .. n]
  <2>1. FrameFold(f, s, n) /\ FrameFold(g, z, n + 1) /\ n + 1 \in Nat /\ n <= n + 1
    BY <1>1, <1>2
  <2> HIDE <1>1, <1>2
  <2>2. QED
    BY <2>1, FrameFoldPrefix
<1>4. g[1 .. n + 1] = IF 1 .. n + 1 = {} THEN <<Start>>
                      ELSE Retold(g[(1 .. n + 1) \ {Max(1 .. n + 1)}], z[Max(1 .. n + 1)])
  BY <1>2, 1 .. n + 1 \in SUBSET (1 .. n + 1) DEF FrameFold
<1>5. Max(1 .. n + 1) = n + 1
  BY MaxIsLargest, n + 1 \in 1 .. n + 1
<1>6. (1 .. n + 1) \ {n + 1} = 1 .. n /\ 1 .. n + 1 # {}
  OBVIOUS
<1>7. QED
  BY <1>1, <1>2, <1>3, <1>4, <1>5, <1>6

LEMMA FrameFoldEmpty == FoldLeft(Retold, <<Start>>, <<>>) = <<Start>>
<1>1. PICK f : FrameFold(f, <<>>, 0) /\ FoldLeft(Retold, <<Start>>, <<>>) = f[1 .. 0]
  BY FramesFolded, DOMAIN <<>> = 1 .. 0
<1>2. 1 .. 0 = {} /\ {} \in SUBSET (1 .. 0)
  OBVIOUS
<1>3. QED
  BY <1>1, <1>2 DEF FrameFold


-----------------------------------------------------------------------------
(* The invariant *)

Entries == [kind : {"Step", "Yield", "Transition", "Push", "Pop", "Completion", "Failure", "ReplayInput",
                    "EventEnqueue", "ActuationComplete"}, from : States, to : States]
MindStatuses == {"Idle", "Running", "WaitingActuation", "Succeeded", "Failed"}

MindOK(m, t) ==
  /\ m \in [frames : Seq(States), status : MindStatuses]
  /\ Len(m.frames) \in 1 .. FrameCapacity
  /\ t \in Seq(Entries) /\ Len(t) <= TraceCapacity

AgentTypeOK ==
  /\ MindOK(mind, trace)
  /\ log \in Seq(Inputs)
  /\ cursor \in 0 .. Len(log)
  /\ applying \in BOOLEAN

Told(t) == FoldLeft(Retold, <<Start>>, t)

\* StoresFollowLog and FramesFollowTrace of any context.
StoresOf(l, n) == FoldLeft(Effect, InitialStores, SubSeq(l, 1, n))
StoresFollow(l, s, t, c) == \E n \in c .. Len(l) : s = StoresOf(l, n) /\ (n # c => n = c + 1 /\ Full(t))
FramesFollow(m, t) ==
  \/ m.frames = Told(t)
  \/ Full(t) /\ \E signal \in Signals : m.frames = Moved(Told(t), signal)

\* What a checkpoint holds could be the context now.
SavedFollow ==
  \A saved \in checkpoint :
    /\ MindOK(saved.context[1], saved.context[2])
    /\ saved.replayCursor \in 0 .. Len(log)
    /\ StoresFollow(log, saved.context[3], saved.context[2], saved.replayCursor)
    /\ FramesFollow(saved.context[1], saved.context[2])

AgentIInv == AgentTypeOK /\ StoresFollow(log, stores, trace, cursor) /\ FramesFollow(mind, trace) /\ SavedFollow

LEMMA AgentInitIInv == AgentInit => AgentIInv
<1> SUFFICES ASSUME AgentInit PROVE AgentIInv
  OBVIOUS
<1> USE AgentAssumption
<1>1. AgentTypeOK
  <2>1. <<Start>> \in Seq(States) /\ Len(<<Start>>) = 1 /\ <<>> \in Seq(Entries) /\ <<>> \in Seq(Inputs) /\ Len(<<>>) = 0
    OBVIOUS
  <2>2. mind.frames = <<Start>> /\ mind \in [frames : Seq(States), status : MindStatuses]
    BY <2>1 DEF AgentInit, MindStatuses
  <2>3. MindOK(mind, trace)
    BY <2>1, <2>2 DEF AgentInit, MindOK
  <2>4. log \in Seq(Inputs) /\ Len(log) = 0 /\ cursor = 0 /\ applying \in BOOLEAN
    BY <2>1 DEF AgentInit
  <2>5. QED
    BY <2>3, <2>4 DEF AgentTypeOK
<1>2. StoresFollow(log, stores, trace, cursor)
  <2>1. SubSeq(log, 1, 0) = <<>> /\ Len(log) = 0
    BY DEF AgentInit
  <2>2. StoresOf(log, 0) = InitialStores
    BY <2>1, StoreFoldEmpty DEF StoresOf
  <2>3. 0 \in 0 .. Len(log) /\ stores = InitialStores /\ cursor = 0
    BY <2>1 DEF AgentInit
  <2>4. QED
    BY <2>2, <2>3 DEF StoresFollow
<1>3. FramesFollow(mind, trace)
  BY FrameFoldEmpty DEF AgentInit, FramesFollow, Told
<1>4. SavedFollow
  BY DEF AgentInit, SavedFollow
<1>5. QED
  BY <1>1, <1>2, <1>3, <1>4 DEF AgentIInv

\* One more entry of the trace tells one more change.
LEMMA ToldNext ==
  ASSUME NEW t \in Seq(Entries), NEW e \in Entries
  PROVE  Told(Append(t, e)) = Retold(Told(t), e)
<1> DEFINE n == Len(t)
           z == Append(t, e)
<1>1. n \in Nat /\ DOMAIN t = 1 .. n /\ DOMAIN z = 1 .. n + 1 /\ z[n + 1] = e /\ \A i \in 1 .. n : t[i] = z[i]
  OBVIOUS
<1> HIDE DEF n, z
<1>2. FoldLeft(Retold, <<Start>>, z) = Retold(FoldLeft(Retold, <<Start>>, t), z[n + 1])
  BY <1>1, FrameFoldExtends
<1>3. QED
  BY <1>1, <1>2 DEF z, Told

\* Most kinds of entries tell of no change.
LEMMA ToldStays ==
  ASSUME NEW t \in Seq(Entries), NEW e \in Entries, e.kind \notin {"Transition", "Push", "Pop"}
  PROVE  Told(Append(t, e)) = Told(t)
BY ToldNext DEF Retold

\* The stores after the inputs so far do not depend on what the host appends.
LEMMA StoresOfAppend ==
  ASSUME NEW l \in Seq(Inputs), NEW input \in Inputs, NEW n \in 0 .. Len(l)
  PROVE  StoresOf(Append(l, input), n) = StoresOf(l, n)
<1>1. SubSeq(Append(l, input), 1, n) = SubSeq(l, 1, n)
  OBVIOUS
<1>2. QED
  BY <1>1 DEF StoresOf

LEMMA StoresOfNext ==
  ASSUME NEW l \in Seq(Inputs), NEW n \in 0 .. Len(l) - 1
  PROVE  StoresOf(l, n + 1) = Effect(StoresOf(l, n), l[n + 1])
<1> DEFINE s == SubSeq(l, 1, n)
           z == SubSeq(l, 1, n + 1)
<1>1. n \in Nat /\ DOMAIN s = 1 .. n /\ DOMAIN z = 1 .. n + 1 /\ z[n + 1] = l[n + 1] /\ \A i \in 1 .. n : s[i] = z[i]
  OBVIOUS
<1> HIDE DEF s, z
<1>2. FoldLeft(Effect, InitialStores, z) = Effect(FoldLeft(Effect, InitialStores, s), z[n + 1])
  BY <1>1, StoreFoldExtends
<1>3. QED
  BY <1>1, <1>2 DEF StoresOf, s, z

\* Stores that follow a log follow the log with one more input.
LEMMA LogGrows ==
  ASSUME NEW l \in Seq(Inputs), NEW input \in Inputs, NEW s, NEW t, NEW c \in Nat, StoresFollow(l, s, t, c)
  PROVE  StoresFollow(Append(l, input), s, t, c)
<1>1. PICK n \in c .. Len(l) : s = StoresOf(l, n) /\ (n # c => n = c + 1 /\ Full(t))
  BY DEF StoresFollow
<1>2. n \in 0 .. Len(l) /\ n \in c .. Len(Append(l, input))
  OBVIOUS
<1>3. StoresOf(Append(l, input), n) = s
  BY <1>1, <1>2, StoresOfAppend
<1>4. QED
  BY <1>1, <1>2, <1>3 DEF StoresFollow

\* A move keeps a stack of at least one frame, within the capacity.
LEMMA MoveTyped ==
  ASSUME NEW signal \in Signals, AgentTypeOK, ~Refused(signal)
  PROVE  /\ Moved(mind.frames, signal) \in Seq(States)
         /\ Len(Moved(mind.frames, signal)) \in 1 .. FrameCapacity
<1> DEFINE frames == mind.frames
<1>1. frames \in Seq(States) /\ Len(frames) \in 1 .. FrameCapacity /\ FrameCapacity \in Nat
  BY AgentAssumption DEF AgentTypeOK, MindOK
<1>2. signal.target \in States
  BY AgentAssumption DEF Signals
<1> HIDE DEF frames
<1>3. CASE signal.k = "TransitionTo"
  BY <1>1, <1>2, <1>3 DEF Moved, frames
<1>4. CASE signal.k = "Push"
  <2>1. Len(frames) < FrameCapacity
    BY <1>1, <1>4 DEF Refused, frames
  <2>2. QED
    BY <1>1, <1>2, <1>4, <2>1 DEF Moved, frames
<1>5. CASE signal.k = "Pop"
  <2>1. Len(frames) > 1
    BY <1>1, <1>5 DEF Refused, frames
  <2>2. Front(frames) \in Seq(States) /\ Len(Front(frames)) = Len(frames) - 1
    BY <1>1, <2>1 DEF Front
  <2>3. QED
    BY <1>1, <1>5, <2>1, <2>2 DEF Moved, frames
<1>6. CASE signal.k \notin {"TransitionTo", "Push", "Pop"}
  BY <1>1, <1>6 DEF Moved, frames
<1>7. QED
  BY <1>3, <1>4, <1>5, <1>6

\* A recorded signal tells of the very change that it made.
LEMMA SignalRetold ==
  ASSUME NEW signal \in Signals, AgentTypeOK, ~Refused(signal), NEW kind \in Recorded[signal.k], NEW from
  PROVE  LET after == Moved(mind.frames, signal) IN Retold(mind.frames, Entry(kind, from, Last(after))) = after
<1> DEFINE frames == mind.frames
           after == Moved(frames, signal)
<1>1. frames \in Seq(States) /\ Len(frames) \in Nat /\ Len(frames) > 0 /\ signal.target \in States
  BY AgentAssumption DEF AgentTypeOK, MindOK, Signals
<1>2. SUFFICES Retold(frames, Entry(kind, from, Last(after))) = after
  OBVIOUS
<1>3. signal.k \in {"None", "Yield", "Pop", "AwaitActuation", "Succeed", "Fail", "TransitionTo", "Push"}
  BY DEF Signals
<1>4. CASE signal.k = "TransitionTo"
  <2>1. kind = "Transition"
    BY <1>4 DEF Recorded
  <2>2. after = [frames EXCEPT ![Len(frames)] = signal.target]
    BY <1>4 DEF Moved
  <2>3. Last(after) = signal.target
    BY <1>1, <2>2 DEF Last
  <2>4. QED
    BY <2>1, <2>2, <2>3 DEF Retold, Entry
<1>5. CASE signal.k = "Push"
  <2>1. kind = "Push"
    BY <1>5 DEF Recorded
  <2>2. after = Append(frames, signal.target)
    BY <1>5 DEF Moved
  <2>3. Last(after) = signal.target
    BY <1>1, <2>2 DEF Last
  <2>4. QED
    BY <2>1, <2>2, <2>3 DEF Retold, Entry
<1>6. CASE signal.k = "Pop"
  <2>1. kind = "Pop"
    BY <1>6 DEF Recorded
  <2>2. after = Front(frames)
    BY <1>6 DEF Moved
  <2>3. QED
    BY <2>1, <2>2 DEF Retold, Entry
<1>7. CASE signal.k \in {"None", "Yield", "AwaitActuation", "Succeed", "Fail"}
  <2>1. kind \in {"Yield", "Completion", "Failure"}
    BY <1>7 DEF Recorded
  <2>2. after = frames
    BY <1>7 DEF Moved
  <2>3. QED
    BY <2>1, <2>2 DEF Retold, Entry
<1>8. QED
  BY <1>3, <1>4, <1>5, <1>6, <1>7

LEMMA StepKeeps == ASSUME AgentIInv, NEW signal \in Signals, Step(signal) PROVE AgentIInv'
<1> DEFINE before == Last(mind.frames)
           refused == Refused(signal)
           stepped == Append(trace, Entry("Step", before, before))
           after == IF refused THEN mind.frames ELSE Moved(mind.frames, signal)
           kinds == IF refused THEN {} ELSE Recorded[signal.k]
           noted == Entry(CHOOSE k \in kinds : TRUE, before, Last(after))
<1>1. /\ ~Full(trace)
      /\ mind' = [frames |-> after, status |-> IF refused THEN "Running" ELSE StatusAfter(signal)]
      /\ trace' = IF kinds = {} THEN stepped ELSE Record(stepped, noted)
      /\ UNCHANGED <<stores, log, cursor, applying, checkpoint>>
  BY DEF Step
<1>2. /\ mind \in [frames : Seq(States), status : MindStatuses] /\ Len(mind.frames) \in 1 .. FrameCapacity
      /\ trace \in Seq(Entries) /\ Len(trace) <= TraceCapacity /\ TraceCapacity \in Nat /\ FrameCapacity \in Nat
  BY AgentAssumption DEF AgentIInv, AgentTypeOK, MindOK
<1>3. after \in Seq(States) /\ Len(after) \in 1 .. FrameCapacity
  BY <1>2, MoveTyped DEF AgentIInv
<1>4. before \in States /\ Last(after) \in States
  BY <1>2, <1>3 DEF Last
<1>5. Entry("Step", before, before) \in Entries
  BY <1>4 DEF Entry, Entries
<1>6. stepped \in Seq(Entries) /\ Len(stepped) = Len(trace) + 1 /\ Len(trace) < TraceCapacity
  BY <1>1, <1>2, <1>5 DEF Full
<1>7. Told(stepped) = mind.frames
  <2>1. mind.frames = Told(trace)
    BY <1>1 DEF AgentIInv, FramesFollow
  <2>2. Told(stepped) = Told(trace)
    BY <1>2, <1>5, ToldStays DEF Entry
  <2>3. QED
    BY <2>1, <2>2
<1>8. signal.k \in {"None", "Yield", "Pop", "AwaitActuation", "Succeed", "Fail", "TransitionTo", "Push"}
  BY DEF Signals
<1>9. kinds # {} => (CHOOSE k \in kinds : TRUE) \in Recorded[signal.k] /\ ~refused
  BY DEF Recorded
<1>10. kinds # {} => noted \in Entries
  BY <1>4, <1>8, <1>9 DEF Entry, Entries, Recorded
<1>11. MindOK(mind', trace')
  <2>1. mind' \in [frames : Seq(States), status : MindStatuses] /\ mind'.frames = after
    BY <1>1, <1>3, <1>8 DEF StatusAfter, MindStatuses
  <2>2. trace' \in Seq(Entries) /\ Len(trace') <= TraceCapacity
    BY <1>1, <1>2, <1>6, <1>10 DEF Record, Full
  <2>3. QED
    BY <1>3, <2>1, <2>2 DEF MindOK
<1>12. FramesFollow(mind', trace')
  <2>1. mind'.frames = after
    BY <1>1
  <2>2. CASE kinds = {}
    <3>1. after = mind.frames
      <4>1. SUFFICES ASSUME ~refused PROVE signal.k \in {"None", "AwaitActuation"}
        BY DEF Moved
      <4>2. Recorded[signal.k] = {} /\ \A k : {k} # {}
        BY <2>2, <4>1
      <4>3. QED
        BY <1>8, <4>2 DEF Recorded
    <3>2. QED
      BY <1>1, <1>7, <2>1, <2>2, <3>1 DEF FramesFollow
  <2>3. CASE kinds # {} /\ Full(stepped)
    <3>1. trace' = stepped /\ after = Moved(Told(stepped), signal)
      BY <1>1, <1>7, <1>9, <2>3 DEF Record
    <3>2. QED
      BY <2>1, <2>3, <3>1 DEF FramesFollow
  <2>4. CASE kinds # {} /\ ~Full(stepped)
    <3>1. trace' = Append(stepped, noted)
      BY <1>1, <2>4 DEF Record
    <3>2. Told(trace') = Retold(mind.frames, noted)
      BY <1>6, <1>7, <1>10, <2>4, <3>1, ToldNext
    <3>3. ~Refused(signal) /\ after = Moved(mind.frames, signal) /\ AgentTypeOK
      BY <1>9, <2>4 DEF AgentIInv
    <3>4. Retold(mind.frames, noted) = after
      BY <1>9, <2>4, <3>3, SignalRetold
    <3>5. QED
      BY <2>1, <3>2, <3>4 DEF FramesFollow
  <2>5. QED
    BY <2>2, <2>3, <2>4
<1>13. StoresFollow(log, stores, trace, cursor)'
  <2>1. stores = StoresOf(log, cursor)
    BY <1>1 DEF AgentIInv, StoresFollow
  <2>2. cursor \in cursor .. Len(log)
    BY DEF AgentIInv, AgentTypeOK
  <2>3. QED
    BY <1>1, <2>1, <2>2 DEF StoresFollow
<1>14. SavedFollow'
  BY <1>1 DEF AgentIInv, SavedFollow
<1>15. QED
  BY <1>1, <1>11, <1>12, <1>13, <1>14 DEF AgentIInv, AgentTypeOK

LEMMA AppendKeeps == ASSUME AgentIInv, NEW input \in Inputs, AppendInput(input) PROVE AgentIInv'
<1>1. log' = Append(log, input) /\ UNCHANGED <<mind, trace, stores, cursor, applying, checkpoint>> /\ AgentTypeOK
  BY DEF AppendInput, context, AgentIInv
<1>2. log \in Seq(Inputs) /\ log' \in Seq(Inputs) /\ Len(log') = Len(log) + 1 /\ Len(log) \in Nat
  BY <1>1 DEF AgentTypeOK
<1>3. AgentTypeOK'
  BY <1>1, <1>2 DEF AgentTypeOK
<1>4. \A s, t : \A c \in Nat : StoresFollow(log, s, t, c) => StoresFollow(log', s, t, c)
  BY <1>1, <1>2, LogGrows
<1>5. StoresFollow(log, stores, trace, cursor)'
  BY <1>1, <1>4 DEF AgentIInv, AgentTypeOK
<1>6. SavedFollow'
  BY <1>1, <1>2, <1>4 DEF AgentIInv, SavedFollow
<1>7. FramesFollow(mind, trace)'
  BY <1>1 DEF AgentIInv
<1>8. QED
  BY <1>3, <1>5, <1>6, <1>7 DEF AgentIInv

\* An entry of the replay tells of no change of the frames.
LEMMA NoteTyped ==
  ASSUME AgentTypeOK, NEW kind \in {"ReplayInput", "EventEnqueue", "ActuationComplete"}
  PROVE  Here(kind) \in Entries /\ Here(kind).kind = kind
BY DEF AgentTypeOK, MindOK, Here, Entry, Entries, Last

LEMMA ApplyKeeps == ASSUME AgentIInv, ApplyInput PROVE AgentIInv'
<1> DEFINE input == log[cursor + 1]
           noted == Record(trace, Here("ReplayInput"))
           kinds == RecordedEffect(input)
<1>1. /\ applying /\ cursor < Len(log) /\ ~Full(trace) /\ UNCHANGED <<mind, log, checkpoint>>
      /\ \/ UNCHANGED <<stores, cursor>> /\ trace' = noted /\ applying' = FALSE
         \/ /\ stores' = Effect(stores, input) /\ applying' = applying /\ cursor' = cursor + 1
            /\ \/ trace' = noted
               \/ kinds # {} /\ ~Full(noted) /\ trace' = Append(noted, Here(CHOOSE k \in kinds : TRUE))
         \/ stores' = Effect(stores, input) /\ cursor' = cursor /\ Full(noted) /\ trace' = noted /\ applying' = FALSE
  BY DEF ApplyInput, RecordInput
<1>2. /\ AgentTypeOK /\ log \in Seq(Inputs) /\ cursor \in 0 .. Len(log)
      /\ trace \in Seq(Entries) /\ Len(trace) <= TraceCapacity /\ TraceCapacity \in Nat
  BY AgentAssumption DEF AgentIInv, AgentTypeOK, MindOK
<1>3. noted = Append(trace, Here("ReplayInput")) /\ Here("ReplayInput") \in Entries
  BY <1>1, <1>2, NoteTyped DEF Record
<1>4. noted \in Seq(Entries) /\ Len(noted) <= TraceCapacity /\ Told(noted) = Told(trace)
  <2>1. Told(noted) = Told(trace)
    BY <1>2, <1>3, NoteTyped, ToldStays
  <2>2. QED
    BY <1>1, <1>2, <1>3, <2>1 DEF Full
<1>5. trace' \in Seq(Entries) /\ Len(trace') <= TraceCapacity /\ Told(trace') = Told(trace)
  <2>1. CASE kinds # {} /\ ~Full(noted) /\ trace' = Append(noted, Here(CHOOSE k \in kinds : TRUE))
    <3> DEFINE kind == CHOOSE k \in kinds : TRUE
    <3>1. kind \in {"ReplayInput", "EventEnqueue", "ActuationComplete"}
      BY <2>1 DEF RecordedEffect
    <3>2. Here(kind) \in Entries /\ Here(kind).kind \notin {"Transition", "Push", "Pop"}
      BY <1>2, <3>1, NoteTyped
    <3>3. Told(trace') = Told(noted)
      BY <1>4, <2>1, <3>2, ToldStays
    <3>4. QED
      BY <1>2, <1>4, <2>1, <3>2, <3>3 DEF Full
  <2>2. QED
    BY <1>1, <1>4, <2>1
<1>6. stores = StoresOf(log, cursor) /\ mind.frames = Told(trace)
  BY <1>1, <1>2 DEF AgentIInv, StoresFollow, FramesFollow
<1>7. StoresOf(log, cursor + 1) = Effect(stores, input)
  BY <1>1, <1>2, <1>6, StoresOfNext
<1>8. AgentTypeOK'
  <2>1. MindOK(mind, trace)'
    BY <1>1, <1>2, <1>5 DEF AgentTypeOK, MindOK
  <2>2. cursor' \in 0 .. Len(log)
    <3>1. cursor \in 0 .. Len(log) /\ cursor + 1 \in 0 .. Len(log)
      BY <1>1, <1>2
    <3>2. cursor' = cursor \/ cursor' = cursor + 1
      BY <1>1
    <3>3. QED
      BY <3>1, <3>2
  <2>3. applying' \in BOOLEAN
    <3>1. applying \in BOOLEAN
      BY <1>2 DEF AgentTypeOK
    <3>2. applying' = FALSE \/ applying' = applying
      BY <1>1
    <3>3. QED
      BY <3>1, <3>2, Zenon
  <2>4. QED
    BY <1>1, <1>2, <2>1, <2>2, <2>3 DEF AgentTypeOK
<1>9. StoresFollow(log, stores, trace, cursor)'
  <2>1. cursor \in Nat /\ Len(log) \in Nat /\ cursor + 1 <= Len(log)
    BY <1>1, <1>2
  <2>2. CASE stores' = stores /\ cursor' = cursor
    BY <1>1, <1>6, <2>1, <2>2 DEF StoresFollow
  <2>3. CASE stores' = Effect(stores, input) /\ cursor' = cursor + 1
    BY <1>1, <1>7, <2>1, <2>3 DEF StoresFollow
  <2>4. CASE stores' = Effect(stores, input) /\ cursor' = cursor /\ Full(trace')
    <3>1. cursor + 1 \in cursor .. Len(log)
      BY <2>1
    <3>2. QED
      BY <1>1, <1>7, <2>4, <3>1 DEF StoresFollow
  <2>5. QED
    BY <1>1, <2>2, <2>3, <2>4
<1>10. FramesFollow(mind, trace)'
  BY <1>1, <1>5, <1>6 DEF FramesFollow
<1>11. SavedFollow'
  BY <1>1 DEF AgentIInv, SavedFollow
<1>12. QED
  BY <1>8, <1>9, <1>10, <1>11 DEF AgentIInv

LEMMA AgentNextIInv == AgentIInv /\ [AgentNext]_agentVars => AgentIInv'
<1> SUFFICES ASSUME AgentIInv, [AgentNext]_agentVars PROVE AgentIInv'
  OBVIOUS
<1>1. ASSUME NEW signal \in Signals, Step(signal) PROVE AgentIInv'
  BY <1>1, StepKeeps
<1>2. ASSUME NEW input \in Inputs, AppendInput(input) PROVE AgentIInv'
  BY <1>2, AppendKeeps
<1>3. CASE BeginApplyAll
  BY <1>3 DEF BeginApplyAll, context, AgentIInv, AgentTypeOK, SavedFollow
<1>4. CASE ApplyInput
  BY <1>4, ApplyKeeps
<1>5. CASE EndApplyAll
  BY <1>5 DEF EndApplyAll, context, AgentIInv, AgentTypeOK, SavedFollow
<1>6. CASE Save
  <2>1. checkpoint' = {[context |-> context, replayCursor |-> cursor]} /\ UNCHANGED <<mind, trace, stores, log, cursor, applying>>
    BY <1>6 DEF Save, context
  <2>2. SavedFollow'
    BY <2>1 DEF AgentIInv, AgentTypeOK, SavedFollow, context
  <2>3. QED
    BY <2>1, <2>2 DEF AgentIInv, AgentTypeOK
<1>7. CASE Restore
  BY <1>7 DEF Restore, AgentIInv, AgentTypeOK, SavedFollow
<1>8. CASE UNCHANGED agentVars
  BY <1>8 DEF agentVars, AgentIInv, AgentTypeOK, SavedFollow
<1>9. QED
  BY <1>1, <1>2, <1>3, <1>4, <1>5, <1>6, <1>7, <1>8 DEF AgentNext

\* For every capacity, log and schedule of steps, inputs and restores.
THEOREM AgentInvariant == AgentSpec => []AgentIInv
<1>1. QED
  BY AgentInitIInv, AgentNextIInv, PTL DEF AgentSpec

THEOREM AlwaysReplayable == AgentSpec => []ContextIsReplayable
<1>1. AgentIInv => ContextIsReplayable
  BY DEF AgentIInv, ContextIsReplayable, StoresFollowLog, FramesFollowTrace, StoresFollow, FramesFollow, StoresAfter, StoresOf, Told
<1>2. QED
  BY <1>1, AgentInvariant, PTL
=================================================================================
