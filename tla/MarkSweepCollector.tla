-------------------------- MODULE MarkSweepCollector --------------------------
(***************************************************************************)
(* MarkSweepCollector of libraries/Standard/Collection/Core.concept.  An     *)
(* object is a slot; its value matters by the handles TraceReferences        *)
(* visits, in that order.  Slots and root entries count from 1 here.         *)
(*                                                                           *)
(* Collect takes one step per root entry and per object it traces, with no   *)
(* other call in between.  Calls that are refused change nothing and are no  *)
(* steps.  A client gives each root token back once, as the library's        *)
(* document asks (docs/library/STANDARD-COLLECTION.md, "exactly once").       *)
(***************************************************************************)
EXTENDS Integers, Sequences, FiniteSets

CONSTANTS
  SlotCount,      \* slots, and entries of the root table
  MaxGeneration,  \* 2147483647 in the code
  MaxReferences,  \* handles in one value (bound of the model)
  MaxObjects      \* objects ever allocated (bound of the model)

ASSUME CollectorAssumption ==
  /\ SlotCount \in Nat
  /\ MaxGeneration \in Nat \ {0}
  /\ MaxReferences \in Nat
  /\ MaxObjects \in Nat

VARIABLES
  occupied,       \* slots that hold an object
  generation,     \* of each slot; 0 retires it
  values,         \* handles in the value of each slot
  roots,          \* the root table: a handle or None per entry
  \* locals of Collect
  stage,          \* "idle", "roots" or "trace"
  position,       \* next root entry, then next place of the worklist
  edge,           \* next reference of the object at that place
  marked,         \* slots marked; the field is cleared by every Collect
  worklist,
  valid,          \* of the visitor
  \* what clients have seen
  issued,         \* handles AllocateObject returned
  held,           \* handle registered under each token that was not given back
  answer          \* of the last call, if it was Collect

state == <<occupied, generation, values, roots>>
visitor == <<stage, position, edge, marked, worklist, valid>>
collectorVars == <<occupied, generation, values, roots, stage, position, edge, marked, worklist, valid, issued, held, answer>>

SlotIndexes == 1 .. SlotCount
Generations == 0 .. MaxGeneration
Domain == "own"
Handle(i, g) == [index |-> i, generation |-> g, domain |-> Domain]
Handles == [index : SlotIndexes, generation : Generations \ {0}, domain : {Domain}]
\* A handle of another collector.
Foreign == [index |-> 1, generation |-> 1, domain |-> "other"]
None == [index |-> 0, generation |-> 0, domain |-> "none"]

HandleAt(i) == Handle(i, generation[i])

ValidHandle(h) ==
  /\ h.index \in SlotIndexes
  /\ h.domain = Domain
  /\ occupied[h.index]
  /\ generation[h.index] = h.generation

CollectorInit ==
  /\ occupied = [i \in SlotIndexes |-> FALSE]
  /\ generation = [i \in SlotIndexes |-> 1]
  /\ values = [i \in SlotIndexes |-> <<>>]
  /\ roots = [r \in SlotIndexes |-> None]
  /\ stage = "idle" /\ position = 1 /\ edge = 1 /\ marked = {} /\ worklist = <<>> /\ valid = TRUE
  /\ issued = {}
  /\ held = [t \in {} |-> None]
  /\ answer = "None"

-----------------------------------------------------------------------------
(* Calls between collections *)

\* A client can store any handle it was ever given.
Known == issued \cup {Foreign}
Contents(known) == UNION {[1 .. n -> known] : n \in 0 .. MaxReferences}

Between == stage = "idle" /\ UNCHANGED visitor

IsFirst(i, S) == i \in S /\ \A j \in S : i <= j

AllocateObject(value) ==
  /\ Between
  /\ Cardinality(issued) < MaxObjects
  /\ \E index \in SlotIndexes :
       /\ IsFirst(index, {i \in SlotIndexes : ~occupied[i] /\ generation[i] > 0})
       /\ occupied' = [occupied EXCEPT ![index] = TRUE]
       /\ values' = [values EXCEPT ![index] = value]
       /\ issued' = issued \cup {HandleAt(index)}
  /\ answer' = "None"
  /\ UNCHANGED <<generation, roots, held>>

\* BorrowMutable, and what the client writes through the borrow.
BorrowMutable(h, value) ==
  /\ Between
  /\ ValidHandle(h)
  /\ values' = [values EXCEPT ![h.index] = value]
  /\ answer' = "None"
  /\ UNCHANGED <<occupied, generation, roots, issued, held>>

RegisterRoot(h) ==
  /\ Between
  /\ ValidHandle(h)
  /\ \E root \in SlotIndexes :
       /\ IsFirst(root, {r \in SlotIndexes : roots[r] = None})
       /\ roots' = [roots EXCEPT ![root] = h]
       /\ held' = [t \in (DOMAIN held) \cup {root} |-> IF t = root THEN h ELSE held[t]]
  /\ answer' = "None"
  /\ UNCHANGED <<occupied, generation, values, issued>>

UnregisterRoot(root) ==
  /\ Between
  /\ root \in DOMAIN held
  /\ roots' = [roots EXCEPT ![root] = None]
  /\ held' = [t \in (DOMAIN held) \ {root} |-> held[t]]
  /\ answer' = "None"
  /\ UNCHANGED <<occupied, generation, values, issued>>

-----------------------------------------------------------------------------
(* Collect *)

BeginCollect ==
  /\ stage = "idle"
  /\ stage' = "roots"
  /\ UNCHANGED <<state, position, edge, marked, worklist, valid, issued, held, answer>>

\* Visit marks a slot when it puts it on the worklist, so that it gets there once.
Visit(h) ==
  \/ /\ ~ValidHandle(h)
     /\ valid' = FALSE
     /\ UNCHANGED <<marked, worklist>>
  \/ /\ ValidHandle(h)
     /\ h.index \in marked
     /\ UNCHANGED <<marked, worklist, valid>>
  \/ /\ ValidHandle(h)
     /\ h.index \notin marked
     /\ marked' = marked \cup {h.index}
     /\ worklist' = Append(worklist, h.index)
     /\ UNCHANGED valid

VisitRoot ==
  /\ stage = "roots"
  /\ position \in SlotIndexes
  /\ \/ roots[position] = None /\ UNCHANGED <<marked, worklist, valid>>
     \/ roots[position] # None /\ Visit(roots[position])
  /\ position' = position + 1
  /\ UNCHANGED <<state, stage, edge, issued, held, answer>>

\* References of the object that is traced.
Traced == values[worklist[position]]

RootsVisited == stage = "roots" /\ position > SlotCount
ObjectVisited == stage = "trace" /\ position <= Len(worklist) /\ edge > Len(Traced)

BeginTrace ==
  /\ RootsVisited /\ valid
  /\ stage' = "trace" /\ position' = 1
  /\ UNCHANGED <<state, edge, marked, worklist, valid, issued, held, answer>>

TraceReference ==
  /\ stage = "trace"
  /\ position <= Len(worklist)
  /\ edge <= Len(Traced)
  /\ Visit(Traced[edge])
  /\ edge' = edge + 1
  /\ UNCHANGED <<state, stage, position, issued, held, answer>>

NextObject ==
  /\ ObjectVisited /\ valid
  /\ position' = position + 1 /\ edge' = 1
  /\ UNCHANGED <<state, stage, marked, worklist, valid, issued, held, answer>>

EndCollect == stage' = "idle" /\ position' = 1 /\ edge' = 1 /\ marked' = {} /\ worklist' = <<>> /\ valid' = TRUE

\* A handle that was not valid ends the collection before anything is reclaimed.
Refuse ==
  /\ RootsVisited \/ ObjectVisited
  /\ ~valid
  /\ EndCollect
  /\ answer' = "InvalidHandle"
  /\ UNCHANGED <<state, issued, held>>

\* Mutant: the generation starts again when it has reached its limit.
WrappedGeneration(g) == IF g = MaxGeneration THEN 1 ELSE g + 1

\* The slot of a reclaimed object is reused under another generation, or retired.
NextGeneration(g) == IF g = MaxGeneration THEN 0 ELSE g + 1

Unmarked == {i \in SlotIndexes : occupied[i] /\ i \notin marked}

Sweep ==
  /\ stage = "trace"
  /\ position > Len(worklist)
  /\ occupied' = [i \in SlotIndexes |-> occupied[i] /\ i \in marked]
  /\ generation' = [i \in SlotIndexes |-> IF i \in Unmarked THEN NextGeneration(generation[i]) ELSE generation[i]]
  /\ values' = [i \in SlotIndexes |-> IF i \in Unmarked THEN <<>> ELSE values[i]]
  /\ EndCollect
  /\ answer' = "Collected"
  /\ UNCHANGED <<roots, issued, held>>

CollectorNext ==
  \/ \E value \in Contents(Known) : AllocateObject(value) \/ \E h \in issued : BorrowMutable(h, value)
  \/ \E h \in issued : RegisterRoot(h)
  \/ \E root \in SlotIndexes : UnregisterRoot(root)
  \/ BeginCollect \/ VisitRoot \/ BeginTrace \/ TraceReference \/ NextObject
  \/ Refuse \/ Sweep

CollectorSpec == CollectorInit /\ [][CollectorNext]_collectorVars

-----------------------------------------------------------------------------

ReferencesOf(value) == {value[n] : n \in DOMAIN value}
Live == {h \in Handles : ValidHandle(h)}

Heap == INSTANCE ObjectHeap WITH
  Tokens <- SlotIndexes, objects <- Live, edges <- [h \in Live |-> ReferencesOf(values[h.index])], roots <- held

\* The collector keeps what can be reached from the handles that clients registered and
\* did not give back, reclaims all else, accepts no handle of a reclaimed object again (not at
\* the last generation either), and reclaims nothing if an object to keep has a bad edge.
ImplementsHeap == Heap!Spec
===============================================================================
