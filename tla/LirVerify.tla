------------------------------- MODULE LirVerify -------------------------------
(***************************************************************************)
(* VerifyLIR: what the compiler checks of a lowered function before        *)
(* anything consumes it.  f is a function as LirLower builds it.  The      *)
(* function is accepted when LirFaults(f) is empty.                        *)
(***************************************************************************)
EXTENDS LirForm, Functions

LirSuccessors(f, i) ==
  LET t == f.blocks[i].term IN
  CASE t.op = "jump" -> {t.true} [] t.op = "branch" -> {t.true, t.false} [] OTHER -> {}

\* The blocks reached from those in from along blocks outside stop.
ReachLir(f, from, stop) ==
  LET Reach[seen \in SUBSET DOMAIN f.blocks] ==
        LET next == (UNION {LirSuccessors(f, i) : i \in seen}) \ (seen \cup stop) IN
        IF next = {} THEN seen ELSE Reach[seen \cup next]
  IN Reach[from \ stop]

LirReachable(f) == ReachLir(f, {1}, {})
\* Every path from the entry to j passes i.
LirDominates(f, i, j) == {i, j} \subseteq LirReachable(f) /\ (i = j \/ j \notin ReachLir(f, {1}, {i}))

ScopeContains(f, parent, child) ==
  LET Inside[scope \in Nat] == scope > 0 /\ (parent = scope \/ Inside[f.scopes[scope]]) IN Inside[child]

Places(f) == UNION {{i} \X DOMAIN f.blocks[i].code : i \in DOMAIN f.blocks}
InstructionAt(f, p) == f.blocks[p[1]].code[p[2]]
Writes(in) == in.op \in {"store_slot", "initialize_slot"}
GivesValue(in) == ~Writes(in) /\ in.op \notin {"require_variant", "check_index", "store"}

-----------------------------------------------------------------------------
(* Values, types and guards of one block *)

KnownBefore(f, i, n) == f.params \cup ({f.blocks[i].code[m].r : m \in 1 .. n - 1} \ {0})
GuardsBefore(f, i, n) ==
  {<<f.blocks[i].code[m].args[1], f.blocks[i].code[m].extent>> : m \in {m \in 1 .. n - 1 : f.blocks[i].code[m].op = "check_index"}}
Integer(t) == t \in {"i32", "u32"}
Scalar(t) == Integer(t) \/ t = "bool"

WellFormed(f, types, guards, in) ==
  LET Arg(i) == IF i \in DOMAIN in.args THEN types[in.args[i]] ELSE ""
      slot == f.slots[in.slot]
      variants == Domains[in.of]
  IN (in.r > 0 <=> GivesValue(in)) /\
     CASE in.op \in {"test_variant", "require_variant"} ->
            Arg(1) = in.of /\ in.member \in DOMAIN variants /\ (in.op = "test_variant" => in.t = "bool")
       [] in.op = "checked_payload" ->
            /\ TaggedType(in.of) /\ Arg(1) = in.of /\ in.member \in DOMAIN variants
            /\ in.field \in DOMAIN variants[in.member] /\ in.t = variants[in.member][in.field]
       [] in.op = "make_tagged" ->
            /\ TaggedType(in.t) /\ in.member \in DOMAIN Domains[in.t]
            /\ [i \in DOMAIN in.args |-> Arg(i)] = Domains[in.t][in.member]
       [] in.op = "call" ->
            /\ in.of \in Callees /\ in.t = ReturnType(in.of)
            /\ Len(in.args) = ParameterCount(in.of) /\ \A i \in DOMAIN in.args : Arg(i) = "i32"
       [] in.op = "const" -> in.args = <<>> /\ (Scalar(in.t) \/ EnumType(in.t))
       [] in.op = "load_slot" ->
            in.args = <<>> /\ in.slot \in DOMAIN f.slots /\ in.t = slot.t /\ (slot.extent = 0 \/ f.patterns /= <<>>)
       [] Writes(in) ->
            /\ in.slot \in DOMAIN f.slots /\ Arg(1) = slot.t /\ in.t = slot.t
            /\ slot.extent = 0 \/ f.patterns /= <<>>
            /\ in.op = "initialize_slot" => TaggedType(slot.t) \/ f.patterns /= <<>>
       [] in.op \in Arithmetic -> Arg(1) = in.t /\ Arg(2) = in.t /\ Integer(in.t)
       [] in.op \in Comparisons ->
            Arg(1) = Arg(2) /\ in.t = "bool" /\ (Scalar(Arg(1)) \/ (EnumType(Arg(1)) /\ in.op \in {"eq", "ne"}))
       [] in.op = "check_index" -> Integer(Arg(1)) /\ in.extent > 0
       [] in.op = "index_address" ->
            /\ in.slot \in DOMAIN f.slots /\ slot.extent = in.extent /\ in.t = "ptr"
            /\ Integer(Arg(1)) /\ <<in.args[1], in.extent>> \in guards
       [] in.op = "load" -> Arg(1) = "ptr" /\ in.t = "i32"
       [] in.op = "store" -> Arg(1) = "ptr" /\ Arg(2) = in.t /\ in.t = "i32"
       [] OTHER -> FALSE

Terminated(f, types, i) ==
  LET t == f.blocks[i].term
      known == KnownBefore(f, i, Len(f.blocks[i].code) + 1)
  IN CASE t.op = "return" -> t.v \in known /\ types[t.v] = f.result
       [] t.op = "jump" -> t.true \in DOMAIN f.blocks
       [] t.op = "branch" -> t.v \in known /\ types[t.v] = "bool" /\ {t.true, t.false} \subseteq DOMAIN f.blocks
       [] OTHER -> FALSE

DefiningPlaces(f) == {p \in Places(f) : InstructionAt(f, p).r > 0}
TypesOf(f) ==
  [v \in f.params \cup {InstructionAt(f, p).r : p \in DefiningPlaces(f)} |->
     IF v \in f.params THEN f.ptypes[v]
     ELSE InstructionAt(f, CHOOSE p \in DefiningPlaces(f) : InstructionAt(f, p).r = v).t]
\* No value is defined twice, none is a parameter as well.
DefinedOnce(f) ==
  LET places == DefiningPlaces(f) IN
  \A p \in places : /\ InstructionAt(f, p).r \notin f.params
                     /\ \A q \in places : InstructionAt(f, p).r = InstructionAt(f, q).r => p = q

ValueFaults(f) ==
  LET types == TypesOf(f)
      Defined(p) == Range(InstructionAt(f, p).args) \subseteq KnownBefore(f, p[1], p[2])
  IN UNION {
       IF DefinedOnce(f) THEN {} ELSE {"DUPLICATE_VALUE"},
       IF \A p \in Places(f) : Defined(p) THEN {} ELSE {"UNDEFINED_VALUE"},
       IF \A p \in Places(f) : Defined(p) => WellFormed(f, types, GuardsBefore(f, p[1], p[2]), InstructionAt(f, p))
         THEN {} ELSE {"BAD_INSTRUCTION"},
       IF \A i \in DOMAIN f.blocks : Terminated(f, types, i) THEN {} ELSE {"BAD_TERMINATOR"}}

-----------------------------------------------------------------------------
(* verifyLIRFallible: where the failure arm of x? goes *)

SubjectType(f, flow) == f.slots[flow.subject].t
FailureFields(f, flow) == Domains[SubjectType(f, flow)][2]
GuardFlows(f) == {f.sites[n].flow : n \in {n \in DOMAIN f.sites : f.sites[n].kind = "require_success"}}
RoutedSites(f) == {n \in DOMAIN f.sites : f.sites[n].handler > 0}
SiteBody(f, n) == f.patterns[f.sites[n].flow].arms[2].body
TryOf(f, h) == f.tries[f.handlers[h].try]
Cuts(f) ==
  {<<f.tries[n].join, f.scopes[f.tries[n].scope]>> : n \in DOMAIN f.tries}
    \cup {<<f.handlers[h].entry, f.handlers[h].scope>> : h \in DOMAIN f.handlers}

HandlerWellPlaced(f, h) ==
  LET handler == f.handlers[h]
      parent == f.scopes[TryOf(f, h).scope]
      code == f.blocks[handler.entry].code
  IN /\ f.scopes[handler.scope] = parent /\ f.slots[handler.input].scope = parent
     /\ f.slots[handler.binding].scope = handler.scope /\ f.slots[handler.binding].readonly
     /\ f.slots[handler.input].t = handler.t /\ f.slots[handler.binding].t = handler.t
     /\ Len(code) >= 2 /\ code[1].op = "load_slot" /\ code[1].slot = handler.input /\ code[1].scope = handler.scope
     /\ code[2].op = "initialize_slot" /\ code[2].slot = handler.binding /\ code[2].scope = handler.scope
     /\ code[2].args = <<code[1].r>>
     /\ \A o \in DOMAIN f.handlers \ {h} :
          f.handlers[o].entry /= handler.entry /\ ~(f.handlers[o].try = handler.try /\ f.handlers[o].t = handler.t)

\* The handler is that of the innermost enclosing try with one for the type.
RoutedToInnermost(f, n) ==
  LET site == f.sites[n]
      flow == f.patterns[site.flow]
      handler == f.handlers[site.handler]
      et == FailureFields(f, flow)[1]
      Encloses(h) == ScopeContains(f, TryOf(f, h).scope, flow.scope)
      block == f.blocks[flow.arms[2].body]
      code == block.code
  IN /\ site.kind = "propagate" /\ Len(FailureFields(f, flow)) = 1 /\ Len(flow.arms[2].binds) = 1
     /\ handler.t = et /\ Encloses(site.handler)
     /\ ~\E o \in DOMAIN f.handlers :
          /\ f.handlers[o].t = et /\ Encloses(o) /\ f.handlers[o].try /= handler.try
          /\ ScopeContains(f, TryOf(f, site.handler).scope, TryOf(f, o).scope)
     /\ Len(code) = 5 /\ code[4].op = "load_slot" /\ code[4].slot = flow.arms[2].binds[1]
     /\ code[5].op = "initialize_slot" /\ code[5].slot = handler.input /\ code[5].args = <<code[4].r>>
     /\ block.term.op = "jump" /\ block.term.true = handler.entry

\* The failure arm returns the failure of the function's own result type.
ReturnsFailure(f, n) ==
  LET site == f.sites[n]
      flow == f.patterns[site.flow]
      block == f.blocks[flow.arms[2].body]
      fields == FailureFields(f, flow)
      made == {m \in DOMAIN block.code : block.code[m].r > 0 /\ block.code[m].r = block.term.v}
  IN /\ block.term.op = "return" /\ TaggedType(f.result) /\ Len(Domains[f.result]) = 2
     /\ Len(Domains[f.result][2]) = Len(fields)
     /\ \E m \in made :
          LET in == block.code[m] IN
          /\ in.op = "make_tagged" /\ in.t = f.result /\ in.member = 2 /\ Len(in.args) = Len(fields)
          /\ site.kind = "propagate" /\ Len(in.args) = 1 =>
               \E l \in DOMAIN block.code :
                 block.code[l].r = in.args[1] /\ block.code[l].op = "load_slot" /\ flow.arms[2].binds = <<block.code[l].slot>>
     /\ site.kind = "propagate" =>
          /\ fields = Domains[f.result][2]
          /\ ~\E h \in DOMAIN f.handlers :
               f.handlers[h].t \in Range(fields) /\ ScopeContains(f, TryOf(f, h).scope, flow.scope)

SiteWellRouted(f, n) ==
  LET site == f.sites[n]
      flow == f.patterns[site.flow]
  IN /\ TaggedType(SubjectType(f, flow)) /\ Len(Domains[SubjectType(f, flow)]) = 2
     /\ \A o \in DOMAIN f.sites \ {n} : f.sites[o].flow /= site.flow
     /\ IF site.kind = "require_success" THEN site.handler = 0 /\ Len(flow.arms) = 1
        ELSE Len(flow.arms) = 2 /\ IF site.handler > 0 THEN RoutedToInnermost(f, n) ELSE ReturnsFailure(f, n)

\* A handler is entered, and its input slot written, by the routed arms only.
HandlerEnteredByRoutes(f, h) ==
  LET handler == f.handlers[h]
      routes == {SiteBody(f, n) : n \in {n \in RoutedSites(f) : f.sites[n].handler = h}}
      entering == {i \in DOMAIN f.blocks : handler.entry \in LirSuccessors(f, i)}
  IN /\ entering /= {} /\ entering \subseteq routes
     /\ \A p \in Places(f) :
          LET in == InstructionAt(f, p) IN
          in.slot = handler.input /\ (in.op = "load_slot" \/ Writes(in)) =>
            p = <<handler.entry, 1>> \/ (p[1] \in routes /\ p[2] = 5 /\ in.op = "initialize_slot")

FallibleFaults(f) ==
  IF ~f.fallible THEN {}
  ELSE IF /\ f.sites /= <<>>
          /\ \A n \in DOMAIN f.tries : \E h \in DOMAIN f.handlers : f.handlers[h].try = n
          /\ \A h \in DOMAIN f.handlers : HandlerWellPlaced(f, h)
          /\ \A n \in DOMAIN f.sites : SiteWellRouted(f, n)
          /\ \A h \in DOMAIN f.handlers : HandlerEnteredByRoutes(f, h)
       THEN {} ELSE {"FALLIBLE_CONTROL"}

-----------------------------------------------------------------------------
(* verifyLIRPatternFlow: a match reads one snapshot of its subject, tests    *)
(* it arm by arm, and what an arm binds is used in that arm only.            *)

RoleSlots(f) ==
  LET Of(flow) == <<flow.subject>> \o (IF flow.result > 0 THEN <<flow.result>> ELSE <<>>)
                    \o FlattenSeq([i \in DOMAIN flow.arms |-> flow.arms[i].binds])
  IN FlattenSeq([n \in DOMAIN f.patterns |-> Of(f.patterns[n])])
SlotWrites(f, slot) == {p \in Places(f) : Writes(InstructionAt(f, p)) /\ InstructionAt(f, p).slot = slot}

\* The arms of a match on a sum type cover it, those of x! only the success.
Exhaustive(f, n) ==
  LET flow == f.patterns[n]
      t == SubjectType(f, flow)
  IN IF n \in GuardFlows(f) THEN Len(Domains[t]) = 2 /\ Len(flow.arms) = 1
     ELSE t = "i32" \/ Len(flow.arms) = Len(Domains[t])

ResultWritten(f, flow) ==
  flow.result > 0 =>
    /\ flow.join > 0 /\ f.slots[flow.result].scope = flow.scope
    /\ LET code == f.blocks[flow.join].code IN code /= <<>> /\ code[1].op = "load_slot" /\ code[1].slot = flow.result
    /\ \A p \in SlotWrites(f, flow.result) :
         \E i \in DOMAIN flow.arms : ScopeContains(f, flow.arms[i].scope, InstructionAt(f, p).scope)

SnapshotBlock(f, flow) == (CHOOSE p \in SlotWrites(f, flow.subject) : TRUE)[1]
OneSnapshot(f, flow) ==
  /\ f.slots[flow.subject].readonly /\ f.slots[flow.subject].scope = flow.scope
  /\ Cardinality(SlotWrites(f, flow.subject)) = 1
  /\ \A p \in SlotWrites(f, flow.subject) :
       InstructionAt(f, p).op = "initialize_slot" /\ InstructionAt(f, p).scope = flow.scope
  /\ LirDominates(f, SnapshotBlock(f, flow), flow.arms[1].dispatch)

\* The chain of tests: an arm is entered from its own test, a test from the one before.
ArmEdges(f, flow, a) ==
  LET arm == flow.arms[a]
      term == f.blocks[arm.dispatch].term
      before == IF a = 1 THEN SnapshotBlock(f, flow) ELSE flow.arms[a - 1].dispatch
  IN /\ \A i \in DOMAIN f.blocks :
          /\ arm.body \in LirSuccessors(f, i) => i = arm.dispatch
          /\ arm.dispatch \in LirSuccessors(f, i) => i = before
     /\ term.true = arm.body
     /\ IF a = Len(flow.arms) THEN term.op = "jump" ELSE term.op = "branch" /\ term.false = flow.arms[a + 1].dispatch

DispatchCode(f, flow, a) ==
  LET arm == flow.arms[a]
      t == SubjectType(f, flow)
      last == a = Len(flow.arms)
      code == f.blocks[arm.dispatch].code
      term == f.blocks[arm.dispatch].term
      Loads == code[1].op = "load_slot" /\ code[1].slot = flow.subject
  IN CASE t /= "i32" ->
            /\ Len(code) = 2 /\ Loads /\ code[1].scope = flow.scope /\ code[2].scope = flow.scope
            /\ code[2].op = (IF last THEN "require_variant" ELSE "test_variant")
            /\ code[2].args = <<code[1].r>> /\ code[2].of = t /\ code[2].member \in DOMAIN Domains[t]
            /\ last \/ term.v = code[2].r
       [] t = "i32" /\ last -> code = <<>>
       [] t = "i32" /\ ~last ->
            /\ Len(code) = 3 /\ Loads /\ code[2].op = "const" /\ code[2].t = t
            /\ code[3].op = "eq" /\ code[3].args = <<code[1].r, code[2].r>> /\ term.v = code[3].r

ArmMember(f, arm) == f.blocks[arm.dispatch].code[2].member
ArmsDiffer(f, flow) ==
  LET n == IF SubjectType(f, flow) = "i32" THEN Len(flow.arms) - 1 ELSE Len(flow.arms)
      Tested(a) == IF SubjectType(f, flow) = "i32" THEN f.blocks[flow.arms[a].dispatch].code[2].n ELSE ArmMember(f, flow.arms[a])
  IN \A a, o \in 1 .. n : a /= o => Tested(a) /= Tested(o)

\* The payload of the tested member, read from the snapshot into the arm's slots.
BoundFields(f, flow, arm) == IF TaggedType(SubjectType(f, flow)) THEN Domains[SubjectType(f, flow)][ArmMember(f, arm)] ELSE <<>>
BindingCode(f, flow, a) ==
  LET arm == flow.arms[a]
      fields == BoundFields(f, flow, arm)
      code == f.blocks[arm.body].code
  IN /\ Len(arm.binds) = Len(fields)
     /\ fields /= <<>> =>
          /\ Len(code) >= 1 + 2 * Len(fields)
          /\ code[1].op = "load_slot" /\ code[1].slot = flow.subject /\ code[1].scope = arm.scope
          /\ \A i \in DOMAIN fields :
               LET read == code[2 * i]
                   init == code[2 * i + 1]
               IN /\ f.slots[arm.binds[i]].t = fields[i] /\ f.slots[arm.binds[i]].scope = arm.scope
                  /\ read.op = "checked_payload" /\ read.member = ArmMember(f, arm) /\ read.field = i
                  /\ read.of = SubjectType(f, flow) /\ read.args = <<code[1].r>> /\ read.scope = arm.scope
                  /\ init.op = "initialize_slot" /\ init.slot = arm.binds[i] /\ init.args = <<read.r>> /\ init.scope = arm.scope

\* The blocks of an arm: up to the join, and to where a failure leaves it.
ArmRegion(f, flow, arm) ==
  LET left == {c[1] : c \in {c \in Cuts(f) : ~ScopeContains(f, arm.scope, c[2])}}
  IN ReachLir(f, {arm.body}, left \cup {flow.join})

ArmClosed(f, flow, a) ==
  LET arm == flow.arms[a]
      region == ArmRegion(f, flow, arm)
      others == {flow.arms[o].dispatch : o \in DOMAIN flow.arms} \cup {flow.arms[o].body : o \in DOMAIN flow.arms \ {a}}
  IN /\ region \cap others = {}
     /\ \A p \in Places(f) :
          LET in == InstructionAt(f, p)
              inArm == ScopeContains(f, arm.scope, in.scope)
          IN (inArm \/ in.slot \in Range(arm.binds)) => inArm /\ p[1] \in region /\ LirDominates(f, arm.body, p[1])

AllowedAccess(f) ==
  UNION {UNION {
    LET arm == f.patterns[n].arms[a]
        fields == BoundFields(f, f.patterns[n], arm)
    IN (IF SubjectType(f, f.patterns[n]) = "i32" THEN {} ELSE {<<arm.dispatch, 2>>})
         \cup {<<arm.body, 2 * i>> : i \in DOMAIN fields}
    : a \in DOMAIN f.patterns[n].arms} : n \in DOMAIN f.patterns}

\* A slot is read on no path from the entry before it is written.
WrittenIn(f, i, n, slot) == \E m \in 1 .. n - 1 : Writes(f.blocks[i].code[m]) /\ f.blocks[i].code[m].slot = slot
\* Mutant: a slot written on one of the paths that meet counts as written.
ReadsInitializedOnSomePath(f, p) ==
  LET slot == InstructionAt(f, p).slot IN
  \/ WrittenIn(f, p[1], p[2], slot)
  \/ \E i \in DOMAIN f.blocks :
       WrittenIn(f, i, Len(f.blocks[i].code) + 1, slot) /\ p[1] \in ReachLir(f, LirSuccessors(f, i), {})

ReadsInitialized(f, p) ==
  LET slot == InstructionAt(f, p).slot
      writers == {i \in DOMAIN f.blocks : WrittenIn(f, i, Len(f.blocks[i].code) + 1, slot)}
      unwritten == ReachLir(f, {1}, writers)
  IN \/ WrittenIn(f, p[1], p[2], slot)
     \/ p[1] \notin LirReachable(f)
     \/ p[1] /= 1 /\ ~\E i \in unwritten : p[1] \in LirSuccessors(f, i)

PatternFaults(f) ==
  LET tests == {p \in Places(f) : InstructionAt(f, p).op \in {"test_variant", "require_variant"}}
      accesses == tests \cup {p \in Places(f) : InstructionAt(f, p).op = "checked_payload"}
      slotted == {p \in Places(f) : InstructionAt(f, p).op = "load_slot" \/ Writes(InstructionAt(f, p))}
      Flows(Holds(_)) == \A n \in DOMAIN f.patterns : Holds(f.patterns[n])
      Arms(Holds(_, _)) == Flows(LAMBDA flow : \A a \in DOMAIN flow.arms : Holds(flow, a))
  IN CASE f.patterns = <<>> -> IF tests = {} THEN {} ELSE {"MISSING_FLOW"}
       [] f.patterns /= <<>> /\ ~IsInjective(RoleSlots(f)) -> {"SUBJECT"}
       [] OTHER ->
            IF ~\A n \in DOMAIN f.patterns : Exhaustive(f, n) THEN {"EXHAUSTIVENESS"}
            ELSE IF ~Flows(LAMBDA flow : ResultWritten(f, flow)) THEN {"RESULT"}
            ELSE IF ~Flows(LAMBDA flow : OneSnapshot(f, flow)) THEN {"SNAPSHOT"}
            ELSE IF ~Arms(LAMBDA flow, a : ArmEdges(f, flow, a)) THEN {"ARM_EDGE"}
            ELSE IF ~(Arms(LAMBDA flow, a : DispatchCode(f, flow, a)) /\ Flows(LAMBDA flow : ArmsDiffer(f, flow))) THEN {"DISPATCH"}
            ELSE IF ~Arms(LAMBDA flow, a : BindingCode(f, flow, a)) THEN {"BINDING"}
            ELSE IF ~Arms(LAMBDA flow, a : ArmClosed(f, flow, a)) THEN {"BINDING_SCOPE"}
            ELSE IF ~(accesses \subseteq AllowedAccess(f)) THEN {"ACCESS_AUTHORITY"}
            ELSE IF \E p \in slotted : ~ScopeContains(f, f.slots[InstructionAt(f, p).slot].scope, InstructionAt(f, p).scope) THEN {"SLOT_SCOPE"}
            ELSE IF \E p \in slotted : InstructionAt(f, p).op = "load_slot" /\ ~ReadsInitialized(f, p) THEN {"UNINITIALIZED_JOIN"}
            ELSE {}

\* verifyLIRAggregateFunction: a tagged slot is initialized before it is read or
\* assigned, and an assignment does not go to a read-only one.
ObjectFaults(f) ==
  LET objects == {p \in Places(f) : InstructionAt(f, p).slot > 0 /\ TaggedType(f.slots[InstructionAt(f, p).slot].t)}
      InitializedBefore(p) ==
        LET slot == InstructionAt(f, p).slot
            At1(i, n) == \E m \in 1 .. n - 1 : f.blocks[i].code[m].op = "initialize_slot" /\ f.blocks[i].code[m].slot = slot
            writers == {i \in DOMAIN f.blocks : At1(i, Len(f.blocks[i].code) + 1)}
            unwritten == ReachLir(f, {1}, writers)
        IN \/ \E m \in 1 .. p[2] - 1 : Writes(f.blocks[p[1]].code[m]) /\ f.blocks[p[1]].code[m].slot = slot
           \/ /\ p[1] /= 1 /\ p[1] \in LirReachable(f)
              /\ ~\E i \in unwritten : p[1] \in LirSuccessors(f, i)
  IN IF \E p \in objects : InstructionAt(f, p).op \in {"load_slot", "store_slot"} /\ ~InitializedBefore(p) THEN {"OBJECT_NOT_LIVE"}
     ELSE IF \E p \in objects : InstructionAt(f, p).op = "store_slot" /\ f.slots[InstructionAt(f, p).slot].readonly THEN {"OBJECT_READONLY"}
     ELSE {}

\* The first group that finds a fault ends the verification.
LirFaults(f) ==
  LET Targets == \A i \in DOMAIN f.blocks : LirSuccessors(f, i) \subseteq DOMAIN f.blocks
      steps == <<IF Targets THEN {} ELSE {"CONTROL_FLOW"}, IF Targets THEN FallibleFaults(f) ELSE {},
                 IF Targets THEN PatternFaults(f) ELSE {}, ValueFaults(f), IF Targets THEN ObjectFaults(f) ELSE {}>>
      found == {n \in DOMAIN steps : steps[n] /= {}}
  IN IF found = {} THEN {} ELSE steps[CHOOSE n \in found : \A o \in found : n <= o]
=============================================================================
