------------------------------- MODULE LirLower -------------------------------
(***************************************************************************)
(* Lowering of a checked function to LIR (lirBuilder): basic blocks of     *)
(* instructions that define values, and slots for whatever outlives a      *)
(* block.  A value is visible in the block that defines it only, so every  *)
(* operand that is evaluated before one that opens new blocks has to be    *)
(* kept in a slot and loaded again.                                        *)
(*                                                                         *)
(* b is the builder: the function so far (blocks, slots, scopes, patterns, *)
(* tries, handlers, sites), the position in it (cur, scope, names, stack)  *)
(* and the last value (v, of type t).  Ids count from 1, 0 is none.        *)
(***************************************************************************)
EXTENDS LirForm

-----------------------------------------------------------------------------
(* The builder *)

Unfinished == [op |-> "", v |-> 0, true |-> 0, false |-> 0, scope |-> 0]
EmptyBlock == [code |-> <<>>, term |-> Unfinished]
Op(op, t, args) ==
  [op |-> op, t |-> t, args |-> args, r |-> 0, slot |-> 0, of |-> "", member |-> 0, field |-> 0,
   n |-> 0, extent |-> 0, scope |-> 0]

IsOpen(b) == b.blocks[b.cur].term.op = ""
AddBlocks(b, n) == [b EXCEPT !.blocks = @ \o [i \in 1 .. n |-> EmptyBlock]]
At(b, block) == [b EXCEPT !.cur = block]
Emit(b, in) == [b EXCEPT !.blocks[b.cur].code = Append(@, [in EXCEPT !.scope = b.scope])]
EmitValue(b, in) ==
  [Emit(b, [in EXCEPT !.r = b.vals + 1]) EXCEPT !.vals = @ + 1, !.v = b.vals + 1, !.t = in.t]
Terminate(b, term) == [b EXCEPT !.blocks[b.cur].term = [term EXCEPT !.scope = b.scope]]
Jump(b, to) == Terminate(b, [Unfinished EXCEPT !.op = "jump", !.true = to])
BranchOn(b, yes, no) == Terminate(b, [Unfinished EXCEPT !.op = "branch", !.v = b.v, !.true = yes, !.false = no])
ReturnValue(b, v) == Terminate(b, [Unfinished EXCEPT !.op = "return", !.v = v])
Unsupported(b, code) == [b EXCEPT !.err = IF @ = "" THEN code ELSE @]

AddSlot(b, t, readonly) == [b EXCEPT !.slots = Append(@, [t |-> t, readonly |-> readonly, scope |-> b.scope, extent |-> 0, param |-> 0])]
LastSlot(b) == Len(b.slots)
AddScope(b, parent) == [b EXCEPT !.scopes = Append(@, parent)]
Const(b, t, n) == EmitValue(b, [Op("const", t, <<>>) EXCEPT !.n = n])
Load(b, slot) == EmitValue(b, [Op("load_slot", b.slots[slot].t, <<>>) EXCEPT !.slot = slot])
Put(b, op, slot, v) == Emit(b, [Op(op, b.slots[slot].t, <<v>>) EXCEPT !.slot = slot])
StoreOp(t) == IF TaggedType(t) THEN "initialize_slot" ELSE "store_slot"

SlotName(slot, t) == [k |-> "slot", id |-> slot, t |-> t]
Bind(b, x, binding) == [b EXCEPT !.names = (x :> binding) @@ @]

-----------------------------------------------------------------------------
(* Expressions.  The operands of an operator have one type. *)

\* expressionControl: the operands it looks into do not include an index.
RECURSIVE MayBranch(_)
MayBranch(e) ==
  CASE e.k \in {"fail", "logic", "ife", "match"} -> TRUE
    [] e.k = "bin" -> MayBranch(e.l) \/ MayBranch(e.r)
    [] e.k \in {"call", "variant"} -> \E i \in DOMAIN e.args : MayBranch(e.args[i])
    [] OTHER -> FALSE

\* Mutant: an operand computed before a branch is used after it as it is.
SaveNothing(b) == [b |-> b, slot |-> 0]

\* saveBeforePropagation: parameters are values of every block.
SaveBefore(b) ==
  IF b.v \in b.params THEN [b |-> b, slot |-> 0]
  ELSE LET s == AddSlot(b, b.t, FALSE) IN [b |-> Put(s, StoreOp(b.t), LastSlot(s), b.v), slot |-> LastSlot(s)]

RECURSIVE LowerExpr(_, _)
RECURSIVE LowerBlock(_, _)
RECURSIVE LowerArm(_, _)

\* The operands in order, b.vs their values after all have been evaluated.
LowerOperands(es, b) ==
  LET Operand(acc, i) ==
        LET q == LowerExpr(es[i], acc.b)
            kept == IF \E j \in i + 1 .. Len(es) : MayBranch(es[j]) THEN SaveBefore(q) ELSE [b |-> q, slot |-> 0]
        IN [b |-> kept.b, vs |-> Append(acc.vs, q.v), saved |-> Append(acc.saved, kept.slot)]
      all == FoldLeft(Operand, [b |-> b, vs |-> <<>>, saved |-> <<>>], [i \in DOMAIN es |-> i])
      Reload(q, i) == IF all.saved[i] = 0 THEN q
                      ELSE LET loaded == Load(q, all.saved[i]) IN [loaded EXCEPT !.vs[i] = loaded.v]
  IN FoldLeft(Reload, [all.b EXCEPT !.vs = all.vs], [i \in DOMAIN es |-> i])

\* storeResult, for the slot of a conditional or match expression.
StoreResult(b, slot, e) ==
  LET q == LowerExpr(e, b)
      op == IF q.patterns = <<>> THEN StoreOp(q.t) ELSE "initialize_slot"
  IN Put(q, op, slot, q.v)

LowerLogical(e, b) ==
  LET s == AddSlot(b, "bool", FALSE)
      slot == LastSlot(s)
      Keep(q) == Put(q, IF q.patterns = <<>> THEN "store_slot" ELSE "initialize_slot", slot, q.v)
      left == LowerExpr(e.l, s)
      kept == AddBlocks(Keep(left), 2)
      rhs == Len(kept.blocks) - 1
      join == rhs + 1
      fork == BranchOn(kept, IF e.op = "or" THEN join ELSE rhs, IF e.op = "or" THEN rhs ELSE join)
      right == Jump(Keep(LowerExpr(e.r, At(fork, rhs))), join)
  IN Load(At(right, join), slot)

LowerIfExpr(e, b) ==
  LET s == AddSlot(b, e.t, FALSE)
      slot == LastSlot(s)
      c == AddBlocks(LowerExpr(e.c, s), 3)
      then == Len(c.blocks) - 2
      fork == BranchOn(c, then, then + 1)
      yes == Jump(StoreResult(At(fork, then), slot, e.then), then + 2)
      no == Jump(StoreResult(At(yes, then + 1), slot, e.else), then + 2)
  IN Load(At(no, then + 2), slot)

\* lowerMatch: one dispatch and one body block per arm, the payload bound in
\* the body; LowerArm says what an arm does.  The arms that end open join.
LowerMatch(e, arms, result, b) ==
  LET pats == [i \in DOMAIN arms |-> arms[i].pat]
      value == LowerExpr(e, b)
      t == value.t
      s == AddSlot(value, t, TRUE)
      subject == LastSlot(s)
      init == Put([s EXCEPT !.borrow = TRUE], "initialize_slot", subject, value.v)
      base == Len(init.blocks)
      n == Len(pats)
      flow == Len(init.patterns) + 1
      made == [i \in 1 .. n |-> [dispatch |-> base + 2 * i - 1, body |-> base + 2 * i, scope |-> 0, binds |-> <<>>]]
      early == IF result > 0 THEN base + 2 * n + 1 ELSE 0
      entered == Jump([AddBlocks(init, 2 * n + (IF result > 0 THEN 1 ELSE 0))
                         EXCEPT !.patterns = Append(@, [subject |-> subject, result |-> result, join |-> early,
                                                        scope |-> b.scope, arms |-> made])], base + 1)
      Test(q, i) ==
        LET p == pats[i]
            loaded == Load(q, subject)
            tested == [Op("test_variant", "bool", <<loaded.v>>) EXCEPT !.of = t, !.member = p.member]
            literal == Const(loaded, t, p.n)
        IN CASE p.k = "variant" /\ i < n -> BranchOn(EmitValue(loaded, tested), made[i].body, made[i + 1].dispatch)
             [] p.k = "variant" /\ i = n -> Jump(Emit(loaded, [tested EXCEPT !.op = "require_variant", !.t = "void"]), made[i].body)
             [] p.k = "wild" -> Jump(q, made[i].body)
             [] p.k = "literal" ->
                  BranchOn(EmitValue(literal, Op("eq", "bool", <<loaded.v, literal.v>>)), made[i].body, made[i + 1].dispatch)
      Payload(i, q) ==
        LET p == pats[i]
            loaded == Load(q, subject)
            Field(r, f) ==
              LET ft == Domains[t][p.member][f]
                  read == EmitValue(r, [Op("checked_payload", ft, <<loaded.v>>) EXCEPT !.of = t, !.member = p.member, !.field = f])
                  bound == AddSlot(read, ft, FALSE)
                  kept == Put(bound, "initialize_slot", LastSlot(bound), read.v)
              IN [Bind(kept, p.binds[f], SlotName(LastSlot(bound), ft))
                    EXCEPT !.patterns[flow].arms[i].binds = Append(@, LastSlot(bound))]
        IN IF p.binds = <<>> THEN q ELSE FoldLeft(Field, loaded, [f \in DOMAIN p.binds |-> f])
      Arm(acc, i) ==
        LET tested == Test([acc.b EXCEPT !.cur = made[i].dispatch, !.scope = b.scope, !.names = b.names], i)
            scoped == AddScope(tested, b.scope)
            inner == [scoped EXCEPT !.cur = made[i].body, !.scope = Len(scoped.scopes),
                                    !.patterns[flow].arms[i].scope = Len(scoped.scopes)]
            done == LowerArm(arms[i], Payload(i, inner))
        IN [b |-> done, open |-> IF IsOpen(done) THEN Append(acc.open, done.cur) ELSE acc.open]
      all == FoldLeft(Arm, [b |-> entered, open |-> <<>>], [i \in 1 .. n |-> i])
      outside == [all.b EXCEPT !.names = b.names, !.scope = b.scope]
      late == Len(outside.blocks) + 1
      joined == IF early > 0 THEN outside ELSE [AddBlocks(outside, 1) EXCEPT !.patterns[flow].join = late]
      join == IF early > 0 THEN early ELSE late
  IN IF all.open = <<>> THEN outside
     ELSE At(FoldLeft(LAMBDA q, block : Jump(At(q, block), join), joined, all.open), join)

\* The arm of a match statement.
BlockArm(arm) == [k |-> "block", pat |-> arm.pat, body |-> arm.body]

LowerMatchExpr(e, b) ==
  LET s == AddSlot(b, e.t, FALSE)
      slot == LastSlot(s)
      Value(arm) == [k |-> "value", pat |-> arm.pat, slot |-> slot, e |-> arm.e]
  IN Load(LowerMatch(e.e, [i \in DOMAIN e.arms |-> Value(e.arms[i])], slot, s), slot)

-----------------------------------------------------------------------------
(* Failures: x? and x! on a Result or an Option *)

\* The innermost enclosing try with a handler of that type.
HandlersOf(b, t) == {<<n, a>> \in (DOMAIN b.stack) \X (1 .. 2) :
                       a \in DOMAIN b.ctxs[b.stack[n]].arms /\ b.ctxs[b.stack[n]].arms[a].error = t}
FindLocalHandler(b, t) ==
  LET found == HandlersOf(b, t)
      best == CHOOSE h \in found : \A o \in found : o[1] <= h[1]
  IN IF found = {} THEN <<0, 0>> ELSE <<b.stack[best[1]], best[2]>>

\* A handler gets its slots, scope and entry when the first failure reaches it;
\* the join block of its try jumps to itself until it is known to be reached.
RealizeHandler(b, c, a) ==
  LET ctx == b.ctxs[c]
      arm == ctx.arms[a]
      joined ==
        IF ctx.record > 0 THEN b
        ELSE LET j == AddBlocks(b, 1) IN
             [j EXCEPT !.blocks[Len(j.blocks)].term = [Unfinished EXCEPT !.op = "jump", !.true = Len(j.blocks), !.scope = ctx.parent],
                       !.tries = Append(@, [scope |-> ctx.scope, join |-> Len(j.blocks)]),
                       !.ctxs[c].join = Len(j.blocks), !.ctxs[c].record = Len(b.tries) + 1]
      input == AddSlot([joined EXCEPT !.scope = ctx.parent], arm.error, FALSE)
      scoped == AddScope(input, ctx.parent)
      binding == AddSlot([scoped EXCEPT !.scope = Len(scoped.scopes)], arm.error, TRUE)
      entry == AddBlocks(binding, 1)
  IN IF arm.record > 0 THEN b
     ELSE [entry EXCEPT !.scope = b.scope, !.borrow = TRUE, !.fallible = TRUE,
                        !.ctxs[c].arms[a].record = Len(b.handlers) + 1,
                        !.handlers = Append(@, [try |-> joined.ctxs[c].record, input |-> LastSlot(input),
                                                binding |-> LastSlot(binding), entry |-> Len(entry.blocks),
                                                scope |-> Len(scoped.scopes), t |-> arm.error])]

\* The site of a failure belongs to the match flow whose arm is being lowered.
CurrentFlow(q) == CHOOSE f \in DOMAIN q.patterns : \E a \in DOMAIN q.patterns[f].arms : q.patterns[f].arms[a].scope = q.scope

ErrorName(site) == [k |-> "name", x |-> site.error]

\* The arm of a success: the payload is the value of x? and x!.
Succeed(site, q) ==
  StoreResult([q EXCEPT !.sites = Append(@, [flow |-> CurrentFlow(q), kind |-> site.kind, handler |-> 0])],
              site.slot, [k |-> "name", x |-> site.value])

\* The arm of a failure with a handler in this function: hand the error over and go there.
ToHandler(site, q) ==
  LET here == CHOOSE n \in DOMAIN q.sites : q.sites[n].flow = CurrentFlow(q)
      ready == RealizeHandler(q, site.local[1], site.local[2])
      record == ready.ctxs[site.local[1]].arms[site.local[2]].record
      read == LowerExpr(ErrorName(site), [ready EXCEPT !.sites[here].handler = record])
  IN Jump(Put(read, "initialize_slot", ready.handlers[record].input, read.v), ready.handlers[record].entry)

\* The arm of a failure without one: the function returns a failure of its own.
ReturnFailure(site, q) ==
  LET given == IF site.else = <<>> /\ ResultType(site.t) THEN <<ErrorName(site)>> ELSE site.else
      made == LowerExpr([k |-> "variant", t |-> q.result, member |-> 2, args |-> given], q)
  IN ReturnValue(made, made.v)

LowerFailure(e, b) ==
  LET local == IF e.op = "?" /\ ResultType(e.t) /\ e.else = <<>> THEN FindLocalHandler(b, ErrorType(e.t)) ELSE <<0, 0>>
      s == AddSlot(b, "i32", FALSE)
      mark == ToString(Len(s.slots))
      site == [slot |-> LastSlot(s), value |-> "$value" \o mark, error |-> "$error" \o mark, local |-> local,
               t |-> e.t, else |-> e.else,
               kind |-> CASE e.else /= <<>> -> "remap" [] e.op = "!" -> "require_success" [] OTHER -> "propagate"]
      success == [k |-> "succeed", site |-> site, pat |-> [k |-> "variant", member |-> 1, binds |-> <<site.value>>, n |-> 0]]
      failure == [k |-> IF local[1] > 0 THEN "handle" ELSE "fail", site |-> site,
                  pat |-> [k |-> "variant", member |-> 2, binds |-> IF ResultType(e.t) THEN <<site.error>> ELSE <<>>, n |-> 0]]
      start == [s EXCEPT !.fallible = @ \/ ~ResultType(e.t) \/ e.op = "!"]
  IN Load(LowerMatch(e.e, IF e.op = "!" THEN <<success>> ELSE <<success, failure>>, site.slot, start), site.slot)

LowerArm(arm, q) ==
  CASE arm.k = "block" -> LowerBlock(arm.body, q)
    [] arm.k = "value" -> StoreResult(q, arm.slot, arm.e)
    [] arm.k = "succeed" -> Succeed(arm.site, q)
    [] arm.k = "handle" -> ToHandler(arm.site, q)
    [] arm.k = "fail" -> ReturnFailure(arm.site, q)

\* taggedConstruction; a variant of an enum without payloads is its number.
LowerVariant(e, b) ==
  LET Argument(q, a) == LET r == LowerExpr(a, q) IN [r EXCEPT !.vs = Append(q.vs, r.v)]
      all == FoldLeft(Argument, [b EXCEPT !.vs = <<>>], e.args)
  IN IF EnumType(e.t) THEN Const(b, e.t, e.member)
     ELSE EmitValue(all, [Op("make_tagged", e.t, all.vs) EXCEPT !.member = e.member])

\* indexAddress: the guard and the address stand in the same block.
IndexAddress(x, i, b) ==
  LET q == LowerExpr(i, b)
      array == q.names[x].id
      extent == q.slots[array].extent
      guarded == Emit(q, [Op("check_index", "void", <<q.v>>) EXCEPT !.extent = extent])
  IN EmitValue(guarded, [Op("index_address", "ptr", <<q.v>>) EXCEPT !.slot = array, !.extent = extent])

LowerExpr(e, b) ==
  CASE e.k = "int" -> Const(b, e.t, e.n)
    [] e.k = "bool" -> Const(b, "bool", e.n)
    [] e.k = "name" ->
         LET n == b.names[e.x] IN IF n.k = "slot" THEN Load(b, n.id) ELSE [b EXCEPT !.v = n.id, !.t = n.t]
    [] e.k = "bin" ->
         LET q == LowerOperands(<<e.l, e.r>>, b) IN
         EmitValue(q, Op(e.op, IF e.op \in Comparisons THEN "bool" ELSE q.t, q.vs))
    [] e.k = "call" ->
         LET q == LowerOperands(e.args, b) IN EmitValue(q, [Op("call", ReturnType(e.f), q.vs) EXCEPT !.of = e.f])
    [] e.k = "index" -> LET q == IndexAddress(e.x, e.i, b) IN EmitValue(q, Op("load", "i32", <<q.v>>))
    [] e.k = "logic" -> LowerLogical(e, b)
    [] e.k = "ife" -> LowerIfExpr(e, b)
    [] e.k = "match" -> LowerMatchExpr(e, b)
    [] e.k = "fail" -> LowerFailure(e, b)
    [] e.k = "variant" -> LowerVariant(e, b)

-----------------------------------------------------------------------------
(* Statements *)

LowerIf(t, b) ==
  LET c == AddBlocks(LowerExpr(t.c, b), 2)
      then == Len(c.blocks) - 1
      yes == LowerBlock(t.then, At(BranchOn(c, then, then + 1), then))
      other == At(yes, then + 1)
      no == IF t.else = <<>> THEN other ELSE LowerBlock(t.else, other)
      join == Len(no.blocks) + 1
      JumpIfOpen(q, block) == IF IsOpen(At(q, block)) THEN Jump(At(q, block), join) ELSE q
  IN IF IsOpen(At(no, yes.cur)) \/ IsOpen(no)
     THEN At(FoldLeft(JumpIfOpen, AddBlocks(no, 1), <<yes.cur, no.cur>>), join)
     ELSE no

LowerWhile(t, b) ==
  LET q == AddBlocks(b, 3)
      condition == Len(b.blocks) + 1
      c == LowerExpr(t.c, At(Jump(q, condition), condition))
      body == LowerBlock(t.body, At(BranchOn(c, condition + 1, condition + 2), condition + 1))
  IN At(IF IsOpen(body) THEN Jump(body, condition) ELSE body, condition + 2)

LowerForeach(t, b) ==
  LET lo == LowerExpr(t.lo, b)
      hi == LowerExpr(t.hi, lo)
      s == AddSlot(AddSlot(hi, "i32", FALSE), "i32", FALSE)
      end == LastSlot(s)
      item == end - 1
      set == AddBlocks(Put(Put(s, "store_slot", item, lo.v), "store_slot", end, hi.v), 3)
      condition == Len(set.blocks) - 2
      cursor == Load(At(Jump(set, condition), condition), item)
      limit == Load(cursor, end)
      fork == BranchOn(EmitValue(limit, Op("lt", "bool", <<cursor.v, limit.v>>)), condition + 1, condition + 2)
      body == [LowerBlock(t.body, Bind(At(fork, condition + 1), t.x, SlotName(item, "i32"))) EXCEPT !.names = b.names]
      again == Load(body, item)
      one == Const(again, "i32", 1)
      next == EmitValue(one, Op("checked_add", "i32", <<again.v, one.v>>))
      looped == Jump(Put(next, "store_slot", item, next.v), condition)
  IN At(IF IsOpen(body) THEN looped ELSE body, condition + 2)

\* tryStatement: the handlers that the body made reachable, then the join.
LowerTry(t, b) ==
  LET c == Len(b.ctxs) + 1
      ctx == [parent |-> b.scope, scope |-> Len(b.scopes) + 1, join |-> 0, record |-> 0,
              arms |-> [a \in DOMAIN t.except |-> t.except[a] @@ [record |-> 0]]]
      body == [LowerBlock(t.body, [b EXCEPT !.ctxs = Append(@, ctx), !.stack = Append(@, c)]) EXCEPT !.stack = b.stack]
      Handle(acc, a) ==
        LET arm == acc.b.ctxs[c].arms[a]
            h == acc.b.handlers[arm.record]
            input == Load([acc.b EXCEPT !.cur = h.entry, !.scope = h.scope, !.names = b.names], h.input)
            bound == Bind(Put(input, "initialize_slot", h.binding, input.v), arm.bind, SlotName(h.binding, h.t))
            done == LowerBlock(arm.body, bound)
        IN IF arm.record = 0 THEN acc
           ELSE [b |-> done, open |-> IF IsOpen(done) THEN Append(acc.open, done.cur) ELSE acc.open]
      handled == FoldLeft(Handle, [b |-> body, open |-> IF IsOpen(body) THEN <<body.cur>> ELSE <<>>], [a \in DOMAIN t.except |-> a])
      join == body.ctxs[c].join
      outside == [handled.b EXCEPT !.names = b.names, !.scope = b.scope]
      closed == FoldLeft(LAMBDA q, block : Jump(At(q, block), join), outside, handled.open)
  IN CASE body.ctxs[c].record = 0 -> body
       [] body.ctxs[c].record > 0 /\ handled.open = <<>> -> closed
       [] OTHER -> [closed EXCEPT !.cur = join, !.blocks[join].term = Unfinished]

LowerStatement(t, b) ==
  CASE t.k = "decl" ->
         LET s == AddSlot(b, t.t, FALSE)
             q == LowerExpr(t.e, Bind(s, t.x, SlotName(LastSlot(s), t.t)))
         IN Put(q, StoreOp(t.t), LastSlot(s), q.v)
    [] t.k = "assign" -> LET q == LowerExpr(t.e, b) IN Put(q, "store_slot", b.names[t.x].id, q.v)
    [] t.k = "store" ->
         LET address == IndexAddress(t.x, t.i, b)
             q == LowerExpr(t.e, address)
         IN Emit(q, Op("store", "i32", <<address.v, q.v>>))
    [] t.k = "do" -> LowerExpr(t.e, b)
    [] t.k = "return" -> LET q == LowerExpr(t.e, b) IN ReturnValue(q, q.v)
    [] t.k = "if" -> LowerIf(t, b)
    [] t.k = "while" -> LowerWhile(t, b)
    [] t.k = "foreach" -> LowerForeach(t, b)
    [] t.k = "match" -> LowerMatch(t.e, [i \in DOMAIN t.arms |-> BlockArm(t.arms[i])], 0, b)
    [] t.k = "try" -> LowerTry(t, b)
    [] t.k = "block" -> LowerBlock(t.body, b)

\* What follows a terminated block is not lowered.
LowerBlock(body, b) ==
  LET scoped == AddScope(b, b.scope)
      done == FoldLeft(LAMBDA q, t : IF IsOpen(q) THEN LowerStatement(t, q) ELSE q,
                       [scoped EXCEPT !.scope = Len(scoped.scopes)], body)
  IN [done EXCEPT !.scope = b.scope, !.names = b.names]

-----------------------------------------------------------------------------
(* Functions: LowerMirToLir for one declaration *)

\* Parameters: scalars are values, tagged ones are put in a slot, an array is one.
LowerParameter(b, p) ==
  LET id == b.vals + 1
      given == [b EXCEPT !.vals = id, !.params = @ \cup {id}, !.ptypes = Append(@, p.t)]
      s == AddSlot(given, p.t, FALSE)
  IN CASE p.t = "array" -> Bind([s EXCEPT !.slots[LastSlot(s)].extent = p.extent, !.slots[LastSlot(s)].param = id], p.x, [k |-> "array", id |-> LastSlot(s), t |-> "array"])
       [] TaggedType(p.t) -> Bind(Put(s, "initialize_slot", LastSlot(s), id), p.x, SlotName(LastSlot(s), p.t))
       [] OTHER -> Bind(given, p.x, [k |-> "value", id |-> id, t |-> p.t])

Builder(result) ==
  [blocks |-> <<EmptyBlock>>, slots |-> <<>>, scopes |-> <<0>>, patterns |-> <<>>, tries |-> <<>>, handlers |-> <<>>,
   sites |-> <<>>, ctxs |-> <<>>, stack |-> <<>>, cur |-> 1, scope |-> 1, names |-> <<>>, vals |-> 0, params |-> {},
   ptypes |-> <<>>, v |-> 0, t |-> "", vs |-> <<>>, borrow |-> FALSE, fallible |-> FALSE, err |-> "", result |-> result]

LowerFunction2Lir(u) ==
  LET done == LowerBlock(u.body, FoldLeft(LowerParameter, Builder(u.result), u.params))
      straight == \A n \in DOMAIN done.sites :
                    done.sites[n].kind = "remap" =>
                      done.blocks[done.patterns[done.sites[n].flow].arms[2].body].term.op = "return"
      kept == IF done.fallible /\ ~straight THEN Unsupported(done, "EVT2H7_UNSUPPORTED_REMAP_CONTROL") ELSE done
  IN IF IsOpen(kept) THEN Unsupported(kept, "EVT2_MISSING_RETURN") ELSE kept
=============================================================================
