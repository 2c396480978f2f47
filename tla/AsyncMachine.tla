----------------------------- MODULE AsyncMachine -----------------------------
(***************************************************************************)
(* An async operation at run time: a bounded stack of generated frames.    *)
(* One step runs the top frame from its state until it pushes a child,     *)
(* adopts another operation's frames, or finishes; the outcome of the      *)
(* frame that finished waits in the operation for the frame it reveals.    *)
(*                                                                         *)
(* The same functions are also run directly, as their source reads, to say *)
(* what the operation must come to.                                        *)
(***************************************************************************)
EXTENDS AsyncGraph

CONSTANTS AsyncUnits,      \* the programs compiled: records [fns, main]
          AsyncArguments,  \* the values main is called with
          AsyncMeaning,    \* what main comes to: AsyncMeant
          StackCapacity    \* evt1MachineStackCapacity

VARIABLES aUnit, aArgument, aCode, aOperation, aOut, aStatus
asyncVars == <<aUnit, aArgument, aCode, aOperation, aOut, aStatus>>

-----------------------------------------------------------------------------
(* Running statements.  m is the state of a run: vars, the lexical layers;   *)
(* frame, the fields; out, what was emitted; end, "go" or how the run ended; *)
(* v, the last value; deep, the deepest await so far.                        *)

NoOutcome == [size |-> "none", v |-> 0]
Start(fns, source, fields, frame) ==
  [fns |-> fns, source |-> source, fields |-> fields, vars |-> <<<<>>>>, frame |-> frame,
   out |-> <<>>, end |-> "go", v |-> 0, deep |-> 0]

Declared(m, x) == {i \in DOMAIN m.vars : x \in DOMAIN m.vars[i]}
InnerLayer(m, x) == CHOOSE i \in Declared(m, x) : \A j \in Declared(m, x) : j <= i
Known(m, x) == Declared(m, x) /= {} \/ x \in m.fields
ReadName(m, x) == IF Declared(m, x) /= {} THEN m.vars[InnerLayer(m, x)][x] ELSE m.frame[x]
WriteName(m, x, v) ==
  IF Declared(m, x) /= {} THEN [m EXCEPT !.vars[InnerLayer(m, x)][x] = v] ELSE [m EXCEPT !.frame[x] = v]

\* A new operation has one frame, in the entry state, with the parameters set.
NewFrame(code, f, arg) ==
  [fn |-> f, state |-> code[f].entry,
   fields |-> [x \in code[f].persistent |-> IF x \in code[f].params THEN arg ELSE 0]]
NewOperation(code, f, arg) ==
  [frames |-> <<NewFrame(code, f, arg)>>, done |-> FALSE, result |-> NoOutcome, outcome |-> NoOutcome]

RECURSIVE StepOperation(_, _)
RECURSIVE CallSource(_, _, _)
RECURSIVE EvaluateExpr(_, _)

\* x.Step(): an operation is a value, and the step changes the variable.
Driven(e, m, r) ==
  IF r.end = "go" THEN [WriteName(m, e.x, r.op) EXCEPT !.out = @ \o r.out] ELSE [m EXCEPT !.end = r.end]
\* In the source an await is a call of the operation's function.
Awaited(m, r) ==
  [m EXCEPT !.v = r.v, !.out = @ \o r.out, !.deep = IF r.deep + 1 > @ THEN r.deep + 1 ELSE @]

EvaluateExpr(e, m) ==
  LET Then(q, Next(_)) == IF q.end = "go" THEN Next(q) ELSE q
      Give(q, v) == [q EXCEPT !.v = v]
  IN
  CASE m.end /= "go" -> m
    [] \E x \in AnalyzedNames(e) : ~Known(m, x) -> [m EXCEPT !.end = "undeclared"]
    [] e.k = "int" -> Give(m, e.n)
    [] e.k \in {"name", "moved"} -> Give(m, ReadName(m, e.x))
    [] e.k = "construct" -> EvaluateExpr(e.e, m)
    [] e.k = "outcome" -> Give(m, m.frame["#await"])
    [] e.k = "fail" -> Give(m, [ok |-> FALSE, n |-> 0, err |-> e.err])
    [] e.k = "ok" -> Then(EvaluateExpr(e.e, m), LAMBDA a : Give(a, [ok |-> TRUE, n |-> a.v, err |-> "none"]))
    [] e.k \in {"add", "less"} ->
         LET a == EvaluateExpr(e.l, m) IN
         Then(EvaluateExpr(e.r, a), LAMBDA b :
           Give(b, IF e.k = "add" THEN a.v + b.v ELSE IF a.v < b.v THEN 1 ELSE 0))
    [] e.k = "emit" -> Then(EvaluateExpr(e.e, m), LAMBDA a : [a EXCEPT !.out = Append(@, a.v)])
    [] e.k = "call" ->
         Then(EvaluateExpr(e.arg, m), LAMBDA a :
           Give(a, IF m.source THEN [f |-> e.f, arg |-> a.v] ELSE NewOperation(m.fns, e.f, a.v)))
    [] e.k = "step" ->
         IF m.source THEN m ELSE Driven(e, m, StepOperation(m.fns, ReadName(m, e.x)))
    [] e.k = "await" -> Then(EvaluateExpr(e.e, m), LAMBDA a : Awaited(a, CallSource(m.fns, a.v.f, a.v.arg)))
    [] e.k = "try" ->
         Then(EvaluateExpr(e.e, m), LAMBDA a : IF a.v.ok THEN Give(a, a.v.n) ELSE [a EXCEPT !.end = "error"])

RECURSIVE ExecStatement(_, _)
Exec(b, m) == FoldLeft(LAMBDA q, t : IF q.end = "go" THEN ExecStatement(t, q) ELSE q, m, b)
Scoped(b, layer, m) == [Exec(b, [m EXCEPT !.vars = Append(@, layer)]) EXCEPT !.vars = Front(@)]

RECURSIVE ExecWhile(_, _, _)
NextPass(t, passes, q) == IF q.end = "go" THEN ExecWhile(t, passes + 1, q) ELSE q
WhileDecided(t, passes, c) ==
  CASE c.end /= "go" \/ c.v = 0 -> c
    [] c.end = "go" /\ c.v /= 0 /\ t.bound >= 0 /\ passes >= t.bound -> Scoped(t.else, <<>>, c)
    [] OTHER -> NextPass(t, passes, Scoped(t.body, <<>>, c))
ExecWhile(t, passes, m) == WhileDecided(t, passes, EvaluateExpr(t.c, m))

TryEnded(t, q) ==
  IF q.end = "error" /\ q.v.err = t.arm.error
  THEN Scoped(t.arm.body, t.arm.bind :> 0, [q EXCEPT !.end = "go"]) ELSE q

ForeachRange(t, lo, hi) ==
  FoldLeft(LAMBDA q, i : IF q.end = "go" THEN Scoped(t.body, t.x :> (lo + i - 1), q) ELSE q,
           hi, [i \in 1 .. (hi.v - lo) |-> i])

\* The statement once its expression has the value a.v.  At the top of a state
\* a declaration of a field sets the field, and a return finishes the
\* operation; a return below it is a plain C return of a value from the void
\* step function, which the C compiler rejects.
WithValue(t, top, m, a) ==
  LET arm == t.arms[(a.v % 2) + 1] IN
  CASE a.end /= "go" \/ t.k = "use" -> a
    [] a.end = "go" /\ t.k = "decl" ->
         IF top /\ t.x \in m.fields THEN [a EXCEPT !.frame[t.x] = a.v]
         ELSE [a EXCEPT !.vars[Len(a.vars)] = (t.x :> a.v) @@ @]
    [] a.end = "go" /\ t.k = "assign" -> IF Known(a, t.x) THEN WriteName(a, t.x, a.v) ELSE [a EXCEPT !.end = "undeclared"]
    [] a.end = "go" /\ t.k = "return" -> [a EXCEPT !.end = IF top \/ m.source THEN "return" ELSE "plain_return"]
    [] a.end = "go" /\ t.k = "if" -> Scoped(IF a.v = 1 THEN t.then ELSE t.else, <<>>, a)
    [] a.end = "go" /\ t.k = "match" -> Scoped(arm.body, arm.bind :> a.v, a)
    [] a.end = "go" /\ t.k = "foreach" -> ForeachRange(t, EvaluateExpr(t.lo, m).v, a)

ExecStatement(t, m) ==
  CASE t.k = "while" -> ExecWhile(t, 0, m)
    [] t.k = "block" -> Scoped(t.body, <<>>, m)
    [] t.k = "tryexcept" -> TryEnded(t, Scoped(t.body, <<>>, m))
    [] OTHER -> WithValue(t, Len(m.vars) = 1 /\ ~m.source, m, EvaluateExpr(ValueOf(t), m))

\* The function as its source reads; an error that no handler takes is returned.
CallSource(fns, f, arg) ==
  Exec(fns[f].body, [Start(fns, TRUE, {}, <<>>) EXCEPT !.vars = <<[x \in fns[f].params |-> arg]>>])

AsyncMeant ==
  LET Meaning(u, n) == CallSource(u.fns, u.main, n) IN [u \in AsyncUnits |-> [n \in AsyncArguments |-> Meaning(u, n)]]

-----------------------------------------------------------------------------
(* The runtime and the generated states *)

\* concept_async_finish
Finish(op, outcome) ==
  LET rest == Front(op.frames) IN
  [op EXCEPT !.frames = rest, !.outcome = outcome,
             !.done = rest = <<>>, !.result = IF rest = <<>> THEN outcome ELSE @]

\* Mutant: the depth is compared after the push, with room for one frame too many.
CanPushOneMore(op, frames) == Len(op.frames) + Len(frames) <= StackCapacity + 1

\* concept_async_push and concept_async_adopt: frames go on top, up to the capacity.
CanPush(op, frames) == Len(op.frames) + Len(frames) <= StackCapacity
PushFrames(op, frames) == [op EXCEPT !.frames = @ \o frames]

SetTop(op, state, fields) == [op EXCEPT !.frames[Len(op.frames)] = [@ EXCEPT !.state = state, !.fields = fields]]
Stepped(op, m) == [op |-> op, out |-> m.out, end |-> m.end]
Aborted(op, m, why) == [op |-> op, out |-> m.out, end |-> why]

RECURSIVE RunState(_, _, _)

\* async_dispatch: go on in another state, within the same step.
Goto(code, op, m, state) == RunState(code, SetTop(op, state, m.frame), m.out)

\* The child goes on top, or the operation awaited is there already.
Suspend(code, op, resume, a) ==
  CASE a.end /= "go" -> Stepped(op, a)
    [] a.end = "go" /\ a.v.done -> Goto(code, [op EXCEPT !.outcome = a.v.result], a, resume)
    [] a.end = "go" /\ ~a.v.done ->
         IF CanPush(op, a.v.frames) THEN Stepped(PushFrames(SetTop(op, resume, a.frame), a.v.frames), a)
         ELSE Aborted(op, a, "capacity")

\* The outcome was taken into the frame and the rest of the statement was run.
\* A failed `?' goes to the handler of its error, or finishes the function.
Resumed(code, op, n, q) ==
  LET fn == code[Last(op.frames).fn]
      Gone == [q EXCEPT !.end = "go"]
  IN CASE q.end = "error" ->
            IF q.v.err \in DOMAIN n.handlers
            THEN Goto(code, op, [Gone EXCEPT !.frame[n.handlers[q.v.err].bind] = 0], n.handlers[q.v.err].to)
            ELSE IF fn.gives = "result" THEN Stepped(Finish(op, [size |-> "result", v |-> q.v]), Gone)
            ELSE Aborted(op, q, "unhandled_error")
       [] q.end = "return" -> Stepped(Finish(op, [size |-> fn.gives, v |-> q.v]), Gone)
       [] q.end = "go" -> Goto(code, op, q, n.next)
       [] OTHER -> Stepped(op, q)
Resume(code, op, m, n) ==
  IF op.outcome.size /= n.expects THEN Aborted(op, m, "size_mismatch")
  ELSE Resumed(code, op, n, ExecStatement(n.resume[1], [m EXCEPT !.frame = ("#await" :> op.outcome.v) @@ @]))

Counter(kind, id) == "#" \o kind \o ToString(id)
SetField(m, x, v) == [m EXCEPT !.frame = (x :> v) @@ @]

\* The arm of a matched value, its binding kept when it is a field.
Matched(code, op, n, c) ==
  LET arm == n.arms[(c.v % 2) + 1] IN
  IF c.end /= "go" THEN Stepped(op, c)
  ELSE Goto(code, op, IF arm.bind \in c.fields THEN SetField(c, arm.bind, c.v) ELSE c, arm.to)

\* A condition has been computed, c.v.
Decided(code, op, n, id, c) ==
  LET passes == Counter("loop", id)
      to == CASE n.kind = "Branch" -> IF c.v = 1 THEN n.true ELSE n.false
              [] n.kind = "LoopHeader" ->
                   IF c.v = 0 THEN n.false
                   ELSE IF n.bound < 0 \/ c.frame[passes] < n.bound THEN n.true
                   ELSE IF n.exhausted /= 0 THEN n.exhausted ELSE n.false
  IN IF c.end = "go" THEN Goto(code, op, c, to) ELSE Stepped(op, c)

\* The cursor and the end of a foreach, and the item at the cursor.
StartForeach(code, op, m, n, x, lo, hi) ==
  IF hi.end /= "go" THEN Stepped(op, hi)
  ELSE Goto(code, op, SetField(SetField(m, Counter("index", x), lo.v), Counter("source", x), hi.v), n.next)
ForeachItem(code, op, m, n, x) ==
  LET at == m.frame[Counter("index", x)]
      more == at < m.frame[Counter("source", x)]
  IN Goto(code, op, IF more THEN [m EXCEPT !.frame[x] = at] ELSE m, IF more THEN n.true ELSE n.false)

\* The operations of a state after its ordinary statements.
Dispatch(code, op, m, n, id) ==
  LET To(q) == Goto(code, op, q, n.next)
      each == CHOOSE t \in n.each : TRUE
      cursor == Counter("index", each.x)
      count == Counter("loop", n.next)
  IN CASE n.kind \in {"BasicBlock", "Join"} -> To(m)
       [] n.kind = "AwaitSuspend" -> Suspend(code, op, n.next, EvaluateExpr((CHOOSE e \in n.await : TRUE).e, m))
       [] n.kind = "AfterAwait" -> Resume(code, op, m, n)
       [] n.kind = "MatchDispatch" -> Matched(code, op, n, EvaluateExpr(CHOOSE e \in n.c : TRUE, m))
       [] n.kind \in {"Branch", "LoopHeader"} ->
            Decided(code, op, n, id, EvaluateExpr(CHOOSE e \in n.c : TRUE, m))
       [] n.kind = "LoopInit" -> To(SetField(m, count, 0))
       [] n.kind = "LoopBackedge" -> To(SetField(m, count, m.frame[count] + 1))
       [] n.kind = "ForeachInit" -> 
            StartForeach(code, op, m, n, each.x, EvaluateExpr(each.lo, m), EvaluateExpr(each.hi, m))
       [] n.kind = "ForeachHeader" -> ForeachItem(code, op, m, n, each.x)
       [] n.kind = "ForeachContinue" -> To(SetField(m, cursor, m.frame[cursor] + 1))
       [] n.kind = "Complete" -> Aborted(op, m, "no_value")

\* The ordinary statements of a state have been run.
Entered(code, op, n, q) ==
  CASE q.end = "go" -> Dispatch(code, op, q, n, Last(op.frames).state)
    [] q.end = "return" ->
         Stepped(Finish(op, [size |-> code[Last(op.frames).fn].gives, v |-> q.v]), [q EXCEPT !.end = "go"])
    [] OTHER -> Stepped(op, q)
RunState(code, op, out) ==
  LET top == Last(op.frames)
      fn == code[top.fn]
      n == fn.nodes[top.state]
  IN Entered(code, op, n, Exec(n.pre, [Start(code, FALSE, fn.persistent, top.fields) EXCEPT !.out = out]))

\* concept_async_step
StepOperation(code, op) ==
  IF op.done THEN [op |-> op, out |-> <<>>, end |-> "go"] ELSE RunState(code, op, <<>>)

-----------------------------------------------------------------------------
(* Compiling a program, and driving its main operation *)

AsyncTypeOK ==
  /\ aUnit \in AsyncUnits
  /\ aArgument \in AsyncArguments
  /\ aStatus \in {"source", "running", "complete", "aborted"}
  /\ aStatus = "running" => Len(aOperation.frames) \in 1 .. StackCapacity
  /\ aStatus = "complete" => aOperation.done /\ aOperation.frames = <<>>

AsyncInit ==
  /\ aUnit \in AsyncUnits /\ aArgument \in AsyncArguments
  /\ aCode = <<>> /\ aOperation = <<>> /\ aOut = <<>> /\ aStatus = "source"

ConstructOperation ==
  /\ aStatus = "source"
  /\ aStatus' = "running"
  /\ aCode' = [f \in DOMAIN aUnit.fns |-> AsyncCompiled(aUnit.fns[f])]
  /\ aOperation' = NewOperation(aCode', aUnit.main, aArgument)
  /\ UNCHANGED <<aUnit, aArgument, aOut>>

StepAsync ==
  /\ aStatus = "running"
  /\ LET r == StepOperation(aCode, aOperation) IN
     /\ aOperation' = r.op
     /\ aOut' = aOut \o r.out
     /\ aStatus' = CASE r.end /= "go" -> "aborted" [] r.end = "go" /\ r.op.done -> "complete" [] OTHER -> "running"
  /\ UNCHANGED <<aUnit, aArgument, aCode>>

AsyncNext == ConstructOperation \/ StepAsync
AsyncSpec == AsyncInit /\ [][AsyncNext]_asyncVars

\* Driving the generated machine to its end comes to what the source says: the
\* same emissions in the same order and the same result, however the function
\* was cut into states; it aborts only when the stack is too small for it.
AsyncFollowsSource ==
  LET source == AsyncMeaning[aUnit][aArgument] IN
  /\ aStatus = "complete" => aOut = source.out /\ aOperation.result.v = source.v
  /\ aStatus = "aborted" => source.deep >= StackCapacity
=============================================================================
