------------------------------ MODULE AsyncGraph ------------------------------
(***************************************************************************)
(* The compiler's normalization of an async function: its structured body  *)
(* becomes a graph of generated states, cut at every await, and the names  *)
(* that a state may find set by an earlier one become fields of the frame. *)
(*                                                                         *)
(* A function is [params, body, gives] with gives "int" or "result".       *)
(* Syntax trees are records tagged k.  Node 1 is the completion.           *)
(***************************************************************************)
EXTENDS Integers, Sequences, SequencesExt, FiniteSets, TLC

-----------------------------------------------------------------------------
(* Names and awaits of expressions and statements *)

\* evt1ExprNames: it does not look into a construction.
RECURSIVE ExprNames(_)
ExprNames(e) ==
  CASE e.k \in {"name", "moved"} -> {e.x}
    [] e.k \in {"int", "construct", "outcome", "fail"} -> {}
    [] e.k \in {"add", "less"} -> ExprNames(e.l) \cup ExprNames(e.r)
    [] e.k \in {"await", "try", "emit", "ok"} -> ExprNames(e.e)
    [] e.k = "call" -> ExprNames(e.arg)
    [] e.k = "step" -> {e.x}

\* The visitor of evt1AnalyzeAsync does.
RECURSIVE AnalyzedNames(_)
AnalyzedNames(e) ==
  CASE e.k = "construct" -> AnalyzedNames(e.e)
    [] e.k \in {"add", "less"} -> AnalyzedNames(e.l) \cup AnalyzedNames(e.r)
    [] e.k \in {"await", "try", "emit", "ok"} -> AnalyzedNames(e.e)
    [] e.k = "call" -> AnalyzedNames(e.arg)
    [] OTHER -> ExprNames(e)

\* evt1DirectAwait: the await a statement's value waits for; and the statement
\* that is resumed, which reads the outcome of the await from the frame.
RECURSIVE AwaitsIn(_)
AwaitsIn(e) ==
  CASE e.k = "await" -> {e}
    [] e.k \in {"try", "ok"} -> AwaitsIn(e.e)
    [] e.k = "add" -> AwaitsIn(e.l) \cup AwaitsIn(e.r)
    [] OTHER -> {}
Simple == {"decl", "assign", "return", "use"}
DirectAwait(t) == IF t.k \in Simple THEN AwaitsIn(t.e) ELSE {}

RECURSIVE ReplaceAwait(_)
ReplaceAwait(e) ==
  CASE e.k = "await" -> [k |-> "outcome"]
    [] e.k \in {"try", "ok"} -> [e EXCEPT !.e = ReplaceAwait(e.e)]
    [] e.k = "add" -> [e EXCEPT !.l = ReplaceAwait(e.l), !.r = ReplaceAwait(e.r)]
    [] OTHER -> e

\* The blocks of a structured statement, in source order.
Blocks(t) ==
  CASE t.k = "if" -> <<t.then, t.else>>
    [] t.k = "while" -> <<t.body, t.else>>
    [] t.k \in {"foreach", "block"} -> <<t.body>>
    [] t.k = "match" -> <<t.arms[1].body, t.arms[2].body>>
    [] t.k = "tryexcept" -> <<t.body, t.arm.body>>
    [] OTHER -> <<>>
ValueOf(t) == CASE t.k \in Simple -> t.e [] t.k \in {"if", "while"} -> t.c
                [] t.k = "match" -> t.e [] t.k = "foreach" -> t.hi [] OTHER -> [k |-> "int", n |-> 0]

RECURSIVE ContainsAwait(_)
ContainsAwait(t) ==
  \/ DirectAwait(t) /= {}
  \/ \E i \in DOMAIN Blocks(t) : \E j \in DOMAIN Blocks(t)[i] : ContainsAwait(Blocks(t)[i][j])
BlockAwaits(b) == \E j \in DOMAIN b : ContainsAwait(b[j])

\* evt1AsyncBlockContainsReturn: it looks into blocks, branches and arms only.
RECURSIVE BlockReturns(_)
BlockReturns(b) ==
  \E j \in DOMAIN b :
    \/ b[j].k = "return"
    \/ b[j].k \in {"block", "if", "match"} /\ \E i \in DOMAIN Blocks(b[j]) : BlockReturns(Blocks(b[j])[i])

-----------------------------------------------------------------------------
(* evt1AnalyzeAsync: every statement, nested ones included, in source order *)

RECURSIVE SourceOrder(_)
SourceOrder(b) ==
  FlattenSeq([i \in DOMAIN b |-> <<b[i]>> \o FlattenSeq([j \in DOMAIN Blocks(b[i]) |-> SourceOrder(Blocks(b[i])[j])])])

SiteNames(t) == ExprNames(ValueOf(t)) \cup (CASE t.k = "assign" -> {t.x} [] t.k = "foreach" -> ExprNames(t.lo) [] OTHER -> {})
BlockUsesName(b, x) == \E t \in ToSet(SourceOrder(b)) : x \in SiteNames(t)

DeclaredName(t) == CASE t.k = "decl" -> {t.x} [] t.k = "foreach" -> {t.x} [] OTHER -> {}
StatementNames(t) ==
  AnalyzedNames(ValueOf(t)) \cup (CASE t.k = "assign" -> {t.x} [] t.k = "foreach" -> AnalyzedNames(t.lo) [] OTHER -> {})

\* Declared up to statement number `at' and used after it.
LiveAcross(fn, at) ==
  LET order == SourceOrder(fn.body)
      declared == fn.params \cup UNION {DeclaredName(order[i]) : i \in 1 .. at}
      usedAfter == UNION {StatementNames(order[i]) : i \in (at + 1) .. Len(order)}
  IN declared \cap usedAfter

-----------------------------------------------------------------------------
(* evt1NormalizeAsyncCFG *)

NewNode(kind) ==
  [kind |-> kind, pre |-> <<>>, next |-> 0, await |-> {}, expects |-> "none", resume |-> <<>>, c |-> {}, true |-> 0, false |-> 0,
   exhausted |-> 0, bound |-> -1, arms |-> <<>>, each |-> {}, handlers |-> <<>>]
AddNode(g, kind) == [g EXCEPT !.nodes = Append(@, NewNode(kind))]
NodeId(g) == Len(g.nodes)                        \* of the node just added
Built(g, entry) == [g |-> g, entry |-> entry]

RECURSIVE Compile(_, _, _)

\* The statements after the first one that is split; the ones before it are
\* the ordinary statements of its first node.
CompileAwait(t, before, after) ==
  LET r == AddNode(after.g, "AfterAwait")
      s == AddNode(r, "AwaitSuspend")
  IN Built([s EXCEPT !.nodes[NodeId(r)].resume = <<[t EXCEPT !.e = ReplaceAwait(@)]>>, !.nodes[NodeId(r)].next = after.entry,
                     !.nodes[NodeId(r)].handlers = s.handlers,
                     !.nodes[NodeId(r)].expects = (CHOOSE e \in DirectAwait(t) : TRUE).gives,
                     !.nodes[NodeId(s)].pre = before, !.nodes[NodeId(s)].await = DirectAwait(t),
                     !.nodes[NodeId(s)].next = NodeId(r)], NodeId(s))

JoinAt(after) ==
  LET j == AddNode(after.g, "Join") IN Built([j EXCEPT !.nodes[NodeId(j)].next = after.entry], NodeId(j))

CompileIf(t, before, after) ==
  LET join == JoinAt(after)
      a == Compile(t.then, join.entry, join.g)
      b == Compile(t.else, join.entry, a.g)
      n == AddNode(b.g, "Branch")
  IN Built([n EXCEPT !.nodes[NodeId(n)].pre = before, !.nodes[NodeId(n)].c = {t.c},
                     !.nodes[NodeId(n)].true = a.entry, !.nodes[NodeId(n)].false = b.entry], NodeId(n))

\* The name a pattern binds is a field of the frame if its arm uses it.
CompileMatch(t, before, after) ==
  LET join == JoinAt(after)
      d == AddNode(join.g, "MatchDispatch")
      a == Compile(t.arms[1].body, join.entry, d)
      b == Compile(t.arms[2].body, join.entry, a.g)
      targets == <<[bind |-> t.arms[1].bind, to |-> a.entry], [bind |-> t.arms[2].bind, to |-> b.entry]>>
  IN Built([b.g EXCEPT !.nodes[NodeId(d)].pre = before, !.nodes[NodeId(d)].c = {t.e}, !.nodes[NodeId(d)].arms = targets,
                       !.fields = @ \cup {arm.bind : arm \in {q \in ToSet(t.arms) : BlockUsesName(q.body, q.bind)}}], NodeId(d))

CompileWhile(t, before, after) ==
  LET init == AddNode(after.g, "LoopInit")
      header == AddNode(init, "LoopHeader")
      back == AddNode(header, "LoopBackedge")
      else == IF t.else = <<>> THEN Built(back, 0) ELSE Compile(t.else, after.entry, back)
      body == Compile(t.body, NodeId(back), else.g)
  IN Built([body.g EXCEPT !.nodes[NodeId(init)].pre = before, !.nodes[NodeId(init)].next = NodeId(header),
                          !.nodes[NodeId(back)].next = NodeId(header),
                          !.nodes[NodeId(header)] = [@ EXCEPT !.c = {t.c}, !.true = body.entry, !.false = after.entry,
                                                              !.exhausted = else.entry, !.bound = t.bound]],
           NodeId(init))

CompileForeach(t, before, after) ==
  LET init == AddNode(after.g, "ForeachInit")
      header == AddNode(init, "ForeachHeader")
      back == AddNode(header, "ForeachContinue")
      body == Compile(t.body, NodeId(back), back)
  IN Built([body.g EXCEPT !.nodes[NodeId(init)] = [@ EXCEPT !.pre = before, !.next = NodeId(header), !.each = {t}],
                          !.nodes[NodeId(header)] = [@ EXCEPT !.true = body.entry, !.false = after.entry, !.each = {t}],
                          !.nodes[NodeId(back)] = [@ EXCEPT !.next = NodeId(header), !.each = {t}],
                          !.foreaches = @ \cup {t}], NodeId(init))

\* While the body is compiled the handlers are this try's, and only this try's.
CompileTry(t, before, after) ==
  LET join == JoinAt(after)
      arm == Compile(t.arm.body, join.entry, [join.g EXCEPT !.fields = @ \cup {t.arm.bind}])
      handler == t.arm.error :> [to |-> arm.entry, bind |-> t.arm.bind]
      body == Compile(t.body, join.entry, [arm.g EXCEPT !.handlers = handler])
      done == [body.g EXCEPT !.handlers = after.g.handlers]
      n == AddNode(done, "BasicBlock")
  IN IF before = <<>> THEN Built(done, body.entry)
     ELSE Built([n EXCEPT !.nodes[NodeId(n)].pre = before, !.nodes[NodeId(n)].next = body.entry], NodeId(n))

Splits(t) ==
  \/ ContainsAwait(t) /\ t.k /= "block"
  \/ t.k = "if" /\ (BlockReturns(t.then) \/ BlockReturns(t.else))
  \/ t.k = "match" /\ \E i \in {1, 2} : BlockReturns(t.arms[i].body)

Compile(b, next, g) ==
  LET cuts == {i \in DOMAIN b : Splits(b[i])}
      cut == CHOOSE i \in cuts : \A j \in cuts : i <= j
      before == SubSeq(b, 1, cut - 1)
      after == Compile(SubSeq(b, cut + 1, Len(b)), next, g)
      n == AddNode(g, "BasicBlock")
  IN CASE b = <<>> -> Built(g, next)
       [] b /= <<>> /\ cuts = {} ->
            Built([n EXCEPT !.nodes[NodeId(n)].pre = b, !.nodes[NodeId(n)].next = next], NodeId(n))
       [] cuts /= {} ->
            LET t == b[cut] IN
            CASE t.k \in Simple -> CompileAwait(t, before, after)
              [] t.k = "if" -> CompileIf(t, before, after)
              [] t.k = "match" -> CompileMatch(t, before, after)
              [] t.k = "while" -> CompileWhile(t, before, after)
              [] t.k = "foreach" -> CompileForeach(t, before, after)
              [] t.k = "tryexcept" -> CompileTry(t, before, after)

EmptyGraph == [nodes |-> <<NewNode("Complete")>>, fields |-> {}, foreaches |-> {}, handlers |-> <<>>]
NormalizeAsyncCFG(fn) == Compile(fn.body, 1, EmptyGraph)

\* finalize: the nodes that the entry reaches, in the order of a first visit.
Successors(n) ==
  <<n.next, n.true, n.false, n.exhausted>> \o [i \in DOMAIN n.arms |-> n.arms[i].to]
    \o [i \in DOMAIN SetToSeq(DOMAIN n.handlers) |-> n.handlers[SetToSeq(DOMAIN n.handlers)[i]].to]
RECURSIVE Visit(_, _, _)
Visit(g, visited, id) ==
  IF id = 0 \/ id \in ToSet(visited) THEN visited
  ELSE FoldLeft(LAMBDA seen, n : Visit(g, seen, n), Append(visited, id), Successors(g.nodes[id]))

-----------------------------------------------------------------------------
(* evt1AsyncPersistentMap *)

\* Where a node declares and uses names; nested statements are the node's own.
DeclaredAt(n) == UNION {IF t.k = "decl" THEN {t.x} ELSE {} : t \in ToSet(SourceOrder(n.pre \o n.resume))}
UsedAt(n) ==
  UNION {SiteNames(t) : t \in ToSet(SourceOrder(n.pre \o n.resume))}
  \cup UNION {ExprNames(e) : e \in n.c \cup n.await} \cup UNION {ExprNames(t.lo) \cup ExprNames(t.hi) : t \in n.each}


CrossStateNames(nodes) ==
  {x \in UNION {DeclaredAt(nodes[i]) : i \in DOMAIN nodes} :
     LET decl == CHOOSE i \in DOMAIN nodes : x \in DeclaredAt(nodes[i]) /\ \A j \in DOMAIN nodes : x \in DeclaredAt(nodes[j]) => j <= i
     IN \E j \in DOMAIN nodes : j /= decl /\ x \in UsedAt(nodes[j])}

DeclTypes(fn) == fn.params \cup UNION {DeclaredName(t) : t \in ToSet(SourceOrder(fn.body))}

\* What is live across an await, what crosses states, and what the generated
\* states hand over themselves: pattern bindings and foreach progress.
PersistentMap(fn, cfg) ==
  LET order == SourceOrder(fn.body)
      visited == Visit(cfg.g, <<>>, cfg.entry)
      awaits == {i \in DOMAIN order : DirectAwait(order[i]) /= {}}
  IN fn.params
     \cup UNION {LiveAcross(fn, i) : i \in awaits}
     \cup {fn.body[i].x : i \in {j \in DOMAIN fn.body : fn.body[j].k = "decl" /\ DirectAwait(fn.body[j]) /= {}}}
     \cup (CrossStateNames([i \in DOMAIN visited |-> cfg.g.nodes[visited[i]]]) \cap DeclTypes(fn))
     \cup cfg.g.fields
     \cup UNION {{t.x} \cup ((ExprNames(t.lo) \cup ExprNames(t.hi)) \cap DeclTypes(fn)) : t \in cfg.g.foreaches}

AsyncCompiled(fn) ==
  LET cfg == NormalizeAsyncCFG(fn) IN
  [nodes |-> cfg.g.nodes, entry |-> cfg.entry, persistent |-> PersistentMap(fn, cfg), params |-> fn.params, gives |-> fn.gives]
=============================================================================
