----------------------------- MODULE LocalValues -----------------------------
(***************************************************************************)
(* What the local bounds analysis knows of a value, and its transfer       *)
(* functions: what it concludes from an operation, a comparison, a join of *)
(* two paths, an access that succeeded and the range of a counted loop.    *)
(* Values are intervals of int32 and lower bounds of view lengths; a       *)
(* counted loop over Len(view) relates its item to a snapshot of that      *)
(* length.  LocalBounds walks a function with them.                        *)
(*                                                                         *)
(* Syntax trees are records tagged k; `id' names a node.  The int32 domain *)
(* is -MaxInt - 1 .. MaxInt.                                               *)
(***************************************************************************)
EXTENDS Integers

CONSTANT MaxInt            \* math.MaxInt32

ASSUME BoundsAssumption == MaxInt \in Nat

None == ""                 \* an empty lengthID or belowLength
ViewNames == {"v", "w", "s"}     \* the variables of a span type; the others are int
InInt32(n) == n \in (-MaxInt - 1) .. MaxInt
Least(a, b) == IF a < b THEN a ELSE b
Most(a, b) == IF a > b THEN a ELSE b

-----------------------------------------------------------------------------
(* Abstract values *)

NoValue == [known |-> FALSE, lo |-> 0, hi |-> 0, lmin |-> 0, held |-> FALSE,
            lid |-> None, below |-> None]
LocalInterval(l, h) == [NoValue EXCEPT !.known = TRUE, !.lo = l, !.hi = h]
LocalInteger(n) == LocalInterval(n, n)
LocalView(n) == [NoValue EXCEPT !.held = TRUE, !.lmin = n]
Forgotten(v) == [v EXCEPT !.known = FALSE, !.held = FALSE, !.lid = None, !.below = None]

\* A fresh identity for the length a descriptor has from here on.
Snapshot(id, v) == IF v.held THEN [v EXCEPT !.lid = id] ELSE v

\* A state maps names to values; a name that is absent has the zero value, and
\* a name whose address is taken anywhere in the function is never trusted.
LocalGet(exposed, s, x) ==
  LET v == IF x \in DOMAIN s THEN s[x] ELSE NoValue IN
  IF x \in exposed THEN Forgotten(v) ELSE v
LocalPut(s, x, v) == [y \in DOMAIN s \cup {x} |-> IF y = x THEN v ELSE s[y]]

JoinValues(x, y) ==
  [known |-> x.known /\ y.known,
   lo |-> IF x.known /\ y.known THEN Least(x.lo, y.lo) ELSE x.lo,
   hi |-> IF x.known /\ y.known THEN Most(x.hi, y.hi) ELSE x.hi,
   held |-> x.held /\ y.held,
   lmin |-> Least(x.lmin, y.lmin),
   lid |-> IF x.lid = y.lid THEN x.lid ELSE None,
   below |-> IF x.below = y.below THEN x.below ELSE None]
LocalJoin(a, b) == [x \in DOMAIN a \cap DOMAIN b |-> JoinValues(a[x], b[x])]

\* Interval arithmetic; a result that leaves int32 is unknown, since the
\* lowered operation panics on overflow.
LocalArithmetic(op, x, y) ==
  LET products == {x.lo * y.lo, x.lo * y.hi, x.hi * y.lo, x.hi * y.hi}
      l == CASE op = "+" -> x.lo + y.lo [] op = "-" -> x.lo - y.hi
             [] op = "*" -> CHOOSE p \in products : \A q \in products : p <= q
      h == CASE op = "+" -> x.hi + y.hi [] op = "-" -> x.hi - y.lo
             [] op = "*" -> CHOOSE p \in products : \A q \in products : p >= q
  IN IF x.known /\ y.known /\ InInt32(l) /\ InInt32(h) THEN LocalInterval(l, h) ELSE NoValue

\* What the operators compute.
Apply(op, l, r) == CASE op = "+" -> l + r [] op = "-" -> l - r [] op = "*" -> l * r
Compare(op, l, r) ==
  CASE op = "<" -> l < r [] op = "<=" -> l <= r [] op = ">" -> l > r
    [] op = ">=" -> l >= r [] op = "==" -> l = r [] op = "!=" -> l /= r
Negated(op) ==
  CASE op = "<" -> ">=" [] op = "<=" -> ">" [] op = ">" -> "<="
    [] op = ">=" -> "<" [] op = "==" -> "!=" [] op = "!=" -> "=="

-----------------------------------------------------------------------------
(* What is learned on the way *)

\* The one summarised helper, int Helper(int p) { int n = p + 1; return n; }:
\* a straight line of int declarations over a constant argument.
HelperResult(p) == LocalArithmetic("+", p, LocalInteger(1))
ConstantCall(arg) == IF arg.known /\ arg.lo = arg.hi THEN HelperResult(arg) ELSE NoValue

\* A comparison with the constant `right' holds; its left side is a named int
\* or Len(view), or says nothing.
LocalCompared(exposed, left, op, right, s) ==
  LET n == right.lo
      x == left.x
      v == LocalGet(exposed, s, x)
      lo == CASE op \in {">=", "=="} -> Most(v.lo, n) [] op = ">" -> Most(v.lo, n + 1) [] OTHER -> v.lo
      hi == CASE op \in {"<=", "=="} -> Least(v.hi, n) [] op = "<" -> Least(v.hi, n - 1) [] OTHER -> v.hi
      held == [v EXCEPT !.lmin = Most(v.lmin, IF op = ">" THEN n + 1 ELSE n)]
  IN IF ~right.known \/ right.lo /= right.hi THEN s ELSE
     CASE left.k = "len" /\ v.held /\ op \in {">=", ">", "=="} -> LocalPut(s, x, held)
       [] left.k = "name" /\ v.known -> LocalPut(s, x, [v EXCEPT !.lo = lo, !.hi = hi, !.known = lo <= hi])
       [] OTHER -> s

\* The result of visiting a node: its value, the state after it, the accesses
\* proved and the private calls recorded with the length their argument has.
Visited(v, s, p, c) == [v |-> v, s |-> s, proved |-> p, calls |-> c]

\* The access view[index]: proved by the interval, or by the counted range.
\* Whatever was proved, the access succeeding shows length > index's lower end.
VisitIndex(e, base, r) ==
  LET i == r.v
      tracked == base.held /\ i.known /\ i.lo >= 0
      byInterval == i.hi < base.lmin
      byRange == base.lid /= None /\ i.below = base.lid /\ e.i.k = "name"
      after == LocalPut(r.s, e.x, [base EXCEPT !.lmin = Most(base.lmin, i.lo + 1)])
  IN Visited(NoValue, IF tracked THEN after ELSE r.s,
             IF tracked /\ (byInterval \/ byRange) THEN r.proved \cup {e.id} ELSE r.proved, r.calls)

\* The value a foreach item has in the body: only an ascending unit-step range
\* gives one; Len(view) as the upper end relates it to the view's snapshot.
RangeItem(exposed, t, lo, hi, s) ==
  LET counted == t.hi.k = "len" /\ lo.known /\ lo.lo >= 0 /\ lo.lo < MaxInt
      view == LocalGet(exposed, s, t.hi.x)
      plain == lo.known /\ hi.known /\ lo.lo < hi.hi
  IN IF counted /\ view.held /\ view.lid /= None
     THEN [LocalInterval(lo.lo, MaxInt - 1) EXCEPT !.below = view.lid]
     ELSE IF plain THEN LocalInterval(lo.lo, hi.hi - 1) ELSE NoValue

\* int parameters span int32; a view parameter is held, and at least as long
\* as every private caller makes it.
ParameterValue(x, least) ==
  IF x \in ViewNames THEN Snapshot(x, LocalView(least)) ELSE LocalInterval(-MaxInt - 1, MaxInt)

\* calls.bounds: the least length over all the closed calls of an instance; a
\* call the analysis never visited gives zero.
RecordedLength(seen, c) ==
  IF \E q \in seen : q[1] = c.id THEN CHOOSE n \in {q[2] : q \in {r \in seen : r[1] = c.id}} : TRUE ELSE 0
CallBounds(sites, seen, f) ==
  LET lengths == {RecordedLength(seen, c) : c \in {d \in sites : d.f = f}}
  IN IF lengths = {} THEN 0 ELSE CHOOSE n \in lengths : \A m \in lengths : n <= m
=============================================================================
