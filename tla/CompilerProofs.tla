----------------------------- MODULE CompilerProofs -----------------------------
(***************************************************************************)
(* The compiler, for every width of its integers.  What the selected AMD64 *)
(* operations and condition codes make of bit patterns is what LIR makes   *)
(* of integers; LIR that VerifyLIR accepts reads nothing that is not there *)
(* when it runs; and what the bounds analysis concludes from a state that  *)
(* is true of the variables is true, an access it proves among it.         *)
(***************************************************************************)
EXTENDS LocalValues, LirMachine, MachineRun, FiniteSetTheorems, SequenceTheorems, WellFoundedInduction, TLAPS

-----------------------------------------------------------------------------
(* Remainders                                                               *)

LEMMA Division ==
  ASSUME NEW x \in Int, NEW w \in Nat \ {0}
  PROVE  /\ x % w \in 0 .. w - 1 /\ x \div w \in Int
         /\ x = w * (x \div w) + (x % w)
OBVIOUS

\* 0 is the only multiple of w within w of 0.
LEMMA SmallMultiple ==
  ASSUME NEW w \in Nat \ {0}, NEW d \in Int, w * d < w, -w < w * d
  PROVE  d = 0
<1>1. CASE d >= 1
  <2>1. w * d >= w
    BY <1>1, SMT
  <2>2. QED
    BY <2>1
<1>2. CASE d <= -1
  <2>1. w * (-d) >= w
    BY <1>2, SMT
  <2>2. w * d <= -w
    BY <2>1
  <2>3. QED
    BY <2>2
<1>3. QED
  BY <1>1, <1>2

\* The remainder is the only number below w that differs by a multiple of w.
LEMMA RemainderUnique ==
  ASSUME NEW w \in Nat \ {0}, NEW q \in Int, NEW r \in 0 .. w - 1
  PROVE  (w * q + r) % w = r
<1> DEFINE x == w * q + r
           d == (x \div w) - q
<1>1. x \in Int
  OBVIOUS
<1>2. /\ x % w \in 0 .. w - 1 /\ x \div w \in Int
      /\ x = w * (x \div w) + (x % w)
  BY <1>1, Division
<1>3. d \in Int
  BY <1>2
<1>4. w * d = r - (x % w)
  <2> HIDE DEF x
  <2>1. w * (x \div w) + (x % w) = w * q + r
    BY <1>2 DEF x
  <2>2. QED
    BY <1>2, <2>1
<1>5. d = 0
  <2> HIDE DEF d, x
  <2>1. w * d < w /\ -w < w * d
    BY <1>2, <1>4
  <2>2. QED
    BY <1>3, <2>1, SmallMultiple
<1>6. r - (x % w) = 0
  <2> HIDE DEF d, x
  <2>1. QED
    BY <1>4, <1>5
<1>7. QED
  <2> HIDE DEF x
  <2>1. r = x % w
    BY <1>2, <1>6
  <2>2. QED
    BY <2>1 DEF x

\* What differs by a multiple of w has the same remainder.
LEMMA RemainderShift ==
  ASSUME NEW w \in Nat \ {0}, NEW x \in Int, NEW k \in Int
  PROVE  (x + w * k) % w = x % w
<1> DEFINE q == (x \div w) + k
           r == x % w
<1>1. r \in 0 .. w - 1 /\ x \div w \in Int /\ x = w * (x \div w) + r
  BY Division
<1>2. q \in Int
  BY <1>1
<1>3. x + w * k = w * q + r
  BY <1>1
<1>4. QED
  BY <1>1, <1>2, <1>3, RemainderUnique

-----------------------------------------------------------------------------
(* Bit patterns and the integers they stand for                             *)

Patterns == 0 .. WordSize - 1

LEMMA WordSizePositive ==
  /\ LirMaxInt \in Nat /\ WordSize \in Nat \ {0} /\ WordSize = LirMaxInt + LirMaxInt + 2
BY IntegerAssumption DEF WordSize

\* Shifting an integer by a word changes nothing in its pattern.
LEMMA PatternShift ==
  ASSUME NEW v \in Int, NEW k \in Int
  PROVE  Pattern(v + WordSize * k) = Pattern(v)
BY WordSizePositive, RemainderShift DEF Pattern

\* A pattern is its own pattern.
LEMMA PatternOfPattern == \A p \in Patterns : Pattern(p) = p
<1>1. TAKE p \in Patterns
<1>2. (WordSize * 0 + p) % WordSize = p
  BY WordSizePositive, RemainderUnique DEF Patterns
<1>3. QED
  BY <1>2, WordSizePositive DEF Pattern, Patterns

\* What a pattern means differs from it by no word or one.
LEMMA IntegerIsShifted ==
  ASSUME NEW t \in {"i32", "u32", "bool"}, NEW p \in Patterns
  PROVE  \E k \in Int : IntegerOf(t, p) = p + WordSize * k
<1>1. CASE IntegerOf(t, p) = p
  <2>1. p = p + WordSize * 0
    BY WordSizePositive DEF Patterns
  <2>2. QED
    BY <1>1, <2>1
<1>2. CASE IntegerOf(t, p) = p - WordSize
  <2>1. p - WordSize = p + WordSize * (-1)
    BY WordSizePositive DEF Patterns
  <2>2. QED
    BY <1>2, <2>1
<1>3. QED
  BY <1>1, <1>2 DEF IntegerOf, SignedOf

\* A pattern means an integer of its type, and is the pattern of that integer.
LEMMA IntegerInRange ==
  ASSUME NEW t \in {"i32", "u32"}, NEW p \in Patterns
  PROVE  IntegerOf(t, p) \in Int /\ InRange(t, IntegerOf(t, p)) /\ Pattern(IntegerOf(t, p)) = p
<1>1. IntegerOf(t, p) \in Int /\ InRange(t, IntegerOf(t, p))
  BY WordSizePositive DEF IntegerOf, SignedOf, InRange, Patterns
<1>2. PICK k \in Int : IntegerOf(t, p) = p + WordSize * k
  BY IntegerIsShifted
<1>3. QED
  BY <1>1, <1>2, PatternShift, PatternOfPattern DEF Patterns

\* An integer of a type is what its pattern means.
LEMMA PatternMeans ==
  ASSUME NEW t \in {"i32", "u32"}, NEW v \in Int, InRange(t, v)
  PROVE  Pattern(v) \in Patterns /\ IntegerOf(t, Pattern(v)) = v
<1>1. CASE v >= 0
  <2>1. v \in Patterns
    BY <1>1, WordSizePositive DEF InRange, Patterns
  <2>2. Pattern(v) = v
    BY <2>1, PatternOfPattern
  <2>3. QED
    BY <1>1, <2>1, <2>2, WordSizePositive DEF InRange, IntegerOf, SignedOf, Patterns
<1>2. CASE v < 0
  <2>1. v + WordSize \in Patterns /\ v + WordSize > LirMaxInt /\ t = "i32"
    BY <1>2, WordSizePositive DEF InRange, Patterns
  <2>2. v + WordSize = v + WordSize * 1
    BY WordSizePositive
  <2>3. Pattern(v) = v + WordSize
    BY <2>1, <2>2, PatternShift, PatternOfPattern
  <2>4. QED
    BY <2>1, <2>3, WordSizePositive DEF IntegerOf, SignedOf
<1>3. QED
  BY <1>1, <1>2

-----------------------------------------------------------------------------
(* Comparisons                                                              *)

\* The flags of a record of flags.
LEMMA FlagFields ==
  ASSUME NEW z, NEW s, NEW c, NEW o, NEW fl, fl = [z |-> z, s |-> s, c |-> c, o |-> o]
  PROVE  fl.z = z /\ fl.s = s /\ fl.c = c /\ fl.o = o
OBVIOUS

\* The conditions by the flags they read.
LEMMA HoldsByFlags ==
  ASSUME NEW fl
  PROVE  /\ Holds("E", fl) <=> fl.z
         /\ Holds("NE", fl) <=> ~fl.z
         /\ Holds("L", fl) <=> fl.s /= fl.o
         /\ Holds("GE", fl) <=> fl.s = fl.o
         /\ Holds("LE", fl) <=> fl.z \/ fl.s /= fl.o
         /\ Holds("G", fl) <=> ~fl.z /\ fl.s = fl.o
         /\ Holds("B", fl) <=> fl.c
         /\ Holds("AE", fl) <=> ~fl.c
         /\ Holds("BE", fl) <=> fl.c \/ fl.z
         /\ Holds("A", fl) <=> ~fl.c /\ ~fl.z
         /\ Holds("O", fl) <=> fl.o
         /\ Holds("C", fl) <=> fl.c
BY DEF Holds

\* A comparison gives 1 when it is true.
LEMMA OperateCompares ==
  ASSUME NEW l, NEW r
  PROVE  /\ Operate("eq", l, r) = 1 <=> l = r
         /\ Operate("ne", l, r) = 1 <=> l /= r
         /\ Operate("lt", l, r) = 1 <=> l < r
         /\ Operate("le", l, r) = 1 <=> l <= r
         /\ Operate("gt", l, r) = 1 <=> l > r
         /\ Operate("ge", l, r) = 1 <=> l >= r
BY DEF Operate, AsBool

\* What CMP leaves in the flags: Z is equality, C the order of the patterns, and
\* S against O the order of the integers they stand for, however far apart.
LEMMA FlagsOfCompare ==
  ASSUME NEW p \in Patterns, NEW q \in Patterns
  PROVE  LET fl == FlagsAfter("CMP", p, q) IN
         /\ fl.z <=> p = q
         /\ fl.c <=> p < q
         /\ fl.s /= fl.o <=> SignedOf(p) < SignedOf(q)
<1> DEFINE d == Pattern(p - q)
           gap == SignedOf(p) - SignedOf(q)
<1>1. p - q \in Int /\ gap \in Int
  BY WordSizePositive DEF Patterns, SignedOf
<1>2. IF p >= q THEN d = p - q ELSE d = p - q + WordSize
  <2>1. CASE p >= q
    BY <2>1, WordSizePositive, PatternOfPattern DEF Patterns
  <2>2. CASE p < q
    <3>1. p - q + WordSize \in Patterns /\ p - q + WordSize = p - q + WordSize * 1
      BY <2>2, WordSizePositive DEF Patterns
    <3>2. Pattern(p - q + WordSize * 1) = d
      BY <1>1, PatternShift
    <3>3. Pattern(p - q + WordSize) = d
      BY <3>1, <3>2
    <3>4. Pattern(p - q + WordSize) = p - q + WordSize
      BY <3>1, PatternOfPattern
    <3>5. ~(p >= q)
      BY <2>2 DEF Patterns
    <3>6. QED
      BY <3>3, <3>4, <3>5
  <2>3. QED
    BY <2>1, <2>2 DEF Patterns
<1>3. FlagsAfter("CMP", p, q) = [z |-> d = 0, s |-> SignedOf(d) < 0, c |-> p < q, o |-> ~InRange("i32", gap)]
  BY DEF FlagsAfter, FlagsOf
<1>4. (d = 0) <=> (p = q)
  BY <1>2, WordSizePositive DEF Patterns
<1>5. ((SignedOf(d) < 0) /= (~InRange("i32", gap))) <=> SignedOf(p) < SignedOf(q)
  <2> HIDE DEF d
  <2>1. QED
    BY <1>2, WordSizePositive DEF Patterns, SignedOf, InRange
<1> DEFINE fl == FlagsAfter("CMP", p, q)
<1>6. fl.z = (d = 0) /\ fl.s = (SignedOf(d) < 0) /\ fl.c = (p < q) /\ fl.o = (~InRange("i32", gap))
  BY <1>3, FlagFields
<1>7. QED
  <2> HIDE DEF d, gap, fl
  <2>1. fl.s /= fl.o <=> SignedOf(p) < SignedOf(q)
    BY <1>5, <1>6, Zenon
  <2>2. QED
    BY <1>4, <1>6, <2>1, Zenon DEF fl

\* The order of patterns is the order of the unsigned integers, S against O that of
\* the signed ones: the condition that selection chooses for a comparison (by the
\* operand's type) holds after CMP exactly when the comparison of the integers is
\* true, for every operator, type and pair of patterns, the differences that do not
\* fit in a word included.
THEOREM ComparisonsSurvive ==
  ASSUME NEW t \in {"i32", "u32", "bool"}, NEW op \in Comparisons, NEW p \in Patterns, NEW q \in Patterns
  PROVE  Holds(CompareCondition(op, t), FlagsAfter("CMP", p, q)) <=> Operate(op, IntegerOf(t, p), IntegerOf(t, q)) = 1
<1> DEFINE fl == FlagsAfter("CMP", p, q)
<1>1. /\ fl.z <=> p = q
      /\ fl.c <=> p < q
      /\ fl.s /= fl.o <=> SignedOf(p) < SignedOf(q)
  BY FlagsOfCompare
<1>2. SignedOf(p) \in Int /\ SignedOf(q) \in Int /\ (SignedOf(p) = SignedOf(q) <=> p = q)
  BY WordSizePositive DEF Patterns, SignedOf
<1> DEFINE l == IntegerOf(t, p)
           r == IntegerOf(t, q)
           cond == CompareCondition(op, t)
<1>3. /\ l \in Int /\ r \in Int
      /\ (l = r) <=> fl.z
      /\ (l < r) <=> IF Signed(t) THEN fl.s /= fl.o ELSE fl.c
  BY <1>1, <1>2 DEF Patterns, IntegerOf, Signed
<1>4. /\ (l >= r) <=> ~(l < r)
      /\ (l <= r) <=> l < r \/ l = r
      /\ (l > r) <=> ~(l < r) /\ ~(l = r)
  BY <1>3
<1> SUFFICES Holds(cond, fl) <=> Operate(op, l, r) = 1
  OBVIOUS
<1>5. CASE op = "eq"
  <2>1. cond = "E"
    BY <1>5 DEF CompareCondition
  <2> HIDE DEF fl, l, r, cond
  <2>2. QED
    BY <1>3, <1>4, <1>5, <2>1, HoldsByFlags, OperateCompares
<1>6. CASE op = "ne"
  <2>1. cond = "NE"
    BY <1>6 DEF CompareCondition
  <2> HIDE DEF fl, l, r, cond
  <2>2. QED
    BY <1>3, <1>4, <1>6, <2>1, HoldsByFlags, OperateCompares
<1>7. CASE op = "lt"
  <2>1. cond = IF Signed(t) THEN "L" ELSE "B"
    BY <1>7 DEF CompareCondition
  <2> HIDE DEF fl, l, r, cond
  <2>2. QED
    BY <1>3, <1>4, <1>7, <2>1, HoldsByFlags, OperateCompares
<1>8. CASE op = "le"
  <2>1. cond = IF Signed(t) THEN "LE" ELSE "BE"
    BY <1>8 DEF CompareCondition
  <2> HIDE DEF fl, l, r, cond
  <2>2. QED
    BY <1>3, <1>4, <1>8, <2>1, HoldsByFlags, OperateCompares
<1>9. CASE op = "gt"
  <2>1. cond = IF Signed(t) THEN "G" ELSE "A"
    BY <1>9 DEF CompareCondition
  <2> HIDE DEF fl, l, r, cond
  <2>2. QED
    BY <1>3, <1>4, <1>9, <2>1, HoldsByFlags, OperateCompares
<1>10. CASE op = "ge"
  <2>1. cond = IF Signed(t) THEN "GE" ELSE "AE"
    BY <1>10 DEF CompareCondition
  <2> HIDE DEF fl, l, r, cond
  <2>2. QED
    BY <1>3, <1>4, <1>10, <2>1, HoldsByFlags, OperateCompares
<1>11. QED
  BY <1>5, <1>6, <1>7, <1>8, <1>9, <1>10 DEF Comparisons

-----------------------------------------------------------------------------
(* Arithmetic                                                               *)

LEMMA OperateComputes ==
  ASSUME NEW l, NEW r
  PROVE  /\ Operate("checked_add", l, r) = l + r
         /\ Operate("checked_sub", l, r) = l - r
         /\ Operate("checked_mul", l, r) = l * r
BY DEF Operate

\* The pattern of a sum, difference or product depends on the patterns only, signed
\* or not: it is the one the machine computes.
LEMMA ComputedIsPattern ==
  ASSUME NEW t \in {"i32", "u32"}, NEW op \in Arithmetic, NEW p \in Patterns, NEW q \in Patterns
  PROVE  LET v == Operate(op, IntegerOf(t, p), IntegerOf(t, q)) IN
         v \in Int /\ Computed(ArithmeticOpcode(op, t), p, q) = Pattern(v)
<1>1. PICK j \in Int : IntegerOf(t, p) = p + WordSize * j
  BY IntegerIsShifted
<1>2. PICK k \in Int : IntegerOf(t, q) = q + WordSize * k
  BY IntegerIsShifted
<1>3. WordSize \in Int /\ p \in Int /\ q \in Int
  BY WordSizePositive DEF Patterns
<1>4. CASE op = "checked_add"
  <2>1. (p + WordSize * j) + (q + WordSize * k) = (p + q) + WordSize * (j + k)
    BY <1>1, <1>2, <1>3
  <2>2. Computed("ADD", p, q) = Pattern((p + q) + WordSize * (j + k)) /\ ArithmeticOpcode(op, t) = "ADD"
    BY <1>3, <1>4, PatternShift DEF Computed, ArithmeticOpcode
  <2>3. Operate(op, IntegerOf(t, p), IntegerOf(t, q)) = (p + WordSize * j) + (q + WordSize * k)
    BY <1>1, <1>2, <1>4, OperateComputes
  <2>4. QED
    BY <1>1, <1>2, <1>3, <2>1, <2>2, <2>3
<1>5. CASE op = "checked_sub"
  <2>1. (p + WordSize * j) - (q + WordSize * k) = (p - q) + WordSize * (j - k)
    BY <1>1, <1>2, <1>3
  <2>2. Computed("SUB", p, q) = Pattern((p - q) + WordSize * (j - k)) /\ ArithmeticOpcode(op, t) = "SUB"
    BY <1>3, <1>5, PatternShift DEF Computed, ArithmeticOpcode
  <2>3. Operate(op, IntegerOf(t, p), IntegerOf(t, q)) = (p + WordSize * j) - (q + WordSize * k)
    BY <1>1, <1>2, <1>5, OperateComputes
  <2>4. QED
    BY <1>1, <1>2, <1>3, <2>1, <2>2, <2>3
<1>6. CASE op = "checked_mul"
  <2> DEFINE m == p * k + j * q + WordSize * (j * k)
  <2>1. m \in Int /\ p * q \in Int
    BY <1>1, <1>2, <1>3
  <2>2. (p + WordSize * j) * (q + WordSize * k) = p * q + WordSize * m
    <3>1. (p + WordSize * j) * (q + WordSize * k) = p * (q + WordSize * k) + (WordSize * j) * (q + WordSize * k)
      BY <1>1, <1>2, <1>3
    <3>2. p * (q + WordSize * k) = p * q + WordSize * (p * k)
      BY <1>1, <1>2, <1>3
    <3>3. (WordSize * j) * (q + WordSize * k) = WordSize * (j * q) + WordSize * (WordSize * (j * k))
      BY <1>1, <1>2, <1>3
    <3>4. QED
      BY <1>1, <1>2, <1>3, <3>1, <3>2, <3>3
  <2>3. Computed(ArithmeticOpcode(op, t), p, q) = Pattern(p * q)
    BY <1>6 DEF Computed, ArithmeticOpcode
  <2>4. Operate(op, IntegerOf(t, p), IntegerOf(t, q)) = (p + WordSize * j) * (q + WordSize * k)
    BY <1>1, <1>2, <1>6, OperateComputes
  <2>5. QED
    <3> DEFINE n == p * q
    <3> HIDE DEF m, n
    <3>1. n \in Int /\ m \in Int
      BY <2>1 DEF n
    <3>2. Pattern(n + WordSize * m) = Pattern(n)
      BY <3>1, PatternShift
    <3>3. n + WordSize * m \in Int
      BY <1>3, <3>1
    <3>4. QED
      BY <2>2, <2>3, <2>4, <3>2, <3>3 DEF n
<1>7. QED
  BY <1>4, <1>5, <1>6 DEF Arithmetic

\* The flag that selection watches after an operation (by the type: O when it is
\* signed, C when not) is set exactly when the result is out of the type's range,
\* and when it is not set the register holds the pattern of the exact result.
THEOREM ArithmeticSurvives ==
  ASSUME NEW t \in {"i32", "u32"}, NEW op \in Arithmetic, NEW p \in Patterns, NEW q \in Patterns
  PROVE  LET v == Operate(op, IntegerOf(t, p), IntegerOf(t, q))
             opcode == ArithmeticOpcode(op, t)
         IN /\ Holds(OverflowCondition(t), FlagsAfter(opcode, p, q)) <=> Overflows(op, t, v)
            /\ ~Overflows(op, t, v) => /\ Computed(opcode, p, q) \in Patterns
                                       /\ IntegerOf(t, Computed(opcode, p, q)) = v
<1> DEFINE v == Operate(op, IntegerOf(t, p), IntegerOf(t, q))
           opcode == ArithmeticOpcode(op, t)
<1>1. v \in Int /\ Computed(opcode, p, q) = Pattern(v)
  BY ComputedIsPattern
<1>2. Overflows(op, t, v) <=> ~InRange(t, v)
  BY DEF Overflows
<1>3. ~Overflows(op, t, v) => /\ Computed(opcode, p, q) \in Patterns
                              /\ IntegerOf(t, Computed(opcode, p, q)) = v
  <2> HIDE DEF v
  <2>1. QED
    BY <1>1, <1>2, PatternMeans
<1>4. Holds(OverflowCondition(t), FlagsAfter(opcode, p, q)) <=> ~InRange(t, v)
  <2>1. CASE t = "i32"
    <3>1. OverflowCondition(t) = "O" /\ IntegerOf(t, p) = SignedOf(p) /\ IntegerOf(t, q) = SignedOf(q)
      BY <2>1 DEF OverflowCondition, Signed, IntegerOf
    <3>2. FlagsAfter(opcode, p, q).o = (~InRange("i32", v))
      <4>1. CASE op = "checked_add"
        <5>1. opcode = "ADD" /\ v = SignedOf(p) + SignedOf(q)
          BY <3>1, <4>1, OperateComputes DEF ArithmeticOpcode
        <5>2. QED
          BY <5>1, FlagFields DEF FlagsAfter, FlagsOf
      <4>2. CASE op = "checked_sub"
        <5>1. opcode = "SUB" /\ v = SignedOf(p) - SignedOf(q)
          BY <3>1, <4>2, OperateComputes DEF ArithmeticOpcode
        <5>2. QED
          BY <5>1, FlagFields DEF FlagsAfter, FlagsOf
      <4>3. CASE op = "checked_mul"
        <5>1. opcode = "IMUL" /\ v = SignedOf(p) * SignedOf(q)
          BY <2>1, <3>1, <4>3, OperateComputes DEF ArithmeticOpcode, Signed
        <5>2. QED
          BY <5>1, FlagFields DEF FlagsAfter, FlagsOf
      <4>4. QED
        BY <4>1, <4>2, <4>3 DEF Arithmetic
    <3>3. QED
      <4> HIDE DEF v, opcode
      <4>1. QED
        BY <2>1, <3>1, <3>2, HoldsByFlags, Zenon
  <2>2. CASE t = "u32"
    <3>1. OverflowCondition(t) = "C" /\ IntegerOf(t, p) = p /\ IntegerOf(t, q) = q
      BY <2>2 DEF OverflowCondition, Signed, IntegerOf
    <3>2. p \in Nat /\ q \in Nat /\ p < WordSize /\ q < WordSize /\ p * q \in Nat
      BY WordSizePositive DEF Patterns
    <3>3. FlagsAfter(opcode, p, q).c <=> ~InRange("u32", v)
      <4>1. CASE op = "checked_add"
        <5>1. opcode = "ADD" /\ v = p + q
          BY <3>1, <4>1, OperateComputes DEF ArithmeticOpcode
        <5>2. FlagsAfter("ADD", p, q).c = (p + q >= WordSize)
          BY FlagFields DEF FlagsAfter, FlagsOf
        <5>3. (p + q >= WordSize) <=> ~InRange("u32", p + q)
          BY <3>2, WordSizePositive DEF InRange
        <5>4. QED
          BY <5>1, <5>2, <5>3
      <4>2. CASE op = "checked_sub"
        <5>1. opcode = "SUB" /\ v = p - q
          BY <3>1, <4>2, OperateComputes DEF ArithmeticOpcode
        <5>2. FlagsAfter("SUB", p, q).c = (p < q)
          BY FlagFields DEF FlagsAfter, FlagsOf
        <5>3. (p < q) <=> ~InRange("u32", p - q)
          BY <3>2, WordSizePositive DEF InRange
        <5>4. QED
          BY <5>1, <5>2, <5>3
      <4>3. CASE op = "checked_mul"
        <5>1. opcode = "UMUL" /\ v = p * q
          BY <2>2, <3>1, <4>3, OperateComputes DEF ArithmeticOpcode, Signed
        <5>2. FlagsAfter("UMUL", p, q).c = (p * q >= WordSize)
          BY FlagFields DEF FlagsAfter, FlagsOf
        <5>3. (p * q >= WordSize) <=> ~InRange("u32", p * q)
          <6> DEFINE m == p * q
          <6> HIDE DEF m
          <6>1. m \in Nat
            BY <3>2 DEF m
          <6>2. (m >= WordSize) <=> ~InRange("u32", m)
            BY <6>1, WordSizePositive DEF InRange
          <6>3. QED
            BY <6>2 DEF m
        <5>4. QED
          BY <5>1, <5>2, <5>3
      <4>4. QED
        BY <4>1, <4>2, <4>3 DEF Arithmetic
    <3>4. QED
      <4> HIDE DEF v, opcode
      <4>1. QED
        BY <2>2, <3>1, <3>3, HoldsByFlags, Zenon
  <2>3. QED
    BY <2>1, <2>2
<1>5. QED
  BY <1>2, <1>3, <1>4

\* One unsigned comparison with the extent guards both ends of an array: CMP leaves
\* the condition AE, on which the code traps, exactly when the index (signed or not)
\* is not 0 .. extent - 1, since a negative index has a pattern above every extent.
THEOREM IndexGuardSurvives ==
  ASSUME NEW t \in {"i32", "u32"}, NEW p \in Patterns, NEW extent \in 1 .. LirMaxInt
  PROVE  Holds("AE", FlagsAfter("CMP", p, Pattern(extent))) <=> IntegerOf(t, p) \notin 0 .. extent - 1
<1>1. extent \in Patterns /\ Pattern(extent) = extent
  BY WordSizePositive, PatternOfPattern DEF Patterns
<1>2. Holds("AE", FlagsAfter("CMP", p, extent)) <=> ~(p < extent)
  BY <1>1, FlagsOfCompare, HoldsByFlags
<1>3. (p < extent) <=> IntegerOf(t, p) \in 0 .. extent - 1
  BY WordSizePositive DEF Patterns, IntegerOf, SignedOf
<1>4. QED
  BY <1>1, <1>2, <1>3

-----------------------------------------------------------------------------
(* Induction over the naturals                                              *)

\* A set of numbers with 0 and the successor of each member holds all the naturals.
LEMMA NaturalsByInduction ==
  ASSUME NEW S, 0 \in S, \A n \in Nat : n \in S => n + 1 \in S
  PROVE  \A n \in Nat : n \in S
<1> DEFINE T == {n \in Nat : n \notin S}
<1> SUFFICES ASSUME T # {} PROVE FALSE
  OBVIOUS
<1>1. PICK x \in T : \A y \in T : ~(<<y, x>> \in OpToRel(<, Nat))
  BY NatLessThanWellFounded, WFMin
<1>2. x # 0 /\ x - 1 \in Nat /\ x - 1 < x
  OBVIOUS
<1>3. x - 1 \notin T
  BY <1>1, <1>2 DEF OpToRel
<1>4. QED
  BY <1>2, <1>3

-----------------------------------------------------------------------------
(* Reachability in the control flow graph                                   *)

TargetsExist(f) == \A i \in DOMAIN f.blocks : LirSuccessors(f, i) \subseteq DOMAIN f.blocks
Onward(f, seen, stop) == (UNION {LirSuccessors(f, i) : i \in seen}) \ (seen \cup stop)
\* R is what the definition of ReachLir recurses on.
Reaches(f, stop, R) ==
  R = [seen \in SUBSET DOMAIN f.blocks |-> IF Onward(f, seen, stop) = {} THEN seen ELSE R[seen \cup Onward(f, seen, stop)]]

LEMMA OnwardHas ==
  ASSUME NEW f, NEW seen, NEW stop, NEW j
  PROVE  j \in Onward(f, seen, stop) <=> (\E i \in seen : j \in LirSuccessors(f, i)) /\ j \notin seen /\ j \notin stop
BY DEF Onward

LEMMA OnwardInside ==
  ASSUME NEW f, TargetsExist(f), NEW seen \in SUBSET DOMAIN f.blocks, NEW stop
  PROVE  Onward(f, seen, stop) \in SUBSET DOMAIN f.blocks
BY OnwardHas DEF TargetsExist

\* The recursion has a solution: the least closed set around seen.
LEMMA ReachesExists ==
  ASSUME NEW f, TargetsExist(f), NEW stop
  PROVE  \E R : Reaches(f, stop, R)
<1> DEFINE B == DOMAIN f.blocks
           Closed(T) == Onward(f, T, stop) = {}
           Hull(seen) == {i \in B : \A T \in SUBSET B : seen \subseteq T /\ Closed(T) => i \in T}
           R == [seen \in SUBSET B |-> Hull(seen)]
<1>1. ASSUME NEW seen \in SUBSET B
      PROVE  R[seen] = IF Onward(f, seen, stop) = {} THEN seen ELSE R[seen \cup Onward(f, seen, stop)]
  <2> DEFINE next == Onward(f, seen, stop)
  <2>1. next \in SUBSET B
    BY OnwardInside
  <2>2. CASE next = {}
    <3>1. Hull(seen) \subseteq seen
      BY <2>2
    <3>2. seen \subseteq Hull(seen)
      OBVIOUS
    <3>3. QED
      BY <2>2, <3>1, <3>2
  <2>3. CASE next # {}
    <3>1. \A T \in SUBSET B : Closed(T) => (seen \subseteq T <=> seen \cup next \subseteq T)
      <4>1. TAKE T \in SUBSET B
      <4>2. HAVE Closed(T)
      <4>3. seen \subseteq T => next \subseteq T
        BY <4>2, OnwardHas
      <4>4. QED
        BY <4>3
    <3>2. Hull(seen) = Hull(seen \cup next)
      BY <3>1
    <3>3. seen \cup next \in SUBSET B
      BY <2>1
    <3>4. R[seen] = Hull(seen) /\ R[seen \cup next] = Hull(seen \cup next)
      BY <3>3
    <3>5. QED
      BY <2>3, <3>2, <3>4
  <2>4. QED
    BY <2>2, <2>3
<1>2. Reaches(f, stop, R)
  <2> HIDE DEF Hull
  <2>1. QED
    BY <1>1 DEF Reaches
<1>3. QED
  BY <1>2

\* Every solution gives a set that holds where it starts and is closed, by induction on
\* how many blocks are not seen.
LEMMA ReachesCloses ==
  ASSUME NEW f, TargetsExist(f), NEW stop, NEW R, Reaches(f, stop, R), IsFiniteSet(DOMAIN f.blocks)
  PROVE  \A seen \in SUBSET DOMAIN f.blocks :
           R[seen] \in SUBSET DOMAIN f.blocks /\ seen \subseteq R[seen] /\ Onward(f, R[seen], stop) = {}
<1> DEFINE B == DOMAIN f.blocks
           Good(seen) == R[seen] \in SUBSET B /\ seen \subseteq R[seen] /\ Onward(f, R[seen], stop) = {}
           S == {n \in Nat : \A seen \in SUBSET B : Cardinality(B \ seen) < n => Good(seen)}
<1>1. \A seen \in SUBSET B : IsFiniteSet(B \ seen) /\ Cardinality(B \ seen) \in Nat
  BY FS_Subset, FS_CardinalityType
<1>2. 0 \in S
  <2> HIDE DEF Good
  <2>1. QED
    BY <1>1
<1>3. ASSUME NEW n \in Nat, n \in S PROVE n + 1 \in S
  <2> SUFFICES ASSUME NEW seen \in SUBSET B, Cardinality(B \ seen) < n + 1 PROVE Good(seen)
    <3> HIDE DEF Good
    <3>1. QED
      OBVIOUS
  <2> DEFINE next == Onward(f, seen, stop)
  <2>1. next \in SUBSET B /\ next \cap seen = {}
    BY OnwardInside, OnwardHas
  <2>2. R[seen] = IF next = {} THEN seen ELSE R[seen \cup next]
    BY DEF Reaches
  <2>3. CASE next = {}
    BY <2>2, <2>3
  <2>4. CASE next # {}
    <3> DEFINE wider == seen \cup next
    <3>1. wider \in SUBSET B /\ B \ wider \in SUBSET (B \ seen) /\ B \ wider # B \ seen
      BY <2>1, <2>4
    <3>2. Cardinality(B \ wider) < Cardinality(B \ seen)
      <4>1. Cardinality(B \ wider) <= Cardinality(B \ seen) /\ Cardinality(B \ wider) # Cardinality(B \ seen)
        <5> HIDE DEF wider
        <5>1. QED
          BY <1>1, <3>1, FS_Subset
      <4>2. Cardinality(B \ wider) \in Nat /\ Cardinality(B \ seen) \in Nat
        BY <1>1, <3>1
      <4> HIDE DEF wider
      <4>3. QED
        BY <4>1, <4>2
    <3>3. Good(wider)
      <4>1. Cardinality(B \ wider) < n
        <5>1. Cardinality(B \ wider) \in Nat /\ Cardinality(B \ seen) \in Nat
          BY <1>1, <3>1
        <5> HIDE DEF wider
        <5>2. QED
          BY <3>2, <5>1
      <4>2. QED
        BY <1>3, <3>1, <4>1
    <3>4. QED
      BY <2>2, <2>4, <3>3
  <2>5. QED
    BY <2>3, <2>4
<1> HIDE DEF S
<1>4. \A n \in Nat : n \in S
  BY <1>2, <1>3, NaturalsByInduction
<1>5. ASSUME NEW seen \in SUBSET B PROVE Good(seen)
  <2>1. Cardinality(B \ seen) \in Nat
    BY <1>1
  <2>2. Cardinality(B \ seen) + 1 \in S /\ Cardinality(B \ seen) < Cardinality(B \ seen) + 1
    BY <1>4, <2>1
  <2>3. QED
    BY <2>2 DEF S
<1>6. QED
  BY <1>5

\* What is reached holds the blocks it starts from and every successor outside stop.
LEMMA ReachLirCloses ==
  ASSUME NEW f, TargetsExist(f), IsFiniteSet(DOMAIN f.blocks), NEW from \in SUBSET DOMAIN f.blocks, NEW stop
  PROVE  /\ from \ stop \subseteq ReachLir(f, from, stop)
         /\ ReachLir(f, from, stop) \subseteq DOMAIN f.blocks
         /\ \A i \in ReachLir(f, from, stop) : \A j \in LirSuccessors(f, i) : j \in stop \/ j \in ReachLir(f, from, stop)
<1> DEFINE R == CHOOSE R : Reaches(f, stop, R)
<1>1. Reaches(f, stop, R)
  BY ReachesExists
<1>2. ReachLir(f, from, stop) = R[from \ stop]
  BY DEF ReachLir, Reaches, Onward
<1>3. from \ stop \in SUBSET DOMAIN f.blocks
  OBVIOUS
<1>4. R[from \ stop] \in SUBSET DOMAIN f.blocks /\ from \ stop \subseteq R[from \ stop] /\ Onward(f, R[from \ stop], stop) = {}
  <2> HIDE DEF R
  <2>1. QED
    BY <1>1, <1>3, ReachesCloses
<1>5. QED
  <2> HIDE DEF R
  <2>1. \A i \in R[from \ stop] : \A j \in LirSuccessors(f, i) : j \notin stop => j \in R[from \ stop]
    <3>1. TAKE i \in R[from \ stop]
    <3>2. TAKE j \in LirSuccessors(f, i)
    <3>3. j \notin Onward(f, R[from \ stop], stop)
      BY <1>4
    <3>4. QED
      BY <3>3, OnwardHas
  <2>2. QED
    BY <1>2, <1>4, <2>1

-----------------------------------------------------------------------------
(* The run of a block, step by step                                         *)

LEMMA MaxIsLargest ==
  ASSUME NEW n \in Nat, NEW t \in SUBSET (1 .. n + 1), n + 1 \in t
  PROVE  Max(t) = n + 1
<1>1. \A y \in t : n + 1 >= y
  OBVIOUS
<1>2. \A x \in t : (\A y \in t : x >= y) => x = n + 1
  OBVIOUS
<1>3. QED
  BY <1>1, <1>2 DEF Max

\* What FoldLeft iterates over the first n elements of s.
StepFold(f, base, s, n) ==
  f = [t \in SUBSET (1 .. n) |-> IF t = {} THEN base ELSE Step(f[t \ {Max(t)}], s[Max(t)])]

LEMMA StepFoldExists ==
  ASSUME NEW base, NEW s
  PROVE  \A n \in Nat : \E f : StepFold(f, base, s, n)
<1> DEFINE S == {n \in Nat : \E f : StepFold(f, base, s, n)}
<1>1. 0 \in S
  <2> DEFINE f == [t \in SUBSET (1 .. 0) |-> base]
  <2>1. StepFold(f, base, s, 0)
    BY DEF StepFold
  <2>2. QED
    BY <2>1
<1>2. ASSUME NEW n \in Nat, n \in S PROVE n + 1 \in S
  <2>1. PICK f : StepFold(f, base, s, n)
    BY <1>2
  <2> DEFINE g == [t \in SUBSET (1 .. n + 1) |-> IF n + 1 \in t THEN Step(f[t \ {n + 1}], s[n + 1]) ELSE f[t]]
  <2>2. ASSUME NEW t \in SUBSET (1 .. n + 1)
        PROVE  g[t] = IF t = {} THEN base ELSE Step(g[t \ {Max(t)}], s[Max(t)])
    <3>1. CASE n + 1 \in t
      <4>1. Max(t) = n + 1
        BY <3>1, MaxIsLargest
      <4>2. t \ {n + 1} \in SUBSET (1 .. n + 1) /\ n + 1 \notin t \ {n + 1}
        OBVIOUS
      <4>3. g[t \ {n + 1}] = f[t \ {n + 1}]
        BY <4>2
      <4>4. QED
        BY <3>1, <4>1, <4>3
    <3>2. CASE n + 1 \notin t
      <4>1. t \in SUBSET (1 .. n)
        BY <3>2
      <4>2. f[t] = IF t = {} THEN base ELSE Step(f[t \ {Max(t)}], s[Max(t)])
        BY <2>1, <4>1 DEF StepFold
      <4>3. t \ {Max(t)} \in SUBSET (1 .. n + 1) /\ n + 1 \notin t \ {Max(t)}
        BY <3>2
      <4>4. QED
        BY <3>2, <4>2, <4>3
    <3>3. QED
      BY <3>1, <3>2
  <2>3. StepFold(g, base, s, n + 1)
    BY <2>2 DEF StepFold
  <2>4. QED
    BY <2>3
<1> HIDE DEF S
<1>3. \A n \in Nat : n \in S
  BY <1>1, <1>2, NaturalsByInduction
<1>4. QED
  BY <1>3 DEF S

Ran(base, s) == FoldLeft(Step, base, s)

LEMMA StepsFolded ==
  ASSUME NEW base, NEW s, NEW n \in Nat, DOMAIN s = 1 .. n
  PROVE  \E f : StepFold(f, base, s, n) /\ Ran(base, s) = f[1 .. n]
<1> DEFINE F == CHOOSE f : StepFold(f, base, s, n)
<1>1. StepFold(F, base, s, n)
  BY StepFoldExists
<1>2. Ran(base, s) = F[1 .. n]
  BY DEF Ran, FoldLeft, MapThenFoldSet, StepFold
<1>3. QED
  BY <1>1, <1>2

\* FoldLeft passes through one state per instruction.
LEMMA BlockRun ==
  ASSUME NEW base, NEW s, NEW n \in Nat, DOMAIN s = 1 .. n
  PROVE  \E run : /\ run[0] = base
                  /\ \A k \in 0 .. n - 1 : run[k + 1] = Step(run[k], s[k + 1])
                  /\ Ran(base, s) = run[n]
<1>1. PICK f : StepFold(f, base, s, n) /\ Ran(base, s) = f[1 .. n]
  BY StepsFolded
<1> DEFINE run == [k \in 0 .. n |-> f[1 .. k]]
<1>2. run[0] = base
  <2>1. 1 .. 0 = {} /\ {} \in SUBSET (1 .. n) /\ 0 \in 0 .. n
    OBVIOUS
  <2>2. QED
    BY <1>1, <2>1 DEF StepFold
<1>3. ASSUME NEW k \in 0 .. n - 1 PROVE run[k + 1] = Step(run[k], s[k + 1])
  <2>1. 1 .. k + 1 \in SUBSET (1 .. n) /\ (1 .. k + 1) \ {k + 1} = 1 .. k /\ 1 .. k + 1 # {}
    <3>1. k \in Nat /\ k + 1 <= n
      OBVIOUS
    <3>2. (1 .. k + 1) \ {k + 1} = 1 .. k
      BY <3>1
    <3>3. 1 \in 1 .. k + 1
      BY <3>1
    <3>4. 1 .. k + 1 \in SUBSET (1 .. n)
      BY <3>1
    <3>5. QED
      BY <3>2, <3>3, <3>4
  <2>2. Max(1 .. k + 1) = k + 1
    BY MaxIsLargest, k + 1 \in 1 .. k + 1, k \in Nat, 1 .. k + 1 \in SUBSET (1 .. k + 1)
  <2>3. f[1 .. k + 1] = IF 1 .. k + 1 = {} THEN base
                        ELSE Step(f[(1 .. k + 1) \ {Max(1 .. k + 1)}], s[Max(1 .. k + 1)])
    BY <1>1, <2>1 DEF StepFold
  <2>4. k \in 0 .. n /\ k + 1 \in 0 .. n
    OBVIOUS
  <2>5. QED
    BY <2>1, <2>2, <2>3, <2>4
<1>4. run[n] = f[1 .. n]
  OBVIOUS
<1>5. QED
  BY <1>1, <1>2, <1>3, <1>4

-----------------------------------------------------------------------------
(* What the verifier has looked at when it finds no fault                   *)

\* The values: known where they are used, of one definition, used at their types.
ValuesChecked(f) ==
  /\ DefinedOnce(f)
  /\ \A p \in Places(f) : Range(InstructionAt(f, p).args) \subseteq KnownBefore(f, p[1], p[2])
  /\ \A p \in Places(f) : WellFormed(f, TypesOf(f), GuardsBefore(f, p[1], p[2]), InstructionAt(f, p))
  /\ \A i \in DOMAIN f.blocks : Terminated(f, TypesOf(f), i)
\* The matches: their tests, what their arms read, and what is written before it is read.
Accesses(f) == {p \in Places(f) : InstructionAt(f, p).op = "checked_payload"}
MatchesChecked(f) ==
  /\ \A n \in DOMAIN f.patterns : \A a \in DOMAIN f.patterns[n].arms :
       /\ ArmEdges(f, f.patterns[n], a) /\ DispatchCode(f, f.patterns[n], a) /\ BindingCode(f, f.patterns[n], a)
  /\ Accesses(f) \subseteq AllowedAccess(f)
  /\ \A p \in Places(f) : InstructionAt(f, p).op = "load_slot" => ReadsInitialized(f, p)

LEMMA NoValueFaults == ASSUME NEW f, ValueFaults(f) = {} PROVE ValuesChecked(f)
<1> DEFINE Defined(p) == Range(InstructionAt(f, p).args) \subseteq KnownBefore(f, p[1], p[2])
           twice == IF DefinedOnce(f) THEN {} ELSE {"DUPLICATE_VALUE"}
           unknown == IF \A p \in Places(f) : Defined(p) THEN {} ELSE {"UNDEFINED_VALUE"}
           bad == IF \A p \in Places(f) :
                       Defined(p) => WellFormed(f, TypesOf(f), GuardsBefore(f, p[1], p[2]), InstructionAt(f, p))
                  THEN {} ELSE {"BAD_INSTRUCTION"}
           open == IF \A i \in DOMAIN f.blocks : Terminated(f, TypesOf(f), i) THEN {} ELSE {"BAD_TERMINATOR"}
<1>1. ValueFaults(f) = UNION {twice, unknown, bad, open}
  BY DEF ValueFaults
<1>2. twice = {} /\ unknown = {} /\ bad = {} /\ open = {}
  <2> HIDE DEF twice, unknown, bad, open
  <2>1. QED
    BY <1>1
<1>3. DefinedOnce(f)
  BY <1>2
<1>4. \A p \in Places(f) : Defined(p)
  BY <1>2
<1>5. \A p \in Places(f) : Defined(p) => WellFormed(f, TypesOf(f), GuardsBefore(f, p[1], p[2]), InstructionAt(f, p))
  BY <1>2
<1>6. \A i \in DOMAIN f.blocks : Terminated(f, TypesOf(f), i)
  BY <1>2
<1>7. QED
  BY <1>3, <1>4, <1>5, <1>6 DEF ValuesChecked

LEMMA NoPatternFaults == ASSUME NEW f, PatternFaults(f) = {}, f.patterns /= <<>> PROVE MatchesChecked(f)
<1>1. \A n \in DOMAIN f.patterns : \A a \in DOMAIN f.patterns[n].arms : ArmEdges(f, f.patterns[n], a)
  BY DEF PatternFaults
<1>2. \A n \in DOMAIN f.patterns : \A a \in DOMAIN f.patterns[n].arms : DispatchCode(f, f.patterns[n], a)
  BY DEF PatternFaults
<1>3. \A n \in DOMAIN f.patterns : \A a \in DOMAIN f.patterns[n].arms : BindingCode(f, f.patterns[n], a)
  BY DEF PatternFaults
<1>4. Accesses(f) \subseteq AllowedAccess(f)
  BY DEF PatternFaults, Accesses
<1>5. \A p \in Places(f) : InstructionAt(f, p).op = "load_slot" => ReadsInitialized(f, p)
  BY DEF PatternFaults
<1>6. QED
  BY <1>1, <1>2, <1>3, <1>4, <1>5 DEF MatchesChecked

LEMMA NoFaults ==
  ASSUME NEW f, LirFaults(f) = {}
  PROVE  TargetsExist(f) /\ PatternFaults(f) = {} /\ ValueFaults(f) = {}
<1> DEFINE steps == <<IF TargetsExist(f) THEN {} ELSE {"CONTROL_FLOW"}, IF TargetsExist(f) THEN FallibleFaults(f) ELSE {},
                      IF TargetsExist(f) THEN PatternFaults(f) ELSE {}, ValueFaults(f), IF TargetsExist(f) THEN ObjectFaults(f) ELSE {}>>
           found == {n \in DOMAIN steps : steps[n] /= {}}
<1>1. LirFaults(f) = IF found = {} THEN {} ELSE steps[CHOOSE n \in found : \A o \in found : n <= o]
  BY DEF LirFaults, TargetsExist
<1>2. found = {}
  <2>1. SUFFICES ASSUME found # {} PROVE FALSE
    OBVIOUS
  <2>2. found \subseteq 1 .. 5
    OBVIOUS
  <2> HIDE DEF steps
  <2>3. \E n \in found : \A o \in found : n <= o
    <3> HIDE DEF found
    <3>1. \A o \in found : o \in Nat /\ (o = 1 \/ o = 2 \/ o = 3 \/ o = 4 \/ o = 5)
      BY <2>2
    <3>2. CASE 1 \in found
      BY <3>1, <3>2
    <3>3. CASE 1 \notin found /\ 2 \in found
      BY <3>1, <3>3
    <3>4. CASE 1 \notin found /\ 2 \notin found /\ 3 \in found
      BY <3>1, <3>4
    <3>5. CASE 1 \notin found /\ 2 \notin found /\ 3 \notin found
      BY <2>1, <3>1, <3>5
    <3>6. QED
      BY <3>2, <3>3, <3>4, <3>5
  <2>4. (CHOOSE n \in found : \A o \in found : n <= o) \in found
    BY <2>3
  <2>5. QED
    BY <1>1, <2>1, <2>4
<1>3. \A n \in 1 .. 5 : steps[n] = {}
  BY <1>2
<1>4. steps[1] = {} /\ steps[3] = {} /\ steps[4] = {}
  BY <1>3
<1>5. QED
  BY <1>4

-----------------------------------------------------------------------------
(* A run of LIR that the verifier accepted *)

BlocksWriting(f, s) == {i \in DOMAIN f.blocks : WrittenIn(f, i, Len(f.blocks[i].code) + 1, s)}
Unwritten(f, s) == ReachLir(f, {1}, BlocksWriting(f, s))
ArraySlots(f) == {s \in DOMAIN f.slots : f.slots[s].extent > 0}
IsArray(value, extent) == value = [j \in DOMAIN value |-> value[j]] /\ DOMAIN value = 1 .. extent

\* A slot that is not written is one that some path to the block leaves unwritten.
SlotsWritten(f, at, slots) ==
  \A s \in DOMAIN f.slots \ DOMAIN slots : at = 1 \/ \E i \in Unwritten(f, s) : at \in LirSuccessors(f, i)
\* In the body of an arm the subject has the member that the arm's test found.
ArmTested(f, at, slots) ==
  \A n \in DOMAIN f.patterns : \A a \in DOMAIN f.patterns[n].arms :
    LET flow == f.patterns[n]
        arm == flow.arms[a]
    IN at = arm.body /\ BoundFields(f, flow, arm) /= <<>> => slots[flow.subject].m = ArmMember(f, arm)
ArraysWhole(f, slots) == \A s \in ArraySlots(f) : s \in DOMAIN slots /\ IsArray(slots[s], f.slots[s].extent)

-----------------------------------------------------------------------------
(* One instruction                                                          *)

IsRun(q) == q = [vals |-> q.vals, slots |-> q.slots, out |-> q.out, st |-> q.st]
Arguments(q, in) == [j \in DOMAIN in.args |-> q.vals[in.args[j]]]
Gives(q, in, v) == [q EXCEPT !.vals = With(@, in.r, v)]
Trapped(q) == [q EXCEPT !.st = "trap"]

\* The parts of a run that an instruction changes.
LEMMA RunFields ==
  ASSUME NEW q, IsRun(q), NEW x
  PROVE  /\ LET p == [q EXCEPT !.vals = x] IN IsRun(p) /\ p.vals = x /\ p.slots = q.slots /\ p.st = q.st
         /\ LET p == [q EXCEPT !.slots = x] IN IsRun(p) /\ p.vals = q.vals /\ p.slots = x /\ p.st = q.st
         /\ LET p == [q EXCEPT !.out = x] IN IsRun(p) /\ p.vals = q.vals /\ p.slots = q.slots /\ p.st = q.st
         /\ LET p == [q EXCEPT !.st = x] IN IsRun(p) /\ p.vals = q.vals /\ p.slots = q.slots /\ p.st = x
BY DEF IsRun

\* What each instruction does to a run in which its arguments are known.
LEMMA StepLoads ==
  ASSUME NEW q, NEW in, q.st = "run", Range(in.args) \subseteq DOMAIN q.vals, in.op = "load_slot", in.slot \in DOMAIN q.slots
  PROVE  Step(q, in) = Gives(q, in, q.slots[in.slot])
BY DEF Step, Gives, Trapped, Arguments, Arithmetic, Comparisons

LEMMA StepCalls ==
  ASSUME NEW q, NEW in, q.st = "run", Range(in.args) \subseteq DOMAIN q.vals, in.op = "call"
  PROVE  Step(q, in) = [Gives(q, in, Callee(in.of, Arguments(q, in), q.out)) EXCEPT !.out = Append(@, <<in.of, Arguments(q, in)>>)]
BY DEF Step, Gives, Trapped, Arguments, Arithmetic, Comparisons

LEMMA StepTakesPayload ==
  ASSUME NEW q, NEW in, q.st = "run", Range(in.args) \subseteq DOMAIN q.vals, in.op = "checked_payload",
         Arguments(q, in)[1].m = in.member
  PROVE  Step(q, in) = Gives(q, in, Arguments(q, in)[1].f[in.field])
BY DEF Step, Gives, Trapped, Arguments, Arithmetic, Comparisons

LEMMA StepAddresses ==
  ASSUME NEW q, NEW in, q.st = "run", Range(in.args) \subseteq DOMAIN q.vals, in.op = "index_address", in.slot \in DOMAIN q.slots,
         Arguments(q, in)[1] < Len(q.slots[in.slot])
  PROVE  Step(q, in) = Gives(q, in, <<in.slot, Arguments(q, in)[1] + 1>>)
BY DEF Step, Gives, Trapped, Arguments, Arithmetic, Comparisons

LEMMA StepTests ==
  ASSUME NEW q, NEW in, q.st = "run", Range(in.args) \subseteq DOMAIN q.vals, in.op = "test_variant"
  PROVE  Step(q, in) = Gives(q, in, AsBool(Arguments(q, in)[1].m = in.member))
BY DEF Step, Gives, Trapped, Arguments, Arithmetic, Comparisons

LEMMA StepMakes ==
  ASSUME NEW q, NEW in, q.st = "run", Range(in.args) \subseteq DOMAIN q.vals, in.op \in {"const", "make_tagged", "load"}
  PROVE  \E v : Step(q, in) = Gives(q, in, v)
BY DEF Step, Gives, Trapped, Arguments, Arithmetic, Comparisons

LEMMA StepRequires ==
  ASSUME NEW q, NEW in, q.st = "run", Range(in.args) \subseteq DOMAIN q.vals, in.op = "require_variant"
  PROVE  Step(q, in) = IF Arguments(q, in)[1].m = in.member THEN q ELSE Trapped(q)
BY DEF Step, Gives, Trapped, Arguments, Arithmetic, Comparisons

LEMMA StepChecks ==
  ASSUME NEW q, NEW in, q.st = "run", Range(in.args) \subseteq DOMAIN q.vals, in.op = "check_index"
  PROVE  Step(q, in) = IF Arguments(q, in)[1] \in 0 .. in.extent - 1 THEN q ELSE Trapped(q)
BY DEF Step, Gives, Trapped, Arguments, Arithmetic, Comparisons

LEMMA StepStores ==
  ASSUME NEW q, NEW in, q.st = "run", Range(in.args) \subseteq DOMAIN q.vals, in.op = "store"
  PROVE  Step(q, in) = [q EXCEPT !.slots[Arguments(q, in)[1][1]][Arguments(q, in)[1][2]] = Arguments(q, in)[2]]
BY DEF Step, Gives, Trapped, Arguments, Arithmetic, Comparisons

LEMMA StepWrites ==
  ASSUME NEW q, NEW in, q.st = "run", Range(in.args) \subseteq DOMAIN q.vals, Writes(in)
  PROVE  Step(q, in) = [q EXCEPT !.slots = With(@, in.slot, Arguments(q, in)[1])]
BY DEF Step, Arguments, Writes, Arithmetic, Comparisons

LEMMA StepOperates ==
  ASSUME NEW q, NEW in, q.st = "run", Range(in.args) \subseteq DOMAIN q.vals, in.op \in Arithmetic \cup Comparisons
  PROVE  Step(q, in) = Trapped(q) \/ \E v : Step(q, in) = Gives(q, in, v)
<1> DEFINE v == Operate(in.op, Arguments(q, in)[1], Arguments(q, in)[2])
<1>1. Step(q, in) = IF Overflows(in.op, in.t, v) THEN Trapped(q) ELSE Gives(q, in, v)
  BY DEF Step, Gives, Trapped, Arguments, Arithmetic, Comparisons
<1>2. QED
  BY <1>1

-----------------------------------------------------------------------------
(* What is known of an instruction of a function that the verifier accepted *)

Accepted(u, f) == IsLirFunction(u, f) /\ LirFaults(f) = {} /\ f.patterns /= <<>>

LEMMA SequenceDomain ==
  ASSUME NEW s, IsSequence(s)
  PROVE  /\ Len(s) \in Nat /\ DOMAIN s = 1 .. Len(s)
         /\ s \in Seq(Range(s))
         /\ s # <<>> => 1 \in DOMAIN s
<1>1. Len(s) \in Nat /\ DOMAIN s = 1 .. Len(s) /\ s = [x \in DOMAIN s |-> s[x]]
  BY DEF IsSequence, IsFunction
<1>2. s \in [1 .. Len(s) -> Range(s)]
  BY <1>1 DEF Range
<1>3. s \in Seq(Range(s))
  BY <1>1, <1>2, SeqDef
<1>4. s # <<>> => 1 \in DOMAIN s
  BY <1>1, <1>3
<1>5. QED
  BY <1>1, <1>3, <1>4

LEMMA AcceptedIsChecked ==
  ASSUME NEW u, NEW f, Accepted(u, f)
  PROVE  /\ TargetsExist(f) /\ ValuesChecked(f) /\ MatchesChecked(f)
         /\ IsFiniteSet(DOMAIN f.blocks) /\ 1 \in DOMAIN f.blocks
<1>1. TargetsExist(f) /\ PatternFaults(f) = {} /\ ValueFaults(f) = {}
  BY NoFaults DEF Accepted
<1>2. ValuesChecked(f) /\ MatchesChecked(f)
  BY <1>1, NoValueFaults, NoPatternFaults DEF Accepted
<1>3. Len(f.blocks) \in Nat /\ DOMAIN f.blocks = 1 .. Len(f.blocks) /\ 1 \in DOMAIN f.blocks
  BY SequenceDomain DEF Accepted, IsLirFunction
<1>4. IsFiniteSet(DOMAIN f.blocks)
  BY <1>3, FS_Interval
<1>5. QED
  BY <1>1, <1>2, <1>3, <1>4

LEMMA PlaceOf ==
  ASSUME NEW f, NEW i \in DOMAIN f.blocks, NEW n \in DOMAIN f.blocks[i].code
  PROVE  <<i, n>> \in Places(f) /\ InstructionAt(f, <<i, n>>) = f.blocks[i].code[n]
BY DEF Places, InstructionAt

LEMMA KnownHas ==
  ASSUME NEW f, NEW i, NEW n, NEW v
  PROVE  v \in KnownBefore(f, i, n) <=> v \in f.params \/ (v # 0 /\ \E m \in 1 .. n - 1 : f.blocks[i].code[m].r = v)
BY DEF KnownBefore

\* What the instructions before it leave, and what it adds.
LEMMA OneMore ==
  ASSUME NEW f, NEW i, NEW n \in Nat, n >= 1, NEW in, in = f.blocks[i].code[n]
  PROVE  /\ \A v : v \in KnownBefore(f, i, n + 1) <=> v \in KnownBefore(f, i, n) \/ (v = in.r /\ v # 0)
         /\ \A s : WrittenIn(f, i, n + 1, s) <=> WrittenIn(f, i, n, s) \/ (Writes(in) /\ in.slot = s)
         /\ \A g : g \in GuardsBefore(f, i, n + 1) <=>
              g \in GuardsBefore(f, i, n) \/ (in.op = "check_index" /\ g = <<in.args[1], in.extent>>)
<1>1. \A m : m \in 1 .. n + 1 - 1 <=> m \in 1 .. n - 1 \/ m = n
  OBVIOUS
<1>2. \A v : v \in KnownBefore(f, i, n + 1) <=> v \in KnownBefore(f, i, n) \/ (v = in.r /\ v # 0)
  BY <1>1, KnownHas
<1>3. \A s : WrittenIn(f, i, n + 1, s) <=> WrittenIn(f, i, n, s) \/ (Writes(in) /\ in.slot = s)
  BY <1>1 DEF WrittenIn
<1>4. \A g : g \in GuardsBefore(f, i, n + 1) <=>
        g \in GuardsBefore(f, i, n) \/ (in.op = "check_index" /\ g = <<in.args[1], in.extent>>)
  BY <1>1 DEF GuardsBefore
<1>5. QED
  BY <1>2, <1>3, <1>4

\* An instruction of an accepted function uses values that are known, at their types,
\* and gives one that is not known yet.
LEMMA InstructionChecked ==
  ASSUME NEW u, NEW f, Accepted(u, f), NEW i \in DOMAIN f.blocks, NEW n \in DOMAIN f.blocks[i].code
  PROVE  LET in == f.blocks[i].code[n] IN
         /\ n \in Nat /\ n >= 1 /\ n <= Len(f.blocks[i].code) /\ in.r \in Nat
         /\ Len(in.args) \in Nat /\ DOMAIN in.args = 1 .. Len(in.args)
         /\ \A j \in DOMAIN in.args : in.args[j] \in KnownBefore(f, i, n)
         /\ Range(in.args) \subseteq KnownBefore(f, i, n)
         /\ WellFormed(f, TypesOf(f), GuardsBefore(f, i, n), in)
         /\ in.r > 0 <=> GivesValue(in)
         /\ in.r > 0 => in.r \notin KnownBefore(f, i, n) /\ TypesOf(f)[in.r] = in.t
<1> DEFINE in == f.blocks[i].code[n]
           p == <<i, n>>
<1>1. ValuesChecked(f)
  BY AcceptedIsChecked
<1>2. IsBlock(f.blocks[i])
  BY DEF Accepted, IsLirFunction
<1>3. n \in Nat /\ n >= 1 /\ n <= Len(f.blocks[i].code) /\ in.r \in Nat /\ IsSequence(in.args)
  <2>1. IsSequence(f.blocks[i].code) /\ in.r \in Nat /\ IsSequence(in.args)
    BY <1>2 DEF IsBlock
  <2>2. QED
    BY <2>1, SequenceDomain
<1>4. Len(in.args) \in Nat /\ DOMAIN in.args = 1 .. Len(in.args)
  BY <1>3, SequenceDomain
<1>5. p \in Places(f) /\ InstructionAt(f, p) = in /\ p[1] = i /\ p[2] = n
  BY PlaceOf
<1>6. Range(in.args) \subseteq KnownBefore(f, i, n) /\ WellFormed(f, TypesOf(f), GuardsBefore(f, i, n), in)
  <2> HIDE DEF p, in
  <2>1. QED
    BY <1>1, <1>5 DEF ValuesChecked
<1>7. \A j \in DOMAIN in.args : in.args[j] \in KnownBefore(f, i, n)
  BY <1>6 DEF Range
<1>8. in.r > 0 <=> GivesValue(in)
  BY <1>6 DEF WellFormed
<1>9. ASSUME in.r > 0 PROVE in.r \notin KnownBefore(f, i, n) /\ TypesOf(f)[in.r] = in.t
  <2>1. p \in DefiningPlaces(f)
    BY <1>5, <1>9 DEF DefiningPlaces
  <2>2. in.r \notin f.params /\ \A q \in DefiningPlaces(f) : InstructionAt(f, q).r = in.r => p = q
    <3> HIDE DEF p, in
    <3>1. QED
      BY <1>1, <1>5, <2>1 DEF ValuesChecked, DefinedOnce
  <2>3. \A m \in 1 .. n - 1 : f.blocks[i].code[m].r # in.r
    <3> SUFFICES ASSUME NEW m \in 1 .. n - 1, f.blocks[i].code[m].r = in.r PROVE FALSE
      OBVIOUS
    <3>1. m \in DOMAIN f.blocks[i].code
      BY <1>2, <1>3, SequenceDomain DEF IsBlock
    <3>2. <<i, m>> \in Places(f) /\ InstructionAt(f, <<i, m>>) = f.blocks[i].code[m]
      BY <3>1, PlaceOf
    <3>3. <<i, m>> \in DefiningPlaces(f)
      BY <1>9, <3>2 DEF DefiningPlaces
    <3>4. p = <<i, m>>
      BY <2>2, <3>2, <3>3
    <3>5. QED
      BY <3>4, <1>3
  <2>4. in.r \notin KnownBefore(f, i, n)
    BY <2>2, <2>3, KnownHas
  <2>5. (CHOOSE q \in DefiningPlaces(f) : InstructionAt(f, q).r = in.r) = p
    <3> HIDE DEF p, in
    <3>1. QED
      BY <1>5, <2>1, <2>2
  <2>6. TypesOf(f)[in.r] = in.t
    <3> HIDE DEF p, in
    <3>1. in.r \in {InstructionAt(f, q).r : q \in DefiningPlaces(f)}
      BY <1>5, <2>1
    <3>2. QED
      BY <1>5, <2>2, <2>5, <3>1 DEF TypesOf
  <2>7. QED
    BY <2>4, <2>6
<1>10. QED
  BY <1>3, <1>4, <1>6, <1>7, <1>8, <1>9

LEMMA ParameterType ==
  ASSUME NEW u, NEW f, Accepted(u, f), NEW v \in f.params
  PROVE  v \in DOMAIN u.params /\ TypesOf(f)[v] = u.params[v].t
BY DEF Accepted, IsLirFunction, TypesOf

-----------------------------------------------------------------------------
(* The run of one block: what holds before its instruction n               *)

\* A block that is entered with these slots.
Entered(u, f, i, slots) ==
  /\ Accepted(u, f) /\ i \in DOMAIN f.blocks /\ i \in LirReachable(f)
  /\ IsFunction(slots)
  /\ SlotsWritten(f, i, slots)
  /\ ArmTested(f, i, slots)
  /\ ArraysWhole(f, slots)

ArrayValue(f, v) == \A s \in ArraySlots(f) : IsArray(v, f.slots[s].extent)
ValuesKnown(f, i, n, q) ==
  /\ \A v \in KnownBefore(f, i, n) : v \in DOMAIN q.vals
  /\ \A v \in KnownBefore(f, i, n) : TypesOf(f)[v] = "array" => ArrayValue(f, q.vals[v])
SlotsKept(f, i, n, slots, q) ==
  /\ \A s \in DOMAIN slots : s \in DOMAIN q.slots
  /\ \A s \in DOMAIN f.slots : WrittenIn(f, i, n, s) => s \in DOMAIN q.slots
  /\ ArraysWhole(f, q.slots)
  /\ n = 1 => q.slots = slots
GuardsPassed(f, i, n, q) ==
  \A g \in GuardsBefore(f, i, n) : g[1] \in KnownBefore(f, i, n) /\ q.vals[g[1]] \in 0 .. g[2] - 1
\* The first instruction of a block may read what a match tests.
FirstRead(f, i, n, slots, q) ==
  LET in == f.blocks[i].code[1] IN
  n > 1 /\ in.op = "load_slot" => in.r \in KnownBefore(f, i, n) /\ q.vals[in.r] = slots[in.slot]
Running(f, i, n, slots, q) ==
  /\ IsFunction(q.vals) /\ IsFunction(q.slots)
  /\ ValuesKnown(f, i, n, q)
  /\ SlotsKept(f, i, n, slots, q)
  /\ GuardsPassed(f, i, n, q)
  /\ FirstRead(f, i, n, slots, q)
BlockState(f, i, n, slots, q) ==
  IsRun(q) /\ (q.st = "trap" \/ (q.st = "run" /\ Running(f, i, n, slots, q)))

LEMMA BlockStarts ==
  ASSUME NEW u, NEW f, NEW i, NEW slots, Entered(u, f, i, slots), NEW given, NEW out
  PROVE  BlockState(f, i, 1, slots, [vals |-> GivenTo(u, given), slots |-> slots, out |-> out, st |-> "run"])
<1> DEFINE q == [vals |-> GivenTo(u, given), slots |-> slots, out |-> out, st |-> "run"]
<1>1. Accepted(u, f) /\ IsFunction(slots) /\ ArraysWhole(f, slots)
  BY DEF Entered
<1>2. IsRun(q) /\ q.st = "run" /\ q.slots = slots /\ q.vals = GivenTo(u, given)
  BY DEF IsRun
<1> HIDE DEF q
<1>3. \A v : v \in KnownBefore(f, i, 1) <=> v \in f.params
  BY KnownHas, 1 .. 1 - 1 = {}
<1>4. ASSUME NEW v \in KnownBefore(f, i, 1) PROVE v \in DOMAIN q.vals /\ (TypesOf(f)[v] = "array" => ArrayValue(f, q.vals[v]))
  <2>1. v \in f.params /\ v \in DOMAIN u.params /\ TypesOf(f)[v] = u.params[v].t
    BY <1>1, <1>3, ParameterType
  <2>2. v \in DOMAIN q.vals
    BY <1>2, <2>1 DEF GivenTo
  <2>3. ASSUME u.params[v].t = "array", NEW s \in ArraySlots(f) PROVE IsArray(q.vals[v], f.slots[s].extent)
    <3>1. q.vals[v] = [j \in 1 .. u.params[v].extent |-> given]
      <4>1. GivenTo(u, given)[v] = CASE u.params[v].t = "array" -> [j \in 1 .. u.params[v].extent |-> given]
                                     [] TaggedType(u.params[v].t) -> Callee("parse", <<given>>, <<>>)
                                     [] OTHER -> given
        BY <2>1 DEF GivenTo
      <4>2. QED
        BY <1>2, <2>3, <4>1 DEF TaggedType
    <3>2. u.params[v].extent = f.slots[s].extent
      <4>1. v \in ArrayParams(u)
        BY <2>1, <2>3 DEF ArrayParams
      <4>2. QED
        BY <1>1, <2>3, <4>1 DEF Accepted, IsLirFunction, ArraySlots
    <3>3. QED
      BY <3>1, <3>2 DEF IsArray
  <2>4. QED
    BY <2>1, <2>2, <2>3 DEF ArrayValue
<1>5. ValuesKnown(f, i, 1, q)
  BY <1>4 DEF ValuesKnown
<1>6. SlotsKept(f, i, 1, slots, q)
  <2>1. \A s : ~WrittenIn(f, i, 1, s)
    BY 1 .. 1 - 1 = {} DEF WrittenIn
  <2>2. QED
    BY <1>1, <1>2, <2>1 DEF SlotsKept
<1>7. GuardsPassed(f, i, 1, q)
  BY 1 .. 1 - 1 = {} DEF GuardsPassed, GuardsBefore
<1>8. FirstRead(f, i, 1, slots, q)
  BY DEF FirstRead
<1>9. IsFunction(q.vals) /\ IsFunction(q.slots)
  BY <1>1, <1>2 DEF GivenTo, IsFunction
<1>10. QED
  <2>1. BlockState(f, i, 1, slots, q)
    BY <1>2, <1>5, <1>6, <1>7, <1>8, <1>9 DEF BlockState, Running
  <2>2. QED
    BY <2>1 DEF q

\* The instruction in stands at place n of block i.
StandsAt(f, i, n, in) == n \in DOMAIN f.blocks[i].code /\ in = f.blocks[i].code[n]

LEMMA InstructionStands ==
  ASSUME NEW u, NEW f, Accepted(u, f), NEW i \in DOMAIN f.blocks, NEW n, NEW in, StandsAt(f, i, n, in)
  PROVE  /\ n \in Nat /\ n >= 1 /\ in.r \in Nat /\ (in.r > 0 <=> GivesValue(in))
         /\ in.r > 0 => in.r \notin KnownBefore(f, i, n) /\ TypesOf(f)[in.r] = in.t
         /\ Len(in.args) \in Nat /\ DOMAIN in.args = 1 .. Len(in.args)
         /\ \A j \in DOMAIN in.args : in.args[j] \in KnownBefore(f, i, n)
         /\ Range(in.args) \subseteq KnownBefore(f, i, n)
         /\ WellFormed(f, TypesOf(f), GuardsBefore(f, i, n), in)
         /\ \A v : v \in KnownBefore(f, i, n + 1) <=> v \in KnownBefore(f, i, n) \/ (v = in.r /\ v # 0)
         /\ \A s : WrittenIn(f, i, n + 1, s) <=> WrittenIn(f, i, n, s) \/ (Writes(in) /\ in.slot = s)
         /\ \A g : g \in GuardsBefore(f, i, n + 1) <=>
              g \in GuardsBefore(f, i, n) \/ (in.op = "check_index" /\ g = <<in.args[1], in.extent>>)
<1>1. n \in DOMAIN f.blocks[i].code /\ in = f.blocks[i].code[n]
  BY DEF StandsAt
<1>2. n \in Nat /\ n >= 1 /\ in.r \in Nat /\ (in.r > 0 <=> GivesValue(in))
      /\ (in.r > 0 => in.r \notin KnownBefore(f, i, n) /\ TypesOf(f)[in.r] = in.t)
      /\ Len(in.args) \in Nat /\ DOMAIN in.args = 1 .. Len(in.args)
      /\ (\A j \in DOMAIN in.args : in.args[j] \in KnownBefore(f, i, n))
      /\ Range(in.args) \subseteq KnownBefore(f, i, n)
      /\ WellFormed(f, TypesOf(f), GuardsBefore(f, i, n), in)
  BY <1>1, InstructionChecked
<1>3. /\ \A v : v \in KnownBefore(f, i, n + 1) <=> v \in KnownBefore(f, i, n) \/ (v = in.r /\ v # 0)
      /\ \A s : WrittenIn(f, i, n + 1, s) <=> WrittenIn(f, i, n, s) \/ (Writes(in) /\ in.slot = s)
      /\ \A g : g \in GuardsBefore(f, i, n + 1) <=>
           g \in GuardsBefore(f, i, n) \/ (in.op = "check_index" /\ g = <<in.args[1], in.extent>>)
  <2>1. n \in Nat /\ n >= 1
    BY <1>2
  <2>2. in = f.blocks[i].code[n]
    BY <1>1
  <2>3. QED
    BY <2>1, <2>2, OneMore
<1>4. QED
  BY <1>2, <1>3

\* An instruction that gives a value, of an array if its type says so.
LEMMA ValueGiven ==
  ASSUME NEW u, NEW f, NEW i, NEW slots, Entered(u, f, i, slots), NEW n, NEW in, StandsAt(f, i, n, in),
         NEW q, IsRun(q), q.st = "run", Running(f, i, n, slots, q),
         GivesValue(in), NEW v,
         in.t = "array" => ArrayValue(f, v),
         in.op = "load_slot" => v = q.slots[in.slot],
         NEW p, IsRun(p), p.st = "run", p.slots = q.slots, p.vals = With(q.vals, in.r, v)
  PROVE  BlockState(f, i, n + 1, slots, p)
<1>1. Accepted(u, f) /\ i \in DOMAIN f.blocks
  BY DEF Entered
<1>2. n \in Nat /\ n >= 1 /\ in.r \in Nat /\ in.r > 0 /\ in.r \notin KnownBefore(f, i, n) /\ TypesOf(f)[in.r] = in.t
  BY <1>1, InstructionStands
<1>3. ~Writes(in) /\ in.op # "check_index"
  BY DEF GivesValue
<1>4. /\ \A w : w \in KnownBefore(f, i, n + 1) <=> w \in KnownBefore(f, i, n) \/ w = in.r
      /\ \A s : WrittenIn(f, i, n + 1, s) <=> WrittenIn(f, i, n, s)
      /\ \A g : g \in GuardsBefore(f, i, n + 1) <=> g \in GuardsBefore(f, i, n)
  BY <1>2, <1>3, <1>1, InstructionStands
<1>5. IsFunction(p.vals) /\ DOMAIN p.vals = DOMAIN q.vals \cup {in.r} /\ p.vals[in.r] = v /\ \A w \in DOMAIN q.vals \ {in.r} : p.vals[w] = q.vals[w]
  <2>1. p.vals = With(q.vals, in.r, v)
    OBVIOUS
  <2>2. QED
    BY <2>1 DEF With, IsFunction
<1>6. \A w \in KnownBefore(f, i, n) : w \in DOMAIN q.vals /\ p.vals[w] = q.vals[w]
  BY <1>2, <1>5 DEF Running, ValuesKnown
<1>7. ValuesKnown(f, i, n + 1, p)
  <2>1. ASSUME NEW w \in KnownBefore(f, i, n + 1)
        PROVE  w \in DOMAIN p.vals /\ (TypesOf(f)[w] = "array" => ArrayValue(f, p.vals[w]))
    <3>1. CASE w = in.r
      BY <1>2, <1>5, <3>1
    <3>2. CASE w \in KnownBefore(f, i, n)
      BY <1>5, <1>6, <3>2 DEF Running, ValuesKnown
    <3>3. QED
      BY <1>4, <3>1, <3>2
  <2>2. QED
    BY <2>1 DEF ValuesKnown
<1>8. SlotsKept(f, i, n + 1, slots, p)
  BY <1>2, <1>4 DEF Running, SlotsKept
<1>9. GuardsPassed(f, i, n + 1, p)
  BY <1>4, <1>6 DEF Running, GuardsPassed
<1>10. FirstRead(f, i, n + 1, slots, p)
  <2> SUFFICES ASSUME f.blocks[i].code[1].op = "load_slot"
               PROVE  f.blocks[i].code[1].r \in KnownBefore(f, i, n + 1)
                      /\ p.vals[f.blocks[i].code[1].r] = slots[f.blocks[i].code[1].slot]
    BY DEF FirstRead
  <2>1. CASE n = 1
    BY <2>1, <1>4, <1>5 DEF Running, SlotsKept, StandsAt
  <2>2. CASE n > 1
    BY <2>2, <1>4, <1>6 DEF Running, FirstRead
  <2>3. QED
    BY <1>2, <2>1, <2>2
<1>11. QED
  BY <1>5, <1>7, <1>8, <1>9, <1>10 DEF BlockState, Running

\* An instruction that gives none: it may write its slot, or an element of an array.
LEMMA NoValueGiven ==
  ASSUME NEW u, NEW f, NEW i, NEW slots, Entered(u, f, i, slots), NEW n, NEW in, StandsAt(f, i, n, in),
         NEW q, IsRun(q), q.st = "run", Running(f, i, n, slots, q),
         ~GivesValue(in),
         NEW p, IsRun(p), p.st = "run", p.vals = q.vals, IsFunction(p.slots),
         \A s \in DOMAIN q.slots : s \in DOMAIN p.slots,
         Writes(in) => in.slot \in DOMAIN p.slots,
         ArraysWhole(f, p.slots),
         in.op = "check_index" =>
           /\ in.args[1] \in KnownBefore(f, i, n)
           /\ q.vals[in.args[1]] \in 0 .. in.extent - 1
  PROVE  BlockState(f, i, n + 1, slots, p)
<1>1. Accepted(u, f) /\ i \in DOMAIN f.blocks
  BY DEF Entered
<1>2. n \in Nat /\ n >= 1 /\ in.r = 0
  BY <1>1, InstructionStands
<1>3. in.op # "load_slot"
  BY DEF GivesValue, Writes
<1>4. /\ \A w : w \in KnownBefore(f, i, n + 1) <=> w \in KnownBefore(f, i, n)
      /\ \A s : WrittenIn(f, i, n + 1, s) <=> WrittenIn(f, i, n, s) \/ (Writes(in) /\ in.slot = s)
      /\ \A g : g \in GuardsBefore(f, i, n + 1) <=>
           g \in GuardsBefore(f, i, n) \/ (in.op = "check_index" /\ g = <<in.args[1], in.extent>>)
  BY <1>2, <1>1, InstructionStands
<1>5. ValuesKnown(f, i, n + 1, p)
  BY <1>4 DEF Running, ValuesKnown
<1>6. SlotsKept(f, i, n + 1, slots, p)
  BY <1>2, <1>4 DEF Running, SlotsKept
<1>7. GuardsPassed(f, i, n + 1, p)
  BY <1>4 DEF Running, GuardsPassed
<1>8. FirstRead(f, i, n + 1, slots, p)
  <2> SUFFICES ASSUME f.blocks[i].code[1].op = "load_slot"
               PROVE  f.blocks[i].code[1].r \in KnownBefore(f, i, n + 1)
                      /\ p.vals[f.blocks[i].code[1].r] = slots[f.blocks[i].code[1].slot]
    BY DEF FirstRead
  <2>1. n # 1
    BY <1>3 DEF StandsAt
  <2>2. n > 1
    BY <1>2, <2>1
  <2>3. QED
    BY <2>2, <1>4 DEF Running, FirstRead
<1>9. QED
  BY <1>5, <1>6, <1>7, <1>8 DEF BlockState, Running

-----------------------------------------------------------------------------
(* Every instruction of an accepted block finds what it needs               *)

LEMMA GivenIsRun ==
  ASSUME NEW q, IsRun(q), NEW in, NEW v
  PROVE  LET p == Gives(q, in, v) IN IsRun(p) /\ p.st = q.st /\ p.slots = q.slots /\ p.vals = With(q.vals, in.r, v)
BY DEF Gives, IsRun

LEMMA ArrayLength ==
  ASSUME NEW a, NEW extent \in Nat, IsArray(a, extent)
  PROVE  Len(a) = extent
<1>1. a \in [1 .. extent -> Range(a)]
  BY DEF IsArray, Range
<1>2. a \in Seq(Range(a)) /\ DOMAIN a = 1 .. extent
  BY <1>1, SeqDef
<1>3. QED
  BY <1>2

\* What a payload or a call gives is no array.
LEMMA PayloadTypes ==
  ASSUME NEW t, TaggedType(t), NEW m \in DOMAIN Domains[t]
  PROVE  /\ \A j \in DOMAIN Domains[t][m] : Domains[t][m][j] \in {"i32", "E", "F"}
         /\ Len(Domains[t][m]) \in Nat
         /\ Domains[t][m] # <<>> => 1 \in DOMAIN Domains[t][m] /\ Len(Domains[t][m]) > 0
<1> DEFINE Fits(p) == /\ \A j \in DOMAIN p : p[j] \in {"i32", "E", "F"}
                      /\ Len(p) \in Nat
                      /\ p # <<>> => 1 \in DOMAIN p /\ Len(p) > 0
<1>1. Fits(<<"i32">>) /\ Fits(<<"E">>) /\ Fits(<<"F">>) /\ Fits(<<"i32", "i32">>) /\ Fits(<<>>)
  OBVIOUS
<1>2. t \in {"ResE", "ResF", "Opt", "Pair"}
  BY DEF TaggedType
<1>3. Domains[t][m] \in {<<"i32">>, <<"E">>, <<"F">>, <<"i32", "i32">>, <<>>}
  <2>1. CASE t = "ResE"
    BY <2>1 DEF Domains
  <2>2. CASE t = "ResF"
    BY <2>2 DEF Domains
  <2>3. CASE t = "Opt"
    BY <2>3 DEF Domains
  <2>4. CASE t = "Pair"
    BY <2>4 DEF Domains
  <2>5. QED
    BY <1>2, <2>1, <2>2, <2>3, <2>4
<1>4. Fits(Domains[t][m])
  <2> HIDE DEF Fits
  <2>1. QED
    BY <1>1, <1>3
<1>5. QED
  BY <1>4

LEMMA ReturnTypes == \A c \in Callees : ReturnType(c) # "array"
BY DEF Callees, ReturnType

\* A slot is read where every path has written it.
LEMMA ReadIsWritten ==
  ASSUME NEW u, NEW f, NEW i, NEW slots, Entered(u, f, i, slots), NEW n, NEW in, StandsAt(f, i, n, in),
         in.op = "load_slot", NEW q, Running(f, i, n, slots, q)
  PROVE  in.slot \in DOMAIN q.slots
<1> DEFINE s == in.slot
           p == <<i, n>>
<1>1. Accepted(u, f) /\ i \in DOMAIN f.blocks /\ i \in LirReachable(f) /\ SlotsWritten(f, i, slots)
  BY DEF Entered
<1>2. p \in Places(f) /\ InstructionAt(f, p) = in /\ p[1] = i /\ p[2] = n
  BY <1>1, PlaceOf DEF StandsAt
<1>3. s \in DOMAIN f.slots
  BY <1>1, InstructionStands DEF WellFormed, Writes, Arithmetic, Comparisons
<1>4. ReadsInitialized(f, p)
  <2> HIDE DEF p
  <2>1. QED
    BY <1>1, <1>2, AcceptedIsChecked DEF MatchesChecked
<1>5. WrittenIn(f, i, n, s) \/ (i # 1 /\ ~\E j \in Unwritten(f, s) : i \in LirSuccessors(f, j))
  <2> HIDE DEF p
  <2>1. QED
    BY <1>1, <1>2, <1>4 DEF ReadsInitialized, Unwritten, BlocksWriting
<1>6. QED
  BY <1>1, <1>3, <1>5 DEF Running, SlotsKept, SlotsWritten

\* A sequence with an index is not the empty one.
LEMMA IndexedIsNotEmpty ==
  ASSUME NEW list, NEW j \in DOMAIN list
  PROVE  list # <<>>
OBVIOUS

\* The test of a tagged arm reads no payload.
LEMMA DispatchTests ==
  ASSUME NEW f, NEW flow, NEW a, NEW arm, arm = flow.arms[a], DispatchCode(f, flow, a),
         SubjectType(f, flow) # "i32"
  PROVE  f.blocks[arm.dispatch].code[2].op # "checked_payload"
BY DEF DispatchCode

\* A payload is read in the body of the arm whose test found its member.
LEMMA PayloadIsThere ==
  ASSUME NEW u, NEW f, NEW i, NEW slots, Entered(u, f, i, slots), NEW n, NEW in, StandsAt(f, i, n, in),
         in.op = "checked_payload", NEW q, Running(f, i, n, slots, q)
  PROVE  Arguments(q, in)[1].m = in.member
<1> DEFINE p == <<i, n>>
<1>1. Accepted(u, f) /\ i \in DOMAIN f.blocks /\ ArmTested(f, i, slots) /\ MatchesChecked(f)
  BY AcceptedIsChecked DEF Entered
<1>2. p \in Places(f) /\ InstructionAt(f, p) = in /\ p[1] = i /\ p[2] = n
  BY <1>1, PlaceOf DEF StandsAt
<1>3. p \in AllowedAccess(f)
  <2> HIDE DEF p
  <2>1. QED
    BY <1>1, <1>2 DEF MatchesChecked, Accesses
<1>4. PICK k \in DOMAIN f.patterns :
        \E a \in DOMAIN f.patterns[k].arms :
          LET flow == f.patterns[k]
              arm == flow.arms[a]
          IN \/ SubjectType(f, flow) # "i32" /\ p = <<arm.dispatch, 2>>
             \/ \E j \in DOMAIN BoundFields(f, flow, arm) : p = <<arm.body, 2 * j>>
  <2> HIDE DEF p
  <2>1. QED
    BY <1>3 DEF AllowedAccess
<1> DEFINE flow == f.patterns[k]
<1>15. PICK a \in DOMAIN flow.arms :
        LET arm == flow.arms[a] IN
        \/ SubjectType(f, flow) # "i32" /\ p = <<arm.dispatch, 2>>
        \/ \E j \in DOMAIN BoundFields(f, flow, arm) : p = <<arm.body, 2 * j>>
  BY <1>4
<1> DEFINE arm == flow.arms[a]
<1>5. DispatchCode(f, flow, a) /\ BindingCode(f, flow, a)
  BY <1>1 DEF MatchesChecked
<1>6. ~(SubjectType(f, flow) # "i32" /\ p = <<arm.dispatch, 2>>)
  <2> SUFFICES ASSUME SubjectType(f, flow) # "i32", i = arm.dispatch, n = 2 PROVE FALSE
    OBVIOUS
  <2>1. in = f.blocks[arm.dispatch].code[2]
    BY DEF StandsAt
  <2>2. arm = flow.arms[a]
    OBVIOUS
  <2> HIDE DEF flow, arm
  <2>3. QED
    BY <1>5, <2>1, <2>2, DispatchTests
<1>7. PICK j \in DOMAIN BoundFields(f, flow, arm) : i = arm.body /\ n = 2 * j
  BY <1>15, <1>6
<1>8. BoundFields(f, flow, arm) # <<>> => slots[flow.subject].m = ArmMember(f, arm)
  BY <1>1, <1>7 DEF ArmTested
<1>16. arm = flow.arms[a]
  OBVIOUS
<1> DEFINE code == f.blocks[i].code
<1> HIDE DEF flow, arm
<1>17. in = code[2 * j] /\ in = code[n]
  BY <1>7 DEF StandsAt
<1>18. code = f.blocks[arm.body].code
  BY <1>7
<1> HIDE DEF code
<1>9. /\ BoundFields(f, flow, arm) # <<>>
      /\ code[1].op = "load_slot" /\ code[1].slot = flow.subject
      /\ in.member = ArmMember(f, arm) /\ in.args = <<code[1].r>>
  <2>1. BindingCode(f, flow, a) /\ j \in DOMAIN BoundFields(f, flow, arm)
    BY <1>5, <1>7
  <2>2. /\ BoundFields(f, flow, arm) # <<>>
        /\ code[1].op = "load_slot" /\ code[1].slot = flow.subject
        /\ code[2 * j].member = ArmMember(f, arm) /\ code[2 * j].args = <<code[1].r>>
    <3>1. BoundFields(f, flow, arm) # <<>>
      BY <2>1, IndexedIsNotEmpty
    <3>2. QED
      BY <2>1, <3>1, <1>16, <1>18 DEF BindingCode
  <2>3. QED
    BY <2>2, <1>17
<1>10. slots[flow.subject].m = ArmMember(f, arm)
  BY <1>8, <1>9
<1>11. n > 1
  <2>1. n \in Nat /\ n >= 1
    BY <1>1, InstructionStands
  <2>2. n # 1
    BY <1>9, <1>17
  <2>3. QED
    BY <2>1, <2>2
<1>12. q.vals[code[1].r] = slots[flow.subject]
  BY <1>9, <1>11 DEF Running, FirstRead, code
<1>13. Arguments(q, in)[1] = q.vals[code[1].r]
  <2> DEFINE r == code[1].r
  <2>1. in.args = <<r>>
    BY <1>9
  <2> HIDE DEF r
  <2>2. 1 \in DOMAIN in.args /\ in.args[1] = r
    BY <2>1
  <2>3. Arguments(q, in)[1] = q.vals[r]
    BY <2>2 DEF Arguments
  <2>4. QED
    BY <2>3 DEF r
<1>14. QED
  BY <1>9, <1>10, <1>12, <1>13

\* An array is indexed in its extent: the index has passed the guard of this extent.
LEMMA IndexIsInside ==
  ASSUME NEW u, NEW f, NEW i, NEW slots, Entered(u, f, i, slots), NEW n, NEW in, StandsAt(f, i, n, in),
         in.op = "index_address", NEW q, Running(f, i, n, slots, q)
  PROVE  /\ in.slot \in DOMAIN q.slots
         /\ Arguments(q, in)[1] < Len(q.slots[in.slot])
<1>1. Accepted(u, f) /\ i \in DOMAIN f.blocks
  BY DEF Entered
<1>2. WellFormed(f, TypesOf(f), GuardsBefore(f, i, n), in) /\ n \in Nat /\ n >= 1 /\ n <= Len(f.blocks[i].code)
  <2>1. n \in DOMAIN f.blocks[i].code /\ WellFormed(f, TypesOf(f), GuardsBefore(f, i, n), in)
    BY <1>1, InstructionStands DEF StandsAt
  <2>2. QED
    BY <1>1, <2>1, InstructionChecked
<1>3. /\ in.slot \in DOMAIN f.slots /\ f.slots[in.slot].extent = in.extent
      /\ <<in.args[1], in.extent>> \in GuardsBefore(f, i, n)
      /\ 1 \in DOMAIN in.args
  BY <1>2 DEF WellFormed, Integer, Writes, Arithmetic, Comparisons
<1>4. PICK m \in 1 .. n - 1 : f.blocks[i].code[m].op = "check_index" /\ f.blocks[i].code[m].extent = in.extent
  BY <1>3 DEF GuardsBefore
<1>5. m \in DOMAIN f.blocks[i].code
  <2>1. IsSequence(f.blocks[i].code)
    BY <1>1 DEF Accepted, IsLirFunction, IsBlock
  <2>2. QED
    BY <1>2, <2>1, SequenceDomain
<1>6. WellFormed(f, TypesOf(f), GuardsBefore(f, i, m), f.blocks[i].code[m])
  BY <1>1, <1>5, InstructionChecked
<1>7. in.extent > 0
  BY <1>4, <1>6 DEF WellFormed, Writes, Arithmetic, Comparisons
<1>8. in.extent \in Nat
  BY <1>1, <1>3 DEF Accepted, IsLirFunction
<1>9. in.slot \in ArraySlots(f)
  BY <1>3, <1>7 DEF ArraySlots
<1>10. in.slot \in DOMAIN q.slots /\ Len(q.slots[in.slot]) = in.extent
  BY <1>3, <1>8, <1>9, ArrayLength DEF Running, SlotsKept, ArraysWhole
<1>11. q.vals[in.args[1]] \in 0 .. in.extent - 1
  BY <1>3 DEF Running, GuardsPassed
<1>12. Arguments(q, in)[1] = q.vals[in.args[1]]
  BY <1>3 DEF Arguments
<1>13. QED
  <2> DEFINE x == q.vals[in.args[1]]
  <2>1. x \in 0 .. in.extent - 1
    BY <1>11
  <2> HIDE DEF x
  <2>2. x < in.extent
    BY <1>8, <2>1
  <2>3. Arguments(q, in)[1] < Len(q.slots[in.slot])
    BY <1>10, <1>12, <2>2 DEF x
  <2>4. QED
    BY <1>10, <2>3

\* Every operator that the verifier lets through is one of these.
LEMMA Operators ==
  ASSUME NEW f, NEW types, NEW guards, NEW in, WellFormed(f, types, guards, in)
  PROVE  \/ in.op \in {"const", "load_slot", "call", "make_tagged", "test_variant", "checked_payload", "index_address", "load"}
         \/ in.op \in Arithmetic \cup Comparisons
         \/ Writes(in)
         \/ in.op \in {"require_variant", "check_index", "store"}
BY DEF WellFormed

\* No instruction but a load and a parameter gives an array.
LEMMA GivesNoArray ==
  ASSUME NEW f, NEW types, NEW guards, NEW in, WellFormed(f, types, guards, in), GivesValue(in), in.op # "load_slot"
  PROVE  in.t # "array"
<1>1. CASE in.op = "const"
  BY <1>1 DEF WellFormed, Scalar, Integer, EnumType, Writes, Arithmetic, Comparisons
<1>2. CASE in.op = "call"
  BY <1>2, ReturnTypes DEF WellFormed, Writes, Arithmetic, Comparisons
<1>3. CASE in.op = "make_tagged"
  BY <1>3 DEF WellFormed, TaggedType, Writes, Arithmetic, Comparisons
<1>4. CASE in.op = "test_variant"
  BY <1>4 DEF WellFormed, Writes, Arithmetic, Comparisons
<1>5. CASE in.op = "checked_payload"
  <2>1. TaggedType(in.of) /\ in.member \in DOMAIN Domains[in.of] /\ in.field \in DOMAIN Domains[in.of][in.member]
        /\ in.t = Domains[in.of][in.member][in.field]
    BY <1>5 DEF WellFormed, Writes, Arithmetic, Comparisons
  <2>2. Domains[in.of][in.member][in.field] \in {"i32", "E", "F"}
    BY <2>1, PayloadTypes
  <2>3. QED
    BY <2>1, <2>2
<1>6. CASE in.op = "index_address" \/ in.op = "load"
  BY <1>6 DEF WellFormed, Writes, Arithmetic, Comparisons
<1>7. CASE in.op \in Arithmetic
  BY <1>7 DEF WellFormed, Integer, Writes, Arithmetic, Comparisons
<1>8. CASE in.op \in Comparisons
  BY <1>8 DEF WellFormed, Writes, Arithmetic, Comparisons
<1>9. QED
  BY Operators, <1>1, <1>2, <1>3, <1>4, <1>5, <1>6, <1>7, <1>8 DEF GivesValue

\* An instruction that gives a value, for one of the reasons it may have to.
LEMMA ValueStep ==
  ASSUME NEW u, NEW f, NEW i, NEW slots, Entered(u, f, i, slots), NEW n, NEW in, StandsAt(f, i, n, in),
         NEW q, IsRun(q), q.st = "run", Running(f, i, n, slots, q), GivesValue(in)
  PROVE  BlockState(f, i, n + 1, slots, Step(q, in))
<1> DEFINE p == Step(q, in)
<1>1. Accepted(u, f) /\ i \in DOMAIN f.blocks
  BY DEF Entered
<1>2. WellFormed(f, TypesOf(f), GuardsBefore(f, i, n), in) /\ \A j \in DOMAIN in.args : in.args[j] \in KnownBefore(f, i, n)
  BY <1>1, InstructionStands
<1>3. Range(in.args) \subseteq DOMAIN q.vals
  BY <1>1, InstructionStands DEF Running, ValuesKnown
<1>4. CASE in.op = "load_slot"
  <2> DEFINE v == q.slots[in.slot]
  <2>1. in.slot \in DOMAIN q.slots
    BY <1>4, ReadIsWritten
  <2>2. p = Gives(q, in, v)
    BY <1>3, <1>4, <2>1, StepLoads
  <2>3. in.t = "array" => ArrayValue(f, v)
    <3> SUFFICES ASSUME in.t = "array", NEW s \in ArraySlots(f) PROVE IsArray(v, f.slots[s].extent)
      BY DEF ArrayValue
    <3>1. in.slot \in DOMAIN f.slots /\ f.slots[in.slot].t = "array"
      BY <1>2, <1>4 DEF WellFormed, Writes, Arithmetic, Comparisons
    <3>2. IsLirFunction(u, f)
      BY <1>1 DEF Accepted
    <3>3. in.slot \in ArraySlots(f) /\ f.slots[s].extent = f.slots[in.slot].extent
      BY <3>1, <3>2 DEF IsLirFunction, ArraySlots
    <3>4. QED
      BY <3>3 DEF Running, SlotsKept, ArraysWhole
  <2>4. IsRun(p) /\ p.st = "run" /\ p.slots = q.slots /\ p.vals = With(q.vals, in.r, v)
    BY <2>2, GivenIsRun
  <2>5. QED
    <3> HIDE DEF v, p
    <3>1. in.op = "load_slot" => v = q.slots[in.slot]
      BY DEF v
    <3>2. BlockState(f, i, n + 1, slots, p)
      BY <2>3, <2>4, <3>1, ValueGiven
    <3>3. QED
      BY <3>2 DEF p
<1>5. CASE in.op # "load_slot"
  <2>1. in.t # "array"
    BY <1>2, <1>5, GivesNoArray
  <2>2. p = Trapped(q) \/ \E v : IsRun(p) /\ p.st = "run" /\ p.slots = q.slots /\ p.vals = With(q.vals, in.r, v)
    <3>1. ASSUME NEW v, p = Gives(q, in, v) PROVE IsRun(p) /\ p.st = "run" /\ p.slots = q.slots /\ p.vals = With(q.vals, in.r, v)
      BY <3>1, GivenIsRun
    <3>2. CASE in.op \in Arithmetic \cup Comparisons
      BY <1>3, <3>1, <3>2, StepOperates
    <3>3. CASE in.op = "call"
      <4> DEFINE v == Callee(in.of, Arguments(q, in), q.out)
                 g == Gives(q, in, v)
      <4>1. p = [g EXCEPT !.out = Append(@, <<in.of, Arguments(q, in)>>)]
        BY <1>3, <3>3, StepCalls
      <4>2. IsRun(g) /\ g.st = "run" /\ g.slots = q.slots /\ g.vals = With(q.vals, in.r, v)
        BY GivenIsRun
      <4> HIDE DEF g, v, p
      <4>3. IsRun(p) /\ p.st = g.st /\ p.slots = g.slots /\ p.vals = g.vals
        BY <4>1, <4>2 DEF IsRun
      <4>4. QED
        BY <4>2, <4>3
    <3>4. CASE in.op = "checked_payload"
      BY <1>3, <3>1, <3>4, PayloadIsThere, StepTakesPayload
    <3>5. CASE in.op = "index_address"
      BY <1>3, <3>1, <3>5, IndexIsInside, StepAddresses
    <3>6. CASE in.op \in {"const", "make_tagged", "test_variant", "load"}
      BY <1>3, <3>1, <3>6, StepMakes, StepTests
    <3>7. QED
      BY <1>2, <1>5, <3>2, <3>3, <3>4, <3>5, <3>6, Operators DEF GivesValue
  <2>3. CASE p = Trapped(q)
    BY <2>3 DEF BlockState, Trapped, IsRun
  <2>4. ASSUME NEW v, IsRun(p), p.st = "run", p.slots = q.slots, p.vals = With(q.vals, in.r, v)
        PROVE  BlockState(f, i, n + 1, slots, p)
    <3> HIDE DEF p
    <3>1. QED
      BY <1>5, <2>1, <2>4, ValueGiven
  <2>5. QED
    BY <2>2, <2>3, <2>4
<1>6. QED
  BY <1>4, <1>5

\* An instruction that gives none ends the run in a trap, or leaves what later ones need.
LEMMA NoValueStep ==
  ASSUME NEW u, NEW f, NEW i, NEW slots, Entered(u, f, i, slots), NEW n, NEW in, StandsAt(f, i, n, in),
         NEW q, IsRun(q), q.st = "run", Running(f, i, n, slots, q), ~GivesValue(in)
  PROVE  BlockState(f, i, n + 1, slots, Step(q, in))
<1> DEFINE p == Step(q, in)
           w == q.slots
<1>1. Accepted(u, f) /\ i \in DOMAIN f.blocks
  BY DEF Entered
<1>2. WellFormed(f, TypesOf(f), GuardsBefore(f, i, n), in) /\ \A j \in DOMAIN in.args : in.args[j] \in KnownBefore(f, i, n)
  BY <1>1, InstructionStands
<1>3. Range(in.args) \subseteq DOMAIN q.vals
  BY <1>1, InstructionStands DEF Running, ValuesKnown
<1>4. IsFunction(w) /\ ArraysWhole(f, w)
  BY DEF Running, SlotsKept
<1>5. CASE Writes(in)
  <2> DEFINE a == Arguments(q, in)[1]
  <2>1. p = [q EXCEPT !.slots = With(@, in.slot, a)]
    BY <1>3, <1>5, StepWrites
  <2>2. IsRun(p) /\ p.st = "run" /\ p.vals = q.vals /\ p.slots = With(w, in.slot, a)
    <3> HIDE DEF a, p
    <3>1. QED
      BY <2>1 DEF IsRun
  <2>3. ASSUME NEW s \in ArraySlots(f), s = in.slot PROVE IsArray(a, f.slots[s].extent)
    <3>1. f.slots[s].t = "array"
      BY <1>1, <2>3 DEF Accepted, IsLirFunction, ArraySlots
    <3>2. 1 \in DOMAIN in.args /\ TypesOf(f)[in.args[1]] = "array"
      BY <1>2, <1>5, <2>3, <3>1 DEF WellFormed, Writes, Arithmetic, Comparisons
    <3>3. a = q.vals[in.args[1]] /\ in.args[1] \in KnownBefore(f, i, n)
      BY <1>2, <3>2 DEF Arguments
    <3>4. QED
      BY <3>2, <3>3 DEF Running, ValuesKnown, ArrayValue
  <2>4. IsFunction(p.slots) /\ DOMAIN p.slots = DOMAIN w \cup {in.slot} /\ p.slots[in.slot] = a
        /\ \A s \in DOMAIN w \ {in.slot} : p.slots[s] = w[s]
    <3> HIDE DEF a, p, w
    <3>1. QED
      BY <2>2 DEF With, IsFunction
  <2>5. ArraysWhole(f, p.slots)
    <3> HIDE DEF a, p, w
    <3>1. QED
      BY <1>4, <2>3, <2>4 DEF ArraysWhole
  <2>6. in.op # "check_index"
    BY <1>5 DEF Writes
  <2>7. QED
    <3> HIDE DEF a, p
    <3>1. BlockState(f, i, n + 1, slots, p)
      BY <2>2, <2>4, <2>5, <2>6, NoValueGiven
    <3>2. QED
      BY <3>1 DEF p
<1>6. CASE in.op = "require_variant"
  <2>1. p = q \/ p = Trapped(q)
    BY <1>3, <1>6, StepRequires
  <2>2. ~Writes(in) /\ in.op # "check_index"
    BY <1>6 DEF Writes
  <2>3. BlockState(f, i, n + 1, slots, q)
    BY <1>4, <2>2, NoValueGiven DEF Running
  <2>4. BlockState(f, i, n + 1, slots, Trapped(q))
    BY DEF BlockState, Trapped, IsRun
  <2>5. QED
    BY <2>1, <2>3, <2>4
<1>7. CASE in.op = "check_index"
  <2> DEFINE a == Arguments(q, in)[1]
  <2>1. p = IF a \in 0 .. in.extent - 1 THEN q ELSE Trapped(q)
    BY <1>3, <1>7, StepChecks
  <2>2. ~Writes(in)
    BY <1>7 DEF Writes
  <2>3. 1 \in DOMAIN in.args
    BY <1>2, <1>7 DEF WellFormed, Integer, Writes, Arithmetic, Comparisons
  <2>4. in.args[1] \in KnownBefore(f, i, n) /\ a = q.vals[in.args[1]]
    BY <1>2, <2>3 DEF Arguments
  <2>5. ASSUME a \in 0 .. in.extent - 1 PROVE BlockState(f, i, n + 1, slots, q)
    BY <1>4, <2>2, <2>4, <2>5, NoValueGiven DEF Running
  <2>6. BlockState(f, i, n + 1, slots, Trapped(q))
    BY DEF BlockState, Trapped, IsRun
  <2>7. QED
    BY <2>1, <2>5, <2>6
<1>8. CASE in.op = "store"
  <2> DEFINE s == Arguments(q, in)[1][1]
             e == Arguments(q, in)[1][2]
             v == Arguments(q, in)[2]
  <2>1. p = [q EXCEPT !.slots[s][e] = v]
    BY <1>3, <1>8, StepStores
  <2>2. IsRun(p) /\ p.st = "run" /\ p.vals = q.vals /\ p.slots = [w EXCEPT ![s] = [w[s] EXCEPT ![e] = v]]
    <3> HIDE DEF p, s, e, v
    <3>1. QED
      BY <2>1 DEF IsRun
  <2>3. IsFunction(p.slots) /\ DOMAIN p.slots = DOMAIN w
    <3> HIDE DEF p, w, s, e, v
    <3>1. QED
      BY <2>2 DEF IsFunction
  <2>4. ASSUME NEW x \in ArraySlots(f) PROVE x \in DOMAIN p.slots /\ IsArray(p.slots[x], f.slots[x].extent)
    <3>1. x \in DOMAIN w /\ IsArray(w[x], f.slots[x].extent)
      BY <1>4 DEF ArraysWhole
    <3> HIDE DEF p, w, s, e, v
    <3>2. CASE x = s
      <4>1. p.slots[x] = [w[x] EXCEPT ![e] = v]
        BY <2>2, <3>1, <3>2
      <4>2. QED
        BY <2>3, <3>1, <4>1 DEF IsArray
    <3>3. CASE x # s
      BY <2>2, <2>3, <3>1, <3>3
    <3>4. QED
      BY <3>2, <3>3
  <2>5. ArraysWhole(f, p.slots)
    <3> HIDE DEF p
    <3>1. QED
      BY <2>4 DEF ArraysWhole
  <2>6. ~Writes(in) /\ in.op # "check_index"
    BY <1>8 DEF Writes
  <2>7. QED
    <3> HIDE DEF p
    <3>1. BlockState(f, i, n + 1, slots, p)
      BY <2>2, <2>3, <2>5, <2>6, NoValueGiven
    <3>2. QED
      BY <3>1 DEF p
<1>9. QED
  <2>1. in.op \in {"require_variant", "check_index", "store"} \/ Writes(in)
    BY DEF GivesValue
  <2>2. QED
    BY <2>1, <1>5, <1>6, <1>7, <1>8

\* An instruction keeps what holds of the run of its block.
LEMMA StepKeeps ==
  ASSUME NEW u, NEW f, NEW i, NEW slots, Entered(u, f, i, slots), NEW n \in DOMAIN f.blocks[i].code,
         NEW q, BlockState(f, i, n, slots, q)
  PROVE  BlockState(f, i, n + 1, slots, Step(q, f.blocks[i].code[n]))
<1>1. CASE q.st = "trap"
  <2>1. Step(q, f.blocks[i].code[n]) = q
    BY <1>1 DEF Step
  <2>2. QED
    BY <1>1, <2>1 DEF BlockState
<1>2. CASE q.st = "run" /\ Running(f, i, n, slots, q)
  <2> DEFINE in == f.blocks[i].code[n]
  <2>1. StandsAt(f, i, n, in)
    BY DEF StandsAt
  <2>2. IsRun(q)
    BY DEF BlockState
  <2> HIDE DEF in
  <2>3. BlockState(f, i, n + 1, slots, Step(q, in))
    BY <1>2, <2>1, <2>2, ValueStep, NoValueStep
  <2>4. QED
    BY <2>3 DEF in
<1>3. QED
  BY <1>1, <1>2 DEF BlockState

\* A block that is entered so runs to its end, or to a trap.
LEMMA BlockEnds ==
  ASSUME NEW u, NEW f, NEW i, NEW slots, Entered(u, f, i, slots), NEW given, NEW out
  PROVE  BlockState(f, i, Len(f.blocks[i].code) + 1, slots,
                    Ran([vals |-> GivenTo(u, given), slots |-> slots, out |-> out, st |-> "run"], f.blocks[i].code))
<1> DEFINE code == f.blocks[i].code
           base == [vals |-> GivenTo(u, given), slots |-> slots, out |-> out, st |-> "run"]
           len == Len(code)
<1>1. len \in Nat /\ DOMAIN code = 1 .. len
  BY SequenceDomain DEF Entered, Accepted, IsLirFunction, IsBlock
<1>2. BlockState(f, i, 1, slots, base)
  BY BlockStarts
<1> HIDE DEF base, len
<1>3. PICK run : /\ run[0] = base
                 /\ \A k \in 0 .. len - 1 : run[k + 1] = Step(run[k], code[k + 1])
                 /\ Ran(base, code) = run[len]
  <2> HIDE DEF code
  <2>1. QED
    BY <1>1, BlockRun
<1> DEFINE S == {k \in Nat : k <= len => BlockState(f, i, k + 1, slots, run[k])}
<1>4. 0 \in S
  BY <1>2, <1>3
<1>5. ASSUME NEW k \in Nat, k \in S PROVE k + 1 \in S
  <2> SUFFICES ASSUME k + 1 <= len PROVE BlockState(f, i, k + 1 + 1, slots, run[k + 1])
    OBVIOUS
  <2>1. BlockState(f, i, k + 1, slots, run[k]) /\ k + 1 \in DOMAIN code
    BY <1>1, <1>5
  <2>2. run[k + 1] = Step(run[k], code[k + 1])
    BY <1>1, <1>3
  <2>3. QED
    BY <2>1, <2>2, StepKeeps
<1> HIDE DEF S
<1>6. \A k \in Nat : k \in S
  BY <1>4, <1>5, NaturalsByInduction
<1>7. BlockState(f, i, len + 1, slots, run[len])
  BY <1>1, <1>6 DEF S
<1>8. QED
  BY <1>3, <1>7 DEF base, len

-----------------------------------------------------------------------------
(* From block to block                                                      *)

Start(u, given, slots, out) == [vals |-> GivenTo(u, given), slots |-> slots, out |-> out, st |-> "run"]
\* Where the terminator t goes after the run q.
GoesTo(t, q, j) ==
  \/ t.op = "jump" /\ j = t.true
  \/ t.op = "branch" /\ j = IF q.vals[t.v] = 1 THEN t.true ELSE t.false

LEMMA GoesOn ==
  ASSUME NEW f, NEW i, NEW q, NEW j, GoesTo(f.blocks[i].term, q, j)
  PROVE  j \in LirSuccessors(f, i)
BY DEF GoesTo, LirSuccessors

\* The test of an arm leaves to its body only if the subject has its member.
LEMMA ArmFound ==
  ASSUME NEW u, NEW f, NEW i, NEW slots, Entered(u, f, i, slots), NEW given, NEW out,
         NEW q, q = Ran(Start(u, given, slots, out), f.blocks[i].code), q.st = "run",
         NEW j, GoesTo(f.blocks[i].term, q, j),
         NEW k \in DOMAIN f.patterns, NEW a \in DOMAIN f.patterns[k].arms,
         j = f.patterns[k].arms[a].body, BoundFields(f, f.patterns[k], f.patterns[k].arms[a]) # <<>>
  PROVE  q.slots[f.patterns[k].subject].m = ArmMember(f, f.patterns[k].arms[a])
<1> DEFINE flow == f.patterns[k]
           arm == flow.arms[a]
           code == f.blocks[i].code
           t == f.blocks[i].term
           base == Start(u, given, slots, out)
           x == slots[flow.subject]
           last == a = Len(flow.arms)
<1>1. Accepted(u, f) /\ i \in DOMAIN f.blocks /\ MatchesChecked(f)
  BY AcceptedIsChecked DEF Entered
<1>2. ArmEdges(f, flow, a) /\ DispatchCode(f, flow, a) /\ BindingCode(f, flow, a)
  BY <1>1 DEF MatchesChecked
<1>3. i = arm.dispatch
  <2>1. j \in LirSuccessors(f, i)
    BY GoesOn
  <2>2. QED
    BY <1>1, <1>2, <2>1 DEF ArmEdges
<1>4. TaggedType(SubjectType(f, flow)) /\ SubjectType(f, flow) # "i32"
  BY DEF BoundFields, TaggedType
<1>5. /\ Len(code) = 2 /\ code[1].op = "load_slot" /\ code[1].slot = flow.subject /\ code[2].args = <<code[1].r>>
      /\ code[2].op = (IF last THEN "require_variant" ELSE "test_variant")
      /\ code[2].member \in DOMAIN Domains[SubjectType(f, flow)]
      /\ last \/ t.v = code[2].r
  BY <1>2, <1>3, <1>4 DEF DispatchCode
<1>6. code[2].member = ArmMember(f, arm)
  BY <1>3 DEF ArmMember
<1>7. DOMAIN code = 1 .. 2 /\ 1 \in DOMAIN code /\ 2 \in DOMAIN code
  <2>1. IsSequence(code)
    BY <1>1 DEF Accepted, IsLirFunction, IsBlock
  <2>2. QED
    BY <1>5, <2>1, SequenceDomain
<1>8. PICK run : run[0] = base /\ (\A n \in 0 .. 2 - 1 : run[n + 1] = Step(run[n], code[n + 1])) /\ q = run[2]
  <2> HIDE DEF code, base
  <2>1. \E run : run[0] = base /\ (\A n \in 0 .. 2 - 1 : run[n + 1] = Step(run[n], code[n + 1])) /\ Ran(base, code) = run[2]
    <3> DEFINE two == 2
    <3>1. two \in Nat /\ DOMAIN code = 1 .. two
      BY <1>7
    <3> HIDE DEF two
    <3>2. \E run : run[0] = base /\ (\A n \in 0 .. two - 1 : run[n + 1] = Step(run[n], code[n + 1])) /\ Ran(base, code) = run[two]
      BY <3>1, BlockRun
    <3>3. QED
      BY <3>2 DEF two
  <2>2. q = Ran(base, code)
    BY DEF code, base
  <2>3. QED
    BY <2>1, <2>2
<1> DEFINE r == run[1]
<1>9. r = Step(base, code[1]) /\ q = Step(r, code[2])
  <2>1. 0 \in 0 .. 2 - 1 /\ 1 \in 0 .. 2 - 1 /\ 0 + 1 = 1 /\ 1 + 1 = 2
    OBVIOUS
  <2> HIDE DEF code, base
  <2>2. QED
    BY <1>8, <2>1
<1>10. BlockState(f, i, 1, slots, base) /\ base.st = "run" /\ base.slots = slots /\ IsRun(base)
  BY BlockStarts DEF Start, IsRun
<1>11. Running(f, i, 1, slots, base)
  <2> HIDE DEF base
  <2>1. QED
    BY <1>10 DEF BlockState
<1> HIDE DEF base, r
<1>12. r = Gives(base, code[1], x)
  <2>1. code[1].slot \in DOMAIN base.slots
    <3>1. StandsAt(f, i, 1, code[1])
      BY <1>7 DEF StandsAt
    <3>2. code[1].op = "load_slot"
      BY <1>5
    <3> HIDE DEF code
    <3>3. QED
      BY <3>1, <3>2, <1>11, ReadIsWritten
  <2>2. Range(code[1].args) \subseteq DOMAIN base.vals
    BY <1>1, <1>7, <1>11, InstructionChecked DEF Running, ValuesKnown
  <2>3. QED
    <3> HIDE DEF code
    <3>1. Step(base, code[1]) = Gives(base, code[1], base.slots[code[1].slot])
      BY <1>5, <1>10, <2>1, <2>2, StepLoads
    <3>2. QED
      BY <1>5, <1>9, <1>10, <3>1
<1>13. IsRun(r) /\ r.st = "run" /\ r.slots = slots /\ r.vals[code[1].r] = x
  <2> HIDE DEF code, x
  <2>1. IsRun(r) /\ r.st = "run" /\ r.slots = slots /\ r.vals = With(base.vals, code[1].r, x)
    BY <1>10, <1>12, GivenIsRun
  <2>2. QED
    BY <2>1 DEF With
<1>14. Range(code[2].args) \subseteq DOMAIN r.vals
  <2>1. BlockState(f, i, 1 + 1, slots, r)
    BY <1>7, <1>9, <1>10, StepKeeps
  <2>2. Running(f, i, 2, slots, r)
    BY <1>13, <2>1 DEF BlockState
  <2>3. QED
    BY <1>1, <1>7, <2>2, InstructionChecked DEF Running, ValuesKnown
<1>15. Arguments(r, code[2])[1] = x
  <2> DEFINE in == code[2]
             w == code[1].r
  <2>1. in.args = <<w>>
    BY <1>5
  <2>2. r.vals[w] = x
    BY <1>13
  <2> HIDE DEF in, w, x
  <2>3. 1 \in DOMAIN in.args /\ in.args[1] = w
    BY <2>1
  <2>4. Arguments(r, in)[1] = x
    BY <2>2, <2>3 DEF Arguments
  <2>5. QED
    BY <2>4 DEF in
<1>16. CASE last
  <2>1. q = IF x.m = code[2].member THEN r ELSE Trapped(r)
    <3> HIDE DEF code, x
    <3>1. Step(r, code[2]) = IF Arguments(r, code[2])[1].m = code[2].member THEN r ELSE Trapped(r)
      BY <1>5, <1>13, <1>14, <1>16, StepRequires
    <3>2. QED
      BY <1>9, <1>15, <3>1
  <2>2. Trapped(r).st = "trap"
    BY <1>13 DEF Trapped, IsRun
  <2>3. x.m = code[2].member /\ q = r
    BY <2>1, <2>2
  <2>4. QED
    BY <1>6, <1>13, <2>3
<1>17. CASE ~last
  <2> DEFINE b == AsBool(x.m = code[2].member)
  <2>1. q = Gives(r, code[2], b)
    <3> HIDE DEF code, x
    <3>1. Step(r, code[2]) = Gives(r, code[2], AsBool(Arguments(r, code[2])[1].m = code[2].member))
      BY <1>5, <1>13, <1>14, <1>17, StepTests
    <3>2. QED
      BY <1>9, <1>15, <3>1
  <2>2. q.slots = slots /\ q.vals[code[2].r] = b
    <3> HIDE DEF code, b
    <3>1. q.slots = r.slots /\ q.vals = With(r.vals, code[2].r, b)
      BY <1>13, <2>1, GivenIsRun
    <3>2. QED
      BY <1>13, <3>1 DEF With
  <2>3. b = 1
    <3> SUFFICES ASSUME b # 1 PROVE FALSE
      OBVIOUS
    <3>1. t.op = "branch" /\ t.false = flow.arms[a + 1].dispatch
      BY <1>2, <1>3, <1>17 DEF ArmEdges
    <3>2. j = flow.arms[a + 1].dispatch
      BY <1>5, <1>17, <2>2, <3>1 DEF GoesTo
    <3>3. a + 1 \in DOMAIN flow.arms
      <4>1. IsSequence(flow.arms)
        BY <1>1 DEF Accepted, IsLirFunction
      <4>2. QED
        BY <1>17, <4>1, SequenceDomain
    <3>4. DispatchCode(f, flow, a + 1)
      BY <1>1, <3>3 DEF MatchesChecked
    <3>5. f.blocks[j].code[2].op \in {"require_variant", "test_variant"}
      BY <1>4, <3>2, <3>4 DEF DispatchCode
    <3>6. 1 \in DOMAIN BoundFields(f, flow, arm)
      BY <1>4, <1>5, <1>6, PayloadTypes DEF BoundFields
    <3>7. f.blocks[j].code[2 * 1].op = "checked_payload"
      BY <1>2, <3>6 DEF BindingCode
    <3>8. QED
      <4>1. 2 * 1 = 2
        OBVIOUS
      <4> DEFINE o == f.blocks[j].code[2].op
      <4>2. o = "checked_payload" /\ o \in {"require_variant", "test_variant"}
        BY <3>5, <3>7, <4>1
      <4> HIDE DEF o
      <4>3. QED
        BY <4>2
  <2>4. x.m = code[2].member
    BY <2>3 DEF AsBool
  <2>5. QED
    BY <1>6, <2>2, <2>4
<1>18. QED
  BY <1>16, <1>17

\* The entry is reached, by itself.
LEMMA EntryReached ==
  ASSUME NEW u, NEW f, Accepted(u, f)
  PROVE  1 \in LirReachable(f)
<1>1. TargetsExist(f) /\ IsFiniteSet(DOMAIN f.blocks) /\ 1 \in DOMAIN f.blocks
  BY AcceptedIsChecked
<1>2. {1} \in SUBSET DOMAIN f.blocks
  BY <1>1
<1>3. {1} \ {} \subseteq ReachLir(f, {1}, {})
  BY <1>1, <1>2, ReachLirCloses
<1>4. QED
  BY <1>3 DEF LirReachable

LEMMA ReachedGoesOn ==
  ASSUME NEW u, NEW f, Accepted(u, f), NEW i \in LirReachable(f), NEW j \in LirSuccessors(f, i)
  PROVE  j \in DOMAIN f.blocks /\ j \in LirReachable(f)
<1>1. TargetsExist(f) /\ IsFiniteSet(DOMAIN f.blocks) /\ 1 \in DOMAIN f.blocks
  BY AcceptedIsChecked
<1>2. {1} \in SUBSET DOMAIN f.blocks
  BY <1>1
<1>3. /\ ReachLir(f, {1}, {}) \subseteq DOMAIN f.blocks
      /\ \A b \in ReachLir(f, {1}, {}) : \A c \in LirSuccessors(f, b) : c \in {} \/ c \in ReachLir(f, {1}, {})
  BY <1>1, <1>2, ReachLirCloses
<1>4. QED
  BY <1>3 DEF LirReachable

\* A slot that the block does not write either stays unwritten on the way to the next.
LEMMA SlotsWrittenOn ==
  ASSUME NEW u, NEW f, NEW i, NEW slots, Entered(u, f, i, slots), NEW j \in LirSuccessors(f, i),
         NEW q, Running(f, i, Len(f.blocks[i].code) + 1, slots, q)
  PROVE  SlotsWritten(f, j, q.slots)
<1>1. TargetsExist(f) /\ IsFiniteSet(DOMAIN f.blocks) /\ 1 \in DOMAIN f.blocks /\ i \in DOMAIN f.blocks /\ SlotsWritten(f, i, slots)
  BY AcceptedIsChecked DEF Entered
<1> SUFFICES ASSUME NEW s \in DOMAIN f.slots \ DOMAIN q.slots PROVE i \in Unwritten(f, s)
  BY DEF SlotsWritten
<1>2. i \notin BlocksWriting(f, s)
  BY DEF Running, SlotsKept, BlocksWriting
<1>3. {1} \in SUBSET DOMAIN f.blocks
  BY <1>1
<1>4. /\ {1} \ BlocksWriting(f, s) \subseteq Unwritten(f, s)
      /\ \A b \in Unwritten(f, s) : \A c \in LirSuccessors(f, b) : c \in BlocksWriting(f, s) \/ c \in Unwritten(f, s)
  BY <1>1, <1>3, ReachLirCloses DEF Unwritten
<1>5. i = 1 \/ \E b \in Unwritten(f, s) : i \in LirSuccessors(f, b)
  BY <1>1 DEF SlotsWritten, Running, SlotsKept
<1>6. QED
  BY <1>2, <1>4, <1>5

\* A block that is entered well leaves to one that is.
LEMMA NextEntered ==
  ASSUME NEW u, NEW f, NEW i, NEW slots, Entered(u, f, i, slots), NEW given, NEW out,
         NEW q, q = Ran(Start(u, given, slots, out), f.blocks[i].code), q.st = "run",
         NEW j, GoesTo(f.blocks[i].term, q, j)
  PROVE  Entered(u, f, j, q.slots)
<1>1. Accepted(u, f) /\ i \in LirReachable(f) /\ j \in LirSuccessors(f, i)
  BY GoesOn DEF Entered
<1>2. Running(f, i, Len(f.blocks[i].code) + 1, slots, q)
  BY BlockEnds DEF BlockState, Start
<1>3. j \in DOMAIN f.blocks /\ j \in LirReachable(f)
  BY <1>1, ReachedGoesOn
<1>4. SlotsWritten(f, j, q.slots)
  BY <1>1, <1>2, SlotsWrittenOn
<1>5. ArmTested(f, j, q.slots)
  BY ArmFound DEF ArmTested
<1>6. IsFunction(q.slots) /\ ArraysWhole(f, q.slots)
  BY <1>2 DEF Running, SlotsKept
<1>7. QED
  BY <1>1, <1>3, <1>4, <1>5, <1>6 DEF Entered

\* The entry block reads no slot before it writes it, so it is the body of no arm.
LEMMA EntryEntered ==
  ASSUME NEW u, NEW f, Accepted(u, f), NEW slots, IsFunction(slots), ArraysWhole(f, slots)
  PROVE  Entered(u, f, 1, slots)
<1>1. 1 \in DOMAIN f.blocks /\ MatchesChecked(f) /\ 1 \in LirReachable(f)
  BY AcceptedIsChecked, EntryReached
<1>2. SlotsWritten(f, 1, slots)
  BY DEF SlotsWritten
<1>3. ASSUME NEW k \in DOMAIN f.patterns, NEW a \in DOMAIN f.patterns[k].arms,
             f.patterns[k].arms[a].body = 1, BoundFields(f, f.patterns[k], f.patterns[k].arms[a]) # <<>>
      PROVE  FALSE
  <2> DEFINE flow == f.patterns[k]
             arm == flow.arms[a]
             fields == BoundFields(f, flow, arm)
             code == f.blocks[1].code
             p == <<1, 1>>
  <2>1. DispatchCode(f, flow, a) /\ BindingCode(f, flow, a)
    BY <1>1 DEF MatchesChecked
  <2>2. TaggedType(SubjectType(f, flow)) /\ SubjectType(f, flow) # "i32" /\ fields = Domains[SubjectType(f, flow)][ArmMember(f, arm)]
    BY <1>3 DEF BoundFields, TaggedType
  <2>3. ArmMember(f, arm) \in DOMAIN Domains[SubjectType(f, flow)]
    BY <2>1, <2>2 DEF DispatchCode, ArmMember
  <2>4. Len(fields) \in Nat
    BY <2>2, <2>3, PayloadTypes
  <2>5. Len(code) >= 1 + 2 * Len(fields) /\ code[1].op = "load_slot"
    BY <1>3, <2>1 DEF BindingCode
  <2>6. Len(code) \in Nat /\ DOMAIN code = 1 .. Len(code)
    BY <1>1, SequenceDomain DEF Accepted, IsLirFunction, IsBlock
  <2>7. 1 \in DOMAIN code
    <3> HIDE DEF code, fields
    <3>1. QED
      BY <2>4, <2>5, <2>6
  <2>8. p \in Places(f) /\ InstructionAt(f, p) = code[1] /\ p[1] = 1 /\ p[2] = 1
    BY <1>1, <2>7, PlaceOf
  <2>9. ReadsInitialized(f, p)
    <3> HIDE DEF p
    <3>1. QED
      BY <1>1, <2>5, <2>8 DEF MatchesChecked
  <2>10. ~WrittenIn(f, 1, 1, code[1].slot)
    BY 1 .. 1 - 1 = {} DEF WrittenIn
  <2>11. QED
    <3> HIDE DEF p
    <3>1. QED
      BY <1>1, <2>8, <2>9, <2>10 DEF ReadsInitialized
<1>4. ArmTested(f, 1, slots)
  BY <1>3 DEF ArmTested
<1>5. QED
  BY <1>1, <1>2, <1>4 DEF Entered

-----------------------------------------------------------------------------
(* The inductive invariant                                                  *)

\* A function that the verifier accepted, with or without a match.
Checked(u, f) == IsLirFunction(u, f) /\ LirFaults(f) = {}

\* A function that is run is one the verifier accepted, entered at a reachable block
\* with every slot written that all paths write; what waits for the verifier is a
\* function as Go's types have it.
LirIInv ==
  /\ LirTypeOK
  /\ lStatus \in {"source", "verify"} => lAt = 1
  /\ lStatus = "verify" => IsLirFunction(lUnit, lCode)
  /\ lStatus = "run" => Checked(lUnit, lCode)
  /\ lStatus = "run" /\ lCode.patterns /= <<>> => Entered(lUnit, lCode, lAt, lSlots)
  /\ AcceptedLirIsDefined

LEMMA StartsWhole ==
  ASSUME IsLirFunction(lUnit, lCode)
  PROVE  IsFunction(StartSlots(lUnit, Given)) /\ ArraysWhole(lCode, StartSlots(lUnit, Given))
<1> DEFINE start == StartSlots(lUnit, Given)
           x == CHOOSE i \in ArrayParams(lUnit) : TRUE
<1>1. start = [s \in ArraySlots(lCode) |-> Given[x]]
  BY DEF StartSlots, ArraySlots
<1>2. ASSUME NEW s \in ArraySlots(lCode) PROVE IsArray(start[s], lCode.slots[s].extent)
  <2>1. s \in DOMAIN lCode.slots /\ lCode.slots[s].extent > 0 /\ lCode.slots[s].t = "array" /\ ArrayParams(lUnit) # {}
    BY DEF IsLirFunction, ArraySlots
  <2>2. x \in ArrayParams(lUnit)
    BY <2>1
  <2> HIDE DEF x
  <2>3. x \in DOMAIN lUnit.params /\ lUnit.params[x].t = "array" /\ lUnit.params[x].extent = lCode.slots[s].extent
    BY <2>1, <2>2 DEF IsLirFunction, ArrayParams
  <2>4. Given[x] = CASE lUnit.params[x].t = "array" -> [j \in 1 .. lUnit.params[x].extent |-> lArgument]
                     [] TaggedType(lUnit.params[x].t) -> Callee("parse", <<lArgument>>, <<>>)
                     [] OTHER -> lArgument
    BY <2>3 DEF Given, GivenTo
  <2>5. Given[x] = [j \in 1 .. lUnit.params[x].extent |-> lArgument]
    BY <2>3, <2>4 DEF TaggedType
  <2> HIDE DEF start
  <2>6. start[s] = [j \in 1 .. lCode.slots[s].extent |-> lArgument]
    BY <1>1, <2>3, <2>5
  <2>7. QED
    BY <2>6 DEF IsArray
<1> HIDE DEF x
<1>3. IsFunction(start)
  BY <1>1 DEF IsFunction
<1>4. ArraysWhole(lCode, start)
  <2>1. \A s \in ArraySlots(lCode) : s \in DOMAIN start
    BY <1>1
  <2> HIDE DEF start
  <2>2. QED
    BY <1>2, <2>1 DEF ArraysWhole
<1>5. QED
  BY <1>3, <1>4

LEMMA SequenceAgain ==
  ASSUME NEW S, NEW s \in Seq(S)
  PROVE  IsSequence(s)
<1>1. Len(s) \in Nat /\ DOMAIN s = 1 .. Len(s) /\ s \in [1 .. Len(s) -> S]
  OBVIOUS
<1>2. QED
  BY <1>1 DEF IsSequence, IsFunction

\* Without one of its elements a sequence is a sequence of elements it had.
LEMMA RemovedAt ==
  ASSUME NEW s, IsSequence(s), NEW n \in DOMAIN s
  PROVE  /\ IsSequence(RemoveAt(s, n))
         /\ \A m \in DOMAIN RemoveAt(s, n) : \E o \in DOMAIN s : RemoveAt(s, n)[m] = s[o]
<1> DEFINE S == Range(s)
           before == SubSeq(s, 1, n - 1)
           after == SubSeq(s, n + 1, Len(s))
<1>1. s \in Seq(S) /\ Len(s) \in Nat /\ DOMAIN s = 1 .. Len(s)
  BY SequenceDomain
<1>2. n \in 1 .. Len(s)
  BY <1>1
<1> HIDE DEF S
<1>3. before \in Seq(S) /\ after \in Seq(S)
  <2>1. \A m \in 1 .. n - 1 : s[m] \in S
    BY <1>1, <1>2
  <2>2. \A m \in n + 1 .. Len(s) : s[m] \in S
    BY <1>1, <1>2
  <2>3. QED
    BY <1>1, <1>2, <2>1, <2>2, SubSeqProperties
<1>4. RemoveAt(s, n) = before \o after
  BY DEF RemoveAt
<1> HIDE DEF before, after
<1>5. before \o after \in Seq(S)
  BY <1>3
<1> DEFINE t == RemoveAt(s, n)
<1>6. t \in Seq(S)
  BY <1>4, <1>5
<1> HIDE DEF t
<1>7. IsSequence(t)
  BY <1>6, SequenceAgain
<1>8. ASSUME NEW m \in DOMAIN t PROVE t[m] \in S
  BY <1>6
<1>9. QED
  BY <1>7, <1>8 DEF S, t, Range

\* A function with other blocks is a function if these are blocks.
LEMMA OtherBlocks ==
  ASSUME NEW u, NEW f, IsLirFunction(u, f), NEW i \in DOMAIN f.blocks, NEW block, IsBlock(block)
  PROVE  IsLirFunction(u, [f EXCEPT !.blocks[i] = block])
<1> DEFINE g == [f EXCEPT !.blocks[i] = block]
           b == f.blocks
           c == [b EXCEPT ![i] = block]
<1>1. IsFunction(f) /\ "blocks" \in DOMAIN f /\ IsSequence(b) /\ b # <<>>
  BY DEF IsLirFunction
<1>2. g = [f EXCEPT !.blocks = c]
  OBVIOUS
<1> HIDE DEF b, c
<1>3. IsFunction(g) /\ DOMAIN g = DOMAIN f /\ g.blocks = c
  BY <1>1, <1>2 DEF IsFunction
<1>4. g.params = f.params /\ g.ptypes = f.ptypes /\ g.patterns = f.patterns /\ g.slots = f.slots
  BY <1>1, <1>2 DEF IsFunction
<1> HIDE DEF g
<1>5. IsSequence(c) /\ c # <<>> /\ DOMAIN c = DOMAIN b
  <2>1. b \in Seq(Range(b) \cup {block}) /\ 1 \in DOMAIN b
    <3>1. b \in Seq(Range(b)) /\ 1 \in DOMAIN b
      BY <1>1, SequenceDomain
    <3>2. QED
      BY <3>1
  <2>2. c \in Seq(Range(b) \cup {block}) /\ DOMAIN c = DOMAIN b
    <3> DEFINE T == Range(b) \cup {block}
    <3>1. Len(b) \in Nat /\ b \in [1 .. Len(b) -> T] /\ DOMAIN b = 1 .. Len(b)
      <4> HIDE DEF T
      <4>1. QED
        BY <2>1 DEF T
    <3>2. c \in [1 .. Len(b) -> T] /\ DOMAIN c = DOMAIN b
      <4>1. block \in T
        OBVIOUS
      <4> HIDE DEF T
      <4>2. QED
        BY <3>1, <4>1 DEF c
    <3> HIDE DEF T
    <3>3. QED
      BY <3>1, <3>2, SeqDef DEF T
  <2>3. QED
    BY <2>1, <2>2, SequenceAgain
<1>6. ASSUME NEW j \in DOMAIN c PROVE IsBlock(c[j])
  <2>1. \A o \in DOMAIN b : IsBlock(b[o])
    BY DEF IsLirFunction, b
  <2>2. IsFunction(b)
    BY <1>1 DEF IsSequence
  <2>3. c[j] = block \/ c[j] = b[j]
    BY <1>5, <2>2 DEF c
  <2>4. QED
    BY <1>5, <2>1, <2>3
<1>7. IsLirFunction(u, g)
  BY <1>1, <1>3, <1>4, <1>5, <1>6 DEF IsLirFunction
<1>8. QED
  BY <1>7 DEF g

\* A lowered function with a defect has the form of one.
LEMMA LostInstruction ==
  ASSUME NEW u, NEW f, IsLirFunction(u, f), NEW i \in DOMAIN f.blocks, NEW n \in DOMAIN f.blocks[i].code
  PROVE  IsLirFunction(u, [f EXCEPT !.blocks[i].code = RemoveAt(@, n)])
<1> DEFINE block == f.blocks[i]
           lost == RemoveAt(block.code, n)
           shorter == [block EXCEPT !.code = lost]
<1>1. IsBlock(block)
  BY DEF IsLirFunction
<1> HIDE DEF block
<1>2. IsSequence(lost) /\ \A m \in DOMAIN lost : \E o \in DOMAIN block.code : lost[m] = block.code[o]
  BY <1>1, RemovedAt DEF IsBlock, block
<1> HIDE DEF lost
<1>3. IsBlock(shorter)
  BY <1>1, <1>2 DEF IsBlock, IsFunction
<1>4. [f EXCEPT !.blocks[i].code = RemoveAt(@, n)] = [f EXCEPT !.blocks[i] = shorter]
  BY DEF block, lost
<1>5. QED
  <2> HIDE DEF shorter
  <2>1. QED
    BY <1>3, <1>4, OtherBlocks

LEMMA JumpElsewhere ==
  ASSUME NEW u, NEW f, IsLirFunction(u, f), NEW i \in DOMAIN f.blocks, NEW to
  PROVE  IsLirFunction(u, [f EXCEPT !.blocks[i].term.true = to])
<1> DEFINE block == f.blocks[i]
           moved == [block EXCEPT !.term.true = to]
<1>1. IsBlock(block)
  BY DEF IsLirFunction
<1> HIDE DEF block
<1>2. IsBlock(moved)
  BY <1>1 DEF IsBlock, IsFunction
<1>3. [f EXCEPT !.blocks[i].term.true = to] = [f EXCEPT !.blocks[i] = moved]
  BY DEF block
<1>4. QED
  <2> HIDE DEF moved
  <2>1. QED
    BY <1>2, <1>3, OtherBlocks

\* Whatever the instruction finds, the run stays one, and writes slots of the function only.
Undefined(q) == [q EXCEPT !.st = "undefined"]
RunOf(f, q) == IsRun(q) /\ q.st \in {"run", "trap", "undefined"} /\ DOMAIN q.slots \subseteq DOMAIN f.slots

\* What an instruction may make of the run q.
Outcome(f, q, in, p) ==
  \/ p \in {q, Trapped(q), Undefined(q)}
  \/ \E v : p = Gives(q, in, v) \/ \E w : p = [Gives(q, in, v) EXCEPT !.out = w]
  \/ \E v : p = [q EXCEPT !.slots = With(@, in.slot, v)] /\ in.slot \in DOMAIN f.slots
  \/ \E s, e, v : p = [q EXCEPT !.slots[s][e] = v]

LEMMA StepOutcomes ==
  ASSUME NEW f, NEW types, NEW guards, NEW in, WellFormed(f, types, guards, in),
         NEW q, q.st = "run", Range(in.args) \subseteq DOMAIN q.vals
  PROVE  Outcome(f, q, in, Step(q, in))
<1>1. CASE in.op = "load_slot"
  BY <1>1 DEF Step, Outcome, Gives, Undefined, Arithmetic, Comparisons
<1>2. CASE in.op = "call"
  <2>1. \E v, w : Step(q, in) = [Gives(q, in, v) EXCEPT !.out = w]
    <3>1. Step(q, in) = [Gives(q, in, Callee(in.of, Arguments(q, in), q.out))
                            EXCEPT !.out = Append(@, <<in.of, Arguments(q, in)>>)]
      BY <1>2, StepCalls
    <3> DEFINE v == Callee(in.of, Arguments(q, in), q.out)
               w == Append(Gives(q, in, v).out, <<in.of, Arguments(q, in)>>)
    <3>2. Step(q, in) = [Gives(q, in, v) EXCEPT !.out = w]
      BY <3>1
    <3> HIDE DEF v, w
    <3>3. QED
      BY <3>2
  <2>2. QED
    BY <2>1 DEF Outcome
<1>3. CASE in.op = "checked_payload"
  BY <1>3 DEF Step, Outcome, Gives, Undefined, Arithmetic, Comparisons
<1>4. CASE in.op = "index_address"
  BY <1>4 DEF Step, Outcome, Gives, Undefined, Arithmetic, Comparisons
<1>5. CASE in.op \in {"const", "make_tagged", "test_variant", "load"}
  BY <1>5, StepMakes, StepTests DEF Outcome
<1>6. CASE in.op = "require_variant"
  BY <1>6, StepRequires DEF Outcome
<1>7. CASE in.op = "check_index"
  BY <1>7, StepChecks DEF Outcome
<1>8. CASE in.op = "store"
  <2> DEFINE s == Arguments(q, in)[1][1]
             e == Arguments(q, in)[1][2]
             v == Arguments(q, in)[2]
  <2>1. Step(q, in) = [q EXCEPT !.slots[s][e] = v]
    BY <1>8, StepStores
  <2> HIDE DEF s, e, v
  <2>2. QED
    BY <2>1 DEF Outcome
<1>9. CASE Writes(in)
  <2>1. in.slot \in DOMAIN f.slots
    BY <1>9 DEF WellFormed, Writes, Arithmetic, Comparisons
  <2>2. QED
    BY <1>9, <2>1, StepWrites DEF Outcome
<1>10. CASE in.op \in Arithmetic \cup Comparisons
  BY <1>10, StepOperates DEF Outcome
<1>11. QED
  BY Operators, <1>1, <1>2, <1>3, <1>4, <1>5, <1>6, <1>7, <1>8, <1>9, <1>10

LEMMA StepShape ==
  ASSUME NEW f, NEW types, NEW guards, NEW in, WellFormed(f, types, guards, in), NEW q, RunOf(f, q)
  PROVE  RunOf(f, Step(q, in))
<1> DEFINE p == Step(q, in)
<1>1. CASE q.st # "run"
  BY <1>1 DEF Step
<1>2. CASE q.st = "run" /\ ~(Range(in.args) \subseteq DOMAIN q.vals)
  <2>1. p = Undefined(q)
    BY <1>2 DEF Step, Undefined
  <2>2. QED
    BY <2>1 DEF RunOf, IsRun, Undefined
<1>3. CASE q.st = "run" /\ Range(in.args) \subseteq DOMAIN q.vals
  <2> HIDE DEF p
  <2>1. ASSUME p \in {q, Trapped(q), Undefined(q)} PROVE RunOf(f, p)
    <3>1. RunOf(f, Trapped(q))
      BY DEF RunOf, IsRun, Trapped
    <3>2. RunOf(f, Undefined(q))
      BY DEF RunOf, IsRun, Undefined
    <3>3. QED
      BY <2>1, <3>1, <3>2
  <2>2. ASSUME NEW v, p = Gives(q, in, v) PROVE RunOf(f, p)
    BY <2>2, GivenIsRun DEF RunOf
  <2>3. ASSUME NEW v, NEW w, p = [Gives(q, in, v) EXCEPT !.out = w] PROVE RunOf(f, p)
    <3> DEFINE g == Gives(q, in, v)
    <3>1. IsRun(g) /\ g.st = q.st /\ g.slots = q.slots
      BY GivenIsRun DEF RunOf
    <3> HIDE DEF g
    <3>2. IsRun(p) /\ p.st = g.st /\ p.slots = g.slots
      BY <2>3, <3>1 DEF IsRun, g
    <3>3. QED
      BY <3>1, <3>2 DEF RunOf
  <2>4. ASSUME NEW v, p = [q EXCEPT !.slots = With(@, in.slot, v)], in.slot \in DOMAIN f.slots PROVE RunOf(f, p)
    <3>1. IsRun(p) /\ p.st = q.st /\ p.slots = With(q.slots, in.slot, v)
      BY <2>4 DEF RunOf, IsRun
    <3>2. DOMAIN p.slots = DOMAIN q.slots \cup {in.slot}
      BY <3>1 DEF With
    <3>3. QED
      BY <2>4, <3>1, <3>2 DEF RunOf
  <2>5. ASSUME NEW s, NEW e, NEW v, p = [q EXCEPT !.slots[s][e] = v] PROVE RunOf(f, p)
    <3>1. IsRun(p) /\ p.st = q.st /\ p.slots = [q.slots EXCEPT ![s] = [q.slots[s] EXCEPT ![e] = v]]
      BY <2>5 DEF RunOf, IsRun
    <3>2. DOMAIN p.slots = DOMAIN q.slots
      BY <3>1
    <3>3. QED
      BY <3>1, <3>2 DEF RunOf
  <2>6. QED
    <3>1. Outcome(f, q, in, p)
      BY <1>3, StepOutcomes DEF p
    <3>2. RunOf(f, p)
      BY <3>1, <2>1, <2>2, <2>3, <2>4, <2>5 DEF Outcome
    <3>3. QED
      BY <3>2 DEF p
<1>4. QED
  BY <1>1, <1>2, <1>3

LEMMA BlockShape ==
  ASSUME NEW u, NEW f, Checked(u, f), NEW i \in DOMAIN f.blocks, NEW base, RunOf(f, base)
  PROVE  RunOf(f, Ran(base, f.blocks[i].code))
<1> DEFINE code == f.blocks[i].code
           len == Len(code)
<1>1. len \in Nat /\ DOMAIN code = 1 .. len
  BY SequenceDomain DEF Checked, IsLirFunction, IsBlock
<1>2. ASSUME NEW n \in DOMAIN code PROVE WellFormed(f, TypesOf(f), GuardsBefore(f, i, n), code[n])
  <2> DEFINE p == <<i, n>>
  <2>1. ValuesChecked(f)
    BY NoFaults, NoValueFaults DEF Checked
  <2>2. p \in Places(f) /\ InstructionAt(f, p) = code[n] /\ p[1] = i /\ p[2] = n
    BY PlaceOf
  <2> HIDE DEF p
  <2>3. QED
    BY <2>1, <2>2 DEF ValuesChecked
<1> HIDE DEF code, len
<1>3. PICK run : /\ run[0] = base
                 /\ \A k \in 0 .. len - 1 : run[k + 1] = Step(run[k], code[k + 1])
                 /\ Ran(base, code) = run[len]
  <2> DEFINE b == base
  <2> HIDE DEF b
  <2>1. \E run : /\ run[0] = b
                 /\ \A k \in 0 .. len - 1 : run[k + 1] = Step(run[k], code[k + 1])
                 /\ Ran(b, code) = run[len]
    BY <1>1, BlockRun
  <2>2. QED
    BY <2>1 DEF b
<1> DEFINE S == {k \in Nat : k <= len => RunOf(f, run[k])}
<1>4. 0 \in S
  BY <1>3
<1>5. ASSUME NEW k \in Nat, k \in S PROVE k + 1 \in S
  <2> SUFFICES ASSUME k + 1 <= len PROVE RunOf(f, run[k + 1])
    OBVIOUS
  <2>1. RunOf(f, run[k]) /\ k + 1 \in DOMAIN code
    BY <1>1, <1>5
  <2>2. run[k + 1] = Step(run[k], code[k + 1])
    BY <1>1, <1>3
  <2>3. QED
    BY <1>2, <2>1, <2>2, StepShape
<1> HIDE DEF S
<1>6. \A k \in Nat : k \in S
  BY <1>4, <1>5, NaturalsByInduction
<1>7. RunOf(f, run[len])
  BY <1>1, <1>6 DEF S
<1>8. QED
  BY <1>3, <1>7 DEF code

\* The invariant holds of the initial states, and every step keeps it.
LEMMA LirIInvInductive == (LirInit => LirIInv) /\ (LirIInv /\ [LirNext]_lirVars => LirIInv')
<1>1. ASSUME LirInit PROVE LirIInv
  BY <1>1 DEF LirInit, LirIInv, LirTypeOK, AcceptedLirIsDefined
<1>2. ASSUME LirIInv, [LirNext]_lirVars PROVE LirIInv'
  <2>1. CASE LowerLir
    <3>1. /\ lStatus = "source" /\ lUnit' = lUnit /\ lAt' = lAt /\ lCode' = LirCode[lUnit]
          /\ lStatus' = (IF lCode'.err = "" THEN "verify" ELSE "unsupported")
          /\ UNCHANGED <<lArgument, lDefect>>
      BY <2>1 DEF LowerLir
    <3>2. lStatus' = "verify" => IsLirFunction(lUnit, lCode')
      BY <1>2, <3>1, LirAssumption DEF LirIInv, LirTypeOK
    <3>3. QED
      BY <1>2, <3>1, <3>2 DEF LirIInv, LirTypeOK, AcceptedLirIsDefined
  <2>2. CASE LoseInstruction
    <3>1. lStatus = "verify" /\ lDefect' = TRUE /\ UNCHANGED <<lUnit, lArgument, lAt, lStatus>>
      BY <2>2 DEF LoseInstruction
    <3>2. PICK p \in Places(lCode) : lCode' = [lCode EXCEPT !.blocks[p[1]].code = RemoveAt(@, p[2])]
      BY <2>2 DEF LoseInstruction
    <3>3. p[1] \in DOMAIN lCode.blocks /\ p[2] \in DOMAIN lCode.blocks[p[1]].code
      BY DEF Places
    <3>4. IsLirFunction(lUnit, lCode')
      BY <1>2, <3>1, <3>2, <3>3, LostInstruction DEF LirIInv
    <3>5. QED
      BY <1>2, <3>1, <3>4 DEF LirIInv, LirTypeOK, AcceptedLirIsDefined
  <2>3. CASE MisdirectJump
    <3>1. lStatus = "verify" /\ lDefect' = TRUE /\ UNCHANGED <<lUnit, lArgument, lAt, lStatus>>
      BY <2>3 DEF MisdirectJump
    <3>2. PICK i \in DOMAIN lCode.blocks, to \in DOMAIN lCode.blocks : lCode' = [lCode EXCEPT !.blocks[i].term.true = to]
      BY <2>3 DEF MisdirectJump
    <3>3. IsLirFunction(lUnit, lCode')
      BY <1>2, <3>1, <3>2, JumpElsewhere DEF LirIInv
    <3>4. QED
      BY <1>2, <3>1, <3>3 DEF LirIInv, LirTypeOK, AcceptedLirIsDefined
  <2>4. CASE VerifyLir
    <3>1. lStatus = "verify" /\ lAt = 1 /\ IsLirFunction(lUnit, lCode) /\ UNCHANGED <<lUnit, lArgument, lCode, lDefect, lAt>>
      BY <1>2, <2>4 DEF VerifyLir, LirIInv
    <3>2. lStatus' \in {"run", "refused"} /\ (lStatus' = "run" => LirFaults(lCode) = {} /\ lSlots' = StartSlots(lUnit, Given))
      BY <2>4 DEF VerifyLir
    <3>3. ASSUME lStatus' = "run"
          PROVE  Checked(lUnit, lCode) /\ 1 \in DOMAIN lCode.blocks /\ DOMAIN lSlots' \subseteq DOMAIN lCode.slots
      <4>1. DOMAIN lSlots' \subseteq DOMAIN lCode.slots
        BY <3>2, <3>3 DEF StartSlots
      <4>2. QED
        BY <3>1, <3>2, <3>3, <4>1, SequenceDomain DEF Checked, IsLirFunction
    <3>4. ASSUME lStatus' = "run", lCode.patterns /= <<>> PROVE Entered(lUnit, lCode, 1, lSlots')
      <4>1. Accepted(lUnit, lCode)
        BY <3>1, <3>2, <3>4 DEF Accepted
      <4>2. IsFunction(lSlots') /\ ArraysWhole(lCode, lSlots')
        BY <3>1, <3>2, <3>4, StartsWhole
      <4>3. QED
        BY <4>1, <4>2, EntryEntered
    <3>5. QED
      BY <1>2, <3>1, <3>2, <3>3, <3>4 DEF LirIInv, LirTypeOK, AcceptedLirIsDefined
  <2>5. CASE RunLirBlock
    <3> DEFINE block == lCode.blocks[lAt]
               base == Start(lUnit, lArgument, lSlots, lOut)
               q == Ran(base, block.code)
               t == block.term
    <3>1. lStatus = "run" /\ UNCHANGED <<lUnit, lArgument, lCode, lDefect>>
      BY <2>5 DEF RunLirBlock
    <3>2. /\ lSlots' = q.slots
          /\ lStatus' = IF q.st = "run" /\ t.op = "return" THEN "return" ELSE q.st
          /\ lAt' = CASE q.st = "run" /\ t.op = "jump" -> t.true
                      [] q.st = "run" /\ t.op = "branch" -> IF q.vals[t.v] = 1 THEN t.true ELSE t.false
                      [] OTHER -> lAt
      BY <2>5 DEF RunLirBlock, Ran, Start, Given
    <3>3. Checked(lUnit, lCode) /\ lAt \in DOMAIN lCode.blocks /\ DOMAIN lSlots \subseteq DOMAIN lCode.slots
      BY <1>2, <3>1 DEF LirIInv, LirTypeOK
    <3>4. q.st \in {"run", "trap", "undefined"} /\ DOMAIN q.slots \subseteq DOMAIN lCode.slots
      <4>1. RunOf(lCode, base)
        BY <3>3 DEF RunOf, IsRun, Start
      <4>2. RunOf(lCode, q)
        <5> HIDE DEF base
        <5>1. QED
          BY <3>3, <4>1, BlockShape
      <4>3. QED
        BY <4>2 DEF RunOf
    <3>5. t.op \in {"return", "jump", "branch"} /\ (t.op = "jump" => t.true \in DOMAIN lCode.blocks)
          /\ (t.op = "branch" => t.true \in DOMAIN lCode.blocks /\ t.false \in DOMAIN lCode.blocks)
      <4>1. ValuesChecked(lCode)
        BY <3>3, NoFaults, NoValueFaults DEF Checked
      <4>2. QED
        BY <3>3, <4>1 DEF ValuesChecked, Terminated
    <3>6. lAt' \in DOMAIN lCode.blocks
      <4> HIDE DEF t, q
      <4>1. QED
        BY <3>2, <3>3, <3>5
    <3>7. ASSUME lCode.patterns /= <<>>
          PROVE  q.st # "undefined" /\ (lStatus' = "run" => Entered(lUnit, lCode, lAt', lSlots'))
      <4>1. Entered(lUnit, lCode, lAt, lSlots)
        BY <1>2, <3>1, <3>7 DEF LirIInv
      <4>2. q.st \in {"run", "trap"}
        BY <4>1, BlockEnds DEF BlockState, Start
      <4>3. ASSUME lStatus' = "run" PROVE Entered(lUnit, lCode, lAt', lSlots')
        <5>1. q.st = "run" /\ t.op # "return"
          BY <3>2, <4>3
        <5>2. GoesTo(t, q, lAt')
          <6> HIDE DEF t, q
          <6>1. QED
            BY <3>2, <3>5, <5>1 DEF GoesTo
        <5>3. Entered(lUnit, lCode, lAt', q.slots)
          BY <4>1, <5>1, <5>2, NextEntered
        <5>4. QED
          BY <3>2, <5>3
      <4>4. QED
        BY <4>2, <4>3
    <3>8. QED
      <4> HIDE DEF q, t
      <4>1. lStatus' \in {"run", "return", "trap", "undefined"}
        BY <3>2, <3>4
      <4>2. LirTypeOK'
        BY <1>2, <3>1, <3>2, <3>4, <3>6, <4>1 DEF LirIInv, LirTypeOK
      <4>3. AcceptedLirIsDefined'
        BY <3>1, <3>2, <3>7 DEF AcceptedLirIsDefined
      <4>4. QED
        BY <3>1, <3>3, <3>7, <4>1, <4>2, <4>3 DEF LirIInv
  <2>6. CASE UNCHANGED lirVars
    BY <1>2, <2>6 DEF LirIInv, LirTypeOK, AcceptedLirIsDefined, lirVars
  <2>7. QED
    BY <1>2, <2>1, <2>2, <2>3, <2>4, <2>5, <2>6 DEF LirNext
<1>3. QED
  BY <1>1, <1>2

\* A run of LIR is always in a block of its function, with slots of its function.
THEOREM LirTyped == LirSpec => []LirTypeOK
<1>1. LirIInv => LirTypeOK
  BY DEF LirIInv
<1>2. QED
  BY <1>1, LirIInvInductive, PTL DEF LirSpec

\* The invariant that makes accepted functions safe to run holds of every run.
THEOREM LirInvariant == LirSpec => []LirIInv
BY LirIInvInductive, PTL DEF LirSpec

\* Whatever defect the lowering has, a function with a match that VerifyLIR accepts
\* reads no value, slot, payload or element that is not there, in any block of any run:
\* what the verifier looks at, block by block and place by place, is enough.
THEOREM AlwaysDefined == LirSpec => []AcceptedLirIsDefined
<1>1. LirIInv => AcceptedLirIsDefined
  BY DEF LirIInv
<1>2. QED
  BY <1>1, LirInvariant, PTL

-----------------------------------------------------------------------------
(* The bounds analysis                                                      *)

\* A value of the analysis.
IsValue(v) ==
  /\ DOMAIN v = {"known", "lo", "hi", "lmin", "held", "lid", "below"}
  /\ v.known \in BOOLEAN /\ v.held \in BOOLEAN /\ v.lo \in Int /\ v.hi \in Int /\ v.lmin \in Int

\* What v says is so of n, an integer or the length of a view; lengths maps
\* the identity of each snapshot to the length the view had then.
Describes(v, n, lengths) ==
  /\ v.known => v.lo <= n /\ n <= v.hi /\ (v.below /= None => v.below \in DOMAIN lengths /\ n < lengths[v.below])
  /\ v.held => v.lmin <= n /\ (v.lid /= None => v.lid \in DOMAIN lengths /\ n = lengths[v.lid])

\* A state of the analysis.
IsState(s) == s = [x \in DOMAIN s |-> s[x]] /\ \A x \in DOMAIN s : IsValue(s[x])

\* What the state says of the variables is so in env.
IsVariable(env, x) == x \in DOMAIN env /\ env[x] \in Int
FactsHold(exposed, s, env, lengths) ==
  \A x \in DOMAIN s : IsVariable(env, x) /\ Describes(LocalGet(exposed, s, x), env[x], lengths)

-----------------------------------------------------------------------------

LEMMA NoValueIsValue == IsValue(NoValue) /\ ~NoValue.known /\ ~NoValue.held
BY DEF IsValue, NoValue, None

LEMMA IntervalIsValue ==
  ASSUME NEW l \in Int, NEW h \in Int
  PROVE  /\ IsValue(LocalInterval(l, h))
         /\ LocalInterval(l, h).known /\ LocalInterval(l, h).lo = l /\ LocalInterval(l, h).hi = h
         /\ ~LocalInterval(l, h).held /\ LocalInterval(l, h).below = None
BY DEF IsValue, NoValue, LocalInterval, None

LEMMA NothingKnown ==
  ASSUME NEW n, NEW lengths
  PROVE  Describes(NoValue, n, lengths)
BY NoValueIsValue DEF Describes

LEMMA IntervalDescribes ==
  ASSUME NEW l \in Int, NEW h \in Int, NEW n \in Int, l <= n, n <= h, NEW lengths
  PROVE  Describes(LocalInterval(l, h), n, lengths)
BY IntervalIsValue DEF Describes

LEMMA ForgottenIsValue ==
  ASSUME NEW v, IsValue(v)
  PROVE  IsValue(Forgotten(v)) /\ ~Forgotten(v).known /\ ~Forgotten(v).held
BY DEF IsValue, Forgotten, None

LEMMA ForgottenDescribes ==
  ASSUME NEW v, IsValue(v), NEW n, NEW lengths
  PROVE  Describes(Forgotten(v), n, lengths)
BY ForgottenIsValue DEF Describes

LEMMA GetIsValue ==
  ASSUME NEW exposed, NEW s, IsState(s), NEW x
  PROVE  IsValue(LocalGet(exposed, s, x))
BY NoValueIsValue, ForgottenIsValue DEF LocalGet, IsState

LEMMA GetDescribes ==
  ASSUME NEW exposed, NEW s, IsState(s), NEW env, NEW lengths, FactsHold(exposed, s, env, lengths), NEW x
  PROVE  Describes(LocalGet(exposed, s, x), env[x], lengths)
<1>1. CASE x \in DOMAIN s
  BY <1>1 DEF FactsHold
<1>2. CASE x \notin DOMAIN s
  BY <1>2, NothingKnown, NoValueIsValue, ForgottenDescribes DEF LocalGet
<1> QED BY <1>1, <1>2

\* Putting a value that is true of x.
LEMMA PutHolds ==
  ASSUME NEW exposed, NEW s, IsState(s), NEW env, NEW lengths, FactsHold(exposed, s, env, lengths),
         NEW x, NEW v, IsValue(v), IsVariable(env, x), x \notin exposed => Describes(v, env[x], lengths)
  PROVE  IsState(LocalPut(s, x, v)) /\ FactsHold(exposed, LocalPut(s, x, v), env, lengths)
<1> DEFINE t == LocalPut(s, x, v)
<1>1. DOMAIN t = DOMAIN s \cup {x} /\ t = [y \in DOMAIN t |-> t[y]]
  BY DEF LocalPut
<1>2. t[x] = v /\ \A y \in DOMAIN s : y /= x => t[y] = s[y]
  BY DEF LocalPut
<1> HIDE DEF t
<1>3. IsState(t)
  BY <1>1, <1>2 DEF IsState
<1>4. ASSUME NEW y \in DOMAIN t
      PROVE  IsVariable(env, y) /\ Describes(LocalGet(exposed, t, y), env[y], lengths)
  <2>1. CASE y = x
    BY <2>1, <1>2, <1>1, ForgottenDescribes DEF LocalGet
  <2>2. CASE y /= x
    BY <2>2, <1>1, <1>2 DEF LocalGet, FactsHold
  <2> QED BY <2>1, <2>2
<1> QED BY <1>3, <1>4 DEF t, FactsHold

-----------------------------------------------------------------------------
(* Joining two paths *)

LEMMA JoinValuesDescribes ==
  ASSUME NEW x, NEW y, IsValue(x), IsValue(y), NEW n \in Int, NEW lengths,
         Describes(x, n, lengths) \/ Describes(y, n, lengths)
  PROVE  IsValue(JoinValues(x, y)) /\ Describes(JoinValues(x, y), n, lengths)
<1> DEFINE j == JoinValues(x, y)
<1>1. /\ DOMAIN j = {"known", "lo", "hi", "lmin", "held", "lid", "below"}
      /\ j.known = (x.known /\ y.known) /\ j.held = (x.held /\ y.held)
      /\ j.lo = (IF x.known /\ y.known THEN Least(x.lo, y.lo) ELSE x.lo)
      /\ j.hi = (IF x.known /\ y.known THEN Most(x.hi, y.hi) ELSE x.hi)
      /\ j.lmin = Least(x.lmin, y.lmin)
      /\ j.lid = (IF x.lid = y.lid THEN x.lid ELSE None)
      /\ j.below = (IF x.below = y.below THEN x.below ELSE None)
  BY DEF JoinValues
<1> HIDE DEF j
<1>2. IsValue(j)
  BY <1>1 DEF IsValue, Least, Most
<1>3. j.known => j.lo <= n /\ n <= j.hi /\ (j.below /= None => j.below \in DOMAIN lengths /\ n < lengths[j.below])
  BY <1>1 DEF IsValue, Describes, Least, Most
<1>4. j.held => j.lmin <= n /\ (j.lid /= None => j.lid \in DOMAIN lengths /\ n = lengths[j.lid])
  BY <1>1 DEF IsValue, Describes, Least
<1> QED BY <1>2, <1>3, <1>4 DEF Describes, j

\* What is known after two paths meet (localJoin) is so whichever was taken.
THEOREM JoinIsSound ==
  ASSUME NEW exposed, NEW a, NEW b, IsState(a), IsState(b), NEW env, NEW lengths,
         FactsHold(exposed, a, env, lengths) \/ FactsHold(exposed, b, env, lengths)
  PROVE  IsState(LocalJoin(a, b)) /\ FactsHold(exposed, LocalJoin(a, b), env, lengths)
<1> DEFINE j == LocalJoin(a, b)
<1>1. DOMAIN j = DOMAIN a \cap DOMAIN b /\ j = [x \in DOMAIN j |-> j[x]]
  BY DEF LocalJoin
<1>2. \A x \in DOMAIN j : j[x] = JoinValues(a[x], b[x])
  BY DEF LocalJoin
<1> HIDE DEF j
<1>3. ASSUME NEW x \in DOMAIN j
      PROVE  IsValue(j[x]) /\ IsVariable(env, x) /\ Describes(LocalGet(exposed, j, x), env[x], lengths)
  <2>1. IsValue(a[x]) /\ IsValue(b[x]) /\ IsVariable(env, x) /\ env[x] \in Int
    BY <1>1 DEF IsState, FactsHold, IsVariable
  <2>2. CASE x \in exposed
    <3>1. Describes(a[x], env[x], lengths) \/ ~Describes(a[x], env[x], lengths)
      OBVIOUS
    <3>2. IsValue(JoinValues(a[x], b[x]))
      BY <2>1 DEF IsValue, JoinValues, Least, Most
    <3> QED BY <2>1, <2>2, <3>2, <1>2, ForgottenDescribes DEF LocalGet
  <2>3. CASE x \notin exposed
    <3>1. Describes(a[x], env[x], lengths) \/ Describes(b[x], env[x], lengths)
      BY <2>3, <1>1 DEF FactsHold, LocalGet
    <3>2. IsValue(JoinValues(a[x], b[x])) /\ Describes(JoinValues(a[x], b[x]), env[x], lengths)
      BY <3>1, <2>1, JoinValuesDescribes
    <3> QED BY <2>1, <2>3, <3>2, <1>2 DEF LocalGet
  <2> QED BY <2>2, <2>3
<1>4. IsState(j) /\ FactsHold(exposed, j, env, lengths)
  BY <1>1, <1>3 DEF IsState, FactsHold
<1> QED BY <1>4 DEF j

-----------------------------------------------------------------------------
(* Arithmetic *)

LEMMA ProductMonotone ==
  ASSUME NEW a \in Int, NEW b \in Int, NEW c \in Int, a <= b
  PROVE  /\ c >= 0 => a * c <= b * c
         /\ c <= 0 => b * c <= a * c
<1>1. (b - a) * c = b * c - a * c /\ a * c \in Int /\ b * c \in Int
  OBVIOUS
<1>2. c >= 0 => (b - a) * c >= 0
  OBVIOUS
<1>3. c <= 0 => (b - a) * c <= 0
  OBVIOUS
<1> HIDE <1>1
<1> QED BY <1>1, <1>2, <1>3

\* A product lies between two products of the ends of one factor.
LEMMA ProductBetween ==
  ASSUME NEW l \in Int, NEW h \in Int, NEW a \in Int, l <= a, a <= h, NEW c \in Int
  PROVE  \/ l * c <= a * c /\ a * c <= h * c
         \/ h * c <= a * c /\ a * c <= l * c
BY ProductMonotone

\* and so between two of the four corners.
LEMMA ProductInCorners ==
  ASSUME NEW l \in Int, NEW h \in Int, NEW a \in Int, l <= a, a <= h,
         NEW m \in Int, NEW g \in Int, NEW b \in Int, m <= b, b <= g
  PROVE  LET corners == {l * m, l * g, h * m, h * g}
         IN  /\ \E p \in corners : p <= a * b
             /\ \E p \in corners : a * b <= p
<1> DEFINE lm == l * m
           lg == l * g
           hm == h * m
           hg == h * g
           lb == l * b
           hb == h * b
           ab == a * b
<1>1. lm \in Int /\ lg \in Int /\ hm \in Int /\ hg \in Int /\ lb \in Int /\ hb \in Int /\ ab \in Int
  OBVIOUS
<1>2. (lb <= ab /\ ab <= hb) \/ (hb <= ab /\ ab <= lb)
  BY ProductBetween
<1>3. (lm <= lb /\ lb <= lg) \/ (lg <= lb /\ lb <= lm)
  <2>1. m * l = lm /\ g * l = lg /\ b * l = lb
    OBVIOUS
  <2> QED BY <2>1, ProductBetween
<1>4. (hm <= hb /\ hb <= hg) \/ (hg <= hb /\ hb <= hm)
  <2>1. m * h = hm /\ g * h = hg /\ b * h = hb
    OBVIOUS
  <2> QED BY <2>1, ProductBetween
<1> HIDE DEF lm, lg, hm, hg, lb, hb, ab
<1>5. (\E p \in {lm, lg, hm, hg} : p <= ab) /\ (\E p \in {lm, lg, hm, hg} : ab <= p)
  BY <1>1, <1>2, <1>3, <1>4
<1> QED BY <1>5 DEF lm, lg, hm, hg, ab

\* A set of four integers has a least and a largest.
Lowest(products) == CHOOSE p \in products : \A q \in products : p <= q
Highest(products) == CHOOSE p \in products : \A q \in products : p >= q
LEMMA EndsOfFour ==
  ASSUME NEW c \in Int, NEW d \in Int, NEW e \in Int, NEW f \in Int, NEW products, products = {c, d, e, f}
  PROVE  /\ Lowest(products) \in Int /\ Highest(products) \in Int
         /\ \A p \in products : Lowest(products) <= p /\ p <= Highest(products)
<1>1. (\E p \in products : \A q \in products : p <= q) /\ (\E p \in products : \A q \in products : p >= q)
  OBVIOUS
<1>2. \A x \in products : x \in Int
  OBVIOUS
<1>3. /\ Lowest(products) \in products /\ \A q \in products : Lowest(products) <= q
      /\ Highest(products) \in products /\ \A q \in products : Highest(products) >= q
  BY <1>1 DEF Lowest, Highest
<1> QED BY <1>2, <1>3

\* The interval of a sum, a difference or a product (localArithmetic) holds the
\* result of any operands of the two intervals.
THEOREM ArithmeticIsSound ==
  ASSUME NEW op \in {"+", "-", "*"}, NEW x, NEW y, IsValue(x), IsValue(y),
         NEW a \in Int, NEW b \in Int, NEW lengths, Describes(x, a, lengths), Describes(y, b, lengths)
  PROVE  /\ IsValue(LocalArithmetic(op, x, y))
         /\ Describes(LocalArithmetic(op, x, y), Apply(op, a, b), lengths)
<1> DEFINE products == {x.lo * y.lo, x.lo * y.hi, x.hi * y.lo, x.hi * y.hi}
           least == CHOOSE p \in products : \A q \in products : p <= q
           most == CHOOSE p \in products : \A q \in products : p >= q
           l == CASE op = "+" -> x.lo + y.lo [] op = "-" -> x.lo - y.hi [] op = "*" -> least
           h == CASE op = "+" -> x.hi + y.hi [] op = "-" -> x.hi - y.lo [] op = "*" -> most
           r == LocalArithmetic(op, x, y)
<1>1. x.lo \in Int /\ x.hi \in Int /\ y.lo \in Int /\ y.hi \in Int
  BY DEF IsValue
<1>2. r = IF x.known /\ y.known /\ InInt32(l) /\ InInt32(h) THEN LocalInterval(l, h) ELSE NoValue
  BY DEF LocalArithmetic
<1>3. least \in Int /\ most \in Int /\ \A p \in products : least <= p /\ p <= most
  <2>1. x.lo * y.lo \in Int /\ x.lo * y.hi \in Int /\ x.hi * y.lo \in Int /\ x.hi * y.hi \in Int
    BY <1>1
  <2>2. least = Lowest(products) /\ most = Highest(products)
    BY DEF Lowest, Highest
  <2>3. products = {x.lo * y.lo, x.lo * y.hi, x.hi * y.lo, x.hi * y.hi}
    OBVIOUS
  <2> HIDE DEF products, least, most
  <2> QED BY <2>1, <2>2, <2>3, EndsOfFour
<1>4. Apply(op, a, b) \in Int /\ l \in Int /\ h \in Int
  BY <1>1, <1>3 DEF Apply
<1>5. CASE x.known /\ y.known
  <2>1. x.lo <= a /\ a <= x.hi /\ y.lo <= b /\ b <= y.hi
    BY <1>5 DEF Describes
  <2>2. l <= Apply(op, a, b) /\ Apply(op, a, b) <= h
    <3>1. CASE op = "+"
      BY <3>1, <2>1, <1>1 DEF Apply
    <3>2. CASE op = "-"
      BY <3>2, <2>1, <1>1 DEF Apply
    <3>3. CASE op = "*"
      <4>1. (\E p \in products : p <= a * b) /\ (\E p \in products : a * b <= p)
        BY <2>1, <1>1, ProductInCorners
      <4>2. \A p \in products : p \in Int
        BY <1>1
      <4>3. l = least /\ h = most /\ Apply(op, a, b) = a * b /\ a * b \in Int
        BY <3>3 DEF Apply
      <4> HIDE DEF products, least, most, l, h
      <4> QED BY <4>1, <4>2, <4>3, <1>3
    <3> QED BY <3>1, <3>2, <3>3
  <2> HIDE DEF l, h, r
  <2> QED BY <1>2, <1>4, <2>2, IntervalIsValue, IntervalDescribes, NoValueIsValue, NothingKnown DEF r
<1>6. CASE ~(x.known /\ y.known)
  <2> HIDE DEF l, h, r
  <2> QED BY <1>6, <1>2, NoValueIsValue, NothingKnown DEF r
<1> QED BY <1>5, <1>6

\* The branch not taken is the one where the operator assume() turns to holds.
THEOREM NegationIsExact ==
  ASSUME NEW op \in {"<", "<=", ">", ">=", "==", "!="}, NEW l \in Int, NEW r \in Int
  PROVE  Negated(op) \in {"<", "<=", ">", ">=", "==", "!="} /\ (Compare(Negated(op), l, r) <=> ~Compare(op, l, r))
<1>1. CASE op = "<"
  BY <1>1 DEF Negated, Compare
<1>2. CASE op = "<="
  BY <1>2 DEF Negated, Compare
<1>3. CASE op = ">"
  BY <1>3 DEF Negated, Compare
<1>4. CASE op = ">="
  BY <1>4 DEF Negated, Compare
<1>5. CASE op = "=="
  BY <1>5 DEF Negated, Compare
<1>6. CASE op = "!="
  BY <1>6 DEF Negated, Compare
<1> QED BY <1>1, <1>2, <1>3, <1>4, <1>5, <1>6

-----------------------------------------------------------------------------
(* Comparisons, accesses, loops *)

LEMMA ComparisonSays ==
  ASSUME NEW op \in {"<", "<=", ">", ">=", "==", "!="}, NEW a \in Int, NEW n \in Int, Compare(op, a, n)
  PROVE  /\ op \in {">=", "=="} => n <= a
         /\ op = ">" => n + 1 <= a
         /\ op \in {"<=", "=="} => a <= n
         /\ op = "<" => a <= n - 1
<1>1. CASE op = "<"
  BY <1>1 DEF Compare
<1>2. CASE op = "<="
  BY <1>2 DEF Compare
<1>3. CASE op = ">"
  BY <1>3 DEF Compare
<1>4. CASE op = ">="
  BY <1>4 DEF Compare
<1>5. CASE op = "=="
  BY <1>5 DEF Compare
<1>6. CASE op = "!="
  BY <1>6
<1> QED BY <1>1, <1>2, <1>3, <1>4, <1>5, <1>6

\* A condition that held narrows what is known (assume): the comparison of a
\* name, or of the length of a view, with a value the analysis has as one constant.
THEOREM ComparisonIsSound ==
  ASSUME NEW exposed, NEW left, NEW op \in {"<", "<=", ">", ">=", "==", "!="}, NEW right, IsValue(right), NEW s, IsState(s),
         NEW env, NEW lengths, FactsHold(exposed, s, env, lengths), NEW r \in Int, Describes(right, r, lengths),
         left.k \in {"name", "len"} => IsVariable(env, left.x) /\ Compare(op, env[left.x], r)
  PROVE  /\ IsState(LocalCompared(exposed, left, op, right, s))
         /\ FactsHold(exposed, LocalCompared(exposed, left, op, right, s), env, lengths)
<1> DEFINE n == right.lo
           x == left.x
           v == LocalGet(exposed, s, x)
           lo == CASE op \in {">=", "=="} -> Most(v.lo, n) [] op = ">" -> Most(v.lo, n + 1) [] OTHER -> v.lo
           hi == CASE op \in {"<=", "=="} -> Least(v.hi, n) [] op = "<" -> Least(v.hi, n - 1) [] OTHER -> v.hi
           held == [v EXCEPT !.lmin = Most(v.lmin, IF op = ">" THEN n + 1 ELSE n)]
           narrowed == [v EXCEPT !.lo = lo, !.hi = hi, !.known = lo <= hi]
           after == LocalCompared(exposed, left, op, right, s)
<1>1. IsValue(v) /\ Describes(v, env[x], lengths)
  BY GetIsValue, GetDescribes
<1>2. CASE ~right.known \/ right.lo /= right.hi
  BY <1>2 DEF LocalCompared
<1>3. CASE right.known /\ right.lo = right.hi
  <2>1. r = n /\ n \in Int
    BY <1>3 DEF Describes, IsValue
  <2>2. CASE left.k = "len" /\ v.held /\ op \in {">=", ">", "=="}
    <3>1. after = LocalPut(s, x, held)
      BY <1>3, <2>2 DEF LocalCompared
    <3>2. IsVariable(env, x) /\ env[x] \in Int /\ Compare(op, env[x], n)
      BY <2>1, <2>2 DEF IsVariable
    <3>3. n <= env[x] /\ (op = ">" => n + 1 <= env[x])
      BY <2>1, <2>2, <3>2, ComparisonSays
    <3> HIDE DEF v
    <3>4. IsValue(held) /\ Describes(held, env[x], lengths)
      BY <1>1, <2>1, <3>2, <3>3 DEF IsValue, Describes, Most
    <3> HIDE DEF held, after
    <3> QED BY <3>1, <3>2, <3>4, PutHolds DEF after
  <2>3. CASE ~(left.k = "len" /\ v.held /\ op \in {">=", ">", "=="}) /\ left.k = "name" /\ v.known
    <3>1. after = LocalPut(s, x, narrowed)
      BY <1>3, <2>3 DEF LocalCompared
    <3>2. IsVariable(env, x) /\ env[x] \in Int /\ v.lo <= env[x] /\ env[x] <= v.hi /\ Compare(op, env[x], n)
      BY <1>1, <2>1, <2>3 DEF Describes, IsVariable
    <3> HIDE DEF v
    <3>3. lo \in Int /\ hi \in Int /\ lo <= env[x] /\ env[x] <= hi
      <4>1. v.lo \in Int /\ v.hi \in Int
        BY <1>1 DEF IsValue
      <4>2. /\ op \in {">=", "=="} => n <= env[x]
            /\ op = ">" => n + 1 <= env[x]
            /\ op \in {"<=", "=="} => env[x] <= n
            /\ op = "<" => env[x] <= n - 1
        BY <2>1, <3>2, ComparisonSays
      <4>3. lo \in Int /\ lo <= env[x]
        BY <2>1, <3>2, <4>1, <4>2 DEF Most
      <4>4. hi \in Int /\ env[x] <= hi
        BY <2>1, <3>2, <4>1, <4>2 DEF Least
      <4> QED BY <4>3, <4>4
    <3> HIDE DEF lo, hi
    <3>4. IsValue(narrowed) /\ Describes(narrowed, env[x], lengths)
      <4>1. /\ DOMAIN narrowed = DOMAIN v /\ narrowed.lo = lo /\ narrowed.hi = hi /\ narrowed.known = (lo <= hi)
            /\ narrowed.held = v.held /\ narrowed.lmin = v.lmin /\ narrowed.lid = v.lid /\ narrowed.below = v.below
        BY <1>1 DEF IsValue
      <4> HIDE DEF narrowed
      <4>2. IsValue(narrowed)
        BY <1>1, <3>3, <4>1 DEF IsValue
      <4>3. Describes(narrowed, env[x], lengths)
        BY <1>1, <2>3, <3>3, <4>1 DEF Describes
      <4> QED BY <4>2, <4>3
    <3> HIDE DEF narrowed, after
    <3> QED BY <3>1, <3>2, <3>4, PutHolds DEF after
  <2>4. CASE ~(left.k = "len" /\ v.held /\ op \in {">=", ">", "=="}) /\ ~(left.k = "name" /\ v.known)
    <3>1. after = s
      BY <1>3, <2>4 DEF LocalCompared
    <3> QED BY <3>1
  <2> QED BY <2>2, <2>3, <2>4
<1> QED BY <1>2, <1>3

\* The access whose guard the compiler removes: when visiting it proves it, the
\* index is inside the view, whatever run led to a state that is true.  And
\* what an access that succeeded adds to the state is so.
THEOREM IndexIsSound ==
  ASSUME NEW exposed, NEW e, NEW s, IsState(s), NEW r, IsState(r.s), IsValue(r.v),
         NEW env, NEW lengths, FactsHold(exposed, s, env, lengths), FactsHold(exposed, r.s, env, lengths),
         IsVariable(env, e.x), NEW i \in Int, Describes(r.v, i, lengths)
  PROVE  LET after == VisitIndex(e, LocalGet(exposed, s, e.x), r)
         IN  /\ e.id \in after.proved \ r.proved => i \in 0 .. env[e.x] - 1
             /\ i \in 0 .. env[e.x] - 1 => IsState(after.s) /\ FactsHold(exposed, after.s, env, lengths)
<1> DEFINE base == LocalGet(exposed, s, e.x)
           after == VisitIndex(e, base, r)
           tracked == base.held /\ r.v.known /\ r.v.lo >= 0
           longer == [base EXCEPT !.lmin = Most(base.lmin, r.v.lo + 1)]
<1>1. IsValue(base) /\ Describes(base, env[e.x], lengths)
  BY GetIsValue, GetDescribes
<1> HIDE DEF base
<1>2. /\ after.s = (IF tracked THEN LocalPut(r.s, e.x, longer) ELSE r.s)
      /\ after.proved = (IF tracked /\ (r.v.hi < base.lmin \/ (base.lid /= None /\ r.v.below = base.lid /\ e.i.k = "name"))
                         THEN r.proved \cup {e.id} ELSE r.proved)
  BY DEF VisitIndex, Visited
<1> HIDE DEF after
<1>3. ASSUME e.id \in after.proved \ r.proved
      PROVE  i \in 0 .. env[e.x] - 1
  <2>1. tracked /\ (r.v.hi < base.lmin \/ (base.lid /= None /\ r.v.below = base.lid))
    BY <1>2, <1>3
  <2>2. 0 <= i
    BY <2>1 DEF Describes, IsValue
  <2>3. i < env[e.x]
    BY <2>1, <1>1 DEF Describes, IsValue, IsVariable
  <2> QED BY <2>2, <2>3 DEF IsVariable
<1>4. ASSUME i \in 0 .. env[e.x] - 1
      PROVE  IsState(after.s) /\ FactsHold(exposed, after.s, env, lengths)
  <2>1. CASE tracked
    <3>1. /\ DOMAIN longer = DOMAIN base /\ longer.lmin = Most(base.lmin, r.v.lo + 1)
          /\ longer.known = base.known /\ longer.lo = base.lo /\ longer.hi = base.hi
          /\ longer.held = base.held /\ longer.lid = base.lid /\ longer.below = base.below
      BY <1>1 DEF IsValue
    <3>2. r.v.lo + 1 <= env[e.x] /\ r.v.lo \in Int /\ env[e.x] \in Int
      BY <2>1, <1>4 DEF Describes, IsValue, IsVariable
    <3> HIDE DEF longer
    <3>3. IsValue(longer)
      BY <1>1, <3>1, <3>2 DEF IsValue, Most
    <3>4. Describes(longer, env[e.x], lengths)
      BY <2>1, <1>1, <3>1, <3>2 DEF IsValue, Describes, Most
    <3> QED BY <2>1, <3>3, <3>4, <1>2, PutHolds
  <2>2. CASE ~tracked
    BY <2>2, <1>2
  <2> QED BY <2>1, <2>2
<1> QED BY <1>3, <1>4 DEF after, base

\* The value a loop gives its item is that of every turn, also when it relates
\* the item to the length of a view and not to a constant.
THEOREM CountedItemIsSound ==
  ASSUME NEW exposed, NEW t, NEW lo, NEW hi, IsValue(lo), IsValue(hi), NEW s, IsState(s),
         NEW env, NEW lengths, FactsHold(exposed, s, env, lengths),
         NEW l \in Int, NEW h \in Int, Describes(lo, l, lengths), Describes(hi, h, lengths), InInt32(h),
         t.hi.k = "len" => IsVariable(env, t.hi.x) /\ h = env[t.hi.x],
         NEW n \in l .. h - 1
  PROVE  IsValue(RangeItem(exposed, t, lo, hi, s)) /\ Describes(RangeItem(exposed, t, lo, hi, s), n, lengths)
<1> DEFINE view == LocalGet(exposed, s, t.hi.x)
           counted == t.hi.k = "len" /\ lo.known /\ lo.lo >= 0 /\ lo.lo < MaxInt
           plain == lo.known /\ hi.known /\ lo.lo < hi.hi
           item == RangeItem(exposed, t, lo, hi, s)
           below == [LocalInterval(lo.lo, MaxInt - 1) EXCEPT !.below = view.lid]
<1>1. IsValue(view) /\ Describes(view, env[t.hi.x], lengths)
  BY GetIsValue, GetDescribes
<1>2. lo.lo \in Int /\ hi.hi \in Int /\ n \in Int /\ MaxInt \in Int /\ MaxInt - 1 \in Int /\ h <= MaxInt
  BY BoundsAssumption DEF IsValue, InInt32
<1>3. item = IF counted /\ view.held /\ view.lid /= None THEN below
             ELSE IF plain THEN LocalInterval(lo.lo, hi.hi - 1) ELSE NoValue
  BY DEF RangeItem
<1> HIDE DEF item, view
<1>4. CASE counted /\ view.held /\ view.lid /= None
  <2>1. lo.lo <= n /\ n <= MaxInt - 1
    BY <1>2, <1>4 DEF Describes
  <2>2. view.lid \in DOMAIN lengths /\ n < lengths[view.lid]
    BY <1>1, <1>4 DEF Describes
  <2>3. /\ IsValue(below) /\ below.known /\ ~below.held
        /\ below.lo = lo.lo /\ below.hi = MaxInt - 1 /\ below.below = view.lid
    BY <1>2, IntervalIsValue DEF IsValue
  <2> HIDE DEF below
  <2>4. item = below
    BY <1>3, <1>4 DEF below
  <2> QED BY <2>1, <2>2, <2>3, <2>4 DEF Describes, item
<1>5. CASE ~(counted /\ view.held /\ view.lid /= None) /\ plain
  <2>1. lo.lo <= n /\ n <= hi.hi - 1 /\ hi.hi - 1 \in Int
    BY <1>2, <1>5 DEF Describes
  <2>2. item = LocalInterval(lo.lo, hi.hi - 1)
    BY <1>3, <1>5
  <2> QED BY <2>1, <2>2, <1>2, IntervalIsValue, IntervalDescribes DEF item
<1>6. CASE ~(counted /\ view.held /\ view.lid /= None) /\ ~plain
  <2>1. item = NoValue
    BY <1>3, <1>6
  <2> QED BY <2>1, NoValueIsValue, NothingKnown DEF item
<1> QED BY <1>4, <1>5, <1>6 DEF item

-----------------------------------------------------------------------------
(* Writes *)

\* A declaration or an assignment stores a value with a fresh length identity
\* (snapshot): what was related to the identities before it stays so.
THEOREM AssignmentIsSound ==
  ASSUME NEW exposed, NEW s, IsState(s), NEW env, NEW lengths, FactsHold(exposed, s, env, lengths),
         NEW x, NEW v, IsValue(v), NEW n \in Int, Describes(v, n, lengths),
         NEW id, id /= None, v.below /= id, \A y \in DOMAIN s : s[y].lid /= id /\ s[y].below /= id
  PROVE  LET after == LocalPut(s, x, Snapshot(id, v))
         IN  IsState(after) /\ FactsHold(exposed, after, LocalPut(env, x, n), LocalPut(lengths, id, n))
<1> DEFINE after == LocalPut(s, x, Snapshot(id, v))
           told == LocalPut(lengths, id, n)
           now == LocalPut(env, x, n)
           snap == Snapshot(id, v)
<1>1. told[id] = n /\ id \in DOMAIN told /\ \A l \in DOMAIN lengths : l /= id => l \in DOMAIN told /\ told[l] = lengths[l]
  BY DEF LocalPut
<1>2. now[x] = n /\ \A y \in DOMAIN env : y /= x => now[y] = env[y]
  BY DEF LocalPut
<1>3. IsValue(snap) /\ Describes(snap, n, told)
  <2>1. CASE v.held
    BY <2>1, <1>1 DEF Snapshot, IsValue, Describes, None
  <2>2. CASE ~v.held
    BY <2>2, <1>1 DEF Snapshot, Describes
  <2> QED BY <2>1, <2>2
<1> HIDE DEF told, now, snap
<1>4. DOMAIN after = DOMAIN s \cup {x} /\ after = [y \in DOMAIN after |-> after[y]] /\ after[x] = snap /\ \A y \in DOMAIN s : y /= x => after[y] = s[y]
  BY DEF LocalPut, snap
<1> HIDE DEF after
<1>5. IsState(after)
  BY <1>3, <1>4 DEF IsState
<1>6. ASSUME NEW y \in DOMAIN after
      PROVE  IsVariable(now, y) /\ Describes(LocalGet(exposed, after, y), now[y], told)
  <2>1. CASE y = x
    <3>1. IsVariable(now, x)
      BY <1>2 DEF IsVariable, now, LocalPut
    <3> QED BY <2>1, <3>1, <1>2, <1>3, <1>4, ForgottenDescribes DEF LocalGet
  <2>2. CASE y /= x
    <3>1. y \in DOMAIN s /\ after[y] = s[y] /\ IsVariable(env, y) /\ Describes(LocalGet(exposed, s, y), env[y], lengths)
      BY <2>2, <1>4 DEF FactsHold
    <3>2. IsVariable(now, y) /\ now[y] = env[y]
      BY <2>2, <3>1, <1>2 DEF IsVariable, now, LocalPut
    <3>3. LocalGet(exposed, after, y) = LocalGet(exposed, s, y)
      BY <3>1 DEF LocalGet
    <3>4. LocalGet(exposed, s, y).lid /= id /\ LocalGet(exposed, s, y).below /= id
      <4>1. IsValue(s[y])
        BY <3>1 DEF IsState
      <4>2. Forgotten(s[y]).lid = None /\ Forgotten(s[y]).below = None
        BY <4>1 DEF Forgotten, IsValue
      <4> QED BY <3>1, <4>2 DEF LocalGet
    <3> DEFINE v0 == LocalGet(exposed, s, y)
    <3> HIDE DEF v0
    <3>5. Describes(v0, env[y], lengths) /\ v0.lid /= id /\ v0.below /= id
      BY <3>1, <3>4 DEF v0
    <3>6. Describes(v0, env[y], told)
      BY <3>5, <1>1 DEF Describes
    <3> QED BY <3>2, <3>3, <3>6 DEF v0
  <2> QED BY <2>1, <2>2
<1> QED BY <1>5, <1>6 DEF after, now, told, FactsHold

\* A name that was forgotten, or whose address is taken anywhere, may be given
\* any value: the state says nothing of it.
THEOREM ForgettingIsSound ==
  ASSUME NEW exposed, NEW s, IsState(s), NEW env, NEW lengths, FactsHold(exposed, s, env, lengths),
         NEW x, x \in exposed \/ (x \in DOMAIN s => ~s[x].known /\ ~s[x].held), NEW n \in Int
  PROVE  FactsHold(exposed, s, LocalPut(env, x, n), lengths)
<1> DEFINE now == LocalPut(env, x, n)
<1>1. now[x] = n /\ x \in DOMAIN now /\ \A y \in DOMAIN env : y \in DOMAIN now /\ (y /= x => now[y] = env[y])
  BY DEF LocalPut
<1> HIDE DEF now
<1>2. ASSUME NEW y \in DOMAIN s
      PROVE  IsVariable(now, y) /\ Describes(LocalGet(exposed, s, y), now[y], lengths)
  <2>1. IsValue(s[y]) /\ IsVariable(env, y) /\ Describes(LocalGet(exposed, s, y), env[y], lengths)
    BY DEF IsState, FactsHold
  <2>2. CASE y = x
    <3>1. CASE x \in exposed
      BY <2>1, <2>2, <3>1, <1>1, ForgottenDescribes DEF LocalGet, IsVariable
    <3>2. CASE x \notin exposed
      BY <2>1, <2>2, <3>2, <1>1 DEF LocalGet, IsVariable, Describes
    <3> QED BY <3>1, <3>2
  <2>3. CASE y /= x
    BY <2>1, <2>3, <1>1 DEF IsVariable
  <2> QED BY <2>2, <2>3
<1> QED BY <1>2 DEF now, FactsHold

\* What a function is analysed with is so for every call whose views are at
\* least as long as the analysis found.
THEOREM ParametersAreSound ==
  ASSUME NEW x, x /= None, NEW least \in Int, NEW n \in Int, x \in ViewNames => least <= n, x \notin ViewNames => InInt32(n),
         NEW lengths, x \in DOMAIN lengths, lengths[x] = n
  PROVE  IsValue(ParameterValue(x, least)) /\ Describes(ParameterValue(x, least), n, lengths)
<1> DEFINE p == ParameterValue(x, least)
<1>1. CASE x \in ViewNames
  <2>1. /\ DOMAIN p = {"known", "lo", "hi", "lmin", "held", "lid", "below"}
        /\ p.known \in BOOLEAN /\ p.held \in BOOLEAN /\ ~p.known
        /\ p.lo = 0 /\ p.hi = 0 /\ p.lmin = least /\ p.lid = x /\ p.below = None
    BY <1>1 DEF ParameterValue, Snapshot, LocalView, NoValue
  <2> HIDE DEF p
  <2>2. IsValue(p)
    BY <2>1 DEF IsValue
  <2>3. least <= n
    BY <1>1
  <2>4. Describes(p, n, lengths)
    BY <2>1, <2>3 DEF Describes
  <2> QED BY <2>2, <2>4 DEF p
<1>2. CASE x \notin ViewNames
  BY <1>2, BoundsAssumption, IntervalIsValue, IntervalDescribes DEF ParameterValue, InInt32
<1> QED BY <1>1, <1>2

LEMMA LeastNatural ==
  ASSUME NEW S \in SUBSET Nat, S /= {}
  PROVE  \E n \in S : \A m \in S : n <= m
<1>1. PICK x \in S : \A y \in S : ~(<<y, x>> \in OpToRel(<, Nat))
  BY NatLessThanWellFounded, WFMin
<1>2. \A y \in S : ~(y < x)
  BY <1>1 DEF OpToRel
<1> QED BY <1>2

\* What a round finds for an instance (bounds) is at most what each closed call
\* of it recorded, and 0 when one of them was not visited.
THEOREM CallsAreCovered ==
  ASSUME NEW sites, NEW seen, \A q \in seen : q[2] \in Nat, NEW c \in sites
  PROVE  /\ CallBounds(sites, seen, c.f) \in Nat
         /\ (\E q \in seen : q[1] = c.id) => \E q \in seen : q[1] = c.id /\ CallBounds(sites, seen, c.f) <= q[2]
         /\ (\A q \in seen : q[1] /= c.id) => CallBounds(sites, seen, c.f) = 0
<1> DEFINE lengths == {RecordedLength(seen, d) : d \in {e \in sites : e.f = c.f}}
<1>1. ASSUME NEW d
      PROVE  /\ RecordedLength(seen, d) \in Nat
             /\ (\E q \in seen : q[1] = d.id) => \E q \in seen : q[1] = d.id /\ RecordedLength(seen, d) = q[2]
             /\ (\A q \in seen : q[1] /= d.id) => RecordedLength(seen, d) = 0
  BY DEF RecordedLength
<1>2. RecordedLength(seen, c) \in lengths /\ lengths \in SUBSET Nat
  BY <1>1
<1>3. CallBounds(sites, seen, c.f) = IF lengths = {} THEN 0 ELSE CHOOSE n \in lengths : \A m \in lengths : n <= m
  BY DEF CallBounds
<1> HIDE DEF lengths
<1>4. CallBounds(sites, seen, c.f) \in lengths /\ \A m \in lengths : CallBounds(sites, seen, c.f) <= m
  <2>1. \E n \in lengths : \A m \in lengths : n <= m
    BY <1>2, LeastNatural
  <2> QED BY <1>2, <1>3, <2>1
<1>5. /\ RecordedLength(seen, c) \in Nat /\ CallBounds(sites, seen, c.f) \in Nat
      /\ CallBounds(sites, seen, c.f) <= RecordedLength(seen, c)
  BY <1>2, <1>4
<1>6. ASSUME \E q \in seen : q[1] = c.id
      PROVE  \E q \in seen : q[1] = c.id /\ CallBounds(sites, seen, c.f) <= q[2]
  <2>1. PICK q \in seen : q[1] = c.id /\ RecordedLength(seen, c) = q[2]
    BY <1>1, <1>6
  <2> QED BY <2>1, <1>5
<1>7. ASSUME \A q \in seen : q[1] /= c.id
      PROVE  CallBounds(sites, seen, c.f) = 0
  <2>1. RecordedLength(seen, c) = 0
    BY <1>1, <1>7
  <2> QED BY <2>1, <1>5
<1> QED BY <1>5, <1>6, <1>7
=============================================================================
