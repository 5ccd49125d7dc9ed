----------------------------- MODULE RangesProofs -----------------------------
(***************************************************************************)
(* What the type inferencer concludes from ranges is right, for all ranges *)
(* and all values, where it is.  Where it is not, a theorem says so.       *)
(***************************************************************************)
EXTENDS Ranges, TLAPS

LEMMA MulMonotone ==
    ASSUME NEW a \in Nat, NEW b \in Nat, NEW c \in Nat, NEW d \in Nat, a <= b, c <= d
    PROVE  a * c \in Nat /\ a * c <= b * d
  <1>1. a * c <= b * c
    OBVIOUS
  <1>2. b * c <= b * d
    OBVIOUS
  <1> QED BY <1>1, <1>2

\* The quotient is the largest number that fits.
LEMMA Quotient ==
    ASSUME NEW a \in Nat, NEW b \in Nat \ {0}
    PROVE  /\ a \div b \in Nat
           /\ (a \div b) * b <= a
           /\ a < (a \div b) * b + b
  OBVIOUS

LEMMA DivIsQuotient ==
    ASSUME NEW a \in Nat, NEW b
    PROVE  Div(a, b) = a \div b
  BY DEF Div

LEMMA QuotientFits ==
    ASSUME NEW a \in Nat, NEW b \in Nat \ {0}, NEW q \in Nat
    PROVE  q * b <= a <=> q <= a \div b
  <1> DEFINE p == a \div b
  <1>1. p \in Nat /\ p * b <= a /\ a < p * b + b
    BY Quotient
  <1> HIDE DEF p
  <1>2. CASE q <= p
    BY <1>1, <1>2, MulMonotone
  <1>3. CASE ~(q <= p)
    <2>1. p + 1 \in Nat /\ p + 1 <= q
      BY <1>1, <1>3
    <2>2. (p + 1) * b <= q * b
      BY <2>1, MulMonotone
    <2>3. (p + 1) * b = p * b + b
      BY <1>1
    <2> QED BY <1>1, <1>3, <2>2, <2>3
  <1> QED BY <1>2, <1>3 DEF p

\* More divided by less is more.
LEMMA QuotientMonotone ==
    ASSUME NEW a \in Nat, NEW b \in Nat, NEW c \in Nat \ {0}, NEW d \in Nat \ {0}, a <= b, d <= c
    PROVE  a \div c <= b \div d
  <1> DEFINE q == a \div c
  <1>1. q \in Nat /\ q * c <= a
    BY Quotient
  <1> HIDE DEF q
  <1>2. q * d \in Nat /\ q * d <= q * c
    BY <1>1, MulMonotone
  <1>3. q * d <= b
    BY <1>1, <1>2
  <1>4. q <= b \div d
    BY <1>1, <1>3, QuotientFits
  <1> QED BY <1>4 DEF q

-----------------------------------------------------------------------------
(* The operations for which the ends of the ranges give the ends of the    *)
(* result: MUL and DIV only without negative numbers, and never MOD.       *)
Monotone(op, l, r) ==
    \/ op \in {"add", "sub"}
    \/ op \in {"mul", "div"} /\ l.min >= 0 /\ r.min >= 0

LEMMA QuotientInRange ==
    ASSUME NEW l, l.min \in Nat, l.max \in Int, NEW x \in Int, InRange(x, l),
           NEW r, r.min \in Nat, r.max \in Int, NEW y \in Int, InRange(y, r), y # 0
    PROVE  InRange(Applied("div", x, y), RangeEval("div", l, r))
  <1>1. /\ x \in Nat /\ l.min <= x /\ x <= l.max /\ l.max \in Nat
        /\ y \in Nat \ {0} /\ r.min <= y /\ y <= r.max /\ r.max \in Nat \ {0}
    BY DEF InRange
  <1>2. Applied("div", x, y) = x \div y
    BY <1>1, DivIsQuotient DEF Applied
  <1>3. Applied("div", l.min, r.max) = l.min \div r.max
    BY <1>1, DivIsQuotient DEF Applied
  <1>4. Applied("div", l.min, r.max) <= Applied("div", x, y)
    BY <1>1, <1>2, <1>3, QuotientMonotone
  <1>5. Applied("div", x, y) <= Applied("div", l.max, r.min)
    <2>1. CASE r.min = 0
      <3>1. Applied("div", l.max, r.min) = l.max
        BY <2>1 DEF Applied
      <3>2. x \div y \in Nat /\ (x \div y) * y <= x
        BY <1>1, Quotient
      <3>3. x \div y <= (x \div y) * y
        BY <1>1, <3>2, MulMonotone, (x \div y) * 1 = x \div y, 1 \in Nat, 1 <= y
      <3>4. (x \div y) * y \in Nat
        BY <1>1, <3>2
      <3> QED BY <1>1, <1>2, <3>1, <3>2, <3>3, <3>4
    <2>2. CASE r.min # 0
      <3>1. Applied("div", l.max, r.min) = l.max \div r.min
        BY <1>1, <2>2, DivIsQuotient DEF Applied
      <3> QED BY <1>1, <1>2, <2>2, <3>1, QuotientMonotone
    <2> QED BY <2>1, <2>2
  <1> QED BY <1>4, <1>5 DEF InRange, RangeEval, EndsSwap, Between

(* IntTypeEval (type.c:1162): the result of an operation is in the range   *)
(* the inferencer computes from the ranges of its operands, whenever the   *)
(* program computes it.                                                    *)
THEOREM OperationInRange ==
    ASSUME NEW l, l.min \in Int, l.max \in Int, NEW x \in Int, InRange(x, l),
           NEW r, r.min \in Int, r.max \in Int, NEW y \in Int, InRange(y, r),
           NEW op, Monotone(op, l, r), op = "div" => y # 0
    PROVE  InRange(Applied(op, x, y), RangeEval(op, l, r))
  <1>1. CASE op = "add"
    BY <1>1 DEF InRange, Applied, RangeEval, EndsSwap, Between
  <1>2. CASE op = "sub"
    BY <1>2 DEF InRange, Applied, RangeEval, EndsSwap, Between
  <1>3. CASE op = "mul"
    <2>1. /\ l.min \in Nat /\ x \in Nat /\ l.max \in Nat /\ l.min <= x /\ x <= l.max
          /\ r.min \in Nat /\ y \in Nat /\ r.max \in Nat /\ r.min <= y /\ y <= r.max
      BY <1>3 DEF InRange, Monotone
    <2>2. l.min * r.min <= x * y /\ x * y <= l.max * r.max
      BY <2>1, MulMonotone
    <2> QED BY <1>3, <2>2 DEF InRange, Applied, RangeEval, EndsSwap, Between
  <1>4. CASE op = "div"
    BY <1>4, QuotientInRange DEF Monotone
  <1> QED BY <1>1, <1>2, <1>3, <1>4 DEF Monotone

(* InstrConstraints (type.c:2453): the range it computes for the first     *)
(* operand of ADD or SUB from the result and the second operand holds the  *)
(* first operand, for all ranges.                                          *)
THEOREM ConstraintInRange ==
    ASSUME NEW e, e.min \in Int, e.max \in Int, NEW x \in Int,
           NEW r, r.min \in Int, r.max \in Int, NEW y \in Int, InRange(y, r),
           NEW op \in {"add", "sub"}, InRange(Applied(op, x, y), e)
    PROVE  InRange(x, RangeEval(Opposite[op], e, r))
  <1>1. CASE op = "add"
    BY <1>1 DEF Opposite, InRange, Applied, RangeEval, EndsSwap, Between
  <1>2. CASE op = "sub"
    BY <1>2 DEF Opposite, InRange, Applied, RangeEval, EndsSwap, Between
  <1> QED BY <1>1, <1>2

(* The first operand of MUL is found by dividing (type.c:2480).  That is   *)
(* right for ranges without negative numbers and a second operand that is  *)
(* not 0.  The code asks for neither: see FactorLost.  For the operand of  *)
(* DIV it is never sure: the result was rounded.                           *)
THEOREM FactorInRange ==
    ASSUME NEW e, e.min \in Nat, e.max \in Int, NEW x \in Int,
           NEW r, r.min \in Nat, r.max \in Int, NEW y \in Int, InRange(y, r),
           y # 0, InRange(Applied("mul", x, y), e)
    PROVE  InRange(x, RangeEval(Opposite["mul"], e, r))
  <1>1. y \in Nat \ {0} /\ x * y \in Int /\ 0 <= x * y
    BY DEF InRange, Applied
  <1>2. x \in Nat
    <2>1. CASE x < 0
      <3>1. -x \in Nat /\ 1 <= -x /\ 1 <= y /\ 1 \in Nat /\ y \in Nat
        BY <1>1, <2>1
      <3>2. 1 * 1 <= (-x) * y
        BY <3>1, MulMonotone
      <3>3. (-x) * y = -(x * y)
        BY <1>1
      <3> QED BY <1>1, <3>2, <3>3
    <2> QED BY <2>1
  <1>3. InRange(Applied("div", x * y, y), RangeEval("div", e, r))
    <2>1. InRange(x * y, e) /\ e.min \in Nat /\ r.min \in Nat
      BY DEF Applied
    <2> QED BY <1>1, <2>1, QuotientInRange
  <1>4. Applied("div", x * y, y) = x
    <2>1. x * y \in Nat
      BY <1>1
    <2>2. Applied("div", x * y, y) = (x * y) \div y
      BY <1>1, <2>1, DivIsQuotient DEF Applied
    <2>3. x <= (x * y) \div y
      BY <1>1, <1>2, <2>1, QuotientFits
    <2> DEFINE q == (x * y) \div y
    <2>4. q \in Nat /\ q * y <= x * y
      BY <1>1, <2>1, Quotient
    <2> HIDE DEF q
    <2>5. q <= x
      <3>1. CASE q > x
        <4>1. x + 1 \in Nat /\ x + 1 <= q
          BY <1>2, <2>4, <3>1
        <4>2. (x + 1) * y <= q * y
          BY <1>1, <2>4, <4>1, MulMonotone
        <4>3. (x + 1) * y = x * y + y
          BY <1>1, <1>2
        <4> QED BY <1>1, <2>4, <4>2, <4>3
      <3> QED BY <1>2, <2>4, <3>1
    <2> QED BY <1>2, <2>2, <2>3, <2>4, <2>5 DEF q
  <1> QED BY <1>3, <1>4 DEF Opposite

(* What the code does not ask for it needs (type.c:2478-2482).  A product  *)
(* with 0 says nothing of the other factor, yet a range above the result's *)
(* is excluded, and below 0 a result of -6..6 divided by 2..3 gives -2..3, *)
(* though -3 * 2 is -6.                                                    *)
THEOREM FactorLost ==
    /\ \A e : \A r : \A x \in Int :
          /\ e.min \in Nat /\ e.max \in Int /\ r.min = 0 /\ r.max \in Nat
          /\ InRange(0, e) /\ x > e.max
          => /\ InRange(Applied("mul", x, 0), e) /\ InRange(0, r)
             /\ ~InRange(x, RangeEval(Opposite["mul"], e, r))
    /\ LET e == Between(-6, 6)
           r == Between(2, 3)
       IN  /\ InRange(Applied("mul", -3, 2), e) /\ InRange(2, r)
           /\ ~InRange(-3, RangeEval(Opposite["mul"], e, r))
  <1>1. ASSUME NEW e, NEW r, NEW x \in Int, e.min \in Nat, e.max \in Int, r.min = 0,
               r.max \in Nat, InRange(0, e), x > e.max
        PROVE  /\ InRange(Applied("mul", x, 0), e) /\ InRange(0, r)
               /\ ~InRange(x, RangeEval(Opposite["mul"], e, r))
    <2>1. Applied("mul", x, 0) = 0 /\ Applied("div", e.max, 0) = e.max
      BY <1>1 DEF Applied
    <2>2. RangeEval(Opposite["mul"], e, r).max = e.max
      BY <1>1, <2>1 DEF Opposite, RangeEval, EndsSwap, Between
    <2> QED BY <1>1, <2>1, <2>2 DEF InRange
  <1>2. LET e == Between(-6, 6)
            r == Between(2, 3)
        IN  /\ InRange(Applied("mul", -3, 2), e) /\ InRange(2, r)
            /\ ~InRange(-3, RangeEval(Opposite["mul"], e, r))
    <2>1. Applied("mul", -3, 2) = -6 /\ Applied("div", -6, 3) = -2
      BY DEF Applied, Div
    <2>2. RangeEval("div", Between(-6, 6), Between(2, 3)).min = -2
      BY <2>1 DEF RangeEval, EndsSwap, Between
    <2> QED BY <2>1, <2>2 DEF InRange, Between, Opposite
  <1> QED BY <1>1, <1>2

-----------------------------------------------------------------------------
Conditions == {"ifeq", "ifne", "iflt", "ifge", "ifgt", "ifle"}

(* InstrInferType (type.c:2579): a branch that becomes a GOTO is taken, a  *)
(* branch that is removed is not, whatever values of the ranges come.      *)
THEOREM ConditionDecided ==
    ASSUME NEW l, l.min \in Int, l.max \in Int, l.const \in BOOLEAN, l.const => l.min = l.max,
           NEW r, r.min \in Int, r.max \in Int, r.const \in BOOLEAN, r.const => r.min = r.max,
           NEW x \in Int, InRange(x, l), NEW y \in Int, InRange(y, r), NEW op \in Conditions
    PROVE  /\ Decided(op, l, r).true  => Satisfies(op, x, y)
           /\ Decided(op, l, r).false => ~Satisfies(op, x, y)
  <1>1. /\ Equal(l, r) => x = y
        /\ Below(l, r) => x < y
        /\ Below(r, l) => y < x
        /\ AtMost(l, r) => x <= y
        /\ AtMost(r, l) => y <= x
    BY DEF InRange, Equal, Below, AtMost
  <1>2. \A p \in {"ifeq", "iflt", "ifgt"} :
            /\ OfOpposites(p, l, r).true => Satisfies(p, x, y)
            /\ OfOpposites(p, l, r).false => ~Satisfies(p, x, y)
    <2>1. /\ OfOpposites("ifeq", l, r).true <=> Equal(l, r)
          /\ OfOpposites("ifeq", l, r).false <=> Below(l, r) \/ Below(r, l)
      BY Zenon DEF OfOpposites
    <2>2. /\ OfOpposites("iflt", l, r).true <=> Below(l, r)
          /\ OfOpposites("iflt", l, r).false <=> AtMost(r, l)
      BY Zenon DEF OfOpposites
    <2>3. /\ OfOpposites("ifgt", l, r).true <=> Below(r, l)
          /\ OfOpposites("ifgt", l, r).false <=> AtMost(l, r)
      BY Zenon DEF OfOpposites
    <2>4. /\ Satisfies("ifeq", x, y) <=> x = y
          /\ Satisfies("iflt", x, y) <=> x < y
          /\ Satisfies("ifgt", x, y) <=> x > y
      BY DEF Satisfies
    <2>5. /\ Equal(l, r) => Satisfies("ifeq", x, y)
          /\ Below(l, r) \/ Below(r, l) => ~Satisfies("ifeq", x, y)
          /\ Below(l, r) => Satisfies("iflt", x, y)
          /\ AtMost(r, l) => ~Satisfies("iflt", x, y)
          /\ Below(r, l) => Satisfies("ifgt", x, y)
          /\ AtMost(l, r) => ~Satisfies("ifgt", x, y)
      BY <1>1, <2>4
    <2> QED BY <2>1, <2>2, <2>3, <2>5, Zenon
  <1>3. CASE op \in {"ifeq", "iflt", "ifgt"}
    <2>1. op \notin {"ifne", "ifge", "ifle"}
      BY <1>3
    <2>2. /\ Decided(op, l, r).true <=> OfOpposites(op, l, r).true
          /\ Decided(op, l, r).false =>  OfOpposites(op, l, r).false
      BY <2>1, Zenon DEF Decided
    <2> QED BY <1>2, <1>3, <2>2, Zenon
  <1>4. CASE op \in {"ifne", "ifge", "ifle"}
    <2> DEFINE p == OpNot(op)
    <2>1. p \in {"ifeq", "iflt", "ifgt"}
      BY <1>4 DEF OpNot
    <2>2. Satisfies(op, x, y) <=> ~Satisfies(p, x, y)
      <3>1. CASE op = "ifne"
        BY <3>1 DEF OpNot, Satisfies
      <3>2. CASE op = "ifge"
        BY <3>2 DEF OpNot, Satisfies
      <3>3. CASE op = "ifle"
        BY <3>3 DEF OpNot, Satisfies
      <3> QED BY <1>4, <3>1, <3>2, <3>3
    <2>3. /\ Decided(op, l, r).true => OfOpposites(p, l, r).false
          /\ Decided(op, l, r).false => OfOpposites(p, l, r).true
      BY <1>4, Zenon DEF Decided
    <2> HIDE DEF p
    <2> QED BY <1>2, <2>1, <2>2, <2>3, Zenon
  <1> QED BY <1>3, <1>4 DEF Conditions

-----------------------------------------------------------------------------
(* A value the variable of a loop has when the condition of the loop holds *)
(* of it: it started in init and was raised k times by a value of step.    *)
(* Where the step has one value, the condition held of all before.         *)
Reaches(cmp, init, step, limit, x) ==
    \E first \in Int, k \in Nat, sum \in Int :
        /\ InRange(first, init) /\ k * step.min <= sum /\ sum <= k * step.max
        /\ x = first + sum /\ Satisfies(cmp, x, limit)
        /\ step.min = step.max =>
              \A j \in 0..k : Satisfies(cmp, first + j * step.min, limit)

\* As SequenceRange is asked: with the low end of init and the stored limit.
OneValue(r) == r.min = r.max
SequenceOf(cmp, init, step, limit) ==
    SequenceEnd(cmp, init.min, step.max, StoredLimit(cmp, limit), OneValue(step),
                OneValue(step) /\ OneValue(init))

(* Where the last value is found.  A sequence that is compared with IFNE   *)
(* must not start behind its limit: it would never meet it.  Below a limit *)
(* in steps of one size, it must start at one value, and not meet the last *)
(* value below the limit: see LastValueLost.                               *)
EndFound(cmp, init, step, limit) ==
    CASE cmp = "ifne" -> init.min <= limit
      [] cmp = "iflt" -> OneValue(step) =>
                             OneValue(init) /\ Mod(limit - 1 - init.min, step.min) # 0
      [] OTHER -> TRUE

(* SequenceRange (type.c:1286), of steps upwards: where the last value is  *)
(* found, no value that passes the condition of the loop is outside of the *)
(* range.  Of the value that ends the loop it says nothing.                *)
THEOREM SequenceInRange ==
    ASSUME NEW init, init.min \in Int, init.max \in Int,
           NEW step, step.min \in Nat \ {0}, step.max \in Int, step.min <= step.max,
           NEW limit \in Int, NEW cmp \in Conditions,
           NEW x \in Int, Reaches(cmp, init, step, limit, x),
           SequenceOf(cmp, init, step, limit).known, EndFound(cmp, init, step, limit)
    PROVE  InRange(x, SequenceOf(cmp, init, step, limit))
  <1> DEFINE from == init.min
             top  == step.max
             last == StoredLimit(cmp, limit)
             over == Mod(last - from, top)
             end  == SequenceOf(cmp, init, step, limit)
  <1>1. from \in Int /\ top \in Nat \ {0} /\ last \in Int
    BY DEF StoredLimit
  <1>2. PICK first \in Int, k \in Nat, sum \in Int :
            /\ InRange(first, init) /\ k * step.min <= sum /\ sum <= k * top
            /\ x = first + sum /\ Satisfies(cmp, x, limit)
            /\ step.min = top => \A j \in 0..k : Satisfies(cmp, first + j * step.min, limit)
    BY DEF Reaches
  <1>3. from <= first /\ sum \in Nat /\ from <= x
    <2>1. k * step.min \in Nat
      OBVIOUS
    <2> QED BY <1>2, <2>1 DEF InRange
  <1>4. from <= last => /\ last - from \in Nat /\ over \in Nat
                        /\ Div(last - from, top) = (last - from) \div top
    <2> SUFFICES ASSUME from <= last
                 PROVE  /\ last - from \in Nat /\ over \in Nat
                        /\ Div(last - from, top) = (last - from) \div top
      OBVIOUS
    <2> DEFINE d == last - from
               q == d \div top
    <2> HIDE DEF last
    <2>1. d \in Nat
      BY <1>1
    <2>2. Div(d, top) = q
      BY <2>1, DivIsQuotient
    <2>3. q \in Nat /\ q * top <= d /\ Mod(d, top) = d - q * top
      BY <1>1, <2>1, <2>2, Quotient DEF Mod
    <2> HIDE DEF q, d
    <2>4. q * top \in Int
      BY <1>1, <2>3
    <2>5. Mod(d, top) \in Nat
      BY <2>1, <2>3, <2>4
    <2> QED BY <2>1, <2>2, <2>5 DEF d, q
  <1>5. CASE cmp = "ifne" /\ OneValue(step) /\ OneValue(init) /\ over = 0
    <2>1. last = limit /\ first = from /\ step.min = top /\ from <= limit
      BY <1>2, <1>5 DEF StoredLimit, OneValue, InRange, EndFound
    <2>2. end = [known |-> TRUE, min |-> from, max |-> limit - top]
      BY <1>5, <2>1 DEF SequenceOf, SequenceEnd
    <2> DEFINE m == (limit - from) \div top
    <2>3. m \in Nat /\ m * top = limit - from
      <3>1. m \in Nat /\ (limit - from) - m * top = 0
        BY <1>1, <1>4, <1>5, <2>1, Quotient DEF Mod
      <3> HIDE DEF m
      <3>2. m * top \in Int
        BY <1>1, <3>1
      <3> QED BY <1>1, <3>1, <3>2
    <2> HIDE DEF m, end, last, over
    <2>4. sum = k * top
      <3>1. k * top \in Int
        BY <1>1
      <3> QED BY <1>2, <2>1, <3>1
    <2>5. k < m
      <3>1. CASE m <= k
        <4>1. m \in 0..k /\ from + m * top = limit
          BY <1>1, <2>3, <3>1
        <4>2. Satisfies("ifne", from + m * top, limit)
          BY <1>2, <1>5, <2>1, <4>1
        <4> QED BY <4>1, <4>2 DEF Satisfies
      <3> QED BY <2>3, <3>1
    <2>6. (k + 1) * top <= m * top
      BY <1>1, <2>3, <2>5, MulMonotone
    <2>7. (k + 1) * top = k * top + top /\ k * top \in Nat
      BY <1>1
    <2>8. x <= limit - top
      BY <1>1, <1>2, <2>1, <2>3, <2>4, <2>6, <2>7
    <2> QED BY <1>3, <2>2, <2>8 DEF InRange, end
  <1>6. CASE cmp = "ifle" \/ (cmp = "iflt" /\ ~OneValue(step))
    <2>1. end = [known |-> TRUE, min |-> from, max |-> last + over]
      BY <1>6 DEF SequenceOf, SequenceEnd
    <2>2. x <= last
      <3>1. CASE cmp = "ifle"
        BY <1>2, <3>1 DEF Satisfies, StoredLimit
      <3>2. CASE cmp = "iflt"
        BY <1>2, <3>2 DEF Satisfies, StoredLimit
      <3> QED BY <1>6, <3>1, <3>2
    <2> HIDE DEF over, last, from, end
    <2>3. over \in Nat
      BY <1>1, <1>3, <1>4, <2>2
    <2> QED BY <1>1, <1>3, <2>1, <2>2, <2>3 DEF InRange, end
  <1>7. CASE cmp = "iflt" /\ OneValue(step)
    <2> DEFINE n == Div(last - from - 1, top)
    <2>1. /\ last = limit - 1 /\ first = from /\ step.min = top
          /\ over # 0 /\ x <= last
      BY <1>2, <1>7 DEF StoredLimit, OneValue, InRange, EndFound, Satisfies
    <2>2. end = [known |-> TRUE, min |-> from, max |-> n * top + from]
      BY <1>7 DEF SequenceOf, SequenceEnd
    <2>3. sum = k * top
      <3>1. k * top \in Int
        BY <1>1
      <3> QED BY <1>2, <2>1, <3>1
    <2>4. x # last
      <3>1. CASE x = last
        <4> DEFINE d == last - from
                   q == d \div top
        <4> HIDE DEF last
        <4>1. d = k * top /\ d \in Nat
          BY <1>1, <1>2, <1>3, <2>1, <2>3, <3>1
        <4>2. Div(d, top) = q /\ q \in Nat /\ q * top <= d
          BY <1>1, <4>1, DivIsQuotient, Quotient
        <4>3. k <= q
          BY <1>1, <4>1, QuotientFits
        <4> HIDE DEF d, q
        <4>4. k * top <= q * top
          BY <1>1, <4>2, <4>3, MulMonotone
        <4>5. q * top \in Int
          BY <1>1, <4>2
        <4>6. Mod(d, top) = 0
          BY <4>1, <4>2, <4>4, <4>5 DEF Mod
        <4> QED BY <2>1, <4>6 DEF d
      <3> QED BY <3>1
    <2> HIDE DEF last, over, end
    <2>5. last - from - 1 \in Nat /\ k * top <= last - from - 1
      BY <1>1, <1>2, <1>3, <2>1, <2>3, <2>4
    <2>6. n = (last - from - 1) \div top
      BY <2>5, DivIsQuotient
    <2>7. n \in Nat /\ k <= n
      BY <1>1, <2>5, <2>6, QuotientFits, Quotient
    <2> HIDE DEF n
    <2>8. k * top <= n * top /\ n * top \in Nat
      BY <1>1, <2>7, MulMonotone
    <2>9. x <= n * top + from
      BY <1>1, <1>2, <2>1, <2>3, <2>8
    <2> QED BY <1>3, <2>2, <2>9 DEF InRange, end
  <1>8. CASE cmp \notin {"ifle", "iflt"}
             /\ ~(cmp = "ifne" /\ OneValue(step) /\ OneValue(init) /\ over = 0)
    <2>1. ~end.known
      BY <1>8 DEF SequenceOf, SequenceEnd
    <2> QED BY <2>1
  <1> QED BY <1>5, <1>6, <1>7, <1>8

(* The limit of IFLT is lowered when it is stored (type.c:1848) and again  *)
(* when the sequence ends (type.c:1311): a value just below the limit that *)
(* the loop gets to is never in the range, for every start and every step. *)
THEOREM LastValueLost ==
    ASSUME NEW start \in Int, NEW size \in Nat \ {0}, NEW k \in Nat \ {0}
    PROVE  LET init  == Between(start, start)
               step  == Between(size, size)
               x     == start + k * size
           IN  /\ Reaches("iflt", init, step, x + 1, x)
               /\ SequenceOf("iflt", init, step, x + 1).known
               /\ ~InRange(x, SequenceOf("iflt", init, step, x + 1))
  <1> DEFINE init == Between(start, start)
             step == Between(size, size)
             x    == start + k * size
             n    == (k * size - 1) \div size
  <1>1. k * size \in Nat \ {0} /\ x \in Int
    <2>1. 1 * 1 <= k * size
      BY MulMonotone
    <2> QED BY <2>1
  <1>2. Reaches("iflt", init, step, x + 1, x)
    <2>1. \A j \in 0..k : Satisfies("iflt", start + j * size, x + 1)
      <3> SUFFICES ASSUME NEW j \in 0..k PROVE start + j * size < x + 1
        BY DEF Satisfies
      <3>1. j * size \in Nat /\ j * size <= k * size
        BY MulMonotone
      <3> QED BY <1>1, <3>1
    <2>2. Satisfies("iflt", x, x + 1)
      BY <1>1 DEF Satisfies
    <2>3. /\ InRange(start, init) /\ k * step.min <= k * size /\ k * size <= k * step.max
          /\ step.min = size
      BY <1>1 DEF InRange, Between
    <2>4. x = start + k * size /\ k * size \in Int
      BY <1>1
    <2> HIDE DEF init, step, x
    <2>5. step.min = step.max =>
              \A j \in 0..k : Satisfies("iflt", start + j * step.min, x + 1)
      BY <2>1, <2>3
    <2> QED BY <2>2, <2>3, <2>4, <2>5, Zenon DEF Reaches
  <1>3. n \in Nat /\ n < k
    <2>1. k * size - 1 \in Nat
      BY <1>1
    <2>2. ~(k <= n)
      BY <1>1, <2>1, QuotientFits
    <2>3. n \in Nat
      BY <2>1, Quotient
    <2> QED BY <2>2, <2>3
  <1>4. SequenceOf("iflt", init, step, x + 1) = [known |-> TRUE, min |-> start, max |-> n * size + start]
    <2>1. Div(k * size - 1, size) = n
      BY <1>1, DivIsQuotient
    <2>2. (x + 1) - 1 - start - 1 = k * size - 1
      BY <1>1
    <2> QED BY <2>1, <2>2 DEF SequenceOf, SequenceEnd, StoredLimit, OneValue, Between
  <1>5. n * size + start < x
    <2> HIDE DEF n
    <2>1. (n + 1) * size <= k * size
      BY <1>3, MulMonotone
    <2>2. (n + 1) * size = n * size + size /\ n * size \in Nat
      BY <1>3
    <2> QED BY <1>1, <2>1, <2>2
  <1>6. ~InRange(x, SequenceOf("iflt", init, step, x + 1))
    <2> HIDE DEF n, x
    <2>1. n * size \in Int
      BY <1>3
    <2> QED BY <1>1, <1>4, <1>5, <2>1 DEF InRange
  <1> QED BY <1>2, <1>4, <1>6
=============================================================================
