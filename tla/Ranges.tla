------------------------------- MODULE Ranges -------------------------------
(***************************************************************************)
(* The arithmetic of ranges in src/atalan/type.c: what an operation makes  *)
(* of two ranges, whether a condition on them is known before the program  *)
(* runs, and the range of a sequence that is known to end.  A range is     *)
(* [min, max]; const says that it is a type with one value.                *)
(***************************************************************************)
EXTENDS Integers

Between(min, max) == [min |-> min, max |-> max]
InRange(n, r)     == r.min <= n /\ n <= r.max

Smaller(a, b) == IF a < b THEN a ELSE b
Larger(a, b)  == IF a > b THEN a ELSE b
Hull(l, r)    == Between(Smaller(l.min, r.min), Larger(l.max, r.max))

(***************************************************************************)
(* Operations.  Division and remainder are those of C.                     *)
(***************************************************************************)
Div(a, b) == IF a < 0 THEN -((-a) \div b) ELSE a \div b
Mod(a, b) == a - Div(a, b) * b

Applied(op, a, b) ==
    CASE op = "add" -> a + b
      [] op = "sub" -> a - b
      [] op = "mul" -> a * b
      [] op = "div" -> IF b = 0 THEN a ELSE Div(a, b)
      [] op = "mod" -> IF b = 0 THEN a ELSE Mod(a, b)

EndsStay(op) == FALSE           \* mutant: the ends of the second range are not swapped
EndsSwap(op) == op \in {"sub", "div", "mod"}

RangeEval(op, l, r) ==
    Between(Applied(op, l.min, IF EndsSwap(op) THEN r.max ELSE r.min),
            Applied(op, l.max, IF EndsSwap(op) THEN r.min ELSE r.max))

\* What finds the first operand from the result and the second one.
Opposite == [op \in {"add", "sub", "mul", "div"} |->
    CASE op = "add" -> "sub" [] op = "sub" -> "add" [] op = "mul" -> "div" [] op = "div" -> "mul"]

(***************************************************************************)
(* Conditions.                                                             *)
(***************************************************************************)
OpNot(op) ==
    CASE op = "ifeq" -> "ifne" [] op = "ifne" -> "ifeq" [] op = "iflt" -> "ifge"
      [] op = "ifge" -> "iflt" [] op = "ifgt" -> "ifle" [] op = "ifle" -> "ifgt"

Satisfies(op, x, y) ==
    CASE op = "ifeq" -> x = y [] op = "ifne" -> x # y [] op = "iflt" -> x < y
      [] op = "ifge" -> x >= y [] op = "ifgt" -> x > y [] op = "ifle" -> x <= y

\* Of a condition and its opposite: known to be true or false.
Equal(l, r)    == l.const /\ r.const /\ l.min = r.min
BelowEnd(l, r) == l.min < r.min     \* mutant: the wrong end
Below(l, r)    == l.max < r.min
AtMost(l, r)   == l.max <= r.min

OfOpposites(op, l, r) ==
    CASE op = "ifeq" -> [true |-> Equal(l, r), false |-> Below(l, r) \/ Below(r, l)]
      [] op = "iflt" -> [true |-> Below(l, r), false |-> AtMost(r, l)]
      [] op = "ifgt" -> [true |-> Below(r, l), false |-> AtMost(l, r)]
Decided(op, l, r) ==
    LET opposite == op \in {"ifne", "ifge", "ifle"}
        known    == OfOpposites(IF opposite THEN OpNot(op) ELSE op, l, r)
    IN  IF opposite THEN [true |-> known.false /\ ~known.true, false |-> known.true]
        ELSE [true |-> known.true, false |-> known.false /\ ~known.true]

(***************************************************************************)
(* Sequences.  The values go from init, the lowest they start with, in     *)
(* steps of at most step, as long as they compare with limit; exact says   *)
(* that step has one value, const that init and limit have, too.  For IFLT *)
(* the limit is the last value that may pass, and is compared as IFLT.     *)
(***************************************************************************)
StoredLimit(cmp, max) == IF cmp = "iflt" THEN max - 1 ELSE max

SequenceEnd(cmp, init, step, limit, exact, const) ==
    LET over    == Mod(limit - init, step)
        upTo(n) == [known |-> TRUE, min |-> init, max |-> n]
    IN  CASE cmp = "ifne" /\ const /\ over = 0 -> upTo(limit - step)
          [] cmp = "ifle" -> upTo(limit + over)
          [] cmp = "iflt" -> IF exact THEN upTo(Div(limit - init - 1, step) * step + init)
                             ELSE upTo(limit + over)
          [] OTHER -> [known |-> FALSE, min |-> 0, max |-> 0]
=============================================================================
