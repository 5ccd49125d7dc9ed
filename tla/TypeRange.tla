------------------------------ MODULE TypeRange ------------------------------
(***************************************************************************)
(* The types of integers the inferencer works with (src/atalan/type.c):    *)
(* ranges, the sequences of values a variable takes in a loop, and         *)
(* variants, and how operations, joins and conditions change them.         *)
(*                                                                         *)
(* Types are objects that several instructions point to, that are changed  *)
(* in place and that are compared by their addresses, so they are kept in  *)
(* a heap h = [types, bad]: a type is its number in h.types, and bad says  *)
(* that the compiler has read through NULL, taken another kind of type for *)
(* a range or divided by zero.  What allocates gives [h, t], the new heap  *)
(* and the type.                                                           *)
(***************************************************************************)
EXTENDS Ranges, Sequences

CONSTANT Limit          \* the largest integer of the compiler

ASSUME TypeRangeAssumption == Limit \in Nat \ {0}

LimMin == -Limit - 1
LimMax == Limit

Null      == 0
Undefined == 1
Void      == 2
Byte      == 3

Interval(min, max) == [v |-> "int", min |-> min, max |-> max]
AsType(range)      == Interval(range.min, range.max)
Sequence(op, step, init, cmp, limit) ==
    [v |-> "seq", op |-> op, step |-> step, init |-> init, cmp |-> cmp, limit |-> limit]
Variant(left, right) == [v |-> "variant", left |-> left, right |-> right]

NoTypes == [types |-> <<[v |-> "undefined"], [v |-> "void"], Interval(0, 255)>>, bad |-> FALSE]

Alloc(h, r)   == [h |-> [h EXCEPT !.types = Append(@, r)], t |-> Len(h.types) + 1]
Known(h, t)   == [h |-> h, t |-> t]
Crash(h)      == [h |-> [h EXCEPT !.bad = TRUE], t |-> Null]
Kind(h, t)    == IF t = Null THEN "null" ELSE h.types[t].v
IsInt(h, t)   == Kind(h, t) = "int"
IsSeq(h, t)   == Kind(h, t) = "seq"
Low(h, t)     == h.types[t].min
High(h, t)     == h.types[t].max
IsConst(h, t) == IsInt(h, t) /\ Low(h, t) = High(h, t)

RECURSIVE TypeMin(_, _), TypeMax(_, _)
TypeMin(h, t) ==
    CASE IsInt(h, t) -> Low(h, t)
      [] IsSeq(h, t) /\ h.types[t].op \in {"add", "mul"} -> TypeMin(h, h.types[t].init)
      [] OTHER -> LimMin
TypeMax(h, t) ==
    CASE IsInt(h, t) -> High(h, t)
      [] IsSeq(h, t) /\ h.types[t].op \in {"sub", "div", "mod"} -> TypeMax(h, h.types[t].init)
      [] IsSeq(h, t) /\ h.types[t].op = "add" /\ IsConst(h, h.types[t].step)
                     /\ Low(h, h.types[t].step) = 1 -> TypeMax(h, h.types[t].limit)
      [] OTHER -> LimMax

\* A type as a range, for conditions.
Extent(h, t) == [min |-> TypeMin(h, t), max |-> TypeMax(h, t), const |-> IsConst(h, t)]

RECURSIVE TypeIsSubsetOf(_, _, _)
TypeIsSubsetOf(h, t, master) ==
    \/ t = master
    \/ /\ Null \notin {t, master}
       /\ IF Kind(h, master) = "variant"
          THEN \/ TypeIsSubsetOf(h, t, h.types[master].left)
               \/ TypeIsSubsetOf(h, t, h.types[master].right)
          ELSE /\ Kind(h, t) = Kind(h, master)
               /\ IsInt(h, t) => Low(h, master) <= Low(h, t) /\ High(h, t) <= High(h, master)

-----------------------------------------------------------------------------
(***************************************************************************)
(* The type of the result of an operation.                                 *)
(***************************************************************************)
RECURSIVE IntBitSize(_)
IntBitSize(n) == IF n = 0 THEN 0 ELSE 1 + IntBitSize(Div(n, 2))

BitSize(op, a, b) == IF op = "and" THEN Smaller(a, b) ELSE Larger(a, b)
BitType(h, op, l, r) ==
    Alloc(h, Interval(0, 2 ^ BitSize(op, IntBitSize(TypeMax(h, l)), IntBitSize(TypeMax(h, r))) - 1))

IntTypeEval(h, op, l, r) ==
    CASE op \in {"lo", "hi"} -> Known(h, Byte)
      [] op \in {"and", "or", "xor"} /\ IsInt(h, r) -> BitType(h, op, l, r)
      [] op \in {"add", "sub", "mul", "div", "mod"} /\ IsInt(h, r) ->
            Alloc(h, AsType(RangeEval(op, h.types[l], h.types[r])))
      [] OTHER -> Known(h, Null)

\* TypeEval of the initial value of a sequence may be asked for again, so the
\* evaluation of an integer comes first.
StartingWith(seq, init) == Alloc(init.h, [seq EXCEPT !.init = init.t])
SeqTypeEval(h, op, l, r) ==
    LET seq == h.types[l]
    IN  CASE r = Null -> Crash(h)
          [] IsInt(h, r) /\ op \in {"add", "sub"} /\ seq.init # Null ->
                IF IsInt(h, seq.init) THEN StartingWith(seq, IntTypeEval(h, op, seq.init, r))
                ELSE Crash(h)
          [] OTHER -> Known(h, Null)

TypeEval(h, op, l, r) ==
    CASE op = "let"     -> Known(h, l)
      [] op # "let" /\ IsInt(h, l) -> IntTypeEval(h, op, l, r)
      [] op # "let" /\ IsSeq(h, l) -> SeqTypeEval(h, op, l, r)
      [] OTHER          -> Known(h, Null)

-----------------------------------------------------------------------------
(***************************************************************************)
(* A sequence that is known to end is a range.                             *)
(***************************************************************************)
HasEnds(h, seq) == IsInt(h, seq.step) /\ IsInt(h, seq.init) /\ IsInt(h, seq.limit)

SequenceRange(h, t) ==
    LET seq   == h.types[t]
        step  == High(h, seq.step)
        add   == HasEnds(h, seq) /\ seq.op = "add"
        exact == IsConst(h, seq.step)
        const == exact /\ IsConst(h, seq.init) /\ IsConst(h, seq.limit)
        end   == SequenceEnd(seq.cmp, Low(h, seq.init), step, High(h, seq.limit), exact, const)
    IN  IF ~add \/ step = 0 THEN [known |-> FALSE, bad |-> add, min |-> 0, max |-> 0]
        ELSE [known |-> end.known, bad |-> FALSE, min |-> end.min, max |-> end.max]

IntUnion(h, l, r) ==
    LET hull == Hull(h.types[l], h.types[r])
    IN  CASE High(h, l) < Low(h, r) /\ High(h, r) < Low(h, l) -> Alloc(h, Variant(l, r))
          [] hull.min = Low(h, l) /\ hull.max = High(h, l) -> Known(h, l)
          [] OTHER -> Alloc(h, AsType(hull))

RECURSIVE TypeUnion(_, _, _), UnionSeq(_, _, _)
UnionSeq(h, l, r) ==
    LET seq == h.types[l]
        both(init, step) == Alloc(step.h, Sequence(seq.op, step.t, init.t, "void", Null))
        from(init) == both(init, TypeUnion(init.h, seq.step, h.types[r].step))
        range(k) == TypeUnion(k.h, k.t, r)
        ended(ends) == CASE ends.bad -> Crash(h)
                         [] ends.known -> range(Alloc(h, Interval(ends.min, ends.max)))
                         [] OTHER -> Alloc(h, Variant(l, r))
    IN  CASE IsSeq(h, r) /\ h.types[r].op = seq.op -> from(TypeUnion(h, seq.init, h.types[r].init))
          [] IsInt(h, r) /\ seq.init = Null -> Alloc(h, [seq EXCEPT !.init = r])
          [] IsInt(h, r) /\ seq.init # Null -> ended(SequenceRange(h, l))
          [] OTHER -> Alloc(h, Variant(l, r))

TypeUnion(h, l, r) ==
    IF l = r THEN Known(h, l)
    ELSE CASE Null \in {l, r} -> Known(h, IF l = Null THEN r ELSE l)
           [] Null \notin {l, r} /\ Undefined \in {l, r} -> Known(h, Undefined)
           [] OTHER ->
                CASE IsSeq(h, l) \/ IsSeq(h, r) ->
                        UnionSeq(h, IF IsSeq(h, r) THEN r ELSE l, IF IsSeq(h, r) THEN l ELSE r)
                  [] IsInt(h, l) /\ IsInt(h, r) -> IntUnion(h, l, r)
                  [] Kind(h, l) = "variant" /\ ~IsSeq(h, r) ->
                        IF \/ TypeIsSubsetOf(h, r, h.types[l].left)
                           \/ TypeIsSubsetOf(h, r, h.types[l].right)
                        THEN Known(h, l) ELSE Alloc(h, Variant(l, r))
                  [] OTHER -> Alloc(h, Variant(l, r))

KeepRange(h, t, min, max) == Known(h, t)       \* mutant: the first value written decides
\* The type of a variable that must hold a value of both types.
ExpandRange(h, t, min, max) ==
    IF Low(h, t) <= min /\ max <= High(h, t) THEN Known(h, t)
    ELSE Alloc(h, AsType(Hull(h.types[t], Between(min, max))))

RECURSIVE TypeExpand(_, _, _)
TypeExpand(h, l, r) ==
    LET second(first) == TypeExpand(first.h, first.t, h.types[r].right)
        ended(ends) == CASE ends.bad -> Crash(h)
                         [] ends.known -> ExpandRange(h, l, ends.min, ends.max)
                         [] OTHER -> Known(h, l)
    IN  CASE l \in {Null, Undefined} -> Known(h, r)
          [] l \notin {Null, Undefined} /\ r \in {Null, Undefined} -> Known(h, l)
          [] OTHER ->
                CASE IsInt(h, l) /\ IsInt(h, r) -> ExpandRange(h, l, Low(h, r), High(h, r))
                  [] IsInt(h, l) /\ Kind(h, r) = "variant" ->
                        second(TypeExpand(h, l, h.types[r].left))
                  [] IsInt(h, l) /\ IsSeq(h, r) -> ended(SequenceRange(h, r))
                  [] OTHER -> Known(h, l)

-----------------------------------------------------------------------------
(***************************************************************************)
(* What a condition leaves of a type.  TypeRestrictRange compares the      *)
(* addresses of the ends, which are next to each other in an object: what  *)
(* is left is nothing if the objects are the same one, and all otherwise.  *)
(***************************************************************************)
TypeRestrictRange(h, t, r) == IF IsInt(h, t) /\ t = r THEN Void ELSE t
TypeRestrict(h, t, r)      == IF IsInt(h, r) THEN TypeRestrictRange(h, t, r) ELSE t

\* A sequence remembers what it is compared with, and for IFNE what it is as a
\* range is asked, and not used.
Compared(h, t, op, limit) ==
    LET with(end) == [end.h EXCEPT !.types[t].cmp = op, !.types[t].limit = end.t]
        asked(heap) == [heap EXCEPT !.bad = @ \/ (op = "ifne" /\ SequenceRange(heap, t).bad)]
    IN  IF h.types[t].cmp = op THEN Known(h, t)
        ELSE Known(asked(with(Alloc(h, Interval(limit, limit)))), t)

RestrictSeq(h, t, max, op) ==
    LET seq  == h.types[t]
        last == StoredLimit(op, max)
        known == IsInt(h, seq.step) /\ IsInt(h, seq.init)
    IN  CASE op \in {"iflt", "ifle"} /\ known ->
                IF seq.op = "add"
                THEN Alloc(h, Interval(Low(h, seq.init), last + High(h, seq.step)))
                ELSE Known(h, t)
          [] op = "ifne" \/ (op \in {"iflt", "ifle"} /\ ~known) -> Compared(h, t, op, last)
          [] op = "ifeq" -> Crash(h)
          [] OTHER -> Known(h, t)

RECURSIVE TypeRestrictOp(_, _, _, _)
TypeRestrictOp(h, t, r, op) ==
    LET union(left, right) == TypeUnion(right.h, left.t, right.t)
        both(left) == union(left, TypeRestrictOp(left.h, t, h.types[r].right, op))
    IN  CASE r \in {Null, Undefined} -> Known(h, t)
          [] Kind(h, r) = "variant" -> both(TypeRestrictOp(h, t, h.types[r].left, op))
          [] OTHER ->
                CASE IsSeq(h, t) -> RestrictSeq(h, t, TypeMax(h, r), op)
                  [] IsInt(h, t) /\ op = "ifne" -> Known(h, TypeRestrict(h, t, r))
                  [] IsInt(h, t) /\ op = "ifeq" -> Known(h, TypeRestrict(h, r, t))
                  [] OTHER -> Known(h, t)

-----------------------------------------------------------------------------
(***************************************************************************)
(* The values of a type.  A sequence starts with its initial value.        *)
(***************************************************************************)
RECURSIVE Holds(_, _, _)
Holds(h, t, n) ==
    CASE Kind(h, t) = "int"       -> Low(h, t) <= n /\ n <= High(h, t)
      [] Kind(h, t) = "seq"       ->
             CASE h.types[t].op = "add" -> TypeMin(h, h.types[t].init) <= n
               [] h.types[t].op = "sub" -> n <= TypeMax(h, h.types[t].init)
               [] OTHER -> TRUE
      [] Kind(h, t) = "variant"   -> Holds(h, h.types[t].left, n) \/ Holds(h, h.types[t].right, n)
      [] Kind(h, t) = "void"      -> FALSE
      [] Kind(h, t) \in {"null", "undefined"} -> TRUE
=============================================================================
