------------------------------ MODULE CodeGen ------------------------------
(***************************************************************************)
(* Variables, scopes and the code the parser generates: src/atalan/gen.c,  *)
(* and what it uses of variables.c and instr.c.                            *)
(*                                                                         *)
(* A variable is a number, its place in p.vars (the list VARS); 0 is NULL. *)
(* Constants, labels, scopes, procedures and types are variables too.      *)
(*   vars   [name, mode, kind, scope, lo, hi, n, sub, val, code, body, reg, *)
(*          tmp, left]                                                    *)
(*   scope  SCOPE                                                          *)
(*   code   IBLOCK_STACK with BLK on its top: sequences of instructions    *)
(***************************************************************************)
EXTENDS Lexer

CONSTANT Address(_)      \* the number that a pointer to a variable reads as

Root == 1       \* ROOT_PROC

Branches    == {"ifeq", "ifne", "iflt", "ifge", "ifgt", "ifle"}
Commutative == {"add", "mul", "or", "and", "xor"}

Var(name, mode, kind, scope) ==
    [name |-> name, mode |-> mode, kind |-> kind, scope |-> scope, lo |-> 0, hi |-> 0,
     n |-> 0, sub |-> {}, val |-> 0, code |-> <<>>, body |-> FALSE, reg |-> 0, tmp |-> FALSE,
     left |-> 0]

Instr(op, r, a, b) == [op |-> op, r |-> r, a |-> a, b |-> b]

GenerateInit == [vars |-> <<Var("root", "var", "proc", 0)>>, scope |-> Root, code |-> <<<<>>>>]

V(p, v) == p.vars[v]

(* Variables.  What allocates returns the new parser state and the variable. *)

VarAllocScope(p, var) == [p |-> [p EXCEPT !.vars = Append(@, var)], v |-> Len(p.vars) + 1]
VarAlloc(p, mode, name) == VarAllocScope(p, Var(name, mode, "undefined", p.scope))
VarNewTmp(p) == VarAllocScope(p, [Var("", "var", "undefined", p.scope) EXCEPT !.tmp = TRUE])
VarNewTmpLabel(p) == VarAllocScope(p, Var("", "var", "label", p.scope))

\* Constants are shared.
VarInt(p, n) ==
    LET same == {v \in 1..Len(p.vars) : p.vars[v].mode = "int" /\ p.vars[v].n = n}
    IN  IF same # {} THEN [p |-> p, v |-> CHOOSE v \in same : TRUE]
        ELSE VarAllocScope(p, [Var("", "int", "int", 0) EXCEPT !.n = n, !.lo = n, !.hi = n])

\* Variables that are being declared are not found.
VarFindScope(p, scope, name) ==
    LET found == {v \in 1..Len(p.vars) : /\ p.vars[v].scope = scope /\ p.vars[v].mode # "void"
                                         /\ ~p.vars[v].tmp /\ p.vars[v].name = name}
    IN  IF found = {} THEN 0 ELSE CHOOSE v \in found : \A w \in found : v <= w

RECURSIVE VarFindScope2(_, _, _)
VarFindScope2(p, scope, name) ==
    IF scope = 0 THEN 0
    ELSE LET v == VarFindScope(p, scope, name)
         IN  IF v # 0 THEN v ELSE VarFindScope2(p, V(p, scope).scope, name)

VarFind2(p, name) == VarFindScope2(p, p.scope, name)

RECURSIVE ProcScopeOf(_, _)
ProcScopeOf(p, s) == IF s = 0 \/ V(p, s).kind \in {"proc", "macro"} THEN s
                     ELSE ProcScopeOf(p, V(p, s).scope)
VarProcScope(p) == ProcScopeOf(p, p.scope)

RECURSIVE VarIsLocal(_, _, _)
VarIsLocal(p, v, scope) == /\ v # 0
                           /\ V(p, v).scope = scope \/ VarIsLocal(p, V(p, v).scope, scope)

SameScope(p, scope) == p        \* mutant: the scope is not entered
InScope(p, scope) == [p EXCEPT !.scope = scope]
ExitScope(p)       == [p EXCEPT !.scope = V(p, @).scope]
EnterLocalScope(p) == LET a == VarAllocScope(p, Var("_s", "scope", "scope", p.scope))
                      IN  [a.p EXCEPT !.scope = a.v, !.vars[a.v].tmp = TRUE]

\* Labels belong to the procedure.
FindOrAllocLabel(p, name) ==
    LET proc == VarProcScope(p)
        v    == VarFindScope(p, proc, name)
    IN  IF v # 0 THEN [p |-> p, v |-> v] ELSE VarAllocScope(p, Var(name, "var", "label", proc))

\* The arguments of a procedure, in the order of their declaration.
ArgsOf(p, proc, subs) == SelectSeq([i \in 1..Len(p.vars) |-> i],
                                   LAMBDA v : V(p, v).scope = proc /\ subs \cap V(p, v).sub # {})
AllArgs(p, proc) == ArgsOf(p, proc, {"arg_in", "arg_out"})
VarIsArg(p, v)  == {"arg_in", "arg_out"} \cap V(p, v).sub # {}
OutVar(p, v)    == "out" \in V(p, v).sub
InVar(p, v)     == "in" \in V(p, v).sub

\* Pairs are shared.
VarNewTuple(p, left, right) ==
    LET same == {v \in 1..Len(p.vars) : V(p, v).mode = "tuple" /\ V(p, v).left = left /\ V(p, v).val = right}
    IN  IF same # {} THEN [p |-> p, v |-> CHOOSE v \in same : TRUE]
        ELSE VarAllocScope(p, [Var("", "tuple", "tuple", 0) EXCEPT !.left = left, !.val = right])

\* The variable that has the value of v if it is known, or 0: that of a named
\* constant, an integer, or v when its type has one value only.
RECURSIVE VarIntConst(_, _)
VarIntConst(p, v) ==
    LET var == V(p, v)
    IN  CASE v = 0 -> 0
          [] v # 0 /\ var.mode = "const" /\ var.kind = "int" /\ var.val # 0 -> VarIntConst(p, var.val)
          [] v # 0 /\ (var.mode = "int" \/ (var.kind = "int" /\ var.lo = var.hi)) -> v
          [] OTHER -> 0
Known(p, c)      == IF V(p, c).mode = "int" THEN V(p, c).n ELSE V(p, c).lo
\* What a named constant, of any type, stands for in code.
RECURSIVE VarEvalConst(_, _)
VarEvalConst(p, v) == IF v # 0 /\ V(p, v).mode = "const" /\ V(p, v).val # 0 THEN VarEvalConst(p, V(p, v).val)
                      ELSE v
VarIsConst(p, v) == v # 0 /\ V(p, v).mode \in {"int", "const", "text"}
VarIsIntConst(p, v) == v # 0 /\ (V(p, v).mode = "int" \/ (V(p, v).mode = "const" /\ V(p, v).kind = "int"))

\* n of a variable shares its place with var, the pointer to the value.
Overlaid(p, v) == CASE V(p, v).mode = "int" -> V(p, v).n
                    [] V(p, v).mode # "int" /\ V(p, v).val # 0 -> Address(V(p, v).val)
                    [] OTHER -> 0

-----------------------------------------------------------------------------
(* Constant folding (InstrEvalConst).  A division by zero is an error when the
   dividend is zero; by a zero divisor nothing is defined: not reached. *)

\* Division is rounded to zero.
Magnitude(a)   == IF a < 0 THEN -a ELSE a
Quotient(a, b) == LET q == Magnitude(a) \div Magnitude(b) IN IF (a < 0) = (b < 0) THEN q ELSE -q

RECURSIVE Bits(_, _, _)
Bits(op, a, b) ==               \* of numbers that are not negative
    IF a = 0 /\ b = 0 THEN 0
    ELSE LET x == a % 2  y == b % 2
             bit == CASE op = "and" -> x * y
                      [] op = "or"  -> x + y - x * y
                      [] op = "xor" -> (x + y) % 2
         IN  bit + 2 * Bits(op, a \div 2, b \div 2)

Compute(op, a, b) ==
    CASE op = "add" -> a + b
      [] op = "sub" -> a - b
      [] op = "mul" -> a * b
      [] op = "div" -> IF b = 0 THEN 0 ELSE Quotient(a, b)
      [] op = "mod" -> IF b = 0 THEN 0 ELSE a - b * Quotient(a, b)
      [] op = "lo"  -> a % 256
      [] op = "hi"  -> Quotient(a, 256) % 256
      [] OTHER      -> Bits(op, a, b)

Folded == {"add", "sub", "mul", "div", "mod", "and", "or", "xor", "lo", "hi"}

\* The constant a op b, or v = 0.
InstrEvalConst(p, op, a, b) ==
    LET n1 == VarIntConst(p, a)
        n2 == VarIntConst(p, b)
    IN  IF n1 = 0 \/ (b # 0 /\ n2 = 0) \/ op \notin Folded THEN [p |-> p, v |-> 0]
        ELSE LET x == Known(p, n1)
                 y == IF b = 0 THEN 0 ELSE Known(p, n2)
             IN  VarInt(ErrorIf(op \in {"div", "mod"} /\ x = 0, p), Compute(op, x, y))

-----------------------------------------------------------------------------
(* Code. *)

OpSwapped(op) == CASE op = "ifeq" -> "ifne" [] op = "ifne" -> "ifeq" [] op = "iflt" -> "ifgt"
                   [] op = "ifge" -> "ifle" [] op = "ifgt" -> "iflt" [] op = "ifle" -> "ifge" \* mutant
OpNot(op) == CASE op = "ifeq" -> "ifne" [] op = "ifne" -> "ifeq" [] op = "iflt" -> "ifge"
               [] op = "ifge" -> "iflt" [] op = "ifgt" -> "ifle" [] op = "ifle" -> "ifgt"
OpRelSwap(op) == CASE op = "ifle" -> "ifge" [] op = "ifge" -> "ifle"
                   [] op = "ifgt" -> "iflt" [] op = "iflt" -> "ifgt" [] OTHER -> op

Code(p)     == Last(p.code)
GenBegin(p) == [p EXCEPT !.code = Append(@, <<>>)]
GenEnd(p)   == [p EXCEPT !.code = Front(@)]
GenBlock(p, code) == [p EXCEPT !.code[Len(p.code)] = @ \o code]

\* A constant is the second operand of what is commutative or relational.
GenInternal(p, op, r, a, b) ==
    LET swap == op \in Commutative \cup Branches /\ VarIsConst(p, a)
    IN  GenBlock(p, <<IF swap THEN Instr(OpRelSwap(op), r, b, a) ELSE Instr(op, r, a, b)>>)

\* The first instruction of a source line comes after an instruction LINE.
GenLine(p) ==
    IF p.line = p.no THEN p
    ELSE [GenBlock(p, <<Instr("line", 0, 0, 0)>>) EXCEPT !.line = p.no]

Gen(p, op, r, a, b) == GenInternal(GenLine(p), op, r, a, b)

GenLet(p, r, a)  == Gen(p, "let", r, a, 0)
GenGoto(p, l)    == IF l = 0 THEN p ELSE GenInternal(p, "goto", l, 0, 0)
GenLabel(p, l)   == IF l = 0 THEN p
                    ELSE LET q == IF V(p, l).kind = "undefined"
                                  THEN [p EXCEPT !.vars[l].kind = "label", !.vars[l].mode = "var"]
                                  ELSE p
                         IN  GenInternal(q, "label", l, 0, 0)

\* Let the last instruction write v instead of the temporary variable item.
GenLastResult(p, v, item) ==
    LET n == Len(Code(p))
    IN  IF Code(p)[n].op = "label" THEN GenLet(p, v, item)
        ELSE [p EXCEPT !.code[Len(p.code)][n].r = v]

\* A variable of a macro: an argument is what was passed, a local variable or a
\* label a new variable.  x is [p, map], the new variables so far.
GenArg(x, macro, args, v) ==
    IF v = 0 THEN [x |-> x, v |-> 0]
    ELSE LET p == x.p
             at == SelectInSeq(AllArgs(p, macro), LAMBDA a : a = v)
             new == VarAllocScope(p, [Var("", V(p, v).mode, V(p, v).kind, p.scope)
                                        EXCEPT !.tmp = TRUE, !.lo = V(p, v).lo, !.hi = V(p, v).hi])
         IN  CASE V(p, v).mode = "var" /\ VarIsArg(p, v) ->
                    [x |-> x, v |-> IF at = 0 THEN v ELSE args[at]]
               [] V(p, v).mode = "var" /\ ~VarIsArg(p, v) /\ v \in DOMAIN x.map ->
                    [x |-> x, v |-> x.map[v]]
               [] /\ V(p, v).mode = "var" /\ ~VarIsArg(p, v) /\ v \notin DOMAIN x.map
                  /\ VarIsLocal(p, v, macro) \/ V(p, v).kind = "label" ->
                    [x |-> [p |-> new.p, map |-> (v :> new.v) @@ x.map], v |-> new.v]
               [] OTHER -> [x |-> x, v |-> v]

GenMacroInstr(x, macro, args, i) ==
    LET generated(e, r, a, b) == IF e.v # 0 THEN GenInternal(e.p, "let", r, e.v, 0)
                                 ELSE GenInternal(e.p, i.op, r, a, b)
        result(r, a, b) == [b.x EXCEPT !.p = generated(InstrEvalConst(@, i.op, a, b.v), r, a, b.v)]
        third(r, a)     == result(r, a.v, GenArg(a.x, macro, args, i.b))
        second(r)       == third(r.v, GenArg(r.x, macro, args, i.a))
    IN  second(GenArg(x, macro, args, i.r))

\* The code of a macro, with the arguments and with variables of its own.
GenMacro(p, macro, args) ==
    FoldLeft(LAMBDA x, i : IF i.op = "line" THEN x ELSE GenMacroInstr(x, macro, args, i),
             [p |-> p, map |-> <<>>], V(p, macro).code).p
=============================================================================
