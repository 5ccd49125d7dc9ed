------------------------------- MODULE Parser -------------------------------
(***************************************************************************)
(* The parser (src/atalan/parser.c and parse_type.c): a program, as lines  *)
(* of tokens, becomes the code of procedures, one instruction after the    *)
(* other with labels and jumps.                                            *)
(*                                                                         *)
(* Each function of the parser is an operator from the state p before it   *)
(* to the state after it.  To the lexer's and the generator's fields of p: *)
(*   stack   STACK, up to TOP                                              *)
(*   gb      G_BLOCKS up to G_BLOCK: [loop, f, not], labels or 0           *)
(*   paren   EXP_PARENTHESES                                               *)
(*   wild    whether an operand was read below the bottom of STACK         *)
(*   line    OP_LINE_NO, the last line an instruction LINE was made for    *)
(* Arrays, structures, strings, rules and instructions are left out.       *)
(***************************************************************************)
EXTENDS CodeGen

CONSTANTS Registers     \* the registers of the processor that hold a byte

Block(loop) == [loop |-> loop, f |-> 0, not |-> FALSE]

ParseInit == [stack |-> <<>>, gb |-> <<Block(0)>>, paren |-> 0, wild |-> FALSE, line |-> 0]

G(p)     == Last(p.gb)
GTop(p)  == Len(p.gb)

BufPush(p, v) == [p EXCEPT !.stack = Append(@, v)]
BufPop(p)     == [p EXCEPT !.stack = Front(@)]

(* The functions that call each other recursively: Rule(name, arguments, p) is
   the operator Parse<name> below. *)
RECURSIVE Rule(_, _, _)
Exp(p)                      == Rule("exp root", <<>>, p)
Operand(p)                  == Rule("operand", <<>>, p)
IfElse(p, result)             == Rule("if", <<result>>, p)
Condition(p)                == Rule("condition", <<>>, p)
CommandBlock(p, stop, result) == Rule("block", <<stop, result>>, p)
Commands(p)                 == Rule("commands", <<>>, p)
OneCommand(p)               == Rule("command", <<>>, p)
Assign(p, mode, sub, isArg) == Rule("assign", <<mode, sub, isArg>>, p)
Type(p)                     == Rule("type", <<>>, p)            \* [p, t]
Arguments(p, proc, sub)     == Rule("args", <<proc, sub>>, p)

-----------------------------------------------------------------------------
(* Expressions: their value is left on the stack. *)

GenTmp(t, op, a, b) == BufPush(Gen(t.p, op, t.v, a, b), t.v)
InstrBinary(p, op) ==
    LET n == Len(p.stack)
        a == p.stack[n - 1]
        b == p.stack[n]
        popped == BufPop(BufPop(p))
        result(e) == IF e.v # 0 THEN BufPush(e.p, e.v) ELSE GenTmp(VarNewTmp(e.p), op, a, b)
    IN  IF n < 2 THEN [SyntaxError(p) EXCEPT !.wild = TRUE]
        ELSE result(InstrEvalConst(popped, op, a, b))

\* HI and LO.  When the value of the operand is known, it is taken from n of the
\* operand itself: of a named constant this is a pointer.
InstrUnary(p, op) ==
    LET top == Last(p.stack)
        result(e) == BufPush(e.p, e.v)
    IN  CASE p.stack = <<>> -> [SyntaxError(p) EXCEPT !.wild = TRUE]
          [] p.stack # <<>> /\ VarIntConst(p, top) # 0 ->
               result(VarInt(BufPop(p), Compute(op, Overlaid(p, top), 0)))
          [] OTHER -> GenTmp(VarNewTmp(BufPop(p)), op, top, 0)

BlockEnd(p) == IF Is(p, "block_end") THEN NextToken(p) ELSE SyntaxError(p)
ParseParenthesis(p) == [BlockEnd(Exp([EnterBlock(p) EXCEPT !.paren = @ + 1])) EXCEPT !.paren = @ - 1]

\* What a procedure returns is copied from the registers at once.
Results(p, proc) ==
    FoldLeft(LAMBDA q, arg : IF V(p, arg).reg = 0 THEN BufPush(q, arg)
                             ELSE GenTmp(VarNewTmp(q), "let", arg, 0),
             p, ArgsOf(p, proc, {"arg_out"}))

ParseCall(p, proc) == Gen(Arguments(p, proc, "arg_in").p, "call", proc, 0, 0)

\* The results of a macro are new temporary variables.
PushResult(t, args) == [p |-> BufPush(t.p, t.v), args |-> Append(args, t.v)]
ParseMacro(p, macro) ==
    LET generated(x) == IF Failed(x.p) THEN x.p ELSE GenMacro(x.p, macro, x.args)
    IN  generated(FoldLeft(LAMBDA x, arg : PushResult(VarNewTmp(x.p), x.args),
                           Arguments(p, macro, "arg_in"), ArgsOf(p, macro, {"arg_out"})))

\* Members of scopes, and the limits of integer variables: v . name
\* The token at q names what of v is meant: [p, v], v = 0 if nothing.
Member(q, v) ==
    LET item == VarFindScope(q, v, q.tok.v)
    IN  CASE Is(q, "id") /\ item # 0 -> [p |-> q, v |-> item]
          [] Is(q, "id") /\ item = 0 /\ V(q, v).kind = "int" /\ q.tok.v \in {"min", "max"} ->
               VarInt(q, IF q.tok.v = "min" THEN V(q, v).lo ELSE V(q, v).hi)
          [] OTHER -> [p |-> SyntaxError(q), v |-> 0]

RECURSIVE Members(_)
Members(m) ==
    CASE m.v = 0 -> m.p
      [] m.v # 0 /\ Is(m.p, ".") /\ m.p.tok.near ->
           LET next(n) == Members(IF n.v = 0 THEN n ELSE [n EXCEPT !.p = NextToken(@)])
           IN  next(Member(NextToken(m.p), m.v))
      [] OTHER -> BufPush(m.p, m.v)

\* The token is the name of v.  What is only written is not an operand (LogicError:
\* parsing goes on); a macro with effects is marked as a variable like that is.
ReadError(p, v) == [p EXCEPT !.errors = IF V(p, v).kind # "proc" /\ OutVar(p, v) /\ ~InVar(p, v)
                                        THEN @ + 1 ELSE @]
NamedOperand(q, v) ==
    LET p == ReadError(q, v)
    IN  CASE V(p, v).kind = "macro" -> ParseMacro(NextToken(p), v)
          [] V(p, v).kind = "proc" ->
               ErrorIf(ArgsOf(p, v, {"arg_out"}) = <<>>, Results(ParseCall(NextToken(p), v), v))
          [] OTHER -> Members([p |-> NextToken(p), v |-> v])

PushInt(n) == BufPush(NextToken(n.p), n.v)
ParseOperand(p) ==
    LET v == VarFind2(p, p.tok.v)
    IN  CASE Is(p, "(")   -> ParseParenthesis(p)
          [] Is(p, "int") -> PushInt(VarInt(p, p.tok.v))
          [] Is(p, "id")  -> IF v = 0 THEN SyntaxError(p) ELSE NamedOperand(p, v)
          [] OTHER -> p

ParseUnary(p) ==
    CASE Is(p, "-") -> InstrBinary(Operand(PushInt(VarInt(p, 0))), "sub")
      [] p.tok.t \in {"hi", "lo"} -> InstrUnary(Operand(NextToken(p)), p.tok.t)
      [] OTHER -> Operand(p)

\* ParseMulDiv, ParsePlusMinus, ParseBinaryAnd, ParseBinaryOr
Levels == << "*" :> "mul" @@ "/" :> "div" @@ "mod" :> "mod",
             "+" :> "add" @@ "-" :> "sub",
             "bitand" :> "and",
             "bitor" :> "or" @@ "bitxor" :> "xor" >>

RECURSIVE ParseLevel(_, _), LevelRest(_, _)
LevelRest(p, k) ==
    LET applied(q) == IF Failed(q) THEN q ELSE InstrBinary(q, Levels[k][p.tok.t])
    IN  IF p.tok.t \notin DOMAIN Levels[k] THEN p
        ELSE LevelRest(applied(ParseLevel(NextToken(p), k - 1)), k)

ParseLevel(p, k) == IF k = 0 THEN ParseUnary(p) ELSE LevelRest(ParseLevel(p, k - 1), k)

\* In parentheses commas make pairs.  The count of parentheses has no sign: it is
\* not zero either behind parentheses in which another expression began at zero.
Pair(p) ==
    LET n == Len(p.stack)
        put(t) == BufPush(BufPop(BufPop(t.p)), t.v)
    IN  CASE Failed(p) -> p
          [] ~Failed(p) /\ n < 2 -> [p EXCEPT !.wild = TRUE]
          [] OTHER -> put(VarNewTuple(p, p.stack[n - 1], p.stack[n]))

RECURSIVE ParseTuple(_), TupleRest(_)
TupleRest(p)  == IF p.paren # 0 /\ Is(p, ",") THEN TupleRest(Pair(ParseTuple(NextToken(p)))) ELSE p
ParseTuple(p) == TupleRest(ParseLevel(p, 4))

ParseExpRoot(p) ==
    LET chosen(t) == BufPush(IfElse(t.p, t.v), t.v)
    IN  IF p.tok.t \in {"if", "unless"} THEN chosen(VarNewTmp(p)) ELSE ParseTuple(p)

\* The stack starts empty: also when the expression is an argument in another.
ParseExpression(p) == Exp([p EXCEPT !.stack = <<>>, !.paren = 0])
Expected(q) == ErrorIf(q.stack = <<>> /\ ~Failed(q), q)
ExpectExpression(p) == Expected(ParseExpression(p))

-----------------------------------------------------------------------------
(* Conditions: code that jumps to the false label of the block, f. *)

BeginBlock(p, command) ==
    LET with(l) == [l.p EXCEPT !.gb = Append(@, Block(l.v))]
    IN  with(IF command = "if" THEN [p |-> p, v |-> 0] ELSE VarNewTmpLabel(p))
EndKeeps(p) == p                \* mutant: the block stays on the stack
EndBlock(p) == [p EXCEPT !.gb = Front(@)]

SetF(p, l)     == [p EXCEPT !.gb[GTop(p)].f = l]
SetNot(p, b)   == [p EXCEPT !.gb[GTop(p)].not = b]

WithF(l) == SetF(l.p, l.v)
HavingF(p) == IF G(p).f = 0 THEN WithF(VarNewTmpLabel(p)) ELSE p
GenRel(p, op, a, b) ==
    LET jump(q) == Gen(q, IF G(q).not THEN op ELSE OpNot(op), G(q).f, a, b)
    IN  jump(HavingF(p))

RelInstr == "=" :> "ifeq" @@ "<>" :> "ifne" @@ "<" :> "iflt" @@ ">" :> "ifgt"
            @@ "<=" :> "ifle" @@ ">=" :> "ifge"

\* <exp> <relop> <exp> [<relop> <exp>]*
RECURSIVE Relations(_, _)
Relations(p, left) ==
    LET next(q) == IF Failed(q) THEN q
                   ELSE Relations(GenRel(q, RelInstr[p.tok.t], left, q.stack[1]), q.stack[1])
    IN  IF p.tok.t \in DOMAIN RelInstr THEN next(ParseExpression(NextToken(p))) ELSE p

ParseRel(p) ==
    LET first(q) == CASE Failed(q) -> q
                      [] ~Failed(q) /\ q.tok.t \in DOMAIN RelInstr -> Relations(q, q.stack[1])
                      [] OTHER -> SyntaxError(q)
    IN  IF Is(p, "(") THEN BlockEnd(Condition(EnterBlock(p))) ELSE first(ParseExpression(p))

RECURSIVE Nots(_, _)
Nots(p, not) == IF Is(p, "not") THEN Nots(NextToken(p), ~not) ELSE [p |-> p, not |-> not]

ParseNot(p) ==
    LET not == G(p).not
        rel(n) == SetNot(ParseRel(SetNot(n.p, IF n.not THEN ~not ELSE not)), not)
    IN  rel(Nots(p, FALSE))

\* In a negated condition AND and OR change places.
RECURSIVE ParseAnd(_)
ParseAnd(p) ==
    LET rest(q) == IF Is(q, IF G(q).not THEN "or" ELSE "and") THEN ParseAnd(NextToken(q)) ELSE q
    IN  rest(ParseNot(p))

RECURSIVE Alternatives(_, _)
Alternatives(p, body) ==
    LET or(b)   == Alternatives(SetF(GenLabel(GenGoto(b.p, b.v), G(b.p).f), 0), b.v)
        next(q) == or(IF body = 0 THEN VarNewTmpLabel(q) ELSE [p |-> q, v |-> body])
        rest(q) == IF Is(q, IF G(q).not THEN "and" ELSE "or") THEN next(NextToken(q))
                   ELSE GenLabel(q, body)
    IN  rest(ParseAnd(p))

ParseCondition(p) == Alternatives(p, 0)

-----------------------------------------------------------------------------
(* Blocks of commands, if, for, while. *)

ParseBlock(p, stop, result) ==
    LET let(e)   == IF e.stack = <<>> THEN [e EXCEPT !.wild = TRUE]
                    ELSE BufPop(GenLet(e, result, Last(e.stack)))
        body(q)  == IF result = 0 THEN Commands(q) ELSE let(NextIs(ParseExpression(q), "eol"))
    IN  NextIs(body(EnterBlockWithStop(p, stop)), "block_end")

ParseCommandBlock(p) == CommandBlock(p, "void", 0)

\* The label behind the branches is made when there is a second one.
WithLoop(l) == [l.p EXCEPT !.gb[GTop(l.p)].loop = l.v]
HavingLoop(p) == IF G(p).loop = 0 THEN WithLoop(VarNewTmpLabel(p)) ELSE p

RECURSIVE IfBranches(_, _)
IfBranches(p, result) ==
    LET other(f) == IF f.tok.t \in {"if", "unless"} THEN IfBranches(SetF(f, 0), result)
                    ELSE CommandBlock(f, "void", result)
        else(e)  == other(GenLabel(GenGoto(e, G(e).loop), G(e).f))
        after(b) == IF Is(b, "else") THEN else(HavingLoop(NextToken(b))) ELSE GenLabel(b, G(b).f)
        then(c)  == IF Failed(c) THEN c ELSE after(CommandBlock(NextIs(c, "then"), "else", result))
    IN  then(Condition(NextToken(SetNot(p, Is(p, "unless")))))

ParseIf(p, result) ==
    LET end(q) == IF Failed(q) THEN q ELSE EndBlock(GenLabel(q, G(q).loop))
    IN  end(IfBranches(BeginBlock(p, "if"), result))

\* The limits of a loop: min .. max, a number of times, or those of a variable
\* or type.
NoLimits(p)     == [p |-> p, min |-> 0, max |-> 0]
UpTo(lo, max)   == [p |-> lo.p, min |-> lo.v, max |-> max]
Between(lo, hi) == [p |-> hi.p, min |-> lo, max |-> hi.v]
FromLow(lo, hi) == Between(lo.v, VarInt(lo.p, hi))
Limits(p, v)    == FromLow(VarInt(p, V(p, v).lo), V(p, v).hi)

RangeFrom(a) ==
    LET min   == a.stack[1]
        to(b) == IF b.stack = <<>> THEN NoLimits([b EXCEPT !.wild = TRUE])
                 ELSE [p |-> b, min |-> min, max |-> b.stack[1]]
    IN  CASE a.stack = <<>> -> NoLimits([a EXCEPT !.wild = TRUE])
          [] a.stack # <<>> /\ Is(a, "..") -> to(ParseExpression(NextToken(a)))
          [] a.stack # <<>> /\ ~Is(a, "..") /\ Len(a.stack) > 1 ->
               [p |-> a, min |-> min, max |-> a.stack[2]]
          [] OTHER -> CASE V(a, min).mode = "int" -> UpTo(VarInt(a, 0), min)
                        [] V(a, min).mode \in {"var", "type"} /\ V(a, min).kind = "int" -> Limits(a, min)
                        [] V(a, min).mode \in {"var", "type"} /\ V(a, min).kind # "int" ->
                             NoLimits(SyntaxError(a))
                        [] OTHER -> NoLimits([a EXCEPT !.wild = TRUE])
ParseRange(p) == RangeFrom(ParseExpression(p))

\* The type of the loop variable.  The limit of a maximum that is a variable is
\* compared with one that was not read: a null pointer.
TypeAllocRange(p, min, max) ==
    LET cmin == VarIntConst(p, min)
        cmax == VarIntConst(p, max)
        known(v) == VarIntConst(p, v) # 0 \/ V(p, v).kind = "int"
    IN  [wild |-> cmax = 0 /\ V(p, max).kind = "int",
         kind |-> IF known(min) /\ known(max) THEN "int" ELSE "undefined",
         lo   |-> IF cmin # 0 THEN Known(p, cmin) ELSE V(p, min).lo,
         hi   |-> IF cmax # 0 THEN Known(p, cmax) ELSE V(p, max).hi]

\* for <var> [":" <range>]: [p, var, idx, min, max]; var = 0 for while and until.
\* idx is the variable that is counted: a null pointer for a variable there was.
ForLimits(r, var, idx) == [var |-> var, idx |-> idx] @@ r
WithRange(t, r, v) ==
    [r EXCEPT !.p.vars[v].kind = t.kind, !.p.vars[v].lo = t.lo, !.p.vars[v].hi = t.hi,
              !.p.wild = @ \/ t.wild]
NewForVariable(new) ==
    LET typed(r) == IF Failed(r.p) \/ r.max = 0 THEN r
                    ELSE WithRange(TypeAllocRange(r.p, r.min, r.max), r, new.v)
    IN  ForLimits(typed(ParseRange(NextToken(new.p))), new.v, new.v)
OldForVariable(q, v) ==
    IF v # 0 /\ V(q, v).mode = "var" /\ V(q, v).kind = "int" THEN ForLimits(Limits(q, v), v, 0)
    ELSE ForLimits(NoLimits(SyntaxError(q)), 0, 0)
ForVariable(p) ==
    LET named(q, name) == IF Is(q, ":") THEN NewForVariable(VarAlloc(q, "var", name))
                          ELSE OldForVariable(q, VarFind2(q, name))
        at(q) == IF Is(q, "id") THEN named(NextToken(GenLine(q)), q.tok.v)
                 ELSE ForLimits(NoLimits(SyntaxError(q)), 0, 0)
    IN  IF Is(p, "for") THEN at(NextToken(p)) ELSE ForLimits(NoLimits(p), 0, 0)

ForStep(p, var) ==
    LET by(e) == IF e.stack # <<>> THEN [p |-> e, v |-> e.stack[1]]
                 ELSE [p |-> [e EXCEPT !.wild = TRUE], v |-> 0]
    IN  CASE var = 0 -> [p |-> p, v |-> 0]
          [] var # 0 /\ Is(p, "step") -> by(ParseExpression(NextToken(p)))
          [] OTHER -> VarInt(p, 1)

\* A condition as a block of code of its own; the state after it and the code.
Aside(p) == [p |-> GenEnd(p), code |-> Code(p)]
NoCode(p) == [p |-> p, code |-> <<>>]

\* where: what does not fulfil the condition goes on to the next value.
ForWhere(p, var) ==
    IF var = 0 \/ ~Is(p, "where") THEN NoCode(p)
    ELSE [Aside(Condition(GenBegin(SetF(NextToken(p), G(p).loop)))) EXCEPT !.p = SetF(@, 0)]

ForCondition(p) ==
    IF p.tok.t \notin {"until", "while"} THEN NoCode(p)
    ELSE Aside(Condition(GenBegin(NextToken(IF Is(p, "until") THEN SetNot(p, TRUE) ELSE p))))

ByteMask(n) == CHOOSE m \in {256^k - 1 : k \in 1..3} : m >= n /\ (m = 255 \/ n > m \div 256)

\* The next value and the test for another turn.  With constant limits the loop
\* ends at the value the last step reaches, else when the variable is behind the
\* maximum; a step that overflows the variable ends the loop, and the overflow is
\* not tested when the step is 1 or the maximum leaves room for it.
ForNext(p, idx, min, max, step, body) ==
    LET q == GenInternal(p, "add", idx, idx, step)
        isInt(v) == V(p, v).mode = "int"
        n    == V(p, max).n
        by   == V(p, step).n
        last == (V(p, min).n + ((n - V(p, min).n) \div by + 1) * by) % (ByteMask(n) + 1)
        overflows == isInt(max) /\ n = ByteMask(n) /\ (~isInt(step) \/ by > 255)
        topped == IF idx = 0 THEN [q EXCEPT !.wild = TRUE] ELSE [q EXCEPT !.vars[idx].hi = last]
        notLast(stop) == GenInternal(stop.p, "ifne", body, idx, stop.v)
        tested(f) == IF isInt(step) /\ by = 1 THEN f ELSE GenInternal(f, "ifoverflow", G(f).f, 0, 0)
        room == isInt(max) /\ isInt(step) /\ ByteMask(n) - n >= by
    IN  CASE overflows -> GenInternal(q, "ifnoverflow", body, 0, 0)
          [] ~overflows /\ isInt(max) /\ isInt(step) /\ isInt(min) ->
               notLast(VarInt(topped, last))
          [] OTHER -> GenInternal(IF room THEN q ELSE tested(HavingF(q)), "ifge", body, max, idx)

\* for, while and until.  The code is put together when all of it is parsed:
\* x has the variable and its limits, and f the step s and the parts of the code.
ForStart(b, x) == IF x.var # 0 THEN GenInternal(b, "let", x.idx, x.min, 0) ELSE GenGoto(b, G(b).loop)
ForBody(l, f)  == GenBlock(GenLabel(l.p, l.v),
                           (IF f.x.var # 0 THEN f.c ELSE <<>>) \o f.w \o f.b)
ForTurn(body, f, l) ==
    LET at == IF f.x.var = 0 \/ f.w # <<>> THEN GenLabel(body, G(body).loop) ELSE body
    IN  IF f.x.var = 0 THEN GenGoto(GenBlock(at, f.c), l)
        ELSE ForNext(at, f.x.idx, f.x.min, f.x.max, f.s, l)
ForEnd(p)      == ExitScope(EndBlock(GenLabel(p, G(p).f)))
ForCode(p, f) ==
    LET put(l) == ForEnd(ForTurn(ForBody(l, f), f, l.v))
    IN  put(VarNewTmpLabel(ForStart(p, f.x)))

ForParts(b, f) == IF Failed(b.p) THEN b.p ELSE ForCode(b.p, f @@ [b |-> b.code])
ForBlock(c, f) == IF Failed(c.p) THEN ExitScope(EndBlock(c.p))
                  ELSE ForParts(Aside(ParseCommandBlock(GenBegin(c.p))), f @@ [c |-> c.code])
ForTest(w, f)  == ForBlock(ForCondition(w.p), f @@ [w |-> w.code])
ForSteps(s, x) ==
    IF Failed(x.p) \/ x.p.wild \/ Failed(s.p) \/ s.p.wild THEN [x.p EXCEPT !.tok = Token("error")]
    ELSE ForTest(ForWhere(s.p, x.var), [x |-> x, s |-> s.v])
ForRange(x)    == ForSteps(ForStep(BeginBlock(x.p, "for"), x.var), x)
ParseFor(p)    == ForRange(ForVariable(EnterLocalScope(p)))

ParseGoto(p) ==
    LET to(q, l) == Gen(NextToken(l.p), "goto", l.v, 0, 0)
        named(q) == IF Failed(q) THEN q ELSE to(q, FindOrAllocLabel(q, q.tok.v))
    IN  named(ExpectId(p))

\* return: the results, and a jump to the end of the procedure.
ParseReturn(p) ==
    LET to(l)      == GenGoto(l.p, l.v)
        results(q) == to(FindOrAllocLabel(Arguments(q, VarProcScope(q), "arg_out").p, "_exit#"))
    IN  results(NextToken(p))

ParseAssert(p) ==
    LET end(e) == EndBlock(Gen(GenLabel(e, G(e).f), "assert_end", 0, 0, 0))
        put(c) == IF Failed(c.p) THEN c.p ELSE end(Gen(GenBlock(c.p, c.code), "assert", 0, 0, 0))
        if     == BeginBlock(Gen(NextToken(p), "assert_begin", 0, 0, 0), "if")
    IN  put(Aside(Condition(GenBegin(SetNot(if, TRUE)))))

-----------------------------------------------------------------------------
(* Arguments.  x is [p, args, k, idx, done, regs]: k arguments have a value, the
   values on the stack up to idx are used, the list of arguments may have ended
   (done), and regs are the values to load to registers before the call. *)

ArgsStart(p) == [p |-> p, args |-> <<>>, k |-> 0, idx |-> 0, done |-> FALSE, regs |-> <<>>]

\* A value for a register waits in a temporary variable until the call.
Waiting(x, arg, t, val) ==
    [x EXCEPT !.p = GenLet(t.p, t.v, val), !.regs = Append(@, <<arg, t.v>>)]
Passed(x, arg, val) ==
    [x EXCEPT !.p = IF V(@, val).tmp THEN GenLastResult(@, arg, val) ELSE GenLet(@, arg, val)]

ArgValue(x, arg, macro) ==
    LET given == Len(x.p.stack) > x.idx
        next(y, val) == [y EXCEPT !.idx = IF given THEN @ + 1 ELSE @, !.k = @ + 1,
                                  !.args = Append(@, val), !.p = NextIs(@, ",")]
        pass(val) == next(CASE macro -> x
                            [] ~macro /\ V(x.p, arg).reg # 0 -> Waiting(x, arg, VarNewTmp(x.p), val)
                            [] OTHER -> Passed(x, arg, val), val)
    IN  pass(IF given THEN x.p.stack[x.idx + 1] ELSE V(x.p, arg).val)

\* Another expression is parsed when the values of the last one are used.
MoreValues(x) ==
    CASE x.done \/ Len(x.p.stack) # x.idx -> x
      [] ~x.done /\ Len(x.p.stack) = x.idx /\ Is(x.p, "block_end") ->
           [x EXCEPT !.p = NextToken(@), !.done = TRUE]
      [] OTHER -> [x EXCEPT !.p = ParseExpression(@), !.idx = 0]

ArgsEnd(x) == [x EXCEPT !.p = CASE x.done -> @
                                [] ~x.done /\ Is(@, "block_end") -> NextToken(@)
                                [] OTHER -> ExitBlock(@)]

RECURSIVE EachArg(_, _, _, _)
EachArg(x, proc, as, sub) ==
    LET arg     == as[x.k + 1]
        none(y) == Len(y.p.stack) <= y.idx /\ V(y.p, arg).val = 0
        next(y) == CASE Failed(y.p) \/ (none(y) /\ sub # "arg_in") -> y
                     [] ~Failed(y.p) /\ none(y) /\ sub = "arg_in" -> [y EXCEPT !.p = SyntaxError(@)]
                     [] OTHER -> EachArg(ArgValue(y, arg, V(y.p, proc).kind = "macro"), proc, as, sub)
    IN  CASE Failed(x.p) -> x
          [] ~Failed(x.p) /\ x.k = Len(as) -> ArgsEnd(x)
          [] OTHER -> next(MoreValues(x))

LoadRegisters(p, regs) == IF Failed(p) THEN p ELSE FoldLeft(LAMBDA q, l : GenLet(q, l[1], l[2]), p, regs)

\* The stack is emptied, also when it holds operands of an expression the call is in.
ParseArgs(p, proc, sub) ==
    LET each(as, q) == IF as = <<>> THEN ArgsStart(q)
                       ELSE EachArg(ArgsStart(EnterBlock(q)), proc, as, sub)
        all(x) == [IF x.idx < Len(x.p.stack) THEN SyntaxError(x.p) ELSE x.p EXCEPT !.stack = <<>>]
        end(x) == [p |-> LoadRegisters(all(x), x.regs), args |-> x.args]
    IN  end(each(ArgsOf(p, proc, {sub}), [p EXCEPT !.stack = <<>>]))

-----------------------------------------------------------------------------
(* Types: <int> [".." <int>], a type, scope, proc and macro. *)

NoType       == [kind |-> "undefined", lo |-> 0, hi |-> 0]
IntType(a, b) == [kind |-> "int", lo |-> a, hi |-> b]

NewConstant(c, name, owner) ==
    LET put(i) == VarAllocScope(i.p, [Var(name, "const", "int", owner) EXCEPT
                                        !.val = i.v, !.lo = c.n, !.hi = c.n]).p
    IN  put(VarInt(c.p, c.n))
ConstantOf(e, n) ==
    LET c == IF e.stack = <<>> THEN 0 ELSE VarIntConst(e, Last(e.stack))
    IN  IF Failed(e) \/ c = 0 THEN [p |-> SyntaxError([e EXCEPT !.wild = @ \/ e.stack = <<>>]), n |-> n]
        ELSE [p |-> e, n |-> Known(e, c)]
ConstantValue(p, n) == IF Is(p, ":") THEN ConstantOf(ParseExpression(NextToken(p)), n)
                       ELSE [p |-> p, n |-> n + 1]

\* The constants of a type, in a block of their own; keywords are names here.
\* What is not a word ends the block.
RECURSIVE Constants(_, _, _)
Constants(p, n, owner) ==
    LET next(c, name) == Constants(NextIs(NextIs(NewConstant(c, name, owner), ","), "eol"), c.n, owner)
        named(q, name) == next(ConstantValue(ErrorIf(Is(q, "="), q), n), name)
        one(q) == CASE Is(q, "id") -> named(NextToken(q), q.tok.v)
                    [] q.tok.t \in Keywords -> named(NextToken(q), q.tok.t)
                    [] OTHER -> ExitBlock(q)
    IN  CASE Failed(p) -> p
          [] ~Failed(p) /\ Is(p, "block_end") -> NextToken(p)
          [] OTHER -> one(NextIs(p, "eol"))

ParseConstList(p) == Constants(EnterBlock(p), 0, p.scope)

\* The arguments of a procedure; those behind "->" and ">" are results.
RECURSIVE ArgList(_, _)
ArgList(p, out) ==
    LET next(q)    == NextIs(NextIs(q, ","), "eol")
        arg(q, is, sub) == IF Is(q, "id") THEN ArgList(next(Assign(q, "var", {sub}, TRUE)), is)
                           ELSE SyntaxError(q)
    IN  CASE Failed(p) -> p
          [] ~Failed(p) /\ Is(p, "block_end") -> NextToken(p)
          [] ~Failed(p) /\ out -> arg(p, TRUE, "arg_out")
          [] OTHER -> CASE Is(p, "->") -> arg(NextToken(p), TRUE, "arg_out")
                        [] Is(p, ">")  -> arg(NextToken(p), FALSE, "arg_out")
                        [] OTHER -> arg(NextIs(p, "<"), FALSE, "arg_in")

\* Registers for the arguments of a byte, as long as there are any.
AssignedAll(p, args) ==         \* mutant: the registers are not counted
    LET fits == SelectSeq(args, LAMBDA v : V(p, v).hi < 256)
    IN  FoldLeft(LAMBDA q, k : [q EXCEPT !.vars[fits[k]].reg = k], p, [k \in 1..Len(fits) |-> k])
Assigned(p, args) ==
    LET fits == SelectSeq(args, LAMBDA v : V(p, v).hi < 256)
    IN  FoldLeft(LAMBDA q, k : [q EXCEPT !.vars[fits[k]].reg = k], p,
                 [k \in 1..(IF Len(fits) < Registers THEN Len(fits) ELSE Registers) |-> k])
ProcTypeFinalize(p) ==
    IF Failed(p) THEN p
    ELSE Assigned(Assigned(p, ArgsOf(p, p.scope, {"arg_in"})), ArgsOf(p, p.scope, {"arg_out"}))

\* A range of constants: the type, or none.
ConstRange(p, min, max) ==
    IF Failed(p) \/ min = 0 \/ max = 0 \/ Known(p, min) > Known(p, max)
    THEN [p |-> SyntaxError(p), t |-> NoType]
    ELSE [p |-> p, t |-> IntType(Known(p, min), Known(p, max))]
ConstOf(p, v)     == IF VarIsIntConst(p, v) THEN VarIntConst(p, v) ELSE 0
LimitsOf(p, a, b) == ConstRange(p, ConstOf(p, a), ConstOf(p, b))
RangeTo(p, min)   == LimitsOf(p, min, IF Failed(p) THEN min ELSE Last(p.stack))
RangeOrType(p, a) ==
    CASE Is(p, "..") -> RangeTo(ExpectExpression(NextToken(p)), a)
      [] ~Is(p, "..") /\ V(p, a).mode = "type" -> [p |-> p, t |-> IntType(V(p, a).lo, V(p, a).hi)]
      [] OTHER -> LimitsOf(p, a, a)
FromFirst(p) == IF Failed(p) \/ p.stack = <<>> THEN [p |-> p, t |-> NoType]
                ELSE RangeOrType(p, Last(p.stack))

\* The constants of the type may follow.
WithConstants(r) == IF r.t = NoType THEN r ELSE [r EXCEPT !.p = ParseConstList(@)]
IntRange(p)      == WithConstants(FromFirst(ParseExpression(p)))

OfKind(p, kind) == [p |-> IF kind = "proc" THEN ProcTypeFinalize(p) ELSE p,
                    t |-> [NoType EXCEPT !.kind = kind]]
ParseType(p) ==
    CASE Is(p, "scope") -> OfKind(NextToken(p), "scope")
      [] p.tok.t \in {"proc", "macro"} ->
           OfKind(ArgList(EnterBlockWithStop(NextToken(p), "="), FALSE), p.tok.t)
      [] OTHER -> IntRange(p)

-----------------------------------------------------------------------------
(* Declarations and assignments. *)

\* A procedure with results of its own is told from one without by "out".
CodeHasSideEffects(p, scope, code) ==
    \E k \in 1..Len(code) :
       LET i == code[k]
       IN  CASE i.op = "call" -> OutVar(p, i.r)
             [] i.op = "line" -> FALSE
             [] OTHER -> i.r # 0 /\ (OutVar(p, i.r) \/ ~VarIsLocal(p, i.r, scope))

ParseMacroBody(p, proc) ==
    LET effects(q) == IF CodeHasSideEffects(q, proc, Code(q)) THEN {"out"} ELSE {}
        kept(q)    == [q EXCEPT !.vars[proc].code = Code(q), !.vars[proc].body = TRUE,
                                !.vars[proc].sub = @ \cup effects(q)]
        end(q)     == InScope(GenEnd(kept(GenLabel(q, VarFindScope(q, q.scope, "_exit#")))), p.scope)
    IN  IF V(p, proc).body THEN SyntaxError(p)
        ELSE end(ParseCommandBlock(GenBegin(InScope(p, proc))))

ReplaceVar(code, v, w) ==
    LET to(x) == IF x = v THEN w ELSE x
    IN  [k \in 1..Len(code) |-> [code[k] EXCEPT !.r = to(@), !.a = to(@), !.b = to(@)]]

\* Arguments in registers are copied to local variables when the procedure
\* starts, and from local variables when it ends.
InsertRegisterArgumentSpill(p, proc, sub) ==
    LET local(q, arg) == VarAllocScope(q, [Var("", "var", V(q, arg).kind, proc) EXCEPT
                                             !.tmp = TRUE, !.lo = V(q, arg).lo, !.hi = V(q, arg).hi])
        copied(code, arg, l) == IF sub = "arg_in" THEN <<Instr("let", l, arg, 0)>> \o code
                                ELSE Append(code, Instr("let", arg, l, 0))
        spill(t, arg) == [t.p EXCEPT !.vars[proc].code = copied(ReplaceVar(@, arg, t.v), arg, t.v)]
    IN  FoldLeft(LAMBDA q, arg : IF V(q, arg).reg = 0 THEN q ELSE spill(local(q, arg), arg),
                 p, ArgsOf(p, proc, {sub}))

ParseProcBody(p, proc) ==
    FoldLeft(LAMBDA q, sub : InsertRegisterArgumentSpill(q, proc, sub),
             ParseMacroBody(p, proc), <<"arg_in", "arg_out">>)

\* The variables before ":" or "=": [p, vars, existed, done, scope]; done after a
\* label.  New ones are not found, by the type that is parsed next, until they
\* have their mode.
Target(x, v, old, q, label) ==
    [x EXCEPT !.p = IF label THEN NextToken(GenLabel(q, v)) ELSE q,
              !.vars = Append(@, v), !.existed = @ /\ old, !.done = @ \/ label]
RECURSIVE Targets(_, _, _)
Targets(x, sub, isArg) ==
    LET p     == x.p
        scope == IF x.scope = 0 THEN p.scope ELSE x.scope
        found == CASE isArg -> 0
                   [] ~isArg /\ x.scope = 0 -> VarFind2(p, p.tok.v)
                   [] OTHER -> VarFindScope(p, x.scope, p.tok.v)
        new     == VarAllocScope(p, [Var(p.tok.v, "void", "undefined", scope) EXCEPT !.sub = sub])
        more(y) == IF Is(y.p, ",") /\ ~isArg THEN Targets([y EXCEPT !.p = NextToken(@)], sub, isArg)
                   ELSE y
        named(q, v, old) ==
            IF old /\ V(q, v).mode = "scope" /\ Is(q, ".")
            THEN Targets([x EXCEPT !.p = NextToken(q), !.scope = v], sub, isArg)
            ELSE more(Target(x, v, old, q, Is(q, "@") /\ Spaces(q)))
        named2(a, old)   == named(NextToken(a.p), a.v, old)
        found2(v)        == IF v = 0 THEN named2(new, FALSE) ELSE named2([p |-> p, v |-> v], TRUE)
    IN  IF Is(p, "id") THEN found2(found) ELSE [x EXCEPT !.p = SyntaxError(p)]

\* A type declares variables of the current scope.
Declared(x, sub) ==
    LET hides(q, v) == V(q, v).mode # "void" /\ V(q, v).scope # q.scope
        new(q, v)   == VarAllocScope(q, [Var(V(q, v).name, "void", "undefined", q.scope) EXCEPT !.sub = sub])
        hidden(acc, a) == [acc EXCEPT !.p = a.p, !.vars = Append(@, a.v), !.existed = FALSE]
    IN  FoldLeft(LAMBDA acc, v : IF hides(acc.p, v) THEN hidden(acc, new(acc.p, v))
                                 ELSE [acc EXCEPT !.vars = Append(@, v)],
                 [x EXCEPT !.vars = <<>>], x.vars)

WithDeclared(x, sub) ==
    LET isDecl == Is(x.p, ":")
    IN  [isDecl |-> isDecl] @@ (IF isDecl THEN Declared([x EXCEPT !.p = NextToken(@)], sub) ELSE x)

\* The type is parsed in the scope of the variable.
DeclaredType(x) == IF x.isDecl THEN [Type(InScope(x.p, x.vars[1])) EXCEPT !.p = InScope(@, x.p.scope)]
                   ELSE [p |-> x.p, t |-> NoType]

WithTypes(p, vars, mode, t) ==
    FoldLeft(LAMBDA q, v :
                CASE V(q, v).mode = "void" ->
                       [q EXCEPT !.vars[v].mode = IF t.kind = "scope" THEN "scope" ELSE mode,
                                 !.vars[v].kind = t.kind, !.vars[v].lo = t.lo, !.vars[v].hi = t.hi]
                  [] V(q, v).mode # "void" /\ t.kind # "undefined" -> SyntaxError(q)
                  [] OTHER -> q,
             p, vars)

\* The value of a constant: item, or what item points to.
VarLet(p, v, item) ==
    [p EXCEPT !.vars[v].val = IF V(p, item).mode \in {"int", "text"} THEN item ELSE V(p, item).val]

\* Without a type it gets that of its value, a null pointer if there is none.
ConstLet(p, v, kind) ==
    LET n == Overlaid(p, V(p, v).val)
    IN  CASE kind # "undefined" -> p
          [] kind = "undefined" /\ V(p, v).val = 0 -> [p EXCEPT !.wild = TRUE]
          [] OTHER -> [p EXCEPT !.vars[v].kind = "int", !.vars[v].lo = n, !.vars[v].hi = n]

\* Write a value to a variable; kind is that of the first variable of the values.
Stored(p, v, item, sub, kind) ==
    CASE {"param", "arg_in", "arg_out"} \cap sub # {} -> [p EXCEPT !.vars[v].val = item]
      [] {"param", "arg_in", "arg_out"} \cap sub = {} /\ V(p, v).mode = "const" ->
           ConstLet(VarLet(p, v, item), v, kind)
      [] OTHER -> IF Len(p.stack) = 1 /\ V(p, item).tmp THEN GenLastResult(p, v, item)
                  ELSE GenLet(p, v, item)

ReadOnly(p, v) == V(p, v).mode = "var" /\ InVar(p, v) /\ ~OutVar(p, v)
NotAssigned(p, v, existed) == (VarIsConst(p, v) /\ existed) \/ V(p, v).mode = "type" \/ ReadOnly(p, v)

\* The variables from the j-th on.  Each takes the next value of the expression; a
\* variable without one takes another expression, behind a comma, or what is still
\* on the stack.
RECURSIVE Values(_, _, _, _, _)
Values(p, vars, j, existed, sub) ==
    LET v       == vars[j]
        left    == Len(vars) - j + 1
        from(q, k) == Values(q, vars, k, existed, sub)
        stored(e, n) == FoldLeft(LAMBDA q, k : Stored(q, vars[j + k - 1], e.stack[k], sub, V(p, v).kind), e,
                                 [k \in 1..n |-> k])
        values(e) == CASE Failed(e) -> e
                       [] ~Failed(e) /\ Len(e.stack) > left -> SyntaxError(stored(e, left))
                       [] OTHER -> from(stored(e, Len(e.stack)),
                                        j + (IF e.stack = <<>> THEN 1 ELSE Len(e.stack)))
        expression == CASE j = 1 -> ExpectExpression(p)
                        [] j > 1 /\ Is(p, ",") -> ExpectExpression(NextToken(p))
                        [] OTHER -> p
    IN  CASE j > Len(vars) \/ Failed(p) -> p
          [] j <= Len(vars) /\ ~Failed(p) /\ NotAssigned(p, v, existed) -> SyntaxError(p)
          [] OTHER ->
               CASE V(p, v).kind = "proc"  -> from(ParseProcBody(p, v), j + 1)
                 [] V(p, v).kind = "macro" -> from(ParseMacroBody(p, v), j + 1)
                 [] V(p, v).kind = "scope" ->
                      from(InScope(ParseCommandBlock(InScope(p, v)), p.scope), j + 1)
                 [] OTHER -> values(expression)

\* The value given where the module is used wins over that of the declaration.
Parameter(p, v) ==
    LET given == {k \in 1..Len(p.open) : V(p, v).name \in DOMAIN p.open[k].values}
        last  == CHOOSE k \in given : \A l \in given : l <= k
        put(c) == [c.p EXCEPT !.vars[v].val = c.v]
    IN  CASE "param" \notin V(p, v).sub -> p
          [] "param" \in V(p, v).sub /\ given # {} -> put(VarInt(p, p.open[last].values[V(p, v).name]))
          [] OTHER -> ErrorIf(V(p, v).val = 0, p)

\* What follows the variables y.vars, and their type if they have one.
Assignment(y, sub) ==
    LET q       == y.p
        first   == y.vars[1]
        isDecl  == y.isDecl
        set     == Is(q, "=")
        isCall  == y.existed /\ ~y.done /\ ~isDecl
        kind    == IF isCall THEN V(q, first).kind ELSE "undefined"
        command == set \/ isDecl \/ y.done \/ kind \in {"proc", "macro"} \/ {"arg_in", "arg_out"} \cap sub # {}
        end(s)  == IF command \/ Failed(s) THEN s ELSE SyntaxError(s)
        with(r) == end(FoldLeft(Parameter, r, y.vars))
    IN  IF Failed(q) THEN q
        ELSE with(CASE set -> Values([NextToken(q) EXCEPT !.stack = <<>>], y.vars, 1, y.existed, sub)
                    [] ~set /\ kind = "proc"  -> ParseCall(q, first)
                    [] ~set /\ kind = "macro" -> ParseMacro(q, first)
                    [] OTHER -> q)

ParseAssign(p, mode, sub, isArg) ==
    LET local == Is(p, ".") /\ ~Spaces(p)
        start == [p |-> IF local THEN NextToken(p) ELSE p, vars |-> <<>>, existed |-> TRUE,
                  done |-> FALSE, scope |-> IF local THEN p.scope ELSE 0]
        typed(y, t) == Assignment([y EXCEPT !.p = WithTypes(t.p, y.vars, mode, t.t)], sub)
        targets(x)  == IF Failed(x.p) THEN x.p ELSE typed(x, DeclaredType(x))
    IN  targets(WithDeclared(Targets(start, sub, isArg), sub))

RECURSIVE Declarations(_, _, _), SkipEols(_)
SkipEols(p) == IF Is(p, "eol") THEN SkipEols(NextToken(p)) ELSE p
Declarations(p, mode, sub) ==
    CASE Failed(p) -> p
      [] ~Failed(p) /\ Is(p, "block_end") -> NextToken(p)
      [] OTHER -> Declarations(SkipEols(Assign(p, mode, sub, FALSE)), mode, sub)
ParseDeclarations(p, mode, sub) == Declarations(EnterBlock(p), mode, sub)

\* in [sequence] [out]
ParseIn(p) ==
    LET word(q, t) == IF Is(q, t) THEN {t} ELSE {}
        out(q, sub) == ParseDeclarations(NextIs(q, "out"), "var", {"in"} \cup sub \cup word(q, "out"))
    IN  out(NextIs(p, "sequence"), word(p, "sequence"))

-----------------------------------------------------------------------------
(* Commands and files. *)

Parse(p, name, options) ==
    LET end(q)    == SrcClose(IF ~Failed(q) /\ ~Is(q, "block_end") THEN SyntaxError(q) ELSE q)
        opened(q) == IF Len(q.open) > Len(p.open) THEN end(Commands(q)) ELSE q
    IN  opened(SrcOpen(p, name, options))

RECURSIVE UseFiles(_)
UseFiles(p) ==
    CASE Failed(p) -> p
      [] ~Failed(p) /\ Is(p, "block_end") -> NextToken(p)
      [] OTHER -> IF ~Is(p, "id") THEN SyntaxError(p)
                  ELSE UseFiles(SkipEols(NextIs(Parse(p, p.tok.v, TRUE), ",")))
ParseUse(p) == UseFiles(EnterBlock(NextToken(p)))

BlockEnds == {"block_end", "eof", "error", "outdent"}

EmptyLineStays(p) == p          \* mutant: the end of the line is not taken
EmptyLine(p) == NextToken(p)
Command(p) ==
    CASE p.tok.t \in {"param", "const"} ->
           ParseDeclarations(NextToken(p), "const", IF Is(p, "param") THEN {"param"} ELSE {})
      [] Is(p, "type")   -> ParseDeclarations(NextToken(p), "type", {})
      [] Is(p, "in")     -> ParseIn(NextToken(p))
      [] Is(p, "out")    -> ParseDeclarations(NextToken(p), "var", {"out"})
      [] Is(p, "use")    -> ParseUse(p)
      [] Is(p, "return") -> ParseReturn(p)
      [] p.tok.t \in {"id", "."} -> Assign(p, "var", {}, FALSE)
      [] Is(p, "goto")   -> ParseGoto(p)
      [] p.tok.t \in {"if", "unless"} -> IfElse(p, 0)
      [] p.tok.t \in {"for", "while", "until"} -> ParseFor(p)
      [] Is(p, "debug")  -> Gen(NextToken(p), "debug", 0, 0, 0)
      [] Is(p, "assert") -> ParseAssert(p)
      [] Is(p, "eol")    -> EmptyLine(p)
      [] OTHER           -> SyntaxError(p)

ParseCommands(p) == IF p.tok.t \in BlockEnds THEN p ELSE Commands(OneCommand(p))

Rule(name, a, p) ==
    CASE name = "exp root"  -> ParseExpRoot(p)
      [] name = "operand"   -> ParseOperand(p)
      [] name = "if"        -> ParseIf(p, a[1])
      [] name = "condition" -> ParseCondition(p)
      [] name = "block"     -> ParseBlock(p, a[1], a[2])
      [] name = "assign"    -> ParseAssign(p, a[1], a[2], a[3])
      [] name = "args"      -> ParseArgs(p, a[1], a[2])
      [] name = "type"      -> ParseType(p)
      [] name = "command"   -> Command(p)
      [] name = "commands"  -> ParseCommands(p)
=============================================================================
