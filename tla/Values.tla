-------------------------------- MODULE Values --------------------------------
(***************************************************************************)
(* OptimizeValues and OptimizeVarMerge (src/atalan/opt_values.c): what is  *)
(* known of the values of variables inside a block, the instructions this  *)
(* makes superfluous or cheaper, and the merging of a copy with the        *)
(* instruction that computed its source.                                   *)
(*                                                                         *)
(* dep is the expression a variable is known to be equal to.  Each node    *)
(* has the instruction that built it in by: nodes that are built apart     *)
(* differ although they look the same.                                     *)
(***************************************************************************)
EXTENDS ProcCode

VARIABLES dep           \* dep of each variable: an expression, or NoExp

NoExp == [op |-> "none"]
VarNode(v, by)        == [op |-> "var", var |-> v, by |-> by]
OpNode(op, e1, e2, by) == [op |-> op, arg |-> <<e1, e2>>, by |-> by]

IsConst(a) == a \notin Variable

\* The expressions that are nested at most n times, and all that are used.
Nested[n \in Nat] ==
    {NoExp} \cup [op : {"var"}, var : Operands, by : Nat \X STRING]
            \cup IF n = 0 THEN {}
                 ELSE [op : STRING, arg : [1..2 -> Nested[n - 1]], by : Nat \X STRING]
MaxNest == 100      \* each instruction of a block adds one level
Exp     == Nested[MaxNest]

\* ExpUsesValue
UsesValue(e, v) ==
    LET uses[f \in Exp] ==
          CASE f.op = "none" -> FALSE
            [] f.op = "var"  -> f.var = v
            [] OTHER         -> uses[f.arg[1]] \/ uses[f.arg[2]]
    IN  uses[e]

\* ExpArg and ExpInstr: the expression for the result of an instruction.
ExpArg(d, a, by) == IF IsConst(a) \/ d[a] = NoExp THEN VarNode(a, by) ELSE d[a]
ExpInstr(d, i) ==
    IF i.op = "let" THEN ExpArg(d, i.a1, <<i.id, "source">>)
    ELSE OpNode(i.op, ExpArg(d, i.a1, <<i.id, "left">>),
                      ExpArg(d, i.a2, <<i.id, "right">>), <<i.id, "exp">>)

DepOf(d, a) == IF IsConst(a) THEN NoExp ELSE d[a]

(***************************************************************************)
(* ExpEquivalent.  Expressions that are being compared already are in busy *)
(* (FlagExpProcessed).                                                     *)
(***************************************************************************)
Equivalent(d, e1, e2) ==
    LET eq[f1 \in Exp, f2 \in Exp, busy \in SUBSET Exp] ==
          LET In(g1, g2) == eq[g1, g2, busy \cup {f1, f2}] IN
          /\ NoExp \notin {f1, f2}
          /\ \/ f1 = f2
             \/ /\ {f1, f2} \cap busy = {}
                /\ f1.op = f2.op
                /\ IF f1.op = "var"
                   THEN /\ f1.var \notin InVars
                        /\ \/ f1.var = f2.var
                           \/ DepOf(d, f1.var).op = "var" /\ DepOf(d, f1.var).var = f2.var
                           \/ In(DepOf(d, f1.var), DepOf(d, f2.var))
                   ELSE In(f1.arg[1], f2.arg[1]) /\ In(f1.arg[2], f2.arg[2])
    IN  eq[e1, e2, {}]

(***************************************************************************)
(* VarIsOffset: the difference of two operands, or Unknown.                *)
(***************************************************************************)
Unknown  == [known |-> FALSE, diff |-> 0]
Known(n) == [known |-> TRUE, diff |-> n]
Minus(o, n) == IF o.known THEN Known(o.diff - n) ELSE Unknown
Negated(o)  == IF o.known THEN Known(-o.diff) ELSE Unknown

\* VarIsOffset3, where of tells how an expression differs from an operand.
Offset(of, d, l, r, busy) ==
    LET ldep == DepOf(d, l)
        rdep == DepOf(d, r)
        left == IF ldep = NoExp THEN Unknown ELSE of[ldep, r, busy]
    IN  CASE l = r -> Known(0)
          [] l # r /\ IsConst(l) /\ IsConst(r) -> Known(r - l)
          [] l # r /\ ~(IsConst(l) /\ IsConst(r)) /\ ldep = rdep /\ ldep # NoExp -> Known(0)
          [] OTHER -> IF left.known \/ rdep = NoExp THEN left
                      ELSE Negated(of[rdep, l, busy])

ExpOffset(d) ==
    LET of[e \in Exp, r \in Operands, busy \in SUBSET Exp] ==
          CASE e \in busy -> Unknown
            [] e \notin busy /\ e.op = "var" -> Offset(of, d, e.var, r, busy \cup {e})
            [] e \notin busy /\ e.op \in {"add", "sub"} /\ e.arg[2].op = "var" /\ IsConst(e.arg[2].var) ->
                  Minus(of[e.arg[1], r, busy \cup {e}],
                        IF e.op = "add" THEN e.arg[2].var ELSE -e.arg[2].var)
            [] OTHER -> Unknown
    IN  of

VarIsOffset(d, l, r) == Offset(ExpOffset(d), d, l, r, {})

-----------------------------------------------------------------------------
(***************************************************************************)
(* ResetValue and ResetVarDep: v is given another value.                   *)
(***************************************************************************)
ResetOne(b, s, v, w) ==
    IF s[w] = NoInstr THEN s
    ELSE LET i      == Pointed(b, s[w])
             source == IF s[v] # NoInstr /\ Uses(Pointed(b, s[v]), v) THEN NoInstr ELSE s[v]
         IN  CASE i.op = "let" /\ i.a1 = v                   -> [s EXCEPT ![i.res] = source]
               [] i.op = "let" /\ i.a1 # v /\ Uses(i, v)     -> [s EXCEPT ![w] = NoInstr]
               [] i.op # "let" /\ v \in Args(i)              -> [s EXCEPT ![w] = NoInstr]
               [] OTHER                                      -> s

ResetValue(b, s, v) ==
    LET reset[n \in Nat] == IF n = 0 THEN s ELSE ResetOne(b, reset[n - 1], v, Vars[n])
    IN  [reset[Len(Vars)] EXCEPT ![v] = NoInstr]

ResetVarDep(d, v) == [w \in Variable |-> IF UsesValue(d[w], v) THEN NoExp ELSE d[w]]

\* ProcValuesUse: everything the code of a procedure writes.
ProcValuesUse(b, s) ==
    LET reset[n \in Nat] ==
          IF n = 0 THEN s
          ELSE IF Vars[n] \in proc.callee.seen THEN ResetValue(b, reset[n - 1], Vars[n])
          ELSE reset[n - 1]
    IN  reset[Len(Vars)]
ProcDepUse(d) ==
    [w \in Variable |-> IF w \in proc.callee.seen \/ \E v \in proc.callee.seen : UsesValue(d[w], v)
                        THEN NoExp ELSE d[w]]

-----------------------------------------------------------------------------
(***************************************************************************)
(* What OptimizeValues makes of an instruction.                            *)
(***************************************************************************)
SourceInstr(b, s, a) ==
    IF IsConst(a) \/ s[a] = NoInstr THEN Instr(NoInstr, "none", NoVar, NoVar, NoVar)
    ELSE Pointed(b, s[a])

\* SrcVar: the start of a chain of assignments, each of another instruction of the block.
SrcVar(b, s, a) ==
    LET from[n \in Nat] ==
          IF n = 0 THEN a
          ELSE LET v == from[n - 1] IN
               IF v \notin InVars /\ SourceInstr(b, s, v).op = "let"
               THEN SourceInstr(b, s, v).a1 ELSE v
    IN  from[Len(code[b])]

\* InstrEvalAlgebraic, for the operations there are.
Evaluated(op, a1, a2) ==
    CASE op = "add" /\ a1 = 0                                  -> a2
      [] op \in {"add", "sub"} /\ ~(op = "add" /\ a1 = 0) /\ a2 = 0 -> a1
      [] op = "add" /\ IsConst(a1) /\ IsConst(a2) /\ a1 # 0 /\ a2 # 0 -> a1 + a2
      [] op = "sub" /\ IsConst(a1) /\ IsConst(a2) /\ a2 # 0    -> a1 - a2
      [] OTHER                                                 -> NoVar

\* The instruction repeats what its result is known to be.
Repeats(d, i) ==
    /\ i.res \notin {i.a1, i.a2} \cup OutVars
    /\ i.a1 \notin InVars
    /\ Equivalent(d, d[i.res], ExpInstr(d, i))

\* Replace assignment with increment.
IncrementedAlways(d, i) ==  \* mutant: whatever it costs
    LET o == VarIsOffset(d, i.res, i.a1)
        j == Instr(i.id, "add", i.res, i.res, o.diff)
    IN  IF i.op = "let" /\ o.known /\ HasRule(j) THEN j ELSE i

Incremented(d, i) ==
    LET o == VarIsOffset(d, i.res, i.a1)
        j == Instr(i.id, IF o.diff < 0 THEN "sub" ELSE "add", i.res, i.res,
                   IF o.diff < 0 THEN -o.diff ELSE o.diff)
    IN  IF i.op = "let" /\ o.known /\ HasRule(j) /\ Rules[Form(j)] <= Rules[Form(i)]
        THEN j ELSE i

\* An argument is replaced by what was assigned to it.
Replacement(b, s, a) ==
    LET i == SourceInstr(b, s, a) IN
    IF /\ a \notin InVars
       /\ i.op = "let" /\ i.a1 \notin InVars
       /\ a \in Registers => i.a1 \in Registers
    THEN i.a1 ELSE a
Replaced(b, s, i) ==
    Instr(i.id, i.op, i.res, Replacement(b, s, i.a1), Replacement(b, s, i.a2))

\* Const evaluation.
Folded(b, s, i) ==
    LET r == Evaluated(i.op, SrcVar(b, s, i.a1), SrcVar(b, s, i.a2))
        j == Instr(i.id, "let", i.res, r, NoVar)
    IN  IF r # NoVar /\ (r = i.res \/ HasRule(j)) THEN j ELSE i

\* Use value already in register: the first that holds it.
HoldingAny(d, i) ==         \* mutant: without asking for an instruction of the form
    {n \in 1..Len(Vars) : Vars[n] \in Registers \ {i.a1} /\ VarIsOffset(d, Vars[n], i.a1) = Known(0)}
Holding(d, i) ==
    {n \in 1..Len(Vars) :
        /\ Vars[n] \in Registers \ {i.a1}
        /\ VarIsOffset(d, Vars[n], i.a1) = Known(0)
        /\ HasRule([i EXCEPT !.a1 = Vars[n]])}
Reused(d, i) ==
    IF i.a1 \in Registers \cup InVars \/ Holding(d, i) = {} THEN i
    ELSE [i EXCEPT !.a1 = Vars[CHOOSE n \in Holding(d, i) : \A m \in Holding(d, i) : n <= m]]

\* VarSetSrcInstr2 and Dependency.
ChainStart(b, s, i) ==
    LET from[n \in Nat] ==
          IF n = 0 THEN i
          ELSE LET j == from[n - 1] IN
               IF j.op = "let" /\ SourceInstr(b, s, j.a1).op # "none"
               THEN SourceInstr(b, s, j.a1) ELSE j
    IN  from[Len(code[b])]

Dependency(d, i) ==
    LET e    == ExpInstr(d, i)
        with == [d EXCEPT ![i.res] = e]
    IN  IF i.op = "let" /\ ~IsConst(i.a1) /\ with[i.a1] = NoExp
        THEN [with EXCEPT ![i.a1] = VarNode(i.res, <<i.id, "back">>)] ELSE with

-----------------------------------------------------------------------------
(***************************************************************************)
(* The steps of OptimizeValues at block b: before it, and at its           *)
(* instruction k.  The next instruction is to be k', the block over if     *)
(* that is Leave.                                                          *)
(***************************************************************************)
ValuesBegin ==
    /\ src' = [v \in Variable |-> NoInstr]
    /\ dep' = [v \in Variable |-> NoExp]
    /\ UNCHANGED code

ValuesPass(b, k) ==
    /\ code[b][k].op = "if"
    /\ UNCHANGED <<code, src, dep>>

ValuesCall(b, k) ==
    /\ code[b][k].op = "call"
    /\ src' = ProcValuesUse(b, src)
    /\ dep' = ProcDepUse(dep)
    /\ UNCHANGED code

Assigns(b, k) == code[b][k].op \notin {"if", "call"}

RemoveRepeated(b, k) ==
    /\ Assigns(b, k)
    /\ Repeats(dep, code[b][k])
    /\ code' = [code EXCEPT ![b] = RemoveAt(@, k)]
    /\ UNCHANGED <<src, dep>>

\* An instruction that sets its result to another value, with what was known
\* of that value forgotten.
Changing(b, k) == Assigns(b, k) /\ ~Repeats(dep, code[b][k])
Entered(b, k)  == Incremented(dep, code[b][k])
SrcNow(b, k)   == ResetValue(b, src, code[b][k].res)
DepNow(b, k)   == ResetVarDep(dep, code[b][k].res)

SelfCopy(i) == i.op = "let" /\ i.a1 = i.res

RemoveCopy(b, k) ==
    /\ Changing(b, k)
    /\ LET i == Entered(b, k)
           r == Replaced(b, SrcNow(b, k), i)
       IN  \/ SelfCopy(r)
           \/ /\ r = i \/ ~HasRule(r)
              /\ SelfCopy(Folded(b, SrcNow(b, k), i))
    /\ code' = [code EXCEPT ![b] = RemoveAt(@, k)]
    /\ src' = SrcNow(b, k)
    /\ dep' = DepNow(b, k)

ReplaceArgs(b, k) ==
    /\ Changing(b, k)
    /\ LET r == Replaced(b, SrcNow(b, k), Entered(b, k)) IN
       /\ ~SelfCopy(r)
       /\ r # Entered(b, k) /\ HasRule(r)
       /\ code' = [code EXCEPT ![b][k] = r]
    /\ src' = SrcNow(b, k)
    /\ dep' = DepNow(b, k)

Evaluate(b, k) ==
    /\ Changing(b, k)
    /\ LET i == Entered(b, k)
           r == Replaced(b, SrcNow(b, k), i)
           f == Folded(b, SrcNow(b, k), i)
           j == Reused(DepNow(b, k), f)
       IN  /\ ~SelfCopy(r) /\ ~SelfCopy(f)
           /\ r = i \/ ~HasRule(r)
           /\ code' = [code EXCEPT ![b][k] = j]
           /\ src' = [SrcNow(b, k) EXCEPT ![j.res] = ChainStart(b, SrcNow(b, k), j).id]
           /\ dep' = Dependency(DepNow(b, k), j)

-----------------------------------------------------------------------------
(***************************************************************************)
(* OptimizeVarMerge at instruction k of block b: instead of copying a1,    *)
(* which is not used again, to res, res is computed in the first place.    *)
(***************************************************************************)
With(i, v, w) ==
    LET New(a) == IF a = v THEN w ELSE a IN
    Instr(i.id, i.op, New(i.res), New(i.a1), New(i.a2))

Computes(i, v) == i.res = v /\ v \notin Args(i)

\* The search backwards ends at an instruction that cannot be merged with,
\* the one that computes a1, a call, or a use of res.
EndsSearch(i, v, w) ==
    \/ Uses(i, v) /\ ~HasRule(With(i, v, w))
    \/ Computes(i, v)
    \/ i.op = "call"
    \/ Uses(i, w)

SearchEnd(b, k) ==
    LET i    == code[b][k]
        ends == {j \in 1..(k - 1) : EndsSearch(code[b][j], i.a1, i.res)}
    IN  IF ends = {} THEN 0 ELSE CHOOSE j \in ends : \A m \in ends : m <= j

MergesAt(b, k, unused) ==
    LET i == code[b][k]
        j == SearchEnd(b, k)
    IN  /\ i.op = "let" /\ i.res \notin OutVars
        /\ i.a1 \in Variable /\ unused
        /\ j # 0
        /\ Computes(code[b][j], i.a1) /\ HasRule(With(code[b][j], i.a1, i.res))

MergeCopy(b, k) ==
    LET i == code[b][k] IN
    code' = [code EXCEPT ![b] =
                RemoveAt([m \in 1..Len(@) |->
                            IF m \in SearchEnd(b, k)..(k - 1) THEN With(@[m], i.a1, i.res) ELSE @[m]],
                         k)]
=============================================================================
