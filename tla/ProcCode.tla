------------------------------- MODULE ProcCode -------------------------------
(***************************************************************************)
(* The code of a procedure after translation to instructions of the        *)
(* processor, in the blocks of its flow graph, and what running it does.   *)
(*                                                                         *)
(* An instruction is [id, op, res, a1, a2]; id tells apart instructions    *)
(* that look the same, as their address does in the compiler.  The flags   *)
(* of the processor are one register that "cmp" sets and "if" reads.       *)
(* Values are numbers below Size, and a constant operand is a number.      *)
(***************************************************************************)
EXTENDS Integers, Sequences, SequencesExt, FiniteSets

CONSTANTS Vars,         \* variables and registers, in the order of the compiler's list
          Registers,    \* those that are registers (SUBMODE_REG)
          InVars,       \* hardware read through a variable (SUBMODE_IN)
          OutVars,      \* hardware written through a variable (SUBMODE_OUT)
          Kind,         \* what the processor distinguishes variables by
          NoVar,        \* no operand
          Rules,        \* cycles of each form of instruction there is a rule for
          Size,
          Fresh,        \* values that calls and hardware leave behind
          Procedures    \* the procedures compiled

MaxInstrs == 10     \* no block has as many, so that ids differ

Variable == ToSet(Vars)
Operands == Variable \cup Int \cup {NoVar}
NoBlock  == 0
NoInstr  == 0

\* InstrRule2: whether there is an instruction of this form, and its cycles.
KindOf(a) == CASE a \in Variable -> Kind[a]
               [] a = NoVar      -> "none"
               [] a = 1          -> "one"
               [] OTHER          -> "number"
Form(i)    == <<i.op, KindOf(i.res), KindOf(i.a1), KindOf(i.a2)>>
HasRule(i) == Form(i) \in DOMAIN Rules

\* What an instruction that assigns to a variable is to be: one the processor has.
Allowed(i) == i.op \notin {"if", "call"} => i.res \in Variable /\ HasRule(i)

(***************************************************************************)
(* A procedure: the instructions of its blocks, where each block leads to  *)
(* and where a branch at its end does (NoBlock to return), the variables   *)
(* VarIsLocal holds of, its output arguments, the variables whose value    *)
(* matters after it, the procedure it calls and the values it starts with. *)
(* Of the procedure called: its input and output arguments and other       *)
(* variables, what it reads, what it writes, and the part of this that     *)
(* stands in its code other than behind a jump to another procedure.       *)
(***************************************************************************)
ASSUME ProcCodeAssumption ==
    /\ Vars \in Seq(ToSet(Vars)) /\ IsInjective(Vars) /\ NoVar \notin ToSet(Vars)
    /\ Registers \cup InVars \cup OutVars \subseteq ToSet(Vars)
    /\ Size \in Nat \ {0} /\ Fresh \subseteq 0..(Size - 1)
    /\ \A p \in Procedures :
          /\ p.code \in Seq(Seq([op : STRING, res : Variable \cup {NoVar},
                                  a1 : Operands, a2 : Operands]))
          /\ Len(p.code) = Len(p.to) /\ Len(p.code) = Len(p.condTo)
          /\ \A b \in 1..Len(p.code) :
                /\ Len(p.code[b]) < MaxInstrs
                /\ \A i \in ToSet(p.code[b]) : Allowed(i)
                /\ {p.to[b], p.condTo[b]} \subseteq 0..Len(p.code)
          /\ p.callee.ins \cup p.callee.seen \subseteq Variable
          /\ p.start \in [Variable -> 0..(Size - 1)]

VARIABLES proc,         \* the procedure as it was written
          code,         \* its blocks as they are now
          src           \* src_i of each variable: the id of an instruction

Instr(id, op, res, a1, a2) == [id |-> id, op |-> op, res |-> res, a1 |-> a1, a2 |-> a2]

Block == 1..Len(code)
Args(i) == {i.a1, i.a2} \cap Variable

\* InstrUsesVar
Uses(i, v) == v \in {i.res, i.a1, i.a2}

\* The instruction of a block with the given id, which src_i points to.
Pointed(b, id) == CHOOSE i \in ToSet(code[b]) : i.id = id

Numbered(p) ==
    [b \in 1..Len(p.code) |->
        [k \in 1..Len(p.code[b]) |->
            LET i == p.code[b][k] IN Instr(MaxInstrs * b + k, i.op, i.res, i.a1, i.a2)]]

CodeInit ==
    /\ proc \in Procedures
    /\ code = Numbered(proc)
    /\ src = [v \in Variable |-> NoInstr]

-----------------------------------------------------------------------------
(***************************************************************************)
(* Running code c.  What can be observed of a run: which way it branches,  *)
(* what it reads from and writes to hardware, with which values it calls,  *)
(* and with which values it returns.                                       *)
(***************************************************************************)
Written == Numbered(proc)

Operand(val, a) == IF a \in Variable THEN val[a] ELSE a % Size

Computed(val, i) ==
    LET x == Operand(val, i.a1) IN
    CASE i.op = "let" -> x
      [] i.op = "add" -> (x + Operand(val, i.a2)) % Size
      [] i.op = "sub" -> (x - Operand(val, i.a2)) % Size
      [] i.op = "cmp" -> IF x = Operand(val, i.a2) THEN 1 ELSE 0

Event(what, values, changes, state) ==
    [what |-> what, values |-> values, changes |-> changes, state |-> state]
State(b, k, val) == [block |-> b, at |-> k, val |-> val]

\* The event at instruction i of block b, for the valuation val.
EventAt(i, b, k, val) ==
    CASE i.op = "if" ->
             IF val[i.a1] = i.a2
             THEN Event("taken", <<>>, {}, State(proc.condTo[b], 1, val))
             ELSE Event("not taken", <<>>, {}, State(b, k + 1, val))
      [] i.op = "call" ->
             Event("call", Restrict(val, proc.callee.reads), proc.callee.writes, State(b, k + 1, val))
      [] i.op \notin {"if", "call"} /\ Args(i) \cap InVars # {} ->
             Event("in", [v \in Args(i) \cap InVars |-> i.id], Args(i) \cap InVars,
                   State(b, k + 1, [val EXCEPT ![i.res] = Computed(val, i)]))
      [] OTHER ->
             Event("out", [v \in {i.res} |-> Computed(val, i)], {},
                   State(b, k + 1, [val EXCEPT ![i.res] = Computed(val, i)]))

Observed(i) == \/ i.op \in {"if", "call"}
               \/ Args(i) \cap InVars # {}
               \/ i.res \in OutVars

\* The instructions up to the next one that is observed, or to the end of the block.
Advance(c, s) ==
    IF s.block = NoBlock THEN s
    ELSE LET stops == {k \in s.at..Len(c[s.block]) : Observed(c[s.block][k])}
             stop  == IF stops = {} THEN Len(c[s.block]) + 1
                      ELSE CHOOSE k \in stops : \A m \in stops : k <= m
             val   == FoldLeft(LAMBDA v, i : [v EXCEPT ![i.res] = Computed(v, i)],
                               s.val, SubSeq(c[s.block], s.at, stop - 1))
         IN  IF stops = {} THEN State(proc.to[s.block], 1, val) ELSE State(s.block, stop, val)

\* A loop has a branch: the next event is at most as many blocks away as there are.
NextEvent(c, s) ==
    LET t == FoldLeft(LAMBDA u, b : Advance(c, u), s, [b \in 1..(Len(c) + 1) |-> b])
    IN  IF t.block = NoBlock
        THEN Event("return", Restrict(t.val, proc.results), {}, t)
        ELSE EventAt(c[t.block][t.at], t.block, t.at, t.val)

\* What a call and the hardware leave in the variables they change.
Left(s, fresh) ==
    [s EXCEPT !.val = [v \in Variable |-> IF v \in DOMAIN fresh THEN fresh[v] ELSE @[v]]]
=============================================================================
