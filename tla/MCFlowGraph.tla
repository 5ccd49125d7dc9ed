----------------------------- MODULE MCFlowGraph -----------------------------
(***************************************************************************)
(* Procedures for FlowGraph: the code the parser generates for statements  *)
(* (ParseIf, ParseFor and ParseReturn in src/atalan/parser.c).             *)
(***************************************************************************)
EXTENDS FlowGraph

CONSTANTS P     \* the procedure that is called

Line    == <<Instr("line", "", NoLabel)>>
Do(a)   == Line \o <<Instr("do", a, NoLabel)>>
Call    == Line \o <<Instr("call", "", P)>>
Goto(l) == <<Instr("goto", "", l)>>
At(l)   == <<Instr("label", "", l)>>
\* A branch comes after the instructions that compute its operands.
IfNot(c, l) == Do(c) \o <<Instr("ifnot", c, l)>>
If(c, l)    == Do(c) \o <<Instr("if", c, l)>>

Exit   == 99
Return == Goto(Exit)

\* Statements; n distinguishes their labels.
IfThen(c, s, n)     == IfNot(c, n) \o s \o At(n)
IfElse(c, s, t, n)  == IfNot(c, n) \o s \o Goto(n + 1) \o At(n) \o t \o At(n + 1)
While(c, s, n)      == Goto(n) \o At(n + 1) \o s \o At(n) \o IfNot(c, n + 2)
                       \o Goto(n + 1) \o At(n + 2)
For(c, s, n)        == At(n + 1) \o s \o At(n) \o If(c, n + 1) \o At(n + 2)

Simple == {<<>>, Do("a"), Call, Return, Do("b") \o Call}

Statements(c, bodies, others, n) ==
    UNION {{s, IfThen(c, s, n), While(c, s, n), For(c, s, n)} : s \in bodies}
    \cup {IfElse(c, s, t, n) : s \in bodies, t \in others}

Procedure(s) == IF Exit \in LabelsUsed(s) THEN s \o At(Exit) ELSE s

Plain(s) == [code |-> Procedure(s), interrupt |-> FALSE, opposites |-> {"p", "q"},
             entry |-> NoLabel]

\* One statement after another, and one in another: in an interrupt routine,
\* and without a rule for the opposite of the inner condition.
Sequential ==
    {Plain(s \o t) :
        s \in Statements("p", Simple, Simple, 10) \ {<<>>},
        t \in Statements("q", {Do("a"), Call}, {Do("a"), Call}, 20)}

Nested(leaves) ==
    {Plain(s) : s \in Statements("q", Statements("p", leaves, leaves, 10),
                                      Statements("p", leaves, leaves, 30), 20)}

Structured ==
    Sequential \cup Nested({Do("a"), Return})
    \cup {[s EXCEPT !.interrupt = i] : i \in BOOLEAN, s \in Nested({Do("a"), Call})}
    \cup {[s EXCEPT !.opposites = {"q"}] : s \in Nested({Call, Return})}
=============================================================================
