----------------------------- MODULE MCTypeInfer -----------------------------
(***************************************************************************)
(* Families of procedures for the type inferencer.                         *)
(***************************************************************************)
EXTENDS TypeInfer

CONSTANT Family

I(op, res, a1, a2, to, outs) == [op |-> op, res |-> res, a1 |-> a1, a2 |-> a2, to |-> to, outs |-> outs]
Op(op, res, a1, a2) == I(op, res, a1, a2, "", {})
Let(res, a)         == I("let", res, a, NoArg, "", {})
If(op, a1, a2, to)  == I(op, "", a1, a2, to, {})
Goto(to)            == I("goto", "", NoArg, NoArg, to, {})
Call(outs)          == I("call", "", NoArg, NoArg, "", outs)
B(label, instrs)    == [label |-> label, code |-> instrs]
Interv(min, max)    == [min |-> min, max |-> max]
Proc(blocks, declared) == [blocks |-> blocks, in |-> {"a"}, declared |-> declared]

In(max)  == "a" :> Interv(0, max)
a == X("a")
x == X("x")
y == X("y")
z == X("z")

i == X("i")
s == X("s")
d == X("d")
One  == Num(1)
Zero == Num(0)
Ordered == {"iflt", "ifge", "ifgt", "ifle"}

\* y = a o1 c; z = y o2 r
Straight ==
    {Proc(<<B("", <<Op(o1, "y", a, Num(c)), Op(o2, "z", y, r)>>)>>, In(3)) :
       o1 \in {"add", "sub", "div", "and", "or"}, o2 \in {"add", "sub", "xor", "or"},
       c \in {1, 2}, r \in {a, Num(3)}}

\* y is changed or not, and is read behind.
IfThen(ops) ==
    {Proc(<<B("", <<Op("add", "y", a, Num(2)), If(op, y, Num(k), "L")>>),
            B("", <<Let("y", e)>>), B("L", <<Op("add", "z", y, One)>>)>>, In(4)) :
       op \in ops, k \in {1, 3, 6, 9}, e \in {Num(3), Num(20), a}}

IfElse ==
    {Proc(<<B("", <<If(op, p[1], p[2], "E")>>),
            B("", <<Let("y", One), Goto("L")>>), B("E", <<Let("y", e)>>),
            B("L", <<Op("add", "z", y, a), If("ifgt", z, Num(3), "M")>>), B("", <<Let("z", a)>>),
            B("M", <<Let("x", z)>>)>>, In(3)) :
       op \in Ordered, p \in {<<a, Num(2)>>, <<Num(1), a>>, <<a, Num(7)>>}, e \in {Num(2), Num(9), a}}

\* The condition comes first: while i rel n, or until the opposite.
Loop(ops) ==
    {Proc(<<B("", <<Let("i", c), Goto("C")>>),
            B("L", <<Op("add", "y", i, a), Op("add", "i", i, Num(k))>>),
            B("C", <<If(op, i, Num(n), "E")>>), B("", <<Goto("L")>>),
            B("E", <<Op("add", "z", i, a)>>)>>, In(1)) :
       c \in {Zero, Num(4), a}, k \in {1, 2}, op \in ops, n \in {0, 3, 4}}

\* for i:c..n-1; the parser declares i, and it may be what ends the loop.
For ==
    {Proc(<<B("", <<Let("i", Num(c))>>),
            B("L", <<Op(o, "x", i, m), Op("add", "i", i, One), If("ifne", i, Num(n), "L")>>),
            B("", <<Op("add", "z", a, x)>>)>>, In(2) @@ "i" :> Interv(c, n)) :
       o \in {"add", "sub", "mul"}, c \in {0, 2}, m \in {One, Num(2), a}, n \in {3, 5}}

\* s is counted down, or up, at each of the steps.  What the loop ends with is
\* declared: else its type lacks the value that is behind the limit.
Count(ops) ==
    {Proc(<<B("", <<Let("s", e), Let("i", Num(c))>>),
            B("L", <<Op(o, "s", s, m), Op("add", "i", i, One), If("ifne", i, Num(n), "L")>>),
            B("", <<Op("add", "z", a, s)>>)>>, In(2) @@ "i" :> Interv(c, n) @@ "s" :> Interv(0, 30)) :
       o \in ops, c \in {0, 2}, e \in {Num(10), Num(15)}, m \in {One, Num(2), a}, n \in {3, 5}}

\* d is what a procedure has returned.
Calls ==
    {Proc(<<B("", <<Let("y", One), Call({"d"}), Op("add", "y", d, y), If(op, y, Num(k), "L")>>),
            B("", <<Let("z", d)>>), B("L", <<Let("x", d)>>)>>, In(1) @@ "d" :> Interv(0, 2)) :
       op \in Branches, k \in {0, 2, 5}}

\* z is assigned on one of the ways only, or behind where it is read.  What is
\* computed from it has no declared type: there is no warning then.
Uninit ==
    {Proc(<<B("", <<If(op, a, Num(k), "L")>>),
            B("", <<Let("z", One)>>), B("L", <<Op("add", "x", z, a), Op("add", "y", z, x)>>)>>, In(2)) :
       op \in Ordered, k \in {0, 2, 5}}
    \cup {Proc(<<B("", <<Let("y", Num(c)), If(op, p[1], p[2], "L")>>), B("", <<Let("x", One)>>),
                 B("L", <<Let("x", y), Let("z", x)>>)>>, In(2)) :
            c \in {0, 3}, op \in Ordered, p \in {<<z, a>>, <<a, x>>}}

\* d has a declared range; in the second kind y is assigned behind only, and what
\* is left for it to be is found from d.
DeclaredVar ==
    {Proc(<<B("", <<Op("add", "d", a, Num(k)), Op("mul", "x", d, Num(3)), If(op, x, d, "L")>>),
            B("", <<Op("sub", "d", d, One)>>), B("L", <<Op("add", "y", d, a)>>)>>,
          In(4) @@ "d" :> Interv(0, 5)) :
       op \in Ordered, k \in {0, 2, 5}}
Backwards ==
    {Proc(<<B("", <<Op(o, "x", y, a), Op("add", "d", x, Num(k)), If(op, d, Num(2), "L")>>),
            B("", <<Let("d", a)>>), B("L", <<Op("add", "z", d, One), Let("y", z)>>)>>,
          In(4) @@ "d" :> Interv(0, 5)) :
       o \in {"add", "mul"}, op \in Ordered, k \in {0, 2}}

MCProcedures ==
    CASE Family = "plain" -> Straight \cup IfThen(Branches \ {"ifeq"}) \cup IfElse \cup Loop({"ifge", "ifgt"})
                             \cup For \cup Count({"sub"}) \cup Calls \cup Uninit \cup DeclaredVar \cup Backwards
      [] Family = "join"  -> IfThen({"ifeq"})
=============================================================================
