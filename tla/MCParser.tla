------------------------------ MODULE MCParser ------------------------------
(***************************************************************************)
(* Families of programs for the parser.                                    *)
(***************************************************************************)
EXTENDS ParsedProgram, Source


MCModules == "m" :> <<Param("K", N(2)), Decl("i", 0, 255), Use("n"), Let("z", Bin("+", Bin("*", X("K"), N(10)), X("j")))>>
             @@ "n" :> <<Use("k"), Let("j", Bin("+", X("z"), N(1)))>>
             @@ "k" :> <<Param("L", N(7)), Let("z", Bin("+", X("L"), X("x")))>>
MCFiles == LET dir == "m" :> "project" @@ "n" :> "module" @@ "k" :> "platform"
           IN  [f \in {<<dir[m], m>> : m \in DOMAIN dir} |-> Text(MCModules[f[2]], "indent")]
MCInitial == {0, 1, 2, 5}
MCFuel == 400
MCRegisters == 2
MCAddress(v) == 4096 + 32 * v

Locals == {"i", "j", "n", "a", "b", "c", "r", "s", "t", "K", "L"}

\* What the manual says the program leaves in its variables.
MCMeant(pr, store) ==
    LET m == [v \in Locals |-> Garbage] @@ store
        s == Meaning(pr.source, [m |-> m, mod |-> [v \in DOMAIN m |-> 0], procs |-> <<>>,
                                 proc |-> "", used |-> {}, given |-> <<>>, end |-> ""])
    IN  [values |-> [v \in DOMAIN store |-> s.m[v]], end |-> s.end]

Program(source, names, layout) ==
    [text |-> Text(source, layout), source |-> source, names |-> names, legal |-> TRUE]

Bytes(vs) == [k \in 1..Len(vs) |-> Decl(vs[k], 0, 255)]

-----------------------------------------------------------------------------
(* Expressions: every tree of three operators from each priority. *)

Leaves == {X("x"), N(3)}
TreesOf(ops) == LET two == {Bin(o, l, X("y")) : o \in ops, l \in Leaves}
                IN  {Bin(o, t, r) : o \in ops, t \in two, r \in Leaves}
                    \cup {Bin(o, l, t) : o \in ops, t \in two, l \in Leaves}
\* Bits of negative numbers are not defined.
Trees == TreesOf({"+", "-", "*"}) \cup TreesOf({"+", "bitand", "bitor"})
Expressions ==
    {Program(Bytes(<<"x", "y">>) \o <<Let("z", t), Let("x", t)>>, {"x", "y", "z"}, "indent") : t \in Trees}

-----------------------------------------------------------------------------
(* Conditions, in statements of every layout. *)

One   == {Eq("x", 1), Rel(<<"<=">>, <<X("x"), X("y")>>)}
Chain == {Rel(<<"<=", "<">>, <<N(1), X("x"), X("y")>>)}
Other == {Rel(<<"<">>, <<N(2), X("y")>>), Rel(<<">">>, <<Bin("+", X("x"), X("y")), N(3)>>)}
Pairs(A, B) == {And(<<a, b>>) : a \in A, b \in B} \cup {Or(<<a, b>>) : a \in A, b \in B}
Negated == One \cup Pairs(One, Other)
\* Neither negated are chains of relations nor AND together with OR, and the last
\* part of AND is not in parentheses: there the code is not what is meant.
Conditions ==
    Negated \cup Chain \cup Pairs(Chain, Other)
    \cup {Not(c) : c \in Negated} \cup {Not(Not(c)) : c \in Chain}
    \cup {And(<<c, Eq("x", 0)>>) : c \in Pairs(One, Other)}
    \cup {Or(<<c, Eq("x", 0)>>) : c \in Pairs(Chain, Other)}
    \cup {Or(<<Eq("x", 0), c>>) : c \in Pairs(One, Chain)}

Plus(v, n) == Let(v, Bin("+", X(v), N(n)))
Branching(c) ==
    { <<If(c, <<Let("y", N(9))>>, <<>>), Let("z", N(1))>>,
      <<If(Eq("x", 5), <<Let("x", N(0))>>,
           <<If(c, <<Let("x", N(3))>>, <<Let("y", X("x")), Plus("y", 1)>>)>>), Let("z", X("x"))>>,
      <<While(And(<<c, Rel(<<"<">>, <<X("x"), N(4)>>)>>), <<Plus("x", 1)>>), Let("z", X("x"))>> }
BranchingNot(c) ==
    { <<Unless(c, <<Let("y", N(9)), Let("x", N(8))>>, <<Let("y", N(7))>>)>>,
      <<Until(c, <<If(Rel(<<">">>, <<X("x"), N(7)>>), <<Let("x", N(1)), Let("y", N(3))>>, <<Plus("x", 1)>>)>>)>>,
      <<Check(c), Let("x", N(4))>> }
XYZ == Bytes(<<"x", "y", "z">>)
Branchings == {XYZ \o b : b \in UNION {Branching(c) : c \in Conditions}
                                \cup UNION {BranchingNot(c) : c \in Negated}}
InLayouts(bs, ls) == {Program(b, {"x", "y", "z"}, l) : b \in bs, l \in ls}
InAllLayouts(bs)  == InLayouts(bs, Layouts)

-----------------------------------------------------------------------------
(* Loops over every limit near the ends of a byte and of two. *)

Sum == Let("z", Bin("+", X("z"), X("i")))
Ranges == { <<N(0), N(3)>>, <<N(2), N(2)>>, <<N(250), N(255)>>, <<N(253), N(254)>>,
            <<N(255), N(257)>>, <<N(1), Bin("+", N(2), N(3))>> }
Steps == {1, 2, 3, 255, 256}
\* The first turn is always taken, and where has no OR: its code is wrong.
Loops ==
    {<<For("i", r[1], r[2], <<Sum>>)>> : r \in Ranges}
    \cup {<<ForBy("i", r[1], r[2], N(by), <<Sum>>)>> : r \in Ranges, by \in Steps}
    \cup {<<Let("n", Bin("+", X("x"), N(k))), For("i", X("x"), X("n"), <<Sum>>)>> : k \in 0..2}
    \cup {<<Let("n", N(7)), ForBy("i", X("x"), X("n"), N(2), <<Sum>>)>>}
    \cup {<<For("i", N(0), N(3), <<For("j", N(1), N(2), <<Let("z", Bin("+", X("z"), Bin("*", X("i"), X("j"))))>>)>>)>>}
    \cup {<<ForIf("i", N(1), N(6), <<k[1], k[2]>>, <<c, d>>, <<Sum>>)>> :
            k \in {<<"where", "while">>, <<"where", "until">>},
            c \in {Rel(<<"<>">>, <<X("i"), X("x")>>), And(<<Eq("x", 1), Rel(<<">">>, <<X("i"), N(3)>>)>>)},
            d \in {Rel(<<"<">>, <<X("z"), X("y")>>), Eq("i", 5)}}
    \cup {<<ForIf("i", N(1), N(6), <<k>>, <<c>>, <<Sum, If(Eq("i", 4), <<Plus("x", 1)>>, <<>>)>>)>> :
            k \in {"where", "while", "until"},
            c \in {And(<<Rel(<<"<">>, <<X("i"), N(5)>>), Rel(<<"<>">>, <<X("i"), X("x")>>)>>)}}
LoopPrograms == InAllLayouts({<<Decl("x", 0, 255), Decl("y", 0, 255), Let("z", N(0))>> \o l : l \in Loops})

-----------------------------------------------------------------------------
(* Procedures, macros, and their arguments.  Several variables for one value
   take a constant or a variable: what an operation computes gets to the last
   one only (x,y = z+1).  No call is within parentheses in an argument: the
   comma behind it would make a pair.  *)

Twice  == Proc("f", <<"a", "b">>, <<"r">>, <<N(255), N(9)>> \o <<N(255)>>,
               <<Let("r", Bin("+", X("a"), Bin("*", X("b"), N(2))))>>)
SumDiv(b) == Proc("g", <<"c", "t">>, <<"s", "n">>, <<N(65535), N(255), N(65535), N(255)>>, b)
Bodies2 == { <<Let("s", Bin("+", X("c"), X("t"))), Let("n", Bin("-", X("c"), X("t")))>>,
             <<Return(<<Bin("+", X("c"), N(1)), X("t")>>)>>,
             <<If(Rel(<<">">>, <<X("c"), X("t")>>), <<Return(<<X("c"), X("t")>>)>>, <<>>), Let("s", X("t")), Let("n", X("c"))>>,
             <<Let("s", FCall("f", <<X("t"), N(1)>>)), Let("n", X("c"))>>,
             <<For("i", N(1), N(2), <<Let("s", X("i")), Let("n", Bin("+", X("i"), X("t")))>>)>> }
Three == Proc("h", <<"a", "b", "t">>, <<"s">>, <<N(255), N(255), N(255), N(255)>>,
              <<Let("s", Bin("-", X("a"), Bin("*", X("b"), X("t"))))>>)
Uses == { <<Three, Let("z", FCall("h", <<X("x"), X("y"), N(2)>>))>>,
          <<Three, Call("h", <<X("y"), N(4), X("x")>>), Let("z", FCall("h", <<Bin("+", X("x"), N(1)), N(1), N(0)>>))>>,
           <<Let("z", FCall("f", <<X("x"), X("y")>>))>>,
          <<Let("z", FCall("f", <<Bin("+", X("x"), N(1)), Bin("*", X("y"), N(2))>>)), Let("x", X("z"))>>,
          <<Let("z", Bin("+", FCall("f", <<X("x"), N(3)>>), X("y")))>>,
          <<Let("z", FCall("f", <<X("x"), FCall("f", <<X("y"), N(1)>>)>>))>>,
          <<Lets(<<"x", "y">>, <<FCall("g", <<X("x"), X("y")>>)>>)>>,
          <<Call("g", <<X("y"), N(4)>>), Let("z", X("x"))>>,
          <<Lets(<<"x", "y">>, <<X("y"), Bin("+", X("z"), N(1))>>)>>,
          <<Lets(<<"x", "y">>, <<X("z")>>)>>,
          <<Lets(<<"x", "y", "z">>, <<N(5)>>)>>,
          <<Lets(<<"x", "y", "z">>, <<N(1), X("z")>>), Let("x", Bin("+", X("y"), X("x")))>>,
          <<If(Rel(<<">">>, <<FCall("f", <<X("x"), N(2)>>), X("y")>>), <<Let("z", N(1))>>, <<Let("z", N(2))>>)>> }
Doubled == Macro("f", <<"a", "b">>, <<"r">>, <<N(255), N(255), N(255)>>,
                 <<Let("n", Bin("*", X("b"), N(2))), Let("r", Bin("+", X("a"), X("n")))>>)
Early == Macro("f", <<"a", "b">>, <<"r">>, <<N(255), N(255), N(255)>>,
                 <<If(Rel(<<">">>, <<X("a"), X("b")>>), <<Let("r", X("a"))>>, <<Let("r", X("b"))>>)>>)
\* "else" on the line of a call is taken for the end of its arguments.
CallBranches == InLayouts({XYZ \o <<Twice, SumDiv(b),
        If(Eq("x", 1), <<Call("g", <<X("y"), N(4)>>)>>, <<Call("g", <<N(1), X("x")>>), Let("z", N(3))>>)>> :
        b \in Bodies2}, Layouts \ {"line"})
Calls == {XYZ \o <<Twice, SumDiv(b)>> \o u : b \in Bodies2, u \in Uses}
         \cup {XYZ \o <<m, SumDiv(b)>> \o u : m \in {Doubled, Early}, b \in Bodies2, u \in Uses}

-----------------------------------------------------------------------------
(* Files and their parameters, constants, jumps.  Bytes are taken of numbers and
   variables: those of a named constant (hi K) are bytes of a pointer. *)

UseOrders == {<<u>> : u \in {Use("m"), UseWith("m", "K", 5), Use("n"), UseWith("n", "L", 4)}}
             \cup {<<Use(a), UseWith(b, k, 3)>> : a, b \in {"m", "n", "k"}, k \in {"K", "L"}}
             \cup {<<UseWith(b, k, 3), Use(a)>> : a, b \in {"m", "n", "k"}, k \in {"K", "L"}}
Files0 == {<<Decl("x", 0, 255), Decl("y", 0, 255)>> \o u \o <<Let("y", X("z"))>> : u \in UseOrders}
Jumpings == {XYZ \o b : b \in
    { <<Const("K", N(3)), Const("L", Bin("+", Bin("*", X("K"), N(2)), N(1))), Let("x", Bin("-", X("L"), X("K")))>>,
      <<Skip("s", <<Let("x", N(1))>>), Let("y", X("x"))>>,
      <<Register(<<"in">>, "r"), Debug, Let("x", Bin("+", X("r"), X("r")))>>,
      <<Register(<<"in", "sequence">>, "r"), Let("x", X("r")), Register(<<"in", "out">>, "s"),
        Let("s", X("x")), Let("y", X("s"))>>,
      <<Register(<<"out">>, "r"), Let("r", Bin("+", X("x"), N(2))), Lets(<<"r", "z">>, <<X("y")>>)>>,
      <<Again("s", Rel(<<"<">>, <<X("x"), N(6)>>), <<Plus("x", 2), If(Eq("x", 4), <<Plus("y", 1)>>, <<>>)>>)>>,
      <<If(Eq("x", 2), <<Skip("s", <<Let("y", N(0))>>), Skip("t", <<Let("y", N(0))>>)>>, <<Let("y", N(6))>>)>>,
      <<Let("z", Un("lo", Bin("+", N(700), N(3)))), Let("x", Un("hi", N(700))), Let("y", Un("-", X("x")))>>,
      <<Let("n", Bin("*", Bin("+", X("x"), N(300)), N(3))), Let("z", Un("hi", X("n"))), Let("x", Un("lo", X("n")))>> }}

-----------------------------------------------------------------------------
(* Programs that break a rule, each in its last line. *)

IllegalAfter(b, toks) ==
    [text |-> Text(XYZ \o b, "indent") \o <<Ln(0, toks), Ln(0, <<Id("x"), T("="), Num(1)>>)>>,
     source |-> <<>>, names |-> {}, legal |-> FALSE]
Illegal(toks) == IllegalAfter(<<>>, toks)
Assigning(v) == <<Id(v), T("="), Num(3)>>
Errors == {Illegal(toks) : toks \in
    { <<Id("x"), T("="), T(")")>>, <<T(")")>>, <<T("else")>>, <<Id("x")>>, <<T("goto"), Num(5)>>,
      <<Id("x"), T("="), Id("q")>>, 
      <<Id("n"), Near(T(":")), Num(5), T(".."), Num(2)>>, <<Id("x"), Near(T(":")), Num(5), T(".."), Num(6)>>,
      <<T("if"), Id("x"), T("then"), Id("y"), T("="), Num(2)>>,
      <<T("if"), Id("x"), T("="), Num(1), T("("), Id("y"), T("="), Num(2)>>,
      <<T("while"), T("("), Id("x"), T("="), Num(1), Id("y"), T("="), Num(2)>>,
      <<T("for"), Id("q"), T("("), Id("y"), T("="), Num(2), T(")")>>,
      <<Id("x"), T(","), Id("y"), T("="), Num(1), T(","), Num(2), T(","), Num(3)>>,
      <<T("use"), Num(7)>>,
      <<Id("f"), Near(T(":")), T("proc"), Num(3), T("="), Id("x"), T("="), Num(1)>> }}
    \cup {IllegalAfter(<<Const("K", N(3))>>, Assigning("K")),
          IllegalAfter(<<Register(<<"in">>, "r")>>, Assigning("r")),
          IllegalAfter(<<Register(<<"in", "sequence">>, "r")>>, <<Id("x"), T(","), Id("r"), T("="), Num(3)>>),
          IllegalAfter(<<Register(<<"out">>, "r")>>, <<Id("x"), T("="), Id("r")>>),
          IllegalAfter(<<Macro("f", <<>>, <<>>, <<>>, <<>>)>>, <<Id("f"), T("="), Id("x"), T("="), Num(2)>>),
          IllegalAfter(<<Macro("f", <<"a">>, <<"r">>, <<N(255), N(255)>>, <<Let("x", X("a")), Let("r", X("a"))>>)>>,
                       <<Id("x"), T("="), Id("f"), Num(2)>>),
          IllegalAfter(<<Twice, SumDiv(<<Let("s", X("c")), Let("n", X("t"))>>)>>,
                       <<Id("x"), T(","), Id("y"), T(","), Id("z"), T("="), Id("g"), Num(1), T(","), Num(2)>>),
          [Illegal(Assigning("T")) EXCEPT !.text = <<Ln(0, <<T("type"), Id("T"), Near(T(":")), Num(0), T(".."), Num(5)>>)>> \o @]}

-----------------------------------------------------------------------------
MCPrograms ==
    Expressions \cup InAllLayouts(Branchings \cup Calls \cup Files0 \cup Jumpings) \cup CallBranches \cup LoopPrograms \cup Errors
=============================================================================
