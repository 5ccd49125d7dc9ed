------------------------------- MODULE Source -------------------------------
(***************************************************************************)
(* Programs as trees, what the reference manual (doc/reference.txt) says   *)
(* they mean, and how they are written: the measure for the code that the  *)
(* parser generates.  Nothing here models code of the compiler.            *)
(* That the last value is for all variables behind it is what the examples *)
(* do (examples/tetris.atl:284).                                           *)
(*                                                                         *)
(* An expression is [e, v, n, a]: its kind, a name or operator, a number   *)
(* and its parts.  A condition is [c, v, xs, cs].  A statement is          *)
(* [s, v, xs, cs, bs]: names, expressions, conditions and blocks.          *)
(***************************************************************************)
EXTENDS Integers, Sequences, SequencesExt

CONSTANT Modules    \* the statements of the files that programs use

(* Expressions. *)

Expr(e, v, n, a) == [e |-> e, v |-> v, n |-> n, a |-> a]
N(n)          == Expr("int", "", n, <<>>)
X(v)          == Expr("var", v, 0, <<>>)
Bin(op, a, b) == Expr("bin", op, 0, <<a, b>>)
Un(op, a)     == Expr("un", op, 0, <<a>>)
FCall(f, a)   == Expr("call", f, 0, a)

(* Conditions. *)

Rel(ops, xs)  == [c |-> "rel", v |-> ops, xs |-> xs, cs |-> <<>>]
Eq(v, n)      == Rel(<<"=">>, <<X(v), N(n)>>)
And(cs)       == [c |-> "and", v |-> <<>>, xs |-> <<>>, cs |-> cs]
Or(cs)        == [c |-> "or",  v |-> <<>>, xs |-> <<>>, cs |-> cs]
Not(c)        == [c |-> "not", v |-> <<>>, xs |-> <<>>, cs |-> <<c>>]

(* Statements. *)

Stmt(s, v, xs, cs, bs) == [s |-> s, v |-> v, xs |-> xs, cs |-> cs, bs |-> bs]
Let(v, e)          == Stmt("let", <<v>>, <<e>>, <<>>, <<>>)
Lets(vs, es)       == Stmt("let", vs, es, <<>>, <<>>)
Decl(v, lo, hi)    == Stmt("decl", <<v>>, <<N(lo), N(hi)>>, <<>>, <<>>)
\* A register of the system: words is of "in", "sequence" and "out".
Register(words, v) == Stmt("decl", <<v>> \o words, <<N(0), N(255)>>, <<>>, <<>>)
Debug              == Stmt("debug", <<>>, <<>>, <<>>, <<>>)
Const(v, e)        == Stmt("const", <<v>>, <<e>>, <<>>, <<>>)
If(c, b1, b2)      == Stmt("if", <<>>, <<>>, <<c>>, <<b1, b2>>)
Unless(c, b1, b2)  == Stmt("unless", <<>>, <<>>, <<c>>, <<b1, b2>>)
While(c, b)        == Stmt("while", <<>>, <<>>, <<c>>, <<b>>)
Until(c, b)        == Stmt("until", <<>>, <<>>, <<c>>, <<b>>)
\* for v: lo..hi; parts is a sequence of <<"step", e>>, <<"where", c>>, <<"while", c>>
For(v, lo, hi, b)  == Stmt("for", <<v>>, <<lo, hi>>, <<>>, <<b>>)
ForBy(v, lo, hi, by, b) == Stmt("for", <<v>>, <<lo, hi, by>>, <<>>, <<b>>)
ForIf(v, lo, hi, kinds, cs, b) == Stmt("for", <<v>> \o kinds, <<lo, hi>>, cs, <<b>>)
Call(f, xs)        == Stmt("call", <<f>>, xs, <<>>, <<>>)
Check(c)           == Stmt("assert", <<>>, <<>>, <<c>>, <<>>)
Skip(l, b)         == Stmt("skip", <<l>>, <<>>, <<>>, <<b>>)     \* goto l ... l@
Again(l, c, b)     == Stmt("again", <<l>>, <<>>, <<c>>, <<b>>)   \* l@ ... if c goto l
Return(xs)         == Stmt("return", <<>>, xs, <<>>, <<>>)
\* v is the name and, after "proc" or "macro" and the number of arguments, the
\* arguments and results; xs is their maxima.
Proc(f, ins, outs, his, b)  == Stmt("proc", <<f>> \o ins \o <<">">> \o outs, his, <<>>, <<b>>)
Macro(f, ins, outs, his, b) == Stmt("macro", <<f>> \o ins \o <<">">> \o outs, his, <<>>, <<b>>)
\* use m (v = n), and the parameter of a file with its value if none is given
Use(m)             == Stmt("use", <<m>>, <<>>, <<>>, <<>>)
UseWith(m, v, n)   == Stmt("use", <<m, v>>, <<N(n)>>, <<>>, <<>>)
Param(v, e)        == Stmt("param", <<v>>, <<e>>, <<>>, <<>>)

Ins(d)  == LET k == SelectInSeq(d.v, LAMBDA x : x = ">") IN SubSeq(d.v, 2, k - 1)
Outs(d) == LET k == SelectInSeq(d.v, LAMBDA x : x = ">") IN SubSeq(d.v, k + 1, Len(d.v))

-----------------------------------------------------------------------------
(* Meaning.  A state is [m, mod, procs, proc, used, given, end]: values, what they
   are kept modulo (0: all integers), the procedures declared and the one that
   runs, the files used and the parameters given to them, and how the run has
   ended, "" if it goes on. *)

Set(s, v, n) == [s EXCEPT !.m[v] = IF s.mod[v] = 0 THEN n ELSE n % s.mod[v]]
SetAll(s, vs, ns) == FoldLeft(LAMBDA t, k : Set(t, vs[k], ns[k]), s, [k \in 1..Len(vs) |-> k])
Modulo(hi) == IF hi < 256 THEN 256 ELSE 65536

RECURSIVE Meaning(_, _), Value(_, _), Holds(_, _), Turns(_, _, _), Called(_, _, _)
RECURSIVE BitValue(_, _, _), Repeat(_, _, _, _)

BitValue(op, x, y) ==
    IF x = 0 /\ y = 0 THEN 0
    ELSE LET one == x % 2 = 1  two == y % 2 = 1
             bit == CASE op = "bitand" -> one /\ two [] op = "bitor" -> one \/ two
                      [] op = "bitxor" -> one # two
         IN  (IF bit THEN 1 ELSE 0) + 2 * BitValue(op, x \div 2, y \div 2)

Binary(op, x, y) == CASE op = "+" -> x + y [] op = "-" -> x - y [] op = "*" -> x * y
                      [] op = "/" -> x \div y [] op = "mod" -> x % y
                      [] OTHER -> BitValue(op, x, y)

Unary(op, x) == CASE op = "-" -> -x [] op = "lo" -> x % 256 [] op = "hi" -> (x \div 256) % 256

Value(e, s) == CASE e.e = "int"  -> e.n
                 [] e.e = "var"  -> s.m[e.v]
                 [] e.e = "bin"  -> Binary(e.v, Value(e.a[1], s), Value(e.a[2], s))
                 [] e.e = "un"   -> Unary(e.v, Value(e.a[1], s))
                 [] e.e = "call" -> Called(e.v, e.a, s).m[Outs(s.procs[e.v])[1]]

Related(op, x, y) == CASE op = "=" -> x = y [] op = "<>" -> x # y [] op = "<" -> x < y
                       [] op = "<=" -> x <= y [] op = ">" -> x > y [] op = ">=" -> x >= y
Holds(c, s) ==
    CASE c.c = "rel" -> \A k \in 1..Len(c.v) : Related(c.v[k], Value(c.xs[k], s), Value(c.xs[k + 1], s))
      [] c.c = "and" -> \A k \in 1..Len(c.cs) : Holds(c.cs[k], s)
      [] c.c = "or"  -> \E k \in 1..Len(c.cs) : Holds(c.cs[k], s)
      [] c.c = "not" -> ~Holds(c.cs[1], s)

\* The arguments, the body, and the results in their variables.
Called(f, xs, s) ==
    LET d == s.procs[f]
        t == SetAll(s, Ins(d), [k \in 1..Len(xs) |-> Value(xs[k], s)])
        u == Meaning(d.bs[1], [t EXCEPT !.proc = f])
    IN  [u EXCEPT !.proc = s.proc, !.end = IF @ = "return" THEN "" ELSE @]

\* while: body again while c holds.
Repeat(c, not, b, s) == IF s.end # "" \/ Holds(c, s) = not THEN s ELSE Repeat(c, not, b, Meaning(b, s))

\* for: the turns with the values i and on.
Part(f, kind) == SelectInSeq(Tail(f.v), LAMBDA k : k = kind)
Turns(f, i, s) ==
    LET t  == Set(s, f.v[1], i)
        hi == Value(f.xs[2], s)
        by == IF Len(f.xs) = 3 THEN Value(f.xs[3], s) ELSE 1
        stop == \/ Part(f, "while") # 0 /\ ~Holds(f.cs[Part(f, "while")], t)
                \/ Part(f, "until") # 0 /\ Holds(f.cs[Part(f, "until")], t)
        skip == Part(f, "where") # 0 /\ ~Holds(f.cs[Part(f, "where")], t)
        u == IF skip THEN t ELSE Meaning(f.bs[1], t)
    IN  IF s.end # "" \/ i > hi \/ stop THEN s ELSE Turns(f, i + by, u)

\* Variables without a value of their own get the last one (examples/tetris.atl:284).
Done1(st, s) ==
    CASE st.s = "let" ->
           IF Len(st.xs) = Len(st.v) \/ Last(st.xs).e # "call"
           THEN SetAll(s, st.v, [k \in 1..Len(st.v) |-> Value(st.xs[IF k < Len(st.xs) THEN k ELSE Len(st.xs)], s)])
           ELSE LET t == Called(st.xs[1].v, st.xs[1].a, s)
                    d == s.procs[st.xs[1].v]
                IN  SetAll(t, st.v, [k \in 1..Len(st.v) |-> t.m[Outs(d)[k]]])
      [] st.s = "decl"   -> [s EXCEPT !.mod[st.v[1]] = Modulo(st.xs[2].n)]
      [] st.s = "param"  -> Set(s, st.v[1], IF st.v[1] \in DOMAIN s.given THEN s.given[st.v[1]]
                                            ELSE Value(st.xs[1], s))
      [] st.s = "use"    ->
           LET given == IF st.xs = <<>> THEN s.given ELSE s.given @@ (st.v[2] :> st.xs[1].n)
               t == Meaning(Modules[st.v[1]], [s EXCEPT !.used = @ \cup {st.v[1]}, !.given = given])
           IN  IF st.v[1] \in s.used THEN s ELSE [t EXCEPT !.given = s.given]
      [] st.s = "const"  -> Set(s, st.v[1], Value(st.xs[1], s))
      [] st.s = "if"     -> Meaning(st.bs[IF Holds(st.cs[1], s) THEN 1 ELSE 2], s)
      [] st.s = "unless" -> Meaning(st.bs[IF Holds(st.cs[1], s) THEN 2 ELSE 1], s)
      [] st.s = "while"  -> Repeat(st.cs[1], FALSE, st.bs[1], s)
      [] st.s = "until"  -> Repeat(st.cs[1], TRUE, st.bs[1], s)
      [] st.s = "for"    -> Turns(st, Value(st.xs[1], s), s)
      [] st.s = "call"   -> Called(st.v[1], st.xs, s)
      [] st.s = "assert" -> IF Holds(st.cs[1], s) THEN s ELSE [s EXCEPT !.end = "assert"]
      [] st.s \in {"skip", "debug"} -> s
      [] st.s = "again"  -> LET t == Meaning(st.bs[1], s) IN Repeat(st.cs[1], FALSE, st.bs[1], t)
      [] st.s = "return" ->
           [SetAll(s, Outs(s.procs[s.proc]), [k \in 1..Len(st.xs) |-> Value(st.xs[k], s)])
              EXCEPT !.end = "return"]
      [] st.s \in {"proc", "macro"} ->
           LET names == Ins(st) \o Outs(st)
           IN  [s EXCEPT !.procs = (st.v[1] :> st) @@ @,
                         !.mod = [v \in DOMAIN @ |->
                                    LET k == SelectInSeq(names, LAMBDA x : x = v)
                                    IN  IF k = 0 \/ st.s = "macro" THEN @[v] ELSE Modulo(st.xs[k].n)]]

Meaning(b, s) == FoldLeft(LAMBDA t, st : IF t.end # "" THEN t ELSE Done1(st, t), s, b)

-----------------------------------------------------------------------------
(* Text.  A token has a space before it unless it is near. *)

T(t)  == [t |-> t, v |-> "", near |-> FALSE]
Id(v) == [t |-> "id", v |-> v, near |-> FALSE]
Num(n) == [t |-> "int", v |-> n, near |-> FALSE]
Near(tok) == [tok EXCEPT !.near = TRUE]
Ln(indent, toks) == [indent |-> indent, toks |-> toks]

\* A list with commas.
Commas(parts) == FoldLeft(LAMBDA acc, x : IF acc = <<>> THEN x ELSE acc \o <<T(",")>> \o x, <<>>, parts)
Parens(toks) == <<T("(")>> \o toks \o <<T(")")>>

Priority == "*" :> 1 @@ "/" :> 1 @@ "mod" :> 1 @@ "+" :> 2 @@ "-" :> 2
            @@ "bitand" :> 3 @@ "bitor" :> 4 @@ "bitxor" :> 4
Rank(e) == CASE e.e = "bin" -> Priority[e.v] [] e.e = "un" -> 1 [] e.e = "call" -> 5 [] OTHER -> 0

\* Parentheses only where the priorities need them.
RECURSIVE Written(_), WrittenCond(_)
Written(e) ==
    CASE e.e = "int" -> <<Num(e.n)>>
      [] e.e = "var" -> <<Id(e.v)>>
      [] e.e = "un"  -> <<T(e.v)>> \o (IF Rank(e.a[1]) > 0 THEN Parens(Written(e.a[1])) ELSE Written(e.a[1]))
      [] e.e = "bin" ->
           LET l == Written(e.a[1])  r == Written(e.a[2])
           IN  (IF Rank(e.a[1]) > Rank(e) /\ e.a[1].e # "call" THEN Parens(l) ELSE l) \o <<T(e.v)>>
               \o (IF Rank(e.a[2]) >= Rank(e) THEN Parens(r) ELSE r)
      [] e.e = "call" ->
           <<Id(e.v)>> \o Parens(Commas([k \in 1..Len(e.a) |-> Written(e.a[k])]))

WrittenRel(c) ==
    FoldLeft(LAMBDA acc, k : acc \o <<T(c.v[k])>> \o Written(c.xs[k + 1]), Written(c.xs[1]),
             [k \in 1..Len(c.v) |-> k])
WrittenCond(c) ==
    LET Inner(d) == IF d.c \in {"and", "or"} /\ ~(c.c = "or" /\ d.c = "and")
                    THEN Parens(WrittenCond(d)) ELSE WrittenCond(d)
    IN  CASE c.c = "rel" -> WrittenRel(c)
          [] c.c = "not" -> <<T("not")>> \o Inner(c.cs[1])
          [] OTHER -> FoldLeft(LAMBDA acc, k : acc \o <<T(c.c)>> \o Inner(c.cs[k]), Inner(c.cs[1]),
                               [k \in 1..Len(c.cs) - 1 |-> k + 1])

Args(names, xs, from) == Commas([k \in 1..Len(names) |->
                            <<Id(names[k]), Near(T(":")), Near(Num(0)), Near(T("..")), Near(xs[from + k])>>])

\* The lines of a block: indented, on the line of its statement, in parentheses
\* on that line, or in parentheses over several lines.
Layouts == {"indent", "line", "paren", "span"}

RECURSIVE WrittenBlock(_, _, _, _, _), WrittenStmt(_, _, _), WrittenBody(_, _, _), WrittenIf(_, _, _, _)

\* head and then the block.
WrittenBlock(head, b, indent, layout, then) ==
    LET on == head \o (IF then /\ layout = "line" THEN <<T("then")>> ELSE <<>>)
        flat == FoldLeft(LAMBDA acc, l : acc \o l.toks, <<>>,
                         WrittenBody(b, indent, IF layout = "line" THEN "paren" ELSE layout))
    IN  CASE layout = "indent" -> <<Ln(indent, head)>> \o WrittenBody(b, indent + 2, layout)
          [] layout = "line"   -> <<Ln(indent, on \o flat)>>
          [] layout = "paren"  -> <<Ln(indent, head \o Parens(flat))>>
          [] layout = "span"   -> <<Ln(indent, head \o <<T("(")>>)>> \o WrittenBody(b, indent + 1, layout)
                                  \o <<Ln(indent + 1, <<T(")")>>)>>

\* Lines where the last of the first joins the first of the second.
Joined(a, b) == Front(a) \o <<[Last(a) EXCEPT !.toks = @ \o b[1].toks]>> \o Tail(b)

WrittenIf(head, st, indent, layout) ==
    LET yes == WrittenBlock(head \o <<T(st.s)>> \o WrittenCond(st.cs[1]), st.bs[1], indent, layout, TRUE)
        more == st.bs[2] # <<>>
        no  == IF st.bs[2][1].s \in {"if", "unless"} /\ Len(st.bs[2]) = 1
               THEN WrittenIf(<<T("else")>>, st.bs[2][1], indent, layout)
               ELSE WrittenBlock(<<T("else")>>, st.bs[2], indent, layout, FALSE)
    IN  IF ~more THEN yes
        ELSE IF layout = "indent" THEN yes \o no ELSE Joined(yes, no)

WrittenFor(st) ==
    LET range == <<Near(T(":"))>> \o Written(st.xs[1]) \o <<T("..")>> \o Written(st.xs[2])
        step  == IF Len(st.xs) < 3 THEN <<>> ELSE <<T("step")>> \o Written(st.xs[3])
        P(kind) == IF Part(st, kind) = 0 THEN <<>> ELSE <<T(kind)>> \o WrittenCond(st.cs[Part(st, kind)])
    IN  <<T("for"), Id(st.v[1])>> \o range \o step \o P("where") \o P("while") \o P("until")

WrittenStmt(st, indent, layout) ==
    LET one(toks) == <<Ln(indent, toks)>>
        exprs == Commas([k \in 1..Len(st.xs) |-> Written(st.xs[k])])
    IN  CASE st.s = "let"    -> one(Commas([k \in 1..Len(st.v) |-> <<Id(st.v[k])>>]) \o <<T("=")>> \o exprs)
          [] st.s = "debug"  -> one(<<T("debug")>>)
          [] st.s = "decl"   -> one([k \in 1..Len(st.v) - 1 |-> T(st.v[k + 1])] \o
                                    <<Id(st.v[1]), Near(T(":"))>> \o Written(st.xs[1]) \o <<T("..")>>
                                    \o Written(st.xs[2]))
          [] st.s \in {"const", "param"} -> one(<<T(st.s), Id(st.v[1]), T("=")>> \o exprs)
          [] st.s \in {"if", "unless"} -> WrittenIf(<<>>, st, indent, layout)
          [] st.s \in {"while", "until"} ->
               WrittenBlock(<<T(st.s)>> \o WrittenCond(st.cs[1]), st.bs[1], indent,
                            IF layout = "line" THEN "paren" ELSE layout, FALSE)
          [] st.s = "for"    -> WrittenBlock(WrittenFor(st), st.bs[1], indent,
                                             IF layout = "line" THEN "paren" ELSE layout, FALSE)
          [] st.s = "call"   -> one(<<Id(st.v[1])>> \o exprs)
          [] st.s = "assert" -> one(<<T("assert")>> \o WrittenCond(st.cs[1]))
          [] st.s = "return" -> one(<<T("return")>> \o exprs)
          [] st.s = "use"    -> one(<<T("use"), Id(st.v[1])>> \o (IF st.xs = <<>> THEN <<>>
                                                               ELSE Parens(<<Id(st.v[2]), T("=")>> \o exprs)))
          [] st.s = "skip"   -> one(<<T("goto"), Id(st.v[1])>>) \o WrittenBody(st.bs[1], indent, layout)
                                \o one(<<Id(st.v[1]), Near(T("@"))>>)
          [] st.s = "again"  -> one(<<Id(st.v[1]), Near(T("@"))>>) \o WrittenBody(st.bs[1], indent, layout)
                                \o one(<<T("if")>> \o WrittenCond(st.cs[1]) \o <<T("goto"), Id(st.v[1])>>)
          [] st.s \in {"proc", "macro"} ->
               LET his == [k \in 1..Len(st.xs) |-> Num(st.xs[k].n)]
                   head == <<Id(st.v[1]), Near(T(":")), T(st.s)>> \o Args(Ins(st), his, 0)
                           \o (IF Outs(st) = <<>> THEN <<>> ELSE <<T("->")>> \o Args(Outs(st), his, Len(Ins(st))))
                           \o <<T("=")>>
               IN  WrittenBlock(head, st.bs[1], indent, "indent", FALSE)

WrittenBody(b, indent, layout) ==
    FoldLeft(LAMBDA acc, st : acc \o WrittenStmt(st, indent, layout), <<>>, b)

Text(b, layout) == WrittenBody(b, 0, layout)
=============================================================================
