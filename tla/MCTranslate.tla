----------------------------- MODULE MCTranslate -----------------------------
(***************************************************************************)
(* Blocks and files of rules for Translate.  The rules are forms that      *)
(* cpu/m6502/m6502.atl has; a byte has two bits here.                      *)
(***************************************************************************)
EXTENDS Translate

CONSTANT Family

byte == 0..3
card == 0..15
int  == -8..7
s24  == -32..31
long == 0..63

\* Patterns: %A:type, const %A:type, one constant, an element, nothing.
A(type, no)  == [variant |-> "arg", type |-> type, no |-> no]
Const(type)  == [variant |-> "const", type |-> type, no |-> 0]
Is(n)        == [variant |-> "register", type |-> {n}, no |-> 0]
Elem(type)   == [variant |-> "element", type |-> type, no |-> 0]
Label        == A(AnyType, 0)
None         == [variant |-> "any", type |-> AnyType, no |-> 0]

R(op, r, a, b)    == [op |-> op, arg |-> <<r, a, b>>, to |-> "instr"]
Emit(op, r, a, b) == [op |-> op, arg |-> <<r, a, b>>, to |-> "emit"]
LetRule(r, a)     == R("let", r, a, None)

\* Arguments of the instructions of a block.
V(name, type)  == [mode |-> "var", type |-> type, name |-> name, n |-> 0]
E(name, type)  == [mode |-> "elem", type |-> type, name |-> name, n |-> 0]
N(n)           == [mode |-> "int", type |-> TINT, name |-> "", n |-> n]
L              == [mode |-> "label", type |-> {}, name |-> "L", n |-> 0]

-----------------------------------------------------------------------------
\* All files that have the rules of fixed and some of pool, in the order of pool or backwards.
Some(pool, S) == SelectSeq([k \in 1..Len(pool) |-> IF k \in S THEN pool[k] ELSE <<>>],
                           LAMBDA r : r # <<>>)
Files(fixed, pool) ==
    UNION {{fixed \o Some(pool, S), fixed \o Reverse(Some(pool, S))} : S \in SUBSET (1..Len(pool))}

\* A variable takes the place of an element in every operation the file has a rule for: without
\* it a translation by a bigger result may be announced and then not be generated.
Replaces(p, q) ==
    \/ p = q
    \/ q.variant = "element" /\ p.variant = "arg" /\ p.type = q.type
ElementsLoad(f) ==
    \A k \in 1..Len(f) : f[k].op # "let" =>
       \E j \in 1..Len(f) :
          /\ f[j].op = f[k].op /\ f[j].arg[1] = f[k].arg[1]
          /\ \A n \in 2..3 : f[j].arg[n].variant # "element" /\ Replaces(f[j].arg[n], f[k].arg[n])

\* Every result that may be computed bigger than a variable of a type of S can be stored there.
Narrows(f, S) ==
    \A k \in 1..Len(f), s \in S :
       LET t == f[k].arg[1].type IN
       f[k].to = "instr" /\ f[k].arg[1].variant = "arg" /\ s \subseteq t /\ s # t =>
          \E j \in 1..Len(f) : /\ f[j].op = "let" /\ f[j].arg[1].variant = "arg"
                               /\ f[j].arg[1].type = s /\ f[j].arg[2] = A(t, f[j].arg[2].no)

Sound(files, S) == {f \in files : ElementsLoad(f) /\ Narrows(f, S)}
Pairs(files, blocks, off) ==
    {[rules |-> f, block |-> b, asserts_off |-> o] : f \in files, b \in blocks, o \in off}

-----------------------------------------------------------------------------
\* Bytes in variables and arrays, and results of two bytes.
Lets  == <<LetRule(A(byte, 0), A(byte, 0)), LetRule(A(byte, 0), A(card, 0)),
           LetRule(A(card, 0), A(card, 0)), LetRule(A(card, 0), A(byte, 0))>>
Moves == <<LetRule(A(byte, 0), Elem(byte)), LetRule(Elem(byte), A(byte, 0))>>
Adds  == <<R("add", A(byte, 0), A(byte, 0), A(byte, 0)), R("add", A(card, 0), A(byte, 0), A(byte, 0)),
           R("add", A(card, 0), A(card, 0), Const(card)), R("add", A(byte, 0), A(byte, 0), Elem(byte)),
           R("add", Elem(byte), A(byte, 0), A(byte, 0)), Emit("add", A(byte, 1), A(byte, 1), Is(1))>>

Some1(S, op, X, Y) == {<<Instr(op, r, a, b)>> : r \in S, a \in X, b \in Y}
x == V("x", byte)
y == V("y", byte)
z == V("z", card)
e == E("e", byte)
g == E("g", byte)

ArithUnits ==
    Pairs(Sound(Files(Lets, <<Moves[1]>> \o Adds), {byte, card}),
          Some1({x, e}, "add", {x, e}, {g, N(1)}) \cup Some1({x}, "add", {N(1)}, {x, e}), {FALSE})

\* Several instructions, some of them in an assertion; branches.
Ifs == <<R("iflt", Label, A(byte, 0), A(byte, 0)), R("ifge", Label, A(byte, 0), A(byte, 0)),
         R("iflt", Label, A(byte, 0), Const(byte)), R("ifgt", Label, A(byte, 0), Is(2))>>
Asserts == <<Emit("assert_begin", None, None, None), Emit("assert_end", None, None, None)>>

\* A rule with no body, and one that is a macro.
Others == <<[R("add", A(byte, 0), A(byte, 0), A(byte, 0)) EXCEPT !.to = ""],
            [R("let", A(byte, 0), Elem(byte), None) EXCEPT !.to = "macro"]>>

Plain(op) == Instr(op, NoVar, NoVar, NoVar)
Asserting(c, i) == <<Instr("add", x, x, N(1)), Plain("assert_begin"), c, Plain("assert_end"), i>>

BranchUnits ==
    Pairs(Sound(Files(Lets \o Asserts \o Others \o <<Adds[1], Moves[2]>>, Ifs \o <<Moves[1]>>), {byte, card}),
          {Asserting(c, Instr("add", e, x, g)) :
             c \in {Instr("iflt", L, x, y), Instr("ifgt", L, e, N(2)), Instr("ifle", L, N(2), x)}},
          BOOLEAN)

\* Differences of two bytes need three, factors of one byte two.
Signed == <<R("sub", A(s24, 0), A(int, 0), A(int, 0)), LetRule(A(int, 0), A(s24, 0)),
            LetRule(A(int, 0), Elem(int)), LetRule(Elem(int), A(int, 0)),
            R("sub", A(int, 0), A(int, 0), Const(int))>>
i1 == V("i", int)
i2 == V("j", int)
ie == E("ie", int)
DiffUnits ==
    Pairs(Sound(Files(<<LetRule(A(int, 0), A(int, 0))>>, Signed), {int}), Some1({i1, ie}, "sub", {i1, ie}, {i2, N(3), N(9)}),
          {FALSE})
      \cup
    Pairs(Sound(Files(Lets \o Moves, <<R("mul", A(card, 0), A(byte, 0), A(byte, 0)),
                                       R("mul", A(card, 0), A(byte, 0), Elem(byte)),
                                       R("mul", A(byte, 0), A(byte, 0), Is(2))>>), {byte, card}),
          Some1({x, e, z}, "mul", {x, e}, {y, g, N(2)}), {FALSE})

\* The rules for LET with three bytes of m6502.atl: none stores them in two.
LongUnits ==
    Pairs({Lets \o <<LetRule(A(long, 0), Const(long))>>},
          {<<Instr("let", z, V("i", long), NoVar)>>, <<Instr("let", V("i", long), N(5), NoVar)>>}, {FALSE})

MCUnits == CASE Family = "narrowing" -> ArithUnits \cup BranchUnits \cup DiffUnits
             [] Family = "long" -> LongUnits

MCPattern == UNION {{u.rules[k].arg[n] : k \in 1..Len(u.rules), n \in 1..3} : u \in MCUnits}
MCOp      == {"let", "add", "sub", "mul", "iflt", "ifge", "ifgt", "ifle", "assert_begin", "assert_end"}
MCTINT    == -64..127
=============================================================================
