------------------------------ MODULE MCCombined ------------------------------
(***************************************************************************)
(* Procedures for Combined: what statements are translated to for the      *)
(* 6502 (src/atalan/cpu/m6502/m6502.atl), and the forms of instruction     *)
(* there are, with their cycles.                                           *)
(***************************************************************************)
EXTENDS Combined, TLC

CONSTANTS A, X, F,      \* accumulator, index register, flags
          L, G, R,      \* a local variable, a global one, an output argument
          P, Q,         \* hardware that is read, and that is written
          M             \* input argument in memory, of the procedure called

VarList == <<A, X, F, L, G, R, P, Q, M>>
Machine == {A, X, F}
KindOfVar == A :> "acc" @@ X :> "index" @@ F :> "flags"
             @@ [v \in {L, G, R, P, Q, M} |-> "memory"]

Numbers == {"one", "number"}
RulesUsed ==
    LET lets   == {<<"let", r, s, "none">> : r \in {"acc", "index"}, s \in Numbers \cup {"memory"}}
                  \cup {<<"let", "memory", s, "none">> : s \in {"acc", "index"}}
                  \cup {<<"let", "acc", "index", "none">>, <<"let", "index", "acc", "none">>}
        steps  == {<<op, r, r, "one">> : op \in {"add", "sub"}, r \in {"index", "memory"}}
        cmps   == {<<"cmp", "flags", r, s>> : r \in {"acc", "index"}, s \in Numbers \cup {"memory"}}
        ifs    == {<<"if", "none", "flags", s>> : s \in Numbers}
    IN  [f \in lets \cup steps \cup cmps \cup ifs |->
            CASE "memory" \in {f[2], f[3]} /\ f[1] = "let" -> 4
              [] f[1] \in {"add", "sub"} /\ f[2] = "memory" -> 6
              [] OTHER -> 2] @@ <<>>

I(op, res, a1, a2) == [op |-> op, res |-> res, a1 |-> a1, a2 |-> a2]
Let(r, a)          == I("let", r, a, NoVar)

\* Statements.
Assign(v, e)   == <<Let(A, e), Let(v, A)>>
Through(v, e)  == <<Let(X, e), Let(v, X)>>
Increment(v)   == <<I("add", v, v, 1)>>
Decrement(v)   == <<I("sub", v, v, 1)>>
CallWith(a, e) == (IF a = M THEN <<Let(A, e), Let(M, A)>> ELSE <<Let(a, e)>>)
                  \o <<I("call", NoVar, NoVar, NoVar)>>
Test(v, n)     == <<Let(A, v), I("cmp", F, A, n), I("if", NoVar, F, 0)>>

\* The procedure called takes arg and writes written, some of it behind a tail call.
Callee(arg, reads, written, hidden) ==
    [ins |-> {arg}, outs |-> {}, local |-> {}, reads |-> {arg} \cup reads,
     writes |-> {A} \cup written, seen |-> {A} \cup (written \ hidden)]
NoCall == Callee(A, {}, {}, {})

Start(n) == [v \in ToSet(VarList) |-> CASE v = L -> n [] v = G -> 3 - n [] v = R -> 2 [] OTHER -> 0]

Proc(blocks, to, condTo, callee, n) ==
    [code |-> blocks, to |-> to, condTo |-> condTo,
     local |-> {L, R}, outs |-> {R}, results |-> {R, G}, callee |-> callee, start |-> Start(n)]

\* Shapes of procedures.
Straight(c, callee)          == Proc(<<c>>, <<0>>, <<0>>, callee, 1)
IfElse(t, c, d, e, callee, n) == Proc(<<t, c, d, e>>, <<2, 4, 4, 0>>, <<3, 0, 0, 0>>, callee, n)
Loop(h, b, e, n)             == Proc(<<h, b, e>>, <<2, 2, 0>>, <<0, 3, 0>>, NoCall, n)

\* Statements.  Few are combined where there are several.
Stmts == {Assign(v, e) : v \in {L, G, R}, e \in {1, 2, L, G}}
         \cup {Assign(L, P), Assign(R, P), Assign(Q, L)}
         \cup {Through(v, e) : v \in {L, G}, e \in {1, L, G}}
         \cup {Increment(v) : v \in {L, G}} \cup {Decrement(v) : v \in {L, G}}
Few   == {Assign(v, e) : v \in {L, G}, e \in {1, L, G}} \cup {Increment(v) : v \in {L, G}}

Lines    == {Straight(s \o t, NoCall) : s, t \in Stmts}
            \cup {Straight(s \o t \o u, NoCall) : s, t, u \in Few}
Calls    == {Straight(s \o CallWith(a, L) \o t, Callee(a, {}, w, {})) :
                s, t \in Few, a \in {A, M}, w \in {{}, {G}}}
Branches == {IfElse(Test(L, 0), s, t, u, NoCall, n) : s, t, u \in Few, n \in 0..1}
Loops    == {Loop(s, t \o Test(L, 2), u, n) : s, t, u \in Few, n \in 0..1}
\* What R was is read in the body, but not needed: its next use is in the block itself, and removed.
Unneeded == {[Loop(Assign(R, e), Assign(L, R) \o Assign(L, f) \o Test(L, 2), Assign(G, L), n)
                 EXCEPT !.outs = {}, !.results = {G}] : e \in {1, G}, f \in {1, 2, G}, n \in 0..1}
Preserved == Lines \cup Calls \cup Branches \cup Loops \cup Unneeded

\* A procedure is called that reads a variable its caller assigned.
ReadByCallee == {Straight(Assign(G, e) \o CallWith(A, L) \o t, Callee(A, {G}, {}, {})) :
                    e \in {1, L}, t \in Few}
=============================================================================
