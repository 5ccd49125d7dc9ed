---------------------------- MODULE ParsedProgram ----------------------------
(***************************************************************************)
(* The parser at work on one program, command by command, and the code it  *)
(* leaves, run beside what the program means.                              *)
(***************************************************************************)
EXTENDS Parser

CONSTANTS Programs,     \* [text |-> lines, source |-> statements, names |-> variables,
                        \*  legal |-> whether the manual allows it]
          Initial,      \* the values variables may have before the program runs
          Meant(_, _),  \* what a program makes of the values of its variables
          Fuel          \* instructions a run may take

VARIABLES program, p, phase,
          turns     \* commands parsed so far

vars == <<program, p, phase, turns>>

\* SRC_FILE is the program; the block of the file is on that of the root.
Start(text) == Opened(Push(LexerInit @@ GenerateInit @@ ParseInit, "eof", "void", 0), "main", <<>>, text)

Init == /\ program \in Programs
        /\ p = Start(program.text)
        /\ phase = "parse"
        /\ turns = 0

ParseCommand == /\ phase = "parse"
                /\ p.tok.t \notin BlockEnds
                /\ p' = OneCommand(p)
                /\ turns' = turns + 1
                /\ UNCHANGED <<program, phase>>

ParseEnd == /\ phase = "parse"
            /\ p.tok.t \in BlockEnds
            /\ p' = SrcClose(IF Failed(p) \/ Is(p, "block_end") THEN p ELSE SyntaxError(p))
            /\ phase' = "done"
            /\ UNCHANGED <<program, turns>>

\* The code does not change any more.
Parsed == phase = "done" /\ UNCHANGED vars

Next == ParseCommand \/ ParseEnd \/ Parsed

Spec == Init /\ [][Next]_vars

-----------------------------------------------------------------------------
(* Running the code.  Arguments in registers share the register: it is the cell
   -reg.  A run is [m, over, end, fuel]: cells, the overflow of the last addition,
   "" or how the run has ended, and the instructions left. *)

Cell(q, v) == IF V(q, v).reg = 0 THEN v ELSE 0 - V(q, v).reg
Cells(q)   == {Cell(q, v) : v \in 1..Len(q.vars)}
Width(q, v) == IF V(q, v).kind = "int" THEN ByteMask(V(q, v).hi) + 1 ELSE 0

Get(q, s, v) == LET c == VarEvalConst(q, v)
                IN  IF V(q, c).mode = "int" THEN V(q, c).n ELSE s.m[Cell(q, c)]
Put(q, s, v, n) ==
    [s EXCEPT !.m[Cell(q, v)] = IF Width(q, v) = 0 THEN n ELSE n % Width(q, v)]

Jump(s, code, l) == SelectInSeq(code, LAMBDA i : i.op = "label" /\ i.r = l)
Tested(op, a, b) == CASE op = "ifeq" -> a = b [] op = "ifne" -> a # b [] op = "iflt" -> a < b
                      [] op = "ifge" -> a >= b [] op = "ifgt" -> a > b [] op = "ifle" -> a <= b

RECURSIVE Exec(_, _, _, _)
Exec(q, code, pc, s) ==
    LET i == code[pc]
        a == Get(q, s, i.a)
        b == Get(q, s, i.b)
        t == [s EXCEPT !.fuel = @ - 1]
        computed == CASE i.op = "let" -> a [] i.op \in {"lo", "hi"} -> Compute(i.op, a, 0)
                      [] OTHER -> Compute(i.op, a, b)
        called == Exec(q, V(q, i.r).code, 1, t)
        over   == Width(q, i.r) # 0 /\ computed >= Width(q, i.r)
        to(l)  == Exec(q, code, Jump(s, code, l), t)
    IN  CASE pc > Len(code) \/ s.end # "" -> s
          [] pc <= Len(code) /\ s.end = "" /\ s.fuel = 0 -> [s EXCEPT !.end = "endless"]
          [] OTHER ->
               CASE i.op = "goto" -> to(i.r)
                 [] i.op \in Branches -> IF Tested(i.op, a, b) THEN to(i.r) ELSE Exec(q, code, pc + 1, t)
                 [] i.op = "ifoverflow"  -> IF s.over THEN to(i.r) ELSE Exec(q, code, pc + 1, t)
                 [] i.op = "ifnoverflow" -> IF s.over THEN Exec(q, code, pc + 1, t) ELSE to(i.r)
                 [] i.op = "call"   -> Exec(q, code, pc + 1, called)
                 [] i.op = "assert" -> [s EXCEPT !.end = "assert"]
                 [] i.op \in {"label", "line", "debug", "assert_begin", "assert_end"} -> Exec(q, code, pc + 1, t)
                 [] OTHER -> Exec(q, code, pc + 1, [Put(q, t, i.r, computed) EXCEPT !.over = over])

\* What nothing was written to holds anything.
Garbage == 77
Ran(q, store) ==
    LET named(c) == {n \in DOMAIN store : VarFindScope(q, Root, n) = c}
        m == [c \in Cells(q) |-> IF c > 0 /\ named(c) # {} THEN store[CHOOSE n \in named(c) : TRUE]
                                 ELSE Garbage]
        s == Exec(q, Code(q), 1, [m |-> m, over |-> FALSE, end |-> "", fuel |-> Fuel])
    IN  [values |-> [n \in DOMAIN store |-> Get(q, s, VarFindScope(q, Root, n))], end |-> s.end]

Stores == [program.names -> Initial]
Good   == p.errors = 0 /\ ~p.wild /\ ~p.hangs

-----------------------------------------------------------------------------
(* Properties. *)

Kinds == {"undefined", "int", "label", "scope", "proc", "macro", "tuple"}

\* The parser's state is of the right shape between two commands: variables refer
\* to variables, and instructions to variables or nothing.
TypeOK ==
    /\ phase \in {"parse", "done"}
    /\ \A v \in 1..Len(p.vars) : /\ V(p, v).scope \in 0..Len(p.vars)
                                 /\ V(p, v).kind \in Kinds
                                 /\ V(p, v).reg \in 0..Registers
    /\ \A k \in 1..Len(p.code) : \A j \in 1..Len(p.code[k]) :
          {p.code[k][j].r, p.code[k][j].a, p.code[k][j].b} \subseteq 0..Len(p.vars)

\* Programs written by the manual are accepted, however their blocks are laid out,
\* and others are reported (SyntaxError, LogicError); in neither an operand is
\* missing on STACK, a null pointer is read, or the lexer does not come to an end.
Accepted == phase = "done" => /\ p.errors = 0 <=> program.legal
                              /\ ~p.wild /\ ~p.hangs

\* Between the commands of a program every block, of lines (BLK), of the commands
\* parsed (G_BLOCKS) and of code (IBLOCK_STACK), that was begun is ended, and the
\* scope is that of the program.
Balanced ==
    Good => /\ Len(p.gb) = 1 /\ Len(p.code) = 1 /\ p.scope = Root
            /\ phase = "parse" /\ ~Is(p, "block_end") => Len(p.blk) = 2 /\ Len(p.open) = 1
            /\ phase = "done" => p.blk = LexerInit.blk /\ p.open = <<>>

\* No scope has two variables of one name, also when files are used repeatedly.
DeclaredOnce ==
    \A v, w \in 1..Len(p.vars) :
        /\ v # w /\ V(p, v).name = V(p, w).name /\ V(p, v).scope = V(p, w).scope
        /\ V(p, v).name # "" /\ ~V(p, v).tmp
        => V(p, v).name = "_s"

\* The code computes what the program means, from all values of its variables.
SameMeaning ==
    phase = "done" /\ Good => \A store \in Stores : Ran(p, store) = Meant(program, store)

\* Every command takes a token, so that the parser comes to the end of a program
\* (the loop of ParseCommands).
Taken(q) == FoldLeft(LAMBDA n, k : n + Len(q.lines[k].toks) + 1, q.pos, [k \in 1..q.no - 1 |-> k])
Progresses == phase = "parse" => turns <= Taken(p)
=============================================================================
