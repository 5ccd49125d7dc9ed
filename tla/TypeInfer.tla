------------------------------ MODULE TypeInfer ------------------------------
(***************************************************************************)
(* TypeInfer (src/atalan/type.c): the ranges of values the instructions of *)
(* one procedure compute, found by going through its code until nothing    *)
(* more is learnt.  The code changes in two ways only: a variable that can *)
(* have one value is replaced by a constant, and a condition known before  *)
(* the program runs becomes a GOTO or is removed, with the code it led to. *)
(*                                                                         *)
(* When all is done the procedure may be run, as it was written, on every  *)
(* value of its arguments; the properties compare what happens with what   *)
(* has been inferred.                                                      *)
(*                                                                         *)
(* An instruction is [op, res, a1, a2, to]; an operand [v, n] is variable  *)
(* v, the constant n (v = "#") or none (v = "").  A procedure is cut into  *)
(* basic blocks, [label, code], as GenerateBasicBlocks leaves it.  What    *)
(* LinkBlocks and OptimizeJumps do besides to blocks whose code has become *)
(* empty, or that follow their only caller, does not change what is found, *)
(* and is left out.                                                        *)
(***************************************************************************)
EXTENDS TypeRange, SequencesExt, FiniteSets, Bitwise, TLC

CONSTANTS Procedures,   \* [blocks, in, declared]: the code, the arguments, the declared ranges
          MaxSteps      \* instructions executed in one run

ASSUME TypeInferAssumption ==
    /\ MaxSteps \in Nat
    /\ \A p \in Procedures : p.blocks # <<>> /\ p.in \subseteq DOMAIN p.declared

VARIABLES proc,         \* the procedure
          chain,        \* the blocks still in it
          code,         \* their instructions
          ty,           \* of each: Instr->type, for the result and both arguments, and InstrRestriction
          h,            \* the types
          varType,      \* Var->type
          phase,        \* what TypeInfer is at
          at,           \* the instruction it has come to
          pass,         \* InferData and steps of TypeDeduce
          reports,      \* warnings and errors
          run           \* the procedure executed

inferred == <<chain, code, ty, h, varType, reports>>
vars     == <<proc, chain, code, ty, h, varType, phase, at, pass, reports, run>>

-----------------------------------------------------------------------------
(***************************************************************************)
(* Instructions, operands and the flow graph.                              *)
(***************************************************************************)
Branches == {"ifeq", "ifne", "iflt", "ifge", "ifgt", "ifle"}
Jumps    == Branches \cup {"goto"}
Operators == {"let", "add", "sub", "mul", "div", "mod", "and", "or", "xor"}

NoArg   == [v |-> "", n |-> 0]
Num(n)  == [v |-> "#", n |-> n]
X(v)    == [v |-> v, n |-> 0]
IsVar(a) == a.v \notin {"", "#"}

OpRelSwap(op) ==
    CASE op = "ifle" -> "ifge" [] op = "ifge" -> "ifle" [] op = "ifgt" -> "iflt"
      [] op = "iflt" -> "ifgt" [] OTHER -> op

Locals == {v \in DOMAIN varType : v \notin DOMAIN proc.declared}
InstrAt(l) == code[l.b][l.i]
Places     == UNION {{[b |-> b, i |-> i] : i \in DOMAIN code[b]} : b \in ToSet(chain)}
TypesAt(l) == ty[l.b][l.i]

Ends(b) == IF code[b] = <<>> THEN [op |-> "void", to |-> ""] ELSE
           [op |-> Last(code[b]).op, to |-> Last(code[b]).to]
Place(b)  == CHOOSE k \in 1..Len(chain) : chain[k] = b
Labelled(l) == CHOOSE b \in ToSet(chain) : proc.blocks[b].label = l

\* from is the block before, unless it ends with GOTO; callers are the blocks
\* that jump, those linked last first.
From(b) == IF b # chain[1] /\ Ends(chain[Place(b) - 1]).op # "goto"
           THEN <<[b |-> chain[Place(b) - 1], neg |-> TRUE]>> ELSE <<>>
JumpsTo(b) == SelectSeq(Reverse(chain), LAMBDA c : /\ Ends(c).op \in Jumps
                                                   /\ Labelled(Ends(c).to) = b)
Callers(b) == [k \in 1..Len(JumpsTo(b)) |-> [b |-> JumpsTo(b)[k], neg |-> FALSE]]
JumpedFrom(b) == Callers(b)                 \* mutant: the block before is forgotten
Preds(b) == From(b) \o Callers(b)

\* Labels VarUse has counted a jump to; only jumps deleted later have been taken
\* off, those of removed blocks have not.
Deleted(b)   == Len(code[b]) < Len(proc.blocks[b].code)
LabelUsed(l) == \E b \in DOMAIN code : /\ proc.blocks[b].code # <<>> /\ ~Deleted(b)
                                       /\ Last(proc.blocks[b].code).op \in Jumps
                                       /\ Last(proc.blocks[b].code).to = l

\* A block LinkBlocks makes part of the one before.
Merged(b) == /\ From(b) # <<>> /\ JumpsTo(b) = <<>>
             /\ Ends(From(b)[1].b).op \notin Jumps
             /\ ~LabelUsed(proc.blocks[b].label)

-----------------------------------------------------------------------------
(***************************************************************************)
(* FindType: the type a variable has before the instruction at l, from     *)
(* what has been written to it on all paths there.  g is what the search   *)
(* has seen: blocks done and the types remembered for them, of a block     *)
(* under way Null, and whether a path without any value has been met.      *)
(***************************************************************************)
Search(heap) == [h |-> heap, done |-> {}, memo |-> [b \in DOMAIN code |-> Null], undefined |-> FALSE]

\* The last of the first n instructions of a block that writes a variable.
Writers(b, n, v) == {i \in 1..n : code[b][i].res = v \/ v \in code[b][i].outs}
LastOf(I) == CHOOSE i \in I : \A j \in I : j <= i

SelfReferencing(i) == IsVar(X(i.res)) /\ i.res \in {i.a1.v, i.a2.v}

\* What is known of the value a writer w leaves in v.
Written(heap, l, v, w) ==
    LET i == InstrAt(w)
        t == TypesAt(w)
    IN  CASE i.op = "call" -> Known(heap, varType[v])
          [] i.op # "call" /\ t.r # Null /\ ~t.restr -> Known(heap, t.r)
          [] i.op # "call" /\ (t.r = Null \/ t.restr) ->
                IF w = l /\ SelfReferencing(i) /\ i.a2.v # v /\ t.a2 # Null
                THEN Alloc(heap, Sequence(i.op, t.a2, Null, "void", Null))
                ELSE Known(heap, Undefined)

\* What the branch a block ends with says of a variable.
TypeRestrictBlk(heap, t, v, b, neg) ==
    LET i     == Last(code[b])
        types == Last(ty[b])
        left  == i.a1.v = v
        op    == IF left THEN i.op ELSE OpRelSwap(i.op)
        other == IF left THEN i.a2 ELSE i.a1
        found == IF left THEN types.a2 ELSE types.a1
        with  == IF found # Null THEN Known(heap, found)
                 ELSE IF IsVar(other) THEN Known(heap, varType[other.v])
                 ELSE Alloc(heap, Interval(other.n, other.n))
    IN  IF \/ t \in {Null, Undefined}
           \/ Ends(b).op \notin Branches
           \/ v \notin {i.a1.v, i.a2.v}
        THEN Known(heap, t)
        ELSE TypeRestrictOp(with.h, t, with.t, IF neg THEN OpNot(op) ELSE op)

\* What one way into a block adds; the union is restricted again.
Union(g, type, found, v, p) ==
    LET restricted(k) == TypeRestrictBlk(k.h, k.t, v, p.b, p.neg)
        union(k) == TypeUnion(k.h, type, k.t)
        seen(k)  == [g |-> [g EXCEPT !.h = k.h], t |-> k.t]
    IN  seen(restricted(union(restricted(Known(g.h, found)))))

RECURSIVE FindTypeBlock(_, _, _, _, _), FindTypeFrom(_, _, _, _, _)
\* The ways in ps one after the other, until one has no type.
FindTypeFrom(g, l, v, t, ps) ==
    LET next(k)  == FindTypeFrom(k.g, l, v, k.t, Tail(ps))
        found(f) == IF f.t = Undefined THEN f
                    ELSE next(IF f.t = Null THEN [f EXCEPT !.t = t] ELSE Union(f.g, t, f.t, v, Head(ps)))
    IN  IF ps = <<>> THEN [g |-> g, t |-> t]
        ELSE found(FindTypeBlock(g, l, v, Head(ps).b, Len(code[Head(ps).b]) + 1))

\* Before instruction n of block b; a whole block is searched once.
FindTypeBlock(g, l, v, b, n) ==
    LET whole   == n > Len(code[b])
        under   == IF whole THEN [g EXCEPT !.done = @ \cup {b}, !.memo[b] = Null]
                   ELSE [g EXCEPT !.memo[b] = Null]
        writers == Writers(b, n - 1, v)
        entry   == Preds(b) = <<>>
        uninit  == entry /\ v \notin proc.in
        start   == IF ~entry THEN Null ELSE IF uninit THEN Undefined ELSE varType[v]
        written(k)    == [g |-> [under EXCEPT !.h = k.h], t |-> k.t]
        remembered(f) == [g |-> [f.g EXCEPT !.memo[b] = f.t], t |-> f.t]
    IN  IF whole /\ b \in g.done THEN [g |-> g, t |-> g.memo[b]]
        ELSE remembered(
               IF writers # {} THEN written(Written(g.h, l, v, [b |-> b, i |-> LastOf(writers)]))
               ELSE FindTypeFrom([under EXCEPT !.undefined = @ \/ uninit], l, v, start, Preds(b)))

\* UNDEFINED is no type; and the code reads through NULL when no way in has one.
FindType(heap, l, a) ==
    LET found(f) == IF f.t = Null THEN Crash(f.g.h) @@ ("undefined" :> FALSE)
                    ELSE [h |-> f.g.h, t |-> IF f.t = Undefined THEN Null ELSE f.t,
                          undefined |-> f.t = Undefined /\ f.g.undefined]
    IN  IF IsVar(a) THEN found(FindTypeBlock(Search(heap), l, a.v, l.b, l.i))
        ELSE Alloc(heap, Interval(a.n, a.n)) @@ ("undefined" :> FALSE)

-----------------------------------------------------------------------------
(***************************************************************************)
(* InstrInferType of one instruction.  A type that has been found is not   *)
(* looked for again, except what is only a restriction.                    *)
(***************************************************************************)
\* A variable that can have one value only.
ReplaceConst(heap, a, t) == IF IsVar(a) /\ IsConst(heap, t) THEN Num(Low(heap, t)) ELSE a

FindMissing(heap, l, had, a) ==
    IF had = Null /\ a.v # "" THEN FindType(heap, l, a)
    ELSE [h |-> heap, t |-> Null, undefined |-> FALSE]

\* The types an instruction has now, and whether anything new is known.
Looked(l) ==
    LET i == InstrAt(l)
        t == TypesAt(l)
        taken(had, f) == IF had = Null THEN f.t ELSE had
        unread(f, a)  == IF f.undefined THEN {a.v} ELSE {}
        both(f1, f2)  == [h |-> f2.h, a1 |-> taken(t.a1, f1), a2 |-> taken(t.a2, f2),
                          found |-> f1.t # Null \/ f2.t # Null,
                          uninit |-> unread(f1, i.a1) \cup unread(f2, i.a2)]
        second(f1) == both(f1, FindMissing(f1.h, l, t.a2, i.a2))
    IN  second(FindMissing(h, l, t.a1, i.a1))

Eval(k, i) == IF i.op \in Operators THEN TypeEval(k.h, i.op, k.a1, k.a2) ELSE Known(k.h, Null)

DoesNotFit(heap, v, t) == /\ t # Null /\ v \in DOMAIN proc.declared
                          /\ ~TypeIsSubsetOf(heap, t, varType[v])

Report(what, l, v) == [what |-> what, at |-> l, var |-> v]

\* Variables that FindType found no value for on some path.  What has another
\* scope is supposed to have one.
NoWarning(l, vs)     == {}      \* mutant: nothing is reported
Uninitialized(l, vs) == {Report("uninitialized", l, v) : v \in vs \cap Locals}

\* What the instruction becomes, where the types k have been found for its
\* arguments, e for its result, and d of its condition; stop ends the pass.
Typed(l, final, k, e, d) ==
    LET i  == InstrAt(l)
        t  == TypesAt(l)
        i2 == [i EXCEPT !.a1 = ReplaceConst(k.h, @, k.a1), !.a2 = ReplaceConst(k.h, @, k.a2)]
        r  == IF e.t # Null THEN [r |-> e.t, a1 |-> k.a1, a2 |-> k.a2, restr |-> FALSE]
              ELSE [t EXCEPT !.a1 = k.a1, !.a2 = k.a2]
        goto == [i EXCEPT !.op = "goto", !.a1 = NoArg, !.a2 = NoArg]
        rest == SubSeq(code[l.b], 1, l.i - 1)
    IN  [code     |-> CASE d.true  -> [code EXCEPT ![l.b] = Append(rest, goto)]
                            [] d.false -> [code EXCEPT ![l.b] = rest]
                            [] OTHER   -> [code EXCEPT ![l.b][l.i] = i2],
         ty       |-> IF d.false THEN [ty EXCEPT ![l.b] = SubSeq(@, 1, l.i - 1)]
                          ELSE [ty EXCEPT ![l.b][l.i] = r],
         h        |-> e.h,
         modified |-> k.found \/ e.t # Null,
         stop     |-> d.true \/ d.false,
         reports  |-> IF ~final THEN {}
                      ELSE Uninitialized(l, k.uninit)
                               \cup {Report("does not fit", l, v) :
                                       v \in {w \in {i.res} : DoesNotFit(e.h, w, e.t)}}]

Inferred(l, final) ==
    LET i == InstrAt(l)
        condition(k) == IF i.op \in Branches /\ Null \notin {k.a1, k.a2}
                        THEN Decided(i.op, Extent(k.h, k.a1), Extent(k.h, k.a2))
                        ELSE [true |-> FALSE, false |-> FALSE]
        typed(k) == Typed(l, final, k, Eval(k, i), condition(k))
    IN  IF TypesAt(l).r # Null /\ ~TypesAt(l).restr
        THEN [code |-> code, ty |-> ty, h |-> h, modified |-> FALSE, stop |-> FALSE, reports |-> {}]
        ELSE typed(Looked(l))

(***************************************************************************)
(* InstrConstraints: what the result and the second argument say of the    *)
(* first one, of which nothing is known, is left at the instruction that   *)
(* writes it.  A restriction that is not known is left there, too.         *)
(***************************************************************************)
Constrains(l) == /\ TypesAt(l).r # Null /\ TypesAt(l).a2 # Null /\ TypesAt(l).a1 = Null
                 /\ InstrAt(l).op \in DOMAIN Opposite

RECURSIVE WriterBefore(_, _, _)
\* The instruction of this block that writes a variable before instruction n, if any.
WriterBefore(b, n, v) ==
    LET writers == {i \in 1..(n - 1) : code[b][i].res = v}
        before  == From(b)[1].b
    IN  IF writers # {} THEN {[b |-> b, i |-> LastOf(writers)]}
        ELSE IF Merged(b) THEN WriterBefore(before, Len(code[before]) + 1, v)
        ELSE {}

Whatever(w)    == TRUE       \* mutant: what is known is restricted again
NotInferred(w) == TypesAt(w).r = Null

\* DistributeRestrictionBlk, for the first argument.
Constrained(l) ==
    LET v  == InstrAt(l).a1.v
        ws == {w \in WriterBefore(l.b, l.i, v) : NotInferred(w)}
        left(e) == [ty |-> [b \in DOMAIN ty |-> [i \in DOMAIN ty[b] |->
                              IF [b |-> b, i |-> i] \in ws THEN [ty[b][i] EXCEPT !.r = e.t, !.restr = TRUE]
                              ELSE ty[b][i]]],
                    h |-> e.h, modified |-> ws # {}]
    IN  IF Constrains(l) THEN left(TypeEval(h, Opposite[InstrAt(l).op], TypesAt(l).r, TypesAt(l).a2))
        ELSE [ty |-> ty, h |-> h, modified |-> FALSE]

-----------------------------------------------------------------------------
(***************************************************************************)
(* TypeInferLoops: the number of steps of a loop that ends with a branch   *)
(* back limits the sequences computed in it.                               *)
(***************************************************************************)
Target(b)   == IF Ends(b).op \in Jumps THEN Labelled(Ends(b).to) ELSE b
LoopEnds(b) == Ends(b).op \in Branches /\ Place(Target(b)) <= Place(b)

\* LoopSteps of the branch block b ends with.
LoopSteps(heap, b) ==
    LET t    == Last(ty[b])
        seq  == heap.types[t.a1]
        span(limit, init) == limit - init + 1
        step == [min |-> Low(heap, seq.step), max |-> High(heap, seq.step)]
    IN  IF \/ Null \in {t.a1, t.a2} \/ ~IsSeq(heap, t.a1)
           \/ ~HasEnds(heap, seq) \/ seq.op # "add"
        THEN [known |-> FALSE, bad |-> FALSE]
        ELSE IF 0 \in {step.min, step.max} THEN [known |-> FALSE, bad |-> TRUE]
        ELSE [known |-> TRUE, bad |-> FALSE,
              min |-> Div(span(Low(heap, seq.limit), High(heap, seq.init)), step.max),
              max |-> Div(span(High(heap, seq.limit), Low(heap, seq.init)), step.min)]

\* The range of a sequence computed by a loop of so many steps.
LoopRange(heap, seq, steps) ==
    Interval(IF seq.op = "add" THEN Low(heap, seq.init) + (steps.min - 1) * Low(heap, seq.step)
             ELSE Low(heap, seq.init) - (steps.max - 1) * High(heap, seq.step),
             IF seq.op = "add" THEN High(heap, seq.init) + (steps.max - 1) * High(heap, seq.step)
             ELSE High(heap, seq.init))

Bounded(heap, t) == /\ IsSeq(heap, t) /\ heap.types[t].limit = Null
                    /\ IsInt(heap, heap.types[t].step) /\ IsInt(heap, heap.types[t].init)
                    /\ heap.types[t].op \in {"add", "sub"}

\* UseLoop, for all instructions of the loop that ends with block b.
InLoop(b) == {c \in ToSet(chain) : Place(Target(b)) <= Place(c) /\ Place(c) <= Place(b)}
UseLoop(s, b, steps) ==
    FoldLeft(LAMBDA z, l :
        IF ~Bounded(z.h, z.ty[l.b][l.i].r) THEN z
        ELSE LET with(new) == [h |-> new.h, ty |-> [z.ty EXCEPT ![l.b][l.i].r = new.t], modified |-> TRUE]
             IN  with(Alloc(z.h, LoopRange(z.h, z.h.types[z.ty[l.b][l.i].r], steps))),
        [s EXCEPT !.modified = FALSE],
        SetToSeq({l \in Places : l.b \in InLoop(b)}))

\* Whether the last of the loops has changed anything.
Loops(ps) ==
    FoldLeft(LAMBDA z, b :
        IF ~LoopEnds(b) THEN z
        ELSE LET use(steps) == IF steps.bad THEN [z EXCEPT !.h.bad = TRUE]
                               ELSE IF steps.known THEN UseLoop(z, b, steps) ELSE z
             IN  use(LoopSteps(z.h, b)),
        [h |-> h, ty |-> ty, modified |-> FALSE], ps)

\* InstrFreeIncomplete.
Incomplete(heap, t) == IsSeq(heap, t) /\ Null \in {heap.types[t].init, heap.types[t].step, heap.types[t].limit}
FreeIncomplete(heap, types) ==
    LET clear(t) == IF Incomplete(heap, t) THEN Null ELSE t
    IN  [b \in DOMAIN types |-> [i \in DOMAIN types[b] |->
            [types[b][i] EXCEPT !.r = clear(@), !.a1 = clear(@), !.a2 = clear(@)]]]

-----------------------------------------------------------------------------
(***************************************************************************)
(* TypeInfer: the passes, one instruction at a time.                       *)
(***************************************************************************)
NoPlace == [b |-> 0, i |-> 0]

\* Places in the order of ProcInstrEnum.
FirstFrom(ch, k) ==
    LET full == {j \in k..Len(ch) : code[ch[j]] # <<>>}
    IN  IF full = {} THEN NoPlace
        ELSE [b |-> ch[CHOOSE j \in full : \A m \in full : j <= m], i |-> 1]
Start      == FirstFrom(chain, 1)
NextInstr(l) == [l EXCEPT !.i = @ + 1]      \* mutant: the end of a block is not seen
After(l) == IF l.i < Len(code[l.b]) THEN [l EXCEPT !.i = @ + 1]
              ELSE FirstFrom(chain, Place(l.b) + 1)

\* GenerateBasicBlocks and DeadCodeElimination.
DeadBlock(b) == /\ b # chain[1] /\ Preds(b) = <<>>
                /\ ~LabelUsed(proc.blocks[b].label)
Live == SelectSeq(chain, LAMBDA b : ~DeadBlock(b))

NewPass(steps, declared) == [modified |-> FALSE, blocks |-> FALSE, steps |-> steps, declared |-> declared]
NotRun == [at |-> NoPlace, vals |-> <<>>, known |-> {}, steps |-> 0, end |-> ""]

Init ==
    /\ proc \in Procedures
    /\ chain = [b \in 1..Len(proc.blocks) |-> b]
    /\ code = [b \in DOMAIN proc.blocks |-> proc.blocks[b].code]
    /\ ty = [b \in DOMAIN code |->
               [i \in DOMAIN code[b] |-> [r |-> Null, a1 |-> Null, a2 |-> Null, restr |-> FALSE]]]
    /\ LET names == SetToSeq(DOMAIN proc.declared)
           place == [v \in ToSet(names) |-> CHOOSE k \in 1..Len(names) : names[k] = v]
           vs    == UNION {{code[b][i].res : i \in DOMAIN code[b]} : b \in DOMAIN code} \ {""}
       IN  /\ h = [NoTypes EXCEPT !.types = @ \o
                     [k \in 1..Len(names) |-> Interval(proc.declared[names[k]].min, proc.declared[names[k]].max)]]
           /\ varType = [v \in vs \cup DOMAIN proc.declared |->
                           IF v \in DOMAIN proc.declared THEN Len(NoTypes.types) + place[v] ELSE Undefined]
    /\ phase = "infer"
    /\ at = [b |-> 1, i |-> 1]
    /\ pass = NewPass(0, FALSE)
    /\ reports = {}
    /\ run = NotRun

\* InstrInferType in TypeDeduce and, with reports, in the final pass.
InferInstr ==
    /\ phase \in {"infer", "final"} /\ at # NoPlace
    /\ \E r \in {Inferred(at, phase = "final")} :
           /\ code' = r.code /\ ty' = r.ty /\ h' = r.h
           /\ reports' = reports \cup r.reports
           /\ pass' = [pass EXCEPT !.modified = @ \/ r.modified, !.blocks = @ \/ r.stop]
           /\ at' = IF r.stop THEN NoPlace ELSE After(at)
    /\ UNCHANGED <<proc, chain, varType, phase, run>>

\* Everything is tried again as long as a pass finds something.
EndInferPass ==
    /\ phase = "infer" /\ at = NoPlace
    /\ chain' = IF pass.blocks THEN Live ELSE chain
    /\ at' = FirstFrom(chain', 1)
    /\ pass' = NewPass(0, pass.declared)
    /\ phase' = IF pass.modified THEN "infer" ELSE "constrain"
    /\ UNCHANGED <<proc, code, ty, h, varType, reports, run>>

ConstrainInstr ==
    /\ phase \in {"constrain", "final constrain"} /\ at # NoPlace
    /\ \E c \in {Constrained(at)} :
           /\ ty' = c.ty /\ h' = c.h
           /\ pass' = [pass EXCEPT !.modified = @ \/ c.modified]
    /\ at' = After(at)
    /\ UNCHANGED <<proc, chain, code, varType, phase, reports, run>>

EndConstrainPass ==
    /\ phase = "constrain" /\ at = NoPlace
    /\ phase' = CASE pass.modified -> "constrain"
                  [] ~pass.modified /\ pass.steps > 0 -> "infer"
                  [] OTHER -> "loops"
    /\ pass' = NewPass(IF pass.modified THEN pass.steps + 1 ELSE 0, pass.declared)
    /\ at' = Start
    /\ UNCHANGED <<proc, chain, code, ty, h, varType, reports, run>>

\* TypeInferLoops, and what is not complete is looked for again.
InferLoops ==
    /\ phase = "loops"
    /\ \E s \in {Loops(chain)} :
           /\ h' = s.h
           /\ ty' = IF s.modified THEN FreeIncomplete(s.h, s.ty) ELSE s.ty
           /\ phase' = CASE s.modified -> "infer"
                         [] ~s.modified /\ ~pass.declared -> "declared"
                         [] OTHER -> "final"
    /\ UNCHANGED <<proc, chain, code, varType, at, pass, reports, run>>

\* InstrUseDeclaredTypes: where nothing has been found, what is declared is taken.
Declared(a, t) == IF t = Null /\ a.v \in DOMAIN proc.declared THEN varType[a.v] ELSE t
UsedDeclared(i, t) ==
    LET a1 == Declared(i.a1, t.a1)
        a2 == Declared(i.a2, t.a2)
        unknown == (a1 = Null /\ i.a1.v # "") \/ (a2 = Null /\ i.a2.v # "")
    IN  IF t.r # Null THEN t
        ELSE [t EXCEPT !.a1 = a1, !.a2 = a2, !.r = IF unknown THEN Declared(X(i.res), Null) ELSE Null]

UseDeclaredTypes ==
    /\ phase = "declared"
    /\ ty' = [b \in DOMAIN ty |-> [i \in DOMAIN ty[b] |->
                IF b \in ToSet(chain) THEN UsedDeclared(code[b][i], ty[b][i]) ELSE ty[b][i]]]
    /\ phase' = IF ty' # ty THEN "infer" ELSE "final"
    /\ pass' = NewPass(0, TRUE)
    /\ UNCHANGED <<proc, chain, code, h, varType, at, reports, run>>

EndFinalPass ==
    /\ phase \in {"final", "final constrain"} /\ at = NoPlace
    /\ phase' = IF phase = "final" THEN "final constrain" ELSE "extend"
    /\ at' = Start
    /\ UNCHANGED <<proc, chain, code, ty, h, varType, pass, reports, run>>

\* The type of a variable is extended by what is written to it; it is an error
\* if that is not known.
ExtendVariable ==
    /\ phase = "extend" /\ at # NoPlace
    /\ LET v == InstrAt(at).res
           t == TypesAt(at)
           found == t.r # Null /\ ~t.restr
       IN  IF v \notin Locals THEN UNCHANGED <<h, varType, reports>>
           ELSE \E e \in {IF found THEN TypeExpand(h, varType[v], t.r) ELSE Known(h, varType[v])} :
                /\ h' = e.h
                /\ varType' = [varType EXCEPT ![v] = e.t]
                /\ reports' = IF found THEN reports
                              ELSE reports \cup {Report("cannot infer", at, v)}
    /\ at' = After(at)
    /\ UNCHANGED <<proc, chain, code, ty, phase, pass, run>>

Analyse ==
    \/ InferInstr \/ EndInferPass \/ ConstrainInstr \/ EndConstrainPass
    \/ InferLoops \/ UseDeclaredTypes \/ EndFinalPass \/ ExtendVariable

-----------------------------------------------------------------------------
(***************************************************************************)
(* The procedure executed as it was written.  A run stops where it has no  *)
(* meaning: at a variable never assigned, at a division by zero, at bits   *)
(* of a negative number, and when a declared variable has left its range.  *)
(***************************************************************************)
SourceAt(l) == proc.blocks[l.b].code[l.i]
SourceFrom(b) == LET full == {c \in b..Len(proc.blocks) : proc.blocks[c].code # <<>>}
                 IN  IF full = {} THEN NoPlace
                     ELSE [b |-> CHOOSE c \in full : \A d \in full : c <= d, i |-> 1]
SourceAfter(l) == IF l.i < Len(proc.blocks[l.b].code) THEN [l EXCEPT !.i = @ + 1] ELSE SourceFrom(l.b + 1)
SourceLabel(l) == CHOOSE b \in DOMAIN proc.blocks : proc.blocks[b].label = l

Value(a)  == IF IsVar(a) THEN run.vals[a.v] ELSE a.n
Used(i)   == {v \in {i.a1.v, i.a2.v} : IsVar(X(v))}
HasResult(i, x, y) ==
    /\ i.op \in {"div", "mod"} => y # 0
    /\ i.op \in {"and", "or", "xor"} => x >= 0 /\ y >= 0
Result(i, x, y) ==
    CASE i.op = "let" -> x
      [] i.op = "and" -> x & y
      [] i.op = "or"  -> x | y
      [] i.op = "xor" -> x ^^ y
      [] OTHER        -> Applied(i.op, x, y)
Taken(i, x, y) == Satisfies(i.op, x, y)

Executing == phase = "run" /\ run.end = "" /\ run.at # NoPlace
Current   == SourceAt(run.at)
Ready     == /\ Executing /\ Used(Current) \subseteq run.known
             /\ HasResult(Current, Value(Current.a1), Value(Current.a2))
AsDeclared(v, n) == v \in DOMAIN proc.declared => proc.declared[v].min <= n /\ n <= proc.declared[v].max

Begin ==
    /\ phase = "extend" /\ at = NoPlace
    /\ \E vals \in [proc.in -> UNION {proc.declared[v].min..proc.declared[v].max : v \in proc.in}] :
          /\ \A v \in proc.in : AsDeclared(v, vals[v])
          /\ run' = [at |-> SourceFrom(1), steps |-> 0, end |-> "", known |-> proc.in,
                     vals |-> [v \in DOMAIN varType |-> IF v \in proc.in THEN vals[v] ELSE 0]]
    /\ phase' = "run"
    /\ UNCHANGED <<proc, chain, code, ty, h, varType, at, pass, reports>>

Stop(why) == run' = [run EXCEPT !.end = why]

Execute ==
    /\ Executing /\ run.steps < MaxSteps
    /\ LET i == Current
           x == Value(i.a1)
           y == Value(i.a2)
           n == Result(i, x, y)
           next == SourceAfter(run.at)
           go(l) == run' = [run EXCEPT !.at = l, !.steps = @ + 1]
       IN  CASE ~(Used(i) \subseteq run.known) -> Stop("uninitialized")
             [] Used(i) \subseteq run.known /\ ~HasResult(i, x, y) -> Stop("undefined")
             [] Ready /\ i.op \in Branches ->
                   go(IF Taken(i, x, y) THEN SourceFrom(SourceLabel(i.to)) ELSE next)
             [] Ready /\ i.op = "goto" -> go(SourceFrom(SourceLabel(i.to)))
             [] Ready /\ i.op = "call" ->
                   \E new \in [i.outs -> UNION {proc.declared[v].min..proc.declared[v].max : v \in i.outs}] :
                      /\ \A v \in i.outs : AsDeclared(v, new[v])
                      /\ run' = [run EXCEPT !.at = next, !.steps = @ + 1, !.known = @ \cup i.outs,
                                            !.vals = new @@ @]
             [] Ready /\ i.op \in Operators ->
                   run' = [run EXCEPT !.at = next, !.steps = @ + 1, !.known = @ \cup {i.res},
                                      !.vals[i.res] = n,
                                      !.end = IF AsDeclared(i.res, n) THEN "" ELSE "does not fit"]
    /\ UNCHANGED <<inferred, proc, phase, at, pass>>

Next == Analyse \/ Begin \/ Execute

Spec == Init /\ [][Next]_vars

-----------------------------------------------------------------------------
(***************************************************************************)
(* Properties.                                                             *)
(***************************************************************************)
IsType(t) == t \in 0..Len(h.types)

\* The variables have their types.
TypeOK ==
    /\ ToSet(chain) \subseteq DOMAIN code /\ DOMAIN ty = DOMAIN code
    /\ \A b \in DOMAIN code : DOMAIN ty[b] = DOMAIN code[b]
    /\ \A l \in Places : IsType(TypesAt(l).r) /\ IsType(TypesAt(l).a1) /\ IsType(TypesAt(l).a2)
    /\ \A v \in DOMAIN varType : IsType(varType[v])
    /\ at \in Places \cup {NoPlace}
    /\ run.end \in {"", "uninitialized", "undefined", "does not fit"}

\* The compiler does not read through NULL or divide by zero.
NoCrash == ~h.bad

\* An instruction that is executed finds its arguments in the types inferred for
\* them, and computes a value of the type inferred for its result.
TypesContain ==
    Ready /\ run.at \in Places =>
        LET t == TypesAt(run.at)
        IN  /\ Holds(h, t.a1, Value(Current.a1)) /\ Holds(h, t.a2, Value(Current.a2))
            /\ Current.op \in Operators /\ ~t.restr =>
                  Holds(h, t.r, Result(Current, Value(Current.a1), Value(Current.a2)))

\* What has been replaced or removed because of what is inferred did the same:
\* an executed instruction is still there unless it is a branch not taken, a
\* GOTO that was a branch is taken, a constant is the value of the variable.
SameMeaning ==
    Ready =>
        LET i == InstrAt(run.at)
            taken == Taken(Current, Value(Current.a1), Value(Current.a2))
        IN  /\ run.at.b \in ToSet(chain)
            /\ IF run.at \notin Places THEN Current.op \in Branches /\ ~taken
               ELSE /\ i.op = "goto" /\ Current.op # "goto" => taken
                    /\ i.op # "goto" /\ IsVar(Current.a1) /\ ~IsVar(i.a1) => i.a1.n = Value(Current.a1)
                    /\ i.op # "goto" /\ IsVar(Current.a2) /\ ~IsVar(i.a2) => i.a2.n = Value(Current.a2)

\* A variable is given a type that holds all values it ever has, or an error is
\* reported.
Fits ==
    phase = "run" =>
        \A v \in Locals \cap run.known :
            \/ \E r \in reports : r.what = "cannot infer" /\ r.var = v
            \/ Holds(h, varType[v], run.vals[v])

\* A local variable that is read where it has not been assigned is reported there,
\* as this variable, used uninitialized (the warnings of FindType).
UninitializedReported ==
    run.end = "uninitialized" =>
        \A v \in (Used(Current) \cap Locals) \ run.known :
            Report("uninitialized", run.at, v) \in reports

\* What is settled: types found and not merely restricted, and code that is gone.
SourcePlaces == UNION {{[b |-> b, i |-> i] : i \in DOMAIN proc.blocks[b].code} : b \in DOMAIN proc.blocks}
Settled == {<<l, f>> \in SourcePlaces \X {"r", "a1", "a2", "restr"} :
              \/ l.i \notin DOMAIN ty[l.b]
              \/ IF f = "restr" THEN TypesAt(l).r # Null /\ ~TypesAt(l).restr ELSE TypesAt(l)[f] # Null}

\* A pass is to be repeated only if it has settled something, so the passes
\* come to an end.
PassesSettle ==
    [][~pass.modified /\ pass'.modified => Cardinality(Settled) < Cardinality(Settled')]_vars
=============================================================================
