------------------------------ MODULE VarAlloc ------------------------------
(***************************************************************************)
(* Placing the variables of a program into memory: AllocateVariables       *)
(* (src/atalan/opt_var_use.c), called for every used procedure in the      *)
(* order of VARS and for the root procedure last.  There is no stack:      *)
(* every local variable and argument is a global one, and a procedure      *)
(* takes over the memory of procedures it is "not related to" by calls.    *)
(*                                                                         *)
(* The two things it relies on come before it in the same module, as they  *)
(* do in main.c: ProcUse (which procedures are used, and from interrupts)  *)
(* and OptimizeJumps, which turns the CALL a procedure ends with into a    *)
(* GOTO.  Procedures are 1..NProc in the order of VARS; the root procedure *)
(* is not in VARS, and is processed after them.                            *)
(***************************************************************************)
EXTENDS HeapBlocks

CONSTANTS NProc,        \* procedures with code in VARS
          MaxVars,      \* bound: variables of one procedure
          VarHeap,      \* VAR_HEAP as the platform fills it
          Programs      \* the programs compiled

Proc   == 1..NProc
Root   == NProc + 1
Owner  == 1..(NProc + 1)
NoCall == 0
NoAdr  == -1
Vars   == Owner \X (1..MaxVars)

(***************************************************************************)
(* A program, as far as the placing of variables looks at it.              *)
(***************************************************************************)
Program ==
    [calls    : [Owner -> SUBSET Proc],          \* calls inside the code
     last     : [Owner -> Proc \cup {NoCall}],   \* the call the code ends with
     handlers : SUBSET Proc,    \* interrupt routines the root code installs
     sizes    : [Owner -> Seq(Nat \ {0})],       \* its used memory variables
     own      : [Owner -> Nat], \* so many in its own scope, the rest in a block
     optimize : BOOLEAN]        \* OPTIMIZE > 0

ASSUME VarAllocAssumption ==
    /\ NProc \in Nat
    /\ MaxVars \in Nat
    /\ VarHeap \in Seq(Block) /\ Disjoint(VarHeap)
    /\ Programs \subseteq Program
    /\ \A prg \in Programs : \A p \in Owner : Len(prg.sizes[p]) <= MaxVars

VARIABLES prog,         \* the program
          jumped,       \* procedures whose last CALL OptimizeJumps made a GOTO
          adr,          \* address of every variable
          aliased,      \* variables placed by "var->adr = var2"
          varHeap,      \* VAR_HEAP
          heap,         \* the heap local to AllocateVariables
          removing,     \* HeapRemoveBlock in progress on it
          phase,        \* "jumps", then "add", "remove", "alloc" per procedure
          proc, proc2,  \* the procedure processed, the one compared with it
          var           \* index of the variable processed

vars == <<prog, jumped, adr, aliased, varHeap, heap, removing,
          phase, proc, proc2, var>>

Idle == [active |-> FALSE, adr |-> 0, end |-> 0, at |-> 0]

Size(v)  == prog.sizes[v[1]][v[2]]
NVars(p) == Len(prog.sizes[p])

-----------------------------------------------------------------------------
(***************************************************************************)
(* Calls.  Closure is what the depth-first walks of ProcUse and            *)
(* ProcCallsProc compute; their VarProcessed flag only cuts cycles.        *)
(***************************************************************************)
Ending(p) == IF prog.last[p] = NoCall THEN {} ELSE {prog.last[p]}

\* Control passes from p to these, as written in the source.
Continues == [p \in Owner |-> prog.calls[p] \cup Ending(p)]

\* The INSTR_CALL instructions of p.
Calls == [p \in Owner |->
             prog.calls[p] \cup (IF p \in jumped THEN {} ELSE Ending(p))]

\* Everything the edges lead to from the set S of procedures.
Closure(edge, S) ==
    LET after[n \in Nat] ==
            IF n = 0 THEN S
            ELSE LET C == after[n - 1] IN C \cup UNION {edge[x] : x \in C}
    IN  after[NProc]

\* Walks the code of p and of what it calls.
ProcCallsProc(p, q) == q \in Closure(Calls, Calls[p])

Related(p, q) == ProcCallsProc(p, q) \/ ProcCallsProc(q, p)

\* ProcUse from the root procedure: proc->read > 0.
Used == Closure(Continues, Continues[Root] \cup prog.handlers)

\* ProcUse sets VarUsedInInterupt on what a handler calls, not on the handler.
UsedInInterupt ==
    Closure(Continues, UNION {Continues[h] : h \in prog.handlers})

-----------------------------------------------------------------------------
Init ==
    /\ prog \in Programs
    /\ jumped = {}
    /\ adr = [v \in Vars |-> NoAdr]
    /\ aliased = {}
    /\ varHeap = VarHeap
    /\ heap = <<>>
    /\ removing = Idle
    /\ phase = "jumps"
    /\ proc = 1 /\ proc2 = 1 /\ var = 1

\* Mutant: VarNext is lost.
NextOwnerStuck(p) == IF p = Root THEN 1 ELSE p

\* ProcessUsedProc goes to the next procedure of VARS, the root one at last.
NextOwner(p) == IF p = Root THEN 1 ELSE p + 1

(***************************************************************************)
(* OptimizeJumps(proc): "call A; rts" becomes "goto A", except in          *)
(* interrupt routines.  Only a used procedure is processed.                *)
(***************************************************************************)
TailCall(p) ==
    prog.optimize /\ p \in Used \cup {Root} /\ p \notin prog.handlers
        /\ prog.last[p] # NoCall

OptimizeJumps ==
    /\ phase = "jumps"
    /\ jumped' = IF TailCall(proc) THEN jumped \cup {proc} ELSE jumped
    /\ proc' = NextOwner(proc)
    /\ phase' = IF proc = Root THEN "add" ELSE "jumps"
    /\ UNCHANGED <<prog, adr, aliased, varHeap, heap, removing, proc2, var>>

\* An unused procedure gets no memory.
SkipUnused ==
    /\ phase = "add"
    /\ proc \notin Used \cup {Root}
    /\ proc' = NextOwner(proc)
    /\ UNCHANGED <<prog, jumped, adr, aliased, varHeap, heap, removing, phase,
                   proc2, var>>

\* A variable whose "adr" is a number, which HeapVarOp looks at.
HasAddress(v) == adr[v] # NoAdr /\ v \notin aliased

\* Procedures whose memory proc takes over.
Reuses(p, q) == q \in Used /\ q # p /\ ~Related(p, q)

\* Mutant: only interrupts are excluded, the second test of calls is lost.
ExcludesInterupt(p, q) == q \in Used /\ q # p /\ q \in UsedInInterupt

\* Procedures whose memory is taken out of the local heap again.
Excludes(p, q) == q \in Used /\ q # p /\ (q \in UsedInInterupt \/ Related(p, q))

\* HeapVarOp(&heap, var, VAR_ADD) on one variable of proc2.
AddVariable ==
    /\ phase = "add"
    /\ proc \in Used \cup {Root}
    /\ Reuses(proc, proc2) /\ var <= NVars(proc2)
    /\ LET v == <<proc2, var>>
       IN  heap' = IF HasAddress(v) THEN HeapAddBlock(heap, adr[v], Size(v))
                                    ELSE heap
    /\ var' = var + 1
    /\ UNCHANGED <<prog, jumped, adr, aliased, varHeap, removing, phase,
                   proc, proc2>>

\* HeapVarOp(&heap, var, VAR_REMOVE): HeapRemoveBlock is entered.
RemoveVariable ==
    /\ phase = "remove" /\ ~removing.active
    /\ Excludes(proc, proc2) /\ var <= NVars(proc2)
    /\ LET v == <<proc2, var>>
       IN  removing' = IF HasAddress(v)
                       THEN [active |-> TRUE, adr |-> adr[v],
                             end |-> adr[v] + Size(v), at |-> 1]
                       ELSE removing
    /\ var' = var + 1
    /\ UNCHANGED <<prog, jumped, adr, aliased, varHeap, heap, phase, proc, proc2>>

\* One turn of the loop of HeapRemoveBlock, and its end.
RemoveTurn ==
    /\ removing.active
    /\ removing.at <= Len(heap)
    /\ LET s == HeapRemoveStep(heap, removing.at, removing.adr, removing.end)
       IN  /\ heap' = s.block
           /\ removing' = [removing EXCEPT !.at = s.next]
    /\ UNCHANGED <<prog, jumped, adr, aliased, varHeap, phase, proc, proc2, var>>

RemoveDone ==
    /\ removing.active
    /\ removing.at > Len(heap)
    /\ removing' = Idle
    /\ UNCHANGED <<prog, jumped, adr, aliased, varHeap, heap, phase, proc, proc2,
                   var>>

\* The two loops over proc2 in AllocateVariables.
NextProc2 ==
    /\ \/ phase = "add" /\ proc \in Used \cup {Root}
          /\ (Reuses(proc, proc2) => var > NVars(proc2))
       \/ phase = "remove" /\ ~removing.active
          /\ (Excludes(proc, proc2) => var > NVars(proc2))
    /\ proc2' = IF proc2 < NProc THEN proc2 + 1 ELSE 1
    /\ phase' = IF proc2 < NProc THEN phase
                ELSE IF phase = "add" THEN "remove" ELSE "alloc"
    /\ var' = 1
    /\ UNCHANGED <<prog, jumped, adr, aliased, varHeap, heap, removing, proc>>

(***************************************************************************)
(* AllocateVariablesFromHeap places the variables of a block.  Its graph   *)
(* of collisions stays empty: the data flow it asks for is that of a       *)
(* scope, which has no code.  So the first variable of the block with an   *)
(* address and the same size lends its address.                            *)
(***************************************************************************)
InBlock(v) == v[2] > prog.own[v[1]]

Lenders(v) ==
    {k \in 1..NVars(v[1]) :
        LET w == <<v[1], k>>
        IN  InBlock(v) /\ InBlock(w) /\ w # v /\ HasAddress(w) /\ Size(w) = Size(v)}

Lender(v) == <<v[1], FirstOf(Lenders(v))>>

\* Mutant: the bytes handed out stay in the heap.
TakeNothing(bl, size) == bl

\* What is left of a heap after HeapAllocBlock found room in it.
Take(bl, size) == AllocFrom(bl, BestFit(bl, size), size)

\* Where HeapAllocBlock finds room.
Room(bl, size) == bl[BestFit(bl, size)].adr

(***************************************************************************)
(* One variable in AllocateVariablesFromHeapNoOptim: the address of a      *)
(* lender, or one from the local heap, or one from VAR_HEAP, or none.      *)
(***************************************************************************)
AllocVariable ==
    /\ phase = "alloc" /\ var <= NVars(proc)
    /\ LET v    == <<proc, var>>
           size == Size(v)
       IN  \/ /\ Lenders(v) # {}
              /\ adr' = [adr EXCEPT ![v] = adr[Lender(v)]]
              /\ aliased' = aliased \cup {v}
              /\ UNCHANGED <<heap, varHeap>>
           \/ /\ Lenders(v) = {} /\ Fits(heap, size) # {}
              /\ adr' = [adr EXCEPT ![v] = Room(heap, size)]
              /\ heap' = Take(heap, size)
              /\ UNCHANGED <<aliased, varHeap>>
           \/ /\ Lenders(v) = {} /\ Fits(heap, size) = {}
              /\ Fits(varHeap, size) # {}
              /\ adr' = [adr EXCEPT ![v] = Room(varHeap, size)]
              /\ varHeap' = Take(varHeap, size)
              /\ UNCHANGED <<aliased, heap>>
           \/ /\ Lenders(v) = {} /\ Fits(heap, size) = {}
              /\ Fits(varHeap, size) = {}
              /\ UNCHANGED <<adr, aliased, heap, varHeap>>
    /\ var' = var + 1
    /\ UNCHANGED <<prog, jumped, removing, phase, proc, proc2>>

\* HeapCleanup, and ProcessUsedProc goes on.
NextProc ==
    /\ phase = "alloc" /\ var > NVars(proc)
    /\ heap' = <<>>
    /\ var' = 1
    /\ proc' = NextOwner(proc)
    /\ phase' = IF proc = Root THEN "done" ELSE "add"
    /\ UNCHANGED <<prog, jumped, adr, aliased, varHeap, removing, proc2>>

\* The compiler goes on to Emit.
Done == phase = "done" /\ UNCHANGED vars

Next ==
    \/ OptimizeJumps \/ SkipUnused
    \/ AddVariable \/ RemoveVariable \/ RemoveTurn \/ RemoveDone
    \/ NextProc2 \/ AllocVariable \/ NextProc
    \/ Done

Spec == Init /\ [][Next]_vars

\* The compiler runs until it is through: it is one sequential program.
FairSpec == Spec /\ WF_vars(Next)

-----------------------------------------------------------------------------
(***************************************************************************)
(* What the placing must not do.  Two variables overlap when they have an  *)
(* address and a byte in common.                                           *)
(***************************************************************************)
Placed(v) == adr[v] # NoAdr

At(v) == [adr |-> adr[v], size |-> Size(v)]

Overlap(v, w) == Placed(v) /\ Placed(w) /\ ~Apart(At(v), At(w))

VarsOf(p) == {v \in Vars : v[1] = p /\ v[2] <= NVars(p)}

TypeOK ==
    /\ prog \in Program
    /\ jumped \subseteq Owner
    /\ adr \in [Vars -> Nat \cup {NoAdr}]
    /\ aliased \subseteq Vars
    /\ varHeap \in Seq(Block) /\ heap \in Seq(Block)
    /\ removing \in [active : BOOLEAN, adr : Nat, end : Nat, at : Nat]
    /\ removing.active => removing.at \in Nat \ {0}
    /\ phase \in {"jumps", "add", "remove", "alloc", "done"}
    /\ proc \in Owner /\ proc2 \in Owner /\ var \in Nat \ {0}

(***************************************************************************)
(* VAR_HEAP stays what no variable occupies, although addresses wander     *)
(* from variables to the local heap and back: neither a variable nor an    *)
(* entry of the local heap has a byte in common with it.                   *)
(***************************************************************************)
VarHeapUnused ==
    \A i \in 1..Len(varHeap) :
        /\ \A p \in Owner : \A v \in VarsOf(p) : Placed(v) => Apart(At(v), varHeap[i])
        /\ \A j \in 1..Len(heap) : Apart(heap[j], varHeap[i])

\* Control comes back to p while, or after, q runs, so that p still needs its
\* variables; or q is what p ends with, and p stores the arguments of q.
NeedsBoth(p, q) ==
    \/ q \in Ending(p)
    \/ q \in Closure(Continues, prog.calls[p])

(***************************************************************************)
(* A procedure and what it calls, at any depth, never share memory, also   *)
(* not through a third procedure whose memory both took over.              *)
(***************************************************************************)
CallersKeepVariables ==
    \A p \in Owner, q \in Proc :
        p # q /\ NeedsBoth(p, q) =>
            \A v \in VarsOf(p), w \in VarsOf(q) : ~Overlap(v, w)

(***************************************************************************)
(* Two variables of one scope never share memory.                          *)
(***************************************************************************)
LocalsApart ==
    \A p \in Owner : \A v, w \in VarsOf(p) :
        v # w /\ v[2] <= prog.own[p] => ~Overlap(v, w)

(***************************************************************************)
(* What these two rest on.  No byte is in the local heap twice ...         *)
(***************************************************************************)
AddedOnce == Disjoint(heap)

(***************************************************************************)
(* ... which is so in programs where of any three procedures two are       *)
(* related by calls: a procedure then takes over memory that two others    *)
(* share only if they are related, and related ones share none.            *)
(***************************************************************************)
NoThreeUnrelated ==
    \A p, q, r \in Used \cup {Root} :
        p # q /\ q # r /\ p # r => Related(p, q) \/ Related(q, r) \/ Related(p, r)

\* OptimizeJumps makes no call a jump.
NoTailCall == \A p \in Owner : ~TailCall(p)

(***************************************************************************)
(* Placing comes to an end: no turn of the loops over procedures,          *)
(* variables and heap entries is without progress.                         *)
(***************************************************************************)
Terminates == <>(phase = "done")
=============================================================================
