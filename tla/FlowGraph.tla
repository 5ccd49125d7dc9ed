------------------------------ MODULE FlowGraph ------------------------------
(***************************************************************************)
(* The flow graph of one procedure and the passes that rewrite it          *)
(* (src/atalan/opt_blocks.c), in the order main.c and OptimizeCombined     *)
(* call them: GenerateBasicBlocks splits the code at labels and after      *)
(* jumps, LinkBlocks finds the edges and removes blocks, OptimizeJumps,    *)
(* OptimizeMergeBranchCode and DeadCodeElimination rewrite the code.  The  *)
(* passes share one graph whose edges go stale while it is rewritten.      *)
(*                                                                         *)
(* Between passes the code emitted for the graph may be run side by side   *)
(* with the code as it was written.                                        *)
(*                                                                         *)
(* An instruction is [op, arg, to]: "do" stands for every instruction that *)
(* only computes, arg for what it does or for the condition of a branch,   *)
(* "if" and "ifnot" for an operator and the one OpNot gives, "line" for    *)
(* the note of a source line, which is no code.  Labels are positive       *)
(* numbers, and a procedure as a target is a member of Procs.              *)
(***************************************************************************)
EXTENDS Integers, Sequences, SequencesExt, FiniteSets

CONSTANTS Procs,        \* procedures that can be called
          Sources       \* the procedures compiled: [code, interrupt, opposites, entry]

NoLabel == 0
NoBlock == 0

Branches == {"if", "ifnot"}
Jumps    == Branches \cup {"goto"}
Ops      == Jumps \cup {"do", "call", "label", "line", "assert"}
Instr(op, arg, to) == [op |-> op, arg |-> arg, to |-> to]

\* The labels of code c.
Labels(c) == {c[i].to : i \in {j \in 1..Len(c) : c[j].op = "label"}}

\* The code, whether it is of an interrupt routine, the conditions for which
\* there is a rule with the opposite one, and the label to which the procedures
\* it calls jump in their first instruction, which is none of its own.  Every
\* label is there once, and those jumped to are there.
ASSUME FlowGraphAssumption ==
    /\ Procs \cap Nat = {}
    /\ \A s \in Sources :
          /\ s.code \in Seq(ToSet(s.code)) /\ s.code # <<>>
          /\ s.interrupt \in BOOLEAN /\ s.entry \in Nat \ Labels(s.code)
          /\ \A i \in ToSet(s.code) :
                /\ i = Instr(i.op, i.arg, i.to) /\ i.op \in Ops
                /\ i.op = "call"  => i.to \in Procs
                /\ i.op = "label" => i.to \in Nat \ {NoLabel}
                /\ i.op \in Jumps => i.to \in Procs \cup Labels(s.code)
          /\ \A i \in 1..Len(s.code), j \in 1..Len(s.code) :
                s.code[i].op = "label" /\ s.code[j].op = "label" /\ s.code[i].to = s.code[j].to
                   => i = j

VARIABLES source,       \* the procedure as the parser generated it
          graph,        \* chain of blocks, their code and label, label->instr
          link,         \* LinkBlocks' to, cond_to, from and callers
          counted,      \* labels with a use counted by the last VarUse
          rest,         \* the passes to do; the head is under way
          at,           \* block a pass is at, NoBlock between blocks
          retry,        \* OptimizeJumps is following a jump to a jump
          modified,     \* this pass changed the code
          run           \* source and emitted code executed side by side

vars == <<source, graph, link, counted, rest, at, retry, modified, run>>

-----------------------------------------------------------------------------
(***************************************************************************)
(* Instructions and blocks of a graph g.                                   *)
(***************************************************************************)
NoInstr  == Instr("void", "", NoLabel)

OpSame(op) == op

OpNot(op) == IF op = "if" THEN "ifnot" ELSE "if"

\* Positions of the instructions of a block that are not LINE.
Code(g, b) == {i \in 1..Len(g.code[b]) : g.code[b][i].op # "line"}
LastOf(I)  == CHOOSE i \in I : \A j \in I : j <= i

\* The first and the last of them, and the last but for a final GOTO; and the
\* instruction, LINE or not, a block ends with.
FirstInstr(g, b) ==
    IF Code(g, b) = {} THEN NoInstr
    ELSE g.code[b][CHOOSE i \in Code(g, b) : \A j \in Code(g, b) : i <= j]
InstrPrev(g, b) == IF Code(g, b) = {} THEN NoInstr ELSE g.code[b][LastOf(Code(g, b))]
BeforeGoto(g, b) ==
    LET I == Code(g, b) IN
    IF I # {} /\ InstrPrev(g, b).op = "goto" THEN I \ {LastOf(I)} ELSE I
LastInstr(g, b) ==
    IF BeforeGoto(g, b) = {} THEN NoInstr ELSE g.code[b][LastOf(BeforeGoto(g, b))]
EndInstr(g, b) == IF g.code[b] = <<>> THEN NoInstr ELSE Last(g.code[b])

DeleteLast(g, b) == [g EXCEPT !.code[b] = RemoveAt(@, LastOf(Code(g, b)))]

Blocks(g)     == ToSet(g.chain)
Place(g, b)   == CHOOSE i \in 1..Len(g.chain) : g.chain[i] = b
NextNumber(g, b) == IF b = Last(g.chain) THEN NoBlock ELSE b + 1

NextOf(g, b)  == IF b = Last(g.chain) THEN NoBlock ELSE g.chain[Place(g, b) + 1]
Unchain(g, b) == [g EXCEPT !.chain = RemoveAt(@, Place(g, b))]

\* Labels used by jumps in the sequence of instructions c.
LabelsUsed(c) == {c[i].to : i \in {j \in 1..Len(c) : c[j].op \in Jumps}} \ Procs

-----------------------------------------------------------------------------
(***************************************************************************)
(* GenerateBasicBlocks.  Of labels that follow each other only the first   *)
(* is kept, and replaces the others.                                       *)
(***************************************************************************)
Starts(c) == {i \in 1..Len(c) :
                 \/ i = 1
                 \/ c[i - 1].op \in Jumps
                 \/ c[i].op = "label" /\ c[i - 1].op # "label"}

Kept(c, l) ==
    LET p == CHOOSE i \in 1..Len(c) : c[i].op = "label" /\ c[i].to = l
        q == CHOOSE i \in 1..p : /\ \A j \in i..p : c[j].op = "label"
                                 /\ i = 1 \/ c[i - 1].op # "label"
    IN  c[q].to

Renamed(c) ==
    [i \in 1..Len(c) |->
        IF c[i].op \in Jumps /\ c[i].to \notin Procs
        THEN Instr(c[i].op, c[i].arg, Kept(c, c[i].to)) ELSE c[i]]

\* The position behind the labels at position i.
AfterLabels(c, i) ==
    CHOOSE k \in i..(Len(c) + 1) : /\ \A j \in i..(k - 1) : c[j].op = "label"
                                   /\ k = Len(c) + 1 \/ c[k].op # "label"

BasicBlocks(c) ==
    LET n        == Cardinality(Starts(c))
        start    == [b \in 1..n |-> CHOOSE i \in Starts(c) :
                                      Cardinality({j \in Starts(c) : j <= i}) = b]
        end(b)   == IF b = n THEN Len(c) ELSE start[b + 1] - 1
        labelled == {b \in 1..n : c[start[b]].op = "label"}
    IN  [chain |-> [b \in 1..n |-> b],
         code  |-> [b \in 1..n |-> SubSeq(Renamed(c), AfterLabels(c, start[b]), end(b))],
         label |-> [b \in 1..n |-> IF b \in labelled THEN c[start[b]].to ELSE NoLabel],
         instr |-> [l \in {c[start[b]].to : b \in labelled} |->
                       CHOOSE b \in labelled : c[start[b]].to = l]]

(***************************************************************************)
(* LinkBlocks: the edges of a graph, and the first block it would remove.  *)
(***************************************************************************)
FallsThrough(g, b) == EndInstr(g, b).op \notin {"goto", "assert"}
JumpsTo(g, b)      == IF /\ EndInstr(g, b).op \in Jumps
                         /\ EndInstr(g, b).to \notin Procs \cup {source.entry}
                      THEN g.instr[EndInstr(g, b).to] ELSE NoBlock

Edges(g) ==
    [b \in Blocks(g) |->
        [to      |-> CASE FallsThrough(g, b)            -> NextOf(g, b)
                       [] EndInstr(g, b).op = "goto"    -> JumpsTo(g, b)
                       [] OTHER                         -> NoBlock,
         condTo  |-> IF EndInstr(g, b).op \in Branches THEN JumpsTo(g, b) ELSE NoBlock,
         from    |-> IF b # Head(g.chain) /\ FallsThrough(g, g.chain[Place(g, b) - 1])
                     THEN g.chain[Place(g, b) - 1] ELSE NoBlock,
         callers |-> {d \in Blocks(g) : JumpsTo(g, d) = b}]]

Uncounted(g, b) == g.label[b] = NoLabel \/ g.label[b] \notin counted

\* A block that can only be entered from the one before is appended to it.
Mergeable(g, e, b) ==
    /\ e[b].from # NoBlock
    /\ e[b].callers = {}
    /\ e[e[b].from].condTo = NoBlock
    /\ Uncounted(g, b)
Merged(g, e, b) == Unchain([g EXCEPT !.code[e[b].from] = @ \o g.code[b]], b)

\* Jumps to an empty block go to the block after it, which takes over its
\* label if it has none.
EmptyButLines(g, e, b) == g.code[b] # <<>> /\ FirstInstr(g, b) = NoInstr /\ e[b].to # NoBlock

EmptyBlock(g, e, b) == FirstInstr(g, b) = NoInstr /\ e[b].to # NoBlock
BypassUnmoved(g, e, b) == Unchain(g, b)

BypassKept(g, e, b) == [g EXCEPT !.code[b] = <<>>]

Bypassed(g, e, b) ==
    LET to      == e[b].to
        jumpers == {d \in e[b].callers : EndInstr(g, d).to = g.label[b]}
    IN  IF jumpers = {} THEN Unchain(g, b)
        ELSE IF g.label[to] = NoLabel
        THEN Unchain([g EXCEPT !.label[to] = g.label[b], !.instr[g.label[b]] = to], b)
        ELSE Unchain([g EXCEPT !.code = [d \in DOMAIN @ |->
                IF d \in jumpers
                THEN [@[d] EXCEPT ![Len(@[d])].to = g.label[to]]
                ELSE @[d]]], b)

Removable(g, e) == {b \in Blocks(g) : Mergeable(g, e, b) \/ EmptyBlock(g, e, b)}
FirstRemovable(g, e) ==
    CHOOSE b \in Removable(g, e) : \A d \in Removable(g, e) : Place(g, b) <= Place(g, d)

-----------------------------------------------------------------------------
(***************************************************************************)
(* The passes.  "use" is VarUse; OptimizeCombined repeats its inner loop   *)
(* while OptimizeMergeBranchCode modifies the code.                        *)
(***************************************************************************)
OptimizeJumps == <<"link", "jumps", "link">>
Combined      == <<"use", "link", "merge">>
Pipeline      == <<"link">> \o OptimizeJumps \o Combined
                 \o <<"use", "link", "dead">> \o OptimizeJumps \o OptimizeJumps
                 \o <<"use">>

Init ==
    /\ source \in Sources
    /\ graph = BasicBlocks(source.code)
    /\ link = Edges(graph)
    /\ counted = LabelsUsed(source.code)
    /\ rest = Pipeline
    /\ at = NoBlock
    /\ retry = FALSE
    /\ modified = FALSE
    /\ run = [on |-> FALSE, src |-> 1, dst |-> 1, same |-> TRUE]

Doing(pass) == rest # <<>> /\ Head(rest) = pass

\* The block the pass after this one begins with.
BeginAt(g, passes) ==
    IF passes = <<>> THEN NoBlock
    ELSE CASE Head(passes) \in {"jumps", "merge"} -> Head(g.chain)
           [] Head(passes) = "dead"               -> NextOf(g, Head(g.chain))
           [] OTHER                               -> NoBlock

Proceed(g, passes) ==
    /\ rest' = passes
    /\ at' = BeginAt(g, passes)
    /\ modified' = FALSE
    /\ UNCHANGED <<source, retry, run>>

\* LinkBlocks removes one block and starts again, until there is none.
LinkBlocks ==
    /\ Doing("link")
    /\ LET e == Edges(graph)
           b == FirstRemovable(graph, e)
       IN  IF Removable(graph, e) # {}
           THEN /\ graph' = IF Mergeable(graph, e, b) THEN Merged(graph, e, b)
                            ELSE Bypassed(graph, e, b)
                /\ UNCHANGED <<source, link, counted, rest, at, retry, modified, run>>
           ELSE /\ link' = e
                /\ UNCHANGED <<graph, counted>>
                /\ Proceed(graph, Tail(rest))

VarUse ==
    /\ Doing("use")
    /\ counted' = UNION {LabelsUsed(graph.code[b]) : b \in Blocks(graph)}
    /\ UNCHANGED <<graph, link>>
    /\ Proceed(graph, Tail(rest))

\* One block of OptimizeJumps: NULL jumps, then a branch around a jump.
WithoutNullJump(b) ==
    LET e == link[b] IN
    IF /\ e.to = NextOf(graph, b)
       /\ \/ InstrPrev(graph, b).op = "goto"
          \/ InstrPrev(graph, b).op \in Branches /\ e.condTo = e.to
    THEN DeleteLast(graph, b) ELSE graph

CondToAfter(b) ==
    IF InstrPrev(graph, b).op \in Branches /\ link[b].condTo = NextOf(graph, b)
       /\ link[b].to = NextOf(graph, b)
    THEN NoBlock ELSE link[b].condTo

AroundJump(g, b) ==
    /\ FirstInstr(g, link[b].to).op = "goto"
    /\ NextOf(g, link[b].to) = CondToAfter(b)

\* cond_i->op would be read although the block has no instruction left.
NullInstr(g, b) == AroundJump(g, b) /\ g.code[b] = <<>>

Swapped(g, b) ==
    LET i == EndInstr(g, b) IN
    [g EXCEPT !.code[b] = Append(Front(@), Instr(OpNot(i.op), i.arg,
                                                 FirstInstr(g, link[b].to).to)),
              !.code[link[b].to] = <<>>]

\* InstrRelSwap: there may be no rule for the opposite condition.
InstrRelSwap(i) == i.op \in Branches /\ i.arg \in source.opposites

JumpsBlock ==
    /\ Doing("jumps") /\ at # NoBlock /\ ~retry
    /\ link[at].to # NoBlock
    /\ LET g == WithoutNullJump(at) IN
       /\ ~NullInstr(g, at)
       /\ graph' = IF AroundJump(g, at) /\ InstrRelSwap(EndInstr(g, at))
                    THEN Swapped(g, at) ELSE g
       /\ link' = [link EXCEPT ![at].condTo = CondToAfter(at)]
       /\ IF EndInstr(graph', at).op \in Jumps
          THEN retry' = TRUE /\ at' = at
          ELSE retry' = FALSE /\ at' = NextOf(graph', at)
    /\ UNCHANGED <<source, counted, rest, modified, run>>

\* Where a jump to label to, or to the procedure to, leads on to.
Onward(to) ==
    LET first == CASE to \in Procs         -> Instr("goto", "", source.entry)
                   [] to = source.entry    -> NoInstr
                   [] OTHER                -> FirstInstr(graph, graph.instr[to])
    IN  IF first.op = "goto" /\ first.to # to THEN first.to ELSE NoLabel

\* Jump to jump, repeated until the target does not begin with a jump.
JumpToJump ==
    /\ Doing("jumps") /\ retry
    /\ LET on == Onward(EndInstr(graph, at).to) IN
       IF on # NoLabel
       THEN /\ graph' = [graph EXCEPT !.code[at][Len(graph.code[at])].to = on]
            /\ UNCHANGED <<at, retry>>
       ELSE at' = NextOf(graph, at) /\ retry' = FALSE /\ UNCHANGED graph
    /\ UNCHANGED <<source, link, counted, rest, modified, run>>

\* The block that ends the procedure: a CALL becomes a GOTO.
TailCall ==
    /\ Doing("jumps") /\ at # NoBlock /\ ~retry
    /\ link[at].to = NoBlock
    /\ graph' = IF InstrPrev(graph, at).op = "call" /\ ~source.interrupt
                THEN [graph EXCEPT !.code[at][LastOf(Code(graph, at))].op = "goto"]
                ELSE graph
    /\ at' = NextOf(graph, at)
    /\ UNCHANGED <<source, link, counted, rest, retry, modified, run>>

JumpsDone ==
    /\ Doing("jumps") /\ at = NoBlock
    /\ UNCHANGED <<graph, link, counted>>
    /\ Proceed(graph, Tail(rest))

\* The edges are those from before the pass.
DeadBlock ==
    /\ Doing("dead") /\ at # NoBlock
    /\ LET dead == /\ link[at].from = NoBlock
                   /\ link[at].callers = {}
                   /\ Uncounted(graph, at)
       IN  /\ graph' = IF dead THEN Unchain(graph, at) ELSE graph
           /\ modified' = (modified \/ dead)
    /\ at' = NextOf(graph, at)
    /\ UNCHANGED <<source, link, counted, rest, retry, run>>

DeadDone ==
    /\ Doing("dead") /\ at = NoBlock
    /\ UNCHANGED <<graph, link, counted>>
    /\ Proceed(graph, (IF modified THEN OptimizeJumps ELSE <<>>) \o Tail(rest))

\* The same last instruction in every block that leads to this one is moved
\* to its beginning.
SameEnds(g, b) ==
    LET i == LastInstr(g, link[b].from) IN
    /\ link[b].from # NoBlock
    /\ link[b].callers # {}
    /\ i # NoInstr /\ i.op \notin Branches
    /\ \A d \in link[b].callers : LastInstr(g, d) = i

Gathered(g, b) ==
    LET i    == LastInstr(g, link[b].from)
        ends == link[b].callers \cup {link[b].from}
        cut  == [d \in DOMAIN g.code |->
                    IF d \in ends THEN RemoveAt(g.code[d], LastOf(BeforeGoto(g, d))) ELSE g.code[d]]
    IN  [g EXCEPT !.code = [cut EXCEPT ![b] = <<i>> \o @]]

MergeBlock ==
    /\ Doing("merge") /\ at # NoBlock
    /\ graph' = IF SameEnds(graph, at) THEN Gathered(graph, at) ELSE graph
    /\ modified' = (modified \/ SameEnds(graph, at))
    /\ at' = NextOf(graph, at)
    /\ UNCHANGED <<source, link, counted, rest, retry, run>>

MergeDone ==
    /\ Doing("merge") /\ at = NoBlock
    /\ UNCHANGED <<graph, link, counted>>
    /\ Proceed(graph, (IF modified THEN Combined ELSE <<>>) \o Tail(rest))

Compile == \/ LinkBlocks \/ VarUse
           \/ JumpsBlock \/ JumpToJump \/ TailCall \/ JumpsDone
           \/ DeadBlock \/ DeadDone
           \/ MergeBlock \/ MergeDone

-----------------------------------------------------------------------------
(***************************************************************************)
(* Running code.  EmitProc writes label, code and, where the procedure     *)
(* ends, a return.  What can be observed of a run are the instructions     *)
(* executed, the calls and how it ends; the conditions are fixed from one  *)
(* of these to the next.                                                   *)
(***************************************************************************)
EmitProc(g) ==
    LET e == Edges(g) IN
    FlattenSeq([n \in 1..Len(g.chain) |->
        LET b == g.chain[n] IN
           (IF g.label[b] = NoLabel THEN <<>> ELSE <<Instr("label", "", g.label[b])>>)
        \o g.code[b]
        \o (IF e[b].to = NoBlock /\ EndInstr(g, b).op # "goto"
            THEN <<Instr("return", "", NoLabel)>> ELSE <<>>)])

Written == Append(source.code, Instr("return", "", NoLabel))

Stopped == -1   \* the run is over
Caller  == 0    \* back in the caller

\* The next thing code c does from position pc under the valuation val.
NextEvent(c, pc, val) ==
    LET Taken(i)  == \/ c[i].op = "goto"
                     \/ c[i].op = "if" /\ val[c[i].arg]
                     \/ c[i].op = "ifnot" /\ ~val[c[i].arg]
        Target(l) == CHOOSE i \in 1..Len(c) : c[i].op = "label" /\ c[i].to = l
        Event(what, to, next) == [what |-> what, to |-> to, next |-> next]
        event[i \in Int, fuel \in Nat] ==
            IF fuel = 0 THEN Event("loop", NoLabel, Stopped)
            ELSE IF i = Caller THEN Event("return", NoLabel, Stopped)
            ELSE IF i > Len(c) THEN Event("beyond", NoLabel, Stopped)
            ELSE CASE c[i].op = "do"     -> Event(c[i].arg, NoLabel, i + 1)
                   [] c[i].op = "call"   -> Event("call", c[i].to, i + 1)
                   [] c[i].op = "return" -> Event("return", NoLabel, Stopped)
                   [] c[i].op = "assert" -> Event("assert", NoLabel, Stopped)
                   [] c[i].op \in Jumps /\ Taken(i) /\ c[i].to \in Procs ->
                          Event(IF source.interrupt THEN "leave" ELSE "call", c[i].to, Caller)
                   [] c[i].op \in Jumps /\ Taken(i) /\ c[i].to \notin Procs ->
                          event[Target(c[i].to), fuel - 1]
                   [] OTHER              -> event[i + 1, fuel - 1]
    IN  event[pc, Len(c) + 1]

Conditions == {source.code[i].arg : i \in {j \in 1..Len(source.code) :
                                            source.code[j].op \in Branches}}

StartRun ==
    /\ ~run.on
    /\ rest = <<>> \/ Doing("use")
    /\ run' = [run EXCEPT !.on = TRUE]
    /\ UNCHANGED <<source, graph, link, counted, rest, at, retry, modified>>

RunOn ==
    /\ run.on /\ run.src # Stopped /\ run.same
    /\ \E val \in [Conditions -> BOOLEAN] :
          LET s == NextEvent(Written, run.src, val)
              d == NextEvent(EmitProc(graph), run.dst, val)
          IN  run' = [on |-> TRUE, src |-> s.next, dst |-> d.next,
                      same |-> s.what = d.what /\ s.to = d.to]
    /\ UNCHANGED <<source, graph, link, counted, rest, at, retry, modified>>

Finished == /\ \/ run.on /\ (run.src = Stopped \/ ~run.same)
               \/ rest = <<>>
            /\ UNCHANGED vars

Next == (~run.on /\ Compile) \/ StartRun \/ RunOn \/ Finished

Spec     == Init /\ [][Next]_vars
FairSpec == Spec /\ WF_vars(~run.on /\ Compile)

-----------------------------------------------------------------------------
(***************************************************************************)
(* Properties.                                                             *)
(***************************************************************************)

\* The chain has every block once, and edges and labels lead to blocks.
TypeOK ==
    /\ graph.chain # <<>>
    /\ IsInjective(graph.chain)
    /\ Blocks(graph) \subseteq DOMAIN graph.code
    /\ at \in {NoBlock} \cup Blocks(graph)
    /\ counted \subseteq Labels(source.code) \cup {source.entry}
    /\ retry \in BOOLEAN /\ modified \in BOOLEAN
    /\ retry => EndInstr(graph, at).op \in Jumps

\* At any time, a label some block jumps to is the label of exactly one block
\* of the chain, the one label->instr names: the assembler finds it once.  (The
\* entry is a label of another procedure.)
LabelsPlaced ==
    \A b \in Blocks(graph) : \A l \in LabelsUsed(graph.code[b]) \ {source.entry} :
        \E d \in Blocks(graph) : /\ {x \in Blocks(graph) : graph.label[x] = l} = {d}
                                 /\ graph.instr[l] = d

\* Between passes, the emitted code does what the source says: the same
\* instructions and calls in the same order, and it ends in the same way.
SameEvents == run.same

\* No instruction is read of a block that has none.
NoNullInstr ==
    Doing("jumps") /\ at # NoBlock /\ ~retry /\ link[at].to # NoBlock
        => ~NullInstr(WithoutNullJump(at), at)

\* Every pass ends: the graph is compiled, or stops to be run.
Terminates == <>(rest = <<>> \/ run.on)
=============================================================================
