------------------------------- MODULE Combined -------------------------------
(***************************************************************************)
(* OptimizeCombined (src/atalan/optimize.c): the passes of Values and      *)
(* Liveness and OptimizeMergeBranchCode over one procedure, repeated until *)
(* none of them modifies it.  Before a pass of OptimizeValues and at the   *)
(* end the code may be run side by side with the code as it was.           *)
(***************************************************************************)
EXTENDS Liveness, Values

VARIABLES pass,         \* the pass under way
          at,           \* its block, whether it has begun it, and the instruction
          modified,     \* a pass of this round has modified the code
          run           \* written and optimized code executed side by side

vars == <<proc, code, src, live, nextUse, dep, pass, at, modified, run>>

Passes == {"values", "live", "branches", "live again", "merge"}

Before(b)    == [block |-> b, begun |-> FALSE, at |-> 0]
Inside(b, k) == [block |-> b, begun |-> TRUE, at |-> k]

NoRun == [on |-> FALSE, src |-> State(1, 1, proc.start), dst |-> State(1, 1, proc.start),
          same |-> TRUE]

Init ==
    /\ CodeInit
    /\ live = {}
    /\ nextUse = [id \in UNION {{i.id : i \in ToSet(code[b])} : b \in Block} |-> NoInstr]
    /\ dep = [v \in Variable |-> NoExp]
    /\ pass = "values"
    /\ at = Before(1)
    /\ modified = FALSE
    /\ run = NoRun

Doing(p)   == pass \in p /\ at.block <= Len(code)
Begin(p)   == Doing(p) /\ ~at.begun
AtInstr(p) == Doing(p) /\ at.begun /\ at.at \in 1..Len(code[at.block])
Over(p)    == Doing(p) /\ at.begun /\ at.at \notin 1..Len(code[at.block])

Following == Inside(at.block, at.at + 1)
Preceding == Inside(at.block, at.at - 1)
NextBlock == Before(at.block + 1)

Continue(where, changed) ==
    /\ at' = where
    /\ modified' = (modified \/ changed)
    /\ UNCHANGED <<proc, pass, run>>

-----------------------------------------------------------------------------
(***************************************************************************)
(* OptimizeValues.  The block is left once an argument was replaced.       *)
(***************************************************************************)
EnterValues ==
    /\ Begin({"values"})
    /\ ValuesBegin
    /\ Continue(Inside(at.block, 1), FALSE)
    /\ UNCHANGED <<live, nextUse>>

ValuesStep ==
    /\ AtInstr({"values"})
    /\ \/ ValuesPass(at.block, at.at)     /\ Continue(Following, FALSE)
       \/ ValuesCall(at.block, at.at)     /\ Continue(Following, FALSE)
       \/ RemoveRepeated(at.block, at.at) /\ Continue(at, TRUE)
       \/ RemoveCopy(at.block, at.at)     /\ Continue(at, TRUE)
       \/ ReplaceArgs(at.block, at.at)    /\ Continue(NextBlock, TRUE)
       \/ Evaluate(at.block, at.at)       /\ Continue(Following, code' # code)
    /\ UNCHANGED <<live, nextUse>>

LeaveBlock ==
    /\ Over({"values", "live", "live again", "merge"})
    /\ Continue(NextBlock, FALSE)
    /\ UNCHANGED <<code, src, dep, live, nextUse>>

(***************************************************************************)
(* OptimizeLive.  It leaves the block when the instruction it removed was  *)
(* the last.                                                               *)
(***************************************************************************)
EnterLive ==
    /\ Begin({"live", "live again"})
    /\ LiveBegin(at.block)
    /\ Continue(Inside(at.block, Len(code[at.block])), FALSE)
    /\ UNCHANGED dep

LiveStep ==
    /\ AtInstr({"live", "live again"})
    /\ \/ /\ RemoveDead(at.block, at.at)
          /\ Continue(IF at.at = Len(code[at.block]) THEN NextBlock ELSE Preceding, TRUE)
       \/ MarkCall(at.block, at.at)  /\ Continue(Preceding, FALSE)
       \/ MarkInstr(at.block, at.at) /\ Continue(Preceding, FALSE)
    /\ UNCHANGED dep

(***************************************************************************)
(* OptimizeMergeBranchCode: the same last instruction of all blocks that   *)
(* lead to this one is moved to its beginning.                             *)
(***************************************************************************)
From(b)    == IF b > 1 /\ proc.to[b - 1] = b THEN {b - 1} ELSE {}
Callers(b) == {d \in Block : proc.condTo[d] = b} \cup ({d \in Block : proc.to[d] = b} \ From(b))

\* InstrEquivalent; of a commutative instruction the result is not compared
\* when the arguments are found to be exchanged.
SameInstr(i, j) == \/ [i EXCEPT !.id = j.id] = j
                   \/ /\ i.op = "add" /\ j.op = "add"
                      /\ i.a1 = j.a2 /\ i.a2 = j.a1
SameEnds(b) ==
    /\ From(b) # {} /\ Callers(b) # {}
    /\ \A d \in From(b) \cup Callers(b) : code[d] # <<>> /\ Last(code[d]).op # "if"
    /\ \A d \in Callers(b) : SameInstr(Last(code[d]), Last(code[b - 1]))

Gathered(b) ==
    LET i   == Last(code[b - 1])
        cut == [d \in Block |-> IF d \in From(b) \cup Callers(b) THEN Front(code[d]) ELSE code[d]]
    IN  [cut EXCEPT ![b] = <<i>> \o @]

BranchesStep ==
    /\ Doing({"branches"})
    /\ code' = IF SameEnds(at.block) THEN Gathered(at.block) ELSE code
    /\ Continue(NextBlock, SameEnds(at.block))
    /\ UNCHANGED <<src, dep, live, nextUse>>

(***************************************************************************)
(* OptimizeVarMerge.                                                       *)
(***************************************************************************)
EnterMerge ==
    /\ Begin({"merge"})
    /\ Continue(Inside(at.block, 1), FALSE)
    /\ UNCHANGED <<code, src, dep, live, nextUse>>

Merges == MergesAt(at.block, at.at, nextUse[code[at.block][at.at].id] = NoInstr)

MergeStep ==
    /\ AtInstr({"merge"})
    /\ IF Merges THEN MergeCopy(at.block, at.at) ELSE UNCHANGED code
    /\ Continue(IF Merges THEN at ELSE Following, Merges)
    /\ UNCHANGED <<src, dep, live, nextUse>>

(***************************************************************************)
(* OptimizeCombined: the first three passes are repeated while the code is *)
(* modified, then all of them.                                             *)
(***************************************************************************)
PassAfter ==
    CASE pass = "values"     -> "live"
      [] pass = "live"       -> "branches"
      [] pass = "branches"   -> IF modified THEN "values" ELSE "live again"
      [] pass = "live again" -> "merge"
      [] pass = "merge"      -> IF modified THEN "values" ELSE "done"

NextPassKeeps ==            \* mutant: modified is not reset
    /\ pass # "done" /\ at.block > Len(code)
    /\ pass' = PassAfter
    /\ at' = Before(1)
    /\ UNCHANGED <<modified, proc, code, src, dep, live, nextUse, run>>

NextPass ==
    /\ pass # "done" /\ at.block > Len(code)
    /\ pass' = PassAfter
    /\ at' = Before(1)
    /\ modified' = (modified /\ pass \notin {"branches", "merge"})
    /\ UNCHANGED <<proc, code, src, dep, live, nextUse, run>>

Optimize == \/ EnterValues \/ ValuesStep \/ LeaveBlock
            \/ EnterLive \/ LiveStep
            \/ BranchesStep
            \/ EnterMerge \/ MergeStep
            \/ NextPass

-----------------------------------------------------------------------------
(***************************************************************************)
(* Running the code.                                                       *)
(***************************************************************************)
StartRun ==
    /\ ~run.on
    /\ pass = "done" \/ (pass = "values" /\ at = Before(1))
    /\ run' = [run EXCEPT !.on = TRUE]
    /\ UNCHANGED <<proc, code, src, live, nextUse, dep, pass, at, modified>>

Ended(s) == s.block = NoBlock

\* Hardware need not be read when the value is not used.
RunOn ==
    /\ run.on /\ run.same /\ ~Ended(run.src)
    /\ LET s     == NextEvent(Written, run.src)
           d     == NextEvent(code, run.dst)
           equal == s.what = d.what /\ s.values = d.values
       IN  \E fresh \in [s.changes -> Fresh] :
              run' = [on   |-> TRUE,
                      src  |-> Left(s.state, fresh),
                      dst  |-> Left(IF equal THEN d.state ELSE run.dst, fresh),
                      same |-> equal \/ s.what = "in"]
    /\ UNCHANGED <<proc, code, src, live, nextUse, dep, pass, at, modified>>

Finished == /\ \/ run.on /\ (Ended(run.src) \/ ~run.same)
               \/ pass = "done"
            /\ UNCHANGED vars

Next == (~run.on /\ Optimize) \/ StartRun \/ RunOn \/ Finished

Spec     == Init /\ [][Next]_vars

\* The compiler is one thread: it goes on as long as there is a step to make.
\* (WF_vars(~run.on /\ Optimize), with the state function that enables it written out.)
FairSpec == Spec /\ (<>[](~run.on /\ pass # "done") => []<><<Optimize>>_vars)

-----------------------------------------------------------------------------
(***************************************************************************)
(* Properties.                                                             *)
(***************************************************************************)
TypeOK ==
    /\ pass \in Passes \cup {"done"}
    /\ at.block \in 1..(Len(code) + 1) /\ at.at \in Nat
    /\ live \subseteq Variable
    /\ modified \in BOOLEAN
    /\ \A b \in Block : \A i \in ToSet(code[b]) : Allowed(i)

\* Whatever the passes removed, replaced and merged: the procedure branches,
\* calls, reads and writes hardware and returns as it was written to.
SameEvents == run.same

\* No pass meets a variable whose src_i is an instruction that was deleted, which is freed: the
\* value pass looks at all of them, the other one at those in the instructions before.  It is
\* about the order in which instructions are removed, and about the search that starts a block,
\* which may find the next use in the block itself.
Met == IF pass = "values" THEN Variable
       ELSE {v \in Variable : \E k \in Touching(at.block, v) : k <= at.at}
NoFreedInstr ==
    Doing({"values", "live", "live again"}) /\ at.begun =>
        \A v \in Met : src[v] # NoInstr =>
            \E b \in Block : \E i \in ToSet(code[b]) : i.id = src[v]

\* No step replaces code by code that takes more cycles.
Cost(i)      == IF i.op \in {"if", "call"} THEN 0 ELSE Rules[Form(i)]
CodeCost(c)  == FoldLeft(LAMBDA sum, i : sum + Cost(i), 0, FlattenSeq(c))
NeverCostlier == [][CodeCost(code') <= CodeCost(code)]_vars

\* OptimizeCombined ends.
Terminates == <>(pass = "done" \/ run.on)
=============================================================================
