------------------------------- MODULE Liveness -------------------------------
(***************************************************************************)
(* OptimizeLive (src/atalan/opt_live.c): the removal of assignments to     *)
(* variables that are not read afterwards, from the end of each block, and *)
(* the next use of the argument of each instruction.                       *)
(***************************************************************************)
EXTENDS ProcCode

VARIABLES live,         \* variables with the flag VarLive
          nextUse       \* next_use[1] of each instruction: NoInstr if there is none

(***************************************************************************)
(* VarIsLiveInBlock: whether v is read before it is written on some path   *)
(* from block b that stays out of the blocks seen, and the src_i it leaves *)
(* behind.  Only a read in the first block, or behind a branch, is left.   *)
(* The search goes through every block once at most.                       *)
(***************************************************************************)
Touching(b, v) == {k \in 1..Len(code[b]) : v \in Args(code[b][k]) \cup {code[b][k].res}}
FirstTouch(b, v) == code[b][CHOOSE k \in Touching(b, v) : \A j \in Touching(b, v) : k <= j]

VarIsLiveInBlock(block, v, visited) ==
    LET Result(l, use, seen) == [live |-> l, use |-> use, seen |-> seen]
        search[n \in Nat] == [b \in 0..Len(code) |-> [seen \in SUBSET Block |->
          IF n = 0 \/ b \in seen \cup {NoBlock} THEN Result(FALSE, NoInstr, seen)
          ELSE IF Touching(b, v) # {} THEN
              IF v \in Args(FirstTouch(b, v))
              THEN Result(TRUE, FirstTouch(b, v).id, seen \cup {b})
              ELSE Result(FALSE, NoInstr, seen \cup {b})
          ELSE IF b = Len(code) /\ v \in proc.outs
              THEN Result(TRUE, NoInstr, seen \cup {b})
          ELSE LET to == search[n - 1][proc.to[b]][seen \cup {b}] IN
               IF to.live THEN Result(TRUE, NoInstr, to.seen)
               ELSE search[n - 1][proc.condTo[b]][to.seen]]]
    IN  search[Len(code) + 1][block][visited]

\* The search behind both ends of a block.
AfterBlockTo(b, v) ==       \* mutant: the branch is forgotten
    VarIsLiveInBlock(proc.to[b], v, {})

AfterBlock(b, v) ==
    LET to == VarIsLiveInBlock(proc.to[b], v, {}) IN
    IF to.live THEN to ELSE VarIsLiveInBlock(proc.condTo[b], v, to.seen)

Searched(b, v) ==
    /\ v \in proc.local \cup Registers
    /\ proc.to[b] # NoBlock
    /\ v \notin OutVars

LiveAfter(b) ==
    {v \in Variable :
        \/ v \notin proc.local \cup Registers
        \/ v \in OutVars /\ proc.to[b] # NoBlock
        \/ v \in proc.outs /\ proc.to[b] = NoBlock
        \/ Searched(b, v) /\ AfterBlock(b, v).live}

\* MarkProcLive
MarkProcLive(l) ==
    ((l \ (proc.callee.local \cup proc.callee.outs)) \cup proc.callee.ins)
    \cup (l \cap OutVars)

IsDead(i) == i.op \notin {"if", "call"} /\ i.res \notin live \cup OutVars

-----------------------------------------------------------------------------
(***************************************************************************)
(* The steps of the pass at block b: before it, and at instruction k.      *)
(***************************************************************************)
LiveBeginKeeps(b) ==        \* mutant: src_i stays as the pass before left it
    /\ live' = LiveAfter(b)
    /\ UNCHANGED <<code, src, nextUse>>

LiveBegin(b) ==
    /\ live' = LiveAfter(b)
    /\ src' = [v \in Variable |-> IF Searched(b, v) THEN AfterBlock(b, v).use ELSE NoInstr]
    /\ UNCHANGED <<code, nextUse>>

RemoveDead(b, k) ==
    /\ IsDead(code[b][k])
    /\ code' = [code EXCEPT ![b] = RemoveAt(@, k)]
    /\ UNCHANGED <<live, src, nextUse>>

MarkCall(b, k) ==
    /\ code[b][k].op = "call"
    /\ live' = MarkProcLive(live)
    /\ UNCHANGED <<code, src, nextUse>>

MarkInstr(b, k) ==
    LET i       == code[b][k]
        without == [v \in Variable |-> IF v = i.res THEN NoInstr ELSE src[v]]
    IN  /\ i.op # "call"
        /\ ~IsDead(i)
        /\ live' = (live \ ({i.res} \ OutVars)) \cup Args(i)
        /\ nextUse' = [nextUse EXCEPT ![i.id] =
                          IF i.a1 \in Variable THEN without[i.a1] ELSE NoInstr]
        /\ src' = [v \in Variable |-> IF v \in Args(i) THEN i.id ELSE without[v]]
        /\ UNCHANGED code
=============================================================================
