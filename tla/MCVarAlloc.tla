----------------------------- MODULE MCVarAlloc -----------------------------
(***************************************************************************)
(* Programs for VarAlloc.  A procedure only calls those defined before it, *)
(* as the parser wants it.                                                 *)
(***************************************************************************)
EXTENDS VarAlloc

\* A platform whose varheap has two ranges, too small for some programs.
SmallHeap == <<[adr |-> 1, size |-> 5], [adr |-> 8, size |-> 3]>>

LargeHeap == <<[adr |-> 128, size |-> 128]>>

\* A program without tail calls, interrupts, blocks and root variables.
Simple(calls, sizes) ==
    [calls    |-> [p \in Owner |-> IF p = Root THEN Proc ELSE calls[p]],
     last     |-> [p \in Owner |-> NoCall],
     handlers |-> {},
     sizes    |-> [p \in Owner |-> IF p = Root THEN <<>> ELSE sizes[p]],
     own      |-> [p \in Owner |-> IF p = Root THEN 0 ELSE Len(sizes[p])],
     optimize |-> FALSE]

\* A procedure may end with its call of an earlier one.
TailCalls ==
    {[Simple([p \in Proc |-> {}], [p \in Proc |-> <<1>>])
        EXCEPT !.last = [p \in Owner |-> IF p = Root THEN NoCall ELSE l[p]],
               !.calls[3] = IF l[3] = NoCall THEN {2} ELSE {},
               !.calls[4] = {3} \ {l[4]},
               !.optimize = TRUE] :
        l \in {m \in [Proc -> Proc \cup {NoCall}] : \A p \in Proc : m[p] < p}}
=============================================================================
