-------------------------- MODULE MCVarAllocGraphs --------------------------
(***************************************************************************)
(* Programs for VarAlloc with every call graph of a few procedures.        *)
(***************************************************************************)
EXTENDS MCVarAlloc

CallGraphs == {c \in [Proc -> SUBSET Proc] : \A p \in Proc : c[p] \subseteq 1..(p - 1)}

Shapes == {<<>>, <<1>>, <<2>>, <<1, 1>>, <<1, 2>>, <<2, 1>>}

\* Every call graph and variables; the root code may not call procedure 1,
\* and has a variable of its own.
Plain ==
    {[Simple(c, s) EXCEPT !.calls[Root] = r, !.sizes[Root] = <<1>>, !.own[Root] = 1] :
        c \in CallGraphs, s \in [Proc -> Shapes], r \in {Proc, Proc \ {1}}}

\* Procedure 2 keeps its variables in a for loop.
Loops ==
    {[Simple(c, [p \in Proc |-> IF p = 2 THEN s ELSE <<1>>]) EXCEPT !.own[2] = 0] :
        c \in CallGraphs, s \in {<<1, 1>>, <<1, 2>>}}

\* Procedure 2 is an interrupt routine that calls procedure 1, or nothing.
Interrupts ==
    {[Simple(c, [p \in Proc |-> <<1, 1>>]) EXCEPT !.calls[Root] = Proc \ {1, 2},
                                                  !.handlers = {2}] :
        c \in CallGraphs}

PlainPrograms == Plain \cup Loops \cup Interrupts
=============================================================================
