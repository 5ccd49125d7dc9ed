------------------------------ MODULE MemHeap -------------------------------
(***************************************************************************)
(* A MemHeap (src/atalan/mem_heap.c) and its clients.  HeapAddBlock and    *)
(* HeapAllocBlock are one step each; HeapRemoveBlock, which rewrites the   *)
(* array while it walks over it, is one step per turn of its loop.         *)
(*                                                                         *)
(* VAR_HEAP is filled once from the disjoint ranges of the platform's      *)
(* "varheap" type (AddFresh).  The local heap of AllocateVariables is      *)
(* filled with the addresses of variables that may share memory with each  *)
(* other, so a range may be added that is there already (AddAgain).        *)
(***************************************************************************)
EXTENDS HeapBlocks

CONSTANTS MaxAdr,       \* addresses are 0..MaxAdr-1
          MaxSize,      \* largest block added, removed or allocated at once
          Overlapping,  \* TRUE: ranges that are free already are added too
          MaxBlocks     \* bound: no such range is added to a longer array

ASSUME MemHeapAssumption ==
    /\ MaxAdr \in Nat \ {0}
    /\ MaxSize \in Nat \ {0}
    /\ Overlapping \in BOOLEAN
    /\ MaxBlocks \in Nat

VARIABLES block,        \* heap->block[0 .. heap->count-1]
          capacity,     \* heap->capacity
          removing,     \* the HeapRemoveBlock call in progress
          held          \* the ranges HeapAllocBlock has handed out

vars == <<block, capacity, removing, held>>

Idle == [active |-> FALSE, adr |-> 0, end |-> 0, at |-> 0]

\* The blocks a client may name.
Request == {b \in [adr : 0..(MaxAdr - 1), size : 1..MaxSize] : End(b) <= MaxAdr}

\* Mutant: the capacity of a full array is not doubled.
GrownOnce(n, cap) == IF n <= cap THEN cap ELSE IF cap = 0 THEN 4 ELSE cap

\* realloc when heap->count == heap->capacity.
Grown(n, cap) == IF n <= cap THEN cap ELSE IF cap = 0 THEN 4 ELSE 2 * cap

Init ==
    /\ block = <<>>
    /\ capacity = 0
    /\ removing = Idle
    /\ held = {}

Added(r) ==
    /\ ~removing.active
    /\ \A h \in held : Apart(r, h)
    /\ block' = HeapAddBlock(block, r.adr, r.size)
    /\ capacity' = Grown(Len(block'), capacity)
    /\ UNCHANGED <<removing, held>>

\* HeapAddBlock with a range none of which is in the heap.
AddFresh(r) ==
    /\ \A i \in 1..Len(block) : Apart(r, block[i])
    /\ Added(r)

\* HeapAddBlock with a range some of which is in the heap.
AddAgain(r) ==
    /\ Overlapping
    /\ Len(block) < MaxBlocks
    /\ \E i \in 1..Len(block) : ~Apart(r, block[i])
    /\ Added(r)

\* HeapRemoveBlock is entered.
RemoveBegin(r) ==
    /\ ~removing.active
    /\ removing' = [active |-> TRUE, adr |-> r.adr, end |-> End(r), at |-> 1]
    /\ UNCHANGED <<block, capacity, held>>

\* One turn of the loop of HeapRemoveBlock.
RemoveStep ==
    /\ removing.active
    /\ removing.at <= Len(block)
    /\ LET s == HeapRemoveStep(block, removing.at, removing.adr, removing.end)
       IN  /\ block' = s.block
           /\ removing' = [removing EXCEPT !.at = s.next]
    /\ capacity' = Grown(Len(block'), capacity)
    /\ UNCHANGED held

\* The loop of HeapRemoveBlock has run out of blocks, or it returned early.
RemoveEnd ==
    /\ removing.active
    /\ removing.at > Len(block)
    /\ removing' = Idle
    /\ UNCHANGED <<block, capacity, held>>

\* HeapAllocBlock finds a block.  When none fits it changes nothing.
Alloc(size) ==
    /\ ~removing.active
    /\ Fits(block, size) # {}
    /\ LET i == BestFit(block, size)
       IN  /\ held' = held \cup {[adr |-> block[i].adr, size |-> size]}
           /\ block' = AllocFrom(block, i, size)
    /\ UNCHANGED <<capacity, removing>>

Next ==
    \/ \E r \in Request : AddFresh(r) \/ AddAgain(r) \/ RemoveBegin(r)
    \/ RemoveStep
    \/ RemoveEnd
    \/ \E size \in 1..MaxSize : Alloc(size)

Spec == Init /\ [][Next]_vars

-----------------------------------------------------------------------------
TypeOK ==
    /\ block \in Seq(Block)
    /\ capacity \in Nat
    /\ removing \in [active : BOOLEAN, adr : Nat, end : Nat, at : Nat]
    /\ removing.active => removing.at \in Nat \ {0}
    /\ held \subseteq Block

(***************************************************************************)
(* Every entry HeapAddBlock writes lies inside the array it reallocated,   *)
(* also the one HeapRemoveBlock adds when it splits a block.               *)
(***************************************************************************)
InCapacity == Len(block) <= capacity

(***************************************************************************)
(* What is still in the heap has not been handed out, and no byte was      *)
(* handed out twice: the ranges HeapAllocBlock returned, and the blocks    *)
(* left, are pairwise disjoint.  This is what lets AllocateVariables place *)
(* two variables by two calls of HeapAllocBlock.                           *)
(***************************************************************************)
NoDoubleAllocation ==
    /\ \A h \in held : \A i \in 1..Len(block) : Apart(h, block[i])
    /\ \A g, h \in held : g # h => Apart(g, h)

(***************************************************************************)
(* As long as no range is added that is in the heap already, two entries   *)
(* of the array never describe the same byte.                              *)
(***************************************************************************)
BlocksDisjoint == Disjoint(block)

(***************************************************************************)
(* HeapRemoveBlock leaves no byte of the removed range behind, although it *)
(* deletes and moves entries of the array it walks over and returns from   *)
(* the middle of the loop after a split: the entries it has passed are     *)
(* clear of the range.                                                     *)
(***************************************************************************)
PassedIsClear ==
    removing.active =>
        \A i \in 1..Len(block) :
            i < removing.at =>
                removing.end <= block[i].adr \/ End(block[i]) <= removing.adr

(***************************************************************************)
(* The heap is an address pool: the free addresses are the bytes of its    *)
(* blocks, less the range a removal in progress has still to take out.     *)
(***************************************************************************)
Outgoing ==
    IF removing.active THEN removing.adr .. (removing.end - 1) ELSE {}

FreeBytes == Covered(block) \ Outgoing

Pool == INSTANCE AddressPool
        WITH free      <- FreeBytes,
             taken     <- UNION {Bytes(h) : h \in held},
             withdrawn <- Outgoing

PoolSpec == Pool!Spec

(***************************************************************************)
(* HeapAddBlock makes available the range it is given and nothing else,    *)
(* whatever the heap held before: it neither invents an address nor, when  *)
(* the range lies inside a block, loses one.                               *)
(***************************************************************************)
AddsExactly ==
    [][\A r \in Request :
           Added(r) => Covered(block') = Covered(block) \cup Bytes(r)]_vars
=============================================================================
