----------------------------- MODULE HeapBlocks -----------------------------
(***************************************************************************)
(* The block list of a MemHeap (src/atalan/mem_heap.c): an array of        *)
(* {adr, size} records, searched from the front.  The operators below are  *)
(* the bodies of HeapAddBlock, of one turn of the loop of HeapRemoveBlock, *)
(* and of HeapAllocBlock.  MemHeap drives one heap with them, VarAlloc the *)
(* two heaps variables are placed in.                                      *)
(***************************************************************************)
EXTENDS Integers, Sequences

Block == [adr : Nat, size : Nat \ {0}]

\* One past the last byte of a block ("hend" in the source).
End(b) == b.adr + b.size

Bytes(b) == b.adr .. (End(b) - 1)

Covered(bl) == UNION {Bytes(bl[i]) : i \in 1..Len(bl)}

\* Block b with another size.
Resized(b, size) == [adr |-> b.adr, size |-> size]

\* Two blocks have no byte in common.
Apart(a, b) == End(a) <= b.adr \/ End(b) <= a.adr

\* Blocks of one list have no byte in common.
Disjoint(bl) ==
    \A i, j \in 1..Len(bl) : i # j => Apart(bl[i], bl[j])

\* "for (cnt = ...; cnt > 0; cnt--) ... return": the first index of a match.
FirstOf(S) == CHOOSE i \in S : \A j \in S : i <= j

-----------------------------------------------------------------------------
(***************************************************************************)
(* HeapAddBlock.  The first block whose bytes, or whose end, the new block *)
(* starts at grows to the new end; no other block is looked at.  Otherwise *)
(* the new block goes to the end of the array.                             *)
(***************************************************************************)
Touching(bl, adr) ==
    {i \in 1..Len(bl) : bl[i].adr <= adr /\ adr <= End(bl[i])}

\* Mutant: the test of "end > hend" is lost, a block can shrink.
HeapAddShrinks(bl, adr, size) ==
    IF Touching(bl, adr) # {}
    THEN LET i == FirstOf(Touching(bl, adr))
         IN  [bl EXCEPT ![i] = Resized(@, adr + size - bl[i].adr)]
    ELSE Append(bl, [adr |-> adr, size |-> size])

\* Mutant: a block touched from behind grows by the whole size added.
HeapAddOvergrows(bl, adr, size) ==
    IF Touching(bl, adr) # {}
    THEN LET i == FirstOf(Touching(bl, adr))
         IN  [bl EXCEPT ![i] = Resized(@, bl[i].size + size + 1)]
    ELSE Append(bl, [adr |-> adr, size |-> size])

HeapAddBlock(bl, adr, size) ==
    LET hit == Touching(bl, adr)
        i   == FirstOf(hit)
    IN  IF hit = {}
        THEN Append(bl, [adr |-> adr, size |-> size])
        ELSE IF adr + size > End(bl[i])
             THEN [bl EXCEPT ![i] = Resized(@, adr + size - bl[i].adr)]
             ELSE bl

-----------------------------------------------------------------------------
(***************************************************************************)
(* HeapRemoveBlock: one turn of its loop, at index i, for the bytes        *)
(* adr..end-1.  "next" is the index of the following turn; an early return *)
(* is an index past the end.  The memcpy that closes the gap of a covered  *)
(* block overlaps itself; a block list is a handful of 8-byte entries,     *)
(* which the build moves as a shift to the left.                           *)
(***************************************************************************)
DropAt(bl, i) == [j \in 1..(Len(bl) - 1) |-> IF j < i THEN bl[j] ELSE bl[j+1]]

\* Mutant: the tail behind the removed bytes is lost.
SplitLosesTail(bl, i, adr, end) ==
    [bl EXCEPT ![i] = Resized(@, adr - bl[i].adr)]

\* The removed bytes are in the middle: the tail becomes a block of its own.
SplitAt(bl, i, adr, end) ==
    HeapAddBlock([bl EXCEPT ![i] = Resized(@, adr - bl[i].adr)],
                 end, End(bl[i]) - end)

\* One turn of the loop of HeapRemoveBlock; after a split the function returns.
HeapRemoveStep(bl, i, adr, end) ==
    LET b == bl[i] IN
    CASE adr >= End(b) \/ end <= b.adr ->
             [block |-> bl, next |-> i + 1]
      [] b.adr < adr /\ End(b) > end ->
             [block |-> SplitAt(bl, i, adr, end), next |-> Len(bl) + 2]
      [] adr <= b.adr /\ end >= End(b) ->
             [block |-> DropAt(bl, i), next |-> i]
      [] b.adr < adr /\ adr < End(b) /\ End(b) <= end ->
             [block |-> [bl EXCEPT ![i] = Resized(b, adr - b.adr)], next |-> i + 1]
      [] adr <= b.adr /\ b.adr < end /\ end < End(b) ->
             [block |-> [bl EXCEPT ![i] = [adr |-> end, size |-> End(b) - end]],
              next |-> i + 1]

-----------------------------------------------------------------------------
(***************************************************************************)
(* HeapAllocBlock: best fit, the first of the smallest blocks that are     *)
(* large enough.  A block used up is overwritten by the last one.          *)
(***************************************************************************)
Fits(bl, size) == {i \in 1..Len(bl) : bl[i].size >= size}

BestFit(bl, size) ==
    FirstOf({i \in Fits(bl, size) :
                \A j \in Fits(bl, size) : bl[i].size <= bl[j].size})

\* Mutant: an empty block is overwritten, but the array keeps its last entry.
AllocKeepsLast(bl, i, size) ==
    IF bl[i].size = size
    THEN [bl EXCEPT ![i] = bl[Len(bl)]]
    ELSE [bl EXCEPT ![i] = [adr |-> bl[i].adr + size, size |-> bl[i].size - size]]

\* Mutant: the size of the rest of the block is not reduced.
AllocKeepsSize(bl, i, size) ==
    IF bl[i].size = size
    THEN [j \in 1..(Len(bl) - 1) |-> IF j = i THEN bl[Len(bl)] ELSE bl[j]]
    ELSE [bl EXCEPT ![i].adr = bl[i].adr + size]

\* Mutant: a block used up stays in the array with no bytes.
AllocLeavesEmpty(bl, i, size) ==
    [bl EXCEPT ![i] = [adr |-> bl[i].adr + size, size |-> bl[i].size - size]]

\* The list after `size' bytes were taken from the front of block i.
AllocFrom(bl, i, size) ==
    IF bl[i].size = size
    THEN [j \in 1..(Len(bl) - 1) |-> IF j = i THEN bl[Len(bl)] ELSE bl[j]]
    ELSE [bl EXCEPT ![i] = [adr |-> bl[i].adr + size, size |-> bl[i].size - size]]
=============================================================================
