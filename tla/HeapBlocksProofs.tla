-------------------------- MODULE HeapBlocksProofs --------------------------
(***************************************************************************)
(* Lemmas about the operators of HeapBlocks: what a block list holds, and  *)
(* what stays apart from it, after each of them.  MemHeapProofs and        *)
(* VarAllocProofs cite them.                                               *)
(***************************************************************************)
EXTENDS HeapBlocks, NumberProofs

\* Everything in the list lies below M.
Below(bl, M) == \A i \in 1..Len(bl) : End(bl[i]) <= M

\* No entry of the list shares a byte with x.
AllApart(x, bl) == \A i \in 1..Len(bl) : Apart(x, bl[i])

\* No entry before index i shares a byte with adr..end-1.
ClearBefore(bl, i, adr, end) ==
    \A j \in 1..Len(bl) : j < i => end <= bl[j].adr \/ End(bl[j]) <= adr

-----------------------------------------------------------------------------
(* A function on 1..n is a sequence of length n.                           *)
LEMMA FunctionIsSeq ==
    ASSUME NEW S, NEW n \in Nat, NEW f \in [1..n -> S]
    PROVE  f \in Seq(S) /\ Len(f) = n
  OBVIOUS

(* A sequence is a function on 1..Len.                                     *)
LEMMA SeqIsFunction ==
    ASSUME NEW S, NEW s \in Seq(S)
    PROVE  s \in [1..Len(s) -> S] /\ Len(s) \in Nat
  OBVIOUS

(* The first index of a match is an index of a match.                      *)
LEMMA FirstOfIn ==
    ASSUME NEW S, S \subseteq Nat, S # {}
    PROVE  FirstOf(S) \in S
  BY NatMinimum DEF FirstOf

(* A block begins and ends at natural numbers, in this order.              *)
LEMMA BlockEnds ==
    ASSUME NEW b \in Block
    PROVE  b.adr \in Nat /\ End(b) \in Nat /\ b.adr < End(b)
  BY DEF End, Block

(* Two blocks are apart in either order.                                   *)
LEMMA ApartSymmetric ==
    ASSUME NEW a \in Block, NEW b \in Block, Apart(a, b)
    PROVE  Apart(b, a)
  BY DEF Apart

(* The bytes of a part of a block are bytes of the block.                  *)
LEMMA PartBytes ==
    ASSUME NEW a \in Block, NEW b \in Block, b.adr <= a.adr, End(a) <= End(b)
    PROVE  Bytes(a) \subseteq Bytes(b)
  BY BlockEnds DEF Bytes

(* Blocks that are apart have no address in common.                        *)
LEMMA ApartBytes ==
    ASSUME NEW a \in Block, NEW b \in Block, Apart(a, b)
    PROVE  Bytes(a) \cap Bytes(b) = {}
  BY BlockEnds DEF Apart, Bytes

(* Parts of blocks that are apart are apart.                               *)
LEMMA ApartParts ==
    ASSUME NEW a \in Block, NEW b \in Block, NEW c \in Block, NEW d \in Block,
           a.adr <= c.adr, End(c) <= End(a),
           b.adr <= d.adr, End(d) <= End(b),
           Apart(a, b)
    PROVE  Apart(c, d)
  <1>1. /\ a.adr \in Nat /\ End(a) \in Nat /\ b.adr \in Nat /\ End(b) \in Nat
        /\ c.adr \in Nat /\ End(c) \in Nat /\ d.adr \in Nat /\ End(d) \in Nat
    BY DEF End, Block
  <1> QED BY <1>1 DEF Apart

(* A block stored at index i of a list changes that entry only.            *)
LEMMA ReplaceBlock ==
    ASSUME NEW bl \in Seq(Block), NEW i \in 1..Len(bl), NEW b \in Block
    PROVE  /\ [bl EXCEPT ![i] = b] \in Seq(Block)
           /\ Len([bl EXCEPT ![i] = b]) = Len(bl)
           /\ \A j \in 1..Len(bl) :
                 [bl EXCEPT ![i] = b][j] = IF j = i THEN b ELSE bl[j]
  <1>1. bl \in [1..Len(bl) -> Block] /\ Len(bl) \in Nat
    BY SeqIsFunction
  <1>2. [bl EXCEPT ![i] = b] \in [1..Len(bl) -> Block]
    BY <1>1
  <1> QED BY <1>1, <1>2, FunctionIsSeq

(* The entries of a list with one appended.                                *)
LEMMA AppendBlock ==
    ASSUME NEW bl \in Seq(Block), NEW b \in Block
    PROVE  /\ Append(bl, b) \in Seq(Block)
           /\ Len(Append(bl, b)) = Len(bl) + 1
           /\ \A j \in 1..Len(bl) : Append(bl, b)[j] = bl[j]
           /\ Append(bl, b)[Len(bl) + 1] = b
  OBVIOUS

-----------------------------------------------------------------------------
(* HeapAddBlock either appends the range, or lets an entry that the range  *)
(* starts in or right behind grow to the end of the range, or changes      *)
(* nothing because that entry ends later.                                  *)
LEMMA AddCases ==
    ASSUME NEW bl \in Seq(Block), NEW r \in Block
    PROVE  LET new == HeapAddBlock(bl, r.adr, r.size) IN
           \/ new = Append(bl, r)
           \/ \E i \in 1..Len(bl) :
                 /\ bl[i].adr <= r.adr /\ r.adr <= End(bl[i])
                 /\ \/ /\ End(r) > End(bl[i])
                       /\ new = [bl EXCEPT ![i] = [adr  |-> bl[i].adr,
                                                   size |-> End(r) - bl[i].adr]]
                    \/ End(r) <= End(bl[i]) /\ new = bl
  <1> DEFINE hit == Touching(bl, r.adr)
             i   == FirstOf(hit)
  <1>1. r = [adr |-> r.adr, size |-> r.size]
    BY DEF Block
  <1>2. CASE hit = {}
    BY <1>1, <1>2 DEF HeapAddBlock
  <1>3. CASE hit # {}
    <2>0. hit \subseteq Nat
      BY DEF Touching
    <2>1. i \in hit
      BY <1>3, <2>0, FirstOfIn
    <2>2. i \in 1..Len(bl) /\ bl[i].adr <= r.adr /\ r.adr <= End(bl[i])
      BY <2>1 DEF Touching
    <2>3. bl[i] \in Block
      BY <2>2, SeqIsFunction
    <2>4. End(r) = r.adr + r.size
      BY DEF End
    <2>5. HeapAddBlock(bl, r.adr, r.size)
              = IF r.adr + r.size > End(bl[i])
                THEN [bl EXCEPT ![i] = Resized(bl[i], r.adr + r.size - bl[i].adr)]
                ELSE bl
      BY <1>3, <2>1 DEF HeapAddBlock
    <2> HIDE DEF i, hit
    <2>6. CASE r.adr + r.size > End(bl[i])
      <3>1. HeapAddBlock(bl, r.adr, r.size)
                = [bl EXCEPT ![i] = Resized(bl[i], r.adr + r.size - bl[i].adr)]
        BY <2>6, <2>5
      <3>2. Resized(bl[i], r.adr + r.size - bl[i].adr)
                = [adr |-> bl[i].adr, size |-> End(r) - bl[i].adr]
        BY <2>3 DEF Resized, End, Block
      <3>3. HeapAddBlock(bl, r.adr, r.size)
                = [bl EXCEPT ![i] = [adr  |-> bl[i].adr,
                                     size |-> End(r) - bl[i].adr]]
        BY <3>1, <3>2
      <3>4. End(r) > End(bl[i])
        BY <2>4, <2>6
      <3> QED BY <2>2, <3>3, <3>4, Zenon
    <2>7. CASE ~(r.adr + r.size > End(bl[i]))
      <3>1. End(r) <= End(bl[i])
        BY <2>3, <2>7 DEF Block, End
      <3> QED BY <2>2, <2>7, <2>5, <3>1
    <2> QED BY <2>6, <2>7
  <1> QED BY <1>2, <1>3

(* After HeapAddBlock the list is a block list again, at most one longer;  *)
(* what was clear of the list and of the range is still clear; and adding  *)
(* a range that was clear of the list keeps its entries disjoint.          *)
LEMMA AddBlock ==
    ASSUME NEW bl \in Seq(Block), NEW r \in Block
    PROVE  LET new == HeapAddBlock(bl, r.adr, r.size) IN
           /\ new \in Seq(Block)
           /\ Len(new) = Len(bl) \/ Len(new) = Len(bl) + 1
           /\ \A x \in Block : AllApart(x, bl) /\ Apart(x, r) => AllApart(x, new)
           /\ AllApart(r, bl) /\ Disjoint(bl) => Disjoint(new)
           /\ \A M \in Nat : Below(bl, M) /\ End(r) <= M => Below(new, M)
  <1> DEFINE new == HeapAddBlock(bl, r.adr, r.size)
  <1>0. Len(bl) \in Nat /\ \A j \in 1..Len(bl) : bl[j] \in Block
    BY SeqIsFunction
  <1>1. CASE new = Append(bl, r)
    <2>1. /\ new \in Seq(Block)
          /\ Len(new) = Len(bl) + 1
          /\ \A j \in 1..Len(bl) : new[j] = bl[j]
          /\ new[Len(bl) + 1] = r
      BY <1>1, AppendBlock
    <2>2. \A j \in 1..Len(new) : j \in 1..Len(bl) \/ j = Len(bl) + 1
      BY <1>0, <2>1
    <2>3. \A x \in Block : AllApart(x, bl) /\ Apart(x, r) => AllApart(x, new)
      BY <2>1, <2>2 DEF AllApart
    <2>4. AllApart(r, bl) /\ Disjoint(bl) => Disjoint(new)
      <3>1. \A j \in 1..Len(bl) :
                AllApart(r, bl) => Apart(r, bl[j]) /\ Apart(bl[j], r)
        BY <1>0, ApartSymmetric DEF AllApart
      <3> HIDE DEF new
      <3> QED BY <2>1, <2>2, <3>1 DEF Disjoint
    <2>5. \A M \in Nat : Below(bl, M) /\ End(r) <= M => Below(new, M)
      BY <2>1, <2>2 DEF Below
    <2> QED BY <2>1, <2>3, <2>4, <2>5
  <1>2. CASE new = bl
    BY <1>2
  <1>3. ASSUME NEW i \in 1..Len(bl),
               bl[i].adr <= r.adr, r.adr <= End(bl[i]), End(r) > End(bl[i]),
               new = [bl EXCEPT ![i] = [adr  |-> bl[i].adr,
                                        size |-> End(r) - bl[i].adr]]
        PROVE  /\ new \in Seq(Block)
               /\ Len(new) = Len(bl)
               /\ \A x \in Block : AllApart(x, bl) /\ Apart(x, r) => AllApart(x, new)
               /\ AllApart(r, bl) /\ Disjoint(bl) => Disjoint(new)
               /\ \A M \in Nat : Below(bl, M) /\ End(r) <= M => Below(new, M)
    <2> DEFINE b == [adr |-> bl[i].adr, size |-> End(r) - bl[i].adr]
    <2>1. b \in Block /\ End(b) = End(r)
      BY <1>0, <1>3 DEF Block, End
    <2>2. /\ new \in Seq(Block)
          /\ Len(new) = Len(bl)
          /\ \A j \in 1..Len(bl) : new[j] = IF j = i THEN b ELSE bl[j]
      BY <1>3, <2>1, ReplaceBlock
    <2>3. \A x \in Block : Apart(x, bl[i]) /\ Apart(x, r) => Apart(x, b)
      <3>1. /\ bl[i] \in Block /\ b \in Block /\ b.adr = bl[i].adr
            /\ End(b) = End(r) /\ r.adr <= End(bl[i])
        BY <1>0, <1>3, <2>1
      <3> HIDE DEF b, new
      <3>2. /\ bl[i].adr \in Nat /\ End(bl[i]) \in Nat
            /\ b.adr \in Nat /\ End(b) \in Nat
            /\ r.adr \in Nat /\ End(r) \in Nat
        BY <3>1, BlockEnds
      <3> TAKE x \in Block
      <3>3. x.adr \in Nat /\ End(x) \in Nat /\ x.adr < End(x)
        BY BlockEnds
      <3> QED BY <3>1, <3>2, <3>3 DEF Apart
    <2>4. \A x \in Block : AllApart(x, bl) /\ Apart(x, r) => AllApart(x, new)
      BY <2>2, <2>3 DEF AllApart
    <2>5. ASSUME AllApart(r, bl), Disjoint(bl),
                 NEW j \in 1..Len(bl), NEW k \in 1..Len(bl), j # k
          PROVE  Apart(new[j], new[k])
      <3>1. \A m \in 1..Len(bl) : Apart(bl[m], r)
        BY <1>0, <2>5, ApartSymmetric DEF AllApart
      <3>2. \A m \in 1..Len(bl) : m # i => Apart(bl[m], b) /\ Apart(b, bl[m])
        <4> TAKE m \in 1..Len(bl)
        <4>1. m # i => Apart(bl[m], bl[i])
          BY <2>5 DEF Disjoint
        <4>2. m # i => Apart(bl[m], b)
          BY <1>0, <2>3, <3>1, <4>1
        <4> QED BY <1>0, <2>1, <4>2, ApartSymmetric
      <3> QED BY <2>2, <2>5, <3>2 DEF Disjoint
    <2>6. AllApart(r, bl) /\ Disjoint(bl) => Disjoint(new)
      BY <2>2, <2>5 DEF Disjoint
    <2>7. \A M \in Nat : Below(bl, M) /\ End(r) <= M => Below(new, M)
      BY <2>1, <2>2 DEF Below
    <2> QED BY <2>2, <2>4, <2>6, <2>7
  <1> QED BY <1>1, <1>2, <1>3, AddCases

(* HeapAddBlock adds the bytes of the range and no other.                  *)
LEMMA AddCovered ==
    ASSUME NEW bl \in Seq(Block), NEW r \in Block
    PROVE  Covered(HeapAddBlock(bl, r.adr, r.size)) = Covered(bl) \cup Bytes(r)
  <1> DEFINE new == HeapAddBlock(bl, r.adr, r.size)
  <1>0. Len(bl) \in Nat /\ \A j \in 1..Len(bl) : bl[j] \in Block
    BY SeqIsFunction
  <1>1. CASE new = Append(bl, r)
    <2>1. /\ Len(new) = Len(bl) + 1
          /\ \A j \in 1..Len(bl) : new[j] = bl[j]
          /\ new[Len(bl) + 1] = r
      BY <1>1, AppendBlock
    <2>2. 1..Len(new) = 1..Len(bl) \cup {Len(bl) + 1}
      BY <1>0, <2>1
    <2> QED BY <2>1, <2>2 DEF Covered
  <1>2. ASSUME NEW i \in 1..Len(bl), bl[i].adr <= r.adr, End(r) <= End(bl[i]),
               new = bl
        PROVE  Covered(new) = Covered(bl) \cup Bytes(r)
    <2>1. Bytes(r) \subseteq Bytes(bl[i])
      BY <1>0, <1>2, PartBytes
    <2> QED BY <1>2, <2>1 DEF Covered
  <1>3. ASSUME NEW i \in 1..Len(bl),
               bl[i].adr <= r.adr, r.adr <= End(bl[i]), End(r) > End(bl[i]),
               new = [bl EXCEPT ![i] = [adr  |-> bl[i].adr,
                                        size |-> End(r) - bl[i].adr]]
        PROVE  Covered(new) = Covered(bl) \cup Bytes(r)
    <2> DEFINE b == [adr |-> bl[i].adr, size |-> End(r) - bl[i].adr]
    <2>1. b \in Block /\ b.adr = bl[i].adr /\ End(b) = End(r)
      BY <1>0, <1>3 DEF Block, End
    <2>2. /\ Len(new) = Len(bl)
          /\ \A j \in 1..Len(bl) : new[j] = IF j = i THEN b ELSE bl[j]
      BY <1>3, <2>1, ReplaceBlock
    <2>3. bl[i] \in Block /\ r \in Block
      BY <1>0
    <2> HIDE DEF new, b
    <2>4. /\ bl[i].adr \in Nat /\ End(bl[i]) \in Nat
          /\ r.adr \in Nat /\ End(r) \in Nat
      BY <2>3, BlockEnds
    <2>5. \A x \in Int : x \in Bytes(b) <=> x \in Bytes(bl[i]) \/ x \in Bytes(r)
      BY <1>3, <2>1, <2>4 DEF Bytes
    <2>6. /\ Bytes(b) \subseteq Int
          /\ Bytes(bl[i]) \subseteq Int
          /\ Bytes(r) \subseteq Int
      BY DEF Bytes
    <2>7. Bytes(b) = Bytes(bl[i]) \cup Bytes(r)
      BY <2>5, <2>6
    <2> QED BY <1>3, <2>2, <2>7 DEF Covered
  <1> QED BY <1>1, <1>2, <1>3, AddCases

-----------------------------------------------------------------------------
(* A list whose entries are parts of different entries of another list is  *)
(* disjoint if that one was, clear of what that one was clear of, and      *)
(* below what that one was below.                                          *)
LEMMA SubBlocks ==
    ASSUME NEW bl \in Seq(Block), NEW new \in Seq(Block),
           NEW f \in [1..Len(new) -> 1..Len(bl)],
           \A j, k \in 1..Len(new) : j # k => f[j] # f[k],
           \A j \in 1..Len(new) :
               bl[f[j]].adr <= new[j].adr /\ End(new[j]) <= End(bl[f[j]])
    PROVE  /\ Disjoint(bl) => Disjoint(new)
           /\ \A x \in Block : AllApart(x, bl) => AllApart(x, new)
           /\ \A M \in Nat : Below(bl, M) => Below(new, M)
  <1>0. \A j \in 1..Len(new) :
            /\ f[j] \in 1..Len(bl)
            /\ bl[f[j]] \in Block
            /\ new[j] \in Block
            /\ bl[f[j]].adr <= new[j].adr
            /\ End(new[j]) <= End(bl[f[j]])
    BY SeqIsFunction
  <1>1. ASSUME Disjoint(bl), NEW j \in 1..Len(new), NEW k \in 1..Len(new), j # k
        PROVE  Apart(new[j], new[k])
    <2>1. Apart(bl[f[j]], bl[f[k]])
      BY <1>0, <1>1 DEF Disjoint
    <2> QED BY <1>0, <2>1, ApartParts
  <1>2. ASSUME NEW x \in Block, AllApart(x, bl), NEW j \in 1..Len(new)
        PROVE  Apart(x, new[j])
    <2>1. Apart(x, bl[f[j]])
      BY <1>0, <1>2 DEF AllApart
    <2>2. x.adr <= x.adr /\ End(x) <= End(x)
      BY DEF End, Block
    <2> QED BY <1>0, <2>1, <2>2, ApartParts
  <1>3. ASSUME NEW M \in Nat, Below(bl, M), NEW j \in 1..Len(new)
        PROVE  End(new[j]) <= M
    <2> DEFINE e == End(new[j])
               g == End(bl[f[j]])
    <2>1. g <= M
      BY <1>0, <1>3 DEF Below
    <2>2. e <= g /\ e \in Int /\ g \in Int
      BY <1>0, BlockEnds
    <2> HIDE DEF e, g
    <2>3. e <= M
      BY <2>1, <2>2
    <2> QED BY <2>3 DEF e
  <1> QED BY <1>1, <1>2, <1>3 DEF Disjoint, AllApart, Below

(* One entry replaced by a part of itself: the case of SubBlocks where     *)
(* every entry keeps its index.                                            *)
LEMMA TrimBlock ==
    ASSUME NEW bl \in Seq(Block), NEW i \in 1..Len(bl), NEW b \in Block,
           bl[i].adr <= b.adr, End(b) <= End(bl[i])
    PROVE  LET new == [bl EXCEPT ![i] = b] IN
           /\ Disjoint(bl) => Disjoint(new)
           /\ \A x \in Block : AllApart(x, bl) => AllApart(x, new)
           /\ \A M \in Nat : Below(bl, M) => Below(new, M)
  <1> DEFINE new == [bl EXCEPT ![i] = b]
             f   == [j \in 1..Len(new) |-> j]
  <1>0. \A j \in 1..Len(bl) : bl[j] \in Block
    BY SeqIsFunction
  <1>1. /\ new \in Seq(Block)
        /\ Len(new) = Len(bl)
        /\ \A j \in 1..Len(bl) : new[j] = IF j = i THEN b ELSE bl[j]
    BY ReplaceBlock
  <1> HIDE DEF new
  <1>2. f \in [1..Len(new) -> 1..Len(bl)]
    BY <1>1
  <1>3. \A j, k \in 1..Len(new) : j # k => f[j] # f[k]
    OBVIOUS
  <1>4. \A j \in 1..Len(new) :
            bl[f[j]].adr <= new[j].adr /\ End(new[j]) <= End(bl[f[j]])
    <2> TAKE j \in 1..Len(new)
    <2>1. f[j] = j /\ j \in 1..Len(bl)
      BY <1>1
    <2>2. CASE j = i
      BY <1>1, <2>1, <2>2
    <2>3. CASE j # i
      <3>1. new[j] = bl[j] /\ bl[j] \in Block
        BY <1>0, <1>1, <2>1, <2>3
      <3>2. bl[j].adr <= bl[j].adr /\ End(bl[j]) <= End(bl[j])
        BY <3>1 DEF End, Block
      <3> QED BY <2>1, <3>1, <3>2
    <2> QED BY <2>2, <2>3
  <1>5. /\ Disjoint(bl) => Disjoint(new)
        /\ \A x \in Block : AllApart(x, bl) => AllApart(x, new)
        /\ \A M \in Nat : Below(bl, M) => Below(new, M)
    <2> HIDE DEF f
    <2> QED BY <1>1, <1>2, <1>3, <1>4, SubBlocks
  <1> QED BY <1>5 DEF new

-----------------------------------------------------------------------------
(* What one turn of HeapRemoveBlock does to the list: it stays a disjoint  *)
(* block list, nothing that was clear of it is touched, the entries passed *)
(* are clear of the removed bytes, and only removed bytes are lost.        *)
Removes(bl, i, adr, end, s) ==
    /\ s.block \in Seq(Block)
    /\ Len(s.block) <= Len(bl) + 1
    /\ s.next \in Nat \ {0}
    /\ Disjoint(bl) => Disjoint(s.block)
    /\ \A x \in Block : AllApart(x, bl) => AllApart(x, s.block)
    /\ \A M \in Nat : Below(bl, M) => Below(s.block, M)
    /\ Disjoint(bl) /\ ClearBefore(bl, i, adr, end)
           => ClearBefore(s.block, s.next, adr, end)
    /\ Covered(s.block) \ (adr..(end - 1)) = Covered(bl) \ (adr..(end - 1))

(* The turn that leaves an entry alone, which the range does not meet.     *)
LEMMA RemoveKeeps ==
    ASSUME NEW bl \in Seq(Block), NEW i \in 1..Len(bl), NEW adr \in Nat,
           NEW end \in Nat, adr >= End(bl[i]) \/ end <= bl[i].adr
    PROVE  Removes(bl, i, adr, end, [block |-> bl, next |-> i + 1])
  <1>1. \A j \in 1..Len(bl) : bl[j] \in Block
    BY SeqIsFunction
  <1>2. ClearBefore(bl, i, adr, end) => ClearBefore(bl, i + 1, adr, end)
    <2>1. \A j \in 1..Len(bl) : j < i + 1 => j < i \/ j = i
      OBVIOUS
    <2>2. end <= bl[i].adr \/ End(bl[i]) <= adr
      BY <1>1, BlockEnds
    <2> QED BY <2>1, <2>2 DEF ClearBefore
  <1> QED BY <1>2 DEF Removes

(* The turn that cuts the range off one end of an entry.                   *)
LEMMA RemoveTrims ==
    ASSUME NEW bl \in Seq(Block), NEW i \in 1..Len(bl), NEW adr \in Nat,
           NEW end \in Nat, NEW b \in Block,
           bl[i].adr <= b.adr, End(b) <= End(bl[i]),
           end <= b.adr \/ End(b) <= adr,
           Bytes(b) \ (adr..(end - 1)) = Bytes(bl[i]) \ (adr..(end - 1))
    PROVE  Removes(bl, i, adr, end,
                   [block |-> [bl EXCEPT ![i] = b], next |-> i + 1])
  <1> DEFINE new == [bl EXCEPT ![i] = b]
  <1>1. /\ new \in Seq(Block)
        /\ Len(new) = Len(bl)
        /\ \A j \in 1..Len(bl) : new[j] = IF j = i THEN b ELSE bl[j]
    BY ReplaceBlock
  <1>2. /\ Disjoint(bl) => Disjoint(new)
        /\ \A x \in Block : AllApart(x, bl) => AllApart(x, new)
        /\ \A M \in Nat : Below(bl, M) => Below(new, M)
    BY TrimBlock
  <1> HIDE DEF new
  <1>3. ClearBefore(bl, i, adr, end) => ClearBefore(new, i + 1, adr, end)
    BY <1>1 DEF ClearBefore
  <1>4. Covered(new) \ (adr..(end - 1)) = Covered(bl) \ (adr..(end - 1))
    BY <1>1 DEF Covered
  <1>5. Removes(bl, i, adr, end, [block |-> new, next |-> i + 1])
    BY <1>1, <1>2, <1>3, <1>4 DEF Removes
  <1> QED BY <1>5 DEF new

(* The turn that deletes an entry inside the range.                        *)
LEMMA RemoveDrops ==
    ASSUME NEW bl \in Seq(Block), NEW i \in 1..Len(bl), NEW adr \in Nat,
           NEW end \in Nat, adr <= bl[i].adr, end >= End(bl[i])
    PROVE  Removes(bl, i, adr, end, [block |-> DropAt(bl, i), next |-> i])
  <1> DEFINE new == DropAt(bl, i)
             f   == [j \in 1..(Len(bl) - 1) |-> IF j < i THEN j ELSE j + 1]
  <1>1. Len(bl) \in Nat /\ \A j \in 1..Len(bl) : bl[j] \in Block
    BY SeqIsFunction
  <1>2. f \in [1..(Len(bl) - 1) -> 1..Len(bl)]
    BY <1>1
  <1>3. \A j \in 1..(Len(bl) - 1) : f[j] = IF j < i THEN j ELSE j + 1
    OBVIOUS
  <1> HIDE DEF f
  <1>4. \A j \in 1..(Len(bl) - 1) : f[j] \in 1..Len(bl) /\ bl[f[j]] \in Block
    BY <1>1, <1>2
  <1>5. new = [j \in 1..(Len(bl) - 1) |-> bl[f[j]]]
    BY <1>3 DEF DropAt
  <1>6. new \in [1..(Len(bl) - 1) -> Block]
    BY <1>4, <1>5
  <1>7. /\ new \in Seq(Block)
        /\ Len(new) = Len(bl) - 1
        /\ \A j \in 1..Len(new) : new[j] = bl[f[j]]
    BY <1>1, <1>5, <1>6, FunctionIsSeq
  <1> HIDE DEF new
  <1>8. \A j \in 1..Len(new) :
            bl[f[j]].adr <= new[j].adr /\ End(new[j]) <= End(bl[f[j]])
    <2> TAKE j \in 1..Len(new)
    <2>1. new[j] = bl[f[j]] /\ bl[f[j]] \in Block
      BY <1>4, <1>7
    <2>2. \A b \in Block : b.adr <= b.adr /\ End(b) <= End(b)
      BY DEF End, Block
    <2> QED BY <2>1, <2>2
  <1>9. \A j, k \in 1..Len(new) : j # k => f[j] # f[k]
    BY <1>3, <1>7
  <1>10. /\ Disjoint(bl) => Disjoint(new)
         /\ \A x \in Block : AllApart(x, bl) => AllApart(x, new)
         /\ \A M \in Nat : Below(bl, M) => Below(new, M)
    BY <1>2, <1>7, <1>8, <1>9, SubBlocks
  <1>11. ClearBefore(bl, i, adr, end) => ClearBefore(new, i, adr, end)
    BY <1>3, <1>4, <1>7 DEF ClearBefore
  <1>12. Covered(new) \ (adr..(end - 1)) = Covered(bl) \ (adr..(end - 1))
    <2>1. Bytes(bl[i]) \subseteq adr..(end - 1)
      BY <1>1, BlockEnds DEF Bytes
    <2>2. ASSUME NEW k \in 1..Len(bl), k # i
          PROVE  \E j \in 1..Len(new) : new[j] = bl[k]
      <3>1. CASE k < i
        BY <1>3, <1>7, <2>2, <3>1
      <3>2. CASE k > i
        <4>1. k - 1 \in 1..Len(new) /\ ~(k - 1 < i) /\ (k - 1) + 1 = k
          BY <1>1, <1>7, <3>2
        <4> QED BY <1>3, <1>7, <4>1
      <3> QED BY <2>2, <3>1, <3>2
    <2>3. \A j \in 1..Len(new) : \E k \in 1..Len(bl) : new[j] = bl[k]
      BY <1>4, <1>7
    <2> QED BY <2>1, <2>2, <2>3 DEF Covered
  <1>13. Removes(bl, i, adr, end, [block |-> new, next |-> i])
    BY <1>1, <1>7, <1>10, <1>11, <1>12 DEF Removes
  <1> QED BY <1>13 DEF new

(* The turn that finds the range inside an entry: what is behind the range *)
(* is added as an entry of its own, and the call returns.                  *)
LEMMA RemoveSplits ==
    ASSUME NEW bl \in Seq(Block), NEW i \in 1..Len(bl), NEW adr \in Nat,
           NEW end \in Nat, adr < end, bl[i].adr < adr, End(bl[i]) > end
    PROVE  Removes(bl, i, adr, end,
                   [block |-> SplitAt(bl, i, adr, end), next |-> Len(bl) + 2])
  <1> DEFINE b    == Resized(bl[i], adr - bl[i].adr)
             r    == [adr |-> end, size |-> End(bl[i]) - end]
             trim == [bl EXCEPT ![i] = b]
             new  == HeapAddBlock(trim, r.adr, r.size)
  <1>1. Len(bl) \in Nat /\ \A j \in 1..Len(bl) : bl[j] \in Block
    BY SeqIsFunction
  <1>2. /\ b \in Block /\ b.adr = bl[i].adr /\ End(b) = adr
        /\ r \in Block /\ r.adr = end /\ End(r) = End(bl[i])
    BY <1>1 DEF Resized, End, Block
  <1>3. SplitAt(bl, i, adr, end) = new
    BY DEF SplitAt
  <1> HIDE DEF b, r
  <1>4. bl[i] \in Block
    BY <1>1
  <1>5. /\ bl[i].adr <= b.adr /\ End(b) <= End(bl[i])
        /\ bl[i].adr <= r.adr /\ End(r) <= End(bl[i])
    BY <1>2, <1>4, BlockEnds
  <1>6. /\ trim \in Seq(Block)
        /\ Len(trim) = Len(bl)
        /\ \A j \in 1..Len(bl) : trim[j] = IF j = i THEN b ELSE bl[j]
    BY <1>2, ReplaceBlock
  <1>7. /\ Disjoint(bl) => Disjoint(trim)
        /\ \A x \in Block : AllApart(x, bl) => AllApart(x, trim)
        /\ \A M \in Nat : Below(bl, M) => Below(trim, M)
    BY <1>2, <1>5, TrimBlock
  <1> HIDE DEF trim
  <1>8. /\ new \in Seq(Block)
        /\ Len(new) = Len(trim) \/ Len(new) = Len(trim) + 1
        /\ \A x \in Block : AllApart(x, trim) /\ Apart(x, r) => AllApart(x, new)
        /\ AllApart(r, trim) /\ Disjoint(trim) => Disjoint(new)
        /\ \A M \in Nat : Below(trim, M) /\ End(r) <= M => Below(new, M)
    BY <1>2, <1>6, AddBlock
  <1>9. Covered(new) = Covered(trim) \cup Bytes(r)
    BY <1>2, <1>6, AddCovered
  <1> HIDE DEF new
  <1>10. \A x \in Block : AllApart(x, bl) => AllApart(x, new)
    <2>1. ASSUME NEW x \in Block, AllApart(x, bl)
          PROVE  Apart(x, r)
      <3>1. Apart(x, bl[i])
        BY <2>1 DEF AllApart
      <3>2. x.adr <= x.adr /\ End(x) <= End(x)
        BY DEF End, Block
      <3> QED BY <1>2, <1>4, <1>5, <3>1, <3>2, ApartParts
    <2> QED BY <1>7, <1>8, <2>1
  <1>11. Disjoint(bl) => Disjoint(new)
    <2>1. ASSUME Disjoint(bl), NEW j \in 1..Len(bl)
          PROVE  Apart(r, trim[j])
      <3>1. CASE j = i
        <4>1. trim[j] = b
          BY <1>6, <3>1
        <4>2. Apart(r, b)
          BY <1>2, BlockEnds DEF Apart
        <4> QED BY <4>1, <4>2
      <3>2. CASE j # i
        <4>1. Apart(bl[i], bl[j]) /\ bl[j] \in Block /\ trim[j] = bl[j]
          BY <1>1, <1>6, <2>1, <3>2 DEF Disjoint
        <4>2. bl[j].adr <= bl[j].adr /\ End(bl[j]) <= End(bl[j])
          BY <4>1 DEF End, Block
        <4> QED BY <1>2, <1>4, <1>5, <4>1, <4>2, ApartParts
      <3> QED BY <3>1, <3>2
    <2>2. Disjoint(bl) => AllApart(r, trim)
      BY <1>6, <2>1 DEF AllApart
    <2> QED BY <1>7, <1>8, <2>2
  <1>12. \A M \in Nat : Below(bl, M) => Below(new, M)
    <2>1. ASSUME NEW M \in Nat, Below(bl, M)
          PROVE  End(r) <= M
      BY <1>2, <2>1 DEF Below
    <2> QED BY <1>7, <1>8, <2>1
  <1>13. Disjoint(bl) => ClearBefore(new, Len(bl) + 2, adr, end)
    <2> DEFINE q == [adr |-> adr, size |-> end - adr]
    <2>1. q \in Block /\ q.adr = adr /\ End(q) = end
      BY DEF End, Block
    <2> HIDE DEF q
    <2>2. Apart(q, r) /\ Apart(q, b)
      BY <1>2, <2>1, BlockEnds DEF Apart
    <2>3. ASSUME Disjoint(bl), NEW j \in 1..Len(bl), j # i
          PROVE  Apart(q, bl[j])
      <3>1. Apart(bl[i], bl[j]) /\ bl[j] \in Block
        BY <1>1, <2>3 DEF Disjoint
      <3>2. bl[j].adr <= bl[j].adr /\ End(bl[j]) <= End(bl[j])
        BY <3>1 DEF End, Block
      <3>3. bl[i].adr <= q.adr /\ End(q) <= End(bl[i])
        BY <1>4, <2>1, BlockEnds
      <3> QED BY <1>4, <2>1, <3>1, <3>2, <3>3, ApartParts
    <2>4. Disjoint(bl) => AllApart(q, trim)
      BY <1>6, <2>2, <2>3 DEF AllApart
    <2>5. Disjoint(bl) => AllApart(q, new)
      BY <1>8, <2>1, <2>2, <2>4
    <2>6. ASSUME AllApart(q, new), NEW j \in 1..Len(new)
          PROVE  end <= new[j].adr \/ End(new[j]) <= adr
      BY <2>1, <2>6 DEF AllApart, Apart
    <2> QED BY <2>5, <2>6 DEF ClearBefore
  <1>14. Covered(new) \ (adr..(end - 1)) = Covered(bl) \ (adr..(end - 1))
    <2> DEFINE R == adr..(end - 1)
    <2>1. \A x \in Int : x \notin R =>
              (x \in Bytes(bl[i]) <=> x \in Bytes(b) \/ x \in Bytes(r))
      BY <1>2, <1>4, BlockEnds DEF Bytes
    <2>2. /\ Bytes(b) \subseteq Int
          /\ Bytes(bl[i]) \subseteq Int
          /\ Bytes(r) \subseteq Int
      BY DEF Bytes
    <2> HIDE DEF R
    <2>3. Bytes(bl[i]) \ R = (Bytes(b) \cup Bytes(r)) \ R
      BY <2>1, <2>2
    <2>4. (Covered(trim) \cup Bytes(r)) \ R = Covered(bl) \ R
      <3> DEFINE others == UNION {Bytes(bl[j]) : j \in (1..Len(bl)) \ {i}}
      <3>1. Covered(bl) = others \cup Bytes(bl[i])
        BY DEF Covered
      <3>2. Covered(trim) = others \cup Bytes(b)
        BY <1>6 DEF Covered
      <3> HIDE DEF others
      <3> QED BY <2>3, <3>1, <3>2
    <2> QED BY <1>9, <2>4 DEF R
  <1>15. Removes(bl, i, adr, end, [block |-> new, next |-> Len(bl) + 2])
    BY <1>1, <1>6, <1>8, <1>10, <1>11, <1>12, <1>13, <1>14 DEF Removes
  <1> QED BY <1>3, <1>15

(* Every turn of the loop of HeapRemoveBlock only removes.                 *)
LEMMA RemoveStepRemoves ==
    ASSUME NEW bl \in Seq(Block), NEW i \in 1..Len(bl), NEW adr \in Nat,
           NEW end \in Nat, adr < end
    PROVE  Removes(bl, i, adr, end, HeapRemoveStep(bl, i, adr, end))
  <1> DEFINE s == HeapRemoveStep(bl, i, adr, end)
  <1>1. bl[i] \in Block
    BY SeqIsFunction
  <1>2. bl[i].adr \in Nat /\ End(bl[i]) \in Nat /\ bl[i].adr < End(bl[i])
    BY <1>1, BlockEnds
  <1>3. CASE adr >= End(bl[i]) \/ end <= bl[i].adr
    <2>1. s = [block |-> bl, next |-> i + 1]
      BY <1>2, <1>3 DEF HeapRemoveStep
    <2> QED BY <1>3, <2>1, RemoveKeeps
  <1>4. CASE bl[i].adr < adr /\ End(bl[i]) > end
    <2>1. s = [block |-> SplitAt(bl, i, adr, end), next |-> Len(bl) + 2]
      BY <1>2, <1>4 DEF HeapRemoveStep
    <2> QED BY <1>4, <2>1, RemoveSplits
  <1>5. CASE adr <= bl[i].adr /\ end >= End(bl[i])
    <2>1. s = [block |-> DropAt(bl, i), next |-> i]
      BY <1>2, <1>5 DEF HeapRemoveStep
    <2> QED BY <1>5, <2>1, RemoveDrops
  <1>6. CASE bl[i].adr < adr /\ adr < End(bl[i]) /\ End(bl[i]) <= end
    <2> DEFINE b == Resized(bl[i], adr - bl[i].adr)
    <2>1. s = [block |-> [bl EXCEPT ![i] = b], next |-> i + 1]
      BY <1>2, <1>6 DEF HeapRemoveStep
    <2>2. b \in Block /\ b.adr = bl[i].adr /\ End(b) = adr
      BY <1>1, <1>6 DEF Resized, Block, End
    <2> HIDE DEF b
    <2>3. Bytes(b) \ (adr..(end - 1)) = Bytes(bl[i]) \ (adr..(end - 1))
      BY <1>2, <1>6, <2>2 DEF Bytes
    <2>4. bl[i].adr <= b.adr /\ End(b) <= End(bl[i]) /\ End(b) <= adr
      BY <1>2, <1>6, <2>2
    <2> HIDE DEF s
    <2>5. Removes(bl, i, adr, end,
                  [block |-> [bl EXCEPT ![i] = b], next |-> i + 1])
      BY <2>2, <2>3, <2>4, RemoveTrims
    <2>6. Removes(bl, i, adr, end, s)
      BY <2>1, <2>5, Zenon
    <2> QED BY <2>6 DEF s
  <1>7. CASE adr <= bl[i].adr /\ bl[i].adr < end /\ end < End(bl[i])
    <2> DEFINE b == [adr |-> end, size |-> End(bl[i]) - end]
    <2>1. s = [block |-> [bl EXCEPT ![i] = b], next |-> i + 1]
      BY <1>2, <1>7 DEF HeapRemoveStep
    <2>2. b \in Block /\ b.adr = end /\ End(b) = End(bl[i])
      BY <1>1, <1>7 DEF Block, End
    <2> HIDE DEF b
    <2>3. Bytes(b) \ (adr..(end - 1)) = Bytes(bl[i]) \ (adr..(end - 1))
      BY <1>2, <1>7, <2>2 DEF Bytes
    <2>4. bl[i].adr <= b.adr /\ End(b) <= End(bl[i]) /\ end <= b.adr
      BY <1>2, <1>7, <2>2
    <2> HIDE DEF s
    <2>5. Removes(bl, i, adr, end,
                  [block |-> [bl EXCEPT ![i] = b], next |-> i + 1])
      BY <2>2, <2>3, <2>4, RemoveTrims
    <2>6. Removes(bl, i, adr, end, s)
      BY <2>1, <2>5, Zenon
    <2> QED BY <2>6 DEF s
  <1> QED BY <1>2, <1>3, <1>4, <1>5, <1>6, <1>7

-----------------------------------------------------------------------------
(* When some entry is large enough, HeapAllocBlock finds one that is.      *)
LEMMA BestFitFits ==
    ASSUME NEW bl \in Seq(Block), NEW size \in Nat \ {0}, Fits(bl, size) # {}
    PROVE  BestFit(bl, size) \in Fits(bl, size)
  <1> DEFINE F     == Fits(bl, size)
             sizes == {bl[i].size : i \in F}
             best  == {i \in F : \A j \in F : bl[i].size <= bl[j].size}
  <1>1. F \subseteq 1..Len(bl) /\ F \subseteq Nat
    BY DEF Fits
  <1>2. \A i \in F : bl[i].size \in Nat
    <2> TAKE i \in F
    <2>1. bl[i] \in Block
      BY <1>1, SeqIsFunction
    <2> QED BY <2>1 DEF Block
  <1>3. sizes \subseteq Nat /\ sizes # {}
    BY <1>2
  <1>4. PICK m \in sizes : \A n \in sizes : m <= n
    BY <1>3, NatMinimum
  <1>5. PICK k \in F : m = bl[k].size
    BY <1>4
  <1>6. k \in best
    BY <1>4, <1>5
  <1>7. best \subseteq Nat /\ best # {}
    BY <1>1, <1>6
  <1>8. FirstOf(best) \in best
    BY <1>7, FirstOfIn
  <1> QED BY <1>8 DEF BestFit

(* HeapAllocBlock takes the range it returns from the list, and nothing    *)
(* else: the range was covered by the list and is apart from what is left. *)
LEMMA AllocTakes ==
    ASSUME NEW bl \in Seq(Block), NEW size \in Nat \ {0},
           NEW i \in Fits(bl, size)
    PROVE  LET r   == [adr |-> bl[i].adr, size |-> size]
               new == AllocFrom(bl, i, size)
           IN  /\ r \in Block
               /\ new \in Seq(Block)
               /\ Len(new) <= Len(bl)
               /\ Disjoint(bl) => Disjoint(new) /\ AllApart(r, new)
               /\ \A x \in Block :
                      AllApart(x, bl) => AllApart(x, new) /\ Apart(x, r)
               /\ \A M \in Nat : Below(bl, M) => Below(new, M) /\ End(r) <= M
               /\ Bytes(r) \subseteq Covered(bl)
               /\ Disjoint(bl) => Covered(new) = Covered(bl) \ Bytes(r)
  <1> DEFINE r   == [adr |-> bl[i].adr, size |-> size]
             new == AllocFrom(bl, i, size)
  <1>1. Len(bl) \in Nat /\ i \in 1..Len(bl) /\ \A j \in 1..Len(bl) : bl[j] \in Block
    BY SeqIsFunction DEF Fits
  <1>2. bl[i] \in Block /\ bl[i].size >= size
    BY <1>1 DEF Fits
  <1>3. r \in Block /\ r.adr = bl[i].adr /\ r.size = size /\ End(r) = bl[i].adr + size
    BY <1>2 DEF Block, End
  <1> HIDE DEF r
  <1>4. r.adr >= bl[i].adr /\ End(r) <= End(bl[i])
    BY <1>2, <1>3 DEF Block, End
  <1>5. \A b \in Block : b.adr <= b.adr /\ End(b) <= End(b)
    BY DEF Block, End
  <1>6. \A x \in Block : AllApart(x, bl) => Apart(x, r)
    <2> SUFFICES ASSUME NEW x \in Block, AllApart(x, bl) PROVE Apart(x, r)
      OBVIOUS
    <2>1. Apart(x, bl[i])
      BY <1>1 DEF AllApart
    <2> QED BY <1>2, <1>3, <1>4, <1>5, <2>1, ApartParts
  <1>7. \A M \in Nat : Below(bl, M) => End(r) <= M
    <2> SUFFICES ASSUME NEW M \in Nat, Below(bl, M) PROVE End(r) <= M
      OBVIOUS
    <2>1. End(bl[i]) <= M
      BY <1>1 DEF Below
    <2>2. End(bl[i]) \in Nat /\ End(r) \in Nat
      BY <1>2, <1>3, BlockEnds
    <2> QED BY <1>4, <2>1, <2>2
  <1>8. Bytes(r) \subseteq Bytes(bl[i])
    BY <1>2, <1>3, <1>4, BlockEnds DEF Bytes
  <1>9. Bytes(r) \subseteq Covered(bl)
    BY <1>1, <1>8 DEF Covered
  <1>10. ASSUME Disjoint(bl), NEW j \in 1..Len(bl), j # i
         PROVE  Apart(r, bl[j]) /\ Bytes(bl[j]) \cap Bytes(r) = {}
    <2>1. Apart(bl[i], bl[j]) /\ bl[j] \in Block
      BY <1>1, <1>10 DEF Disjoint
    <2>2. Apart(r, bl[j])
      BY <1>2, <1>3, <1>4, <1>5, <2>1, ApartParts
    <2>3. Bytes(bl[j]) \cap Bytes(r) = {}
      <3>1. /\ r.adr \in Nat /\ End(r) \in Nat
            /\ bl[j].adr \in Nat /\ End(bl[j]) \in Nat
        BY <1>3, <2>1, BlockEnds
      <3> QED BY <2>2, <3>1 DEF Apart, Bytes
    <2> QED BY <2>2, <2>3
  <1>11. CASE bl[i].size = size
    <2> DEFINE f == [j \in 1..(Len(bl) - 1) |-> IF j = i THEN Len(bl) ELSE j]
    <2>1. f \in [1..(Len(bl) - 1) -> 1..Len(bl)]
      BY <1>1
    <2>2. \A j \in 1..(Len(bl) - 1) :
              /\ f[j] = IF j = i THEN Len(bl) ELSE j
              /\ f[j] \in 1..Len(bl)
              /\ f[j] # i
      BY <1>1
    <2> HIDE DEF f
    <2>3. new = [j \in 1..(Len(bl) - 1) |-> bl[f[j]]]
      BY <1>11, <2>2 DEF AllocFrom
    <2>4. new \in [1..(Len(bl) - 1) -> Block]
      BY <1>1, <2>2, <2>3
    <2>5. /\ new \in Seq(Block)
          /\ Len(new) = Len(bl) - 1
          /\ \A j \in 1..Len(new) : new[j] = bl[f[j]]
      BY <1>1, <2>3, <2>4, FunctionIsSeq
    <2> HIDE DEF new
    <2>6. \A j \in 1..Len(new) :
              bl[f[j]].adr <= new[j].adr /\ End(new[j]) <= End(bl[f[j]])
      <3> TAKE j \in 1..Len(new)
      <3>1. new[j] = bl[f[j]] /\ bl[f[j]] \in Block
        BY <1>1, <2>2, <2>5
      <3> QED BY <1>5, <3>1
    <2>7. \A j, k \in 1..Len(new) : j # k => f[j] # f[k]
      BY <1>1, <2>2, <2>5
    <2>8. /\ Disjoint(bl) => Disjoint(new)
          /\ \A x \in Block : AllApart(x, bl) => AllApart(x, new)
          /\ \A M \in Nat : Below(bl, M) => Below(new, M)
      BY <2>1, <2>5, <2>6, <2>7, SubBlocks
    <2>9. Disjoint(bl) => AllApart(r, new)
      BY <1>10, <2>2, <2>5 DEF AllApart
    <2>10. ASSUME Disjoint(bl)
           PROVE  Covered(new) = Covered(bl) \ Bytes(r)
      <3>1. Bytes(bl[i]) = Bytes(r)
        BY <1>2, <1>3, <1>11 DEF Bytes, End, Block
      <3>2. ASSUME NEW k \in 1..Len(bl), k # i
            PROVE  \E j \in 1..Len(new) : new[j] = bl[k]
        <4>1. CASE k = Len(bl)
          BY <1>1, <2>2, <2>5, <3>2, <4>1
        <4>2. CASE k # Len(bl)
          BY <1>1, <2>2, <2>5, <3>2, <4>2
        <4> QED BY <4>1, <4>2
      <3>3. \A j \in 1..Len(new) : \E k \in 1..Len(bl) : k # i /\ new[j] = bl[k]
        BY <2>2, <2>5
      <3>4. \A k \in 1..Len(bl) : k # i => Bytes(bl[k]) \cap Bytes(r) = {}
        BY <1>10, <2>10
      <3>5. Covered(new) = UNION {Bytes(bl[k]) : k \in (1..Len(bl)) \ {i}}
        BY <3>2, <3>3 DEF Covered
      <3> QED BY <3>1, <3>4, <3>5 DEF Covered
    <2>11. Len(new) <= Len(bl)
      BY <1>1, <2>5
    <2> QED
      BY <1>3, <1>6, <1>7, <1>9, <2>5, <2>8, <2>9, <2>10, <2>11 DEF r, new
  <1>12. CASE bl[i].size # size
    <2> DEFINE b == [adr |-> bl[i].adr + size, size |-> bl[i].size - size]
    <2>1. new = [bl EXCEPT ![i] = b]
      BY <1>12 DEF AllocFrom
    <2>2. b \in Block /\ b.adr = End(r) /\ End(b) = End(bl[i])
      BY <1>2, <1>3, <1>12 DEF Block, End
    <2> HIDE DEF b
    <2>3. bl[i].adr <= b.adr /\ End(b) <= End(bl[i])
      BY <1>2, <1>3, <2>2, BlockEnds
    <2>4. /\ new \in Seq(Block)
          /\ Len(new) = Len(bl)
          /\ \A j \in 1..Len(bl) : new[j] = IF j = i THEN b ELSE bl[j]
      BY <1>1, <2>1, <2>2, ReplaceBlock
    <2>5. /\ Disjoint(bl) => Disjoint(new)
          /\ \A x \in Block : AllApart(x, bl) => AllApart(x, new)
          /\ \A M \in Nat : Below(bl, M) => Below(new, M)
      <3> HIDE DEF new
      <3>1. LET n == [bl EXCEPT ![i] = b] IN
              /\ Disjoint(bl) => Disjoint(n)
              /\ \A x \in Block : AllApart(x, bl) => AllApart(x, n)
              /\ \A M \in Nat : Below(bl, M) => Below(n, M)
        BY <1>1, <2>2, <2>3, TrimBlock
      <3> QED BY <2>1, <3>1, Zenon
    <2> HIDE DEF new
    <2>6. Disjoint(bl) => AllApart(r, new)
      <3>1. Apart(r, b)
        BY <1>3, <2>2, BlockEnds DEF Apart
      <3> QED BY <1>10, <2>4, <3>1 DEF AllApart
    <2>7. ASSUME Disjoint(bl)
          PROVE  Covered(new) = Covered(bl) \ Bytes(r)
      <3>1. \A x \in Int : x \in Bytes(b) <=> x \in Bytes(bl[i]) /\ x \notin Bytes(r)
        BY <1>2, <1>3, <1>4, <2>2, BlockEnds DEF Bytes
      <3>2. Bytes(b) \subseteq Int /\ Bytes(bl[i]) \subseteq Int
        BY DEF Bytes
      <3>3. Bytes(b) = Bytes(bl[i]) \ Bytes(r)
        BY <3>1, <3>2
      <3>4. \A k \in 1..Len(bl) : k # i => Bytes(bl[k]) \cap Bytes(r) = {}
        BY <1>10, <2>7
      <3>5. Covered(bl) = (UNION {Bytes(bl[k]) : k \in (1..Len(bl)) \ {i}})
                              \cup Bytes(bl[i])
        BY <1>1 DEF Covered
      <3> QED BY <1>1, <2>4, <3>3, <3>4, <3>5 DEF Covered
    <2>8. Len(new) <= Len(bl)
      BY <1>1, <2>4
    <2> QED
      BY <1>3, <1>6, <1>7, <1>9, <2>4, <2>5, <2>6, <2>7, <2>8 DEF r, new
  <1> QED BY <1>11, <1>12
=============================================================================
