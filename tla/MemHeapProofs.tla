--------------------------- MODULE MemHeapProofs ----------------------------
(***************************************************************************)
(* Proofs about MemHeap for every address space and every block size: its  *)
(* type invariant, that nothing is handed out twice as long as nothing is  *)
(* added twice, and that it implements AddressPool then.                   *)
(***************************************************************************)
EXTENDS MemHeap, HeapBlocksProofs

\* The range a removal in progress takes out is not empty.
RemovingRange == removing.active => removing.adr < removing.end

TypeInv == TypeOK /\ RemovingRange /\ InCapacity

-----------------------------------------------------------------------------
(* The array grows by one entry at a time, so doubling it is enough.       *)
LEMMA GrownFits ==
    ASSUME NEW n \in Nat, NEW m \in Nat, NEW cap \in Nat, m <= cap, n <= m + 1
    PROVE  Grown(n, cap) \in Nat /\ n <= Grown(n, cap)
  BY DEF Grown

(* A range a client names is a block below MaxAdr.                         *)
LEMMA RequestIsBlock ==
    ASSUME NEW r \in Request
    PROVE  r \in Block /\ End(r) \in Nat /\ End(r) <= MaxAdr /\ r.adr < End(r)
  <1>1. MaxAdr \in Nat /\ MaxSize \in Nat
    BY MemHeapAssumption
  <1>2. r \in Block
    BY <1>1 DEF Request, Block
  <1> QED BY <1>2, BlockEnds DEF Request

(* The steps that change nothing TypeInv is about.                         *)
LEMMA TypeInvInit == Init => TypeInv
  BY DEF Init, TypeInv, TypeOK, RemovingRange, InCapacity, Idle

(* Every step of the heap keeps the type invariant.                        *)
LEMMA TypeInvNext == TypeInv /\ [Next]_vars => TypeInv'
  <1> SUFFICES ASSUME TypeInv, [Next]_vars
               PROVE  TypeInv'
    OBVIOUS
  <1> USE DEF TypeInv
  <1>1. block \in Seq(Block) /\ Len(block) \in Nat /\ capacity \in Nat
    BY DEF TypeOK
  <1>2. ASSUME NEW r \in Request, Added(r)
        PROVE  TypeInv'
    <2>1. r \in Block
      BY RequestIsBlock
    <2>2. /\ block' \in Seq(Block)
          /\ Len(block') = Len(block) \/ Len(block') = Len(block) + 1
      BY <1>1, <1>2, <2>1, AddBlock DEF Added
    <2>3. capacity' \in Nat /\ Len(block') <= capacity'
      BY <1>1, <1>2, <2>2, GrownFits DEF Added, InCapacity
    <2> QED BY <1>2, <2>2, <2>3 DEF Added, TypeOK, RemovingRange, InCapacity
  <1>3. ASSUME NEW r \in Request, RemoveBegin(r)
        PROVE  TypeInv'
    <2>1. r.adr \in Nat /\ End(r) \in Nat /\ r.adr < End(r)
      BY RequestIsBlock, BlockEnds
    <2> QED BY <1>3, <2>1 DEF RemoveBegin, TypeOK, RemovingRange, InCapacity
  <1>4. CASE RemoveStep
    <2> DEFINE s == HeapRemoveStep(block, removing.at, removing.adr, removing.end)
    <2>1. /\ removing.at \in 1..Len(block)
          /\ removing.adr \in Nat /\ removing.end \in Nat
          /\ removing.adr < removing.end
      BY <1>1, <1>4 DEF RemoveStep, TypeOK, RemovingRange
    <2>2. Removes(block, removing.at, removing.adr, removing.end, s)
      BY <1>1, <2>1, RemoveStepRemoves
    <2>3. block' = s.block /\ removing' = [removing EXCEPT !.at = s.next]
      BY <1>4 DEF RemoveStep
    <2>4. /\ s.block \in Seq(Block)
          /\ Len(s.block) <= Len(block) + 1
          /\ s.next \in Nat \ {0}
      BY <2>2 DEF Removes
    <2> HIDE DEF s
    <2>5. Len(block') \in Nat /\ Len(block') <= Len(block) + 1
      BY <2>3, <2>4
    <2>6. capacity' = Grown(Len(block'), capacity) /\ Len(block) <= capacity
      BY <1>4 DEF RemoveStep, InCapacity
    <2>7. capacity' \in Nat /\ Len(block') <= capacity'
      BY <1>1, <2>5, <2>6, GrownFits
    <2> QED
      BY <1>4, <2>3, <2>4, <2>7 DEF RemoveStep, TypeOK, RemovingRange, InCapacity
  <1>5. CASE RemoveEnd
    BY <1>5 DEF RemoveEnd, Idle, TypeOK, RemovingRange, InCapacity
  <1>6. ASSUME NEW size \in 1..MaxSize, Alloc(size)
        PROVE  TypeInv'
    <2> DEFINE i == BestFit(block, size)
               r == [adr |-> block[i].adr, size |-> size]
    <2>1. size \in Nat \ {0}
      BY MemHeapAssumption
    <2>2. i \in Fits(block, size)
      BY <1>1, <1>6, <2>1, BestFitFits DEF Alloc
    <2>3. block' = AllocFrom(block, i, size) /\ held' = held \cup {r}
      BY <1>6 DEF Alloc
    <2> HIDE DEF i
    <2>4. r \in Block /\ block' \in Seq(Block) /\ Len(block') <= Len(block)
      BY <1>1, <2>1, <2>2, <2>3, AllocTakes
    <2> QED BY <1>1, <1>6, <2>3, <2>4 DEF Alloc, TypeOK, RemovingRange, InCapacity
  <1>7. CASE UNCHANGED vars
    BY <1>7 DEF vars, TypeOK, RemovingRange, InCapacity
  <1> QED
    BY <1>2, <1>3, <1>4, <1>5, <1>6, <1>7 DEF Next, AddFresh, AddAgain

(* The heap and its clients stay within their types.                       *)
THEOREM HeapTypeCorrect == Spec => []TypeOK
  <1>1. TypeInv => TypeOK
    BY DEF TypeInv
  <1> QED BY <1>1, TypeInvInit, TypeInvNext, PTL DEF Spec

(* Every entry of the block array lies within the memory allocated for it, *)
(* also when a removal splits an entry while the array is full.            *)
THEOREM HeapWithinCapacity == Spec => []InCapacity
  <1>1. TypeInv => InCapacity
    BY DEF TypeInv
  <1> QED BY <1>1, TypeInvInit, TypeInvNext, PTL DEF Spec

-----------------------------------------------------------------------------
(* The inductive invariant behind the safety properties.  NoDoubleAllocation *)
(* is not inductive without BlocksDisjoint: an allocation takes a range from *)
(* one entry, and only disjointness keeps the others clear of it.            *)
SafeInv ==
    /\ TypeInv
    /\ BlocksDisjoint
    /\ NoDoubleAllocation
    /\ PassedIsClear
    /\ Below(block, MaxAdr)
    /\ removing.active => removing.end <= MaxAdr

LEMMA SafeInvInit == Init => SafeInv
  <1> SUFFICES ASSUME Init PROVE SafeInv
    OBVIOUS
  <1>1. TypeInv
    BY TypeInvInit
  <1>2. block = <<>> /\ held = {} /\ removing.active = FALSE
    BY DEF Init, Idle
  <1> QED
    BY <1>1, <1>2 DEF SafeInv, BlocksDisjoint, Disjoint, NoDoubleAllocation,
                      PassedIsClear, Below

(* The effect of the heap operations on a state that satisfies SafeInv.    *)
LEMMA RemoveStepFacts ==
    ASSUME SafeInv, RemoveStep
    PROVE  Removes(block, removing.at, removing.adr, removing.end,
                   [block |-> block', next |-> removing'.at])
  <1> DEFINE s == HeapRemoveStep(block, removing.at, removing.adr, removing.end)
  <1>1. /\ block \in Seq(Block)
        /\ removing.at \in 1..Len(block)
        /\ removing.adr \in Nat /\ removing.end \in Nat
        /\ removing.adr < removing.end
    BY DEF SafeInv, TypeInv, RemoveStep, TypeOK, RemovingRange
  <1>2. Removes(block, removing.at, removing.adr, removing.end, s)
    BY <1>1, RemoveStepRemoves
  <1>3. block' = s.block /\ removing' = [removing EXCEPT !.at = s.next]
    BY DEF RemoveStep
  <1>4. removing'.at = s.next
    BY <1>3 DEF SafeInv, TypeInv, TypeOK
  <1> HIDE DEF s
  <1> QED BY <1>2, <1>3, <1>4 DEF Removes

LEMMA AllocFacts ==
    ASSUME SafeInv, NEW size \in 1..MaxSize, Alloc(size)
    PROVE  \E r \in Block :
              /\ held' = held \cup {r}
              /\ block' \in Seq(Block)
              /\ Disjoint(block')
              /\ AllApart(r, block')
              /\ \A x \in Block :
                    AllApart(x, block) => AllApart(x, block') /\ Apart(x, r)
              /\ Below(block', MaxAdr)
              /\ End(r) <= MaxAdr
              /\ Bytes(r) \subseteq Covered(block)
              /\ Covered(block') = Covered(block) \ Bytes(r)
  <1> DEFINE i == BestFit(block, size)
             r == [adr |-> block[i].adr, size |-> size]
  <1>1. size \in Nat \ {0} /\ MaxAdr \in Nat
    BY MemHeapAssumption
  <1>2. block \in Seq(Block) /\ Disjoint(block) /\ Below(block, MaxAdr)
    BY DEF SafeInv, TypeInv, TypeOK, BlocksDisjoint
  <1>3. i \in Fits(block, size)
    BY <1>1, <1>2, BestFitFits DEF Alloc
  <1>4. block' = AllocFrom(block, i, size) /\ held' = held \cup {r}
    BY DEF Alloc
  <1> HIDE DEF i
  <1>5. /\ r \in Block
        /\ block' \in Seq(Block)
        /\ Disjoint(block) => Disjoint(block') /\ AllApart(r, block')
        /\ \A x \in Block :
               AllApart(x, block) => AllApart(x, block') /\ Apart(x, r)
        /\ \A M \in Nat : Below(block, M) => Below(block', M) /\ End(r) <= M
        /\ Bytes(r) \subseteq Covered(block)
        /\ Disjoint(block) => Covered(block') = Covered(block) \ Bytes(r)
    BY <1>1, <1>2, <1>3, <1>4, AllocTakes
  <1> HIDE DEF r
  <1> QED BY <1>1, <1>2, <1>4, <1>5

LEMMA SafeInvNext ==
    ASSUME ~Overlapping, SafeInv, [Next]_vars
    PROVE  SafeInv'
  <1>0. TypeInv' /\ MaxAdr \in Nat
    BY TypeInvNext, MemHeapAssumption DEF SafeInv
  <1>1. /\ block \in Seq(Block) /\ held \subseteq Block
        /\ Disjoint(block) /\ Below(block, MaxAdr)
        /\ \A h \in held : AllApart(h, block)
    BY DEF SafeInv, TypeInv, TypeOK, BlocksDisjoint, NoDoubleAllocation, AllApart
  <1>2. ASSUME NEW r \in Request, AddFresh(r)
        PROVE  SafeInv'
    <2>1. /\ r \in Block /\ End(r) <= MaxAdr
          /\ AllApart(r, block)
          /\ \A h \in held : Apart(r, h)
          /\ block' = HeapAddBlock(block, r.adr, r.size)
          /\ UNCHANGED <<removing, held>> /\ ~removing.active
      BY <1>2, RequestIsBlock DEF AddFresh, Added, AllApart
    <2>2. /\ Disjoint(block')
          /\ \A x \in Block : AllApart(x, block) /\ Apart(x, r) => AllApart(x, block')
          /\ Below(block', MaxAdr)
      BY <1>0, <1>1, <2>1, AddBlock
    <2>3. \A h \in held : AllApart(h, block')
      BY <1>1, <2>1, <2>2, ApartSymmetric
    <2>4. NoDoubleAllocation'
      BY <2>1, <2>3 DEF SafeInv, NoDoubleAllocation, AllApart
    <2> QED
      BY <1>0, <2>1, <2>2, <2>4 DEF SafeInv, BlocksDisjoint, PassedIsClear
  <1>3. ASSUME NEW r \in Request, RemoveBegin(r)
        PROVE  SafeInv'
    <2>1. /\ removing' = [active |-> TRUE, adr |-> r.adr, end |-> End(r), at |-> 1]
          /\ UNCHANGED <<block, held>>
      BY <1>3 DEF RemoveBegin
    <2>2. PassedIsClear'
      BY <2>1 DEF PassedIsClear
    <2> QED
      BY <1>0, <2>1, <2>2, RequestIsBlock
         DEF SafeInv, BlocksDisjoint, NoDoubleAllocation
  <1>4. CASE RemoveStep
    <2>1. Removes(block, removing.at, removing.adr, removing.end,
                  [block |-> block', next |-> removing'.at])
      BY <1>4, RemoveStepFacts
    <2>2. /\ Disjoint(block')
          /\ \A x \in Block : AllApart(x, block) => AllApart(x, block')
          /\ Below(block', MaxAdr)
      BY <1>0, <1>1, <2>1 DEF Removes
    <2>3. /\ held' = held
          /\ removing.active
          /\ removing'.active = removing.active
          /\ removing'.adr = removing.adr /\ removing'.end = removing.end
      BY <1>4 DEF RemoveStep, SafeInv, TypeInv, TypeOK
    <2>4. ClearBefore(block, removing.at, removing.adr, removing.end)
      BY <2>3 DEF SafeInv, PassedIsClear, ClearBefore
    <2>5. ClearBefore(block', removing'.at, removing.adr, removing.end)
      BY <1>1, <2>1, <2>4 DEF Removes
    <2>6. PassedIsClear'
      BY <2>3, <2>5 DEF PassedIsClear, ClearBefore
    <2>7. NoDoubleAllocation'
      BY <1>1, <2>2, <2>3 DEF SafeInv, NoDoubleAllocation, AllApart
    <2> QED
      BY <1>0, <2>2, <2>3, <2>6, <2>7 DEF SafeInv, BlocksDisjoint
  <1>5. CASE RemoveEnd
    <2>1. removing' = Idle /\ UNCHANGED <<block, held>>
      BY <1>5 DEF RemoveEnd
    <2>2. ~removing'.active
      BY <2>1 DEF Idle
    <2> QED
      BY <1>0, <2>1, <2>2
         DEF SafeInv, BlocksDisjoint, NoDoubleAllocation, PassedIsClear
  <1>6. ASSUME NEW size \in 1..MaxSize, Alloc(size)
        PROVE  SafeInv'
    <2>1. PICK r \in Block :
              /\ held' = held \cup {r}
              /\ Disjoint(block')
              /\ AllApart(r, block')
              /\ \A x \in Block :
                    AllApart(x, block) => AllApart(x, block') /\ Apart(x, r)
              /\ Below(block', MaxAdr)
      BY <1>6, AllocFacts
    <2>2. \A h \in held' : AllApart(h, block')
      BY <1>1, <2>1
    <2>3. \A h \in held : Apart(h, r) /\ Apart(r, h)
      BY <1>1, <2>1, ApartSymmetric
    <2>4. \A g, h \in held' : g # h => Apart(g, h)
      BY <2>1, <2>3 DEF SafeInv, NoDoubleAllocation
    <2>5. NoDoubleAllocation'
      BY <2>2, <2>4 DEF NoDoubleAllocation, AllApart
    <2>6. removing' = removing /\ ~removing.active
      BY <1>6 DEF Alloc
    <2> QED
      BY <1>0, <2>1, <2>5, <2>6 DEF SafeInv, BlocksDisjoint, PassedIsClear
  <1>7. CASE UNCHANGED vars
    BY <1>0, <1>7 DEF vars, SafeInv, BlocksDisjoint, NoDoubleAllocation, PassedIsClear
  <1>8. \A r \in Request : ~AddAgain(r)
    BY DEF AddAgain
  <1> QED
    BY <1>2, <1>3, <1>4, <1>5, <1>6, <1>7, <1>8 DEF Next

LEMMA SafeInvAlways ==
    ASSUME ~Overlapping
    PROVE  Spec => []SafeInv
  <1>1. SafeInv /\ [Next]_vars => SafeInv'
    BY SafeInvNext
  <1> QED BY <1>1, SafeInvInit, PTL DEF Spec

(* As long as no range is added that is in the heap already, the entries   *)
(* of the heap stay disjoint, also while a removal trims and splits them.  *)
THEOREM HeapEntriesDisjoint ==
    ASSUME ~Overlapping
    PROVE  Spec => []BlocksDisjoint
  <1>1. SafeInv => BlocksDisjoint
    BY DEF SafeInv
  <1> QED BY <1>1, SafeInvAlways, PTL

(* Under the same assumption HeapAllocBlock hands out no byte twice.       *)
THEOREM HeapAllocatesOnce ==
    ASSUME ~Overlapping
    PROVE  Spec => []NoDoubleAllocation
  <1>1. SafeInv => NoDoubleAllocation
    BY DEF SafeInv
  <1> QED BY <1>1, SafeInvAlways, PTL

(* Under the same assumption HeapRemoveBlock leaves nothing of its range   *)
(* in the entries it has passed, and so nothing at all when it returns.    *)
THEOREM HeapRemovesAll ==
    ASSUME ~Overlapping
    PROVE  Spec => []PassedIsClear
  <1>1. SafeInv => PassedIsClear
    BY DEF SafeInv
  <1> QED BY <1>1, SafeInvAlways, PTL

-----------------------------------------------------------------------------
(* The bytes of a block below MaxAdr are a run of addresses of the pool.   *)
LEMMA BytesAreRun ==
    ASSUME NEW r \in Block, End(r) <= MaxAdr
    PROVE  Bytes(r) \in Pool!Runs
  <1>1. MaxAdr \in Nat \ {0}
    BY MemHeapAssumption
  <1>2. /\ r.adr \in 0..(MaxAdr - 1)
        /\ End(r) - 1 \in 0..(MaxAdr - 1)
        /\ r.adr <= End(r) - 1
    BY <1>1, BlockEnds
  <1>3. r.adr \in Bytes(r)
    BY <1>2, BlockEnds DEF Bytes
  <1> QED BY <1>2, <1>3 DEF Bytes, Pool!Runs

(* The heap starts as an empty pool.                                       *)
LEMMA PoolInit == Init => Pool!Init
  <1> SUFFICES ASSUME Init PROVE Pool!Init
    OBVIOUS
  <1>1. block = <<>> /\ held = {} /\ removing.active = FALSE
    BY DEF Init, Idle
  <1>2. Covered(block) = {}
    BY <1>1 DEF Covered
  <1> QED BY <1>1, <1>2 DEF Pool!Init, FreeBytes, Outgoing

(* Every step of the heap is a step of the pool or leaves it as it is: a   *)
(* range is withdrawn when HeapRemoveBlock is entered, and the turns of    *)
(* its loop are invisible.                                                 *)
LEMMA PoolNext ==
    ASSUME ~Overlapping, SafeInv, SafeInv', [Next]_vars
    PROVE  [Pool!Next]_(Pool!vars)
  <1> DEFINE taken == UNION {Bytes(h) : h \in held}
  <1>1. /\ block \in Seq(Block) /\ block' \in Seq(Block) /\ held \subseteq Block
        /\ Disjoint(block)
    BY DEF SafeInv, TypeInv, TypeOK, BlocksDisjoint
  <1>2. ASSUME NEW r \in Request, AddFresh(r)
        PROVE  Pool!Next
    <2>1. /\ r \in Block /\ End(r) <= MaxAdr
          /\ AllApart(r, block)
          /\ \A h \in held : Apart(r, h)
          /\ block' = HeapAddBlock(block, r.adr, r.size)
          /\ removing' = removing /\ held' = held /\ ~removing.active
      BY <1>2, RequestIsBlock DEF AddFresh, Added, AllApart
    <2>2. /\ FreeBytes = Covered(block) /\ FreeBytes' = Covered(block')
          /\ Outgoing = {} /\ Outgoing' = {}
      BY <2>1 DEF FreeBytes, Outgoing
    <2>3. Covered(block') = Covered(block) \cup Bytes(r)
      BY <1>1, <2>1, AddCovered
    <2>4. \A j \in 1..Len(block) : Bytes(r) \cap Bytes(block[j]) = {}
      <3> TAKE j \in 1..Len(block)
      <3>1. block[j] \in Block /\ Apart(r, block[j])
        BY <1>1, <2>1 DEF AllApart
      <3> QED BY <2>1, <3>1, ApartBytes
    <2>5. Bytes(r) \cap Covered(block) = {}
      BY <2>4 DEF Covered
    <2>6. Bytes(r) \cap taken = {}
      BY <1>1, <2>1, ApartBytes
    <2>7. taken' = taken
      BY <2>1
    <2>8. Pool!Give(Bytes(r))
      BY <2>2, <2>3, <2>5, <2>6, <2>7 DEF Pool!Give
    <2> QED BY <2>1, <2>8, BytesAreRun DEF Pool!Next
  <1>3. ASSUME NEW r \in Request, RemoveBegin(r)
        PROVE  Pool!Next
    <2>1. /\ removing' = [active |-> TRUE, adr |-> r.adr, end |-> End(r), at |-> 1]
          /\ block' = block /\ held' = held /\ ~removing.active
      BY <1>3 DEF RemoveBegin
    <2>2. /\ FreeBytes = Covered(block) /\ FreeBytes' = Covered(block) \ Bytes(r)
          /\ Outgoing = {} /\ Outgoing' = Bytes(r)
      BY <2>1 DEF FreeBytes, Outgoing, Bytes
    <2>3. Pool!Withdraw(Bytes(r))
      BY <2>1, <2>2 DEF Pool!Withdraw
    <2> QED BY <2>3, BytesAreRun, RequestIsBlock DEF Pool!Next
  <1>4. CASE RemoveStep
    <2>1. Removes(block, removing.at, removing.adr, removing.end,
                  [block |-> block', next |-> removing'.at])
      BY <1>4, RemoveStepFacts
    <2>2. /\ held' = held
          /\ removing.active
          /\ removing'.active = removing.active
          /\ removing'.adr = removing.adr /\ removing'.end = removing.end
      BY <1>4 DEF RemoveStep, SafeInv, TypeInv, TypeOK
    <2>3. FreeBytes' = FreeBytes /\ Outgoing' = Outgoing
      BY <2>1, <2>2 DEF FreeBytes, Outgoing, Removes
    <2> QED BY <2>2, <2>3 DEF Pool!vars
  <1>5. CASE RemoveEnd
    <2>1. /\ removing' = Idle /\ block' = block /\ held' = held
          /\ removing.active /\ removing.at > Len(block)
      BY <1>5 DEF RemoveEnd
    <2>2. FreeBytes' = Covered(block) /\ Outgoing' = {}
      BY <2>1 DEF FreeBytes, Outgoing, Idle
    <2>3. \A j \in 1..Len(block) :
              Bytes(block[j]) \cap (removing.adr .. (removing.end - 1)) = {}
      <3> TAKE j \in 1..Len(block)
      <3>1. removing.end <= block[j].adr \/ End(block[j]) <= removing.adr
        BY <1>1, <2>1 DEF SafeInv, TypeInv, TypeOK, PassedIsClear
      <3>2. block[j] \in Block /\ removing.adr \in Nat /\ removing.end \in Nat
        BY <1>1 DEF SafeInv, TypeInv, TypeOK
      <3> QED BY <3>1, <3>2, BlockEnds DEF Bytes
    <2>4. FreeBytes = Covered(block)
      BY <2>1, <2>3 DEF FreeBytes, Outgoing, Covered
    <2>5. Outgoing # {}
      <3>1. /\ removing.adr \in Nat /\ removing.end \in Nat
            /\ removing.adr < removing.end
        BY <2>1 DEF SafeInv, TypeInv, TypeOK, RemovingRange
      <3>2. removing.adr \in removing.adr .. (removing.end - 1)
        BY <3>1
      <3> QED BY <2>1, <3>2 DEF Outgoing
    <2> QED BY <2>1, <2>2, <2>4, <2>5 DEF Pool!Withdrawn, Pool!Next
  <1>6. ASSUME NEW size \in 1..MaxSize, Alloc(size)
        PROVE  Pool!Next
    <2>1. PICK r \in Block :
              /\ held' = held \cup {r}
              /\ End(r) <= MaxAdr
              /\ Bytes(r) \subseteq Covered(block)
              /\ Covered(block') = Covered(block) \ Bytes(r)
      BY <1>6, AllocFacts
    <2>2. removing' = removing /\ ~removing.active
      BY <1>6 DEF Alloc
    <2>3. /\ FreeBytes = Covered(block) /\ FreeBytes' = Covered(block')
          /\ Outgoing = {} /\ Outgoing' = {}
      BY <2>2 DEF FreeBytes, Outgoing
    <2>4. taken' = taken \cup Bytes(r)
      BY <2>1
    <2>5. Pool!Alloc(Bytes(r))
      BY <2>1, <2>3, <2>4 DEF Pool!Alloc
    <2> QED BY <2>1, <2>5, BytesAreRun DEF Pool!Next
  <1>7. CASE UNCHANGED vars
    BY <1>7 DEF vars, Pool!vars, FreeBytes, Outgoing
  <1>8. \A r \in Request : ~AddAgain(r)
    BY DEF AddAgain
  <1> QED
    BY <1>2, <1>3, <1>4, <1>5, <1>6, <1>7, <1>8 DEF Next

(* A heap to which nothing is added twice is an address pool: what it      *)
(* returns was free, is taken from then on, and nothing else ever changes  *)
(* what is free.                                                           *)
THEOREM HeapIsPool ==
    ASSUME ~Overlapping
    PROVE  Spec => PoolSpec
  <1>1. SafeInv /\ [Next]_vars => SafeInv'
    BY SafeInvNext
  <1>2. SafeInv /\ SafeInv' /\ [Next]_vars => [Pool!Next]_(Pool!vars)
    BY PoolNext
  <1> QED
    BY <1>1, <1>2, SafeInvInit, PoolInit, PTL DEF Spec, PoolSpec, Pool!Spec

-----------------------------------------------------------------------------
(* HeapAddBlock makes available exactly the range it is given, also when   *)
(* that range was in the heap already.                                     *)
THEOREM AddsWhatIsGiven == Spec => AddsExactly
  <1> DEFINE Exact == \A r \in Request :
                 Added(r) => Covered(block') = Covered(block) \cup Bytes(r)
  <1>1. TypeInv /\ [Next]_vars => [Exact]_vars
    <2> SUFFICES ASSUME TypeInv, NEW r \in Request, Added(r)
                 PROVE  Covered(block') = Covered(block) \cup Bytes(r)
      OBVIOUS
    <2>1. block \in Seq(Block) /\ r \in Block
      BY RequestIsBlock DEF TypeInv, TypeOK
    <2> QED BY <2>1, AddCovered DEF Added
  <1> QED
    BY <1>1, TypeInvInit, TypeInvNext, PTL DEF Spec, AddsExactly
=============================================================================
