--------------------------- MODULE VarAllocProofs ---------------------------
(***************************************************************************)
(* Proofs about VarAlloc for every set of programs and every varheap: its  *)
(* types, that VAR_HEAP is what no variable occupies, and on what it       *)
(* depends that two variables never share memory which must not.           *)
(***************************************************************************)
EXTENDS VarAlloc, HeapBlocksProofs

\* The range a removal in progress takes out is not empty.
RemovingRange == removing.active => removing.adr < removing.end

(* The inductive invariant: VarHeapUnused is kept because the entries of   *)
(* VAR_HEAP are disjoint, so that a range taken from one is clear of the   *)
(* others.                                                                 *)
AllocInv ==
    /\ prog \in Programs
    /\ TypeOK
    /\ RemovingRange
    /\ Disjoint(varHeap)
    /\ VarHeapUnused

\* Block x has no byte in common with a variable or with the local heap.
Unused(x) ==
    /\ \A p \in Owner : \A v \in VarsOf(p) : Placed(v) => Apart(At(v), x)
    /\ \A j \in 1..Len(heap) : Apart(heap[j], x)

-----------------------------------------------------------------------------
(* A variable of the program has a size, and a block when it is placed.    *)
LEMMA VariableIsBlock ==
    ASSUME AllocInv, NEW p \in Owner, NEW k \in 1..NVars(p)
    PROVE  /\ <<p, k>> \in VarsOf(p)
           /\ <<p, k>> \in Vars
           /\ Size(<<p, k>>) \in Nat \ {0}
           /\ Placed(<<p, k>>) => At(<<p, k>>) \in Block
  <1>1. /\ prog \in Program /\ MaxVars \in Nat
        /\ Len(prog.sizes[p]) <= MaxVars
    BY VarAllocAssumption DEF AllocInv
  <1>2. prog.sizes[p] \in Seq(Nat \ {0})
    BY <1>1 DEF Program
  <1>3. k \in 1..Len(prog.sizes[p]) /\ Len(prog.sizes[p]) \in Nat
    BY <1>2 DEF NVars
  <1>4. <<p, k>> \in Vars
    BY <1>1, <1>3 DEF Vars
  <1>5. prog.sizes[p][k] \in Nat \ {0}
    BY <1>2, <1>3, SeqIsFunction
  <1>6. Size(<<p, k>>) \in Nat \ {0}
    BY <1>5 DEF Size
  <1>7. <<p, k>> \in VarsOf(p)
    BY <1>4 DEF VarsOf
  <1>8. adr[<<p, k>>] \in Nat \cup {NoAdr}
    BY <1>4 DEF AllocInv, TypeOK
  <1>9. Placed(<<p, k>>) => At(<<p, k>>) \in Block
    BY <1>6, <1>8 DEF Placed, At, Block
  <1> QED BY <1>4, <1>6, <1>7, <1>9

(* The variables of a procedure are its entries in "sizes".                *)
LEMMA VariablesOf ==
    ASSUME NEW p \in Owner, NEW v \in VarsOf(p)
    PROVE  v = <<p, v[2]>> /\ v[2] \in 1..NVars(p)
  BY DEF VarsOf, Vars

(* The program starts with no address given.                               *)
LEMMA AllocInvInit == Init => AllocInv
  <1> SUFFICES ASSUME Init PROVE AllocInv
    OBVIOUS
  <1>1. NProc \in Nat /\ VarHeap \in Seq(Block) /\ Disjoint(VarHeap)
        /\ Programs \subseteq Program
    BY VarAllocAssumption
  <1>2. TypeOK
    BY <1>1 DEF Init, TypeOK, Idle, Owner
  <1>3. VarHeapUnused
    <2>1. \A p \in Owner : \A v \in VarsOf(p) : ~Placed(v)
      BY DEF Init, VarsOf, Placed
    <2>2. Len(heap) = 0
      BY DEF Init
    <2> QED BY <2>1, <2>2 DEF VarHeapUnused
  <1> QED BY <1>1, <1>2, <1>3 DEF AllocInv, Init, RemovingRange, Idle

(* A step that leaves addresses and VAR_HEAP alone, and the local heap     *)
(* clear of what it was clear of, keeps VarHeapUnused.                     *)
LEMMA SameAddresses ==
    ASSUME AllocInv, UNCHANGED <<prog, adr, varHeap>>,
           \A x \in Block : Unused(x) => \A j \in 1..Len(heap') : Apart(heap'[j], x)
    PROVE  VarHeapUnused'
  <1>1. \A i \in 1..Len(varHeap) : varHeap[i] \in Block /\ Unused(varHeap[i])
    BY SeqIsFunction DEF AllocInv, TypeOK, VarHeapUnused, Unused
  <1>2. \A i \in 1..Len(varHeap) :
            \A j \in 1..Len(heap') : Apart(heap'[j], varHeap[i])
    BY <1>1
  <1>3. \A i \in 1..Len(varHeap) :
            \A p \in Owner : \A v \in VarsOf(p) : Placed(v) => Apart(At(v), varHeap[i])
    BY <1>1 DEF Unused
  <1>4. \A p \in Owner : VarsOf(p)' = VarsOf(p)
    BY DEF VarsOf, NVars
  <1>5. \A p \in Owner : \A v \in VarsOf(p) : Placed(v)' = Placed(v) /\ At(v)' = At(v)
    BY DEF Placed, At, Size
  <1> QED BY <1>2, <1>3, <1>4, <1>5 DEF VarHeapUnused

(* The same for the local heap alone: entries that were clear stay clear.  *)
LEMMA HeapSymmetric ==
    ASSUME NEW bl \in Seq(Block), NEW x \in Block
    PROVE  (\A j \in 1..Len(bl) : Apart(bl[j], x)) <=> AllApart(x, bl)
  <1>1. \A j \in 1..Len(bl) : bl[j] \in Block
    BY SeqIsFunction
  <1> QED BY <1>1, ApartSymmetric DEF AllApart

(* A variable is placed on a range that is clear of VAR_HEAP.              *)
LEMMA PlacedClear ==
    ASSUME AllocInv, NEW p \in Owner, NEW k \in 1..NVars(p), NEW r \in Block,
           r.size = Size(<<p, k>>),
           adr' = [adr EXCEPT ![<<p, k>>] = r.adr], prog' = prog,
           varHeap' \in Seq(Block), heap' \in Seq(Block),
           AllApart(r, varHeap'),
           \A x \in Block : AllApart(x, varHeap) => AllApart(x, varHeap'),
           \A j \in 1..Len(heap') : AllApart(heap'[j], varHeap')
    PROVE  VarHeapUnused' /\ adr' \in [Vars -> Nat \cup {NoAdr}]
  <1> DEFINE u == <<p, k>>
  <1>1. u \in Vars /\ adr \in [Vars -> Nat \cup {NoAdr}] /\ r.adr \in Nat
    BY VariableIsBlock DEF AllocInv, TypeOK, Block
  <1>2. /\ adr' \in [Vars -> Nat \cup {NoAdr}]
        /\ adr'[u] = r.adr
        /\ \A v \in Vars : v # u => adr'[v] = adr[v]
    BY <1>1
  <1>3. \A v : Size(v)' = Size(v)
    BY DEF Size
  <1>4. r = [adr |-> r.adr, size |-> r.size]
    BY DEF Block
  <1>5. At(u)' = r
    BY <1>2, <1>3, <1>4 DEF At
  <1>6. \A v \in Vars : v # u => Placed(v)' = Placed(v) /\ At(v)' = At(v)
    BY <1>2, <1>3 DEF Placed, At
  <1>7. \A q \in Owner : VarsOf(q)' = VarsOf(q)
    BY DEF VarsOf, NVars
  <1> HIDE DEF u
  <1>8. ASSUME NEW q \in Owner, NEW v \in VarsOf(q), Placed(v)'
        PROVE  AllApart(At(v)', varHeap')
    <2>1. CASE v = u
      BY <1>5, <2>1
    <2>2. CASE v # u
      <3>1. v \in Vars /\ Placed(v) /\ At(v)' = At(v)
        BY <1>6, <1>8, <2>2 DEF VarsOf
      <3>2. At(v) \in Block
        BY <3>1, VariablesOf, VariableIsBlock
      <3>3. AllApart(At(v), varHeap)
        BY <3>1 DEF AllocInv, VarHeapUnused, AllApart
      <3> QED BY <3>1, <3>2, <3>3
    <2> QED BY <2>1, <2>2
  <1>9. \A q \in Owner : \A v \in VarsOf(q)' : Placed(v)' => AllApart(At(v)', varHeap')
    BY <1>7, <1>8
  <1> QED BY <1>2, <1>9 DEF VarHeapUnused, AllApart

-----------------------------------------------------------------------------
(* One lemma for each action that touches a heap.                          *)
LEMMA AddVariableInv == AllocInv /\ AddVariable => AllocInv'
  <1> SUFFICES ASSUME AllocInv, AddVariable PROVE AllocInv'
    OBVIOUS
  <1> DEFINE v == <<proc2, var>>
  <1>1. proc2 \in Owner /\ var \in 1..NVars(proc2) /\ heap \in Seq(Block)
    BY DEF AllocInv, AddVariable, TypeOK, NVars
  <1>2. HasAddress(v) => Placed(v)
    BY DEF HasAddress, Placed
  <1>3. HasAddress(v) => At(v) \in Block
    BY <1>1, <1>2, VariableIsBlock
  <1>4. heap' = IF HasAddress(v) THEN HeapAddBlock(heap, At(v).adr, At(v).size)
                                 ELSE heap
    BY DEF AddVariable, At
  <1>5. HasAddress(v) /\ (\E p \in Owner : v \in VarsOf(p)) =>
            \A x \in Block : Unused(x) => Apart(x, At(v))
    BY <1>2, <1>3, ApartSymmetric DEF Unused
  <1>6. v \in VarsOf(proc2)
    BY <1>1, VariableIsBlock
  <1>7. heap' \in Seq(Block)
    BY <1>1, <1>3, <1>4, AddBlock
  <1> HIDE DEF v
  <1>8. ASSUME NEW x \in Block, Unused(x)
        PROVE  \A j \in 1..Len(heap') : Apart(heap'[j], x)
    <2>1. AllApart(x, heap)
      BY <1>1, <1>8, HeapSymmetric DEF Unused
    <2>2. HasAddress(v) => Apart(x, At(v))
      BY <1>1, <1>5, <1>6, <1>8
    <2>3. AllApart(x, heap')
      BY <1>1, <1>3, <1>4, <2>1, <2>2, AddBlock
    <2> QED BY <1>7, <2>3, HeapSymmetric
  <1>9. UNCHANGED <<prog, jumped, adr, aliased, varHeap, removing, phase, proc, proc2>>
        /\ var' = var + 1
    BY DEF AddVariable
  <1>10. VarHeapUnused'
    BY <1>8, <1>9, SameAddresses
  <1> QED BY <1>7, <1>9, <1>10 DEF AllocInv, TypeOK, RemovingRange

LEMMA RemoveVariableInv == AllocInv /\ RemoveVariable => AllocInv'
  <1> SUFFICES ASSUME AllocInv, RemoveVariable PROVE AllocInv'
    OBVIOUS
  <1> DEFINE v == <<proc2, var>>
  <1>1. proc2 \in Owner /\ var \in 1..NVars(proc2)
    BY DEF AllocInv, RemoveVariable, TypeOK, NVars
  <1>2. HasAddress(v) => adr[v] \in Nat /\ Size(v) \in Nat \ {0}
    <2>1. v \in Vars /\ Size(v) \in Nat \ {0}
      BY <1>1, VariableIsBlock
    <2> QED BY <2>1 DEF HasAddress, AllocInv, TypeOK
  <1>3. removing' = IF HasAddress(v)
                    THEN [active |-> TRUE, adr |-> adr[v],
                          end |-> adr[v] + Size(v), at |-> 1]
                    ELSE removing
    BY DEF RemoveVariable
  <1>4. UNCHANGED <<prog, jumped, adr, aliased, varHeap, heap, phase, proc, proc2>>
        /\ var' = var + 1
    BY DEF RemoveVariable
  <1> HIDE DEF v
  <1>5. /\ removing' \in [active : BOOLEAN, adr : Nat, end : Nat, at : Nat]
        /\ removing'.active => removing'.at \in Nat \ {0}
        /\ removing'.active => removing'.adr < removing'.end
    BY <1>2, <1>3 DEF AllocInv, TypeOK, RemovingRange
  <1>6. VarHeapUnused'
    BY <1>4, SameAddresses DEF Unused
  <1> QED BY <1>4, <1>5, <1>6 DEF AllocInv, TypeOK, RemovingRange

LEMMA RemoveTurnInv == AllocInv /\ RemoveTurn => AllocInv'
  <1> SUFFICES ASSUME AllocInv, RemoveTurn PROVE AllocInv'
    OBVIOUS
  <1> DEFINE s == HeapRemoveStep(heap, removing.at, removing.adr, removing.end)
  <1>1. /\ heap \in Seq(Block)
        /\ removing.at \in 1..Len(heap)
        /\ removing.adr \in Nat /\ removing.end \in Nat
        /\ removing.adr < removing.end
    BY DEF AllocInv, RemoveTurn, TypeOK, RemovingRange
  <1>2. Removes(heap, removing.at, removing.adr, removing.end, s)
    BY <1>1, RemoveStepRemoves
  <1>3. /\ heap' = s.block /\ removing' = [removing EXCEPT !.at = s.next]
        /\ UNCHANGED <<prog, jumped, adr, aliased, varHeap, phase, proc, proc2, var>>
    BY DEF RemoveTurn
  <1>4. /\ s.block \in Seq(Block) /\ s.next \in Nat \ {0}
        /\ \A x \in Block : AllApart(x, heap) => AllApart(x, s.block)
    BY <1>2 DEF Removes
  <1> HIDE DEF s
  <1>5. ASSUME NEW x \in Block, Unused(x)
        PROVE  \A j \in 1..Len(heap') : Apart(heap'[j], x)
    <2>1. AllApart(x, heap)
      BY <1>1, <1>5, HeapSymmetric DEF Unused
    <2> QED BY <1>3, <1>4, <2>1, HeapSymmetric
  <1>6. VarHeapUnused'
    BY <1>3, <1>5, SameAddresses
  <1> QED BY <1>3, <1>4, <1>6 DEF AllocInv, TypeOK, RemovingRange

(* What HeapAllocBlock does to one of the two heaps.                       *)
LEMMA TakeFacts ==
    ASSUME NEW bl \in Seq(Block), NEW size \in Nat \ {0}, Fits(bl, size) # {}
    PROVE  LET r == [adr |-> Room(bl, size), size |-> size]
           IN  /\ r \in Block
               /\ Take(bl, size) \in Seq(Block)
               /\ Disjoint(bl) => Disjoint(Take(bl, size)) /\ AllApart(r, Take(bl, size))
               /\ \A x \in Block :
                      AllApart(x, bl) => AllApart(x, Take(bl, size)) /\ Apart(x, r)
  <1> DEFINE i == BestFit(bl, size)
  <1>1. i \in Fits(bl, size)
    BY BestFitFits
  <1>2. Room(bl, size) = bl[i].adr /\ Take(bl, size) = AllocFrom(bl, i, size)
    BY DEF Room, Take
  <1> DEFINE r == [adr |-> bl[i].adr, size |-> size]
             new == AllocFrom(bl, i, size)
  <1> HIDE DEF i
  <1>3. /\ r \in Block
        /\ new \in Seq(Block)
        /\ Disjoint(bl) => Disjoint(new) /\ AllApart(r, new)
        /\ \A x \in Block : AllApart(x, bl) => AllApart(x, new) /\ Apart(x, r)
    BY <1>1, AllocTakes
  <1>4. r = [adr |-> Room(bl, size), size |-> size] /\ new = Take(bl, size)
    BY <1>2
  <1> HIDE DEF r, new
  <1> QED BY <1>3, <1>4

LEMMA AllocVariableInv == AllocInv /\ AllocVariable => AllocInv'
  <1> SUFFICES ASSUME AllocInv, AllocVariable PROVE AllocInv'
    OBVIOUS
  <1> DEFINE v == <<proc, var>>
             size == Size(v)
  <1>1. /\ proc \in Owner /\ var \in 1..NVars(proc)
        /\ heap \in Seq(Block) /\ varHeap \in Seq(Block) /\ Disjoint(varHeap)
        /\ aliased \subseteq Vars
    BY DEF AllocInv, AllocVariable, TypeOK, NVars
  <1>2. v \in Vars /\ size \in Nat \ {0}
    BY <1>1, VariableIsBlock
  <1>3. /\ var' = var + 1
        /\ UNCHANGED <<prog, jumped, removing, phase, proc, proc2>>
    BY DEF AllocVariable
  <1>4. \A j \in 1..Len(heap) : heap[j] \in Block /\ AllApart(heap[j], varHeap)
    BY <1>1, SeqIsFunction DEF AllocInv, VarHeapUnused, AllApart
  <1>5. \A i \in 1..Len(varHeap) : varHeap[i] \in Block /\ AllApart(varHeap[i], heap)
    BY <1>1, <1>4, SeqIsFunction, ApartSymmetric DEF AllApart
  <1>6. SUFFICES /\ VarHeapUnused'
                 /\ adr' \in [Vars -> Nat \cup {NoAdr}] /\ aliased' \subseteq Vars
                 /\ heap' \in Seq(Block) /\ varHeap' \in Seq(Block)
                 /\ Disjoint(varHeap')
    BY <1>3, <1>6 DEF AllocInv, TypeOK, RemovingRange
  <1>7. CASE /\ Lenders(v) # {}
             /\ adr' = [adr EXCEPT ![v] = adr[Lender(v)]]
             /\ aliased' = aliased \cup {v}
             /\ UNCHANGED <<heap, varHeap>>
    <2> DEFINE k == FirstOf(Lenders(v))
               w == <<proc, k>>
    <2>1. Lenders(v) \subseteq Nat
      BY DEF Lenders
    <2>2. k \in Lenders(v)
      BY <1>7, <2>1, FirstOfIn
    <2> HIDE DEF k
    <2>3. k \in 1..NVars(proc) /\ HasAddress(w) /\ Size(w) = size
      BY <2>2 DEF Lenders
    <2>4. Lender(v) = w
      BY DEF Lender, k
    <2>5. w \in VarsOf(proc) /\ Placed(w) /\ At(w) \in Block
      BY <1>1, <2>3, VariableIsBlock DEF HasAddress, Placed
    <2>6. At(w).adr = adr[w] /\ At(w).size = Size(w)
      BY DEF At
    <2>7. AllApart(At(w), varHeap)
      BY <1>1, <2>5 DEF AllocInv, VarHeapUnused, AllApart
    <2>8. adr' = [adr EXCEPT ![<<proc, var>>] = At(w).adr]
          /\ At(w).size = Size(<<proc, var>>)
      BY <1>7, <2>3, <2>4, <2>6
    <2> HIDE DEF v, w
    <2>9. VarHeapUnused' /\ adr' \in [Vars -> Nat \cup {NoAdr}]
      BY <1>1, <1>3, <1>4, <1>7, <2>5, <2>7, <2>8, PlacedClear
    <2> QED BY <1>1, <1>2, <1>7, <2>9
  <1>8. CASE /\ Fits(heap, size) # {}
             /\ adr' = [adr EXCEPT ![v] = Room(heap, size)]
             /\ heap' = Take(heap, size)
             /\ UNCHANGED <<aliased, varHeap>>
    <2> DEFINE r == [adr |-> Room(heap, size), size |-> size]
    <2>1. /\ r \in Block /\ heap' \in Seq(Block)
          /\ \A x \in Block : AllApart(x, heap) => AllApart(x, heap') /\ Apart(x, r)
      BY <1>1, <1>2, <1>8, TakeFacts
    <2>2. r.size = Size(<<proc, var>>)
          /\ adr' = [adr EXCEPT ![<<proc, var>>] = r.adr]
      BY <1>8
    <2> HIDE DEF r, v, size
    <2>3. AllApart(r, varHeap)
      BY <1>5, <2>1, ApartSymmetric DEF AllApart
    <2>4. \A j \in 1..Len(heap') : heap'[j] \in Block
      BY <2>1, SeqIsFunction
    <2>5. \A j \in 1..Len(heap') : AllApart(heap'[j], varHeap)
      BY <1>5, <2>1, <2>4, ApartSymmetric DEF AllApart
    <2>6. VarHeapUnused' /\ adr' \in [Vars -> Nat \cup {NoAdr}]
      BY <1>1, <1>3, <1>8, <2>1, <2>2, <2>3, <2>5, PlacedClear
    <2> QED BY <1>1, <1>8, <2>1, <2>6
  <1>9. CASE /\ Fits(varHeap, size) # {}
             /\ adr' = [adr EXCEPT ![v] = Room(varHeap, size)]
             /\ varHeap' = Take(varHeap, size)
             /\ UNCHANGED <<aliased, heap>>
    <2> DEFINE r == [adr |-> Room(varHeap, size), size |-> size]
    <2>1. /\ r \in Block /\ varHeap' \in Seq(Block)
          /\ Disjoint(varHeap') /\ AllApart(r, varHeap')
          /\ \A x \in Block : AllApart(x, varHeap) => AllApart(x, varHeap')
      BY <1>1, <1>2, <1>9, TakeFacts
    <2>2. r.size = Size(<<proc, var>>)
          /\ adr' = [adr EXCEPT ![<<proc, var>>] = r.adr]
      BY <1>9
    <2> HIDE DEF r, v, size
    <2>3. \A j \in 1..Len(heap') : AllApart(heap'[j], varHeap')
      BY <1>4, <1>9, <2>1
    <2>4. VarHeapUnused' /\ adr' \in [Vars -> Nat \cup {NoAdr}]
      BY <1>1, <1>3, <1>9, <2>1, <2>2, <2>3, PlacedClear
    <2> QED BY <1>1, <1>9, <2>1, <2>4
  <1>10. CASE UNCHANGED <<adr, aliased, heap, varHeap>>
    <2>1. VarHeapUnused'
      BY <1>3, <1>10, SameAddresses DEF Unused
    <2> QED BY <1>1, <1>10, <2>1 DEF AllocInv, TypeOK
  <1> QED BY <1>7, <1>8, <1>9, <1>10 DEF AllocVariable

(* The bookkeeping of the loops: addresses stay as they are, and the local *)
(* heap stays or is given up.                                              *)
LEMMA BookkeepingInv ==
    ASSUME AllocInv,
           \/ OptimizeJumps \/ SkipUnused \/ RemoveDone \/ NextProc2 \/ NextProc
           \/ UNCHANGED vars
    PROVE  AllocInv'
  <1>1. UNCHANGED <<prog, adr, aliased, varHeap>> /\ (heap' = heap \/ heap' = <<>>)
    BY DEF OptimizeJumps, SkipUnused, RemoveDone, NextProc2, NextProc, vars
  <1>2. VarHeapUnused'
    BY <1>1, SameAddresses DEF Unused
  <1>3. NProc \in Nat /\ heap' \in Seq(Block)
    <2>1. NProc \in Nat
      BY VarAllocAssumption
    <2>2. heap \in Seq(Block) /\ <<>> \in Seq(Block)
      BY DEF AllocInv, TypeOK
    <2> QED BY <1>1, <2>1, <2>2
  <1>4. proc' \in Owner /\ proc2' \in Owner /\ var' \in Nat \ {0}
        /\ phase' \in {"jumps", "add", "remove", "alloc", "done"}
    BY <1>3 DEF AllocInv, TypeOK, OptimizeJumps, SkipUnused, RemoveDone, NextProc2,
                NextProc, vars, NextOwner, Owner, Root
  <1>5. jumped' \subseteq Owner
    BY DEF AllocInv, TypeOK, OptimizeJumps, SkipUnused, RemoveDone, NextProc2,
           NextProc, vars
  <1>6. removing' = removing \/ removing' = Idle
    BY DEF OptimizeJumps, SkipUnused, RemoveDone, NextProc2, NextProc, vars
  <1>7. /\ removing' \in [active : BOOLEAN, adr : Nat, end : Nat, at : Nat]
        /\ removing'.active => removing'.at \in Nat \ {0}
    <2>1. CASE removing' = removing
      BY <2>1 DEF AllocInv, TypeOK
    <2>2. CASE removing' = Idle
      BY <2>2 DEF Idle
    <2> QED BY <1>6, <2>1, <2>2
  <1>8. RemovingRange'
    BY <1>6 DEF AllocInv, RemovingRange, Idle
  <1>9. TypeOK'
    BY <1>1, <1>3, <1>4, <1>5, <1>7 DEF AllocInv, TypeOK
  <1> QED BY <1>1, <1>2, <1>8, <1>9 DEF AllocInv

LEMMA AllocInvNext == AllocInv /\ [Next]_vars => AllocInv'
  BY AddVariableInv, RemoveVariableInv, RemoveTurnInv, AllocVariableInv, BookkeepingInv
     DEF Next, Done

(* Addresses and both heaps keep their types, whatever is compiled.        *)
THEOREM AllocTypeCorrect == Spec => []TypeOK
  <1>1. AllocInv => TypeOK
    BY DEF AllocInv
  <1> QED BY <1>1, AllocInvInit, AllocInvNext, PTL DEF Spec

(* Nothing that has an address, and no entry of the local heap, has a byte *)
(* in common with VAR_HEAP: what AllocateVariables takes from there is     *)
(* new, for programs with tail calls, interrupts and loops as well.        *)
THEOREM VarHeapStaysUnused == Spec => []VarHeapUnused
  <1>1. AllocInv => VarHeapUnused
    BY DEF AllocInv
  <1> QED BY <1>1, AllocInvInit, AllocInvNext, PTL DEF Spec

-----------------------------------------------------------------------------
(***************************************************************************)
(* Variables that must not share memory do not, as long as no byte is in   *)
(* the local heap twice.                                                   *)
(***************************************************************************)
\* AllocateVariables has not come to variable v.
Pending(v) ==
    \/ phase = "jumps"
    \/ phase \in {"add", "remove"} /\ v[1] >= proc
    \/ phase = "alloc" /\ (v[1] > proc \/ (v[1] = proc /\ v[2] >= var))

\* What has no address: variables still to come, and those of unused procedures.
UnplacedOK ==
    \A p \in Owner : \A v \in VarsOf(p) :
        Pending(v) \/ p \notin Used \cup {Root} => ~Placed(v)

\* A variable that shares an address object shares it with a variable of a loop as large.
AliasOK ==
    \A p \in Owner : \A v \in VarsOf(p) : v \in aliased =>
        /\ InBlock(v)
        /\ \E w \in VarsOf(p) : InBlock(w) /\ HasAddress(w) /\ At(w) = At(v)

\* The variable has been taken out of the local heap, or its memory was taken from there.
TakenOut(v) ==
    \/ /\ phase = "remove" /\ Excludes(proc, v[1])
       /\ v[1] < proc2 \/ (v[1] = proc2 /\ v[2] < var)
    \/ phase = "alloc" /\ (v[1] = proc \/ Excludes(proc, v[1]))

\* Entry j of the local heap still has to be looked at by the removal of v.
StillRemoving(v, j) ==
    /\ removing.active /\ removing.at <= j
    /\ removing.adr = adr[v] /\ removing.end = adr[v] + Size(v)

HeapClear ==
    \A p \in Owner : \A v \in VarsOf(p) : TakenOut(v) /\ HasAddress(v) =>
        \A j \in 1..Len(heap) : Apart(At(v), heap[j]) \/ StillRemoving(v, j)

\* Procedures that call each other, at any depth, and the variables of one procedure.
RelatedApart ==
    \A p \in Owner, q \in Owner : p # q /\ phase # "jumps" /\ Related(p, q) =>
        \A v \in VarsOf(p), w \in VarsOf(q) : ~Overlap(v, w)
OwnApart ==
    \A p \in Owner : \A v \in VarsOf(p), w \in VarsOf(p) :
        v # w /\ {v, w} \cap aliased = {} => ~Overlap(v, w)

SafeInv ==
    /\ phase \in {"remove", "alloc"} => proc \in Used \cup {Root}
    /\ removing.active => phase = "remove"
    /\ UnplacedOK /\ AliasOK /\ HeapClear /\ RelatedApart /\ OwnApart

-----------------------------------------------------------------------------
(* The procedures reached by calls are more if the first ones are more,    *)
(* and the first ones are among them.                                      *)
LEMMA ClosureGrows ==
    ASSUME NEW edge \in [Owner -> SUBSET Owner], NEW S \in SUBSET Owner,
           NEW T \in SUBSET Owner, S \subseteq T
    PROVE  Closure(edge, S) \subseteq Closure(edge, T) /\ S \subseteq Closure(edge, S)
  <1> DEFINE Step(C) == C \cup UNION {edge[x] : x \in C}
             Def(X, f) == [n \in Nat |-> IF n = 0 THEN X ELSE Step(f[n - 1])]
             After(X) == CHOOSE f : f = Def(X, f)
  <1>1. Closure(edge, S) = After(S)[NProc] /\ Closure(edge, T) = After(T)[NProc]
    BY DEF Closure
  <1>2. ASSUME NEW X \in SUBSET Owner
        PROVE  LET r == After(X) IN r[0] = X /\ \A n \in Nat : r[n + 1] = Step(r[n])
    <2> DEFINE g == [n \in Nat |-> [C \in SUBSET Owner |-> Step(C)]]
    <2>1. \A C \in SUBSET Owner : Step(C) \in SUBSET Owner
      OBVIOUS
    <2> HIDE DEF Step
    <2>2. PICK f : Follows(f, SUBSET Owner, X, g)
      <3>1. g \in [Nat -> [SUBSET Owner -> SUBSET Owner]]
        BY <2>1
      <3> HIDE DEF g
      <3> QED BY <3>1, Recursion
    <2>3. f = Def(X, f)
      <3>1. ASSUME NEW n \in Nat, n # 0 PROVE f[n] = Step(f[n - 1])
        <4>1. n - 1 \in Nat /\ (n - 1) + 1 = n
          BY <3>1
        <4>2. f[(n - 1) + 1] = g[n - 1][f[n - 1]] /\ f[n - 1] \in SUBSET Owner
          BY <2>2, <4>1 DEF Follows
        <4> QED BY <4>1, <4>2
      <3> QED BY <2>2, <3>1 DEF Follows
    <2>4. After(X) = Def(X, After(X))
      <3> HIDE DEF Def
      <3> QED BY <2>3
    <2> DEFINE r == After(X)
    <2>5. r = [n \in Nat |-> IF n = 0 THEN X ELSE Step(r[n - 1])]
      BY <2>4
    <2> HIDE DEF r
    <2>6. \A n \in Nat : n + 1 \in Nat /\ n + 1 # 0 /\ (n + 1) - 1 = n
      OBVIOUS
    <2>7. r[0] = X /\ \A n \in Nat : r[n + 1] = Step(r[n])
      BY <2>5, <2>6
    <2> QED BY <2>7 DEF r
  <1> HIDE DEF After
  <1> DEFINE P == {n \in Nat : S \subseteq After(S)[n] /\ After(S)[n] \subseteq After(T)[n]}
  <1>3. 0 \in P
    BY <1>2
  <1>4. ASSUME NEW n \in Nat, n \in P PROVE n + 1 \in P
    <2>1. /\ After(S)[n + 1] = Step(After(S)[n])
          /\ After(T)[n + 1] = Step(After(T)[n])
      BY <1>2
    <2> QED BY <1>4, <2>1
  <1> HIDE DEF P
  <1>5. Nat \subseteq P
    BY <1>3, <1>4, Counting
  <1>6. NProc \in P
    BY <1>5, VarAllocAssumption
  <1> QED BY <1>1, <1>6 DEF P

(* What a procedure reaches through its first calls and then through calls *)
(* at any depth, it calls if no call was made a jump.                      *)
LEMMA NeedsAreCalls ==
    ASSUME AllocInv, jumped = {}, NEW p \in Owner, NEW q \in Proc, NeedsBoth(p, q)
    PROVE  Related(p, q)
  <1>1. prog \in Program
    BY VarAllocAssumption DEF AllocInv
  <1>2. Calls = Continues
    BY <1>1 DEF Calls, Continues
  <1>3. /\ Continues \in [Owner -> SUBSET Owner]
        /\ prog.calls[p] \subseteq Continues[p] /\ Ending(p) \subseteq Continues[p]
    <2>1. Proc \subseteq Owner
      BY VarAllocAssumption DEF Proc, Owner
    <2>2. \A x \in Owner : prog.calls[x] \subseteq Proc /\ Ending(x) \subseteq Proc
      BY <1>1 DEF Program, Ending
    <2>3. \A x \in Owner : Continues[x] = prog.calls[x] \cup Ending(x)
      BY DEF Continues
    <2>4. Continues = [x \in Owner |-> Continues[x]]
      BY DEF Continues
    <2> QED BY <2>1, <2>2, <2>3, <2>4
  <1>4. /\ Closure(Continues, prog.calls[p]) \subseteq Closure(Continues, Continues[p])
        /\ Continues[p] \subseteq Closure(Continues, Continues[p])
    <2>1. prog.calls[p] \subseteq Owner /\ Continues[p] \subseteq Owner
      BY <1>3
    <2> QED BY <1>3, <2>1, ClosureGrows
  <1>5. q \in Closure(Continues, Continues[p])
    BY <1>3, <1>4 DEF NeedsBoth
  <1> QED BY <1>2, <1>5 DEF Related, ProcCallsProc

-----------------------------------------------------------------------------
(* A variable of a procedure is one of Vars, and a block when it is placed.*)
LEMMA VariableFacts ==
    ASSUME AllocInv, NEW p \in Owner, NEW v \in VarsOf(p)
    PROVE  /\ v \in Vars /\ v[1] = p /\ v[2] \in 1..NVars(p) /\ v = <<p, v[2]>>
           /\ Size(v) \in Nat \ {0}
           /\ Placed(v) => At(v) \in Block
           /\ HasAddress(v) <=> Placed(v) /\ v \notin aliased
           /\ prog.own[p] \in Nat /\ NVars(p) \in Nat
  <1>1. v = <<p, v[2]>> /\ v[2] \in 1..NVars(p)
    BY VariablesOf
  <1>2. prog \in Program
    BY VarAllocAssumption DEF AllocInv
  <1>3. prog.own[p] \in Nat /\ prog.sizes[p] \in Seq(Nat \ {0})
    BY <1>2 DEF Program
  <1>4. NVars(p) \in Nat
    BY <1>3 DEF NVars
  <1>5. <<p, v[2]>> \in Vars /\ Size(<<p, v[2]>>) \in Nat \ {0}
        /\ (Placed(<<p, v[2]>>) => At(<<p, v[2]>>) \in Block)
    BY <1>1, VariableIsBlock
  <1>6. v[1] = p
    BY DEF VarsOf
  <1> QED BY <1>1, <1>3, <1>4, <1>5, <1>6 DEF HasAddress, Placed

(* A step that leaves addresses and calls alone leaves alone what is said  *)
(* of them.                                                                *)
LEMMA SameWorld ==
    ASSUME UNCHANGED prog
    PROVE  /\ Used' = Used /\ UsedInInterupt' = UsedInInterupt
           /\ \A p : VarsOf(p)' = VarsOf(p) /\ NVars(p)' = NVars(p)
           /\ \A v : InBlock(v)' = InBlock(v) /\ Size(v)' = Size(v)
           /\ UNCHANGED adr => \A v : /\ Placed(v)' = Placed(v) /\ At(v)' = At(v)
                                      /\ \A w : Overlap(v, w)' = Overlap(v, w)
           /\ UNCHANGED <<adr, aliased>> => \A v : HasAddress(v)' = HasAddress(v)
           /\ UNCHANGED jumped => \A p, q : /\ Related(p, q)' = Related(p, q)
                                            /\ Excludes(p, q)' = Excludes(p, q)
                                            /\ Reuses(p, q)' = Reuses(p, q)
  <1>1. /\ Used' = Used /\ UsedInInterupt' = UsedInInterupt
    BY DEF Used, UsedInInterupt, Continues, Ending
  <1>2. /\ \A p : VarsOf(p)' = VarsOf(p) /\ NVars(p)' = NVars(p)
        /\ \A v : InBlock(v)' = InBlock(v) /\ Size(v)' = Size(v)
    BY DEF VarsOf, NVars, InBlock, Size
  <1>3. ASSUME UNCHANGED adr
        PROVE  \A v : /\ Placed(v)' = Placed(v) /\ At(v)' = At(v)
                      /\ \A w : Overlap(v, w)' = Overlap(v, w)
    BY <1>3 DEF Placed, At, Size, Overlap
  <1>4. ASSUME UNCHANGED <<adr, aliased>> PROVE \A v : HasAddress(v)' = HasAddress(v)
    BY <1>4 DEF HasAddress
  <1>5. ASSUME UNCHANGED jumped
        PROVE  \A p, q : Related(p, q)' = Related(p, q)
    BY <1>5 DEF Related, ProcCallsProc, Calls, Ending
  <1>6. ASSUME UNCHANGED jumped
        PROVE  \A p, q : Excludes(p, q)' = Excludes(p, q) /\ Reuses(p, q)' = Reuses(p, q)
    BY <1>1, <1>5, <1>6 DEF Excludes, Reuses
  <1> QED BY <1>1, <1>2, <1>3, <1>4, <1>5, <1>6

(* SafeInv in the steps that place nothing: what has to be shown is what   *)
(* they do to the order of procedures and to the local heap.               *)
LEMMA NothingPlaced ==
    ASSUME AllocInv, SafeInv, UNCHANGED <<prog, adr, aliased>>,
           phase' \in {"remove", "alloc"} => proc' \in Used \cup {Root},
           removing'.active => phase' = "remove",
           \A p \in Owner : \A v \in VarsOf(p) : Pending(v)' => Pending(v),
           HeapClear',
           phase = "jumps" \/ UNCHANGED jumped
    PROVE  SafeInv'
  <1>1. UnplacedOK'
    BY SameWorld DEF SafeInv, UnplacedOK
  <1>2. AliasOK'
    BY SameWorld DEF SafeInv, AliasOK
  <1>3. OwnApart'
    BY SameWorld DEF SafeInv, OwnApart
  <1>4. RelatedApart'
    <2>1. CASE phase = "jumps"
      <3>1. \A p \in Owner : \A v \in VarsOf(p) : ~Placed(v)
        BY <2>1 DEF SafeInv, UnplacedOK, Pending
      <3> QED BY <3>1, SameWorld DEF RelatedApart, Overlap
    <2>2. CASE phase # "jumps" /\ UNCHANGED jumped
      <3>1. \A p, q : Related(p, q)' = Related(p, q)
        BY <2>2, SameWorld
      <3>2. \A p : VarsOf(p)' = VarsOf(p)
        BY SameWorld
      <3>3. \A v, w : Overlap(v, w)' = Overlap(v, w)
        BY SameWorld
      <3>4. RelatedApart
        BY DEF SafeInv
      <3> QED BY <2>2, <3>1, <3>2, <3>3, <3>4 DEF RelatedApart
    <2> QED BY <2>1, <2>2
  <1>5. Used' = Used
    BY SameWorld
  <1> QED BY <1>1, <1>2, <1>3, <1>4, <1>5 DEF SafeInv

-----------------------------------------------------------------------------
(* One lemma for each action, first those that place nothing.              *)
LEMMA SafeInit == Init => SafeInv
  <1> SUFFICES ASSUME Init PROVE SafeInv
    OBVIOUS
  <1>1. \A p \in Owner : \A v \in VarsOf(p) : ~Placed(v) /\ v \notin aliased
    BY DEF Init, VarsOf, Placed
  <1>2. phase = "jumps" /\ ~removing.active
    BY DEF Init, Idle
  <1> QED BY <1>1, <1>2
          DEF SafeInv, UnplacedOK, AliasOK, HeapClear, TakenOut, RelatedApart, OwnApart, Overlap

(* The steps of the phases in which nothing has to be clear of the heap.   *)
LEMMA SafeBeforeRemoval ==
    ASSUME AllocInv, SafeInv,
           OptimizeJumps \/ SkipUnused \/ AddVariable \/ NextProc
    PROVE  SafeInv'
  <1>1. UNCHANGED <<prog, adr, aliased, removing>> /\ phase' \in {"jumps", "add", "done"}
    BY DEF OptimizeJumps, SkipUnused, AddVariable, NextProc
  <1>2. ~removing.active
    BY DEF SafeInv, OptimizeJumps, SkipUnused, AddVariable, NextProc
  <1>3. HeapClear'
    BY <1>1 DEF HeapClear, TakenOut
  <1>4. phase = "jumps" \/ UNCHANGED jumped
    BY DEF OptimizeJumps, SkipUnused, AddVariable, NextProc
  <1>5. ASSUME NEW p \in Owner, NEW v \in VarsOf(p), Pending(v)' PROVE Pending(v)
    <2>1. proc \in Owner /\ Owner \subseteq Nat /\ Root \in Nat
      BY VarAllocAssumption DEF AllocInv, TypeOK, Owner, Root
    <2>2. v[1] = p
      BY DEF VarsOf
    <2>3. Root \in Used \cup {Root}
      OBVIOUS
    <2> QED BY <1>5, <2>1, <2>2, <2>3
            DEF Pending, OptimizeJumps, SkipUnused, AddVariable, NextProc, NextOwner
  <1> QED BY <1>1, <1>2, <1>3, <1>4, <1>5, NothingPlaced

LEMMA SafeRemoveVariable == AllocInv /\ SafeInv /\ RemoveVariable => SafeInv'
  <1> SUFFICES ASSUME AllocInv, SafeInv, RemoveVariable PROVE SafeInv'
    OBVIOUS
  <1> DEFINE u == <<proc2, var>>
  <1>1. /\ UNCHANGED <<prog, jumped, adr, aliased, heap, phase, proc, proc2>>
        /\ var' = var + 1 /\ var \in Nat /\ phase = "remove" /\ ~removing.active
    BY DEF RemoveVariable, AllocInv, TypeOK
  <1>2. removing' = IF HasAddress(u)
                    THEN [active |-> TRUE, adr |-> adr[u], end |-> adr[u] + Size(u), at |-> 1]
                    ELSE removing
    BY DEF RemoveVariable
  <1> HIDE DEF u
  <1>3. ASSUME NEW p \in Owner, NEW v \in VarsOf(p), TakenOut(v)', HasAddress(v),
               NEW j \in 1..Len(heap)
        PROVE  Apart(At(v), heap[j]) \/ StillRemoving(v, j)'
    <2>1. v = <<p, v[2]>> /\ v[1] = p /\ v[2] \in Nat
      BY VariableFacts
    <2>2. CASE v = u
      BY <1>1, <1>2, <1>3, <2>2, SameWorld DEF StillRemoving
    <2>3. CASE v # u
      <3>1. TakenOut(v)
        <4>1. Excludes(proc, v[1])' = Excludes(proc, v[1])
          BY <1>1, SameWorld DEF Excludes
        <4> QED BY <1>1, <1>3, <2>1, <2>3, <4>1 DEF TakenOut, u
      <3>2. ~StillRemoving(v, j)
        BY <1>1 DEF StillRemoving
      <3> QED BY <1>3, <3>1, <3>2 DEF SafeInv, HeapClear
    <2> QED BY <2>2, <2>3
  <1>4. HeapClear'
    BY <1>1, <1>3, SameWorld DEF HeapClear
  <1>5. ASSUME NEW p \in Owner, NEW v \in VarsOf(p), Pending(v)' PROVE Pending(v)
    BY <1>1, <1>5 DEF Pending
  <1> QED BY <1>1, <1>4, <1>5, NothingPlaced DEF SafeInv

LEMMA SafeRemoveTurn ==
    AllocInv /\ SafeInv /\ AddedOnce /\ RemoveTurn => SafeInv' /\ AddedOnce'
  <1> SUFFICES ASSUME AllocInv, SafeInv, AddedOnce, RemoveTurn PROVE SafeInv' /\ AddedOnce'
    OBVIOUS
  <1> DEFINE s == HeapRemoveStep(heap, removing.at, removing.adr, removing.end)
  <1>1. /\ heap \in Seq(Block) /\ Disjoint(heap) /\ phase = "remove"
        /\ removing.at \in 1..Len(heap)
        /\ removing.adr \in Nat /\ removing.end \in Nat
        /\ removing.adr < removing.end /\ removing.active
    BY DEF AllocInv, SafeInv, RemoveTurn, TypeOK, RemovingRange, AddedOnce
  <1>2. Removes(heap, removing.at, removing.adr, removing.end, s)
    BY <1>1, RemoveStepRemoves
  <1>3. /\ heap' = s.block
        /\ removing'.at = s.next /\ removing'.adr = removing.adr
        /\ removing'.end = removing.end /\ removing'.active = removing.active
        /\ UNCHANGED <<prog, jumped, adr, aliased, varHeap, phase, proc, proc2, var>>
    BY DEF RemoveTurn, AllocInv, TypeOK
  <1> HIDE DEF s
  <1>4. /\ heap' \in Seq(Block) /\ Disjoint(heap') /\ removing'.at \in Nat
        /\ \A x \in Block : AllApart(x, heap) => AllApart(x, heap')
        /\ ClearBefore(heap, removing.at, removing.adr, removing.end)
              => ClearBefore(heap', removing'.at, removing.adr, removing.end)
    BY <1>1, <1>2, <1>3 DEF Removes
  <1>5. ASSUME NEW p \in Owner, NEW v \in VarsOf(p), TakenOut(v), HasAddress(v),
               NEW j \in 1..Len(heap')
        PROVE  Apart(At(v), heap'[j]) \/ StillRemoving(v, j)'
    <2>1. At(v) \in Block /\ End(At(v)) = adr[v] + Size(v) /\ At(v).adr = adr[v]
      BY <1>5, VariableFacts DEF End, At
    <2>2. \A k \in 1..Len(heap) : Apart(At(v), heap[k]) \/ StillRemoving(v, k)
      BY <1>5 DEF SafeInv, HeapClear
    <2>3. CASE removing.adr = adr[v] /\ removing.end = adr[v] + Size(v)
      <3>1. \A k \in 1..Len(heap) : k < removing.at =>
                Apart(At(v), heap[k]) /\ heap[k] \in Block
        BY <1>1, <2>2, SeqIsFunction DEF StillRemoving
      <3>2. ClearBefore(heap, removing.at, removing.adr, removing.end)
        BY <2>1, <2>3, <3>1 DEF ClearBefore, Apart
      <3>3. j < removing'.at => Apart(At(v), heap'[j])
        BY <1>4, <2>1, <2>3, <3>2 DEF ClearBefore, Apart
      <3>4. ~ (j < removing'.at) => StillRemoving(v, j)'
        BY <1>1, <1>3, <1>4, <2>3, SameWorld DEF StillRemoving
      <3> QED BY <3>3, <3>4
    <2>4. CASE ~ (removing.adr = adr[v] /\ removing.end = adr[v] + Size(v))
      <3>1. AllApart(At(v), heap)
        BY <2>2, <2>4 DEF StillRemoving, AllApart
      <3> QED BY <1>4, <2>1, <3>1 DEF AllApart
    <2> QED BY <2>3, <2>4
  <1>6. \A v : TakenOut(v)' = TakenOut(v)
    BY <1>3, SameWorld DEF TakenOut, Excludes
  <1>7. HeapClear'
    BY <1>3, <1>5, <1>6, SameWorld DEF HeapClear
  <1>8. ASSUME NEW p \in Owner, NEW v \in VarsOf(p), Pending(v)' PROVE Pending(v)
    BY <1>3, <1>8 DEF Pending
  <1>9. SafeInv'
    BY <1>1, <1>3, <1>7, <1>8, NothingPlaced DEF SafeInv
  <1> QED BY <1>4, <1>9 DEF AddedOnce

LEMMA SafeRemoveDone == AllocInv /\ SafeInv /\ RemoveDone => SafeInv'
  <1> SUFFICES ASSUME AllocInv, SafeInv, RemoveDone PROVE SafeInv'
    OBVIOUS
  <1>1. /\ UNCHANGED <<prog, jumped, adr, aliased, heap, phase, proc, proc2, var>>
        /\ removing' = Idle /\ removing.at > Len(heap)
    BY DEF RemoveDone
  <1>2. \A v, j : j \in 1..Len(heap) => ~StillRemoving(v, j)
    BY <1>1 DEF StillRemoving, AllocInv, TypeOK
  <1>3. \A v : TakenOut(v)' = TakenOut(v)
    BY <1>1, SameWorld DEF TakenOut, Excludes
  <1>4. HeapClear'
    BY <1>1, <1>2, <1>3, SameWorld DEF SafeInv, HeapClear
  <1>5. ASSUME NEW p \in Owner, NEW v \in VarsOf(p), Pending(v)' PROVE Pending(v)
    BY <1>1, <1>5 DEF Pending
  <1> QED BY <1>1, <1>4, <1>5, NothingPlaced DEF SafeInv, Idle

LEMMA SafeNextProc2 == AllocInv /\ SafeInv /\ NextProc2 => SafeInv'
  <1> SUFFICES ASSUME AllocInv, SafeInv, NextProc2 PROVE SafeInv'
    OBVIOUS
  <1>1. /\ UNCHANGED <<prog, jumped, adr, aliased, heap, removing, proc>>
        /\ var' = 1 /\ phase \in {"add", "remove"} /\ ~removing.active
        /\ proc \in Used \cup {Root}
        /\ proc2' = IF proc2 < NProc THEN proc2 + 1 ELSE 1
        /\ phase' = IF proc2 < NProc THEN phase
                    ELSE IF phase = "add" THEN "remove" ELSE "alloc"
        /\ phase = "remove" => (Excludes(proc, proc2) => var > NVars(proc2))
    BY DEF NextProc2, SafeInv
  <1>2. /\ proc \in Owner /\ proc2 \in Owner /\ Owner \subseteq Nat \ {0} /\ NProc \in Nat
        /\ var \in Nat /\ \A p \in Owner : p <= NProc + 1 /\ p \in Nat
    BY VarAllocAssumption DEF AllocInv, TypeOK, Owner
  <1>3. ASSUME NEW p \in Owner, NEW v \in VarsOf(p), TakenOut(v)', HasAddress(v),
               NEW j \in 1..Len(heap)
        PROVE  Apart(At(v), heap[j])
    <2>1. /\ v[1] = p /\ v[2] \in 1..NVars(p) /\ NVars(p) \in Nat /\ Placed(v)
      BY <1>3, VariableFacts
    <2>2. ~Pending(v)
      BY <2>1 DEF SafeInv, UnplacedOK
    <2>3. v[1] < proc
      BY <1>1, <1>2, <2>1, <2>2 DEF Pending
    <2>4. Excludes(proc, v[1])' = Excludes(proc, v[1])
      BY <1>1, SameWorld DEF Excludes
    <2>5. phase = "remove" /\ Excludes(proc, v[1])
      BY <1>1, <1>2, <1>3, <2>1, <2>3, <2>4 DEF TakenOut
    <2>6. v[1] < proc2 \/ v[1] = proc2
      BY <1>1, <1>2, <1>3, <2>1, <2>3, <2>5 DEF TakenOut
    <2>7. TakenOut(v)
      BY <1>1, <1>2, <2>1, <2>5, <2>6 DEF TakenOut
    <2>8. ~StillRemoving(v, j)
      BY <1>1 DEF StillRemoving
    <2> QED BY <1>3, <2>7, <2>8 DEF SafeInv, HeapClear
  <1>4. HeapClear'
    BY <1>1, <1>3, SameWorld DEF HeapClear
  <1>5. ASSUME NEW p \in Owner, NEW v \in VarsOf(p), Pending(v)' PROVE Pending(v)
    BY <1>1, <1>2, <1>5 DEF Pending, VarsOf
  <1> QED BY <1>1, <1>4, <1>5, NothingPlaced DEF SafeInv

(* A range taken from one of the two heaps is clear of the variables of the *)
(* procedure and of those related to it, also of those that share an        *)
(* address object.                                                          *)
LEMMA RangeIsFree ==
    ASSUME AllocInv, SafeInv, phase = "alloc", NEW r \in Block,
           \A x \in Block : AllApart(x, heap) /\ AllApart(x, varHeap) => Apart(x, r),
           NEW p \in Owner, NEW w \in VarsOf(p), Placed(w),
           p = proc \/ Related(p, proc)
    PROVE  Apart(At(w), r)
  <1>1. ~removing.active /\ proc \in Owner
    BY DEF AllocInv, SafeInv, TypeOK
  <1>2. p = proc \/ Excludes(proc, p)
    <2>1. CASE p # proc
      <3>1. p \in Used \cup {Root}
        BY DEF SafeInv, UnplacedOK
      <3>2. ~Pending(w) /\ w[1] = p
        BY VariableFacts DEF SafeInv, UnplacedOK
      <3>3. p \in Nat /\ proc \in Nat /\ proc <= Root /\ Root \in Nat
        BY <1>1, VarAllocAssumption DEF Owner, Root
      <3>4. p < proc
        BY <2>1, <3>2, <3>3 DEF Pending
      <3>5. p # Root
        BY <3>3, <3>4
      <3> QED BY <2>1, <3>1, <3>5 DEF Excludes, Related
    <2> QED BY <2>1
  <1>3. ASSUME NEW v \in VarsOf(p), HasAddress(v) PROVE Apart(At(v), r)
    <2>1. At(v) \in Block /\ Placed(v) /\ v[1] = p
      BY <1>3, VariableFacts
    <2>2. TakenOut(v)
      BY <1>2, <2>1 DEF TakenOut
    <2>3. AllApart(At(v), heap)
      BY <1>1, <1>3, <2>2 DEF SafeInv, HeapClear, StillRemoving, AllApart
    <2>4. AllApart(At(v), varHeap)
      BY <2>1 DEF AllocInv, VarHeapUnused, AllApart
    <2> QED BY <2>1, <2>3, <2>4
  <1>4. CASE w \in aliased
    <2>1. PICK v \in VarsOf(p) : HasAddress(v) /\ At(v) = At(w)
      BY <1>4 DEF SafeInv, AliasOK
    <2> QED BY <1>3, <2>1
  <1>5. CASE w \notin aliased
    BY <1>3, <1>5, VariableFacts
  <1> QED BY <1>4, <1>5

(* What placing one variable does to addresses.                            *)
LEMMA OneAddress ==
    ASSUME AllocInv, NEW u \in Vars, NEW a \in Nat, UNCHANGED prog,
           adr' = [adr EXCEPT ![u] = a]
    PROVE  \A v \in Vars :
               /\ v = u => At(v)' = [adr |-> a, size |-> Size(u)] /\ Placed(v)'
               /\ v # u => At(v)' = At(v) /\ Placed(v)' = Placed(v) /\ adr'[v] = adr[v]
  <1>1. adr'[u] = a /\ \A v \in Vars : v # u => adr'[v] = adr[v]
    BY DEF AllocInv, TypeOK
  <1>2. \A v : Size(v)' = Size(v)
    BY SameWorld
  <1> QED BY <1>1, <1>2 DEF At, Placed, NoAdr

(* The variable AllocVariable comes to has no address yet, and once it has *)
(* one, the variables after it still have none.                            *)
LEMMA ComesToIt ==
    ASSUME AllocInv, SafeInv, phase = "alloc", var <= NVars(proc)
    PROVE  LET u == <<proc, var>>
           IN  /\ proc \in Owner /\ proc \in Used \cup {Root} /\ var \in 1..NVars(proc)
               /\ u \in VarsOf(proc) /\ u \in Vars /\ Size(u) \in Nat \ {0}
               /\ ~Placed(u) /\ u \notin aliased /\ ~removing.active
  <1> DEFINE u == <<proc, var>>
  <1>1. proc \in Owner /\ var \in 1..NVars(proc) /\ proc \in Used \cup {Root}
        /\ ~removing.active
    BY DEF AllocInv, SafeInv, TypeOK, NVars
  <1>2. u \in VarsOf(proc) /\ u \in Vars /\ Size(u) \in Nat \ {0}
    BY <1>1, VariableIsBlock
  <1>3. ~Placed(u)
    <2>1. u[1] = proc /\ u[2] = var
      OBVIOUS
    <2>2. Pending(u)
      BY <1>1, <2>1 DEF Pending
    <2> HIDE DEF u
    <2> QED BY <1>1, <1>2, <2>2 DEF SafeInv, UnplacedOK
  <1>4. u \notin aliased
    <2>1. \A w : At(w) = At(u) => adr[w] = adr[u]
      BY DEF At
    <2>2. \A w : HasAddress(w) => Placed(w)
      BY DEF HasAddress, Placed
    <2> HIDE DEF u
    <2> QED BY <1>1, <1>2, <1>3, <2>1, <2>2 DEF SafeInv, AliasOK, Placed
  <1> QED BY <1>1, <1>2, <1>3, <1>4

LEMMA GoesOn ==
    ASSUME AllocInv, SafeInv, phase = "alloc", var <= NVars(proc),
           UNCHANGED <<prog, phase, proc>>, var' = var + 1,
           NEW a \in Nat, adr' = [adr EXCEPT ![<<proc, var>>] = a]
    PROVE  UnplacedOK'
  <1> DEFINE u == <<proc, var>>
  <1>1. proc \in Owner /\ proc \in Used \cup {Root} /\ var \in 1..NVars(proc) /\ u \in Vars
    BY ComesToIt
  <1>2. \A v \in Vars : v # u => Placed(v)' = Placed(v)
    <2>1. adr' = [adr EXCEPT ![u] = a] /\ prog' = prog
      OBVIOUS
    <2> HIDE DEF u
    <2> QED BY <1>1, <2>1, OneAddress
  <1>3. \A p \in Owner : \A v \in VarsOf(p) :
            /\ v \in Vars /\ v[1] = p
            /\ Pending(v)' => Pending(v) /\ v # u
    <2>1. var \in Nat /\ proc \in Nat
      BY <1>1, VarAllocAssumption DEF AllocInv, TypeOK, Owner
    <2>2. \A p \in Owner : \A v \in VarsOf(p) :
              v \in Vars /\ v[1] = p /\ v[1] \in Nat /\ v[2] \in Nat
      BY VariableFacts, VarAllocAssumption DEF Owner
    <2> QED BY <2>1, <2>2 DEF Pending
  <1>4. \A p \in Owner : \A v \in VarsOf(p) : v = u => p = proc
    BY <1>3
  <1> HIDE DEF u
  <1>5. ASSUME NEW p \in Owner, NEW v \in VarsOf(p), Pending(v)' \/ p \notin Used \cup {Root}
        PROVE  ~Placed(v)'
    <2>1. v # u
      BY <1>1, <1>3, <1>4, <1>5
    <2>2. ~Placed(v)
      BY <1>3, <1>5 DEF SafeInv, UnplacedOK
    <2> QED BY <1>2, <1>3, <2>1, <2>2
  <1> QED BY <1>5, SameWorld DEF UnplacedOK

(* A variable with an address of its own: it gets a range that is clear of *)
(* what it must not share memory with, and that leaves the local heap.     *)
LEMMA PlacedKeeps ==
    ASSUME AllocInv, SafeInv, phase = "alloc", var <= NVars(proc),
           UNCHANGED <<prog, jumped, aliased, removing, phase, proc, proc2>>, var' = var + 1,
           NEW r \in Block, r.size = Size(<<proc, var>>),
           adr' = [adr EXCEPT ![<<proc, var>>] = r.adr],
           \A p \in Owner : \A w \in VarsOf(p) :
               Placed(w) /\ (p = proc \/ Related(p, proc)) => Apart(At(w), r),
           heap' \in Seq(Block), AllApart(r, heap'),
           \A x \in Block : AllApart(x, heap) => AllApart(x, heap')
    PROVE  SafeInv'
  <1> DEFINE u == <<proc, var>>
  <1>1. /\ proc \in Owner /\ proc \in Used \cup {Root} /\ u \in VarsOf(proc) /\ u \in Vars
        /\ ~Placed(u) /\ u \notin aliased /\ ~removing.active
    BY ComesToIt
  <1>2. r.adr \in Nat /\ r = [adr |-> r.adr, size |-> Size(u)]
    BY DEF Block
  <1>3. UnplacedOK'
    BY <1>2, GoesOn
  <1>4. \A v \in Vars : /\ v = u => At(v)' = r /\ Placed(v)'
                        /\ v # u => At(v)' = At(v) /\ Placed(v)' = Placed(v)
                                   /\ adr'[v] = adr[v]
    <2>1. u \in Vars /\ adr' = [adr EXCEPT ![u] = r.adr] /\ prog' = prog
      BY <1>1
    <2> HIDE DEF u
    <2>2. \A v \in Vars :
              /\ v = u => At(v)' = [adr |-> r.adr, size |-> Size(u)] /\ Placed(v)'
              /\ v # u => At(v)' = At(v) /\ Placed(v)' = Placed(v) /\ adr'[v] = adr[v]
      BY <1>2, <2>1, OneAddress
    <2> QED BY <1>2, <2>2
  <1>5. \A p \in Owner : \A v \in VarsOf(p) : v \in Vars /\ v[1] = p
    BY DEF VarsOf
  <1>6. \A p \in Owner : \A v \in VarsOf(p) : v # u =>
            HasAddress(v)' = HasAddress(v)
    BY <1>4, <1>5 DEF HasAddress
  <1>7. /\ \A p : VarsOf(p)' = VarsOf(p)
        /\ \A p, q : Related(p, q)' = Related(p, q) /\ Excludes(p, q)' = Excludes(p, q)
        /\ \A v : InBlock(v)' = InBlock(v)
        /\ Used' = Used
    BY SameWorld
  <1>8. \A p \in Owner : \A v \in VarsOf(p) : Placed(v) => At(v) \in Block
    BY VariableFacts
  <1> HIDE DEF u
  <1>9. AliasOK'
    <2>1. ASSUME NEW p \in Owner, NEW v \in VarsOf(p), v \in aliased
          PROVE  InBlock(v) /\ \E w \in VarsOf(p) : InBlock(w) /\ HasAddress(w)' /\ At(w)' = At(v)'
      <3>1. PICK w \in VarsOf(p) : InBlock(v) /\ InBlock(w) /\ HasAddress(w) /\ At(w) = At(v)
        BY <2>1 DEF SafeInv, AliasOK
      <3>2. v # u /\ w # u
        BY <1>1, <2>1, <3>1 DEF HasAddress, Placed
      <3> QED BY <1>4, <1>5, <1>6, <3>1, <3>2
    <2> QED BY <1>7, <2>1 DEF AliasOK
  <1>10. HeapClear'
    <2>1. ASSUME NEW p \in Owner, NEW v \in VarsOf(p), TakenOut(v)', HasAddress(v)'
          PROVE  AllApart(At(v)', heap')
      <3>1. CASE v = u
        <4>1. At(v)' = r
          BY <1>4, <1>5, <3>1
        <4> QED BY <4>1
      <3>2. CASE v # u
        <4>1. HasAddress(v) /\ At(v)' = At(v) /\ Placed(v)
          BY <1>4, <1>5, <1>6, <2>1, <3>2 DEF HasAddress, Placed
        <4>2. TakenOut(v)
          BY <1>7, <2>1 DEF TakenOut
        <4>3. AllApart(At(v), heap)
          BY <1>1, <4>1, <4>2 DEF SafeInv, HeapClear, StillRemoving, AllApart
        <4> QED BY <1>8, <4>1, <4>3
      <3> QED BY <3>1, <3>2
    <2> QED BY <1>7, <2>1 DEF HeapClear, AllApart
  <1>11. RelatedApart'
    <2>1. ASSUME NEW p \in Owner, NEW q \in Owner, p # q, Related(p, q),
                 NEW v \in VarsOf(p), NEW w \in VarsOf(q)
          PROVE  ~Overlap(v, w)'
      <3>1. ~Overlap(v, w)
        BY <2>1 DEF SafeInv, RelatedApart
      <3>2. v # w /\ Related(q, p)
        BY <1>5, <2>1 DEF Related
      <3>3. CASE v = u
        <4>1. p = proc /\ At(w)' = At(w) /\ Placed(w)' = Placed(w) /\ At(v)' = r
          BY <1>4, <1>5, <3>2, <3>3 DEF u
        <4>2. Placed(w) => Apart(At(w), r) /\ At(w) \in Block
          BY <1>8, <3>2, <4>1
        <4> QED BY <4>1, <4>2, ApartSymmetric DEF Overlap
      <3>4. CASE w = u
        <4>1. q = proc /\ At(v)' = At(v) /\ Placed(v)' = Placed(v) /\ At(w)' = r
          BY <1>4, <1>5, <3>2, <3>4 DEF u
        <4>2. Placed(v) => Apart(At(v), r)
          BY <2>1, <4>1
        <4> QED BY <4>1, <4>2 DEF Overlap
      <3>5. CASE v # u /\ w # u
        BY <1>4, <1>5, <3>1, <3>5 DEF Overlap
      <3> QED BY <3>3, <3>4, <3>5
    <2> QED BY <1>7, <2>1 DEF RelatedApart
  <1>12. OwnApart'
    <2>1. ASSUME NEW p \in Owner, NEW v \in VarsOf(p), NEW w \in VarsOf(p), v # w,
                 {v, w} \cap aliased = {}
          PROVE  ~Overlap(v, w)'
      <3>1. ~Overlap(v, w)
        BY <2>1 DEF SafeInv, OwnApart
      <3>2. CASE v = u
        <4>1. p = proc /\ At(w)' = At(w) /\ Placed(w)' = Placed(w) /\ At(v)' = r
          BY <1>4, <1>5, <2>1, <3>2 DEF u
        <4>2. Placed(w) => Apart(At(w), r) /\ At(w) \in Block
          BY <1>8, <4>1
        <4> QED BY <4>1, <4>2, ApartSymmetric DEF Overlap
      <3>3. CASE w = u
        <4>1. p = proc /\ At(v)' = At(v) /\ Placed(v)' = Placed(v) /\ At(w)' = r
          BY <1>4, <1>5, <2>1, <3>3 DEF u
        <4>2. Placed(v) => Apart(At(v), r)
          BY <4>1
        <4> QED BY <4>1, <4>2 DEF Overlap
      <3>4. CASE v # u /\ w # u
        BY <1>4, <1>5, <3>1, <3>4 DEF Overlap
      <3> QED BY <3>2, <3>3, <3>4
    <2> QED BY <1>7, <2>1 DEF OwnApart
  <1> QED BY <1>1, <1>3, <1>7, <1>9, <1>10, <1>11, <1>12 DEF SafeInv

(* A variable of a block that gets the address of another one of it.       *)
LEMMA AliasKeeps ==
    ASSUME AllocInv, SafeInv, phase = "alloc", var <= NVars(proc),
           UNCHANGED <<prog, jumped, removing, phase, proc, proc2, heap>>, var' = var + 1,
           NEW w \in VarsOf(proc), HasAddress(w), Size(w) = Size(<<proc, var>>),
           InBlock(w), InBlock(<<proc, var>>),
           adr' = [adr EXCEPT ![<<proc, var>>] = adr[w]],
           aliased' = aliased \cup {<<proc, var>>}
    PROVE  SafeInv'
  <1> DEFINE u == <<proc, var>>
  <1>1. /\ proc \in Owner /\ proc \in Used \cup {Root} /\ u \in VarsOf(proc) /\ u \in Vars
        /\ ~Placed(u) /\ ~removing.active
    BY ComesToIt
  <1>2. w \in Vars /\ Placed(w) /\ adr[w] \in Nat
    BY <1>1, VariableFacts DEF HasAddress, AllocInv, TypeOK
  <1>3. UnplacedOK'
    BY <1>2, GoesOn
  <1>4. \A v \in Vars : /\ v = u => At(v)' = At(w) /\ Placed(v)'
                        /\ v # u => At(v)' = At(v) /\ Placed(v)' = Placed(v)
                                   /\ adr'[v] = adr[v]
    <2>1. u \in Vars /\ adr' = [adr EXCEPT ![u] = adr[w]] /\ prog' = prog
      BY <1>1
    <2>2. At(w) = [adr |-> adr[w], size |-> Size(u)]
      BY DEF At
    <2> HIDE DEF u
    <2>3. \A v \in Vars :
              /\ v = u => At(v)' = [adr |-> adr[w], size |-> Size(u)] /\ Placed(v)'
              /\ v # u => At(v)' = At(v) /\ Placed(v)' = Placed(v) /\ adr'[v] = adr[v]
      BY <1>2, <2>1, OneAddress
    <2> QED BY <2>2, <2>3
  <1>5. \A p \in Owner : \A v \in VarsOf(p) : v \in Vars /\ v[1] = p
    BY DEF VarsOf
  <1>6. \A p \in Owner : \A v \in VarsOf(p) :
            HasAddress(v)' = (HasAddress(v) /\ v # u)
    <2>1. aliased' = aliased \cup {u}
      OBVIOUS
    <2>2. ~HasAddress(u)
      BY <1>1 DEF HasAddress, Placed
    <2> HIDE DEF u
    <2> QED BY <1>4, <1>5, <2>1, <2>2 DEF HasAddress
  <1>7. /\ \A p : VarsOf(p)' = VarsOf(p)
        /\ \A p, q : Related(p, q)' = Related(p, q) /\ Excludes(p, q)' = Excludes(p, q)
        /\ \A v : InBlock(v)' = InBlock(v)
        /\ Used' = Used
    BY SameWorld
  <1>8. w # u /\ InBlock(u) /\ aliased' = aliased \cup {u} /\ u[1] = proc
    BY <1>1, <1>2
  <1> HIDE DEF u
  <1>9. AliasOK'
    <2>1. ASSUME NEW p \in Owner, NEW v \in VarsOf(p), v \in aliased'
          PROVE  InBlock(v) /\ \E x \in VarsOf(p) : InBlock(x) /\ HasAddress(x)' /\ At(x)' = At(v)'
      <3>1. CASE v = u
        <4>1. p = proc /\ InBlock(v) /\ HasAddress(w)' /\ At(w)' = At(v)'
          BY <1>1, <1>2, <1>4, <1>5, <1>6, <1>8, <3>1
        <4> QED BY <4>1
      <3>2. CASE v # u
        <4>1. PICK x \in VarsOf(p) : InBlock(v) /\ InBlock(x) /\ HasAddress(x) /\ At(x) = At(v)
          BY <1>8, <2>1, <3>2 DEF SafeInv, AliasOK
        <4>2. x # u
          BY <1>1, <4>1 DEF HasAddress, Placed
        <4> QED BY <1>4, <1>5, <1>6, <3>2, <4>1, <4>2
      <3> QED BY <3>1, <3>2
    <2> QED BY <1>7, <2>1 DEF AliasOK
  <1>10. HeapClear'
    <2>1. ASSUME NEW p \in Owner, NEW v \in VarsOf(p), TakenOut(v)', HasAddress(v)'
          PROVE  AllApart(At(v)', heap)
      <3>1. HasAddress(v) /\ At(v)' = At(v)
        BY <1>4, <1>5, <1>6, <2>1
      <3>2. TakenOut(v)
        BY <1>7, <2>1 DEF TakenOut
      <3> QED BY <1>1, <3>1, <3>2 DEF SafeInv, HeapClear, StillRemoving, AllApart
    <2> QED BY <1>7, <2>1 DEF HeapClear, AllApart
  <1>11. RelatedApart'
    <2>1. ASSUME NEW p \in Owner, NEW q \in Owner, p # q, Related(p, q),
                 NEW v \in VarsOf(p), NEW x \in VarsOf(q)
          PROVE  ~Overlap(v, x)'
      <3>1. \A y \in VarsOf(p), z \in VarsOf(q) : ~Overlap(y, z)
        BY <2>1 DEF SafeInv, RelatedApart
      <3>2. CASE v = u
        <4>1. p = proc /\ x # u /\ At(x)' = At(x) /\ Placed(x)' = Placed(x) /\ At(v)' = At(w)
          BY <1>4, <1>5, <1>8, <2>1, <3>2
        <4> QED BY <1>2, <3>1, <4>1 DEF Overlap
      <3>3. CASE x = u
        <4>1. q = proc /\ v # u /\ At(v)' = At(v) /\ Placed(v)' = Placed(v) /\ At(x)' = At(w)
          BY <1>4, <1>5, <1>8, <2>1, <3>3
        <4> QED BY <1>2, <3>1, <4>1 DEF Overlap
      <3>4. CASE v # u /\ x # u
        BY <1>4, <1>5, <3>1, <3>4 DEF Overlap
      <3> QED BY <3>2, <3>3, <3>4
    <2> QED BY <1>7, <2>1 DEF RelatedApart
  <1>12. OwnApart'
    <2>1. ASSUME NEW p \in Owner, NEW v \in VarsOf(p), NEW x \in VarsOf(p), v # x,
                 {v, x} \cap aliased' = {}
          PROVE  ~Overlap(v, x)'
      <3>1. ~Overlap(v, x) /\ v # u /\ x # u
        BY <1>8, <2>1 DEF SafeInv, OwnApart
      <3> QED BY <1>4, <1>5, <3>1 DEF Overlap
    <2> QED BY <1>7, <2>1 DEF OwnApart
  <1> QED BY <1>1, <1>3, <1>7, <1>9, <1>10, <1>11, <1>12 DEF SafeInv

(* One variable: a lender's address, or room in one of the two heaps.      *)
LEMMA SafeAllocVariable ==
    AllocInv /\ SafeInv /\ AddedOnce /\ AllocVariable => SafeInv' /\ AddedOnce'
  <1> SUFFICES ASSUME AllocInv, SafeInv, AddedOnce, AllocVariable
               PROVE  SafeInv' /\ AddedOnce'
    OBVIOUS
  <1> DEFINE v == <<proc, var>>
             size == Size(v)
  <1>1. /\ proc \in Owner /\ v \in VarsOf(proc) /\ size \in Nat \ {0}
        /\ phase = "alloc" /\ var <= NVars(proc)
        /\ heap \in Seq(Block) /\ varHeap \in Seq(Block)
        /\ Disjoint(heap) /\ Disjoint(varHeap)
    BY ComesToIt DEF AllocVariable, AllocInv, TypeOK, AddedOnce
  <1>2. /\ UNCHANGED <<prog, jumped, removing, phase, proc, proc2>> /\ var' = var + 1
    BY DEF AllocVariable
  <1>3. CASE /\ Lenders(v) # {}
             /\ adr' = [adr EXCEPT ![v] = adr[Lender(v)]]
             /\ aliased' = aliased \cup {v}
             /\ UNCHANGED <<heap, varHeap>>
    <2> DEFINE k == FirstOf(Lenders(v))
               w == <<proc, k>>
    <2>1. k \in Lenders(v)
      <3>1. Lenders(v) \subseteq Nat
        BY DEF Lenders
      <3> QED BY <1>3, <3>1, FirstOfIn
    <2> HIDE DEF k
    <2>2. k \in 1..NVars(proc) /\ HasAddress(w) /\ Size(w) = size /\ InBlock(w) /\ InBlock(v)
      BY <2>1 DEF Lenders
    <2>3. w \in VarsOf(proc)
      BY <1>1, <2>2, VariableIsBlock
    <2>4. Lender(v) = w
      BY DEF Lender, k
    <2>5. adr' = [adr EXCEPT ![v] = adr[w]]
      BY <1>3, <2>4
    <2> HIDE DEF w
    <2>6. SafeInv'
      BY <1>1, <1>2, <1>3, <2>2, <2>3, <2>5, AliasKeeps
    <2> QED BY <1>3, <2>6 DEF AddedOnce
  <1>4. CASE /\ Fits(heap, size) # {}
             /\ adr' = [adr EXCEPT ![v] = Room(heap, size)]
             /\ heap' = Take(heap, size)
             /\ UNCHANGED <<aliased, varHeap>>
    <2> DEFINE r == [adr |-> Room(heap, size), size |-> size]
    <2>1. /\ r \in Block /\ heap' \in Seq(Block) /\ Disjoint(heap') /\ AllApart(r, heap')
          /\ \A x \in Block : AllApart(x, heap) => AllApart(x, heap') /\ Apart(x, r)
      BY <1>1, <1>4, TakeFacts
    <2>2. r.size = Size(<<proc, var>>) /\ adr' = [adr EXCEPT ![<<proc, var>>] = r.adr]
      BY <1>4
    <2> HIDE DEF r, v, size
    <2>3. \A p \in Owner : \A w \in VarsOf(p) :
              Placed(w) /\ (p = proc \/ Related(p, proc)) => Apart(At(w), r)
      BY <1>1, <2>1, RangeIsFree
    <2>4. SafeInv'
      BY <1>1, <1>2, <1>4, <2>1, <2>2, <2>3, PlacedKeeps
    <2> QED BY <2>1, <2>4 DEF AddedOnce
  <1>5. CASE /\ Fits(varHeap, size) # {}
             /\ adr' = [adr EXCEPT ![v] = Room(varHeap, size)]
             /\ varHeap' = Take(varHeap, size)
             /\ UNCHANGED <<aliased, heap>>
    <2> DEFINE r == [adr |-> Room(varHeap, size), size |-> size]
    <2>1. r \in Block /\ \A x \in Block : AllApart(x, varHeap) => Apart(x, r)
      BY <1>1, <1>5, TakeFacts
    <2>2. r.size = Size(<<proc, var>>) /\ adr' = [adr EXCEPT ![<<proc, var>>] = r.adr]
      BY <1>5
    <2> HIDE DEF r, v, size
    <2>3. \A p \in Owner : \A w \in VarsOf(p) :
              Placed(w) /\ (p = proc \/ Related(p, proc)) => Apart(At(w), r)
      BY <1>1, <2>1, RangeIsFree
    <2>4. \A j \in 1..Len(heap) : heap[j] \in Block /\ AllApart(heap[j], varHeap)
      BY <1>1, SeqIsFunction DEF AllocInv, VarHeapUnused, AllApart
    <2>5. AllApart(r, heap)
      BY <2>1, <2>4, ApartSymmetric DEF AllApart
    <2>6. SafeInv'
      BY <1>1, <1>2, <1>5, <2>1, <2>2, <2>3, <2>5, PlacedKeeps
    <2> QED BY <1>5, <2>6 DEF AddedOnce
  <1>6. CASE UNCHANGED <<adr, aliased, heap, varHeap>>
    <2>1. ~removing.active
      BY <1>1 DEF SafeInv
    <2>2. \A x : TakenOut(x)' = TakenOut(x)
      BY <1>1, <1>2, SameWorld DEF TakenOut
    <2>3. HeapClear'
      BY <1>2, <1>6, <2>1, <2>2, SameWorld DEF SafeInv, HeapClear, StillRemoving
    <2>4. ASSUME NEW p \in Owner, NEW x \in VarsOf(p), Pending(x)' PROVE Pending(x)
      <3>1. x[2] \in Nat /\ var \in Nat
        BY VariableFacts DEF AllocInv, TypeOK
      <3> QED BY <1>1, <1>2, <2>4, <3>1 DEF Pending
    <2>5. SafeInv'
      BY <1>1, <1>2, <1>6, <2>1, <2>3, <2>4, NothingPlaced DEF SafeInv
    <2> QED BY <1>6, <2>5 DEF AddedOnce
  <1> QED BY <1>3, <1>4, <1>5, <1>6 DEF AllocVariable

(* Every step, when what it adds to the local heap was not there.          *)
LEMMA SafeNext == AllocInv /\ SafeInv /\ AddedOnce /\ [Next]_vars => SafeInv'
  <1> SUFFICES ASSUME AllocInv, SafeInv, AddedOnce, [Next]_vars PROVE SafeInv'
    OBVIOUS
  <1>1. CASE UNCHANGED vars
    <2>1. UNCHANGED <<prog, jumped, adr, aliased, heap, removing, phase, proc, proc2, var>>
      BY <1>1 DEF vars
    <2>2. \A x : TakenOut(x)' = TakenOut(x) /\ Pending(x)' = Pending(x)
      BY <2>1, SameWorld DEF TakenOut, Pending
    <2>3. \A x, j : StillRemoving(x, j)' = StillRemoving(x, j)
      BY <2>1, SameWorld DEF StillRemoving
    <2>4. HeapClear'
      BY <2>1, <2>2, <2>3, SameWorld DEF SafeInv, HeapClear
    <2> QED BY <2>1, <2>2, <2>4, NothingPlaced DEF SafeInv
  <1> QED BY <1>1, SafeBeforeRemoval, SafeRemoveVariable, SafeRemoveTurn, SafeRemoveDone,
             SafeNextProc2, SafeAllocVariable DEF Next, Done

-----------------------------------------------------------------------------
(***************************************************************************)
(* And no byte is in the local heap twice when of any three procedures two *)
(* are related by calls.                                                   *)
(***************************************************************************)
\* The variable has been added to the local heap.
Added(w) ==
    /\ Reuses(proc, w[1])
    /\ w[1] < proc2 \/ (w[1] = proc2 /\ w[2] < var)

\* While it is made, the local heap holds no more than the variables added.
HeapMade ==
    /\ phase = "jumps" \/ (phase = "add" /\ proc \notin Used \cup {Root}) => heap = <<>>
    /\ phase = "add" => \A x \in Block :
           (\A p \in Owner : \A w \in VarsOf(p) :
                Added(w) /\ HasAddress(w) => Apart(x, At(w)))
           => AllApart(x, heap)

\* The premise that of any three procedures two are related by calls, once calls are jumps.
ThreeHold == phase # "jumps" => NoThreeUnrelated

LEMMA MadeEmpty == heap' = <<>> => HeapMade' /\ AddedOnce'
  <1>1. Len(<<>>) = 0
    OBVIOUS
  <1> QED BY <1>1 DEF HeapMade, AddedOnce, AllApart, Disjoint

LEMMA MadeAddVariable ==
    AllocInv /\ SafeInv /\ HeapMade /\ AddedOnce /\ ThreeHold /\ AddVariable
        => HeapMade' /\ AddedOnce'
  <1> SUFFICES ASSUME AllocInv, SafeInv, HeapMade, AddedOnce, ThreeHold, AddVariable
               PROVE  HeapMade' /\ AddedOnce'
    OBVIOUS
  <1> DEFINE u == <<proc2, var>>
  <1>1. /\ proc2 \in Owner /\ var \in 1..NVars(proc2) /\ var \in Nat /\ heap \in Seq(Block)
        /\ phase = "add" /\ proc \in Used \cup {Root} /\ Reuses(proc, proc2)
        /\ Disjoint(heap)
    BY DEF AllocInv, AddVariable, TypeOK, NVars, AddedOnce
  <1>2. u \in VarsOf(proc2) /\ u[1] = proc2 /\ u[2] = var
    BY <1>1, VariableIsBlock
  <1>3. HasAddress(u) => Placed(u) /\ u \notin aliased /\ At(u) \in Block
    BY <1>1, <1>2, VariableFacts
  <1>4. heap' = IF HasAddress(u) THEN HeapAddBlock(heap, At(u).adr, At(u).size)
                                 ELSE heap
    BY DEF AddVariable, At
  <1>5. UNCHANGED <<prog, jumped, adr, aliased, phase, proc, proc2>> /\ var' = var + 1
    BY DEF AddVariable
  <1> HIDE DEF u
  <1>6. ASSUME HasAddress(u), NEW p \in Owner, NEW w \in VarsOf(p), Added(w), HasAddress(w)
        PROVE  Apart(At(u), At(w))
    <2>1. w[1] = p /\ Placed(w) /\ w \notin aliased
      BY <1>6, VariableFacts
    <2>2. CASE p = proc2
      <3>1. w # u
        BY <1>1, <1>2, <1>6, <2>1, <2>2 DEF Added, AllocInv, TypeOK, Owner
      <3> QED BY <1>1, <1>2, <1>3, <1>6, <2>1, <2>2, <3>1 DEF SafeInv, OwnApart, Overlap
    <2>3. CASE p # proc2
      <3>1. /\ p \in Used /\ p # proc /\ ~Related(proc, p)
            /\ proc2 \in Used /\ proc2 # proc /\ ~Related(proc, proc2)
        BY <1>1, <1>6, <2>1 DEF Added, Reuses
      <3>2. Related(proc2, p)
        BY <1>1, <2>3, <3>1 DEF ThreeHold, NoThreeUnrelated, Related
      <3>3. ~Overlap(u, w)
        BY <1>1, <1>2, <2>3, <3>2 DEF SafeInv, RelatedApart
      <3> QED BY <1>3, <1>6, <2>1, <3>3 DEF Overlap
    <2> QED BY <2>2, <2>3
  <1>7. HasAddress(u) => AllApart(At(u), heap)
    BY <1>1, <1>3, <1>6 DEF HeapMade
  <1>8. heap' \in Seq(Block) /\ Disjoint(heap')
    BY <1>1, <1>3, <1>4, <1>7, AddBlock
  <1>9. ASSUME NEW x \in Block,
               \A p \in Owner : \A w \in VarsOf(p) :
                   Added(w)' /\ HasAddress(w) => Apart(x, At(w))
        PROVE  AllApart(x, heap')
    <2>1. ASSUME NEW p \in Owner, NEW w \in VarsOf(p), Added(w) PROVE Added(w)'
      <3>1. w[2] \in Nat
        BY VariableFacts
      <3> QED BY <1>1, <1>5, <2>1, <3>1, SameWorld DEF Added
    <2>2. AllApart(x, heap)
      BY <1>1, <1>9, <2>1 DEF HeapMade
    <2>3. ASSUME NEW w \in VarsOf(proc2), w = u PROVE Added(w)'
      <3>1. w[1] = proc2 /\ w[2] = var
        BY <1>2, <2>3
      <3>2. Reuses(proc, w[1])' = Reuses(proc, w[1])
        BY <1>5, SameWorld DEF Reuses
      <3> QED BY <1>1, <1>5, <3>1, <3>2 DEF Added
    <2>4. HasAddress(u) => Apart(x, At(u))
      BY <1>1, <1>2, <1>9, <2>3
    <2> QED BY <1>1, <1>3, <1>4, <2>2, <2>4, AddBlock
  <1>10. HeapMade'
    <2>1. ~ (phase' = "jumps" \/ (phase' = "add" /\ proc' \notin Used' \cup {Root}))
      BY <1>1, <1>5, SameWorld
    <2> QED BY <1>5, <1>9, <2>1, SameWorld DEF HeapMade
  <1> QED BY <1>8, <1>10 DEF AddedOnce

LEMMA MadeNextProc2 ==
    AllocInv /\ HeapMade /\ AddedOnce /\ NextProc2 => HeapMade' /\ AddedOnce'
  <1> SUFFICES ASSUME AllocInv, HeapMade, AddedOnce, NextProc2 PROVE HeapMade' /\ AddedOnce'
    OBVIOUS
  <1>1. /\ UNCHANGED <<prog, jumped, adr, aliased, heap, proc>>
        /\ phase = "remove" \/ (phase = "add" /\ proc \in Used \cup {Root})
        /\ proc2' = IF proc2 < NProc THEN proc2 + 1 ELSE 1
        /\ phase' = IF proc2 < NProc THEN phase
                    ELSE IF phase = "add" THEN "remove" ELSE "alloc"
    BY DEF NextProc2
  <1>2. AddedOnce'
    BY <1>1 DEF AddedOnce
  <1>3. CASE phase' = "add"
    <2>1. phase = "add" /\ proc \in Used \cup {Root} /\ proc2' = proc2 + 1
      BY <1>1, <1>3
    <2>2. ASSUME NEW p \in Owner, NEW w \in VarsOf(p), Added(w) PROVE Added(w)'
      <3>1. w[1] \in Nat /\ proc2 \in Nat /\ w[1] < proc2 + 1
        <4>1. w[1] = p /\ p \in Nat /\ proc2 \in Nat
          BY VariableFacts, VarAllocAssumption DEF AllocInv, TypeOK, Owner
        <4> QED BY <2>2, <4>1 DEF Added
      <3>2. Reuses(proc, w[1])'
        BY <1>1, <2>2, SameWorld DEF Added
      <3> QED BY <2>1, <3>1, <3>2 DEF Added
    <2>3. HeapMade'
      BY <1>1, <2>1, <2>2, SameWorld DEF HeapMade
    <2> QED BY <1>2, <2>3
  <1>4. CASE phase' # "add"
    BY <1>1, <1>2, <1>4 DEF HeapMade
  <1> QED BY <1>3, <1>4

LEMMA MadeNext ==
    AllocInv /\ SafeInv /\ HeapMade /\ AddedOnce /\ ThreeHold /\ [Next]_vars
        => HeapMade' /\ AddedOnce'
  <1> SUFFICES ASSUME AllocInv, SafeInv, HeapMade, AddedOnce, ThreeHold, [Next]_vars
               PROVE  HeapMade' /\ AddedOnce'
    OBVIOUS
  <1>1. CASE OptimizeJumps
    BY <1>1, MadeEmpty DEF OptimizeJumps, HeapMade
  <1>2. CASE SkipUnused
    BY <1>2, MadeEmpty DEF SkipUnused, HeapMade
  <1>3. CASE RemoveVariable \/ RemoveDone
    <2>1. phase' = "remove" /\ UNCHANGED heap
      BY <1>3 DEF RemoveVariable, RemoveDone, SafeInv
    <2> QED BY <2>1 DEF HeapMade, AddedOnce
  <1>4. CASE RemoveTurn
    <2>1. phase' = "remove"
      BY <1>4 DEF RemoveTurn, SafeInv
    <2> QED BY <1>4, <2>1, SafeRemoveTurn DEF HeapMade
  <1>5. CASE AllocVariable
    <2>1. phase' = "alloc"
      BY <1>5 DEF AllocVariable
    <2> QED BY <1>5, <2>1, SafeAllocVariable DEF HeapMade
  <1>6. CASE NextProc
    BY <1>6, MadeEmpty DEF NextProc
  <1>7. CASE UNCHANGED vars
    <2>1. UNCHANGED <<prog, jumped, adr, aliased, heap, phase, proc, proc2, var>>
      BY <1>7 DEF vars
    <2>2. \A w : Added(w)' = Added(w)
      BY <2>1, SameWorld DEF Added
    <2> QED BY <2>1, <2>2, SameWorld DEF HeapMade, AddedOnce
  <1> QED BY <1>1, <1>2, <1>3, <1>4, <1>5, <1>6, <1>7, MadeAddVariable, MadeNextProc2
          DEF Next, Done

-----------------------------------------------------------------------------
(* What SafeInv says of the variables of one scope, and of those of a      *)
(* procedure and what it calls.                                            *)
LEMMA SafeLocals == AllocInv /\ SafeInv => LocalsApart
  <1> SUFFICES ASSUME AllocInv, SafeInv,
                      NEW p \in Owner, NEW v \in VarsOf(p), NEW w \in VarsOf(p),
                      v # w, v[2] <= prog.own[p]
               PROVE  ~Overlap(v, w)
    BY DEF LocalsApart
  <1>1. ~InBlock(v)
    BY VariableFacts DEF InBlock
  <1>2. v \notin aliased
    BY <1>1 DEF SafeInv, AliasOK
  <1>3. CASE w \in aliased
    <2>1. PICK x \in VarsOf(p) : InBlock(x) /\ HasAddress(x) /\ At(x) = At(w)
      BY <1>3 DEF SafeInv, AliasOK
    <2>2. x # v /\ x \notin aliased /\ Placed(x)
      BY <1>1, <2>1 DEF HasAddress, Placed
    <2>3. ~Overlap(v, x)
      BY <1>2, <2>2 DEF SafeInv, OwnApart
    <2> QED BY <2>1, <2>2, <2>3 DEF Overlap
  <1>4. CASE w \notin aliased
    BY <1>2, <1>4 DEF SafeInv, OwnApart
  <1> QED BY <1>3, <1>4

LEMMA SafeCallers == AllocInv /\ SafeInv /\ jumped = {} => CallersKeepVariables
  <1> SUFFICES ASSUME AllocInv, SafeInv, jumped = {},
                      NEW p \in Owner, NEW q \in Proc, p # q, NeedsBoth(p, q),
                      NEW v \in VarsOf(p), NEW w \in VarsOf(q)
               PROVE  ~Overlap(v, w)
    BY DEF CallersKeepVariables
  <1>1. q \in Owner
    BY VarAllocAssumption DEF Proc, Owner
  <1>2. Related(p, q)
    BY NeedsAreCalls
  <1>3. CASE phase = "jumps"
    <2>1. ~Placed(v)
      BY <1>3 DEF SafeInv, UnplacedOK, Pending
    <2> QED BY <2>1 DEF Overlap
  <1>4. CASE phase # "jumps"
    BY <1>1, <1>2, <1>4 DEF SafeInv, RelatedApart
  <1> QED BY <1>3, <1>4

\* No call was made a jump, and none will be.
NoJumps == jumped = {} /\ NoTailCall

LEMMA NoJumpsKept == AllocInv /\ NoJumps /\ [Next]_vars => NoJumps'
  <1> SUFFICES ASSUME AllocInv, NoJumps, [Next]_vars PROVE NoJumps'
    OBVIOUS
  <1>1. prog' = prog /\ (jumped' = jumped \/ OptimizeJumps)
    BY DEF Next, Done, vars, OptimizeJumps, SkipUnused, AddVariable, RemoveVariable,
           RemoveTurn, RemoveDone, NextProc2, AllocVariable, NextProc
  <1>2. \A p : TailCall(p)' = TailCall(p)
    BY <1>1, SameWorld DEF TailCall
  <1>3. jumped' = {}
    BY <1>1 DEF NoJumps, NoTailCall, OptimizeJumps, AllocInv, TypeOK
  <1> QED BY <1>2, <1>3 DEF NoJumps, NoTailCall

(* Two variables of one scope never share memory, in whatever program,     *)
(* while AllocateVariables never has a byte in its local heap twice.       *)
THEOREM ScopesStayApart == Spec /\ []AddedOnce => []LocalsApart
  <1>1. Init => AllocInv /\ SafeInv
    BY AllocInvInit, SafeInit
  <1>2. AllocInv /\ SafeInv /\ AddedOnce /\ [Next]_vars => (AllocInv /\ SafeInv)'
    BY AllocInvNext, SafeNext
  <1>3. AllocInv /\ SafeInv => LocalsApart
    BY SafeLocals
  <1> QED BY <1>1, <1>2, <1>3, PTL DEF Spec

(* A procedure shares no memory with what it calls at any depth, when no   *)
(* call was made a jump and no byte is in the local heap twice.            *)
THEOREM CallersStayApart == Spec /\ NoTailCall /\ []AddedOnce => []CallersKeepVariables
  <1>1. Init /\ NoTailCall => AllocInv /\ SafeInv /\ NoJumps
    BY AllocInvInit, SafeInit DEF Init, NoJumps
  <1>2. AllocInv /\ SafeInv /\ NoJumps /\ AddedOnce /\ [Next]_vars
            => (AllocInv /\ SafeInv /\ NoJumps)'
    BY AllocInvNext, SafeNext, NoJumpsKept
  <1>3. AllocInv /\ SafeInv /\ NoJumps => CallersKeepVariables
    BY SafeCallers DEF NoJumps
  <1> QED BY <1>1, <1>2, <1>3, PTL DEF Spec

(* Also where calls were made jumps: the calls AllocateVariables sees are  *)
(* between procedures that share no memory.                                *)
THEOREM RelatedStayApart == Spec /\ []AddedOnce => []RelatedApart
  <1>1. Init => AllocInv /\ SafeInv
    BY AllocInvInit, SafeInit
  <1>2. AllocInv /\ SafeInv /\ AddedOnce /\ [Next]_vars => (AllocInv /\ SafeInv)'
    BY AllocInvNext, SafeNext
  <1>3. AllocInv /\ SafeInv => RelatedApart
    BY DEF SafeInv
  <1> QED BY <1>1, <1>2, <1>3, PTL DEF Spec

(* No byte comes into the local heap twice when of any three procedures,   *)
(* the root one included, two are related by calls.                        *)
THEOREM HeapAddedOnce == Spec /\ []ThreeHold => []AddedOnce
  <1> DEFINE I == AllocInv /\ SafeInv /\ HeapMade /\ AddedOnce
  <1>1. Init => I
    <2>1. ASSUME Init PROVE HeapMade /\ AddedOnce
      <3>1. heap = <<>> /\ Len(<<>>) = 0
        BY <2>1 DEF Init
      <3> QED BY <3>1 DEF HeapMade, AddedOnce, AllApart, Disjoint
    <2> QED BY <2>1, AllocInvInit, SafeInit
  <1>2. I /\ ThreeHold /\ [Next]_vars => I'
    BY AllocInvNext, SafeNext, MadeNext
  <1>3. I => AddedOnce
    OBVIOUS
  <1> HIDE DEF I
  <1> QED BY <1>1, <1>2, <1>3, PTL DEF Spec

(* So in those programs the variables of a scope, and those of a procedure *)
(* and what it calls, never share memory.                                  *)
THEOREM PlacingIsSafe ==
    /\ Spec /\ []ThreeHold => []LocalsApart
    /\ Spec /\ []ThreeHold /\ NoTailCall => []CallersKeepVariables
  BY HeapAddedOnce, ScopesStayApart, CallersStayApart, PTL

=============================================================================
