--------------------------- MODULE FlowGraphProofs ---------------------------
(***************************************************************************)
(* The graph stays in order through every pass, for every procedure that   *)
(* can be compiled: the type invariant, and that a label some block jumps  *)
(* to is the label of exactly one block of the chain.                      *)
(*                                                                         *)
(* The invariant (GraphInv) says of the graph that a jump to another block *)
(* is the last instruction of its block and that label->instr names the    *)
(* block that has the label (GraphOK); of the edges, which go stale while  *)
(* the code is rewritten, that in the passes that follow them they lead to *)
(* blocks (EdgesOK) and, while dead blocks are removed, that every block   *)
(* that jumps to another one is still among its callers (CallersOK); and   *)
(* of the passes to do, that one that uses the edges comes right after     *)
(* LinkBlocks (RestOK).  That a jump ends its block is what lets a pass    *)
(* remove a block after a look at the last instructions only, that edges   *)
(* lead to blocks is what lets a pass rewrite the block they name, and     *)
(* that callers are complete is what makes a block without them dead.      *)
(***************************************************************************)
EXTENDS FlowGraph, FiniteSetTheorems, NumberProofs

-----------------------------------------------------------------------------
\* The labels of the procedure.
Own == Labels(source.code)

\* An instruction the passes may meet; a jump to another block of the procedure.
IsInstr(i) == /\ i = Instr(i.op, i.arg, i.to) /\ i.op # "void"
              /\ i.op = "call" => i.to \in Procs
              /\ i.op \in Jumps => i.to \in Procs \cup Own \cup {source.entry}
LabelJump(i) == i.op \in Jumps /\ i.to \in Own

\* The label is that of the block label->instr names.
Placed(g, l) == l \in DOMAIN g.instr /\ g.instr[l] \in Blocks(g) /\ g.label[g.instr[l]] = l

\* The code of a block: a jump to another block is its last instruction.
CodeOK(g, c) ==
    /\ \E S : c \in Seq(S)
    /\ \A k \in 1..Len(c) : IsInstr(c[k])
    /\ \A k \in 1..Len(c) : LabelJump(c[k]) => k = Len(c) /\ Placed(g, c[k].to)

ChainOK(g) == g.chain \in Seq(Nat \ {NoBlock}) /\ g.chain # <<>> /\ IsInjective(g.chain)

GraphFields == {"chain", "code", "label", "instr"}

\* The graph between two steps of the passes.
GraphOK(g) ==
    /\ DOMAIN g = GraphFields
    /\ ChainOK(g)
    /\ Blocks(g) \subseteq DOMAIN g.code /\ DOMAIN g.label = DOMAIN g.code
    /\ \A b \in Blocks(g) : CodeOK(g, g.code[b])
    /\ \A b \in Blocks(g) : g.label[b] # NoLabel =>
          g.label[b] \in Own \cap DOMAIN g.instr /\ g.instr[g.label[b]] = b

\* The edges in link lead to blocks.
EdgesOK(g, e) ==
    \A b \in Blocks(g) : /\ b \in DOMAIN e /\ {"to", "condTo", "from", "callers"} = DOMAIN e[b]
                         /\ {e[b].to, e[b].condTo, e[b].from} \subseteq Blocks(g) \cup {NoBlock}
                         /\ e[b].callers \subseteq Blocks(g)

\* Every block that jumps to b is one of its callers.
CallersOK(g, e) ==
    \A b \in Blocks(g), d \in Blocks(g) : JumpsTo(g, d) = b => d \in e[b].callers

\* What the assumption says of the labels of the procedure.
SourceOK == /\ Own \subseteq Nat \ {NoLabel} /\ Own \cap Procs = {}
            /\ source.entry \in Nat \ Own /\ Procs \cap Nat = {}

-----------------------------------------------------------------------------
(* A nonempty set of positions has a greatest element.                     *)
LEMMA LastOfIn ==
    ASSUME NEW n \in Nat, NEW I, I \subseteq 1..n, I # {}
    PROVE  LastOf(I) \in I /\ \A j \in I : j <= LastOf(I)
  <1> DEFINE J == {n - i : i \in I}
  <1>1. J \subseteq Nat /\ J # {}
    <2>1. \A i \in I : i \in Nat /\ i <= n
      OBVIOUS
    <2>2. \A i \in I : n - i \in Nat
      BY <2>1
    <2> QED BY <2>2
  <1>2. PICK m \in J : \A k \in J : m <= k
    <2> HIDE DEF J
    <2> QED BY <1>1, NatMinimum
  <1>3. PICK i \in I : m = n - i
    OBVIOUS
  <1>4. \A j \in I : j <= i
    <2> SUFFICES ASSUME NEW j \in I PROVE j <= i
      OBVIOUS
    <2>1. n - j \in J
      OBVIOUS
    <2>2. n - i <= n - j
      BY <1>2, <1>3, <2>1
    <2> QED BY <2>2
  <1> QED BY <1>4 DEF LastOf

(* A sequence after another one.                                           *)
LEMMA JoinShape ==
    ASSUME NEW S, NEW a \in Seq(S), NEW b \in Seq(S)
    PROVE  /\ a \o b \in Seq(S) /\ Len(a \o b) = Len(a) + Len(b)
           /\ Len(a) \in Nat /\ Len(b) \in Nat
           /\ \A k \in 1..Len(a \o b) : (a \o b)[k] = IF k <= Len(a) THEN a[k] ELSE b[k - Len(a)]
  OBVIOUS

(* A sequence without one of its elements.                                 *)
LEMMA RemoveAtShape ==
    ASSUME NEW S, NEW s \in Seq(S), NEW p \in 1..Len(s)
    PROVE  LET r == RemoveAt(s, p) IN
           /\ r \in Seq(S) /\ Len(s) \in Nat /\ Len(r) = Len(s) - 1
           /\ \A k \in 1..Len(r) : r[k] = IF k < p THEN s[k] ELSE s[k + 1]
  <1> DEFINE a == SubSeq(s, 1, p - 1)
             b == SubSeq(s, p + 1, Len(s))
             r == a \o b
  <1>1. Len(s) \in Nat /\ p \in Nat
    OBVIOUS
  <1>2. a \in Seq(S) /\ Len(a) = p - 1 /\ \A k \in 1..(p - 1) : a[k] = s[k]
    OBVIOUS
  <1>3. b \in Seq(S) /\ Len(b) = Len(s) - p /\ \A k \in 1..(Len(s) - p) : b[k] = s[p + k]
    OBVIOUS
  <1> HIDE DEF a, b
  <1>4. /\ r \in Seq(S) /\ Len(r) = Len(a) + Len(b)
        /\ \A k \in 1..Len(r) : r[k] = IF k <= Len(a) THEN a[k] ELSE b[k - Len(a)]
    BY <1>2, <1>3, JoinShape
  <1> HIDE DEF r
  <1>6. Len(r) = Len(s) - 1
    BY <1>1, <1>2, <1>3, <1>4
  <1>5. ASSUME NEW k \in 1..Len(r) PROVE r[k] = IF k < p THEN s[k] ELSE s[k + 1]
    <2>1. CASE k < p
      BY <1>2, <1>4, <1>6, <2>1
    <2>2. CASE ~ (k < p)
      <3>1. k - (p - 1) \in 1..(Len(s) - p) /\ p + (k - (p - 1)) = k + 1
        BY <1>1, <1>6, <2>2
      <3>2. r[k] = b[k - (p - 1)]
        <4>1. Len(a) = p - 1 /\ ~ (k <= p - 1)
          BY <1>1, <1>2, <1>6, <2>2
        <4> QED BY <1>4, <4>1
      <3> QED BY <1>3, <2>2, <3>1, <3>2
    <2> QED BY <2>1, <2>2
  <1> QED BY <1>1, <1>4, <1>6, <1>5 DEF RemoveAt, r, a, b

-----------------------------------------------------------------------------
(* Code without one of its instructions, ...                               *)
LEMMA CodeRemove ==
    ASSUME NEW g, NEW c, CodeOK(g, c), NEW p \in 1..Len(c)
    PROVE  CodeOK(g, RemoveAt(c, p))
  <1>1. PICK S : c \in Seq(S)
    BY DEF CodeOK
  <1> DEFINE r == RemoveAt(c, p)
  <1>2. /\ r \in Seq(S) /\ Len(c) \in Nat /\ Len(r) = Len(c) - 1
        /\ \A k \in 1..Len(r) : r[k] = IF k < p THEN c[k] ELSE c[k + 1]
    BY <1>1, RemoveAtShape
  <1> HIDE DEF r
  <1>3. ASSUME NEW k \in 1..Len(r)
        PROVE  IsInstr(r[k]) /\ (LabelJump(r[k]) => k = Len(r) /\ Placed(g, r[k].to))
    <2>1. PICK j \in {k, k + 1} : j \in 1..Len(c) /\ r[k] = c[j] /\ (j = Len(c) => j = k + 1)
      <3>1. k \in 1..Len(c) /\ k + 1 \in 1..Len(c) /\ k # Len(c)
        BY <1>2
      <3> QED BY <1>2, <3>1
    <2>2. IsInstr(r[k]) /\ (LabelJump(r[k]) => j = Len(c) /\ Placed(g, r[k].to))
      BY <2>1 DEF CodeOK
    <2>3. j = Len(c) => k = Len(r)
      BY <1>2, <2>1
    <2> QED BY <2>2, <2>3
  <1> QED BY <1>2, <1>3 DEF CodeOK, r

(* ... with another one, which leaves the block at its end if at all, ...  *)
LEMMA CodeReplace ==
    ASSUME NEW g, NEW c, CodeOK(g, c), NEW p \in 1..Len(c), NEW i, IsInstr(i),
           LabelJump(i) => p = Len(c) /\ Placed(g, i.to)
    PROVE  CodeOK(g, [c EXCEPT ![p] = i])
  <1>1. PICK S : c \in Seq(S)
    BY DEF CodeOK
  <1> DEFINE r == [c EXCEPT ![p] = i]
  <1>2. r \in Seq(S \cup {i}) /\ Len(r) = Len(c)
    <2>1. c \in Seq(S \cup {i})
      BY <1>1
    <2> QED BY <2>1
  <1>3. \A k \in 1..Len(r) : r[k] = IF k = p THEN i ELSE c[k]
    <2>1. DOMAIN c = 1..Len(c) /\ DOMAIN r = DOMAIN c
      BY <1>1
    <2> QED BY <1>2, <2>1
  <1> HIDE DEF r
  <1>4. ASSUME NEW k \in 1..Len(r)
        PROVE  IsInstr(r[k]) /\ (LabelJump(r[k]) => k = Len(r) /\ Placed(g, r[k].to))
    BY <1>2, <1>3 DEF CodeOK
  <1> QED BY <1>2, <1>4 DEF CodeOK, r

(* ... with one before it, ...                                             *)
LEMMA CodePrepend ==
    ASSUME NEW g, NEW c, CodeOK(g, c), NEW i, IsInstr(i), ~ LabelJump(i)
    PROVE  CodeOK(g, <<i>> \o c)
  <1>1. PICK S : c \in Seq(S)
    BY DEF CodeOK
  <1> DEFINE r == <<i>> \o c
  <1>2. /\ r \in Seq(S \cup {i}) /\ Len(r) = Len(c) + 1 /\ r[1] = i /\ Len(c) \in Nat
        /\ \A k \in 2..Len(r) : r[k] = c[k - 1]
    <2>1. c \in Seq(S \cup {i}) /\ <<i>> \in Seq(S \cup {i})
      BY <1>1
    <2> QED BY <2>1
  <1> HIDE DEF r
  <1>3. ASSUME NEW k \in 1..Len(r)
        PROVE  IsInstr(r[k]) /\ (LabelJump(r[k]) => k = Len(r) /\ Placed(g, r[k].to))
    <2>1. CASE k = 1
      BY <1>2, <2>1
    <2>2. CASE k # 1
      <3>1. k - 1 \in 1..Len(c) /\ r[k] = c[k - 1]
        BY <1>2, <2>2
      <3>2. IsInstr(r[k]) /\ (LabelJump(r[k]) => k - 1 = Len(c) /\ Placed(g, r[k].to))
        BY <3>1 DEF CodeOK
      <3> QED BY <1>2, <3>2
    <2> QED BY <2>1, <2>2
  <1> QED BY <1>2, <1>3 DEF CodeOK, r

(* ... with other code after it, if it does not end with a jump to another *)
(* block.                                                                  *)
LEMMA CodeJoin ==
    ASSUME NEW g, NEW c, NEW d, CodeOK(g, c), CodeOK(g, d),
           c # <<>> => ~ LabelJump(c[Len(c)])
    PROVE  CodeOK(g, c \o d)
  <1>1. PICK S : c \in Seq(S)
    BY DEF CodeOK
  <1>2. PICK T : d \in Seq(T)
    BY DEF CodeOK
  <1> DEFINE r == c \o d
  <1>3. /\ r \in Seq(S \cup T) /\ Len(r) = Len(c) + Len(d) /\ Len(c) \in Nat /\ Len(d) \in Nat
        /\ \A k \in 1..Len(r) : r[k] = IF k <= Len(c) THEN c[k] ELSE d[k - Len(c)]
    <2>1. c \in Seq(S \cup T) /\ d \in Seq(S \cup T)
      BY <1>1, <1>2
    <2> QED BY <2>1, JoinShape
  <1> HIDE DEF r
  <1>4. ASSUME NEW k \in 1..Len(r)
        PROVE  IsInstr(r[k]) /\ (LabelJump(r[k]) => k = Len(r) /\ Placed(g, r[k].to))
    <2>1. CASE k <= Len(c)
      <3>1. k \in 1..Len(c) /\ r[k] = c[k] /\ c # <<>>
        BY <1>1, <1>3, <2>1
      <3>2. IsInstr(c[k]) /\ (LabelJump(c[k]) => k = Len(c))
        BY <3>1 DEF CodeOK
      <3> QED BY <3>1, <3>2
    <2>2. CASE k > Len(c)
      <3>1. k - Len(c) \in 1..Len(d) /\ r[k] = d[k - Len(c)]
        BY <1>3, <2>2
      <3>2. IsInstr(r[k]) /\ (LabelJump(r[k]) => k - Len(c) = Len(d) /\ Placed(g, r[k].to))
        BY <3>1 DEF CodeOK
      <3> QED BY <1>3, <3>2
    <2> QED BY <1>3, <2>1, <2>2
  <1> QED BY <1>3, <1>4 DEF CodeOK, r

(* A block that has lost its code.                                         *)
LEMMA CodeEmpty ==
    ASSUME NEW g
    PROVE  CodeOK(g, <<>>)
  <1>1. <<>> \in Seq({}) /\ Len(<<>>) = 0
    OBVIOUS
  <1> QED BY <1>1 DEF CodeOK

(* The last instruction of a block.                                        *)
LEMMA EndInstrOK ==
    ASSUME NEW g, NEW b, CodeOK(g, g.code[b])
    PROVE  /\ EndInstr(g, b).op # "void" => IsInstr(EndInstr(g, b))
           /\ LabelJump(EndInstr(g, b)) => Placed(g, EndInstr(g, b).to)
           /\ g.code[b] # <<>> => /\ Len(g.code[b]) \in Nat \ {0}
                                  /\ EndInstr(g, b) = g.code[b][Len(g.code[b])]
           /\ EndInstr(g, b).op # "void" => g.code[b] # <<>>
  <1> DEFINE c == g.code[b]
  <1>1. PICK S : c \in Seq(S)
    BY DEF CodeOK
  <1>2. CASE c = <<>>
    BY <1>2 DEF EndInstr, NoInstr, Instr, IsInstr, LabelJump, Jumps, Branches
  <1>3. CASE c # <<>>
    <2>1. Len(c) \in Nat \ {0} /\ EndInstr(g, b) = c[Len(c)]
      BY <1>1, <1>3 DEF EndInstr, Last
    <2> HIDE DEF c
    <2>2. IsInstr(c[Len(c)]) /\ (LabelJump(c[Len(c)]) => Placed(g, c[Len(c)].to))
      <3>1. Len(c) \in 1..Len(c)
        BY <2>1
      <3> QED BY <3>1 DEF CodeOK, c
    <2> QED BY <1>3, <2>1, <2>2 DEF c
  <1> QED BY <1>2, <1>3

-----------------------------------------------------------------------------
(* The place of a block in the chain, and the block after it.              *)
LEMMA PlaceIn ==
    ASSUME NEW g, ChainOK(g), NEW b \in Blocks(g)
    PROVE  /\ Place(g, b) \in 1..Len(g.chain) /\ g.chain[Place(g, b)] = b
           /\ Len(g.chain) \in Nat \ {0} /\ b \in Nat \ {NoBlock}
  <1>1. g.chain \in Seq(Nat \ {NoBlock}) /\ g.chain # <<>> /\ DOMAIN g.chain = 1..Len(g.chain)
    BY DEF ChainOK
  <1>2. PICK i \in 1..Len(g.chain) : g.chain[i] = b
    BY <1>1 DEF Blocks, ToSet
  <1>3. Place(g, b) \in 1..Len(g.chain) /\ g.chain[Place(g, b)] = b
    BY <1>2 DEF Place
  <1>4. Len(g.chain) \in Nat \ {0}
    BY <1>1
  <1> QED BY <1>1, <1>2, <1>3, <1>4

(* The chain begins with a block, and has none twice.                      *)
LEMMA ChainHead ==
    ASSUME NEW g, ChainOK(g)
    PROVE  /\ Head(g.chain) = g.chain[1] /\ Head(g.chain) \in Blocks(g)
           /\ Len(g.chain) \in Nat \ {0} /\ DOMAIN g.chain = 1..Len(g.chain)
           /\ \A i \in 1..Len(g.chain), j \in 1..Len(g.chain) : g.chain[i] = g.chain[j] => i = j
           /\ \A i \in 1..Len(g.chain) : g.chain[i] \in Blocks(g) /\ g.chain[i] # NoBlock
           /\ NoBlock \notin Blocks(g)
  <1>1. /\ g.chain \in Seq(Nat \ {NoBlock}) /\ g.chain # <<>> /\ DOMAIN g.chain = 1..Len(g.chain)
        /\ Len(g.chain) \in Nat \ {0} /\ Head(g.chain) = g.chain[1]
    BY DEF ChainOK
  <1>2. \A i \in 1..Len(g.chain) : g.chain[i] \in Blocks(g) /\ g.chain[i] # NoBlock
    BY <1>1 DEF Blocks, ToSet
  <1>3. \A i \in 1..Len(g.chain), j \in 1..Len(g.chain) : g.chain[i] = g.chain[j] => i = j
    BY <1>1 DEF ChainOK, IsInjective
  <1>4. 1 \in 1..Len(g.chain)
    BY <1>1
  <1>5. NoBlock \notin Blocks(g)
    BY <1>1 DEF Blocks, ToSet
  <1> QED BY <1>1, <1>2, <1>3, <1>4, <1>5

(* The block after another one, if there is one, is a third one in the     *)
(* chain or the second, and never the first.                               *)
LEMMA NextOfIn ==
    ASSUME NEW g, ChainOK(g), NEW b \in Blocks(g)
    PROVE  /\ NextOf(g, b) \in Blocks(g) \cup {NoBlock}
           /\ NextOf(g, b) # b
           /\ NextOf(g, b) # NoBlock => /\ Place(g, b) + 1 \in 1..Len(g.chain)
                                        /\ NextOf(g, b) = g.chain[Place(g, b) + 1]
           /\ NextOf(g, b) # Head(g.chain)
  <1> DEFINE p == Place(g, b)
             n == Len(g.chain)
  <1>1. p \in 1..n /\ g.chain[p] = b /\ n \in Nat \ {0} /\ b # NoBlock
    BY PlaceIn
  <1>2. /\ \A i \in 1..n, j \in 1..n : g.chain[i] = g.chain[j] => i = j
        /\ \A i \in 1..n : g.chain[i] \in Blocks(g) /\ g.chain[i] # NoBlock
        /\ Head(g.chain) = g.chain[1] /\ NoBlock \notin Blocks(g) /\ Head(g.chain) \in Blocks(g)
    BY ChainHead
  <1> HIDE DEF p, n
  <1>3. CASE b = Last(g.chain)
    BY <1>1, <1>2, <1>3 DEF NextOf
  <1>4. CASE b # Last(g.chain)
    <2>1. p # n
      BY <1>1, <1>4 DEF Last, n
    <2>2. p + 1 \in 1..n /\ p + 1 # p /\ p + 1 # 1 /\ 1 \in 1..n
      BY <1>1, <2>1
    <2>3. NextOf(g, b) = g.chain[p + 1]
      BY <1>4 DEF NextOf, p
    <2> QED BY <1>1, <1>2, <2>2, <2>3 DEF p, n
  <1> QED BY <1>3, <1>4

(* A block is taken out of the chain.                                      *)
LEMMA UnchainShape ==
    ASSUME NEW g, ChainOK(g), DOMAIN g = GraphFields, NEW b \in Blocks(g), NEW d \in Blocks(g), d # b,
           NEW h, h = Unchain(g, b)
    PROVE  /\ ChainOK(h) /\ Blocks(h) = Blocks(g) \ {b}
           /\ h.code = g.code /\ h.label = g.label /\ h.instr = g.instr
           /\ DOMAIN h = GraphFields
           /\ b # Head(g.chain) => Head(h.chain) = Head(g.chain)
  <1> DEFINE c == g.chain
             p == Place(g, b)
             r == RemoveAt(c, p)
  <1>1. p \in 1..Len(c) /\ c[p] = b /\ Len(c) \in Nat \ {0}
    BY PlaceIn
  <1>2. /\ h.chain = r
        /\ h.code = g.code /\ h.label = g.label /\ h.instr = g.instr /\ DOMAIN h = GraphFields
    BY DEF Unchain, GraphFields
  <1>3. c \in Seq(Nat \ {NoBlock}) /\ DOMAIN c = 1..Len(c)
    BY DEF ChainOK
  <1>4. /\ r \in Seq(Nat \ {NoBlock}) /\ Len(r) = Len(c) - 1
        /\ \A k \in 1..Len(r) : r[k] = IF k < p THEN c[k] ELSE c[k + 1]
    BY <1>1, <1>3, RemoveAtShape
  <1>5. DOMAIN r = 1..Len(r)
    BY <1>4
  <1>6. PICK q \in 1..Len(c) : c[q] = d
    BY <1>3 DEF Blocks, ToSet
  <1>7. \A i \in 1..Len(c), j \in 1..Len(c) : c[i] = c[j] => i = j
    BY ChainHead
  <1> HIDE DEF r, p
  <1>8. \A k \in 1..Len(r) : \E j \in 1..Len(c) : j # p /\ r[k] = c[j] /\ j = IF k < p THEN k ELSE k + 1
    <2> SUFFICES ASSUME NEW k \in 1..Len(r)
                 PROVE  \E j \in 1..Len(c) : j # p /\ r[k] = c[j] /\ j = IF k < p THEN k ELSE k + 1
      OBVIOUS
    <2>1. CASE k < p
      <3>1. k \in 1..Len(c) /\ k # p
        BY <1>1, <1>4, <2>1
      <3> QED BY <1>4, <2>1, <3>1
    <2>2. CASE ~ (k < p)
      <3>1. k + 1 \in 1..Len(c) /\ k + 1 # p
        BY <1>1, <1>4, <2>2
      <3> QED BY <1>4, <2>2, <3>1
    <2> QED BY <2>1, <2>2
  <1>9. \A j \in 1..Len(c) : j # p => \E k \in 1..Len(r) : r[k] = c[j]
    <2> SUFFICES ASSUME NEW j \in 1..Len(c), j # p PROVE \E k \in 1..Len(r) : r[k] = c[j]
      OBVIOUS
    <2>1. CASE j < p
      <3>1. j \in 1..Len(r)
        BY <1>1, <1>4, <2>1
      <3> QED BY <1>4, <2>1, <3>1
    <2>2. CASE j > p
      <3>1. j - 1 \in 1..Len(r) /\ ~ (j - 1 < p) /\ (j - 1) + 1 = j
        BY <1>1, <1>4, <2>2
      <3> QED BY <1>4, <3>1
    <2> QED BY <1>1, <2>1, <2>2
  <1>10. ToSet(r) = ToSet(c) \ {b}
    <2>1. ToSet(r) = {r[k] : k \in 1..Len(r)} /\ ToSet(c) = {c[j] : j \in 1..Len(c)}
      BY <1>3, <1>5 DEF ToSet
    <2>2. \A j \in 1..Len(c) : c[j] = b <=> j = p
      BY <1>1, <1>7
    <2>3. ASSUME NEW x \in ToSet(r) PROVE x \in ToSet(c) \ {b}
      <3>1. PICK k \in 1..Len(r) : x = r[k]
        BY <2>1, <2>3
      <3>2. PICK j \in 1..Len(c) : j # p /\ x = c[j]
        BY <1>8, <3>1
      <3> QED BY <2>1, <2>2, <3>2
    <2>4. ASSUME NEW x \in ToSet(c), x # b PROVE x \in ToSet(r)
      <3>1. PICK j \in 1..Len(c) : x = c[j]
        BY <2>1, <2>4
      <3>2. PICK k \in 1..Len(r) : r[k] = x
        BY <1>9, <2>2, <2>4, <3>1
      <3> QED BY <2>1, <3>2
    <2> QED BY <2>3, <2>4
  <1>11. r # <<>>
    <2>1. q # p
      BY <1>1, <1>6
    <2>2. PICK k \in 1..Len(r) : r[k] = c[q]
      BY <1>9, <2>1
    <2> QED BY <1>4, <2>2
  <1>12. IsInjective(r)
    <2> SUFFICES ASSUME NEW k \in 1..Len(r), NEW m \in 1..Len(r), r[k] = r[m] PROVE k = m
      BY <1>5 DEF IsInjective
    <2>1. PICK i \in 1..Len(c) : r[k] = c[i] /\ i = IF k < p THEN k ELSE k + 1
      BY <1>8
    <2>2. PICK j \in 1..Len(c) : r[m] = c[j] /\ j = IF m < p THEN m ELSE m + 1
      BY <1>8
    <2>3. i = j
      BY <1>7, <2>1, <2>2
    <2> QED BY <1>1, <1>4, <2>1, <2>2, <2>3
  <1>13. b # Head(c) => Head(r) = Head(c)
    <2> SUFFICES ASSUME b # Head(c) PROVE Head(r) = Head(c)
      OBVIOUS
    <2>1. Head(c) = c[1] /\ Head(r) = r[1] /\ 1 \in 1..Len(r)
      BY <1>3, <1>4, <1>11, <1>1
    <2>2. 1 < p
      BY <1>1, <2>1
    <2> QED BY <1>4, <2>1, <2>2
  <1> QED BY <1>2, <1>4, <1>10, <1>11, <1>12, <1>13 DEF ChainOK, Blocks

-----------------------------------------------------------------------------
(* The same graph with other code.                                         *)
LEMMA NewCode ==
    ASSUME NEW g, GraphOK(g), NEW h, DOMAIN h = GraphFields,
           h.chain = g.chain, h.label = g.label, h.instr = g.instr,
           DOMAIN h.code = DOMAIN g.code,
           \A b \in Blocks(g) : CodeOK(g, h.code[b])
    PROVE  GraphOK(h)
  <1>1. Blocks(h) = Blocks(g) /\ ChainOK(h)
    BY DEF Blocks, ChainOK, GraphOK
  <1>2. \A l : Placed(h, l) <=> Placed(g, l)
    BY <1>1 DEF Placed
  <1>3. \A c : CodeOK(h, c) <=> CodeOK(g, c)
    BY <1>2 DEF CodeOK
  <1> QED BY <1>1, <1>3 DEF GraphOK

(* One block gets other code.                                              *)
LEMMA NewBlockCode ==
    ASSUME NEW g, GraphOK(g), NEW b \in Blocks(g), NEW c, CodeOK(g, c)
    PROVE  /\ GraphOK([g EXCEPT !.code[b] = c])
           /\ [g EXCEPT !.code[b] = c].chain = g.chain
           /\ [g EXCEPT !.code[b] = c].code = [g.code EXCEPT ![b] = c]
           /\ [g EXCEPT !.code[b] = c].label = g.label
           /\ [g EXCEPT !.code[b] = c].instr = g.instr
  <1> DEFINE h == [g EXCEPT !.code[b] = c]
  <1>1. /\ DOMAIN h = GraphFields /\ h.chain = g.chain /\ h.label = g.label /\ h.instr = g.instr
        /\ h.code = [g.code EXCEPT ![b] = c]
    BY DEF GraphOK, GraphFields
  <1>2. \A d \in Blocks(g) : h.code[d] = IF d = b THEN c ELSE g.code[d]
    BY <1>1 DEF GraphOK
  <1>3. \A d \in Blocks(g) : CodeOK(g, h.code[d])
    BY <1>2 DEF GraphOK
  <1>4. DOMAIN h.code = DOMAIN g.code
    BY <1>1
  <1> HIDE DEF h
  <1>5. GraphOK(h)
    BY <1>1, <1>3, <1>4, NewCode
  <1> QED BY <1>1, <1>5 DEF h

(* A block that no other one jumps to is taken out.                        *)
LEMMA UnchainOK ==
    ASSUME NEW g, GraphOK(g), NEW b \in Blocks(g), NEW e \in Blocks(g), e # b,
           \A d \in Blocks(g) : d # b =>
              \A k \in 1..Len(g.code[d]) :
                 LabelJump(g.code[d][k]) => g.instr[g.code[d][k].to] # b
    PROVE  GraphOK(Unchain(g, b))
  <1> DEFINE h == Unchain(g, b)
  <1>1. /\ ChainOK(h) /\ Blocks(h) = Blocks(g) \ {b}
        /\ h.code = g.code /\ h.label = g.label /\ h.instr = g.instr
        /\ DOMAIN h = GraphFields
    BY UnchainShape DEF GraphOK
  <1> HIDE DEF h
  <1>2. ASSUME NEW d \in Blocks(h) PROVE CodeOK(h, h.code[d])
    <2>1. CodeOK(g, g.code[d])
      BY <1>1 DEF GraphOK
    <2>2. \A k \in 1..Len(g.code[d]) :
             LabelJump(g.code[d][k]) => k = Len(g.code[d]) /\ Placed(h, g.code[d][k].to)
      BY <1>1, <2>1 DEF CodeOK, Placed
    <2> QED BY <1>1, <2>1, <2>2 DEF CodeOK
  <1>3. Blocks(h) \subseteq DOMAIN h.code /\ DOMAIN h.label = DOMAIN h.code
    BY <1>1 DEF GraphOK
  <1>4. \A x \in Blocks(h) : h.label[x] # NoLabel =>
          h.label[x] \in Own \cap DOMAIN h.instr /\ h.instr[h.label[x]] = x
    BY <1>1 DEF GraphOK
  <1>5. GraphOK(h)
    BY <1>1, <1>2, <1>3, <1>4 DEF GraphOK
  <1> QED BY <1>5 DEF h

-----------------------------------------------------------------------------
(* The jump at the end of a block leads to the block of its label.         *)
LEMMA JumpLeads ==
    ASSUME SourceOK, NEW g, GraphOK(g), NEW d \in Blocks(g)
    PROVE  /\ LabelJump(EndInstr(g, d)) => /\ JumpsTo(g, d) = g.instr[EndInstr(g, d).to]
                                           /\ Placed(g, EndInstr(g, d).to)
                                           /\ g.label[JumpsTo(g, d)] = EndInstr(g, d).to
                                           /\ JumpsTo(g, d) \in Blocks(g)
           /\ ~ LabelJump(EndInstr(g, d)) => JumpsTo(g, d) = NoBlock
           /\ \A k \in 1..Len(g.code[d]) : LabelJump(g.code[d][k]) =>
                  g.code[d][k] = EndInstr(g, d) /\ g.code[d] # <<>>
  <1> DEFINE i == EndInstr(g, d)
  <1>1. CodeOK(g, g.code[d])
    BY DEF GraphOK
  <1>2. /\ i.op # "void" => IsInstr(i)
        /\ LabelJump(i) => Placed(g, i.to)
        /\ g.code[d] # <<>> => i = g.code[d][Len(g.code[d])]
    BY <1>1, EndInstrOK
  <1>3. \A k \in 1..Len(g.code[d]) : LabelJump(g.code[d][k]) => g.code[d][k] = i /\ g.code[d] # <<>>
    <2> SUFFICES ASSUME NEW k \in 1..Len(g.code[d]), LabelJump(g.code[d][k])
                 PROVE  g.code[d][k] = i /\ g.code[d] # <<>>
      OBVIOUS
    <2>1. k = Len(g.code[d])
      BY <1>1 DEF CodeOK
    <2>2. g.code[d] # <<>>
      <3>1. PICK S : g.code[d] \in Seq(S)
        BY <1>1 DEF CodeOK
      <3> QED BY <3>1
    <2> QED BY <1>2, <2>1, <2>2
  <1> HIDE DEF i
  <1>4. LabelJump(i) => i.to \notin Procs \cup {source.entry}
    BY DEF LabelJump, SourceOK
  <1>5. i.op \in Jumps /\ i.to \notin Procs \cup {source.entry} => LabelJump(i)
    BY <1>2 DEF IsInstr, LabelJump, Jumps, Branches
  <1>6. LabelJump(i) => JumpsTo(g, d) = g.instr[i.to]
    BY <1>4 DEF JumpsTo, LabelJump, i
  <1>7. ~ LabelJump(i) => JumpsTo(g, d) = NoBlock
    BY <1>5 DEF JumpsTo, i
  <1> QED BY <1>2, <1>3, <1>6, <1>7 DEF i, Placed

(* A block is taken out of the graph when no other jumps to it.            *)
LEMMA UnchainUnused ==
    ASSUME SourceOK, NEW g, GraphOK(g), NEW b \in Blocks(g), NEW e \in Blocks(g), e # b,
           \A d \in Blocks(g) : JumpsTo(g, d) # b \/ d = b
    PROVE  GraphOK(Unchain(g, b))
  <1>1. ASSUME NEW d \in Blocks(g), d # b, NEW k \in 1..Len(g.code[d]), LabelJump(g.code[d][k])
        PROVE  g.instr[g.code[d][k].to] # b
    BY <1>1, JumpLeads
  <1> QED BY <1>1, UnchainOK

(* The edges LinkBlocks finds lead to blocks, ...                          *)
LEMMA EdgesIn ==
    ASSUME SourceOK, NEW g, GraphOK(g)
    PROVE  EdgesOK(g, Edges(g)) /\ CallersOK(g, Edges(g))
  <1>1. ChainOK(g)
    BY DEF GraphOK
  <1>2. ASSUME NEW b \in Blocks(g) PROVE JumpsTo(g, b) \in Blocks(g) \cup {NoBlock}
    BY JumpLeads
  <1>3. ASSUME NEW b \in Blocks(g) PROVE NextOf(g, b) \in Blocks(g) \cup {NoBlock}
    BY <1>1, NextOfIn
  <1>4. ASSUME NEW b \in Blocks(g), b # Head(g.chain) PROVE g.chain[Place(g, b) - 1] \in Blocks(g)
    <2>1. Place(g, b) \in 1..Len(g.chain) /\ g.chain[Place(g, b)] = b /\ Len(g.chain) \in Nat \ {0}
      BY <1>1, PlaceIn
    <2>2. Head(g.chain) = g.chain[1] /\ \A i \in 1..Len(g.chain) : g.chain[i] \in Blocks(g)
      BY <1>1, ChainHead
    <2>3. Place(g, b) - 1 \in 1..Len(g.chain)
      BY <1>4, <2>1, <2>2
    <2> QED BY <2>2, <2>3
  <1>5. EdgesOK(g, Edges(g))
    <2> SUFFICES ASSUME NEW b \in Blocks(g)
                 PROVE  /\ b \in DOMAIN Edges(g)
                        /\ {"to", "condTo", "from", "callers"} = DOMAIN Edges(g)[b]
                        /\ Edges(g)[b].to \in Blocks(g) \cup {NoBlock}
                        /\ Edges(g)[b].condTo \in Blocks(g) \cup {NoBlock}
                        /\ Edges(g)[b].from \in Blocks(g) \cup {NoBlock}
                        /\ Edges(g)[b].callers \subseteq Blocks(g)
      BY DEF EdgesOK
    <2>1. /\ b \in DOMAIN Edges(g)
          /\ {"to", "condTo", "from", "callers"} = DOMAIN Edges(g)[b]
          /\ Edges(g)[b].callers \subseteq Blocks(g)
      BY DEF Edges
    <2>2. Edges(g)[b].condTo \in Blocks(g) \cup {NoBlock}
      BY <1>2 DEF Edges
    <2>3. Edges(g)[b].from \in Blocks(g) \cup {NoBlock}
      BY <1>4 DEF Edges
    <2>4. Edges(g)[b].to \in Blocks(g) \cup {NoBlock}
      <3>1. Edges(g)[b].to = CASE FallsThrough(g, b)            -> NextOf(g, b)
                               [] EndInstr(g, b).op = "goto"    -> JumpsTo(g, b)
                               [] OTHER                         -> NoBlock
        BY DEF Edges
      <3>2. FallsThrough(g, b) => EndInstr(g, b).op # "goto"
        BY DEF FallsThrough
      <3> QED BY <1>2, <1>3, <3>1, <3>2
    <2> QED BY <2>1, <2>2, <2>3, <2>4
  <1>6. CallersOK(g, Edges(g))
    BY DEF CallersOK, Edges
  <1> QED BY <1>5, <1>6

(* ... and those of block b are these.                                     *)
LEMMA EdgesOf ==
    ASSUME NEW g, NEW b \in Blocks(g)
    PROVE  LET e == Edges(g) IN
           /\ e[b].callers = {d \in Blocks(g) : JumpsTo(g, d) = b}
           /\ e[b].condTo = IF EndInstr(g, b).op \in Branches THEN JumpsTo(g, b) ELSE NoBlock
           /\ FallsThrough(g, b) => e[b].to = NextOf(g, b)
           /\ e[b].from # NoBlock => /\ b # Head(g.chain)
                                     /\ e[b].from = g.chain[Place(g, b) - 1]
                                     /\ FallsThrough(g, e[b].from)
  <1> DEFINE e == Edges(g)
  <1>1. /\ e[b].callers = {d \in Blocks(g) : JumpsTo(g, d) = b}
        /\ e[b].condTo = IF EndInstr(g, b).op \in Branches THEN JumpsTo(g, b) ELSE NoBlock
        /\ e[b].to = CASE FallsThrough(g, b)            -> NextOf(g, b)
                       [] EndInstr(g, b).op = "goto"    -> JumpsTo(g, b)
                       [] OTHER                         -> NoBlock
        /\ e[b].from = IF b # Head(g.chain) /\ FallsThrough(g, g.chain[Place(g, b) - 1])
                       THEN g.chain[Place(g, b) - 1] ELSE NoBlock
    BY DEF Edges
  <1>2. FallsThrough(g, b) => EndInstr(g, b).op # "goto"
    BY DEF FallsThrough
  <1> HIDE DEF e
  <1> QED BY <1>1, <1>2 DEF e

(* The block LinkBlocks removes first is one it can remove.                *)
LEMMA FirstRemovableIn ==
    ASSUME NEW g, ChainOK(g), NEW e, Removable(g, e) # {}
    PROVE  FirstRemovable(g, e) \in Removable(g, e)
  <1> DEFINE R == Removable(g, e)
             P == {Place(g, b) : b \in R}
  <1>1. \A b \in R : Place(g, b) \in Nat
    BY PlaceIn DEF Removable
  <1> HIDE DEF R
  <1>2. P \subseteq Nat /\ P # {}
    BY <1>1 DEF R
  <1>3. PICK m \in P : \A n \in P : m <= n
    <2> HIDE DEF P
    <2> QED BY <1>2, NatMinimum
  <1>4. PICK b \in R : m = Place(g, b)
    OBVIOUS
  <1>5. \A d \in R : Place(g, b) <= Place(g, d)
    BY <1>3, <1>4
  <1> QED BY <1>4, <1>5 DEF FirstRemovable, R
-----------------------------------------------------------------------------
(* The first instruction of a block, the last one and the last but for a   *)
(* GOTO are instructions of the block.                                     *)
LEMMA InstrsIn ==
    ASSUME NEW g, NEW b, CodeOK(g, g.code[b])
    PROVE  /\ FirstInstr(g, b) # NoInstr =>
                 \E k \in 1..Len(g.code[b]) : FirstInstr(g, b) = g.code[b][k]
           /\ FirstInstr(g, b) = NoInstr => Code(g, b) = {}
           /\ InstrPrev(g, b).op # "void" =>
                 /\ LastOf(Code(g, b)) \in 1..Len(g.code[b])
                 /\ InstrPrev(g, b) = g.code[b][LastOf(Code(g, b))]
           /\ LastInstr(g, b) # NoInstr =>
                 /\ LastOf(BeforeGoto(g, b)) \in 1..Len(g.code[b])
                 /\ LastInstr(g, b) = g.code[b][LastOf(BeforeGoto(g, b))]
                 /\ LastInstr(g, b).op \notin Branches =>
                       IsInstr(LastInstr(g, b)) /\ ~ LabelJump(LastInstr(g, b))
  <1> DEFINE c == g.code[b]
             I == Code(g, b)
             J == BeforeGoto(g, b)
  <1>1. Len(c) \in Nat
    <2>1. PICK S : c \in Seq(S)
      BY DEF CodeOK
    <2> QED BY <2>1
  <1>2. I \subseteq 1..Len(c) /\ J \subseteq I /\ \A k \in 1..Len(c) : k \in I <=> c[k].op # "line"
    BY DEF Code, BeforeGoto
  <1>3. I # {} => LastOf(I) \in I /\ \A j \in I : j <= LastOf(I)
    <2> HIDE DEF I, c
    <2> QED BY <1>1, <1>2, LastOfIn
  <1>4. J # {} => LastOf(J) \in J
    <2> HIDE DEF I, J, c
    <2> QED BY <1>1, <1>2, LastOfIn
  <1>5. I # {} => \E k \in I : FirstInstr(g, b) = c[k]
    <2> SUFFICES ASSUME I # {} PROVE \E k \in I : FirstInstr(g, b) = c[k]
      OBVIOUS
    <2>1. I \subseteq Nat
      BY <1>2
    <2>2. PICK m \in I : \A n \in I : m <= n
      <3> HIDE DEF I
      <3> QED BY <2>1, NatMinimum
    <2> QED BY <2>2 DEF FirstInstr
  <1>6. \A k \in 1..Len(c) : IsInstr(c[k]) /\ c[k] # NoInstr
    <2>1. NoInstr.op = "void"
      BY DEF NoInstr, Instr
    <2> QED BY <2>1 DEF CodeOK, IsInstr
  <1>7. FirstInstr(g, b) = NoInstr => I = {}
    <2> HIDE DEF I
    <2> QED BY <1>2, <1>5, <1>6
  <1>8. FirstInstr(g, b) # NoInstr => \E k \in 1..Len(c) : FirstInstr(g, b) = c[k]
    <2>1. I = {} => FirstInstr(g, b) = NoInstr
      BY DEF FirstInstr
    <2> HIDE DEF I
    <2> QED BY <1>2, <1>5, <2>1
  <1>9. InstrPrev(g, b).op # "void" => LastOf(I) \in 1..Len(c) /\ InstrPrev(g, b) = c[LastOf(I)]
    <2>1. I = {} => InstrPrev(g, b).op = "void"
      BY DEF InstrPrev, NoInstr, Instr
    <2>2. I # {} => InstrPrev(g, b) = c[LastOf(I)]
      BY DEF InstrPrev
    <2> HIDE DEF I, c
    <2> QED BY <1>2, <1>3, <2>1, <2>2
  <1>10. LastInstr(g, b) # NoInstr => J # {} /\ LastOf(J) \in 1..Len(c) /\ LastInstr(g, b) = c[LastOf(J)]
    <2>1. J = {} => LastInstr(g, b) = NoInstr
      BY DEF LastInstr
    <2>2. J # {} => LastInstr(g, b) = c[LastOf(J)]
      BY DEF LastInstr
    <2> HIDE DEF I, J, c
    <2> QED BY <1>2, <1>4, <2>1, <2>2
  <1>11. ASSUME LastInstr(g, b) # NoInstr, LastInstr(g, b).op \notin Branches
         PROVE  IsInstr(LastInstr(g, b)) /\ ~ LabelJump(LastInstr(g, b))
    <2> DEFINE k == LastOf(J)
    <2>1. k \in 1..Len(c) /\ LastInstr(g, b) = c[k] /\ k \in J
      BY <1>10, <1>11, <1>4
    <2>2. IsInstr(c[k])
      BY <2>1, <1>6
    <2>3. ASSUME LabelJump(c[k]) PROVE FALSE
      <3>1. k = Len(c)
        BY <2>1, <2>3 DEF CodeOK
      <3>2. c[k].op = "goto"
        BY <1>11, <2>1, <2>3 DEF LabelJump, Jumps
      <3>3. LastOf(I) = k
        <4>1. k \in I /\ I # {}
          BY <1>2, <2>1
        <4>2. LastOf(I) \in 1..Len(c) /\ k <= LastOf(I)
          <5> HIDE DEF I, J, k
          <5> QED BY <1>2, <1>3, <4>1
        <4> HIDE DEF k, I
        <4> QED BY <1>1, <3>1, <4>2
      <3>4. I # {} /\ InstrPrev(g, b) = c[k]
        <4>1. I # {}
          BY <1>2, <2>1
        <4> QED BY <3>3, <4>1 DEF InstrPrev
      <3>5. J = I \ {LastOf(I)}
        BY <3>2, <3>4 DEF BeforeGoto
      <3> HIDE DEF I, J, k, c
      <3> QED BY <2>1, <3>3, <3>5
    <2> QED BY <2>1, <2>2, <2>3
  <1> QED BY <1>7, <1>8, <1>9, <1>10, <1>11

(* What a block begins with, if it is a jump, leads to a block.            *)
LEMMA InstrOfCode ==
    ASSUME NEW g, NEW c, CodeOK(g, c), NEW k \in 1..Len(c)
    PROVE  IsInstr(c[k]) /\ (LabelJump(c[k]) => Placed(g, c[k].to))
  BY DEF CodeOK

-----------------------------------------------------------------------------
(* The instructions of code followed by other code.                        *)
LEMMA JoinFrom ==
    ASSUME NEW g, NEW c, NEW d, CodeOK(g, c), CodeOK(g, d), NEW k \in 1..Len(c \o d)
    PROVE  \/ \E m \in 1..Len(c) : (c \o d)[k] = c[m]
           \/ \E m \in 1..Len(d) : (c \o d)[k] = d[m]
  <1> DEFINE j == c \o d
  <1>1. PICK S : c \in Seq(S)
    BY DEF CodeOK
  <1>2. PICK T : d \in Seq(T)
    BY DEF CodeOK
  <1>3. /\ Len(j) = Len(c) + Len(d) /\ Len(c) \in Nat /\ Len(d) \in Nat
        /\ \A m \in 1..Len(j) : j[m] = IF m <= Len(c) THEN c[m] ELSE d[m - Len(c)]
    <2>1. c \in Seq(S \cup T) /\ d \in Seq(S \cup T)
      BY <1>1, <1>2
    <2> QED BY <2>1, JoinShape
  <1>4. k \in 1..Len(j)
    OBVIOUS
  <1> HIDE DEF j
  <1>5. CASE k <= Len(c)
    <2>1. k \in 1..Len(c) /\ j[k] = c[k]
      BY <1>3, <1>4, <1>5
    <2> QED BY <2>1 DEF j
  <1>6. CASE ~ (k <= Len(c))
    <2>1. k - Len(c) \in 1..Len(d) /\ j[k] = d[k - Len(c)]
      BY <1>3, <1>4, <1>6
    <2> QED BY <2>1 DEF j
  <1> QED BY <1>5, <1>6

(* A block LinkBlocks can merge is appended to the one before it.          *)
LEMMA MergedOK ==
    ASSUME SourceOK, NEW g, GraphOK(g), NEW b \in Blocks(g), Mergeable(g, Edges(g), b)
    PROVE  GraphOK(Merged(g, Edges(g), b))
  <1> DEFINE e == Edges(g)
             f == e[b].from
             j == g.code[f] \o g.code[b]
             h == [g EXCEPT !.code[f] = j]
  <1>1. ChainOK(g)
    BY DEF GraphOK
  <1>2. /\ f # NoBlock /\ e[b].callers = {} /\ e[f].condTo = NoBlock
        /\ b # Head(g.chain) /\ f = g.chain[Place(g, b) - 1] /\ FallsThrough(g, f)
    BY EdgesOf DEF Mergeable
  <1>3. f \in Blocks(g) /\ f # b
    <2>1. f \in Blocks(g)
      <3>1. f \in Blocks(g) \cup {NoBlock}
        BY EdgesIn DEF EdgesOK
      <3> QED BY <1>2, <3>1
    <2>2. Place(g, b) \in 1..Len(g.chain) /\ g.chain[Place(g, b)] = b /\ Len(g.chain) \in Nat \ {0}
      BY <1>1, PlaceIn
    <2>3. /\ \A x \in 1..Len(g.chain), y \in 1..Len(g.chain) : g.chain[x] = g.chain[y] => x = y
          /\ Head(g.chain) = g.chain[1]
      BY <1>1, ChainHead
    <2>4. Place(g, b) - 1 \in 1..Len(g.chain) /\ Place(g, b) - 1 # Place(g, b)
      BY <1>2, <2>2, <2>3
    <2> HIDE DEF f
    <2>5. f # b
      BY <1>2, <2>2, <2>3, <2>4
    <2> QED BY <2>1, <2>5
  <1>4. ~ LabelJump(EndInstr(g, f))
    <2>1. e[f].condTo = IF EndInstr(g, f).op \in Branches THEN JumpsTo(g, f) ELSE NoBlock
      BY <1>3, EdgesOf
    <2>2. EndInstr(g, f).op # "goto"
      BY <1>2 DEF FallsThrough
    <2>3. NoBlock \notin Blocks(g)
      BY <1>1, ChainHead
    <2>4. LabelJump(EndInstr(g, f)) => JumpsTo(g, f) \in Blocks(g)
      BY <1>3, JumpLeads
    <2> HIDE DEF e, f
    <2> QED BY <1>2, <2>1, <2>2, <2>3, <2>4 DEF LabelJump, Jumps
  <1>5. CodeOK(g, g.code[f]) /\ CodeOK(g, g.code[b])
    BY <1>3 DEF GraphOK
  <1> HIDE DEF f
  <1>6. CodeOK(g, j)
    <2>1. g.code[f] # <<>> => ~ LabelJump(g.code[f][Len(g.code[f])])
      BY <1>4, <1>5, EndInstrOK
    <2> QED BY <1>5, <2>1, CodeJoin
  <1>7. /\ GraphOK(h) /\ h.chain = g.chain /\ h.label = g.label /\ h.instr = g.instr
        /\ h.code = [g.code EXCEPT ![f] = j]
    <2> HIDE DEF j
    <2> QED BY <1>3, <1>6, NewBlockCode
  <1>8. Blocks(h) = Blocks(g)
    BY <1>7 DEF Blocks
  <1>9. \A d \in Blocks(g) : JumpsTo(g, d) # b
    <2>1. e[b].callers = {d \in Blocks(g) : JumpsTo(g, d) = b}
      BY EdgesOf
    <2> QED BY <1>2, <2>1
  <1>10. \A d \in Blocks(h) : d # f => h.code[d] = g.code[d]
    BY <1>7, <1>8 DEF GraphOK
  <1>11. h.code[f] = j
    BY <1>3, <1>7 DEF GraphOK
  <1>12. ASSUME NEW d \in Blocks(h), d # b, NEW k \in 1..Len(h.code[d]), LabelJump(h.code[d][k])
         PROVE  h.instr[h.code[d][k].to] # b
    <2>1. CASE d # f
      <3>1. h.code[d] = g.code[d] /\ d \in Blocks(g)
        BY <1>8, <1>10, <2>1
      <3> HIDE DEF h
      <3>2. k \in 1..Len(g.code[d]) /\ LabelJump(g.code[d][k])
        BY <1>12, <3>1
      <3>3. g.code[d][k] = EndInstr(g, d) /\ JumpsTo(g, d) = g.instr[g.code[d][k].to]
        BY <3>1, <3>2, JumpLeads
      <3> QED BY <1>7, <1>9, <3>1, <3>3
    <2>2. CASE d = f
      <3>4. h.code[d] = j
        BY <1>11, <2>2
      <3>6. \E x \in {f, b} : \E m \in 1..Len(g.code[x]) : j[k] = g.code[x][m]
        <4>1. k \in 1..Len(g.code[f] \o g.code[b])
          <5> HIDE DEF h
          <5> QED BY <3>4
        <4>2. \/ \E m \in 1..Len(g.code[f]) : (g.code[f] \o g.code[b])[k] = g.code[f][m]
              \/ \E m \in 1..Len(g.code[b]) : (g.code[f] \o g.code[b])[k] = g.code[b][m]
          <5> DEFINE cf == g.code[f]
                     cb == g.code[b]
          <5>1. CodeOK(g, cf) /\ CodeOK(g, cb) /\ k \in 1..Len(cf \o cb)
            BY <1>5, <4>1
          <5> HIDE DEF cf, cb, h
          <5>2. \/ \E m \in 1..Len(cf) : (cf \o cb)[k] = cf[m]
                \/ \E m \in 1..Len(cb) : (cf \o cb)[k] = cb[m]
            BY <5>1, JoinFrom
          <5> QED BY <5>2 DEF cf, cb
        <4>3. j[k] = (g.code[f] \o g.code[b])[k]
          OBVIOUS
        <4> HIDE DEF h, j
        <4>4. \/ \E m \in 1..Len(g.code[f]) : j[k] = g.code[f][m]
              \/ \E m \in 1..Len(g.code[b]) : j[k] = g.code[b][m]
          BY <4>2, <4>3
        <4>5. ASSUME NEW x \in {f, b}, NEW m \in 1..Len(g.code[x]), j[k] = g.code[x][m]
              PROVE  \E y \in {f, b} : \E n \in 1..Len(g.code[y]) : j[k] = g.code[y][n]
          BY <4>5
        <4> QED BY <4>4, <4>5
      <3> HIDE DEF j, h
      <3>7. PICK x \in Blocks(g) : \E m \in 1..Len(g.code[x]) : j[k] = g.code[x][m]
        BY <1>3, <3>6
      <3>8. LabelJump(j[k])
        BY <1>12, <3>4
      <3>9. j[k] = EndInstr(g, x) /\ JumpsTo(g, x) = g.instr[j[k].to]
        BY <3>7, <3>8, JumpLeads
      <3> QED BY <1>7, <1>9, <3>4, <3>9
    <2> QED BY <2>1, <2>2
  <1>13. GraphOK(Unchain(h, b))
    <2> HIDE DEF h
    <2> QED BY <1>3, <1>7, <1>8, <1>12, UnchainOK
  <1> QED BY <1>13 DEF Merged, f

(* The label of an empty block goes to the block after it, ...             *)
LEMMA LabelMovedOK ==
    ASSUME SourceOK, NEW g, GraphOK(g), NEW b \in Blocks(g), NEW to \in Blocks(g), to # b,
           g.label[b] # NoLabel, g.label[to] = NoLabel, g.code[b] # <<>> => ~ LabelJump(EndInstr(g, b))
    PROVE  GraphOK(Unchain([g EXCEPT !.label[to] = g.label[b], !.instr[g.label[b]] = to], b))
  <1> DEFINE l == g.label[b]
             h == [g EXCEPT !.label[to] = l, !.instr[l] = to]
             u == Unchain(h, b)
  <1>1. /\ ChainOK(g) /\ Blocks(g) \subseteq DOMAIN g.code /\ DOMAIN g.label = DOMAIN g.code
        /\ DOMAIN g = GraphFields
        /\ \A x \in Blocks(g) : CodeOK(g, g.code[x])
        /\ \A x \in Blocks(g) : g.label[x] # NoLabel =>
               g.label[x] \in Own \cap DOMAIN g.instr /\ g.instr[g.label[x]] = x
    BY DEF GraphOK
  <1>2. /\ h.chain = g.chain /\ h.code = g.code /\ DOMAIN h = GraphFields
        /\ h.label = [g.label EXCEPT ![to] = l] /\ h.instr = [g.instr EXCEPT ![l] = to]
    BY <1>1 DEF GraphFields
  <1>3. ChainOK(h) /\ Blocks(h) = Blocks(g)
    BY <1>1, <1>2 DEF ChainOK, Blocks
  <1> HIDE DEF h, l
  <1>4. /\ ChainOK(u) /\ Blocks(u) = Blocks(g) \ {b} /\ u.code = g.code /\ DOMAIN u = GraphFields
        /\ u.label = [g.label EXCEPT ![to] = l] /\ u.instr = [g.instr EXCEPT ![l] = to]
    BY <1>2, <1>3, UnchainShape
  <1> HIDE DEF u
  <1>5. l \in Own \cap DOMAIN g.instr /\ g.instr[l] = b /\ l # NoLabel
    BY <1>1 DEF l
  <1>6. /\ to \in DOMAIN g.label /\ u.label[to] = l /\ u.instr[l] = to /\ to \in Blocks(u)
        /\ DOMAIN u.instr = DOMAIN g.instr /\ DOMAIN u.label = DOMAIN g.label
        /\ \A x : x # l /\ x \in DOMAIN g.instr => u.instr[x] = g.instr[x]
        /\ \A x : x # to /\ x \in DOMAIN g.label => u.label[x] = g.label[x]
    BY <1>1, <1>4, <1>5
  <1>7. ASSUME NEW x \in Blocks(u), u.label[x] # NoLabel
        PROVE  u.label[x] \in Own \cap DOMAIN u.instr /\ u.instr[u.label[x]] = x
    <2>1. CASE x = to
      BY <1>5, <1>6, <2>1
    <2>2. CASE x # to
      <3>1. x \in Blocks(g) /\ x # b /\ u.label[x] = g.label[x]
        BY <1>1, <1>4, <1>6, <2>2
      <3>2. g.label[x] \in Own \cap DOMAIN g.instr /\ g.instr[g.label[x]] = x
        BY <1>1, <1>7, <3>1
      <3>3. g.label[x] # l
        BY <1>5, <3>1, <3>2
      <3> QED BY <1>6, <3>1, <3>2, <3>3
    <2> QED BY <2>1, <2>2
  <1>8. ASSUME NEW m, Placed(g, m), m # NoLabel PROVE Placed(u, m)
    <2>1. CASE m = l
      BY <1>5, <1>6, <2>1 DEF Placed
    <2>2. CASE m # l
      <3>1. m \in DOMAIN g.instr /\ g.instr[m] \in Blocks(g) /\ g.label[g.instr[m]] = m
        BY <1>8 DEF Placed
      <3>2. g.instr[m] # b /\ g.instr[m] # to
        BY <1>8, <2>2, <3>1 DEF l
      <3> QED BY <1>1, <1>4, <1>6, <2>2, <3>1, <3>2 DEF Placed
    <2> QED BY <2>1, <2>2
  <1>9. ASSUME NEW x \in Blocks(u) PROVE CodeOK(u, u.code[x])
    <2>1. CodeOK(g, g.code[x]) /\ u.code[x] = g.code[x]
      BY <1>1, <1>4
    <2>2. \A i : LabelJump(i) => i.to # NoLabel
      BY DEF LabelJump, SourceOK
    <2> QED BY <1>8, <2>1, <2>2 DEF CodeOK
  <1>10. Blocks(u) \subseteq DOMAIN u.code /\ DOMAIN u.label = DOMAIN u.code
    BY <1>1, <1>4, <1>6
  <1>11. GraphOK(u)
    BY <1>4, <1>7, <1>9, <1>10 DEF GraphOK
  <1> QED BY <1>11 DEF u, h, l

(* ... or the jumps to it go there.                                        *)
LEMMA RedirectedOK ==
    ASSUME SourceOK, NEW g, GraphOK(g), NEW b \in Blocks(g), NEW to \in Blocks(g), to # b,
           g.label[to] # NoLabel, NEW J, J \subseteq Blocks(g),
           \A d \in J : LabelJump(EndInstr(g, d)),
           \A d \in Blocks(g) : JumpsTo(g, d) = b => d \in J
    PROVE  GraphOK(Unchain([g EXCEPT !.code = [d \in DOMAIN @ |->
                IF d \in J
                THEN [@[d] EXCEPT ![Len(@[d])].to = g.label[to]]
                ELSE @[d]]], b))
  <1> DEFINE l == g.label[to]
             code == [d \in DOMAIN g.code |-> IF d \in J
                        THEN [g.code[d] EXCEPT ![Len(g.code[d])].to = l] ELSE g.code[d]]
             h == [g EXCEPT !.code = code]
  <1>1. /\ ChainOK(g) /\ Blocks(g) \subseteq DOMAIN g.code /\ DOMAIN g = GraphFields
        /\ \A x \in Blocks(g) : CodeOK(g, g.code[x])
        /\ l \in Own \cap DOMAIN g.instr /\ g.instr[l] = to
    BY DEF GraphOK
  <1>2. /\ h.chain = g.chain /\ h.label = g.label /\ h.instr = g.instr
        /\ h.code = code /\ DOMAIN h = GraphFields
    BY <1>1 DEF GraphFields
  <1>3. Placed(g, l)
    BY <1>1 DEF Placed
  <1> HIDE DEF l
  <1>4. ASSUME NEW d \in J
        PROVE  /\ CodeOK(g, code[d]) /\ Len(code[d]) = Len(g.code[d])
               /\ Len(code[d]) \in 1..Len(code[d])
               /\ code[d][Len(code[d])].to = l
    <2> DEFINE c == g.code[d]
               n == Len(c)
               i == [c[n] EXCEPT !.to = l]
    <2>1. CodeOK(g, c) /\ d \in Blocks(g)
      BY <1>1
    <2>2. LabelJump(EndInstr(g, d)) /\ EndInstr(g, d).op # "void"
      BY DEF LabelJump, Jumps, Branches
    <2>3. c # <<>> /\ n \in Nat \ {0} /\ EndInstr(g, d) = c[n] /\ IsInstr(c[n])
      BY <2>1, <2>2, EndInstrOK
    <2>4. code[d] = [c EXCEPT ![n] = i]
      BY <1>1, <2>1
    <2>5. IsInstr(i) /\ i.to = l
      BY <1>1, <2>2, <2>3 DEF IsInstr, Instr, LabelJump, Jumps, Branches
    <2>6. PICK S : c \in Seq(S)
      BY <2>1 DEF CodeOK
    <2>7. DOMAIN c = 1..n
      BY <2>6
    <2> HIDE DEF code, i, n, c
    <2>8. n \in 1..n
      BY <2>3
    <2>9. CodeOK(g, code[d])
      <3>1. CodeOK(g, [c EXCEPT ![n] = i])
        BY <1>3, <2>1, <2>5, <2>8, CodeReplace DEF n
      <3> QED BY <2>4, <3>1
    <2>10. DOMAIN code[d] = 1..n /\ code[d][n] = i
      BY <2>4, <2>7, <2>8
    <2>11. Len(code[d]) = n
      <3>1. code[d] \in Seq(S \cup {i})
        <4>1. c \in Seq(S \cup {i})
          BY <2>6
        <4>2. [c EXCEPT ![n] = i] \in Seq(S \cup {i})
          BY <4>1, <2>8 DEF n
        <4> QED BY <2>4, <4>2
      <3> QED BY <2>3, <2>10, <3>1
    <2> QED BY <2>5, <2>8, <2>9, <2>10, <2>11 DEF n, c
  <1>5. ASSUME NEW d \in Blocks(g), d \notin J PROVE code[d] = g.code[d]
    BY <1>1, <1>5
  <1>6. \A d \in Blocks(g) : CodeOK(g, code[d])
    BY <1>1, <1>4, <1>5
  <1>7. DOMAIN code = DOMAIN g.code
    OBVIOUS
  <1> HIDE DEF code, h
  <1>8. GraphOK(h) /\ Blocks(h) = Blocks(g)
    BY <1>2, <1>6, <1>7, NewCode DEF Blocks
  <1>9. ASSUME NEW d \in Blocks(h), d # b, NEW k \in 1..Len(h.code[d]), LabelJump(h.code[d][k])
        PROVE  h.instr[h.code[d][k].to] # b
    <2>1. CASE d \in J
      <3>1. k = Len(code[d])
        BY <1>2, <1>6, <1>8, <1>9 DEF CodeOK
      <3>2. h.code[d][k].to = l
        BY <1>2, <1>4, <2>1, <3>1
      <3> QED BY <1>1, <1>2, <3>2
    <2>2. CASE d \notin J
      <3>1. h.code[d] = g.code[d] /\ d \in Blocks(g) /\ JumpsTo(g, d) # b
        BY <1>2, <1>5, <1>8, <2>2
      <3> QED BY <1>2, <1>9, <3>1, JumpLeads
    <2> QED BY <2>1, <2>2
  <1>10. GraphOK(Unchain(h, b))
    BY <1>8, <1>9, UnchainOK
  <1> QED BY <1>10 DEF h, code, l

(* An empty block is taken out.                                            *)
LEMMA BypassedOK ==
    ASSUME SourceOK, NEW g, GraphOK(g), NEW b \in Blocks(g), EmptyBlock(g, Edges(g), b)
    PROVE  GraphOK(Bypassed(g, Edges(g), b))
  <1> DEFINE e == Edges(g)
             to == e[b].to
             J == {d \in e[b].callers : EndInstr(g, d).to = g.label[b]}
  <1>1. ChainOK(g) /\ CodeOK(g, g.code[b])
    BY DEF GraphOK
  <1>2. Code(g, b) = {} /\ to # NoBlock
    BY <1>1, InstrsIn DEF EmptyBlock
  <1>3. EndInstr(g, b).op \notin Jumps \cup {"assert"}
    <2>1. CASE g.code[b] = <<>>
      BY <2>1 DEF EndInstr, NoInstr, Instr, Jumps, Branches
    <2>2. CASE g.code[b] # <<>>
      <3>1. Len(g.code[b]) \in Nat \ {0} /\ EndInstr(g, b) = g.code[b][Len(g.code[b])]
        BY <1>1, <2>2, EndInstrOK
      <3>2. Len(g.code[b]) \in 1..Len(g.code[b])
        BY <3>1
      <3>3. g.code[b][Len(g.code[b])].op = "line"
        BY <1>2, <3>2 DEF Code
      <3> QED BY <3>1, <3>3 DEF Jumps, Branches
    <2> QED BY <2>1, <2>2
  <1>4. to = NextOf(g, b)
    BY <1>3, EdgesOf DEF FallsThrough, Jumps
  <1>5. to \in Blocks(g) /\ to # b
    <2> HIDE DEF to
    <2> QED BY <1>1, <1>2, <1>4, NextOfIn
  <1>6. e[b].callers = {d \in Blocks(g) : JumpsTo(g, d) = b}
    BY EdgesOf
  <1>7. \A d \in Blocks(g) : JumpsTo(g, d) = b =>
            LabelJump(EndInstr(g, d)) /\ EndInstr(g, d).to = g.label[b] /\ g.label[b] # NoLabel
    <2> SUFFICES ASSUME NEW d \in Blocks(g), JumpsTo(g, d) = b
                 PROVE  LabelJump(EndInstr(g, d)) /\ EndInstr(g, d).to = g.label[b] /\ g.label[b] # NoLabel
      OBVIOUS
    <2>1. b # NoBlock
      BY <1>1, ChainHead
    <2>2. LabelJump(EndInstr(g, d)) /\ EndInstr(g, d).to = g.label[b]
      BY <2>1, JumpLeads
    <2> QED BY <2>2 DEF LabelJump, SourceOK
  <1> HIDE DEF e, to
  <1>8. /\ J \subseteq Blocks(g) /\ \A d \in J : LabelJump(EndInstr(g, d))
        /\ \A d \in Blocks(g) : JumpsTo(g, d) = b => d \in J
        /\ J # {} => g.label[b] # NoLabel
    BY <1>6, <1>7
  <1> HIDE DEF J
  <1>9. CASE J = {}
    <2>1. GraphOK(Unchain(g, b))
      BY <1>5, <1>8, <1>9, UnchainUnused
    <2> QED BY <1>9, <2>1 DEF Bypassed, J, e, to
  <1>10. CASE J # {} /\ g.label[to] = NoLabel
    <2>1. ~ LabelJump(EndInstr(g, b))
      BY <1>3 DEF LabelJump
    <2>2. GraphOK(Unchain([g EXCEPT !.label[to] = g.label[b], !.instr[g.label[b]] = to], b))
      BY <1>5, <1>8, <1>10, <2>1, LabelMovedOK
    <2> QED BY <1>10, <2>2 DEF Bypassed, J, e, to
  <1>11. CASE J # {} /\ g.label[to] # NoLabel
    <2>1. GraphOK(Unchain([g EXCEPT !.code = [d \in DOMAIN @ |->
                IF d \in J
                THEN [@[d] EXCEPT ![Len(@[d])].to = g.label[to]]
                ELSE @[d]]], b))
      BY <1>5, <1>8, <1>11, RedirectedOK
    <2> QED BY <1>11, <2>1 DEF Bypassed, J, e, to
  <1> QED BY <1>9, <1>10, <1>11

-----------------------------------------------------------------------------
(* Without a NULL jump.                                                    *)
LEMMA DeleteLastOK ==
    ASSUME NEW g, GraphOK(g), NEW b \in Blocks(g), InstrPrev(g, b).op # "void"
    PROVE  GraphOK(DeleteLast(g, b)) /\ DeleteLast(g, b).chain = g.chain
  <1> DEFINE p == LastOf(Code(g, b))
             c == RemoveAt(g.code[b], p)
  <1>1. CodeOK(g, g.code[b])
    BY DEF GraphOK
  <1>2. p \in 1..Len(g.code[b])
    BY <1>1, InstrsIn
  <1> HIDE DEF p
  <1>3. CodeOK(g, c)
    BY <1>1, <1>2, CodeRemove
  <1> HIDE DEF c
  <1>4. GraphOK([g EXCEPT !.code[b] = c]) /\ [g EXCEPT !.code[b] = c].chain = g.chain
    BY <1>3, NewBlockCode
  <1>5. DeleteLast(g, b) = [g EXCEPT !.code[b] = c]
    BY DEF DeleteLast, c, p
  <1> QED BY <1>4, <1>5

(* The last instruction of a block replaced by another one.                *)
LEMMA NewEndOK ==
    ASSUME NEW g, GraphOK(g), NEW b \in Blocks(g), g.code[b] # <<>>,
           NEW i, IsInstr(i), LabelJump(i) => Placed(g, i.to),
           NEW d, d = [g.code[b] EXCEPT ![Len(g.code[b])] = i],
           NEW h, h = [g EXCEPT !.code[b] = d]
    PROVE  /\ CodeOK(g, d) /\ d = Append(Front(g.code[b]), i)
           /\ GraphOK(h) /\ h.chain = g.chain /\ EndInstr(h, b) = i
  <1> DEFINE c == g.code[b]
             n == Len(c)
  <1>1. CodeOK(g, c) /\ d = [c EXCEPT ![n] = i]
    BY DEF GraphOK
  <1>2. PICK S : c \in Seq(S)
    BY <1>1 DEF CodeOK
  <1>3. n \in Nat \ {0} /\ DOMAIN c = 1..n /\ c \in Seq(S \cup {i})
    BY <1>2
  <1>4. d = Append(Front(c), i)
    <2>1. /\ Front(c) \in Seq(S \cup {i}) /\ Len(Front(c)) = n - 1
          /\ \A k \in 1..(n - 1) : Front(c)[k] = c[k]
      BY <1>3 DEF Front
    <2> DEFINE f == Front(c)
    <2> HIDE DEF f, c
    <2>2. /\ Append(f, i) \in Seq(S \cup {i}) /\ Len(Append(f, i)) = n
          /\ \A k \in 1..n : Append(f, i)[k] = IF k = n THEN i ELSE c[k]
      <3>1. /\ Append(f, i) \in Seq(S \cup {i}) /\ Len(Append(f, i)) = Len(f) + 1
            /\ \A k \in 1..(Len(f) + 1) : Append(f, i)[k] = IF k = Len(f) + 1 THEN i ELSE f[k]
        BY <2>1 DEF f
      <3>2. Len(f) + 1 = n
        BY <1>3, <2>1 DEF f
      <3>3. \A k \in 1..n : k # n => k \in 1..(n - 1)
        <4>1. n \in Nat
          BY <1>3
        <4> HIDE DEF n
        <4> QED BY <4>1
      <3> HIDE DEF n
      <3> QED BY <2>1, <3>1, <3>2, <3>3 DEF f
    <2>3. DOMAIN Append(f, i) = 1..n
      BY <2>2
    <2>4. d = [k \in 1..n |-> IF k = n THEN i ELSE c[k]]
      BY <1>1, <1>3
    <2>5. Append(f, i) = [k \in 1..n |-> Append(f, i)[k]]
      <3> DEFINE a == Append(f, i)
      <3>1. a \in Seq(S \cup {i}) /\ DOMAIN a = 1..n
        BY <2>2, <2>3
      <3> HIDE DEF a, n
      <3>2. a = [k \in 1..n |-> a[k]]
        BY <3>1
      <3> QED BY <3>2 DEF a
    <2> HIDE DEF n
    <2>6. Append(f, i) = d
      BY <2>2, <2>4, <2>5
    <2> QED BY <2>6 DEF f
  <1>5. CodeOK(g, d)
    <2> HIDE DEF c
    <2>1. n \in 1..n
      BY <1>3
    <2> QED BY <1>1, <2>1, CodeReplace
  <1>6. d # <<>> /\ Last(d) = i
    <2> HIDE DEF c
    <2>1. DOMAIN d = 1..n /\ d[n] = i /\ d \in Seq(S \cup {i})
      <3>1. n \in 1..n
        BY <1>3
      <3>2. [c EXCEPT ![n] = i] \in Seq(S \cup {i})
        BY <1>3, <3>1
      <3>3. DOMAIN [c EXCEPT ![n] = i] = 1..n /\ [c EXCEPT ![n] = i][n] = i
        BY <1>3, <3>1
      <3> HIDE DEF n
      <3> QED BY <1>1, <3>2, <3>3
    <2>2. Len(d) = n
      BY <1>3, <2>1
    <2> HIDE DEF n
    <2>3. d # <<>>
      BY <1>3, <2>2
    <2> QED BY <2>1, <2>2, <2>3 DEF Last
  <1>7. GraphOK(h) /\ h.chain = g.chain /\ h.code = [g.code EXCEPT ![b] = d]
    BY <1>5, NewBlockCode
  <1>8. h.code[b] = d
    BY <1>7 DEF GraphOK
  <1>9. EndInstr(h, b) = i
    BY <1>6, <1>8 DEF EndInstr
  <1> QED BY <1>4, <1>5, <1>7, <1>9

(* A branch around a jump becomes the opposite branch to where it leads.   *)
LEMMA SwappedOK ==
    ASSUME SourceOK, NEW g, GraphOK(g), NEW b \in Blocks(g), link[b].to \in Blocks(g),
           EndInstr(g, b).op \in Branches, FirstInstr(g, link[b].to).op = "goto"
    PROVE  GraphOK(Swapped(g, b)) /\ Swapped(g, b).chain = g.chain
  <1> DEFINE t == link[b].to
             i == EndInstr(g, b)
             j == FirstInstr(g, t)
             o == Instr(OpNot(i.op), i.arg, j.to)
             c == [g.code[b] EXCEPT ![Len(g.code[b])] = o]
             h == [g EXCEPT !.code[b] = c]
  <1>1. CodeOK(g, g.code[b]) /\ CodeOK(g, g.code[t])
    BY DEF GraphOK
  <1>2. IsInstr(j) /\ (LabelJump(j) => Placed(g, j.to))
    <2>1. j # NoInstr
      <3>1. NoInstr.op = "void" /\ j.op = "goto"
        BY DEF NoInstr, Instr
      <3> HIDE DEF j
      <3> QED BY <3>1
    <2>2. PICK k \in 1..Len(g.code[t]) : j = g.code[t][k]
      BY <1>1, <2>1, InstrsIn
    <2> QED BY <1>1, <2>2, InstrOfCode
  <1>3. g.code[b] # <<>>
    BY DEF EndInstr, NoInstr, Instr, Branches
  <1>4. IsInstr(o) /\ (LabelJump(o) => Placed(g, o.to))
    BY <1>2 DEF IsInstr, LabelJump, Jumps, Branches, OpNot, Instr
  <1> HIDE DEF i, j, o, t
  <1>5. /\ GraphOK(h) /\ h.chain = g.chain /\ CodeOK(g, c) /\ c = Append(Front(g.code[b]), o)
    BY <1>3, <1>4, NewEndOK
  <1>6. Blocks(h) = Blocks(g) /\ t \in Blocks(g)
    BY <1>5 DEF Blocks, t
  <1>7. CodeOK(h, <<>>)
    BY CodeEmpty
  <1> DEFINE k == [h EXCEPT !.code[t] = <<>>]
  <1>8. GraphOK(k) /\ k.chain = g.chain
    <2> HIDE DEF h
    <2> QED BY <1>5, <1>6, <1>7, NewBlockCode
  <1>9. Swapped(g, b) = k
    <2> HIDE DEF c
    <2> QED BY <1>5 DEF Swapped, i, j, o, t
  <1> QED BY <1>8, <1>9

(* What a jump leads on to is the procedure's entry or a label placed.     *)
LEMMA OnwardOK ==
    ASSUME SourceOK, GraphOK(graph), NEW i, IsInstr(i), i.op \in Jumps,
           LabelJump(i) => Placed(graph, i.to), Onward(i.to) # NoLabel
    PROVE  LET j == [i EXCEPT !.to = Onward(i.to)] IN
           IsInstr(j) /\ j.op = i.op /\ (LabelJump(j) => Placed(graph, j.to))
  <1> DEFINE on == Onward(i.to)
             j == [i EXCEPT !.to = on]
  <1>1. i = [op |-> i.op, arg |-> i.arg, to |-> i.to] /\ i.op # "void" /\ i.op # "call"
        /\ i.to \in Procs \cup Own \cup {source.entry}
    BY DEF IsInstr, Instr, Jumps, Branches
  <1>2. j = [op |-> i.op, arg |-> i.arg, to |-> on] /\ j.op = i.op /\ j.to = on
    <2> HIDE DEF on
    <2> QED BY <1>1
  <1>3. CASE i.to \in Procs
    <2>1. on = source.entry
      <3>1. i.to # source.entry
        BY <1>3 DEF SourceOK
      <3> QED BY <1>3, <3>1 DEF Onward, Instr
    <2> QED BY <1>1, <1>2, <2>1 DEF IsInstr, Instr, LabelJump, SourceOK
  <1>4. CASE i.to = source.entry /\ i.to \notin Procs
    <2>1. on = NoLabel
      BY <1>4 DEF Onward, NoInstr, Instr
    <2> QED BY <2>1
  <1>5. CASE i.to \in Own /\ i.to \notin Procs /\ i.to # source.entry
    <2> DEFINE b == graph.instr[i.to]
               f == FirstInstr(graph, b)
    <2>1. b \in Blocks(graph)
      BY <1>5 DEF LabelJump, Placed
    <2>2. f.op = "goto" /\ on = f.to
      BY <1>5 DEF Onward
    <2>3. CodeOK(graph, graph.code[b]) /\ f # NoInstr
      <3>1. NoInstr.op = "void"
        BY DEF NoInstr, Instr
      <3> HIDE DEF f
      <3> QED BY <2>1, <2>2, <3>1 DEF GraphOK
    <2>4. PICK k \in 1..Len(graph.code[b]) : f = graph.code[b][k]
      BY <2>3, InstrsIn
    <2>5. IsInstr(f) /\ (LabelJump(f) => Placed(graph, f.to))
      BY <2>3, <2>4, InstrOfCode
    <2> HIDE DEF f, b, on, j
    <2>6. IsInstr(j) /\ j.op = i.op /\ (LabelJump(j) => Placed(graph, j.to))
      <3>1. f.to \in Procs \cup Own \cup {source.entry} /\ (f.to \in Own => Placed(graph, f.to))
        BY <2>2, <2>5 DEF IsInstr, LabelJump, Jumps
      <3> QED BY <1>1, <1>2, <2>2, <3>1 DEF IsInstr, Instr, LabelJump
    <2> QED BY <2>6 DEF j, on
  <1> QED BY <1>1, <1>3, <1>4, <1>5

(* A call at the end of the procedure becomes a jump.                      *)
LEMMA TailCallOK ==
    ASSUME SourceOK, NEW g, GraphOK(g), NEW b \in Blocks(g), InstrPrev(g, b).op = "call"
    PROVE  /\ GraphOK([g EXCEPT !.code[b][LastOf(Code(g, b))].op = "goto"])
           /\ [g EXCEPT !.code[b][LastOf(Code(g, b))].op = "goto"].chain = g.chain
  <1> DEFINE p == LastOf(Code(g, b))
             i == [g.code[b][p] EXCEPT !.op = "goto"]
             c == [g.code[b] EXCEPT ![p] = i]
  <1>1. CodeOK(g, g.code[b])
    BY DEF GraphOK
  <1>2. p \in 1..Len(g.code[b]) /\ InstrPrev(g, b) = g.code[b][p]
    BY <1>1, InstrsIn
  <1>3. IsInstr(g.code[b][p]) /\ g.code[b][p].op = "call"
    BY <1>1, <1>2, InstrOfCode
  <1>4. IsInstr(i) /\ ~ LabelJump(i)
    <2> DEFINE x == g.code[b][p]
    <2>1. IsInstr(x) /\ x.op = "call"
      BY <1>3
    <2> HIDE DEF x
    <2>2. x = [op |-> "call", arg |-> x.arg, to |-> x.to] /\ x.to \in Procs
      BY <2>1 DEF IsInstr, Instr
    <2>3. [x EXCEPT !.op = "goto"] = [op |-> "goto", arg |-> x.arg, to |-> x.to]
      BY <2>2
    <2>4. IsInstr([x EXCEPT !.op = "goto"]) /\ ~ LabelJump([x EXCEPT !.op = "goto"])
      BY <2>2, <2>3 DEF IsInstr, Instr, LabelJump, SourceOK
    <2> QED BY <2>4 DEF x
  <1> HIDE DEF p, i
  <1>5. CodeOK(g, c)
    BY <1>1, <1>2, <1>4, CodeReplace
  <1>6. [g EXCEPT !.code[b][p].op = "goto"] = [g EXCEPT !.code[b] = c]
    BY DEF c, i
  <1> HIDE DEF c
  <1>7. GraphOK([g EXCEPT !.code[b] = c]) /\ [g EXCEPT !.code[b] = c].chain = g.chain
    BY <1>5, NewBlockCode
  <1> QED BY <1>6, <1>7 DEF p

(* The instruction at the end of all blocks that lead to a block moved to  *)
(* its beginning.                                                          *)
LEMMA GatheredOK ==
    ASSUME NEW g, GraphOK(g), NEW b \in Blocks(g), EdgesOK(g, link), SameEnds(g, b)
    PROVE  GraphOK(Gathered(g, b)) /\ Gathered(g, b).chain = g.chain
  <1> DEFINE i    == LastInstr(g, link[b].from)
             ends == link[b].callers \cup {link[b].from}
             cut  == [d \in DOMAIN g.code |->
                        IF d \in ends THEN RemoveAt(g.code[d], LastOf(BeforeGoto(g, d)))
                                      ELSE g.code[d]]
             c    == [cut EXCEPT ![b] = <<i>> \o cut[b]]
             h    == [g EXCEPT !.code = c]
  <1>1. /\ ends \subseteq Blocks(g) /\ i # NoInstr /\ i.op \notin Branches
        /\ \A d \in ends : LastInstr(g, d) = i
    BY DEF SameEnds, EdgesOK
  <1>2. /\ \A d \in Blocks(g) : CodeOK(g, g.code[d])
        /\ Blocks(g) \subseteq DOMAIN g.code /\ DOMAIN g = GraphFields
    BY DEF GraphOK
  <1>3. link[b].from \in ends
    OBVIOUS
  <1>4. IsInstr(i) /\ ~ LabelJump(i)
    BY <1>1, <1>2, <1>3, InstrsIn
  <1> HIDE DEF i, ends
  <1>5. ASSUME NEW d \in Blocks(g) PROVE CodeOK(g, cut[d])
    <2>1. CASE d \in ends
      <3> DEFINE p == LastOf(BeforeGoto(g, d))
      <3>1. p \in 1..Len(g.code[d])
        BY <1>1, <1>2, <2>1, InstrsIn
      <3>2. cut[d] = RemoveAt(g.code[d], p)
        BY <1>2, <2>1
      <3> HIDE DEF p, cut
      <3> QED BY <1>2, <3>1, <3>2, CodeRemove
    <2>2. CASE d \notin ends
      <3>1. cut[d] = g.code[d]
        BY <1>2, <2>2
      <3> QED BY <1>2, <3>1
    <2> QED BY <2>1, <2>2
  <1>6. DOMAIN cut = DOMAIN g.code
    OBVIOUS
  <1>7. Gathered(g, b) = h
    BY DEF Gathered, i, ends
  <1> HIDE DEF cut
  <1>8. CodeOK(g, <<i>> \o cut[b])
    BY <1>4, <1>5, CodePrepend
  <1>9. DOMAIN c = DOMAIN g.code /\ \A d \in Blocks(g) : c[d] = IF d = b THEN <<i>> \o cut[b] ELSE cut[d]
    BY <1>2, <1>6
  <1> HIDE DEF c
  <1>10. \A d \in Blocks(g) : CodeOK(g, c[d])
    BY <1>5, <1>8, <1>9
  <1>11. /\ DOMAIN h = GraphFields /\ h.chain = g.chain /\ h.label = g.label /\ h.instr = g.instr
         /\ h.code = c
    BY <1>2 DEF GraphFields
  <1> HIDE DEF h
  <1>12. GraphOK(h)
    BY <1>9, <1>10, <1>11, NewCode
  <1> QED BY <1>7, <1>11, <1>12

-----------------------------------------------------------------------------
\* The passes that use the edges.
Linked == {"jumps", "merge", "dead"}

\* The passes to do: one that uses the edges comes after LinkBlocks.
RestOK(r) ==
    /\ r \in Seq(Linked \cup {"use", "link"})
    /\ \A k \in 2..Len(r) : r[k] \in Linked => r[k - 1] = "link"
Unlinked(r) == r = <<>> \/ Head(r) \notin Linked

\* The inductive invariant.
GraphInv ==
    /\ source \in Sources
    /\ GraphOK(graph)
    /\ counted \subseteq Own \cup {source.entry}
    /\ RestOK(rest)
    /\ at \in {NoBlock} \cup Blocks(graph)
    /\ Unlinked(rest) => at = NoBlock
    /\ retry \in BOOLEAN /\ modified \in BOOLEAN
    /\ retry => /\ Doing("jumps") /\ at # NoBlock
                /\ EndInstr(graph, at).op \in Jumps
    /\ Doing("jumps") \/ Doing("merge") => EdgesOK(graph, link)
    /\ Doing("dead") => CallersOK(graph, link) /\ at # Head(graph.chain)

(* What the passes leave to do.                                            *)
LEMMA RestTail ==
    ASSUME NEW r, RestOK(r), r # <<>>
    PROVE  RestOK(Tail(r)) /\ (Head(r) # "link" => Unlinked(Tail(r)))
  <1> DEFINE S == Linked \cup {"use", "link"}
             t == Tail(r)
  <1>1. r \in Seq(S)
    BY DEF RestOK
  <1> HIDE DEF S
  <1>2. /\ t \in Seq(S) /\ Len(t) = Len(r) - 1 /\ Len(r) \in Nat \ {0} /\ Head(r) = r[1]
        /\ \A k \in 1..Len(t) : t[k] = r[k + 1]
    BY <1>1
  <1>3. t # <<>> => Head(t) = t[1] /\ 1 \in 1..Len(t)
    BY <1>2
  <1> HIDE DEF t
  <1>4. ASSUME NEW k \in 2..Len(t), t[k] \in Linked PROVE t[k - 1] = "link"
    <2>1. k + 1 \in 2..Len(r) /\ (k + 1) - 1 = k /\ k \in 1..Len(t)
          /\ k - 1 \in 1..Len(t) /\ (k - 1) + 1 = k
      BY <1>2
    <2>2. t[k] = r[k + 1] /\ t[k - 1] = r[k]
      BY <1>2, <2>1
    <2> QED BY <1>4, <2>1, <2>2 DEF RestOK
  <1>5. ASSUME Head(r) # "link" PROVE Unlinked(t)
    <2> SUFFICES ASSUME t # <<>>, Head(t) \in Linked PROVE FALSE
      BY DEF Unlinked
    <2>1. t[1] = r[1 + 1] /\ 2 \in 2..Len(r)
      BY <1>2, <1>3
    <2>2. r[2] \in Linked => r[2 - 1] = "link"
      BY <2>1 DEF RestOK
    <2> QED BY <1>2, <1>3, <1>5, <2>1, <2>2
  <1> QED BY <1>2, <1>4, <1>5 DEF RestOK, S, t

(* Passes put before the ones left to do.                                  *)
LEMMA RestJoin ==
    ASSUME NEW p, NEW q, RestOK(p), RestOK(q), Unlinked(p), Unlinked(q)
    PROVE  RestOK(p \o q) /\ Unlinked(p \o q)
  <1> DEFINE S == Linked \cup {"use", "link"}
             r == p \o q
  <1>1. p \in Seq(S) /\ q \in Seq(S)
    BY DEF RestOK
  <1> HIDE DEF S
  <1>2. /\ r \in Seq(S) /\ Len(r) = Len(p) + Len(q) /\ Len(p) \in Nat /\ Len(q) \in Nat
        /\ \A k \in 1..Len(r) : r[k] = IF k <= Len(p) THEN p[k] ELSE q[k - Len(p)]
    BY <1>1, JoinShape
  <1>3. r # <<>> => Head(r) = r[1] /\ 1 \in 1..Len(r)
    <2> HIDE DEF r
    <2> QED BY <1>2
  <1>4. 1 \in 1..Len(p) => p[1] \notin Linked
    BY <1>1 DEF Unlinked
  <1>5. 1 \in 1..Len(q) => q[1] \notin Linked
    BY <1>1 DEF Unlinked
  <1> HIDE DEF r
  <1>6. ASSUME NEW k \in 2..Len(r), r[k] \in Linked PROVE r[k - 1] = "link"
    <2>1. CASE k <= Len(p)
      <3>1. k \in 1..Len(r) /\ k - 1 \in 1..Len(r) /\ k - 1 <= Len(p) /\ k \in 2..Len(p)
        BY <1>2, <2>1
      <3>2. r[k] = p[k] /\ r[k - 1] = p[k - 1]
        BY <1>2, <2>1, <3>1
      <3> QED BY <1>6, <3>1, <3>2 DEF RestOK
    <2>2. CASE ~ (k <= Len(p))
      <3>1. k \in 1..Len(r) /\ k - Len(p) \in 1..Len(q)
        BY <1>2, <2>2
      <3>2. r[k] = q[k - Len(p)]
        BY <1>2, <2>2, <3>1
      <3>3. k - Len(p) # 1
        BY <1>5, <1>6, <3>1, <3>2
      <3>4. k - 1 \in 1..Len(r) /\ ~ (k - 1 <= Len(p)) /\ (k - 1) - Len(p) = (k - Len(p)) - 1
            /\ k - Len(p) \in 2..Len(q)
        BY <1>2, <2>2, <3>1, <3>3
      <3>5. r[k - 1] = q[(k - Len(p)) - 1]
        BY <1>2, <3>4
      <3> QED BY <1>6, <3>2, <3>4, <3>5 DEF RestOK
    <2> QED BY <2>1, <2>2
  <1>7. ASSUME r # <<>> PROVE Head(r) \notin Linked
    <2>1. r[1] = IF 1 <= Len(p) THEN p[1] ELSE q[1 - Len(p)]
      BY <1>2, <1>3, <1>7
    <2>2. CASE 1 <= Len(p)
      <3>1. 1 \in 1..Len(p)
        BY <1>2, <2>2
      <3> QED BY <1>3, <1>4, <1>7, <2>1, <2>2, <3>1
    <2>3. CASE ~ (1 <= Len(p))
      <3>1. 1 \in 1..Len(q) /\ 1 - Len(p) = 1
        BY <1>2, <1>3, <1>7, <2>3
      <3> QED BY <1>3, <1>5, <1>7, <2>1, <2>3, <3>1
    <2> QED BY <2>2, <2>3
  <1> QED BY <1>2, <1>6, <1>7 DEF RestOK, Unlinked, S, r

(* The passes repeated are in an order that links first.                   *)
LEMMA PassesOK ==
    /\ RestOK(<<>>) /\ Unlinked(<<>>)
    /\ RestOK(OptimizeJumps) /\ Unlinked(OptimizeJumps)
    /\ RestOK(Combined) /\ Unlinked(Combined)
    /\ RestOK(Pipeline) /\ Unlinked(Pipeline)
  <1> DEFINE S == Linked \cup {"use", "link"}
  <1>1. RestOK(<<>>) /\ Unlinked(<<>>)
    BY DEF RestOK, Unlinked
  <1>2. ASSUME NEW x \in S, NEW y \in S, NEW z \in S,
               x \notin Linked, y \in Linked => x = "link", z \in Linked => y = "link"
        PROVE  RestOK(<<x, y, z>>) /\ Unlinked(<<x, y, z>>)
    <2> DEFINE r == <<x, y, z>>
    <2>1. r \in Seq(S) /\ Len(r) = 3 /\ r[1] = x /\ r[2] = y /\ r[3] = z /\ Head(r) = x
      BY <1>2
    <2> HIDE DEF r
    <2>2. \A k \in 2..3 : k = 2 \/ k = 3
      OBVIOUS
    <2>3. ASSUME NEW k \in 2..Len(r), r[k] \in Linked PROVE r[k - 1] = "link"
      <3>1. CASE k = 2
        BY <1>2, <2>1, <2>3, <3>1
      <3>2. CASE k = 3
        BY <1>2, <2>1, <2>3, <3>2
      <3> QED BY <2>1, <2>2, <3>1, <3>2
    <2> QED BY <1>2, <2>1, <2>3 DEF RestOK, Unlinked, r
  <1>3. ASSUME NEW x \in {"use", "link"} PROVE RestOK(<<x>>) /\ Unlinked(<<x>>)
    <2> DEFINE r == <<x>>
    <2>1. r \in Seq(S) /\ Len(r) = 1 /\ Head(r) = x /\ x \notin Linked
      BY <1>3 DEF Linked
    <2> HIDE DEF r
    <2> QED BY <2>1 DEF RestOK, Unlinked, r
  <1>4. RestOK(OptimizeJumps) /\ Unlinked(OptimizeJumps)
    <2>1. RestOK(<<"link", "jumps", "link">>) /\ Unlinked(<<"link", "jumps", "link">>)
      BY <1>2 DEF Linked
    <2> QED BY <2>1 DEF OptimizeJumps
  <1>5. RestOK(Combined) /\ Unlinked(Combined)
    <2>1. RestOK(<<"use", "link", "merge">>) /\ Unlinked(<<"use", "link", "merge">>)
      BY <1>2 DEF Linked
    <2> QED BY <2>1 DEF Combined
  <1>6. RestOK(<<"use", "link", "dead">>) /\ Unlinked(<<"use", "link", "dead">>)
    BY <1>2 DEF Linked
  <1>7. /\ RestOK(<<"link">>) /\ Unlinked(<<"link">>) /\ RestOK(<<"use">>) /\ Unlinked(<<"use">>)
    BY <1>3
  <1> DEFINE a == <<"link">> \o OptimizeJumps
             b == a \o Combined
             c == b \o <<"use", "link", "dead">>
             d == c \o OptimizeJumps
             e == d \o OptimizeJumps
  <1>8. RestOK(a) /\ Unlinked(a)
    BY <1>4, <1>7, RestJoin
  <1>9. RestOK(b) /\ Unlinked(b)
    <2> HIDE DEF a
    <2> QED BY <1>5, <1>8, RestJoin
  <1>10. RestOK(c) /\ Unlinked(c)
    <2> HIDE DEF b
    <2> QED BY <1>6, <1>9, RestJoin
  <1>11. RestOK(d) /\ Unlinked(d)
    <2> HIDE DEF c
    <2> QED BY <1>4, <1>10, RestJoin
  <1>12. RestOK(e) /\ Unlinked(e)
    <2> HIDE DEF d
    <2> QED BY <1>4, <1>11, RestJoin
  <1>13. RestOK(e \o <<"use">>) /\ Unlinked(e \o <<"use">>)
    <2> HIDE DEF e
    <2> QED BY <1>7, <1>12, RestJoin
  <1>14. Pipeline = e \o <<"use">>
    BY DEF Pipeline
  <1> HIDE DEF e
  <1>15. RestOK(Pipeline) /\ Unlinked(Pipeline)
    BY <1>13, <1>14
  <1> QED BY <1>1, <1>4, <1>5, <1>15

-----------------------------------------------------------------------------
(* The source stays the same.                                              *)
LEMMA SameSource ==
    ASSUME source' = source
    PROVE  /\ Own' = Own
           /\ \A g : GraphOK(g)' <=> GraphOK(g)
           /\ \A g, e : CallersOK(g, e)' <=> CallersOK(g, e)
  <1>1. Own' = Own
    BY DEF Own
  <1>2. /\ \A i : IsInstr(i)' <=> IsInstr(i)
        /\ \A i : LabelJump(i)' <=> LabelJump(i)
    BY <1>1 DEF IsInstr, LabelJump
  <1>3. \A g, c : CodeOK(g, c)' <=> CodeOK(g, c)
    BY <1>2 DEF CodeOK
  <1>4. \A g : GraphOK(g)' <=> GraphOK(g)
    BY <1>1, <1>3 DEF GraphOK
  <1>5. \A g, e : CallersOK(g, e)' <=> CallersOK(g, e)
    <2>1. \A g, d : JumpsTo(g, d)' = JumpsTo(g, d)
      BY DEF JumpsTo
    <2> QED BY <2>1 DEF CallersOK
  <1> QED BY <1>1, <1>4, <1>5

(* What FlowGraphAssumption says of the source.                            *)
LEMMA SourceIsOK ==
    ASSUME source \in Sources
    PROVE  SourceOK
  <1>1. /\ Procs \cap Nat = {} /\ source.entry \in Nat \ Labels(source.code)
        /\ \A i \in ToSet(source.code) : i.op = "label" => i.to \in Nat \ {NoLabel}
        /\ source.code \in Seq(ToSet(source.code))
    BY FlowGraphAssumption
  <1>2. \A k \in 1..Len(source.code) : source.code[k] \in ToSet(source.code)
    BY <1>1
  <1>3. Own \subseteq Nat \ {NoLabel}
    BY <1>1, <1>2 DEF Own, Labels
  <1> QED BY <1>1, <1>3 DEF SourceOK, Own

(* A pass ends and the next one begins.                                    *)
LEMMA ProceedOK ==
    ASSUME GraphInv, NEW q, RestOK(q), Proceed(graph, q), UNCHANGED graph, ~ retry,
           counted' \subseteq Own \cup {source.entry},
           Unlinked(q) \/ (EdgesOK(graph, link') /\ CallersOK(graph, link'))
    PROVE  GraphInv'
  <1>1. /\ source' = source /\ rest' = q /\ at' = BeginAt(graph, q) /\ modified' = FALSE
        /\ retry' = FALSE
    BY DEF Proceed, GraphInv
  <1>2. Own' = Own /\ GraphOK(graph)' /\ (CallersOK(graph, link') => CallersOK(graph, link)')
    <2>1. /\ Own' = Own
          /\ \A g : GraphOK(g)' <=> GraphOK(g)
          /\ \A g, e : CallersOK(g, e)' <=> CallersOK(g, e)
      BY <1>1, SameSource
    <2>2. GraphOK(graph)'
      BY <2>1 DEF GraphInv
    <2> QED BY <2>1, <2>2
  <1>3. ChainOK(graph)
    BY DEF GraphInv, GraphOK
  <1>4. Blocks(graph)' = Blocks(graph)
    BY DEF Blocks
  <1>5. /\ Head(graph.chain) \in Blocks(graph)
        /\ NextOf(graph, Head(graph.chain)) \in Blocks(graph) \cup {NoBlock}
        /\ NextOf(graph, Head(graph.chain)) # Head(graph.chain)
    BY <1>3, ChainHead, NextOfIn
  <1>6. at' \in {NoBlock} \cup Blocks(graph)
    BY <1>1, <1>5 DEF BeginAt
  <1>7. Unlinked(q) => at' = NoBlock
    BY <1>1 DEF BeginAt, Unlinked, Linked
  <1>8. q # <<>> /\ Head(q) = "dead" => at' # Head(graph.chain)
    BY <1>1, <1>5 DEF BeginAt
  <1>9. (Doing("jumps") \/ Doing("merge"))' => EdgesOK(graph, link)'
    BY <1>1, <1>4 DEF Doing, Unlinked, Linked, EdgesOK
  <1>10. Doing("dead")' => CallersOK(graph, link)' /\ at' # Head(graph.chain)'
    BY <1>1, <1>2, <1>8 DEF Doing, Unlinked, Linked
  <1>11. RestOK(rest)' /\ (Unlinked(rest)' => at' = NoBlock)
    BY <1>1, <1>7 DEF RestOK, Unlinked
  <1> QED BY <1>1, <1>2, <1>4, <1>6, <1>9, <1>10, <1>11 DEF GraphInv

-----------------------------------------------------------------------------
(* A step within the pass under way.                                       *)
LEMMA StepOK ==
    ASSUME GraphInv, UNCHANGED <<source, counted, rest>>, GraphOK(graph'),
           at' \in {NoBlock} \cup Blocks(graph'), Unlinked(rest) => at' = NoBlock,
           retry' \in BOOLEAN, modified' \in BOOLEAN,
           retry' => /\ Doing("jumps") /\ at' # NoBlock
                     /\ EndInstr(graph', at').op \in Jumps,
           Doing("jumps") \/ Doing("merge") => EdgesOK(graph', link'),
           Doing("dead") => CallersOK(graph', link') /\ at' # Head(graph'.chain)
    PROVE  GraphInv'
  <1>1. /\ Own' = Own
        /\ \A g : GraphOK(g)' <=> GraphOK(g)
        /\ \A g, e : CallersOK(g, e)' <=> CallersOK(g, e)
    BY SameSource
  <1>2. GraphOK(graph)'
    BY <1>1
  <1>3. (Doing("jumps") \/ Doing("merge"))' => EdgesOK(graph, link)'
    BY DEF Doing, EdgesOK, Blocks
  <1>4. Doing("dead")' => CallersOK(graph, link)' /\ at' # Head(graph.chain)'
    BY <1>1 DEF Doing
  <1>5. (retry => Doing("jumps") /\ at # NoBlock /\ EndInstr(graph, at).op \in Jumps)'
    BY DEF Doing, EndInstr
  <1>6. (at \in {NoBlock} \cup Blocks(graph))'
    BY DEF Blocks
  <1>7. RestOK(rest)' /\ (Unlinked(rest)' => at' = NoBlock)
    BY DEF GraphInv, RestOK, Unlinked
  <1> QED BY <1>1, <1>2, <1>3, <1>4, <1>5, <1>6, <1>7 DEF GraphInv

(* The edges lead to blocks while the chain stays the same.                *)
LEMMA SameChain ==
    ASSUME NEW g, NEW h, h.chain = g.chain
    PROVE  /\ Blocks(h) = Blocks(g) /\ \A b : NextOf(h, b) = NextOf(g, b)
           /\ \A e : EdgesOK(h, e) <=> EdgesOK(g, e)
  <1>1. Blocks(h) = Blocks(g)
    BY DEF Blocks
  <1> QED BY <1>1 DEF NextOf, Place, EdgesOK

(* LinkBlocks removes one block, or finds the edges.                       *)
LEMMA LinkStep == GraphInv /\ LinkBlocks => GraphInv'
  <1> SUFFICES ASSUME GraphInv, LinkBlocks PROVE GraphInv'
    OBVIOUS
  <1> DEFINE e == Edges(graph)
             b == FirstRemovable(graph, e)
  <1>1. /\ SourceOK /\ GraphOK(graph) /\ ChainOK(graph) /\ Doing("link") /\ RestOK(rest)
    BY SourceIsOK DEF GraphInv, GraphOK, LinkBlocks
  <1>2. rest # <<>> /\ Unlinked(rest) /\ ~ Doing("jumps") /\ ~ Doing("merge") /\ ~ Doing("dead")
    BY <1>1 DEF Doing, Unlinked, Linked
  <1>3. at = NoBlock /\ ~ retry
    BY <1>2 DEF GraphInv
  <1>4. CASE Removable(graph, e) # {}
    <2>1. /\ graph' = IF Mergeable(graph, e, b) THEN Merged(graph, e, b)
                      ELSE Bypassed(graph, e, b)
          /\ UNCHANGED <<source, link, counted, rest, at, retry, modified, run>>
      BY <1>4 DEF LinkBlocks
    <2>2. b \in Blocks(graph) /\ (Mergeable(graph, e, b) \/ EmptyBlock(graph, e, b))
      <3> HIDE DEF e
      <3>1. b \in Removable(graph, e)
        BY <1>1, <1>4, FirstRemovableIn
      <3> HIDE DEF b
      <3> QED BY <3>1 DEF Removable
    <2> HIDE DEF b
    <2>3. GraphOK(graph')
      BY <1>1, <2>1, <2>2, MergedOK, BypassedOK
    <2> QED BY <1>1, <1>2, <1>3, <2>1, <2>3, StepOK DEF GraphInv
  <1>5. CASE Removable(graph, e) = {}
    <2>1. link' = e /\ UNCHANGED <<graph, counted>> /\ Proceed(graph, Tail(rest))
      BY <1>5 DEF LinkBlocks
    <2>2. EdgesOK(graph, link') /\ CallersOK(graph, link')
      BY <1>1, <2>1, EdgesIn
    <2>3. RestOK(Tail(rest))
      BY <1>1, <1>2, RestTail
    <2> QED BY <1>3, <2>1, <2>2, <2>3, ProceedOK DEF GraphInv
  <1> QED BY <1>4, <1>5

(* VarUse counts the labels jumped to.                                     *)
LEMMA UseStep == GraphInv /\ VarUse => GraphInv'
  <1> SUFFICES ASSUME GraphInv, VarUse PROVE GraphInv'
    OBVIOUS
  <1>1. /\ GraphOK(graph) /\ Doing("use") /\ RestOK(rest) /\ rest # <<>>
        /\ Head(rest) = "use" /\ ~ retry
    BY DEF GraphInv, VarUse, Doing
  <1>2. RestOK(Tail(rest)) /\ Unlinked(Tail(rest))
    BY <1>1, RestTail
  <1>3. counted' \subseteq Own \cup {source.entry}
    <2>1. counted' = UNION {LabelsUsed(graph.code[b]) : b \in Blocks(graph)}
      BY DEF VarUse
    <2>2. ASSUME NEW b \in Blocks(graph)
          PROVE  LabelsUsed(graph.code[b]) \subseteq Own \cup {source.entry}
      <3>1. CodeOK(graph, graph.code[b])
        BY <1>1 DEF GraphOK
      <3> QED BY <3>1 DEF LabelsUsed, CodeOK, IsInstr
    <2> QED BY <2>1, <2>2
  <1> QED BY <1>1, <1>2, <1>3, ProceedOK DEF VarUse

(* OptimizeJumps does one block.                                           *)
LEMMA JumpsStep == GraphInv /\ JumpsBlock => GraphInv'
  <1> SUFFICES ASSUME GraphInv, JumpsBlock PROVE GraphInv'
    OBVIOUS
  <1> DEFINE g == WithoutNullJump(at)
  <1>1. /\ SourceOK /\ GraphOK(graph) /\ ChainOK(graph) /\ Doing("jumps") /\ at \in Blocks(graph)
        /\ EdgesOK(graph, link) /\ at # NoBlock /\ modified \in BOOLEAN
        /\ ~ Doing("dead") /\ ~ Doing("merge") /\ ~ Unlinked(rest)
    BY SourceIsOK DEF GraphInv, GraphOK, JumpsBlock, Doing, Unlinked, Linked
  <1>2. /\ graph' = IF AroundJump(g, at) /\ InstrRelSwap(EndInstr(g, at))
                    THEN Swapped(g, at) ELSE g
        /\ link' = [link EXCEPT ![at].condTo = CondToAfter(at)]
        /\ IF EndInstr(graph', at).op \in Jumps
           THEN retry' = TRUE /\ at' = at
           ELSE retry' = FALSE /\ at' = NextOf(graph', at)
        /\ UNCHANGED <<source, counted, rest, modified>> /\ link[at].to # NoBlock
    BY DEF JumpsBlock
  <1>3. GraphOK(g) /\ g.chain = graph.chain
    <2>1. \/ g = DeleteLast(graph, at) /\ InstrPrev(graph, at).op \in Jumps
          \/ g = graph
      BY DEF WithoutNullJump, Jumps
    <2>2. InstrPrev(graph, at).op \in Jumps => InstrPrev(graph, at).op # "void"
      BY DEF Jumps, Branches
    <2> HIDE DEF g
    <2> QED BY <1>1, <2>1, <2>2, DeleteLastOK
  <1>4. GraphOK(graph') /\ graph'.chain = graph.chain
    <2>1. CASE AroundJump(g, at) /\ InstrRelSwap(EndInstr(g, at))
      <3>1. Blocks(g) = Blocks(graph)
        BY <1>3, SameChain
      <3>2. link[at].to \in Blocks(g)
        BY <1>1, <1>2, <3>1 DEF EdgesOK
      <3>3. EndInstr(g, at).op \in Branches /\ FirstInstr(g, link[at].to).op = "goto"
        BY <2>1 DEF AroundJump, InstrRelSwap
      <3> HIDE DEF g
      <3>4. GraphOK(Swapped(g, at)) /\ Swapped(g, at).chain = g.chain
        BY <1>1, <1>3, <3>1, <3>2, <3>3, SwappedOK
      <3> QED BY <1>2, <1>3, <2>1, <3>4
    <2>2. CASE ~ (AroundJump(g, at) /\ InstrRelSwap(EndInstr(g, at)))
      <3> HIDE DEF g
      <3> QED BY <1>2, <1>3, <2>2
    <2> QED BY <2>1, <2>2
  <1>5. /\ Blocks(graph') = Blocks(graph) /\ NextOf(graph', at) = NextOf(graph, at)
        /\ \A e : EdgesOK(graph', e) <=> EdgesOK(graph, e)
    BY <1>4, SameChain
  <1>6. EdgesOK(graph, link')
    <2>1. CondToAfter(at) \in Blocks(graph) \cup {NoBlock}
      BY <1>1 DEF CondToAfter, EdgesOK
    <2>2. ASSUME NEW b \in Blocks(graph)
          PROVE  /\ b \in DOMAIN link' /\ {"to", "condTo", "from", "callers"} = DOMAIN link'[b]
                 /\ {link'[b].to, link'[b].condTo, link'[b].from} \subseteq Blocks(graph) \cup {NoBlock}
                 /\ link'[b].callers \subseteq Blocks(graph)
      <3>1. /\ b \in DOMAIN link /\ {"to", "condTo", "from", "callers"} = DOMAIN link[b]
            /\ link[b].to \in Blocks(graph) \cup {NoBlock}
            /\ link[b].condTo \in Blocks(graph) \cup {NoBlock}
            /\ link[b].from \in Blocks(graph) \cup {NoBlock}
            /\ link[b].callers \subseteq Blocks(graph)
        BY <1>1 DEF EdgesOK
      <3>2. DOMAIN link' = DOMAIN link
        BY <1>2
      <3>3. CASE b # at
        <4>1. link'[b] = link[b]
          BY <1>2, <3>1, <3>3
        <4> QED BY <3>1, <3>2, <4>1
      <3>4. CASE b = at
        <4>1. link'[b] = [link[b] EXCEPT !.condTo = CondToAfter(at)]
          BY <1>2, <3>1, <3>4
        <4>2. /\ DOMAIN link'[b] = DOMAIN link[b] /\ link'[b].condTo = CondToAfter(at)
              /\ link'[b].to = link[b].to /\ link'[b].from = link[b].from
              /\ link'[b].callers = link[b].callers
          BY <3>1, <4>1
        <4> QED BY <2>1, <3>1, <3>2, <4>2
      <3> QED BY <3>3, <3>4
    <2> QED BY <2>2 DEF EdgesOK
  <1>7. NextOf(graph, at) \in Blocks(graph) \cup {NoBlock}
    BY <1>1, NextOfIn
  <1>8. /\ at' \in {NoBlock} \cup Blocks(graph') /\ retry' \in BOOLEAN
        /\ retry' => at' # NoBlock /\ EndInstr(graph', at').op \in Jumps
    BY <1>1, <1>2, <1>5, <1>7
  <1> HIDE DEF g
  <1> QED BY <1>1, <1>2, <1>4, <1>5, <1>6, <1>8, StepOK

(* OptimizeJumps follows a jump to a jump.                                 *)
LEMMA JumpToJumpStep == GraphInv /\ JumpToJump => GraphInv'
  <1> SUFFICES ASSUME GraphInv, JumpToJump PROVE GraphInv'
    OBVIOUS
  <1> DEFINE i == EndInstr(graph, at)
             on == Onward(i.to)
             n == Len(graph.code[at])
  <1>1. /\ SourceOK /\ GraphOK(graph) /\ ChainOK(graph) /\ Doing("jumps") /\ at \in Blocks(graph)
        /\ EdgesOK(graph, link) /\ at # NoBlock /\ modified \in BOOLEAN /\ i.op \in Jumps
        /\ ~ Doing("dead") /\ ~ Doing("merge") /\ ~ Unlinked(rest)
    BY SourceIsOK DEF GraphInv, GraphOK, JumpToJump, Doing, Unlinked, Linked
  <1>2. UNCHANGED <<source, link, counted, rest, modified>>
    BY DEF JumpToJump
  <1>3. CASE on = NoLabel
    <2>1. at' = NextOf(graph, at) /\ retry' = FALSE /\ graph' = graph
      BY <1>3 DEF JumpToJump
    <2>2. NextOf(graph, at) \in Blocks(graph) \cup {NoBlock}
      BY <1>1, NextOfIn
    <2> QED BY <1>1, <1>2, <2>1, <2>2, StepOK
  <1>4. CASE on # NoLabel
    <2> DEFINE j == [i EXCEPT !.to = on]
               c == [graph.code[at] EXCEPT ![n] = j]
               h == [graph EXCEPT !.code[at] = c]
    <2>1. graph' = [graph EXCEPT !.code[at][n].to = on] /\ UNCHANGED <<at, retry>> /\ retry
      BY <1>4 DEF JumpToJump
    <2>2. /\ CodeOK(graph, graph.code[at]) /\ i.op # "void"
      BY <1>1 DEF GraphOK, Jumps, Branches
    <2>3. /\ IsInstr(i) /\ (LabelJump(i) => Placed(graph, i.to)) /\ graph.code[at] # <<>>
          /\ i = graph.code[at][n]
      BY <2>2, EndInstrOK
    <2>4. graph' = h
      BY <2>1, <2>3
    <2> HIDE DEF i, on, n
    <2>5. IsInstr(j) /\ j.op = i.op /\ (LabelJump(j) => Placed(graph, j.to))
      BY <1>1, <1>4, <2>3, OnwardOK DEF on
    <2> HIDE DEF j
    <2>6. GraphOK(h) /\ h.chain = graph.chain /\ EndInstr(h, at) = j
      <3>1. /\ GraphOK(graph) /\ at \in Blocks(graph) /\ graph.code[at] # <<>>
            /\ IsInstr(j) /\ (LabelJump(j) => Placed(graph, j.to))
        BY <1>1, <2>3, <2>5
      <3>2. c = [graph.code[at] EXCEPT ![Len(graph.code[at])] = j]
        BY DEF n
      <3>3. h = [graph EXCEPT !.code[at] = c]
        OBVIOUS
      <3> HIDE DEF c, h
      <3> QED BY <3>1, <3>2, <3>3, NewEndOK
    <2> HIDE DEF h
    <2>7. Blocks(h) = Blocks(graph) /\ \A e : EdgesOK(h, e) <=> EdgesOK(graph, e)
      BY <2>6, SameChain
    <2>8. retry' = TRUE
      BY <2>1 DEF GraphInv
    <2> QED BY <1>1, <1>2, <2>1, <2>4, <2>5, <2>6, <2>7, <2>8, StepOK
  <1> QED BY <1>3, <1>4

(* OptimizeJumps does the block the procedure ends with.                   *)
LEMMA TailCallStep == GraphInv /\ TailCall => GraphInv'
  <1> SUFFICES ASSUME GraphInv, TailCall PROVE GraphInv'
    OBVIOUS
  <1>1. /\ SourceOK /\ GraphOK(graph) /\ ChainOK(graph) /\ Doing("jumps") /\ at \in Blocks(graph)
        /\ EdgesOK(graph, link) /\ modified \in BOOLEAN
        /\ ~ Doing("dead") /\ ~ Doing("merge") /\ ~ Unlinked(rest)
    BY SourceIsOK DEF GraphInv, GraphOK, TailCall, Doing, Unlinked, Linked
  <1>2. /\ graph' = (IF InstrPrev(graph, at).op = "call" /\ ~source.interrupt
                    THEN [graph EXCEPT !.code[at][LastOf(Code(graph, at))].op = "goto"]
                    ELSE graph)
        /\ at' = NextOf(graph, at) /\ ~ retry
        /\ UNCHANGED <<source, link, counted, rest, retry, modified>>
    BY DEF TailCall
  <1>3. GraphOK(graph') /\ graph'.chain = graph.chain
    BY <1>1, <1>2, TailCallOK
  <1>4. Blocks(graph') = Blocks(graph) /\ \A e : EdgesOK(graph', e) <=> EdgesOK(graph, e)
    BY <1>3, SameChain
  <1>5. NextOf(graph, at) \in Blocks(graph) \cup {NoBlock}
    BY <1>1, NextOfIn
  <1>6. retry' \in BOOLEAN /\ ~ retry'
    BY <1>2 DEF GraphInv
  <1> QED BY <1>1, <1>2, <1>3, <1>4, <1>5, <1>6, StepOK

(* DeadCodeElimination does one block.                                     *)
LEMMA DeadStep == GraphInv /\ DeadBlock => GraphInv'
  <1> SUFFICES ASSUME GraphInv, DeadBlock PROVE GraphInv'
    OBVIOUS
  <1> DEFINE dead == /\ link[at].from = NoBlock /\ link[at].callers = {}
                     /\ Uncounted(graph, at)
             first == Head(graph.chain)
  <1>1. /\ SourceOK /\ GraphOK(graph) /\ ChainOK(graph) /\ DOMAIN graph = GraphFields
        /\ Doing("dead") /\ at \in Blocks(graph) /\ at # NoBlock
        /\ CallersOK(graph, link) /\ at # first /\ modified \in BOOLEAN
        /\ ~ Doing("jumps") /\ ~ Doing("merge") /\ ~ Unlinked(rest) /\ retry = FALSE
    BY SourceIsOK DEF GraphInv, GraphOK, DeadBlock, Doing, Unlinked, Linked
  <1>2. /\ graph' = (IF dead THEN Unchain(graph, at) ELSE graph)
        /\ modified' = (modified \/ dead) /\ at' = NextOf(graph, at)
        /\ UNCHANGED <<source, link, counted, rest, retry>>
    BY DEF DeadBlock
  <1>3. /\ NextOf(graph, at) \in Blocks(graph) \cup {NoBlock} /\ NextOf(graph, at) # at
        /\ NextOf(graph, at) # first /\ first \in Blocks(graph)
    BY <1>1, NextOfIn, ChainHead
  <1>4. modified' \in BOOLEAN
    BY <1>1, <1>2
  <1>5. CASE dead
    <2> DEFINE h == Unchain(graph, at)
    <2>1. \A d \in Blocks(graph) : JumpsTo(graph, d) # at
      BY <1>1, <1>5 DEF CallersOK
    <2>2. GraphOK(h)
      BY <1>1, <1>3, <2>1, UnchainUnused
    <2>3. /\ Blocks(h) = Blocks(graph) \ {at} /\ Head(h.chain) = first
          /\ h.code = graph.code /\ h.instr = graph.instr
      BY <1>1, <1>3, UnchainShape
    <2>4. graph' = h
      BY <1>2, <1>5
    <2> HIDE DEF h, first
    <2>5. CallersOK(h, link)
      <3>1. \A d : JumpsTo(h, d) = JumpsTo(graph, d)
        BY <2>3 DEF JumpsTo, EndInstr
      <3> QED BY <1>1, <2>3, <3>1 DEF CallersOK
    <2> QED BY <1>1, <1>2, <1>3, <1>4, <2>2, <2>3, <2>4, <2>5, StepOK
  <1>6. CASE ~ dead
    <2>1. graph' = graph
      BY <1>2, <1>6
    <2> HIDE DEF dead
    <2> QED BY <1>1, <1>2, <1>3, <1>4, <2>1, StepOK
  <1> QED BY <1>5, <1>6

(* OptimizeMergeBranchCode does one block.                                 *)
LEMMA MergeStep == GraphInv /\ MergeBlock => GraphInv'
  <1> SUFFICES ASSUME GraphInv, MergeBlock PROVE GraphInv'
    OBVIOUS
  <1>1. /\ SourceOK /\ GraphOK(graph) /\ ChainOK(graph) /\ Doing("merge") /\ at \in Blocks(graph)
        /\ EdgesOK(graph, link) /\ modified \in BOOLEAN
        /\ ~ Doing("dead") /\ ~ Doing("jumps") /\ ~ Unlinked(rest) /\ retry = FALSE
    BY SourceIsOK DEF GraphInv, GraphOK, MergeBlock, Doing, Unlinked, Linked
  <1>2. /\ graph' = (IF SameEnds(graph, at) THEN Gathered(graph, at) ELSE graph)
        /\ modified' = (modified \/ SameEnds(graph, at)) /\ at' = NextOf(graph, at)
        /\ UNCHANGED <<source, link, counted, rest, retry>>
    BY DEF MergeBlock
  <1>3. GraphOK(graph') /\ graph'.chain = graph.chain
    BY <1>1, <1>2, GatheredOK
  <1>4. Blocks(graph') = Blocks(graph) /\ \A e : EdgesOK(graph', e) <=> EdgesOK(graph, e)
    BY <1>3, SameChain
  <1>5. NextOf(graph, at) \in Blocks(graph) \cup {NoBlock} /\ modified' \in BOOLEAN
    BY <1>1, <1>2, NextOfIn
  <1> QED BY <1>1, <1>2, <1>3, <1>4, <1>5, StepOK

(* A pass has done all blocks.                                             *)
LEMMA DoneStep == GraphInv /\ (JumpsDone \/ DeadDone \/ MergeDone) => GraphInv'
  <1> SUFFICES ASSUME GraphInv, JumpsDone \/ DeadDone \/ MergeDone PROVE GraphInv'
    OBVIOUS
  <1>1. /\ RestOK(rest) /\ rest # <<>> /\ Head(rest) # "link" /\ UNCHANGED <<graph, link, counted>>
        /\ at = NoBlock /\ ~ retry
    BY DEF GraphInv, JumpsDone, DeadDone, MergeDone, Doing
  <1>2. RestOK(Tail(rest)) /\ Unlinked(Tail(rest))
    BY <1>1, RestTail
  <1>3. PICK p \in {<<>>, OptimizeJumps, Combined} :
           Proceed(graph, p \o Tail(rest)) \/ Proceed(graph, Tail(rest))
    BY DEF JumpsDone, DeadDone, MergeDone
  <1>4. RestOK(p \o Tail(rest)) /\ Unlinked(p \o Tail(rest))
    BY <1>2, PassesOK, RestJoin
  <1>5. counted' \subseteq Own \cup {source.entry}
    BY <1>1 DEF GraphInv
  <1> QED BY <1>1, <1>2, <1>3, <1>4, <1>5, ProceedOK

(* A run of the code changes nothing of the graph.                         *)
LEMMA RunStep ==
    ASSUME GraphInv,
           UNCHANGED <<source, graph, link, counted, rest, at, retry, modified>>
    PROVE  GraphInv'
  <1>1. at \in {NoBlock} \cup Blocks(graph)
    BY DEF GraphInv
  <1> QED BY <1>1, StepOK DEF GraphInv

(* Every step keeps the invariant, ...                                     *)
LEMMA GraphNext == GraphInv /\ [Next]_vars => GraphInv'
  <1> SUFFICES ASSUME GraphInv, [Next]_vars PROVE GraphInv'
    OBVIOUS
  <1>1. CASE Compile
    BY <1>1, LinkStep, UseStep, JumpsStep, JumpToJumpStep, TailCallStep, DeadStep, MergeStep,
       DoneStep DEF Compile
  <1>2. CASE StartRun \/ RunOn \/ Finished \/ UNCHANGED vars
    BY <1>2, RunStep DEF StartRun, RunOn, Finished, vars
  <1> QED BY <1>1, <1>2 DEF Next

-----------------------------------------------------------------------------
\* How many elements of S are not beyond i.
Rank(S, i) == Cardinality({j \in S : j <= i})

(* The ranks of the positions in a set are 1 to their number, in order.    *)
LEMMA Ranks ==
    ASSUME NEW N \in Nat, NEW S, S \subseteq 1..N, S # {}
    PROVE  /\ Cardinality(S) \in Nat \ {0}
           /\ \A i \in S : Rank(S, i) \in 1..Cardinality(S)
           /\ \A i \in S, j \in S : i < j => Rank(S, i) < Rank(S, j)
           /\ \A b \in 1..Cardinality(S) : \E i \in S : Rank(S, i) = b
  <1> DEFINE n == Cardinality(S)
             below(i) == {j \in S : j <= i}
  <1>1. IsFiniteSet(S) /\ n \in Nat
    <2>1. IsFiniteSet(1..N)
      BY FS_Interval
    <2>2. S \in SUBSET (1..N)
      OBVIOUS
    <2> QED BY <2>1, <2>2, FS_Subset, FS_CardinalityType
  <1>2. n # 0
    BY <1>1, FS_EmptySet
  <1>3. ASSUME NEW i \in S
        PROVE  IsFiniteSet(below(i)) /\ Rank(S, i) \in 1..n
    <2>1. below(i) \in SUBSET S /\ i \in below(i)
      OBVIOUS
    <2>2. IsFiniteSet(below(i)) /\ Cardinality(below(i)) <= n
      <3> HIDE DEF below
      <3> QED BY <1>1, <2>1, FS_Subset
    <2>3. Cardinality(below(i)) \in Nat /\ Cardinality(below(i)) # 0
      <3> HIDE DEF below
      <3> QED BY <2>1, <2>2, FS_CardinalityType, FS_EmptySet
    <2>4. Rank(S, i) = Cardinality(below(i))
      BY DEF Rank
    <2> HIDE DEF n, below
    <2> QED BY <1>1, <2>2, <2>3, <2>4
  <1>4. \A i \in S : Rank(S, i) \in 1..n
    BY <1>3
  <1>5. ASSUME NEW i \in S, NEW j \in S, i < j PROVE Rank(S, i) < Rank(S, j)
    <2>1. below(i) \in SUBSET below(j) /\ j \in below(j) /\ j \notin below(i)
      <3>1. \A k \in S : k \in Nat
        OBVIOUS
      <3>2. \A k \in S : k <= i => k <= j
        BY <1>5, <3>1
      <3>3. ~ (j <= i) /\ j <= j
        BY <1>5, <3>1
      <3>4. \A k \in below(i) : k \in below(j)
        BY <3>2
      <3>5. j \in below(j) /\ j \notin below(i)
        BY <3>3
      <3> HIDE DEF below
      <3> QED BY <3>4, <3>5
    <2>2. IsFiniteSet(below(j))
      BY <1>3
    <2> HIDE DEF below
    <2>3. Cardinality(below(i)) <= Cardinality(below(j))
          /\ (Cardinality(below(j)) = Cardinality(below(i)) => below(j) = below(i))
      BY <2>1, <2>2, FS_Subset
    <2>4. Cardinality(below(i)) # Cardinality(below(j))
      BY <2>1, <2>3
    <2>5. Rank(S, i) = Cardinality(below(i)) /\ Rank(S, j) = Cardinality(below(j))
      BY DEF Rank, below
    <2>6. Rank(S, i) \in Nat /\ Rank(S, j) \in Nat
      BY <1>4
    <2> QED BY <2>3, <2>4, <2>5, <2>6
  <1>6. \A i \in S, j \in S : Rank(S, i) = Rank(S, j) => i = j
    <2> SUFFICES ASSUME NEW i \in S, NEW j \in S, i # j PROVE Rank(S, i) # Rank(S, j)
      OBVIOUS
    <2>1. i < j \/ j < i
      OBVIOUS
    <2>2. Rank(S, i) < Rank(S, j) \/ Rank(S, j) < Rank(S, i)
      BY <1>5, <2>1
    <2>3. Rank(S, i) \in Nat /\ Rank(S, j) \in Nat
      BY <1>4
    <2> QED BY <2>2, <2>3
  <1>7. \A b \in 1..n : \E i \in S : Rank(S, i) = b
    <2> DEFINE f == [i \in S |-> Rank(S, i)]
    <2> HIDE DEF n
    <2>1. f \in Injection(S, 1..n)
      BY <1>4, <1>6 DEF Injection, IsInjective
    <2>2. IsFiniteSet(1..n) /\ Cardinality(1..n) = n
      BY <1>1, <1>2, FS_Interval
    <2>3. f \in Surjection(S, 1..n)
      <3> HIDE DEF f
      <3> QED BY <2>1, <2>2, FS_Injection DEF n
    <2> QED BY <2>3 DEF Surjection
  <1> QED BY <1>1, <1>2, <1>4, <1>5, <1>7

-----------------------------------------------------------------------------
\* Where block b of code c begins and ends.
StartOf(c, b) == CHOOSE i \in Starts(c) : Rank(Starts(c), i) = b
EndOf(c, b)   == IF b = Cardinality(Starts(c)) THEN Len(c) ELSE StartOf(c, b + 1) - 1

(* Every start is that of one block, and there is none within a block.     *)
LEMMA StartsOK ==
    ASSUME NEW T, NEW c \in Seq(T), c # <<>>
    PROVE  /\ Cardinality(Starts(c)) \in Nat \ {0}
           /\ \A b \in 1..Cardinality(Starts(c)) :
                 /\ StartOf(c, b) \in Starts(c) /\ StartOf(c, b) \in 1..Len(c)
                 /\ EndOf(c, b) \in 1..Len(c)
                 /\ \A k \in Starts(c) : ~ (StartOf(c, b) < k /\ k <= EndOf(c, b))
           /\ \A i \in Starts(c) : \E b \in 1..Cardinality(Starts(c)) : StartOf(c, b) = i
           /\ \A b \in 1..Cardinality(Starts(c)), d \in 1..Cardinality(Starts(c)) :
                 StartOf(c, b) = StartOf(c, d) => b = d
  <1> DEFINE S == Starts(c)
             n == Cardinality(S)
  <1>1. Len(c) \in Nat \ {0} /\ S \subseteq 1..Len(c) /\ 1 \in S
    BY DEF Starts
  <1> HIDE DEF S
  <1>2. /\ n \in Nat \ {0}
        /\ \A i \in S : Rank(S, i) \in 1..n
        /\ \A i \in S, j \in S : i < j => Rank(S, i) < Rank(S, j)
        /\ \A b \in 1..n : \E i \in S : Rank(S, i) = b
    BY <1>1, Ranks
  <1> HIDE DEF n
  <1>3. ASSUME NEW b \in 1..n PROVE StartOf(c, b) \in S /\ Rank(S, StartOf(c, b)) = b
    <2>1. \E i \in S : Rank(S, i) = b
      BY <1>2
    <2> QED BY <2>1 DEF StartOf, S
  <1>4. \A i \in S, j \in S : Rank(S, i) = Rank(S, j) => i = j
    <2> SUFFICES ASSUME NEW i \in S, NEW j \in S, i # j PROVE Rank(S, i) # Rank(S, j)
      OBVIOUS
    <2>1. i < j \/ j < i
      BY <1>1
    <2>2. Rank(S, i) < Rank(S, j) \/ Rank(S, j) < Rank(S, i)
      BY <1>2, <2>1
    <2>3. Rank(S, i) \in Nat /\ Rank(S, j) \in Nat
      BY <1>2
    <2> QED BY <2>2, <2>3
  <1>5. ASSUME NEW i \in S PROVE \E b \in 1..n : StartOf(c, b) = i
    <2>1. Rank(S, i) \in 1..n
      BY <1>2
    <2>2. StartOf(c, Rank(S, i)) = i
      BY <1>3, <1>4, <2>1
    <2> QED BY <2>1, <2>2
  <1>6. ASSUME NEW b \in 1..n
        PROVE  EndOf(c, b) \in 1..Len(c) /\ \A k \in S : ~ (StartOf(c, b) < k /\ k <= EndOf(c, b))
    <2>1. StartOf(c, b) \in S /\ Rank(S, StartOf(c, b)) = b
      BY <1>3
    <2>2. CASE b = n
      <3>1. EndOf(c, b) = Len(c)
        BY <2>2 DEF EndOf, n, S
      <3>2. ASSUME NEW k \in S, StartOf(c, b) < k PROVE FALSE
        <4>1. b < Rank(S, k) /\ Rank(S, k) \in 1..n
          BY <1>2, <2>1, <3>2
        <4> QED BY <1>2, <2>2, <4>1
      <3> QED BY <1>1, <3>1, <3>2
    <2>3. CASE b # n
      <3> DEFINE e == StartOf(c, b + 1)
      <3>1. b + 1 \in 1..n
        BY <1>2, <2>3
      <3>2. e \in S /\ Rank(S, e) = b + 1
        BY <1>3, <3>1
      <3>3. EndOf(c, b) = e - 1
        BY <2>3 DEF EndOf, n, S
      <3> HIDE DEF e
      <3>4. StartOf(c, b) < e
        <4>1. StartOf(c, b) \in Nat /\ e \in Nat /\ b # b + 1
          <5>1. \A i \in S : i \in Nat
            BY <1>1
          <5>2. b # b + 1
            BY <1>2
          <5> QED BY <2>1, <3>2, <5>1, <5>2
        <4>3. StartOf(c, b) # e
          BY <2>1, <3>2, <4>1
        <4>2. e < StartOf(c, b) => b + 1 < b
          BY <1>2, <2>1, <3>2
        <4> QED BY <1>2, <4>1, <4>2, <4>3
      <3>5. ASSUME NEW k \in S, StartOf(c, b) < k, k <= e - 1 PROVE FALSE
        <4>1. k < e
          BY <1>1, <3>2, <3>5
        <4>2. b < Rank(S, k) /\ Rank(S, k) < b + 1 /\ Rank(S, k) \in 1..n
          BY <1>2, <2>1, <3>2, <3>5, <4>1
        <4> QED BY <1>2, <4>2
      <3>6. e - 1 \in 1..Len(c)
        <4>1. StartOf(c, b) \in 1..Len(c) /\ e \in 1..Len(c)
          BY <1>1, <2>1, <3>2
        <4> QED BY <1>1, <3>4, <4>1
      <3> QED BY <3>3, <3>5, <3>6
    <2> QED BY <2>2, <2>3
  <1>7. \A b \in 1..n, d \in 1..n : StartOf(c, b) = StartOf(c, d) => b = d
    BY <1>3
  <1>8. \A b \in 1..n : StartOf(c, b) \in S /\ StartOf(c, b) \in 1..Len(c)
    BY <1>1, <1>3
  <1> QED BY <1>2, <1>5, <1>6, <1>7, <1>8 DEF n, S

(* The label kept of labels that follow each other begins a block.         *)
LEMMA KeptStarts ==
    ASSUME NEW T, NEW c \in Seq(T), NEW l \in Labels(c)
    PROVE  \E q \in Starts(c) : c[q].op = "label" /\ Kept(c, l) = c[q].to
  <1> DEFINE p == CHOOSE i \in 1..Len(c) : c[i].op = "label" /\ c[i].to = l
             I == {i \in 1..p : \A j \in i..p : c[j].op = "label"}
             q == CHOOSE i \in 1..p : /\ \A j \in i..p : c[j].op = "label"
                                      /\ i = 1 \/ c[i - 1].op # "label"
  <1>1. p \in 1..Len(c) /\ c[p].op = "label"
    <2>1. \E i \in 1..Len(c) : c[i].op = "label" /\ c[i].to = l
      BY DEF Labels
    <2> QED BY <2>1
  <1>2. Len(c) \in Nat
    OBVIOUS
  <1> HIDE DEF p
  <1>3. p \in I /\ I \subseteq Nat
    BY <1>1, <1>2
  <1>4. PICK m \in I : \A i \in I : m <= i
    <2> HIDE DEF I
    <2> QED BY <1>3, NatMinimum
  <1>5. m \in 1..p /\ (\A j \in m..p : c[j].op = "label") /\ (m = 1 \/ c[m - 1].op # "label")
    <2>1. m \in 1..p /\ \A j \in m..p : c[j].op = "label"
      BY <1>4
    <2>2. ASSUME m # 1, c[m - 1].op = "label" PROVE FALSE
      <3>1. m - 1 \in 1..p /\ \A j \in (m - 1)..p : j = m - 1 \/ j \in m..p
        BY <1>1, <1>2, <2>1, <2>2
      <3>2. m - 1 \in I
        BY <2>1, <2>2, <3>1
      <3>3. m <= m - 1
        BY <1>4, <3>2
      <3> QED BY <1>1, <1>2, <2>1, <3>3
    <2> QED BY <2>1, <2>2
  <1>6. /\ q \in 1..p /\ (\A j \in q..p : c[j].op = "label") /\ (q = 1 \/ c[q - 1].op # "label")
    <2>1. \E i \in 1..p : /\ \A j \in i..p : c[j].op = "label"
                          /\ i = 1 \/ c[i - 1].op # "label"
      BY <1>5
    <2> QED BY <2>1
  <1>7. Kept(c, l) = c[q].to
    BY DEF Kept, p
  <1> HIDE DEF q
  <1>8. q \in 1..Len(c) /\ q \in q..p
    BY <1>1, <1>2, <1>6
  <1>9. q \in Starts(c) /\ c[q].op = "label"
    BY <1>6, <1>8 DEF Starts
  <1> QED BY <1>7, <1>9

-----------------------------------------------------------------------------
(* A part of a sequence.                                                   *)
LEMMA PartShape ==
    ASSUME NEW U, NEW s \in Seq(U), NEW a \in Nat \ {0}, NEW e \in 1..Len(s)
    PROVE  LET d == SubSeq(s, a, e) IN
           /\ d \in Seq(U)
           /\ \A k \in 1..Len(d) : /\ d[k] = s[(a + k) - 1] /\ (a + k) - 1 \in a..e
                                   /\ (a + k) - 1 = e => k = Len(d)
  <1> DEFINE d == SubSeq(s, a, e)
  <1>1. CASE a <= e
    <2>1. d \in Seq(U) /\ Len(d) = (e - a) + 1
      BY <1>1
    <2>2. \A k \in 1..((e - a) + 1) : d[k] = s[(a + k) - 1]
      BY <1>1
    <2>3. \A k \in 1..((e - a) + 1) :
             (a + k) - 1 \in a..e /\ ((a + k) - 1 = e => k = (e - a) + 1)
      BY <1>1
    <2> HIDE DEF d
    <2>4. \A k \in 1..Len(d) : /\ d[k] = s[(a + k) - 1] /\ (a + k) - 1 \in a..e
                               /\ (a + k) - 1 = e => k = Len(d)
      BY <2>1, <2>2, <2>3
    <2> QED BY <2>1, <2>4 DEF d
  <1>2. CASE ~ (a <= e)
    <2>1. d = <<>>
      <3>1. d \in Seq(U) /\ Len(d) = 0
        BY <1>2
      <3> HIDE DEF d
      <3> QED BY <3>1
    <2> HIDE DEF d
    <2>2. d \in Seq(U) /\ Len(d) = 0
      BY <2>1
    <2>3. \A k \in 1..Len(d) : FALSE
      BY <2>2
    <2> QED BY <2>2, <2>3 DEF d
  <1> QED BY <1>1, <1>2

(* The labels at the beginning of a block end.                             *)
LEMMA AfterLabelsIn ==
    ASSUME NEW T, NEW c \in Seq(T), NEW i \in 1..Len(c)
    PROVE  AfterLabels(c, i) \in i..(Len(c) + 1)
  <1> DEFINE K == {k \in i..(Len(c) + 1) : k = Len(c) + 1 \/ c[k].op # "label"}
  <1>1. Len(c) \in Nat /\ i \in Nat /\ Len(c) + 1 \in K /\ K \subseteq Nat
    OBVIOUS
  <1>2. PICK m \in K : \A k \in K : m <= k
    <2> HIDE DEF K
    <2> QED BY <1>1, NatMinimum
  <1>3. \A j \in i..(m - 1) : c[j].op = "label"
    <2> SUFFICES ASSUME NEW j \in i..(m - 1), c[j].op # "label" PROVE FALSE
      OBVIOUS
    <2>1. j \in K
      BY <1>1, <1>2
    <2>2. m <= j
      BY <1>2, <2>1
    <2> QED BY <1>1, <1>2, <2>2
  <1>4. m \in i..(Len(c) + 1) /\ (m = Len(c) + 1 \/ c[m].op # "label")
    BY <1>2
  <1>5. \E k \in i..(Len(c) + 1) : /\ \A j \in i..(k - 1) : c[j].op = "label"
                                   /\ k = Len(c) + 1 \/ c[k].op # "label"
    BY <1>3, <1>4
  <1> HIDE DEF K
  <1> QED BY <1>5 DEF AfterLabels

(* The blocks GenerateBasicBlocks makes of code.                           *)
LEMMA BlocksShape ==
    ASSUME NEW c
    PROVE  LET g == BasicBlocks(c)
               n == Cardinality(Starts(c))
               L == {b \in 1..n : c[StartOf(c, b)].op = "label"}
           IN  /\ DOMAIN g = GraphFields
               /\ g.chain = [b \in 1..n |-> b]
               /\ n \in Nat => g.code = [b \in 1..n |->
                    SubSeq(Renamed(c), AfterLabels(c, StartOf(c, b)), EndOf(c, b))]
               /\ g.label = [b \in 1..n |-> IF b \in L THEN c[StartOf(c, b)].to ELSE NoLabel]
               /\ g.instr = [l \in {c[StartOf(c, b)].to : b \in L} |->
                               CHOOSE b \in L : c[StartOf(c, b)].to = l]
  <1> DEFINE n     == Cardinality(Starts(c))
             start == [b \in 1..n |-> CHOOSE i \in Starts(c) :
                                         Cardinality({j \in Starts(c) : j <= i}) = b]
             end(b) == IF b = n THEN Len(c) ELSE start[b + 1] - 1
             L     == {b \in 1..n : c[StartOf(c, b)].op = "label"}
             M     == {b \in 1..n : c[start[b]].op = "label"}
             g     == BasicBlocks(c)
  <1>1. \A b \in 1..n : start[b] = StartOf(c, b)
    BY DEF StartOf, Rank
  <1>2. g = [chain |-> [b \in 1..n |-> b],
             code  |-> [b \in 1..n |-> SubSeq(Renamed(c), AfterLabels(c, start[b]), end(b))],
             label |-> [b \in 1..n |-> IF b \in M THEN c[start[b]].to ELSE NoLabel],
             instr |-> [l \in {c[start[b]].to : b \in M} |->
                           CHOOSE b \in M : c[start[b]].to = l]]
    BY DEF BasicBlocks
  <1>3. ASSUME n \in Nat, NEW b \in 1..n PROVE end(b) = EndOf(c, b)
    <2>1. CASE b = n
      BY <2>1 DEF EndOf
    <2>2. CASE b # n
      <3>1. b + 1 \in 1..n
        <4> HIDE DEF n
        <4> QED BY <1>3, <2>2
      <3>2. start[b + 1] = StartOf(c, b + 1)
        BY <1>1, <3>1
      <3> QED BY <2>2, <3>2 DEF EndOf
    <2> QED BY <2>1, <2>2
  <1> HIDE DEF n, start, g
  <1>4. M = L
    BY <1>1
  <1>5. {c[start[b]].to : b \in M} = {c[StartOf(c, b)].to : b \in L}
    BY <1>1, <1>4
  <1>6. \A l : (CHOOSE b \in M : c[start[b]].to = l) = (CHOOSE b \in L : c[StartOf(c, b)].to = l)
    <2> SUFFICES ASSUME NEW l
                 PROVE  (CHOOSE b \in M : c[start[b]].to = l)
                           = (CHOOSE b \in L : c[StartOf(c, b)].to = l)
      OBVIOUS
    <2>1. \A b : (b \in M /\ c[start[b]].to = l) <=> (b \in L /\ c[StartOf(c, b)].to = l)
      BY <1>1, <1>4
    <2> HIDE DEF M, L
    <2> QED BY <2>1
  <1>7. DOMAIN g = GraphFields /\ g.chain = [b \in 1..n |-> b]
    BY <1>2 DEF GraphFields
  <1>8. n \in Nat => g.code = [b \in 1..n |->
           SubSeq(Renamed(c), AfterLabels(c, StartOf(c, b)), EndOf(c, b))]
    <2> HIDE DEF end, M
    <2> QED BY <1>1, <1>2, <1>3
  <1>9. g.label = [b \in 1..n |-> IF b \in L THEN c[StartOf(c, b)].to ELSE NoLabel]
    <2>1. g.label = [b \in 1..n |-> IF b \in M THEN c[start[b]].to ELSE NoLabel]
      BY <1>2
    <2> HIDE DEF M, L
    <2> QED BY <1>1, <1>4, <2>1
  <1>10. g.instr = [l \in {c[StartOf(c, b)].to : b \in L} |->
                      CHOOSE b \in L : c[StartOf(c, b)].to = l]
    <2>1. g.instr = [l \in {c[start[b]].to : b \in M} |-> CHOOSE b \in M : c[start[b]].to = l]
      BY <1>2
    <2> DEFINE D == {c[start[b]].to : b \in M}
               E == {c[StartOf(c, b)].to : b \in L}
               P(l) == CHOOSE b \in M : c[start[b]].to = l
               Q(l) == CHOOSE b \in L : c[StartOf(c, b)].to = l
    <2>2. g.instr = [l \in D |-> P(l)] /\ D = E /\ \A l : P(l) = Q(l)
      BY <1>5, <1>6, <2>1
    <2> HIDE DEF D, E, P, Q
    <2>3. g.instr = [l \in E |-> Q(l)]
      BY <2>2
    <2> QED BY <2>3 DEF E, Q
  <1> QED BY <1>7, <1>8, <1>9, <1>10 DEF g, n

-----------------------------------------------------------------------------
(* GenerateBasicBlocks makes a graph that is in order.                     *)
LEMMA BasicBlocksOK ==
    ASSUME source \in Sources
    PROVE  GraphOK(BasicBlocks(source.code))
  <1> DEFINE c == source.code
             g == BasicBlocks(c)
             n == Cardinality(Starts(c))
             L == {b \in 1..n : c[StartOf(c, b)].op = "label"}
  <1>1. /\ c \in Seq(ToSet(c)) /\ c # <<>>
        /\ \A i \in ToSet(c) :
              /\ i = Instr(i.op, i.arg, i.to) /\ i.op \in Ops
              /\ i.op = "call"  => i.to \in Procs
              /\ i.op = "label" => i.to \in Nat \ {NoLabel}
              /\ i.op \in Jumps => i.to \in Procs \cup Labels(c)
        /\ \A i \in 1..Len(c), j \in 1..Len(c) :
              c[i].op = "label" /\ c[j].op = "label" /\ c[i].to = c[j].to => i = j
    BY FlowGraphAssumption
  <1>2. SourceOK /\ Own = Labels(c)
    BY SourceIsOK DEF Own
  <1> HIDE DEF c
  <1>3. /\ n \in Nat \ {0}
        /\ \A b \in 1..n :
              /\ StartOf(c, b) \in Starts(c) /\ StartOf(c, b) \in 1..Len(c)
              /\ EndOf(c, b) \in 1..Len(c)
              /\ \A k \in Starts(c) : ~ (StartOf(c, b) < k /\ k <= EndOf(c, b))
        /\ \A i \in Starts(c) : \E b \in 1..n : StartOf(c, b) = i
        /\ \A b \in 1..n, d \in 1..n : StartOf(c, b) = StartOf(c, d) => b = d
    BY <1>1, StartsOK
  <1>4. /\ DOMAIN g = GraphFields
        /\ g.chain = [b \in 1..n |-> b]
        /\ g.code = [b \in 1..n |->
              SubSeq(Renamed(c), AfterLabels(c, StartOf(c, b)), EndOf(c, b))]
        /\ g.label = [b \in 1..n |-> IF b \in L THEN c[StartOf(c, b)].to ELSE NoLabel]
        /\ g.instr = [l \in {c[StartOf(c, b)].to : b \in L} |->
              CHOOSE b \in L : c[StartOf(c, b)].to = l]
    BY <1>3, BlocksShape
  <1> HIDE DEF g, n
  <1>5. \A k \in 1..Len(c) : /\ c[k] \in ToSet(c) /\ (c[k].op = "label" => c[k].to \in Own)
                             /\ (c[k].op \in Jumps => c[k].to \in Procs \cup Own)
    <2>1. \A k \in 1..Len(c) : c[k] \in ToSet(c)
      BY <1>1 DEF ToSet
    <2> QED BY <1>1, <1>2, <2>1 DEF Labels
  <1>6. ChainOK(g) /\ Blocks(g) = 1..n
    <2>1. g.chain \in Seq(Nat \ {NoBlock}) /\ Len(g.chain) = n /\ g.chain # <<>>
      <3>1. [b \in 1..n |-> b] \in Seq(Nat \ {NoBlock}) /\ Len([b \in 1..n |-> b]) = n
        BY <1>3 DEF NoBlock
      <3>2. [b \in 1..n |-> b] # <<>>
        BY <1>3, <3>1
      <3> QED BY <1>4, <3>1, <3>2
    <2>2. DOMAIN g.chain = 1..n /\ \A b \in 1..n : g.chain[b] = b
      BY <1>4
    <2>3. Blocks(g) = 1..n
      BY <2>2 DEF Blocks, ToSet
    <2> QED BY <2>1, <2>2, <2>3 DEF ChainOK, IsInjective
  <1>7. ASSUME NEW b \in L
        PROVE  /\ b \in 1..n /\ g.label[b] = c[StartOf(c, b)].to
               /\ g.label[b] \in Own \cap DOMAIN g.instr /\ g.instr[g.label[b]] = b
    <2>1. b \in 1..n /\ c[StartOf(c, b)].op = "label" /\ g.label[b] = c[StartOf(c, b)].to
      BY <1>4
    <2>2. g.label[b] \in Own
      BY <1>3, <1>5, <2>1
    <2>3. g.label[b] \in {c[StartOf(c, d)].to : d \in L}
      BY <2>1
    <2>4. g.label[b] \in DOMAIN g.instr
          /\ g.instr[g.label[b]] = CHOOSE d \in L : c[StartOf(c, d)].to = g.label[b]
      BY <1>4, <2>3
    <2>5. \A d \in L : c[StartOf(c, d)].to = g.label[b] => d = b
      <3> SUFFICES ASSUME NEW d \in L, c[StartOf(c, d)].to = g.label[b] PROVE d = b
        OBVIOUS
      <3>1. d \in 1..n /\ c[StartOf(c, d)].op = "label"
        OBVIOUS
      <3>2. StartOf(c, d) = StartOf(c, b)
        BY <1>1, <1>3, <2>1, <3>1
      <3> QED BY <1>3, <2>1, <3>1, <3>2
    <2>6. (CHOOSE d \in L : c[StartOf(c, d)].to = g.label[b]) = b
      <3> HIDE DEF L
      <3> QED BY <2>1, <2>5
    <2> QED BY <2>1, <2>2, <2>4, <2>6
  <1>8. ASSUME NEW l \in Labels(c) PROVE Kept(c, l) \in Own /\ Placed(g, Kept(c, l))
    <2>1. PICK q \in Starts(c) : c[q].op = "label" /\ Kept(c, l) = c[q].to
      BY <1>1, KeptStarts
    <2>2. PICK b \in 1..n : StartOf(c, b) = q
      BY <1>3
    <2>3. b \in L /\ g.label[b] = Kept(c, l)
      BY <1>7, <2>1, <2>2
    <2> HIDE DEF L
    <2> QED BY <1>6, <1>7, <2>3 DEF Placed
  <1> DEFINE R == Renamed(c)
             U == ToSet(c) \cup {R[k] : k \in 1..Len(c)}
  <1>9. Len(c) \in Nat /\ DOMAIN R = 1..Len(c) /\ R \in Seq(U) /\ Len(R) = Len(c)
    <2>1. Len(c) \in Nat
      BY <1>1
    <2>2. R = [k \in 1..Len(c) |-> R[k]]
      BY DEF Renamed
    <2>3. \A k \in 1..Len(c) : R[k] \in U
      OBVIOUS
    <2> HIDE DEF R, U
    <2>4. [k \in 1..Len(c) |-> R[k]] \in Seq(U) /\ Len([k \in 1..Len(c) |-> R[k]]) = Len(c)
      BY <2>1, <2>3
    <2> QED BY <2>1, <2>2, <2>4
  <1>10. ASSUME NEW p \in 1..Len(c)
         PROVE  /\ IsInstr(R[p])
                /\ LabelJump(R[p]) => c[p].op \in Jumps /\ Placed(g, R[p].to)
    <2> DEFINE i == c[p]
    <2>1. R[p] = IF i.op \in Jumps /\ i.to \notin Procs
                 THEN Instr(i.op, i.arg, Kept(c, i.to)) ELSE i
      BY DEF Renamed
    <2>2. /\ i = Instr(i.op, i.arg, i.to) /\ i.op \in Ops
          /\ i.op = "call"  => i.to \in Procs
          /\ i.op \in Jumps => i.to \in Procs \cup Labels(c)
      BY <1>1, <1>5
    <2>3. i.op # "void"
      BY <2>2 DEF Ops, Jumps, Branches
    <2> HIDE DEF i, R
    <2>4. CASE i.op \in Jumps /\ i.to \notin Procs
      <3> DEFINE k == Kept(c, i.to)
      <3>1. k \in Own /\ Placed(g, k)
        BY <1>8, <2>2, <2>4
      <3>2. R[p] = Instr(i.op, i.arg, k)
        BY <2>1, <2>4
      <3> HIDE DEF k
      <3>3. R[p].op = i.op /\ R[p].arg = i.arg /\ R[p].to = k /\ i.op # "call"
        BY <2>4, <3>2 DEF Instr, Jumps, Branches
      <3> QED BY <2>3, <2>4, <3>1, <3>2, <3>3 DEF IsInstr, LabelJump, i
    <2>5. CASE ~ (i.op \in Jumps /\ i.to \notin Procs)
      <3>1. R[p] = i
        BY <2>1, <2>5
      <3>2. ~ LabelJump(i)
        BY <1>2, <2>5 DEF LabelJump, SourceOK
      <3> QED BY <1>2, <2>2, <2>3, <3>1, <3>2 DEF IsInstr
    <2> QED BY <2>4, <2>5
  <1>11. ASSUME NEW b \in 1..n PROVE CodeOK(g, g.code[b])
    <2> DEFINE a == AfterLabels(c, StartOf(c, b))
               e == EndOf(c, b)
               d == SubSeq(R, a, e)
    <2>1. g.code[b] = d
      BY <1>4
    <2>2. StartOf(c, b) \in 1..Len(c) /\ e \in 1..Len(c)
      BY <1>3
    <2>3. a \in StartOf(c, b)..(Len(c) + 1) /\ a \in Nat \ {0} /\ StartOf(c, b) <= a
      <3>1. a \in StartOf(c, b)..(Len(c) + 1)
        BY <1>1, <2>2, AfterLabelsIn
      <3> HIDE DEF a
      <3> QED BY <1>9, <2>2, <3>1
    <2> HIDE DEF a, e, R, U
    <2>4. /\ d \in Seq(U)
          /\ \A k \in 1..Len(d) : /\ d[k] = R[(a + k) - 1] /\ (a + k) - 1 \in a..e
                                  /\ (a + k) - 1 = e => k = Len(d)
      <3>1. R \in Seq(U) /\ a \in Nat \ {0} /\ e \in 1..Len(R)
        BY <1>9, <2>2, <2>3
      <3> QED BY <3>1, PartShape
    <2> HIDE DEF d
    <2>5. ASSUME NEW k \in 1..Len(d)
          PROVE  IsInstr(d[k]) /\ (LabelJump(d[k]) => k = Len(d) /\ Placed(g, d[k].to))
      <3> DEFINE p == (a + k) - 1
      <3>1. d[k] = R[p] /\ p \in a..e /\ (p = e => k = Len(d))
        BY <2>4
      <3> HIDE DEF p
      <3>2. p \in 1..Len(c) /\ StartOf(c, b) <= p /\ p <= e
        BY <1>9, <2>2, <2>3, <3>1
      <3>3. IsInstr(R[p]) /\ (LabelJump(R[p]) => c[p].op \in Jumps /\ Placed(g, R[p].to))
        BY <1>10, <3>2
      <3>4. c[p].op \in Jumps => p = e
        <4> SUFFICES ASSUME c[p].op \in Jumps, p # e PROVE FALSE
          OBVIOUS
        <4>1. p + 1 \in 1..Len(c) /\ (p + 1) - 1 = p /\ StartOf(c, b) < p + 1 /\ p + 1 <= e
          BY <1>9, <2>2, <3>2
        <4>2. p + 1 \in Starts(c)
          BY <4>1 DEF Starts
        <4> QED BY <1>3, <4>1, <4>2 DEF e
      <3> QED BY <3>1, <3>3, <3>4
    <2> QED BY <2>1, <2>4, <2>5 DEF CodeOK
  <1>12. DOMAIN g.code = 1..n /\ DOMAIN g.label = 1..n
    BY <1>4
  <1>13. ASSUME NEW b \in 1..n, g.label[b] # NoLabel
         PROVE  g.label[b] \in Own \cap DOMAIN g.instr /\ g.instr[g.label[b]] = b
    <2>1. b \in L
      BY <1>4, <1>13
    <2> HIDE DEF L
    <2> QED BY <1>7, <2>1
  <1>14. GraphOK(g)
    <2> HIDE DEF L, R, U
    <2> QED BY <1>4, <1>6, <1>11, <1>12, <1>13 DEF GraphOK
  <1> QED BY <1>14 DEF g, c

(* ... and it holds when GenerateBasicBlocks has made the graph.           *)
LEMMA GraphInit == Init => GraphInv
  <1> SUFFICES ASSUME Init PROVE GraphInv
    OBVIOUS
  <1>1. source \in Sources /\ graph = BasicBlocks(source.code) /\ rest = Pipeline
        /\ at = NoBlock /\ retry = FALSE /\ modified = FALSE /\ counted = LabelsUsed(source.code)
    BY DEF Init
  <1>2. GraphOK(graph)
    BY <1>1, BasicBlocksOK
  <1>3. RestOK(rest) /\ Unlinked(rest)
    BY <1>1, PassesOK
  <1>4. ~ Doing("jumps") /\ ~ Doing("merge") /\ ~ Doing("dead")
    BY <1>3 DEF Doing, Unlinked, Linked
  <1>5. counted \subseteq Own
    <2> DEFINE c == source.code
    <2>1. /\ c \in Seq(ToSet(c))
          /\ \A i \in ToSet(c) : i.op \in Jumps => i.to \in Procs \cup Labels(c)
      BY <1>1, FlowGraphAssumption
    <2>2. \A k \in 1..Len(c) : c[k].op \in Jumps => c[k].to \in Procs \cup Labels(c)
      BY <2>1 DEF ToSet
    <2> QED BY <1>1, <2>2 DEF LabelsUsed, Own
  <1> QED BY <1>1, <1>2, <1>3, <1>4, <1>5 DEF GraphInv

(* The invariant holds at any time.                                        *)
THEOREM GraphInvariant == Spec => []GraphInv
  <1> QED BY GraphInit, GraphNext, PTL DEF Spec

(* Whatever procedure is compiled, the chain has every block once and the  *)
(* passes stay at blocks of it (opt_blocks.c).                             *)
THEOREM FlowGraphTypeCorrect == Spec => []TypeOK
  <1>1. GraphInv => TypeOK
    <2> SUFFICES ASSUME GraphInv PROVE TypeOK
      OBVIOUS
    <2>1. /\ graph.chain # <<>> /\ IsInjective(graph.chain)
          /\ Blocks(graph) \subseteq DOMAIN graph.code
      BY DEF GraphInv, GraphOK, ChainOK
    <2> QED BY <2>1 DEF GraphInv, TypeOK, Own
  <1> QED BY <1>1, GraphInvariant, PTL

(* Whatever procedure is compiled, between any two steps of the passes a   *)
(* label that is jumped to is the label of exactly one block of the chain, *)
(* the one label->instr names: EmitProc emits it once, and no pass removes *)
(* a block another one still jumps to.                                     *)
THEOREM LabelsArePlaced == Spec => []LabelsPlaced
  <1>1. GraphInv => LabelsPlaced
    <2> SUFFICES ASSUME GraphInv, NEW b \in Blocks(graph),
                        NEW l \in LabelsUsed(graph.code[b]) \ {source.entry}
                 PROVE  \E d \in Blocks(graph) :
                           /\ {x \in Blocks(graph) : graph.label[x] = l} = {d}
                           /\ graph.instr[l] = d
      BY DEF LabelsPlaced
    <2>1. SourceOK /\ GraphOK(graph) /\ CodeOK(graph, graph.code[b])
      BY SourceIsOK DEF GraphInv, GraphOK
    <2>2. PICK k \in 1..Len(graph.code[b]) :
             graph.code[b][k].op \in Jumps /\ graph.code[b][k].to = l
      BY DEF LabelsUsed
    <2>3. LabelJump(graph.code[b][k]) /\ l # NoLabel
      <3>1. IsInstr(graph.code[b][k]) /\ l \notin Procs /\ l # source.entry
        BY <2>1 DEF CodeOK, LabelsUsed
      <3> QED BY <2>1, <2>2, <3>1 DEF IsInstr, LabelJump, SourceOK
    <2>4. graph.instr[l] \in Blocks(graph) /\ graph.label[graph.instr[l]] = l
      BY <2>1, <2>2, <2>3 DEF CodeOK, Placed
    <2>5. \A x \in Blocks(graph) : graph.label[x] = l => graph.instr[l] = x
      BY <2>1, <2>3 DEF GraphOK
    <2> QED BY <2>4, <2>5
  <1> QED BY <1>1, GraphInvariant, PTL
==============================================================================
