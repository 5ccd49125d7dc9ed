---------------------------- MODULE CombinedProofs ----------------------------
(***************************************************************************)
(* OptimizeCombined, for every procedure, every set of rules and every     *)
(* processor: each instruction the passes leave is one there is a rule     *)
(* for, and no pass meets a variable whose src_i is an instruction that    *)
(* was deleted.                                                            *)
(***************************************************************************)
EXTENDS Combined, FiniteSetTheorems, NumberProofs

-----------------------------------------------------------------------------
\* An instruction of the code, a block, and all blocks of a procedure.
IsInstr(i) == i = Instr(i.id, i.op, i.res, i.a1, i.a2) /\ Allowed(i)
BlockOK(c) == (\E S : c \in Seq(S)) /\ \A k \in 1..Len(c) : IsInstr(c[k])
Edited(c, b, r) == [c EXCEPT ![b] = r]
CodeOK(c)  == (\E S : c \in Seq(S)) /\ \A b \in 1..Len(c) : BlockOK(c[b])

-----------------------------------------------------------------------------
(* A sequence after another one.                                           *)
LEMMA JoinShape ==
    ASSUME NEW S, NEW a \in Seq(S), NEW b \in Seq(S)
    PROVE  /\ a \o b \in Seq(S) /\ Len(a \o b) = Len(a) + Len(b)
           /\ Len(a) \in Nat /\ Len(b) \in Nat
           /\ \A k \in 1..Len(a \o b) : (a \o b)[k] = IF k <= Len(a) THEN a[k] ELSE b[k - Len(a)]
  OBVIOUS

(* A sequence without one of its elements.                                 *)
LEMMA RemoveAtShape ==
    ASSUME NEW S, NEW s \in Seq(S), NEW p \in 1..Len(s)
    PROVE  LET r == RemoveAt(s, p) IN
           /\ r \in Seq(S) /\ Len(s) \in Nat /\ Len(r) = Len(s) - 1
           /\ \A k \in 1..Len(r) : r[k] = IF k < p THEN s[k] ELSE s[k + 1]
  <1> DEFINE a == SubSeq(s, 1, p - 1)
             b == SubSeq(s, p + 1, Len(s))
             r == a \o b
  <1>1. Len(s) \in Nat /\ p \in Nat
    OBVIOUS
  <1>2. a \in Seq(S) /\ Len(a) = p - 1 /\ \A k \in 1..(p - 1) : a[k] = s[k]
    OBVIOUS
  <1>3. b \in Seq(S) /\ Len(b) = Len(s) - p /\ \A k \in 1..(Len(s) - p) : b[k] = s[p + k]
    OBVIOUS
  <1> HIDE DEF a, b
  <1>4. /\ r \in Seq(S) /\ Len(r) = Len(a) + Len(b)
        /\ \A k \in 1..Len(r) : r[k] = IF k <= Len(a) THEN a[k] ELSE b[k - Len(a)]
    BY <1>2, <1>3, JoinShape
  <1> HIDE DEF r
  <1>6. Len(r) = Len(s) - 1
    BY <1>1, <1>2, <1>3, <1>4
  <1>5. ASSUME NEW k \in 1..Len(r) PROVE r[k] = IF k < p THEN s[k] ELSE s[k + 1]
    <2>1. CASE k < p
      BY <1>2, <1>4, <1>6, <2>1
    <2>2. CASE ~ (k < p)
      <3>1. k - (p - 1) \in 1..(Len(s) - p) /\ p + (k - (p - 1)) = k + 1
        BY <1>1, <1>6, <2>2
      <3>2. r[k] = b[k - (p - 1)]
        <4>1. Len(a) = p - 1 /\ ~ (k <= p - 1)
          BY <1>1, <1>2, <1>6, <2>2
        <4> QED BY <1>4, <4>1
      <3> QED BY <1>3, <2>2, <3>1, <3>2
    <2> QED BY <2>1, <2>2
  <1> QED BY <1>1, <1>4, <1>6, <1>5 DEF RemoveAt, r, a, b

-----------------------------------------------------------------------------
(* A block without one of its instructions, ...                            *)
LEMMA BlockRemove ==
    ASSUME NEW c, BlockOK(c), NEW p \in 1..Len(c)
    PROVE  LET r == RemoveAt(c, p) IN
           /\ BlockOK(r) /\ Len(c) \in Nat /\ Len(r) = Len(c) - 1
           /\ \A k \in 1..Len(r) : r[k] = IF k < p THEN c[k] ELSE c[k + 1]
  <1>1. PICK S : c \in Seq(S)
    BY DEF BlockOK
  <1> DEFINE r == RemoveAt(c, p)
  <1>2. /\ r \in Seq(S) /\ Len(c) \in Nat /\ Len(r) = Len(c) - 1
        /\ \A k \in 1..Len(r) : r[k] = IF k < p THEN c[k] ELSE c[k + 1]
    BY <1>1, RemoveAtShape
  <1> HIDE DEF r
  <1>3. ASSUME NEW k \in 1..Len(r) PROVE IsInstr(r[k])
    <2>1. k \in 1..Len(c) /\ k + 1 \in 1..Len(c)
      BY <1>2
    <2> QED BY <1>2, <2>1 DEF BlockOK
  <1> QED BY <1>2, <1>3 DEF BlockOK, r

(* ... with one replaced, ...                                              *)
LEMMA BlockReplace ==
    ASSUME NEW c, BlockOK(c), NEW p \in 1..Len(c), NEW i, IsInstr(i)
    PROVE  LET r == [c EXCEPT ![p] = i] IN
           /\ BlockOK(r) /\ Len(r) = Len(c)
           /\ \A k \in 1..Len(r) : r[k] = IF k = p THEN i ELSE c[k]
  <1>1. PICK S : c \in Seq(S)
    BY DEF BlockOK
  <1> DEFINE r == [c EXCEPT ![p] = i]
  <1>2. r \in Seq(S \cup {i}) /\ Len(r) = Len(c)
    <2>1. c \in Seq(S \cup {i})
      BY <1>1
    <2> QED BY <2>1
  <1>3. \A k \in 1..Len(r) : r[k] = IF k = p THEN i ELSE c[k]
    <2>1. DOMAIN c = 1..Len(c) /\ DOMAIN r = DOMAIN c
      BY <1>1
    <2> QED BY <1>2, <2>1
  <1> HIDE DEF r
  <1>4. ASSUME NEW k \in 1..Len(r) PROVE IsInstr(r[k])
    BY <1>2, <1>3 DEF BlockOK
  <1> QED BY <1>2, <1>3, <1>4 DEF BlockOK, r

(* ... with another one before it, ...                                     *)
LEMMA BlockPrepend ==
    ASSUME NEW c, BlockOK(c), NEW i, IsInstr(i)
    PROVE  BlockOK(<<i>> \o c)
  <1>1. PICK S : c \in Seq(S)
    BY DEF BlockOK
  <1> DEFINE r == <<i>> \o c
  <1>2. /\ r \in Seq(S \cup {i}) /\ Len(r) = Len(c) + 1 /\ r[1] = i /\ Len(c) \in Nat
        /\ \A k \in 2..Len(r) : r[k] = c[k - 1]
    <2>1. c \in Seq(S \cup {i}) /\ <<i>> \in Seq(S \cup {i})
      BY <1>1
    <2> QED BY <2>1
  <1> HIDE DEF r
  <1>3. ASSUME NEW k \in 1..Len(r) PROVE IsInstr(r[k])
    <2>1. CASE k = 1
      BY <1>2, <2>1
    <2>2. CASE k # 1
      <3>1. k - 1 \in 1..Len(c) /\ r[k] = c[k - 1]
        BY <1>2, <2>2
      <3> QED BY <3>1 DEF BlockOK
    <2> QED BY <2>1, <2>2
  <1> QED BY <1>2, <1>3 DEF BlockOK, r

(* ... and without its last one.                                           *)
LEMMA BlockFront ==
    ASSUME NEW c, BlockOK(c), c # <<>>
    PROVE  BlockOK(Front(c)) /\ IsInstr(Last(c))
  <1>1. PICK S : c \in Seq(S)
    BY DEF BlockOK
  <1>2. Len(c) \in Nat \ {0} /\ Len(c) \in 1..Len(c)
    BY <1>1
  <1>3. Last(c) = c[Len(c)]
    BY DEF Last
  <1> DEFINE r == SubSeq(c, 1, Len(c) - 1)
  <1>4. r \in Seq(S) /\ Len(r) = Len(c) - 1 /\ \A k \in 1..Len(r) : r[k] = c[k]
    BY <1>1, <1>2
  <1> HIDE DEF r
  <1>5. Front(c) = r
    BY DEF Front, r
  <1>6. \A k \in 1..Len(r) : k \in 1..Len(c)
    BY <1>2, <1>4
  <1>7. BlockOK(r)
    BY <1>4, <1>6 DEF BlockOK
  <1> QED BY <1>2, <1>3, <1>5, <1>7 DEF BlockOK

(* The code with another block.                                            *)
LEMMA CodeEdit ==
    ASSUME NEW c, CodeOK(c), NEW b \in 1..Len(c), NEW r, BlockOK(r)
    PROVE  /\ CodeOK(Edited(c, b, r)) /\ Len(Edited(c, b, r)) = Len(c)
           /\ Edited(c, b, r)[b] = r
           /\ \A e \in 1..Len(c) : e # b => Edited(c, b, r)[e] = c[e]
  <1> DEFINE d == Edited(c, b, r)
  <1>1. PICK S : c \in Seq(S)
    BY DEF CodeOK
  <1>2. d \in Seq(S \cup {r}) /\ Len(d) = Len(c)
    <2>1. c \in Seq(S \cup {r})
      BY <1>1
    <2> QED BY <2>1 DEF Edited
  <1>3. \A e \in 1..Len(c) : d[e] = IF e = b THEN r ELSE c[e]
    <2>1. DOMAIN c = 1..Len(c)
      BY <1>1
    <2> QED BY <2>1 DEF Edited
  <1> HIDE DEF d
  <1>4. ASSUME NEW e \in 1..Len(d) PROVE BlockOK(d[e])
    BY <1>2, <1>3 DEF CodeOK
  <1> QED BY <1>2, <1>3, <1>4 DEF CodeOK, d

(* A block, and a procedure, that are given part by part.                  *)
LEMMA BlockMap ==
    ASSUME NEW n \in Nat, NEW c, c = [k \in 1..n |-> c[k]],
           \A k \in 1..n : IsInstr(c[k])
    PROVE  BlockOK(c) /\ Len(c) = n
  <1> DEFINE S == {c[k] : k \in 1..n}
  <1>1. c \in Seq(S) /\ Len(c) = n
    OBVIOUS
  <1> HIDE DEF S
  <1> QED BY <1>1 DEF BlockOK

LEMMA CodeMap ==
    ASSUME NEW n \in Nat, NEW c, c = [b \in 1..n |-> c[b]],
           \A b \in 1..n : BlockOK(c[b])
    PROVE  CodeOK(c) /\ Len(c) = n
  <1> DEFINE S == {c[b] : b \in 1..n}
  <1>1. c \in Seq(S) /\ Len(c) = n
    OBVIOUS
  <1> HIDE DEF S
  <1> QED BY <1>1 DEF CodeOK

-----------------------------------------------------------------------------
(* What OptimizeValues makes of an instruction is one the processor has,   *)
(* and the same instruction of the block: by replacing an assignment with  *)
(* an increment, ...                                                       *)
LEMMA IncrementedOK ==
    ASSUME NEW d, NEW i, IsInstr(i)
    PROVE  /\ IsInstr(Incremented(d, i))
           /\ Incremented(d, i).id = i.id /\ Incremented(d, i).res = i.res
           /\ Incremented(d, i).op \in {i.op, "add", "sub"}
  <1> DEFINE o == VarIsOffset(d, i.res, i.a1)
             op == IF o.diff < 0 THEN "sub" ELSE "add"
             n == IF o.diff < 0 THEN -o.diff ELSE o.diff
             j == Instr(i.id, op, i.res, i.res, n)
  <1>1. \/ Incremented(d, i) = i
        \/ i.op = "let" /\ HasRule(j) /\ Incremented(d, i) = j
    BY DEF Incremented
  <1>2. op \in {"add", "sub"}
    OBVIOUS
  <1> HIDE DEF op, n
  <1>3. /\ j.id = i.id /\ j.res = i.res /\ j.op = op
        /\ j = Instr(j.id, j.op, j.res, j.a1, j.a2)
    BY DEF Instr
  <1> HIDE DEF j
  <1>4. CASE i.op = "let" /\ HasRule(j) /\ Incremented(d, i) = j
    <2>1. i.res \in Variable
      BY <1>4 DEF IsInstr, Allowed
    <2> QED BY <1>2, <1>3, <1>4, <2>1 DEF IsInstr, Allowed
  <1> QED BY <1>1, <1>4

(* ... by replacing its arguments, ...                                     *)
LEMMA ReplacedOK ==
    ASSUME NEW b, NEW s, NEW i, IsInstr(i), HasRule(Replaced(b, s, i))
    PROVE  /\ IsInstr(Replaced(b, s, i))
           /\ Replaced(b, s, i).id = i.id /\ Replaced(b, s, i).res = i.res
  <1> DEFINE x == Replacement(b, s, i.a1)
             y == Replacement(b, s, i.a2)
             r == Replaced(b, s, i)
  <1>1. Allowed(i)
    BY DEF IsInstr
  <1>2. r = Instr(i.id, i.op, i.res, x, y)
    BY DEF Replaced
  <1> HIDE DEF x, y, r
  <1>3. /\ r.id = i.id /\ r.op = i.op /\ r.res = i.res
        /\ r = Instr(r.id, r.op, r.res, r.a1, r.a2)
    BY <1>2 DEF Instr
  <1>4. HasRule(r)
    BY DEF r
  <1> QED BY <1>1, <1>3, <1>4 DEF IsInstr, Allowed, r

(* ... by computing the result, if that is not the variable itself, ...    *)
LEMMA FoldedOK ==
    ASSUME NEW b, NEW s, NEW i, IsInstr(i), i.op \notin {"if", "call"},
           ~ SelfCopy(Folded(b, s, i))
    PROVE  /\ IsInstr(Folded(b, s, i)) /\ Folded(b, s, i).op \notin {"if", "call"}
           /\ Folded(b, s, i).id = i.id /\ Folded(b, s, i).res = i.res
  <1> DEFINE r == Evaluated(i.op, SrcVar(b, s, i.a1), SrcVar(b, s, i.a2))
             j == Instr(i.id, "let", i.res, r, NoVar)
  <1>1. \/ Folded(b, s, i) = i
        \/ (r = i.res \/ HasRule(j)) /\ Folded(b, s, i) = j
    BY DEF Folded
  <1> HIDE DEF r
  <1>2. /\ j.id = i.id /\ j.op = "let" /\ j.res = i.res /\ j.a1 = r
        /\ j = Instr(j.id, j.op, j.res, j.a1, j.a2)
    BY DEF Instr
  <1> HIDE DEF j
  <1>3. i.res \in Variable
    BY DEF IsInstr, Allowed
  <1>4. CASE (r = i.res \/ HasRule(j)) /\ Folded(b, s, i) = j
    <2>1. HasRule(j)
      BY <1>2, <1>4 DEF SelfCopy
    <2> QED BY <1>2, <1>3, <1>4, <2>1 DEF IsInstr, Allowed
  <1> QED BY <1>1, <1>4

(* ... and by using a register that holds its argument.                    *)
LEMMA ReusedOK ==
    ASSUME NEW d, NEW i, IsInstr(i)
    PROVE  /\ IsInstr(Reused(d, i))
           /\ Reused(d, i).id = i.id /\ Reused(d, i).res = i.res
           /\ Reused(d, i).op = i.op
  <1> DEFINE n == CHOOSE n \in Holding(d, i) : \A m \in Holding(d, i) : n <= m
             r == [i EXCEPT !.a1 = Vars[n]]
  <1>1. i = Instr(i.id, i.op, i.res, i.a1, i.a2) /\ Allowed(i)
    BY DEF IsInstr
  <1>2. Reused(d, i) = i \/ (Holding(d, i) # {} /\ Reused(d, i) = r)
    BY DEF Reused
  <1>3. CASE Holding(d, i) # {} /\ Reused(d, i) = r
    <2>1. Holding(d, i) \subseteq Nat
      BY DEF Holding
    <2>2. n \in Holding(d, i)
      <3>1. \E k \in Holding(d, i) : \A m \in Holding(d, i) : k <= m
        BY <1>3, <2>1, NatMinimum
      <3> QED BY <3>1
    <2> HIDE DEF n
    <2>3. HasRule(r)
      BY <2>2 DEF Holding
    <2>4. r = Instr(i.id, i.op, i.res, Vars[n], i.a2)
      BY <1>1 DEF Instr
    <2> HIDE DEF r
    <2>5. /\ r.id = i.id /\ r.op = i.op /\ r.res = i.res
          /\ r = Instr(r.id, r.op, r.res, r.a1, r.a2)
      BY <2>4 DEF Instr
    <2> QED BY <1>1, <1>3, <2>3, <2>5 DEF IsInstr, Allowed
  <1> QED BY <1>2, <1>3

-----------------------------------------------------------------------------
(***************************************************************************)
(* The steps that change the code: a block keeps its place, and all of the *)
(* instructions remain ones the processor has.                             *)
(***************************************************************************)
(* An instruction that no pass needs is removed.                           *)
LEMMA RemoveStep ==
    ASSUME CodeOK(code), NEW b \in Block, NEW k \in 1..Len(code[b]),
           code' = [code EXCEPT ![b] = RemoveAt(@, k)]
    PROVE  /\ CodeOK(code') /\ Len(code') = Len(code)
           /\ code'[b] = RemoveAt(code[b], k)
           /\ \A e \in Block : e # b => code'[e] = code[e]
  <1>1. BlockOK(code[b])
    BY DEF CodeOK, Block
  <1>2. BlockOK(RemoveAt(code[b], k))
    BY <1>1, BlockRemove
  <1> DEFINE r == RemoveAt(code[b], k)
  <1>3. code' = Edited(code, b, r) /\ b \in 1..Len(code)
    BY DEF Block, Edited
  <1> HIDE DEF r
  <1>4. /\ CodeOK(code') /\ Len(code') = Len(code) /\ code'[b] = r
        /\ \A e \in 1..Len(code) : e # b => code'[e] = code[e]
    <2> DEFINE d == Edited(code, b, r)
    <2>1. CodeOK(d) /\ Len(d) = Len(code)
      BY <1>2, <1>3, CodeEdit DEF r
    <2>2. d[b] = r
      BY <1>2, <1>3, CodeEdit DEF r
    <2>3. \A e \in 1..Len(code) : e # b => d[e] = code[e]
      BY <1>2, <1>3, CodeEdit DEF r
    <2> HIDE DEF d
    <2> QED BY <2>1, <2>2, <2>3, <1>3 DEF d
  <1> QED BY <1>4 DEF Block, r

(* An instruction is replaced by another one.                              *)
LEMMA ReplaceStep ==
    ASSUME CodeOK(code), NEW b \in Block, NEW k \in 1..Len(code[b]), NEW i, IsInstr(i),
           code' = [code EXCEPT ![b][k] = i]
    PROVE  /\ CodeOK(code') /\ Len(code') = Len(code)
           /\ Len(code'[b]) = Len(code[b])
           /\ \A m \in 1..Len(code[b]) : code'[b][m] = IF m = k THEN i ELSE code[b][m]
  <1> DEFINE r == [code[b] EXCEPT ![k] = i]
  <1>1. BlockOK(code[b])
    BY DEF CodeOK, Block
  <1>2. /\ BlockOK(r) /\ Len(r) = Len(code[b])
        /\ \A m \in 1..Len(r) : r[m] = IF m = k THEN i ELSE code[b][m]
    BY <1>1, BlockReplace
  <1>3. code' = Edited(code, b, r) /\ b \in 1..Len(code)
    BY DEF Block, Edited
  <1> HIDE DEF r
  <1>4. CodeOK(code') /\ Len(code') = Len(code) /\ code'[b] = r
    <2> DEFINE d == Edited(code, b, r)
    <2>1. CodeOK(d) /\ Len(d) = Len(code)
      BY <1>2, <1>3, CodeEdit
    <2>2. d[b] = r
      BY <1>2, <1>3, CodeEdit
    <2> HIDE DEF d
    <2> QED BY <2>1, <2>2, <1>3 DEF d
  <1> QED BY <1>2, <1>4

(* An instruction in which one variable stands for another is one there is *)
(* a rule for, or was not changed: the search backwards goes no further.   *)
LEMMA MergedOK ==
    ASSUME CodeOK(code), NEW b \in Block, NEW k \in 1..Len(code[b]),
           MergesAt(b, k, TRUE),
           NEW m \in SearchEnd(b, k)..(k - 1)
    PROVE  IsInstr(With(code[b][m], code[b][k].a1, code[b][k].res))
  <1> DEFINE c == code[b]
             v == c[k].a1
             w == c[k].res
             ends == {j \in 1..(k - 1) : EndsSearch(c[j], v, w)}
             n == SearchEnd(b, k)
  <1>1. BlockOK(c) /\ Len(c) \in Nat /\ k \in Nat /\ k <= Len(c)
    <2>1. BlockOK(c)
      BY DEF CodeOK, Block
    <2>2. PICK S : c \in Seq(S)
      BY <2>1 DEF BlockOK
    <2> QED BY <2>1, <2>2
  <1>2. /\ n # 0 /\ Computes(c[n], v) /\ HasRule(With(c[n], v, w))
        /\ v \in Variable /\ c[k].op = "let"
    BY DEF MergesAt
  <1>3. w \in Variable
    <2>1. IsInstr(c[k])
      BY <1>1 DEF BlockOK
    <2> QED BY <1>2, <2>1 DEF IsInstr, Allowed
  <1>4. n \in ends /\ \A j \in ends : j <= n
    <2>1. n = IF ends = {} THEN 0 ELSE CHOOSE j \in ends : \A x \in ends : x <= j
      BY DEF SearchEnd
    <2>2. ends # {}
      BY <1>2, <2>1
    <2>3. \E j \in ends : \A x \in ends : x <= j
      <3> HIDE DEF c, v, w
      <3> DEFINE up == {x \in Nat : \A y \in ends : y <= x}
      <3>1. k - 1 \in up
        BY <1>1
      <3>2. PICK x \in up : \A y \in up : x <= y
        <4>1. up \subseteq Nat /\ up # {}
          BY <3>1
        <4> HIDE DEF up
        <4> QED BY <4>1, NatMinimum
      <3>3. x \in ends
        <4>1. CASE x \notin ends
          <5>1. PICK y : y \in ends
            BY <2>2
          <5>2. x - 1 \in Nat /\ \A z \in ends : z <= x - 1
            BY <1>1, <3>2, <4>1, <5>1
          <5>3. x - 1 \in up
            BY <5>2
          <5> QED BY <3>2, <5>2, <5>3
        <4> QED BY <4>1
      <3> QED BY <3>2, <3>3
    <2> HIDE DEF ends, n
    <2> QED BY <2>1, <2>2, <2>3
  <1>5. n \in 1..(k - 1) /\ m \in n..(k - 1) /\ m \in 1..Len(c)
    <2>1. m \in n..(k - 1) /\ n \in 1..(k - 1)
      BY <1>4
    <2> HIDE DEF n, c
    <2> QED BY <1>1, <2>1
  <1> DEFINE i == c[m]
             r == With(i, v, w)
  <1>6. IsInstr(i)
    BY <1>1, <1>5 DEF BlockOK
  <1>7. /\ r = Instr(r.id, r.op, r.res, r.a1, r.a2)
        /\ r.id = i.id /\ r.op = i.op
        /\ r.res = IF i.res = v THEN w ELSE i.res
    BY DEF With, Instr
  <1>8. HasRule(r) \/ r = i
    <2>1. CASE m = n
      BY <1>2, <2>1
    <2>2. CASE m # n
      <3>1. m \notin ends
        <4> HIDE DEF ends, n
        <4> QED BY <1>1, <1>4, <1>5, <2>2
      <3>2. ~ (Uses(i, v) /\ ~HasRule(r))
        BY <1>5, <3>1 DEF EndsSearch
      <3>3. CASE ~ Uses(i, v)
        <4>1. r = Instr(i.id, i.op, i.res, i.a1, i.a2)
          BY <3>3 DEF With, Uses
        <4> QED BY <1>6, <4>1 DEF IsInstr
      <3> QED BY <3>2, <3>3
    <2> QED BY <2>1, <2>2
  <1> HIDE DEF r, i, v, w, c, n
  <1>9. Allowed(r)
    BY <1>3, <1>6, <1>7, <1>8 DEF IsInstr, Allowed
  <1> QED BY <1>7, <1>9 DEF IsInstr, r, i, v, w, c

(* OptimizeVarMerge.                                                       *)
LEMMA MergeCopyOK ==
    ASSUME CodeOK(code), NEW b \in Block, NEW k \in 1..Len(code[b]),
           MergesAt(b, k, TRUE), MergeCopy(b, k)
    PROVE  CodeOK(code') /\ Len(code') = Len(code)
  <1> DEFINE c == code[b]
             n == Len(c)
             New(m) == IF m \in SearchEnd(b, k)..(k - 1) THEN With(c[m], c[k].a1, c[k].res) ELSE c[m]
             q == [m \in 1..n |-> New(m)]
             r == RemoveAt(q, k)
  <1>1. BlockOK(c) /\ n \in Nat
    <2>1. BlockOK(c)
      BY DEF CodeOK, Block
    <2>2. PICK S : c \in Seq(S)
      BY <2>1 DEF BlockOK
    <2> QED BY <2>1, <2>2
  <1>2. ASSUME NEW m \in 1..n PROVE IsInstr(New(m))
    <2>1. CASE m \in SearchEnd(b, k)..(k - 1)
      BY <2>1, MergedOK
    <2>2. CASE m \notin SearchEnd(b, k)..(k - 1)
      BY <1>1, <2>2 DEF BlockOK
    <2> QED BY <2>1, <2>2
  <1>3. code' = Edited(code, b, r)
    BY DEF MergeCopy, Edited
  <1> HIDE DEF New
  <1>4. q = [m \in 1..n |-> q[m]] /\ \A m \in 1..n : IsInstr(q[m])
    BY <1>2
  <1>5. k \in 1..n /\ b \in 1..Len(code)
    BY DEF Block
  <1> HIDE DEF q, c, n
  <1>6. BlockOK(q) /\ Len(q) = n
    BY <1>1, <1>4, BlockMap
  <1>7. BlockOK(r)
    BY <1>5, <1>6, BlockRemove
  <1> HIDE DEF r
  <1>8. CodeOK(Edited(code, b, r)) /\ Len(Edited(code, b, r)) = Len(code)
    BY <1>5, <1>7, CodeEdit
  <1> QED BY <1>3, <1>8

(* OptimizeMergeBranchCode.                                                *)
LEMMA GatheredOK ==
    ASSUME CodeOK(code), NEW b \in Block, SameEnds(b)
    PROVE  CodeOK(Gathered(b)) /\ Len(Gathered(b)) = Len(code)
  <1> DEFINE n == Len(code)
             i == Last(code[b - 1])
             Cut(d) == IF d \in From(b) \cup Callers(b) THEN Front(code[d]) ELSE code[d]
             cut == [d \in Block |-> Cut(d)]
             r == <<i>> \o cut[b]
  <1>1. n \in Nat /\ b \in 1..n
    <2>1. PICK S : code \in Seq(S)
      BY DEF CodeOK
    <2> QED BY <2>1 DEF Block
  <1>2. \A d \in 1..n : BlockOK(code[d])
    BY DEF CodeOK
  <1>3. b - 1 \in 1..n /\ code[b - 1] # <<>>
    <2>1. From(b) = {b - 1} /\ b > 1
      BY DEF SameEnds, From
    <2>2. code[b - 1] # <<>>
      BY <2>1 DEF SameEnds
    <2> QED BY <1>1, <2>1, <2>2
  <1>4. IsInstr(i)
    BY <1>2, <1>3, BlockFront
  <1>5. ASSUME NEW d \in 1..n PROVE BlockOK(Cut(d))
    <2>1. CASE d \in From(b) \cup Callers(b)
      <3>1. code[d] # <<>>
        BY <2>1 DEF SameEnds
      <3>2. BlockOK(Front(code[d]))
        BY <1>2, <3>1, BlockFront
      <3> QED BY <2>1, <3>2
    <2>2. CASE d \notin From(b) \cup Callers(b)
      BY <1>2, <2>2
    <2> QED BY <2>1, <2>2
  <1>6. Gathered(b) = Edited(cut, b, r)
    BY DEF Gathered, Edited
  <1> HIDE DEF Cut
  <1>7. cut = [d \in 1..n |-> cut[d]] /\ \A d \in 1..n : BlockOK(cut[d])
    BY <1>5 DEF Block
  <1> HIDE DEF cut, i, n
  <1>8. CodeOK(cut) /\ Len(cut) = n
    BY <1>1, <1>7, CodeMap
  <1>9. BlockOK(r)
    BY <1>1, <1>4, <1>7, BlockPrepend
  <1> HIDE DEF r
  <1>10. CodeOK(Edited(cut, b, r)) /\ Len(Edited(cut, b, r)) = Len(cut)
    BY <1>1, <1>8, <1>9, CodeEdit
  <1> QED BY <1>6, <1>8, <1>10 DEF n

(* The procedure as it was written.                                        *)
LEMMA NumberedOK ==
    ASSUME NEW p \in Procedures
    PROVE  CodeOK(Numbered(p)) /\ Len(Numbered(p)) = Len(p.code)
  <1> DEFINE n == Len(p.code)
             I(b, k) == Instr(MaxInstrs * b + k, p.code[b][k].op, p.code[b][k].res,
                              p.code[b][k].a1, p.code[b][k].a2)
             B(b) == [k \in 1..Len(p.code[b]) |-> I(b, k)]
             c == [b \in 1..n |-> B(b)]
  <1>1. n \in Nat /\ \A b \in 1..n : Len(p.code[b]) \in Nat /\ DOMAIN p.code[b] = 1..Len(p.code[b])
    <2>1. PICK S : p.code \in Seq(Seq(S))
      BY ProcCodeAssumption
    <2> QED BY <2>1
  <1>2. ASSUME NEW b \in 1..n, NEW k \in 1..Len(p.code[b]) PROVE IsInstr(I(b, k))
    <2> DEFINE o == p.code[b][k]
               i == I(b, k)
    <2>1. Allowed(o)
      BY <1>1, ProcCodeAssumption DEF ToSet
    <2>2. i.op = o.op /\ i.res = o.res /\ i.a1 = o.a1 /\ i.a2 = o.a2
      BY DEF Instr
    <2>3. i = Instr(i.id, i.op, i.res, i.a1, i.a2)
      BY DEF Instr
    <2> HIDE DEF o, i
    <2>4. IsInstr(i)
      BY <2>1, <2>2, <2>3 DEF IsInstr, Allowed, HasRule, Form
    <2> QED BY <2>4 DEF i
  <1> HIDE DEF I
  <1>3. ASSUME NEW b \in 1..n PROVE BlockOK(c[b])
    <2> DEFINE m == Len(p.code[b])
    <2>1. c[b] = [k \in 1..m |-> c[b][k]] /\ \A k \in 1..m : IsInstr(c[b][k])
      BY <1>2
    <2>2. m \in Nat
      BY <1>1
    <2> HIDE DEF c, m
    <2> QED BY <2>1, <2>2, BlockMap
  <1>4. Numbered(p) = c
    BY DEF Numbered, I
  <1>5. c = [b \in 1..n |-> c[b]]
    OBVIOUS
  <1> HIDE DEF c, n
  <1>6. CodeOK(c) /\ Len(c) = n
    BY <1>1, <1>3, <1>5, CodeMap
  <1> QED BY <1>4, <1>6 DEF n

(* OptimizeValues where an argument is replaced, ...                       *)
LEMMA ReplaceArgsOK ==
    ASSUME CodeOK(code), NEW b \in Block, NEW k \in 1..Len(code[b]), ReplaceArgs(b, k)
    PROVE  CodeOK(code') /\ Len(code') = Len(code)
  <1> DEFINE i == Entered(b, k)
             r == Replaced(b, SrcNow(b, k), i)
  <1>1. IsInstr(code[b][k])
    BY DEF CodeOK, BlockOK, Block
  <1>2. IsInstr(i)
    BY <1>1, IncrementedOK DEF Entered
  <1>3. HasRule(r) /\ code' = [code EXCEPT ![b][k] = r]
    BY DEF ReplaceArgs
  <1> HIDE DEF i
  <1>4. IsInstr(r)
    BY <1>2, <1>3, ReplacedOK
  <1> HIDE DEF r
  <1> QED BY <1>3, <1>4, ReplaceStep

(* ... and where none is.                                                  *)
LEMMA EvaluateOK ==
    ASSUME CodeOK(code), NEW b \in Block, NEW k \in 1..Len(code[b]), Evaluate(b, k)
    PROVE  /\ CodeOK(code') /\ Len(code') = Len(code)
           /\ Len(code'[b]) = Len(code[b])
           /\ \A m \in 1..Len(code[b]) : m # k => code'[b][m] = code[b][m]
           /\ code'[b][k].id = code[b][k].id /\ code[b][k].res \in Variable
           /\ src' = [SrcNow(b, k) EXCEPT ![code[b][k].res] =
                         ChainStart(b, SrcNow(b, k), code'[b][k]).id]
  <1> DEFINE o == code[b][k]
             i == Entered(b, k)
             f == Folded(b, SrcNow(b, k), i)
             j == Reused(DepNow(b, k), f)
  <1>1. IsInstr(o) /\ o.op \notin {"if", "call"} /\ o.res \in Variable
    <2>1. IsInstr(o)
      BY DEF CodeOK, BlockOK, Block
    <2>2. o.op \notin {"if", "call"}
      BY DEF Evaluate, Changing, Assigns
    <2> QED BY <2>1, <2>2 DEF IsInstr, Allowed
  <1>2. /\ ~ SelfCopy(f) /\ code' = [code EXCEPT ![b][k] = j]
        /\ src' = [SrcNow(b, k) EXCEPT ![j.res] = ChainStart(b, SrcNow(b, k), j).id]
    BY DEF Evaluate
  <1> HIDE DEF o
  <1>3. IsInstr(i) /\ i.id = o.id /\ i.res = o.res /\ i.op \notin {"if", "call"}
    BY <1>1, IncrementedOK DEF Entered, o
  <1> HIDE DEF i
  <1>4. IsInstr(f) /\ f.id = o.id /\ f.res = o.res
    BY <1>2, <1>3, FoldedOK
  <1> HIDE DEF f
  <1>5. IsInstr(j) /\ j.id = o.id /\ j.res = o.res
    BY <1>4, ReusedOK
  <1> HIDE DEF j
  <1>6. /\ CodeOK(code') /\ Len(code') = Len(code)
        /\ Len(code'[b]) = Len(code[b])
        /\ \A m \in 1..Len(code[b]) : code'[b][m] = IF m = k THEN j ELSE code[b][m]
    BY <1>2, <1>5, ReplaceStep
  <1>7. code'[b][k] = j
    BY <1>6
  <1> QED BY <1>1, <1>2, <1>5, <1>6, <1>7 DEF o

(* All steps of OptimizeValues, ...                                        *)
LEMMA ValuesStepOK ==
    ASSUME CodeOK(code), NEW b \in Block, NEW k \in 1..Len(code[b]),
           \/ ValuesPass(b, k) \/ ValuesCall(b, k) \/ RemoveRepeated(b, k)
           \/ RemoveCopy(b, k) \/ ReplaceArgs(b, k) \/ Evaluate(b, k)
    PROVE  CodeOK(code') /\ Len(code') = Len(code)
  <1>1. CASE ValuesPass(b, k) \/ ValuesCall(b, k)
    BY <1>1 DEF ValuesPass, ValuesCall
  <1>2. CASE RemoveRepeated(b, k)
    BY <1>2, RemoveStep DEF RemoveRepeated
  <1>3. CASE RemoveCopy(b, k)
    BY <1>3, RemoveStep DEF RemoveCopy
  <1>4. CASE ReplaceArgs(b, k)
    BY <1>4, ReplaceArgsOK
  <1>5. CASE Evaluate(b, k)
    BY <1>5, EvaluateOK
  <1> QED BY <1>1, <1>2, <1>3, <1>4, <1>5

(* ... and of OptimizeLive.                                                *)
LEMMA LiveStepOK ==
    ASSUME CodeOK(code), NEW b \in Block, NEW k \in 1..Len(code[b]),
           RemoveDead(b, k) \/ MarkCall(b, k) \/ MarkInstr(b, k)
    PROVE  CodeOK(code') /\ Len(code') = Len(code)
  <1>1. CASE RemoveDead(b, k)
    BY <1>1, RemoveStep DEF RemoveDead
  <1>2. CASE MarkCall(b, k) \/ MarkInstr(b, k)
    BY <1>2 DEF MarkCall, MarkInstr
  <1> QED BY <1>1, <1>2

-----------------------------------------------------------------------------
(***************************************************************************)
(* Type correctness.                                                       *)
(***************************************************************************)
TypeInv ==
    /\ proc \in Procedures
    /\ CodeOK(code) /\ Len(code) = Len(proc.code)
    /\ pass \in Passes \cup {"done"}
    /\ at.block \in 1..(Len(code) + 1) /\ at.at \in Nat
    /\ live \subseteq Variable
    /\ modified \in BOOLEAN

(* The instructions of a block are those at its places.                    *)
LEMMA InstrOfBlock ==
    ASSUME CodeOK(code), NEW b \in Block
    PROVE  /\ \A i \in ToSet(code[b]) : \E m \in 1..Len(code[b]) : i = code[b][m]
           /\ \A m \in 1..Len(code[b]) : code[b][m] \in ToSet(code[b])
  <1>1. PICK S : code[b] \in Seq(S)
    BY DEF CodeOK, BlockOK, Block
  <1>2. DOMAIN code[b] = 1..Len(code[b])
    BY <1>1
  <1> QED BY <1>2 DEF ToSet

LEMMA TypeInvOK == TypeInv => TypeOK
  <1> SUFFICES ASSUME TypeInv PROVE TypeOK
    OBVIOUS
  <1>1. ASSUME NEW b \in Block, NEW i \in ToSet(code[b]) PROVE Allowed(i)
    <2>1. BlockOK(code[b])
      BY DEF TypeInv, CodeOK, Block
    <2>2. PICK k \in 1..Len(code[b]) : i = code[b][k]
      BY InstrOfBlock DEF TypeInv
    <2> QED BY <2>1, <2>2 DEF BlockOK, IsInstr
  <1> QED BY <1>1 DEF TypeInv, TypeOK

(* The lengths are numbers.                                                *)
LEMMA Lengths ==
    ASSUME CodeOK(code)
    PROVE  Len(code) \in Nat /\ \A b \in Block : Len(code[b]) \in Nat
  <1>1. PICK S : code \in Seq(S)
    BY DEF CodeOK
  <1>2. Len(code) \in Nat
    BY <1>1
  <1>3. ASSUME NEW b \in Block PROVE Len(code[b]) \in Nat
    <2>1. PICK T : code[b] \in Seq(T)
      BY DEF CodeOK, BlockOK, Block
    <2> QED BY <2>1
  <1> QED BY <1>2, <1>3

LEMMA TypeInit == Init => TypeInv
  <1> SUFFICES ASSUME Init PROVE TypeInv
    OBVIOUS
  <1>1. proc \in Procedures /\ code = Numbered(proc)
    BY DEF Init, CodeInit
  <1>2. CodeOK(code) /\ Len(code) = Len(proc.code)
    BY <1>1, NumberedOK
  <1>3. at.block = 1 /\ at.at = 0
    BY DEF Init, Before
  <1>4. 1 \in 1..(Len(code) + 1)
    BY <1>2, Lengths
  <1>5. pass = "values" /\ live = {} /\ modified = FALSE
    BY DEF Init
  <1>6. pass \in Passes /\ modified \in BOOLEAN /\ live \subseteq Variable
    BY <1>5 DEF Passes
  <1> QED BY <1>1, <1>2, <1>3, <1>4, <1>6 DEF TypeInv

(* A step of the optimizer that stays in the code.                         *)
LEMMA ContinueOK ==
    ASSUME TypeInv, NEW changed \in BOOLEAN,
           at' = NextBlock \/ at' = at
             \/ (\E k \in Int : k >= 0 /\ at' = Inside(at.block, k)),
           at.block \in Block, modified' = (modified \/ changed)
    PROVE  /\ at.block' \in 1..(Len(code) + 1) /\ at.at' \in Nat
           /\ modified' \in BOOLEAN
  <1>1. Len(code) \in Nat
    BY Lengths DEF TypeInv
  <1>2. at.block \in 1..Len(code) /\ at.at \in Nat
    BY DEF TypeInv, Block
  <1>3. CASE at' = NextBlock
    <2>1. at'.block = at.block + 1 /\ at'.at = 0
      BY <1>3 DEF NextBlock, Before
    <2> QED BY <1>1, <1>2, <2>1 DEF TypeInv
  <1>4. CASE at' = at
    BY <1>1, <1>2, <1>4 DEF TypeInv
  <1>5. ASSUME NEW k \in Int, k >= 0, at' = Inside(at.block, k)
        PROVE  at.block' \in 1..(Len(code) + 1) /\ at.at' \in Nat
    <2>1. at'.block = at.block /\ at'.at = k
      BY <1>5 DEF Inside
    <2> QED BY <1>1, <1>2, <1>5, <2>1
  <1>6. modified' \in BOOLEAN
    <2>1. modified \in BOOLEAN /\ modified' = (modified \/ changed)
      BY DEF TypeInv
    <2> QED BY <2>1
  <1> QED BY <1>3, <1>4, <1>5, <1>6

(* The variables that are live remain variables.                           *)
LEMMA LiveVars ==
    ASSUME TypeInv, NEW b \in Block, NEW k,
           LiveBegin(b) \/ RemoveDead(b, k) \/ MarkCall(b, k) \/ MarkInstr(b, k)
    PROVE  live' \subseteq Variable
  <1>1. live \subseteq Variable /\ proc.callee.ins \subseteq Variable
    BY ProcCodeAssumption DEF TypeInv
  <1>2. CASE LiveBegin(b)
    BY <1>2 DEF LiveBegin, LiveAfter
  <1>3. CASE RemoveDead(b, k)
    BY <1>1, <1>3 DEF RemoveDead
  <1>4. CASE MarkCall(b, k)
    BY <1>1, <1>4 DEF MarkCall, MarkProcLive
  <1>5. CASE MarkInstr(b, k)
    BY <1>1, <1>5 DEF MarkInstr, Args
  <1> QED BY <1>2, <1>3, <1>4, <1>5

(* Where a pass is.                                                        *)
LEMMA PlaceOK ==
    ASSUME TypeInv
    PROVE  /\ \A p : Doing(p) => at.block \in Block
           /\ \A p : AtInstr(p) => at.block \in Block /\ at.at \in 1..Len(code[at.block])
  <1>1. Len(code) \in Nat
    BY Lengths DEF TypeInv
  <1>2. at.block \in 1..(Len(code) + 1)
    BY DEF TypeInv
  <1>3. ASSUME NEW p, Doing(p) PROVE at.block \in Block
    BY <1>1, <1>2, <1>3 DEF Doing, Block
  <1> QED BY <1>3 DEF AtInstr

LEMMA TypeNext == TypeInv /\ [Next]_vars => TypeInv'
  <1> SUFFICES ASSUME TypeInv, [Next]_vars PROVE TypeInv'
    OBVIOUS
  <1>0. /\ CodeOK(code) /\ Len(code) = Len(proc.code) /\ Len(code) \in Nat
        /\ live \subseteq Variable /\ pass \in Passes \cup {"done"} /\ proc \in Procedures
        /\ \A b \in Block : Len(code[b]) \in Nat
    BY Lengths DEF TypeInv
  \* What a step of a pass establishes.
  <1>A. ASSUME NEW changed \in BOOLEAN, NEW where, Continue(where, changed),
               where = NextBlock \/ where = at
                 \/ (\E k \in Int : k >= 0 /\ where = Inside(at.block, k)),
               at.block \in Block, live' \subseteq Variable,
               CodeOK(code') /\ Len(code') = Len(code)
        PROVE  TypeInv'
    <2>1. at' = where /\ modified' = (modified \/ changed) /\ proc' = proc /\ pass' = pass
      BY <1>A DEF Continue
    <2>2. /\ at.block' \in 1..(Len(code) + 1) /\ at.at' \in Nat
          /\ modified' \in BOOLEAN
      BY <1>A, <2>1, ContinueOK
    <2> QED BY <1>0, <1>A, <2>1, <2>2 DEF TypeInv
  <1>1. CASE EnterValues
    <2>1. at.block \in Block
      BY <1>1, PlaceOK DEF EnterValues, Begin
    <2>2. code' = code /\ live' = live /\ Continue(Inside(at.block, 1), FALSE)
      BY <1>1 DEF EnterValues, ValuesBegin
    <2>3. \E n \in Int : n >= 0 /\ Inside(at.block, 1) = Inside(at.block, n)
      OBVIOUS
    <2> QED BY <1>0, <1>A, <2>1, <2>2, <2>3
  <1>2. CASE ValuesStep
    <2> DEFINE b == at.block
               k == at.at
    <2>1. b \in Block /\ k \in 1..Len(code[b])
      BY <1>2, PlaceOK DEF ValuesStep
    <2>2. \/ ValuesPass(b, k) \/ ValuesCall(b, k) \/ RemoveRepeated(b, k)
          \/ RemoveCopy(b, k) \/ ReplaceArgs(b, k) \/ Evaluate(b, k)
      BY <1>2 DEF ValuesStep
    <2>3. \E changed \in BOOLEAN :
             \/ Continue(Following, changed) \/ Continue(at, changed) \/ Continue(NextBlock, changed)
      BY <1>2 DEF ValuesStep
    <2>4. live' = live
      BY <1>2 DEF ValuesStep
    <2> HIDE DEF b, k
    <2>5. CodeOK(code') /\ Len(code') = Len(code)
      BY <1>0, <2>1, <2>2, ValuesStepOK
    <2>6. Following = Inside(at.block, k + 1) /\ k + 1 \in Int /\ k + 1 >= 0
      BY <1>0, <2>1 DEF Following, k
    <2> QED BY <1>0, <1>A, <2>1, <2>3, <2>4, <2>5, <2>6 DEF b
  <1>3. CASE LeaveBlock
    <2>1. at.block \in Block
      BY <1>3, PlaceOK DEF LeaveBlock, Over
    <2>2. code' = code /\ live' = live /\ Continue(NextBlock, FALSE)
      BY <1>3 DEF LeaveBlock
    <2> QED BY <1>0, <1>A, <2>1, <2>2
  <1>4. CASE EnterLive
    <2>1. at.block \in Block
      BY <1>4, PlaceOK DEF EnterLive, Begin
    <2>2. LiveBegin(at.block) /\ Continue(Inside(at.block, Len(code[at.block])), FALSE)
      BY <1>4 DEF EnterLive
    <2>3. code' = code /\ live' \subseteq Variable
      BY <2>1, <2>2, LiveVars DEF LiveBegin
    <2>4. Len(code[at.block]) \in Int /\ Len(code[at.block]) >= 0
      BY <1>0, <2>1
    <2> QED BY <1>0, <1>A, <2>1, <2>2, <2>3, <2>4
  <1>5. CASE LiveStep
    <2> DEFINE b == at.block
               k == at.at
    <2>1. b \in Block /\ k \in 1..Len(code[b])
      BY <1>5, PlaceOK DEF LiveStep
    <2>2. RemoveDead(b, k) \/ MarkCall(b, k) \/ MarkInstr(b, k)
      BY <1>5 DEF LiveStep
    <2>3. \E changed \in BOOLEAN : Continue(NextBlock, changed) \/ Continue(Preceding, changed)
      BY <1>5 DEF LiveStep
    <2> HIDE DEF b, k
    <2>4. CodeOK(code') /\ Len(code') = Len(code)
      BY <1>0, <2>1, <2>2, LiveStepOK
    <2>5. live' \subseteq Variable
      BY <2>1, <2>2, LiveVars
    <2>6. Preceding = Inside(at.block, k - 1) /\ k - 1 \in Int /\ k - 1 >= 0
      BY <1>0, <2>1 DEF Preceding, k
    <2> QED BY <1>0, <1>A, <2>1, <2>3, <2>4, <2>5, <2>6 DEF b
  <1>6. CASE BranchesStep
    <2>1. at.block \in Block
      BY <1>6, PlaceOK DEF BranchesStep
    <2>2. /\ code' = IF SameEnds(at.block) THEN Gathered(at.block) ELSE code
          /\ live' = live
      BY <1>6 DEF BranchesStep
    <2>3. SameEnds(at.block) \in BOOLEAN /\ Continue(NextBlock, SameEnds(at.block))
      BY <1>6 DEF BranchesStep, SameEnds
    <2>4. CodeOK(code') /\ Len(code') = Len(code)
      BY <1>0, <2>1, <2>2, GatheredOK
    <2> QED BY <1>0, <1>A, <2>1, <2>2, <2>3, <2>4
  <1>7. CASE EnterMerge
    <2>1. at.block \in Block
      BY <1>7, PlaceOK DEF EnterMerge, Begin
    <2>2. code' = code /\ live' = live /\ Continue(Inside(at.block, 1), FALSE)
      BY <1>7 DEF EnterMerge
    <2>3. \E n \in Int : n >= 0 /\ Inside(at.block, 1) = Inside(at.block, n)
      OBVIOUS
    <2> QED BY <1>0, <1>A, <2>1, <2>2, <2>3
  <1>8. CASE MergeStep
    <2> DEFINE b == at.block
               k == at.at
    <2>1. b \in Block /\ k \in 1..Len(code[b])
      BY <1>8, PlaceOK DEF MergeStep
    <2>2. /\ IF Merges THEN MergeCopy(b, k) ELSE UNCHANGED code
          /\ Continue(IF Merges THEN at ELSE Following, Merges)
          /\ live' = live
      BY <1>8 DEF MergeStep
    <2>3. Merges \in BOOLEAN /\ (Merges => MergesAt(b, k, TRUE))
      BY DEF Merges, MergesAt
    <2> HIDE DEF b, k
    <2>4. CodeOK(code') /\ Len(code') = Len(code)
      BY <1>0, <2>1, <2>2, <2>3, MergeCopyOK
    <2>5. Following = Inside(at.block, k + 1) /\ k + 1 \in Int /\ k + 1 >= 0
      BY <1>0, <2>1 DEF Following, k
    <2> DEFINE changed == Merges
               where == IF Merges THEN at ELSE Following
    <2>6. Continue(where, changed) /\ changed \in BOOLEAN
      BY <2>2, <2>3
    <2>7. where = at \/ (\E n \in Int : n >= 0 /\ where = Inside(at.block, n))
      BY <2>5
    <2> HIDE DEF changed, where
    <2> QED BY <1>0, <1>A, <2>1, <2>2, <2>4, <2>6, <2>7 DEF b
  <1>9. CASE NextPass
    <2>1. /\ pass # "done" /\ pass' = PassAfter /\ at' = Before(1)
          /\ modified' = (modified /\ pass \notin {"branches", "merge"})
          /\ proc' = proc /\ code' = code /\ live' = live
      BY <1>9 DEF NextPass
    <2>2. pass' \in Passes \cup {"done"}
      BY <1>0, <2>1 DEF PassAfter, Passes
    <2>3. at.block' \in 1..(Len(code) + 1) /\ at.at' \in Nat
      BY <1>0, <2>1 DEF Before
    <2>4. modified' \in BOOLEAN
      BY <2>1
    <2> QED BY <1>0, <2>1, <2>2, <2>3, <2>4 DEF TypeInv
  <1>10. CASE StartRun \/ RunOn \/ Finished \/ UNCHANGED vars
    BY <1>10 DEF StartRun, RunOn, Finished, vars, TypeInv
  <1> QED BY <1>1, <1>2, <1>3, <1>4, <1>5, <1>6, <1>7, <1>8, <1>9, <1>10 DEF Next, Optimize

(* Every instruction the optimizer leaves is one the processor has.        *)
THEOREM CombinedTypeCorrect == Spec => []TypeOK
  <1> QED BY TypeInit, TypeNext, TypeInvOK, PTL DEF Spec

-----------------------------------------------------------------------------
(***************************************************************************)
(* What src_i points to.  In OptimizeValues the instructions of the block  *)
(* that were gone through; in OptimizeLive those of other blocks, those    *)
(* that were gone through, the first one of the block that has to do with  *)
(* the variable, or anything if none of the rest has to do with it.        *)
(***************************************************************************)
Touched(i) == Args(i) \cup {i.res}

IdsBefore(c, k) == {NoInstr} \cup {c[m].id : m \in 1..(k - 1)}
ValuesSrc(b, k) ==
    /\ k \in 1..(Len(code[b]) + 1)
    /\ src \in [Variable -> IdsBefore(code[b], k)]

ElsewhereSrc(b, k, id) ==
    \/ id = NoInstr
    \/ \E d \in Block : d # b /\ \E m \in 1..Len(code[d]) : id = code[d][m].id
    \/ \E m \in (k + 1)..Len(code[b]) : id = code[b][m].id
FirstSrc(b, k, v) ==
    \E m \in 1..k : /\ src[v] = code[b][m].id
                    /\ v \in Touched(code[b][m])
                    /\ \A j \in 1..(m - 1) : v \notin Touched(code[b][j])
LiveSrc(b, k) ==
    /\ k \in 0..Len(code[b])
    /\ \A v \in Variable :
          \/ ElsewhereSrc(b, k, src[v])
          \/ FirstSrc(b, k, v)
          \/ \A j \in 1..k : v \notin Touched(code[b][j])

SrcInv ==
    /\ Doing({"values"}) /\ at.begun => ValuesSrc(at.block, at.at)
    /\ Doing({"live", "live again"}) /\ at.begun => LiveSrc(at.block, at.at)

LEMMA ValuesSrcMet ==
    ASSUME CodeOK(code), NEW a \in Block, NEW k, ValuesSrc(a, k),
           NEW v \in Variable, src[v] # NoInstr
    PROVE  \E b \in Block : \E i \in ToSet(code[b]) : i.id = src[v]
  <1>1. k \in 1..(Len(code[a]) + 1) /\ src[v] \in {code[a][m].id : m \in 1..(k - 1)}
    BY DEF ValuesSrc, IdsBefore
  <1>2. PICK m \in 1..(k - 1) : src[v] = code[a][m].id
    BY <1>1
  <1>3. m \in 1..Len(code[a])
    BY <1>1, <1>2, Lengths
  <1> QED BY <1>2, <1>3, InstrOfBlock

LEMMA LiveSrcMet ==
    ASSUME CodeOK(code), NEW a \in Block, NEW k, LiveSrc(a, k),
           NEW v \in Variable, src[v] # NoInstr,
           NEW j \in Touching(a, v), j <= k
    PROVE  \E b \in Block : \E i \in ToSet(code[b]) : i.id = src[v]
  <1> DEFINE n == Len(code[a])
  <1>1. n \in Nat /\ k \in 0..n
    BY Lengths DEF LiveSrc
  <1>2. j \in 1..n /\ v \in Touched(code[a][j])
    BY DEF Touching, Touched
  <1>3. \A m \in 1..n : code[a][m] \in ToSet(code[a])
    BY InstrOfBlock
  <1>4. \A d \in Block : \A m \in 1..Len(code[d]) : code[d][m] \in ToSet(code[d])
    BY InstrOfBlock
  <1> HIDE DEF n
  <1>5. j \in 1..k
    BY <1>1, <1>2
  <1>6. ElsewhereSrc(a, k, src[v]) \/ FirstSrc(a, k, v)
    BY <1>2, <1>5 DEF LiveSrc
  <1>7. CASE FirstSrc(a, k, v)
    <2>1. PICK m \in 1..k : src[v] = code[a][m].id
      BY <1>7 DEF FirstSrc
    <2>2. m \in 1..n
      BY <1>1, <2>1
    <2> QED BY <1>3, <2>1, <2>2
  <1>8. CASE ElsewhereSrc(a, k, src[v])
    <2>1. CASE \E d \in Block : \E m \in 1..Len(code[d]) : src[v] = code[d][m].id
      BY <1>4, <2>1
    <2>2. CASE \E m \in (k + 1)..n : src[v] = code[a][m].id
      <3>1. PICK m \in (k + 1)..n : src[v] = code[a][m].id
        BY <2>2
      <3>2. m \in 1..n
        BY <1>1, <3>1
      <3> QED BY <1>3, <3>1, <3>2
    <2> QED BY <1>8, <2>1, <2>2 DEF ElsewhereSrc, n
  <1> QED BY <1>6, <1>7, <1>8

LEMMA SrcInvOK == TypeInv /\ SrcInv => NoFreedInstr
  <1> SUFFICES ASSUME TypeInv, SrcInv,
                      Doing({"values", "live", "live again"}), at.begun,
                      NEW v \in Met, src[v] # NoInstr
               PROVE  \E b \in Block : \E i \in ToSet(code[b]) : i.id = src[v]
    BY DEF NoFreedInstr
  <1>1. at.block \in Block /\ CodeOK(code)
    BY PlaceOK DEF TypeInv
  <1>2. CASE pass = "values"
    <2>1. ValuesSrc(at.block, at.at)
      BY <1>2 DEF SrcInv, Doing
    <2>2. v \in Variable
      BY <1>2 DEF Met
    <2> QED BY <1>1, <2>1, <2>2, ValuesSrcMet
  <1>3. CASE pass # "values"
    <2>1. LiveSrc(at.block, at.at)
      BY <1>3 DEF SrcInv, Doing
    <2>2. v \in Variable /\ \E j \in Touching(at.block, v) : j <= at.at
      BY <1>3 DEF Met
    <2> QED BY <1>1, <2>1, <2>2, LiveSrcMet
  <1> QED BY <1>2, <1>3

-----------------------------------------------------------------------------
(***************************************************************************)
(* OptimizeValues.  What a variable that gets another value leaves in      *)
(* src_i was there, or is nothing: ResetValue looks at one variable after  *)
(* the other.                                                              *)
(***************************************************************************)
LEMMA ResetOneKeeps ==
    ASSUME NEW T, NoInstr \in T, NEW b, NEW s \in [Variable -> T], NEW v \in Variable, NEW w
    PROVE  ResetOne(b, s, v, w) \in [Variable -> T]
  <1> DEFINE i == Pointed(b, s[w])
             source == IF s[v] # NoInstr /\ Uses(Pointed(b, s[v]), v) THEN NoInstr ELSE s[v]
  <1>1. source \in T
    OBVIOUS
  <1>2. \/ ResetOne(b, s, v, w) = s
        \/ ResetOne(b, s, v, w) = [s EXCEPT ![i.res] = source]
        \/ ResetOne(b, s, v, w) = [s EXCEPT ![w] = NoInstr]
    BY DEF ResetOne
  <1> HIDE DEF i, source
  <1> QED BY <1>1, <1>2

LEMMA ResetValueKeeps ==
    ASSUME NEW T, NoInstr \in T, NEW b, NEW s \in [Variable -> T], NEW v \in Variable
    PROVE  ResetValue(b, s, v) \in [Variable -> T]
  <1> DEFINE S == [Variable -> T]
             Step(x, n) == ResetOne(b, x, v, Vars[n])
             Def(f) == [n \in Nat |-> IF n = 0 THEN s ELSE Step(f[n - 1], n)]
             reset == CHOOSE f : f = Def(f)
             g == [n \in Nat |-> [x \in S |-> Step(x, n + 1)]]
  <1>1. ResetValue(b, s, v) = [reset[Len(Vars)] EXCEPT ![v] = NoInstr]
    BY DEF ResetValue
  <1>2. \A x \in S : \A n : Step(x, n) \in S
    BY ResetOneKeeps
  <1> HIDE DEF Step
  <1>3. PICK f : Follows(f, S, s, g)
    <2>1. g \in [Nat -> [S -> S]] /\ s \in S
      BY <1>2
    <2> HIDE DEF g, S, Def, reset
    <2> QED BY <2>1, Recursion
  <1>4. f = Def(f)
    <2>1. ASSUME NEW n \in Nat, n # 0 PROVE f[n] = Step(f[n - 1], n)
      <3>1. n - 1 \in Nat /\ (n - 1) + 1 = n
        BY <2>1
      <3> HIDE DEF S
      <3>2. f[(n - 1) + 1] = g[n - 1][f[n - 1]] /\ f[n - 1] \in S
        BY <1>3, <3>1 DEF Follows
      <3> QED BY <3>1, <3>2
    <2> QED BY <1>3, <2>1 DEF Follows
  <1>5. reset = Def(reset)
    <2> HIDE DEF Def
    <2> QED BY <1>4
  <1>6. reset[0] = s /\ \A n \in Nat : reset[n + 1] = Step(reset[n], n + 1)
    <2> DEFINE r == reset
    <2>1. r = [n \in Nat |-> IF n = 0 THEN s ELSE Step(r[n - 1], n)]
      BY <1>5
    <2> HIDE DEF r
    <2>2. r[0] = s /\ \A n \in Nat : r[n + 1] = Step(r[n], n + 1)
      <3>1. \A n \in Nat : n + 1 \in Nat /\ n + 1 # 0 /\ (n + 1) - 1 = n
        OBVIOUS
      <3> QED BY <2>1, <3>1
    <2> QED BY <2>2 DEF r
  <1> HIDE DEF reset, S
  <1>7. \A n \in Nat : reset[n] \in S
    <2> DEFINE P == {n \in Nat : reset[n] \in S}
    <2>1. 0 \in P
      BY <1>6 DEF S
    <2>2. \A n \in Nat : n \in P => n + 1 \in P
      BY <1>2, <1>6
    <2> HIDE DEF P
    <2>3. Nat \subseteq P
      BY <2>1, <2>2, Counting
    <2> QED BY <2>3 DEF P
  <1>8. Len(Vars) \in Nat
    BY ProcCodeAssumption
  <1>9. reset[Len(Vars)] \in [Variable -> T]
    BY <1>7, <1>8 DEF S
  <1> QED BY <1>1, <1>9

LEMMA ProcValuesUseKeeps ==
    ASSUME TypeInv, NEW T, NoInstr \in T, NEW b, NEW s \in [Variable -> T]
    PROVE  ProcValuesUse(b, s) \in [Variable -> T]
  <1> DEFINE S == [Variable -> T]
             Step(x, n) == IF Vars[n] \in proc.callee.seen THEN ResetValue(b, x, Vars[n]) ELSE x
             Def(f) == [n \in Nat |-> IF n = 0 THEN s ELSE Step(f[n - 1], n)]
             reset == CHOOSE f : f = Def(f)
             g == [n \in Nat |-> [x \in S |-> Step(x, n + 1)]]
  <1>1. ProcValuesUse(b, s) = reset[Len(Vars)]
    BY DEF ProcValuesUse
  <1>2. \A x \in S : \A n : Step(x, n) \in S
    <2>1. proc.callee.seen \subseteq Variable
      BY ProcCodeAssumption DEF TypeInv
    <2> QED BY <2>1, ResetValueKeeps
  <1> HIDE DEF Step
  <1>3. PICK f : Follows(f, S, s, g)
    <2>1. g \in [Nat -> [S -> S]] /\ s \in S
      BY <1>2
    <2> HIDE DEF g, S, Def, reset
    <2> QED BY <2>1, Recursion
  <1>4. f = Def(f)
    <2>1. ASSUME NEW n \in Nat, n # 0 PROVE f[n] = Step(f[n - 1], n)
      <3>1. n - 1 \in Nat /\ (n - 1) + 1 = n
        BY <2>1
      <3> HIDE DEF S
      <3>2. f[(n - 1) + 1] = g[n - 1][f[n - 1]] /\ f[n - 1] \in S
        BY <1>3, <3>1 DEF Follows
      <3> QED BY <3>1, <3>2
    <2> QED BY <1>3, <2>1 DEF Follows
  <1>5. reset = Def(reset)
    <2> HIDE DEF Def
    <2> QED BY <1>4
  <1>6. reset[0] = s /\ \A n \in Nat : reset[n + 1] = Step(reset[n], n + 1)
    <2> DEFINE r == reset
    <2>1. r = [n \in Nat |-> IF n = 0 THEN s ELSE Step(r[n - 1], n)]
      BY <1>5
    <2> HIDE DEF r
    <2>2. r[0] = s /\ \A n \in Nat : r[n + 1] = Step(r[n], n + 1)
      <3>1. \A n \in Nat : n + 1 \in Nat /\ n + 1 # 0 /\ (n + 1) - 1 = n
        OBVIOUS
      <3> QED BY <2>1, <3>1
    <2> QED BY <2>2 DEF r
  <1> HIDE DEF reset, S
  <1>7. \A n \in Nat : reset[n] \in S
    <2> DEFINE P == {n \in Nat : reset[n] \in S}
    <2>1. 0 \in P
      BY <1>6 DEF S
    <2>2. \A n \in Nat : n \in P => n + 1 \in P
      BY <1>2, <1>6
    <2> HIDE DEF P
    <2>3. Nat \subseteq P
      BY <2>1, <2>2, Counting
    <2> QED BY <2>3 DEF P
  <1>8. Len(Vars) \in Nat
    BY ProcCodeAssumption
  <1> QED BY <1>1, <1>7, <1>8 DEF S

(* The start of a chain of assignments is the instruction itself, or one   *)
(* that src_i of a variable points to.                                     *)
LEMMA ChainStartKeeps ==
    ASSUME NEW b, NEW T, NEW s \in [Variable -> T],
           \A t \in T \ {NoInstr} : \E j \in ToSet(code[b]) : j.id = t,
           NEW i, i.id \in T, Len(code[b]) \in Nat
    PROVE  ChainStart(b, s, i).id \in T
  <1> DEFINE S == {i} \cup {j \in ToSet(code[b]) : j.id \in T}
             Step(j) == IF j.op = "let" /\ SourceInstr(b, s, j.a1).op # "none"
                        THEN SourceInstr(b, s, j.a1) ELSE j
             Def(f) == [n \in Nat |-> IF n = 0 THEN i ELSE Step(f[n - 1])]
             from == CHOOSE f : f = Def(f)
             g == [n \in Nat |-> [x \in S |-> Step(x)]]
  <1>1. ChainStart(b, s, i) = from[Len(code[b])]
    BY DEF ChainStart
  <1>2. \A a : SourceInstr(b, s, a).op # "none" => SourceInstr(b, s, a) \in S
    <2> SUFFICES ASSUME NEW a, SourceInstr(b, s, a).op # "none"
                 PROVE  SourceInstr(b, s, a) \in S
      OBVIOUS
    <2>1. a \in Variable /\ s[a] # NoInstr /\ SourceInstr(b, s, a) = Pointed(b, s[a])
      BY DEF SourceInstr, Instr, IsConst
    <2>2. PICK j \in ToSet(code[b]) : j.id = s[a]
      BY <2>1
    <2>3. Pointed(b, s[a]) \in ToSet(code[b]) /\ Pointed(b, s[a]).id = s[a]
      BY <2>2 DEF Pointed
    <2> QED BY <2>1, <2>3
  <1>3. \A x \in S : Step(x) \in S
    BY <1>2
  <1> HIDE DEF Step
  <1>4. PICK f : Follows(f, S, i, g)
    <2>1. g \in [Nat -> [S -> S]] /\ i \in S
      BY <1>3
    <2> HIDE DEF g, S, Def, from
    <2> QED BY <2>1, Recursion
  <1>5. f = Def(f)
    <2>1. ASSUME NEW n \in Nat, n # 0 PROVE f[n] = Step(f[n - 1])
      <3>1. n - 1 \in Nat /\ (n - 1) + 1 = n
        BY <2>1
      <3> HIDE DEF S
      <3>2. f[(n - 1) + 1] = g[n - 1][f[n - 1]] /\ f[n - 1] \in S
        BY <1>4, <3>1 DEF Follows
      <3> QED BY <3>1, <3>2
    <2> QED BY <1>4, <2>1 DEF Follows
  <1>6. from = Def(from)
    <2> HIDE DEF Def
    <2> QED BY <1>5
  <1>7. from[0] = i /\ \A n \in Nat : from[n + 1] = Step(from[n])
    <2> DEFINE r == from
    <2>1. r = [n \in Nat |-> IF n = 0 THEN i ELSE Step(r[n - 1])]
      BY <1>6
    <2> HIDE DEF r
    <2>2. r[0] = i /\ \A n \in Nat : r[n + 1] = Step(r[n])
      <3>1. \A n \in Nat : n + 1 \in Nat /\ n + 1 # 0 /\ (n + 1) - 1 = n
        OBVIOUS
      <3> QED BY <2>1, <3>1
    <2> QED BY <2>2 DEF r
  <1> HIDE DEF from
  <1>8. \A n \in Nat : from[n] \in S
    <2> DEFINE P == {n \in Nat : from[n] \in S}
    <2>1. 0 \in P
      BY <1>7
    <2>2. \A n \in Nat : n \in P => n + 1 \in P
      <3> HIDE DEF S
      <3> SUFFICES ASSUME NEW n \in Nat, from[n] \in S
                   PROVE  from[n + 1] \in S
        OBVIOUS
      <3> QED BY <1>3, <1>7
    <2> HIDE DEF P
    <2>3. Nat \subseteq P
      BY <2>1, <2>2, Counting
    <2> QED BY <2>3 DEF P
  <1>9. from[Len(code[b])] \in S
    BY <1>8
  <1> QED BY <1>1, <1>9

(* Each step of OptimizeValues that stays in the block.                    *)
LEMMA ValuesSrcStep ==
    ASSUME TypeInv, NEW b \in Block, NEW k \in 1..Len(code[b]), ValuesSrc(b, k)
    PROVE  /\ ValuesPass(b, k) \/ ValuesCall(b, k) \/ Evaluate(b, k) => ValuesSrc(b, k + 1)'
           /\ RemoveRepeated(b, k) \/ RemoveCopy(b, k) => ValuesSrc(b, k)'
  <1> DEFINE c == code[b]
             n == Len(c)
             T(m) == IdsBefore(c, m)
  <1>1. CodeOK(code) /\ BlockOK(c) /\ n \in Nat /\ k \in 1..n
    BY Lengths DEF TypeInv, CodeOK, Block
  <1>2. src \in [Variable -> T(k)] /\ NoInstr \in T(k) /\ T(k) \subseteq T(k + 1)
    BY DEF ValuesSrc, IdsBefore
  <1>3. Assigns(b, k) => c[k].res \in Variable
    BY <1>1 DEF Assigns, BlockOK, IsInstr, Allowed
  <1>4. Assigns(b, k) => SrcNow(b, k) \in [Variable -> T(k)]
    <2> HIDE DEF T
    <2> QED BY <1>2, <1>3, ResetValueKeeps DEF SrcNow, c
  <1>5. k \in 1..(n + 1) /\ k + 1 \in 1..(n + 1)
    <2> HIDE DEF n
    <2> QED BY <1>1
  <1>6. ASSUME ValuesPass(b, k) \/ ValuesCall(b, k)
        PROVE  ValuesSrc(b, k + 1)'
    <2>1. code' = code /\ (src' = src \/ src' = ProcValuesUse(b, src))
      BY <1>6 DEF ValuesPass, ValuesCall
    <2>2. src' \in [Variable -> T(k)]
      <3> HIDE DEF T
      <3> QED BY <1>2, <2>1, ProcValuesUseKeeps
    <2>3. src' \in [Variable -> T(k + 1)]
      <3> HIDE DEF T
      <3> QED BY <1>2, <2>2
    <2> QED BY <1>5, <2>1, <2>3 DEF ValuesSrc
  <1>7. ASSUME RemoveRepeated(b, k) \/ RemoveCopy(b, k)
        PROVE  ValuesSrc(b, k)'
    <2>1. code' = [code EXCEPT ![b] = RemoveAt(@, k)]
      BY <1>7 DEF RemoveRepeated, RemoveCopy
    <2>2. src' \in [Variable -> T(k)]
      <3>1. Assigns(b, k) /\ (src' = src \/ src' = SrcNow(b, k))
        BY <1>7 DEF RemoveRepeated, RemoveCopy, Changing
      <3> HIDE DEF T
      <3> QED BY <1>2, <1>4, <3>1
    <2>3. code'[b] = RemoveAt(c, k)
      BY <1>1, <2>1, RemoveStep
    <2> HIDE DEF c
    <2>4. /\ Len(RemoveAt(c, k)) = n - 1
          /\ \A m \in 1..(n - 1) : RemoveAt(c, k)[m] = IF m < k THEN c[m] ELSE c[m + 1]
      BY <1>1, BlockRemove
    <2>5. Len(code'[b]) = n - 1 /\ \A m \in 1..(k - 1) : code'[b][m] = c[m]
      <3>1. \A m \in 1..(k - 1) : m \in 1..(n - 1) /\ m < k
        <4> HIDE DEF n
        <4> QED BY <1>1
      <3> HIDE DEF n
      <3> QED BY <2>3, <2>4, <3>1
    <2>6. IdsBefore(code'[b], k) = T(k)
      BY <2>5 DEF IdsBefore
    <2>7. k \in 1..(Len(code'[b]) + 1)
      <3> HIDE DEF n
      <3> QED BY <1>1, <2>5
    <2> QED BY <2>2, <2>6, <2>7 DEF ValuesSrc
  <1>8. ASSUME Evaluate(b, k)
        PROVE  ValuesSrc(b, k + 1)'
    <2> DEFINE s == SrcNow(b, k)
               j == code'[b][k]
    <2>1. /\ Len(code'[b]) = n
          /\ \A m \in 1..n : m # k => code'[b][m] = c[m]
          /\ j.id = c[k].id /\ c[k].res \in Variable
          /\ src' = [s EXCEPT ![c[k].res] = ChainStart(b, s, j).id]
      BY <1>1, <1>8, EvaluateOK
    <2>2. s \in [Variable -> T(k + 1)]
      <3>1. Assigns(b, k)
        BY <1>8 DEF Evaluate, Changing
      <3> HIDE DEF T
      <3> QED BY <1>2, <1>4, <3>1
    <2>3. j.id \in T(k + 1)
      <3>1. k \in 1..((k + 1) - 1)
        BY <1>1
      <3> HIDE DEF c, n
      <3> QED BY <2>1, <3>1 DEF IdsBefore
    <2>4. \A t \in T(k + 1) \ {NoInstr} : \E i \in ToSet(c) : i.id = t
      <3>1. \A m \in 1..((k + 1) - 1) : m \in 1..n
        <4> HIDE DEF n
        <4> QED BY <1>1
      <3>2. \A m \in 1..n : c[m] \in ToSet(c)
        BY <1>1, InstrOfBlock
      <3> HIDE DEF c, n
      <3> QED BY <3>1, <3>2 DEF IdsBefore
    <2>5. ChainStart(b, s, j).id \in T(k + 1)
      <3> HIDE DEF T, s, j
      <3> QED BY <1>1, <2>2, <2>3, <2>4, ChainStartKeeps
    <2>6. src' \in [Variable -> T(k + 1)]
      <3> HIDE DEF T, s, j, c
      <3> QED BY <2>1, <2>2, <2>5
    <2>7. IdsBefore(code'[b], k + 1) = T(k + 1)
      <3>1. \A m \in 1..((k + 1) - 1) : code'[b][m].id = c[m].id
        <4>1. \A m \in 1..((k + 1) - 1) : m \in 1..n
          <5> HIDE DEF n
          <5> QED BY <1>1
        <4> HIDE DEF c, n
        <4> QED BY <2>1, <4>1
      <3> HIDE DEF c
      <3> QED BY <3>1 DEF IdsBefore
    <2> HIDE DEF T, c
    <2> QED BY <1>5, <2>1, <2>6, <2>7 DEF ValuesSrc
  <1> QED BY <1>6, <1>7, <1>8

-----------------------------------------------------------------------------
(***************************************************************************)
(* OptimizeLive.  The search behind a block leaves nothing, or the first   *)
(* instruction of some block that has to do with the variable.             *)
(***************************************************************************)
NextUses(v) ==
    {NoInstr} \cup {FirstTouch(d, v).id : d \in {e \in Block : Touching(e, v) # {}}}
Found(v) == [live : BOOLEAN, use : NextUses(v), seen : SUBSET Block]

LEMMA SearchFinds ==
    ASSUME TypeInv, NEW v, NEW block \in 0..Len(code), NEW visited \in SUBSET Block
    PROVE  VarIsLiveInBlock(block, v, visited) \in Found(v)
  <1> DEFINE L == 0..Len(code)
             F == Found(v)
             S == [L -> [SUBSET Block -> F]]
             Result(l, use, seen) == [live |-> l, use |-> use, seen |-> seen]
             At(n, f, b, seen) ==
                 IF n = 0 \/ b \in seen \cup {NoBlock} THEN Result(FALSE, NoInstr, seen)
                 ELSE IF Touching(b, v) # {} THEN
                     IF v \in Args(FirstTouch(b, v))
                     THEN Result(TRUE, FirstTouch(b, v).id, seen \cup {b})
                     ELSE Result(FALSE, NoInstr, seen \cup {b})
                 ELSE IF b = Len(code) /\ v \in proc.outs
                     THEN Result(TRUE, NoInstr, seen \cup {b})
                 ELSE LET to == f[proc.to[b]][seen \cup {b}] IN
                      IF to.live THEN Result(TRUE, NoInstr, to.seen)
                      ELSE f[proc.condTo[b]][to.seen]
             E(n, f) == [b \in L |-> [seen \in SUBSET Block |-> At(n, f, b, seen)]]
             Def(h) == [n \in Nat |-> E(n, h[n - 1])]
             search == CHOOSE h : h = Def(h)
             base == [b \in L |-> [seen \in SUBSET Block |-> Result(FALSE, NoInstr, seen)]]
             g == [n \in Nat |-> [f \in S |-> E(n + 1, f)]]
  <1>1. VarIsLiveInBlock(block, v, visited) = search[Len(code) + 1][block][visited]
    BY DEF VarIsLiveInBlock
  <1>2. /\ Len(code) \in Nat /\ L = {NoBlock} \cup Block
        /\ \A b \in Block : proc.to[b] \in L /\ proc.condTo[b] \in L
    <2>1. Len(code) \in Nat /\ Len(code) = Len(proc.code) /\ proc \in Procedures
      BY Lengths DEF TypeInv
    <2>2. \A b \in 1..Len(proc.code) : {proc.to[b], proc.condTo[b]} \subseteq 0..Len(proc.code)
      BY <2>1, ProcCodeAssumption
    <2> QED BY <2>1, <2>2 DEF Block, NoBlock
  <1>3. \A l \in BOOLEAN, use \in NextUses(v), seen \in SUBSET Block : Result(l, use, seen) \in F
    BY DEF Found
  <1>4. NoInstr \in NextUses(v)
        /\ \A b \in Block : Touching(b, v) # {} => FirstTouch(b, v).id \in NextUses(v)
    BY DEF NextUses
  <1>5. \A f \in S : \A b \in L : \A seen \in SUBSET Block :
            f[b][seen] \in F /\ f[b][seen].seen \in SUBSET Block
    BY DEF Found
  <1> HIDE DEF Result, F, L
  <1>6. ASSUME NEW n, NEW f \in S, NEW b \in L, NEW seen \in SUBSET Block
        PROVE  At(n, f, b, seen) \in F
    <2>1. CASE n = 0 \/ b \in seen \cup {NoBlock}
      BY <1>3, <1>4, <2>1
    <2>2. CASE ~ (n = 0 \/ b \in seen \cup {NoBlock})
      <3>1. b \in Block /\ seen \cup {b} \in SUBSET Block
        BY <1>2, <2>2
      <3>2. CASE Touching(b, v) # {}
        BY <1>3, <1>4, <2>2, <3>1, <3>2
      <3>3. CASE Touching(b, v) = {}
        <4> DEFINE to == f[proc.to[b]][seen \cup {b}]
        <4>1. to.seen \in SUBSET Block
          BY <1>2, <1>5, <3>1
        <4>2. f[proc.condTo[b]][to.seen] \in F
          <5> HIDE DEF to
          <5> QED BY <1>2, <1>5, <3>1, <4>1
        <4> HIDE DEF to
        <4>3. Result(TRUE, NoInstr, to.seen) \in F /\ Result(TRUE, NoInstr, seen \cup {b}) \in F
          BY <1>3, <1>4, <3>1, <4>1
        <4> QED BY <2>2, <3>3, <4>2, <4>3 DEF to
      <3> QED BY <3>2, <3>3
    <2> QED BY <2>1, <2>2
  <1>7. base \in S /\ \A f : E(0, f) = base
    BY <1>3, <1>4
  <1> HIDE DEF At
  <1>8. \A n : \A f \in S : E(n, f) \in S
    BY <1>6
  <1> HIDE DEF E, base
  <1>9. PICK f : Follows(f, S, base, g)
    <2>1. g \in [Nat -> [S -> S]]
      <3> HIDE DEF S
      <3> QED BY <1>8
    <2> HIDE DEF g, S, Def, search
    <2> QED BY <1>7, <2>1, Recursion
  <1> HIDE DEF S
  <1>10. f = Def(f)
    <2>1. ASSUME NEW n \in Nat, n # 0 PROVE f[n] = E(n, f[n - 1])
      <3>1. n - 1 \in Nat /\ (n - 1) + 1 = n
        BY <2>1
      <3>2. f[(n - 1) + 1] = g[n - 1][f[n - 1]] /\ f[n - 1] \in S
        BY <1>9, <3>1 DEF Follows
      <3> QED BY <3>1, <3>2
    <2>2. f[0] = E(0, f[0 - 1]) /\ f \in [Nat -> S]
      BY <1>7, <1>9 DEF Follows
    <2>3. \A n \in Nat : f[n] = E(n, f[n - 1])
      BY <2>1, <2>2
    <2> QED BY <2>2, <2>3
  <1>11. search = Def(search)
    <2> HIDE DEF Def
    <2> QED BY <1>10
  <1>12. search[0] = base /\ \A n \in Nat : search[n + 1] = E(n + 1, search[n])
    <2> DEFINE r == search
    <2>1. r = [n \in Nat |-> E(n, r[n - 1])]
      BY <1>11
    <2> HIDE DEF r
    <2>2. r[0] = base /\ \A n \in Nat : r[n + 1] = E(n + 1, r[n])
      <3>1. \A n \in Nat : n + 1 \in Nat /\ (n + 1) - 1 = n
        OBVIOUS
      <3>2. r[0] = E(0, r[0 - 1])
        BY <2>1
      <3> QED BY <1>7, <2>1, <3>1, <3>2
    <2> QED BY <2>2 DEF r
  <1> HIDE DEF search
  <1>13. \A n \in Nat : search[n] \in S
    <2> DEFINE P == {n \in Nat : search[n] \in S}
    <2>1. 0 \in P
      BY <1>7, <1>12
    <2>2. \A n \in Nat : n \in P => n + 1 \in P
      <3> SUFFICES ASSUME NEW n \in Nat, search[n] \in S
                   PROVE  search[n + 1] \in S
        OBVIOUS
      <3> QED BY <1>8, <1>12
    <2> HIDE DEF P
    <2>3. Nat \subseteq P
      BY <2>1, <2>2, Counting
    <2> QED BY <2>3 DEF P
  <1>14. Len(code) + 1 \in Nat /\ block \in L
    BY <1>2 DEF L
  <1>15. search[Len(code) + 1][block][visited] \in F
    BY <1>5, <1>13, <1>14
  <1> QED BY <1>1, <1>15 DEF F

LEMMA LiveSrcBegin ==
    ASSUME TypeInv, NEW b \in Block, LiveBegin(b)
    PROVE  LiveSrc(b, Len(code[b]))'
  <1> DEFINE n == Len(code[b])
  <1>1. /\ CodeOK(code) /\ n \in Nat /\ code' = code /\ Len(code) = Len(proc.code)
        /\ src' = [v \in Variable |-> IF Searched(b, v) THEN AfterBlock(b, v).use ELSE NoInstr]
    BY Lengths DEF TypeInv, LiveBegin
  <1>2. ASSUME NEW v \in Variable PROVE src'[v] \in NextUses(v)
    <2>1. {} \in SUBSET Block /\ proc.to[b] \in 0..Len(code) /\ proc.condTo[b] \in 0..Len(code)
      <3>1. proc \in Procedures
        BY DEF TypeInv
      <3>2. {proc.to[b], proc.condTo[b]} \subseteq 0..Len(code)
        BY <1>1, <3>1, ProcCodeAssumption DEF Block
      <3> QED BY <3>2
    <2> DEFINE to == VarIsLiveInBlock(proc.to[b], v, {})
    <2>2. to \in Found(v)
      BY <2>1, SearchFinds
    <2>3. AfterBlock(b, v) = IF to.live THEN to ELSE VarIsLiveInBlock(proc.condTo[b], v, to.seen)
      BY DEF AfterBlock
    <2> HIDE DEF to
    <2>4. to.seen \in SUBSET Block
      BY <2>2 DEF Found
    <2>5. VarIsLiveInBlock(proc.condTo[b], v, to.seen) \in Found(v)
      BY <2>1, <2>4, SearchFinds
    <2>6. AfterBlock(b, v).use \in NextUses(v)
      BY <2>2, <2>3, <2>5 DEF Found
    <2> QED BY <1>1, <2>6 DEF NextUses
  <1>3. ASSUME NEW v \in Variable
        PROVE  ElsewhereSrc(b, n, src'[v])
               \/ \E m \in 1..n : /\ src'[v] = code[b][m].id
                                  /\ v \in Touched(code[b][m])
                                  /\ \A j \in 1..(m - 1) : v \notin Touched(code[b][j])
    <2>1. CASE src'[v] = NoInstr
      BY <2>1 DEF ElsewhereSrc
    <2>2. CASE src'[v] # NoInstr
      <3>1. PICK d \in Block : Touching(d, v) # {} /\ src'[v] = FirstTouch(d, v).id
        BY <1>2, <2>2 DEF NextUses
      <3> DEFINE K == Touching(d, v)
                 m == CHOOSE k \in K : \A j \in K : k <= j
      <3>2. K \subseteq 1..Len(code[d]) /\ Len(code[d]) \in Nat
        BY <1>1, Lengths DEF Touching
      <3>3. m \in K /\ \A j \in K : m <= j
        <4>1. K \subseteq Nat /\ K # {}
          BY <3>1, <3>2
        <4> HIDE DEF K
        <4>2. \E k \in K : \A j \in K : k <= j
          BY <4>1, NatMinimum
        <4> QED BY <4>2
      <3>4. src'[v] = code[d][m].id
        BY <3>1 DEF FirstTouch
      <3> HIDE DEF m
      <3>5. CASE d # b
        BY <3>2, <3>3, <3>4, <3>5 DEF ElsewhereSrc
      <3>6. CASE d = b
        <4>1. m \in 1..n /\ v \in Touched(code[b][m])
          BY <3>3, <3>6 DEF Touching, Touched
        <4>2. ASSUME NEW j \in 1..(m - 1) PROVE v \notin Touched(code[b][j])
          <5>1. j \in 1..n /\ ~ (m <= j)
            <6> HIDE DEF n
            <6> QED BY <1>1, <4>1
          <5>2. j \notin K
            <6> HIDE DEF K
            <6> QED BY <3>3, <5>1
          <5> QED BY <3>6, <5>1, <5>2 DEF Touching, Touched
        <4> QED BY <3>4, <3>6, <4>1, <4>2
      <3> QED BY <3>5, <3>6
    <2> QED BY <2>1, <2>2
  <1>4. \A v \in Variable : (ElsewhereSrc(b, n, src[v]) \/ FirstSrc(b, n, v))'
    BY <1>1, <1>3 DEF ElsewhereSrc, FirstSrc, Block
  <1>5. (n \in 0..n)'
    <2>1. n' = n
      BY <1>1
    <2> QED BY <1>1, <2>1
  <1> QED BY <1>4, <1>5 DEF LiveSrc

(* Each step of OptimizeLive, from one instruction to the one before.      *)
LEMMA LiveSrcStep ==
    ASSUME TypeInv, NEW b \in Block, NEW k \in 1..Len(code[b]), LiveSrc(b, k),
           RemoveDead(b, k) \/ MarkCall(b, k) \/ MarkInstr(b, k)
    PROVE  LiveSrc(b, k - 1)'
  <1> DEFINE c == code[b]
             n == Len(c)
  <1>1. CodeOK(code) /\ BlockOK(c) /\ n \in Nat /\ k \in 1..n
    BY Lengths DEF TypeInv, CodeOK, Block
  <1>2. ASSUME RemoveDead(b, k)
        PROVE  LiveSrc(b, k - 1)'
    <2> DEFINE r == code'[b]
    <2>1. /\ Len(code') = Len(code) /\ r = RemoveAt(c, k) /\ src' = src
          /\ \A d \in Block : d # b => code'[d] = code[d]
      BY <1>1, <1>2, RemoveStep DEF RemoveDead
    <2> HIDE DEF r
    <2> HIDE DEF c
    <2>2. /\ Len(r) = n - 1
          /\ \A m \in 1..(n - 1) : r[m] = IF m < k THEN c[m] ELSE c[m + 1]
      BY <1>1, <2>1, BlockRemove
    <2>3. k - 1 \in 0..Len(r)
      <3> HIDE DEF n
      <3> QED BY <1>1, <2>2
    <2>4. \A m \in 1..(k - 1) : r[m] = c[m]
      <3>1. \A m \in 1..(k - 1) : m \in 1..(n - 1) /\ m < k
        <4> HIDE DEF n
        <4> QED BY <1>1
      <3> HIDE DEF n
      <3> QED BY <2>2, <3>1
    <2>5. \A m \in (k + 1)..n : m - 1 \in ((k - 1) + 1)..Len(r) /\ r[m - 1] = c[m]
      <3>1. \A m \in (k + 1)..n : m - 1 \in 1..(n - 1) /\ ~ (m - 1 < k) /\ (m - 1) + 1 = m
        <4> HIDE DEF n
        <4> QED BY <1>1
      <3>2. \A m \in (k + 1)..n : m - 1 \in ((k - 1) + 1)..(n - 1)
        <4> HIDE DEF n
        <4> QED BY <1>1
      <3> HIDE DEF n
      <3> QED BY <2>2, <3>1, <3>2
    <2>6. ASSUME NEW v \in Variable
          PROVE  \/ src[v] = NoInstr
                 \/ \E d \in Block : d # b /\ \E m \in 1..Len(code'[d]) : src[v] = code'[d][m].id
                 \/ \E m \in ((k - 1) + 1)..Len(r) : src[v] = r[m].id
                 \/ \E m \in 1..(k - 1) : /\ src[v] = r[m].id
                                          /\ v \in Touched(r[m])
                                          /\ \A j \in 1..(m - 1) : v \notin Touched(r[j])
                 \/ \A j \in 1..(k - 1) : v \notin Touched(r[j])
      <3>1. CASE ElsewhereSrc(b, k, src[v])
        <4>1. CASE \E m \in (k + 1)..n : src[v] = c[m].id
          BY <2>5, <4>1
        <4>2. CASE \E d \in Block : d # b /\ \E m \in 1..Len(code[d]) : src[v] = code[d][m].id
          <5>1. PICK d \in Block : d # b /\ \E m \in 1..Len(code[d]) : src[v] = code[d][m].id
            BY <4>2
          <5>2. code'[d] = code[d]
            BY <2>1, <5>1
          <5>3. \E m \in 1..Len(code'[d]) : src[v] = code'[d][m].id
            BY <5>1, <5>2
          <5> QED BY <5>1, <5>3
        <4> QED BY <3>1, <4>1, <4>2 DEF ElsewhereSrc, c
      <3>2. CASE FirstSrc(b, k, v)
        <4>1. PICK m \in 1..k : /\ src[v] = c[m].id
                                /\ v \in Touched(c[m])
                                /\ \A j \in 1..(m - 1) : v \notin Touched(c[j])
          BY <3>2 DEF FirstSrc, c
        <4>2. CASE m = k
          BY <2>4, <4>1, <4>2
        <4>3. CASE m # k
          <5>1. m \in 1..(k - 1) /\ \A j \in 1..(m - 1) : j \in 1..(k - 1)
            BY <1>1, <4>1, <4>3
          <5>2. r[m] = c[m] /\ \A j \in 1..(m - 1) : r[j] = c[j]
            BY <2>4, <5>1
          <5> QED BY <4>1, <5>1, <5>2
        <4> QED BY <4>2, <4>3
      <3>3. CASE \A j \in 1..k : v \notin Touched(c[j])
        <4>1. \A j \in 1..(k - 1) : j \in 1..k
          BY <1>1
        <4> QED BY <2>4, <3>3, <4>1
      <3> QED BY <3>1, <3>2, <3>3 DEF LiveSrc, c
    <2> QED BY <2>1, <2>3, <2>6 DEF LiveSrc, ElsewhereSrc, FirstSrc, Block, r
  <1>3. ASSUME MarkCall(b, k) \/ MarkInstr(b, k)
        PROVE  LiveSrc(b, k - 1)'
    <2>1. code' = code
      BY <1>3 DEF MarkCall, MarkInstr
    <2>2. ASSUME NEW v \in Variable
          PROVE  \/ src'[v] = NoInstr \/ src'[v] = c[k].id
                 \/ src'[v] = src[v] /\ (MarkCall(b, k) \/ v \notin Touched(c[k]))
      <3>1. CASE MarkCall(b, k)
        BY <3>1 DEF MarkCall
      <3>2. CASE MarkInstr(b, k)
        <4>1. src'[v] = IF v \in Args(c[k]) THEN c[k].id
                        ELSE IF v = c[k].res THEN NoInstr ELSE src[v]
          BY <3>2 DEF MarkInstr
        <4> QED BY <4>1 DEF Touched
      <3> QED BY <1>3, <3>1, <3>2
    <2> HIDE DEF c
    <2>3. /\ k - 1 \in 0..n /\ k \in ((k - 1) + 1)..n
          /\ \A m \in (k + 1)..n : m \in ((k - 1) + 1)..n
          /\ \A j \in 1..(k - 1) : j \in 1..k
      <3> HIDE DEF n
      <3> QED BY <1>1
    <2>4. ASSUME NEW v \in Variable
          PROVE  \/ ElsewhereSrc(b, k - 1, src'[v])
                 \/ src'[v] = src[v] /\ FirstSrc(b, k - 1, v)
                 \/ \A j \in 1..(k - 1) : v \notin Touched(c[j])
      <3>1. CASE src'[v] = NoInstr
        BY <3>1 DEF ElsewhereSrc
      <3>2. CASE src'[v] = c[k].id
        BY <2>3, <3>2 DEF ElsewhereSrc, c
      <3>3. CASE src'[v] = src[v]
        <4>1. CASE ElsewhereSrc(b, k, src[v])
          BY <2>3, <3>3, <4>1 DEF ElsewhereSrc, c
        <4>2. CASE FirstSrc(b, k, v)
          <5>1. PICK m \in 1..k : /\ src[v] = c[m].id
                                  /\ v \in Touched(c[m])
                                  /\ \A j \in 1..(m - 1) : v \notin Touched(c[j])
            BY <4>2 DEF FirstSrc, c
          <5>2. CASE m = k
            BY <5>1, <5>2
          <5>3. CASE m # k
            <6>1. m \in 1..(k - 1)
              BY <1>1, <5>1, <5>3
            <6> QED BY <3>3, <5>1, <6>1 DEF FirstSrc, c
          <5> QED BY <5>2, <5>3
        <4>3. CASE \A j \in 1..k : v \notin Touched(c[j])
          BY <2>3, <4>3
        <4> QED BY <4>1, <4>2, <4>3 DEF LiveSrc, c
      <3> QED BY <2>2, <3>1, <3>2, <3>3
    <2> QED BY <2>1, <2>3, <2>4 DEF LiveSrc, ElsewhereSrc, FirstSrc, Block, c
  <1> QED BY <1>2, <1>3

-----------------------------------------------------------------------------
(***************************************************************************)
(* No pass meets an instruction that was deleted.                          *)
(***************************************************************************)
LEMMA SrcInit == Init => SrcInv
  <1> SUFFICES ASSUME Init PROVE SrcInv
    OBVIOUS
  <1>1. at.begun = FALSE
    BY DEF Init, Before
  <1> QED BY <1>1 DEF SrcInv

LEMMA SrcNext == TypeInv /\ SrcInv /\ [Next]_vars => SrcInv'
  <1> SUFFICES ASSUME TypeInv, SrcInv, [Next]_vars PROVE SrcInv'
    OBVIOUS
  \* Before a block nothing is to be shown, nor in the other passes.
  <1>A. ASSUME at' = NextBlock \/ at' = Before(1) PROVE SrcInv'
    <2>1. at'.begun = FALSE
      BY <1>A DEF NextBlock, Before
    <2> QED BY <2>1 DEF SrcInv
  <1>B. ASSUME pass \in {"branches", "merge"}, pass' = pass PROVE SrcInv'
    BY <1>B DEF SrcInv, Doing
  <1>V. ASSUME pass = "values", pass' = pass, NEW b, NEW k,
               at'.block = b, at'.at = k, ValuesSrc(b, k)'
        PROVE  SrcInv'
    <2>1. at'.block = b /\ at'.at = k
      BY <1>V
    <2>2. ValuesSrc(at.block, at.at)'
      BY <1>V, <2>1 DEF ValuesSrc
    <2> QED BY <1>V, <2>2 DEF SrcInv, Doing
  <1>L. ASSUME pass # "values", pass' = pass, NEW b, NEW k,
               at'.block = b, at'.at = k, LiveSrc(b, k)'
        PROVE  SrcInv'
    <2>1. at'.block = b /\ at'.at = k
      BY <1>L
    <2>2. LiveSrc(at.block, at.at)'
      <3>1. (k \in 0..Len(code[b]))'
        BY <1>L DEF LiveSrc
      <3>2. ASSUME NEW v \in Variable
            PROVE  (\/ ElsewhereSrc(b, k, src[v])
                    \/ FirstSrc(b, k, v)
                    \/ \A j \in 1..k : v \notin Touched(code[b][j]))'
        BY <1>L DEF LiveSrc
      <3>3. ASSUME NEW v \in Variable
            PROVE  (\/ ElsewhereSrc(at.block, at.at, src[v])
                    \/ FirstSrc(at.block, at.at, v)
                    \/ \A j \in 1..at.at : v \notin Touched(code[at.block][j]))'
        BY <2>1, <3>2 DEF ElsewhereSrc, FirstSrc
      <3> QED BY <2>1, <3>1, <3>3 DEF LiveSrc
    <2> QED BY <1>L, <2>2 DEF SrcInv, Doing
  <1>1. CASE EnterValues
    <2>1. PICK b : b = at.block
      OBVIOUS
    <2>2. /\ b \in Block /\ pass = "values" /\ pass' = pass
          /\ code' = code /\ src' = [v \in Variable |-> NoInstr] /\ at' = Inside(b, 1)
      BY <1>1, <2>1, PlaceOK DEF EnterValues, Begin, Doing, ValuesBegin, Continue
    <2>3. ValuesSrc(b, 1)'
      <3>1. Len(code[b]) \in Nat
        BY <2>2, Lengths DEF TypeInv
      <3>2. 1 \in 1..(Len(code[b]) + 1)
        BY <3>1
      <3> QED BY <2>2, <3>2 DEF ValuesSrc, IdsBefore
    <2>4. at'.block = b /\ at'.at = 1
      BY <2>2 DEF Inside
    <2> QED BY <1>V, <2>2, <2>3, <2>4
  <1>2. CASE ValuesStep
    <2>1. PICK b, k : b = at.block /\ k = at.at
      OBVIOUS
    <2>2. /\ b \in Block /\ k \in 1..Len(code[b]) /\ at.begun
          /\ Doing({"values"}) /\ pass = "values" /\ pass' = pass
      BY <1>2, <2>1, PlaceOK DEF ValuesStep, AtInstr, Doing, Continue
    <2>3. ValuesSrc(b, k)
      BY <2>1, <2>2 DEF SrcInv
    <2>4. \/ /\ ValuesPass(b, k) \/ ValuesCall(b, k) \/ Evaluate(b, k)
             /\ at' = Inside(b, k + 1)
          \/ /\ RemoveRepeated(b, k) \/ RemoveCopy(b, k)
             /\ at' = at
          \/ at' = NextBlock
      BY <1>2, <2>1 DEF ValuesStep, Continue, Following
    <2>5. CASE /\ ValuesPass(b, k) \/ ValuesCall(b, k) \/ Evaluate(b, k)
               /\ at' = Inside(b, k + 1)
      <3>1. ValuesSrc(b, k + 1)'
        BY <2>2, <2>3, <2>5, ValuesSrcStep
      <3>2. at'.block = b /\ at'.at = k + 1
        BY <2>5 DEF Inside
      <3> QED BY <1>V, <2>2, <3>1, <3>2
    <2>6. CASE (RemoveRepeated(b, k) \/ RemoveCopy(b, k)) /\ at' = at
      <3>1. ValuesSrc(b, k)'
        BY <2>2, <2>3, <2>6, ValuesSrcStep
      <3>2. at'.block = b /\ at'.at = k
        BY <2>1, <2>6
      <3> QED BY <1>V, <2>2, <3>1, <3>2
    <2> QED BY <1>A, <2>4, <2>5, <2>6
  <1>3. CASE LeaveBlock
    BY <1>3, <1>A DEF LeaveBlock, Continue
  <1>4. CASE EnterLive
    <2>1. PICK b, k : b = at.block /\ k = Len(code[b])
      OBVIOUS
    <2>2. /\ b \in Block /\ pass # "values" /\ pass' = pass
          /\ LiveBegin(b) /\ code' = code /\ at' = Inside(b, k)
      BY <1>4, <2>1, PlaceOK DEF EnterLive, Begin, Doing, LiveBegin, Continue
    <2>3. LiveSrc(b, Len(code[b]))'
      BY <2>2, LiveSrcBegin
    <2>4. LiveSrc(b, k)'
      BY <2>1, <2>2, <2>3 DEF LiveSrc, ElsewhereSrc, FirstSrc
    <2>5. at'.block = b /\ at'.at = k
      BY <2>2 DEF Inside
    <2> QED BY <1>L, <2>2, <2>4, <2>5
  <1>5. CASE LiveStep
    <2>1. PICK b, k : b = at.block /\ k = at.at
      OBVIOUS
    <2>2. /\ b \in Block /\ k \in 1..Len(code[b]) /\ at.begun
          /\ Doing({"live", "live again"}) /\ pass # "values" /\ pass' = pass
      BY <1>5, <2>1, PlaceOK DEF LiveStep, AtInstr, Doing, Continue
    <2>3. LiveSrc(b, k)
      BY <2>1, <2>2 DEF SrcInv
    <2>4. RemoveDead(b, k) \/ MarkCall(b, k) \/ MarkInstr(b, k)
      BY <1>5, <2>1 DEF LiveStep
    <2>5. at' = NextBlock \/ at' = Inside(b, k - 1)
      BY <1>5, <2>1 DEF LiveStep, Continue, Preceding
    <2>6. CASE at' = Inside(b, k - 1)
      <3>1. LiveSrc(b, k - 1)'
        BY <2>2, <2>3, <2>4, LiveSrcStep
      <3>2. at'.block = b /\ at'.at = k - 1
        BY <2>6 DEF Inside
      <3> QED BY <1>L, <2>2, <3>1, <3>2
    <2> QED BY <1>A, <2>5, <2>6
  <1>6. CASE BranchesStep
    BY <1>6, <1>A DEF BranchesStep, Continue
  <1>7. CASE EnterMerge
    BY <1>7, <1>B DEF EnterMerge, Begin, Doing, Continue
  <1>8. CASE MergeStep
    BY <1>8, <1>B DEF MergeStep, AtInstr, Doing, Continue
  <1>9. CASE NextPass
    BY <1>9, <1>A DEF NextPass
  <1>10. CASE StartRun \/ RunOn \/ Finished \/ UNCHANGED vars
    <2>1. code' = code /\ src' = src /\ pass' = pass /\ at' = at
      BY <1>10 DEF StartRun, RunOn, Finished, vars
    <2> QED BY <2>1 DEF SrcInv, Doing, ValuesSrc, IdsBefore, LiveSrc, ElsewhereSrc, FirstSrc, Block
  <1> QED BY <1>1, <1>2, <1>3, <1>4, <1>5, <1>6, <1>7, <1>8, <1>9, <1>10 DEF Next, Optimize

(* No pass meets a variable whose src_i is an instruction that was         *)
(* deleted, which the compiler has freed.                                  *)
THEOREM NoPassMeetsFreedInstr == Spec => []NoFreedInstr
  <1> DEFINE Inv == TypeInv /\ SrcInv
  <1>1. Init => Inv
    BY TypeInit, SrcInit
  <1>2. Inv /\ [Next]_vars => Inv'
    BY TypeNext, SrcNext
  <1>3. Inv => NoFreedInstr
    BY SrcInvOK
  <1> QED BY <1>1, <1>2, <1>3, PTL DEF Spec
=============================================================================
