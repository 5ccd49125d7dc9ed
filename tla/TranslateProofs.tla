--------------------------- MODULE TranslateProofs ---------------------------
(***************************************************************************)
(* The lists of rules are in order, however many rules the parser reads    *)
(* and in whichever order it reads them.                                   *)
(*                                                                         *)
(* ProcTranslate, for every file of rules and every block: the lists of    *)
(* rules stay in order, because translation leaves them alone.  A call     *)
(* that may still fail has generated nothing: only a call that was made to *)
(* generate appends instructions, and all the calls that wait for it have  *)
(* made their choice.                                                      *)
(*                                                                         *)
(* Then the type invariant, that no instruction is reported as unsupported *)
(* although there is a translation of it, that the parser of rules does    *)
(* what RuleSet says, and that the rule chosen is the most specific one.   *)
(* For the second of them the invariant is about the last entry of the     *)
(* stack, the call for the instruction of the block itself, and about the  *)
(* call it waits for: each note this call has of what cannot be replaced   *)
(* is right (FindOK), and the call it has made either asks the question it *)
(* is to answer and has not begun (Requests) or has begun, and then the    *)
(* answer is no (Settled).  The calls further up do not matter.            *)
(***************************************************************************)
EXTENDS Translate, NumberProofs

-----------------------------------------------------------------------------
(***************************************************************************)
(* RuleSet.  RuleIsMoreSpecific is the comparison of a weight, three       *)
(* digits of a number in base 3, if constants and bytes do not meet.       *)
(***************************************************************************)
Rank(p)   == IF RuleArgIsRegister(p) THEN 2 ELSE IF p.variant \in {"const", "byte"} THEN 1 ELSE 0
Weight(r) == 9 * Rank(r.arg[1]) + 3 * Rank(r.arg[2]) + Rank(r.arg[3])

\* A list of rules that have been read before line n.
ListUpTo(list, n) == /\ list \in Seq(Rule)
                     /\ \A i \in 1..Len(list) : list[i].line <= n

ListOrdered(list) ==
    \A j \in 1..Len(list), i \in 1..Len(list) : i < j => Precedes(list[i], list[j])

\* The inductive invariant: Ordered, and no rule of a list is newer than the last one read.
RulesInv ==
    /\ line_no \in 0..MaxRules
    /\ rules \in [Sets -> [Op -> Seq(Rule)]]
    /\ \A set \in Sets, op \in Op : ListUpTo(rules[set][op], line_no)
    /\ \A set \in Sets, op \in Op : ListOrdered(rules[set][op])

-----------------------------------------------------------------------------
(* A rank is one of three numbers.                                         *)
LEMMA RankIn ==
    ASSUME NEW p
    PROVE  Rank(p) \in {0, 1, 2}
  BY DEF Rank

(* Where constants and bytes do not meet, more specific is higher in rank. *)
LEMMA ArgByRank ==
    ASSUME NEW p \in Pattern, NEW q \in Pattern, ConstsWithoutBytes
    PROVE  RuleArgIsMoreSpecific(p, q) <=> Rank(p) > Rank(q)
  BY DEF ConstsWithoutBytes, RuleArgIsMoreSpecific, RuleArgIsRegister, Rank

(* And a rule is more specific if its weight is higher.                    *)
LEMMA RuleByWeight ==
    ASSUME NEW l \in Rule, NEW r \in Rule, ConstsWithoutBytes
    PROVE  RuleIsMoreSpecific(l, r) <=> Weight(l) > Weight(r)
  <1> DEFINE a(i) == Rank(l.arg[i])
             b(i) == Rank(r.arg[i])
  <1>1. \A i \in 1..3 : l.arg[i] \in Pattern /\ r.arg[i] \in Pattern
    BY DEF Rule
  <1>2. \A i \in 1..3 : /\ RuleArgIsMoreSpecific(l.arg[i], r.arg[i]) <=> a(i) > b(i)
                        /\ RuleArgIsMoreSpecific(r.arg[i], l.arg[i]) <=> b(i) > a(i)
    BY <1>1, ArgByRank
  <1>3. \A i \in 1..3 : a(i) \in {0, 1, 2} /\ b(i) \in {0, 1, 2}
    BY RankIn
  <1> HIDE DEF a, b
  <1>4. RuleIsMoreSpecific(l, r) <=>
          \E i \in 1..3 : a(i) > b(i) /\ \A j \in 1..(i - 1) : ~ (a(j) > b(j)) /\ ~ (b(j) > a(j))
    <2>1. \A i \in 1..3 : \A j \in 1..(i - 1) : j \in 1..3
      OBVIOUS
    <2> QED BY <1>2, <2>1 DEF RuleIsMoreSpecific
  <1>5. (\E i \in 1..3 : a(i) > b(i) /\ \A j \in 1..(i - 1) : ~ (a(j) > b(j)) /\ ~ (b(j) > a(j)))
          <=> \/ a(1) > b(1)
              \/ a(1) = b(1) /\ a(2) > b(2)
              \/ a(1) = b(1) /\ a(2) = b(2) /\ a(3) > b(3)
    <2>1. 1..3 = {1, 2, 3} /\ 1..(1 - 1) = {} /\ 1..(2 - 1) = {1} /\ 1..(3 - 1) = {1, 2}
      OBVIOUS
    <2>2. \A i \in {1, 2, 3} : a(i) \in Int /\ b(i) \in Int
      BY <1>3
    <2> QED BY <2>1, <2>2
  <1>6. Weight(l) = 9 * a(1) + 3 * a(2) + a(3) /\ Weight(r) = 9 * b(1) + 3 * b(2) + b(3)
    BY DEF Weight, a, b
  <1>7. /\ a(1) \in {0, 1, 2} /\ a(2) \in {0, 1, 2} /\ a(3) \in {0, 1, 2}
        /\ b(1) \in {0, 1, 2} /\ b(2) \in {0, 1, 2} /\ b(3) \in {0, 1, 2}
    BY <1>3
  <1> QED BY <1>4, <1>5, <1>6, <1>7

(* Weights are numbers.                                                    *)
LEMMA WeightIn ==
    ASSUME NEW r
    PROVE  Weight(r) \in Nat
  BY RankIn DEF Weight

(* The lines of rules are numbers.                                         *)
LEMMA RuleLine ==
    ASSUME NEW list \in Seq(Rule), NEW i \in 1..Len(list)
    PROVE  list[i] \in Rule /\ list[i].line \in Nat
  <1>1. list[i] \in Rule
    OBVIOUS
  <1>2. \A r \in Rule : r.line \in 1..MaxRules
    BY DEF Rule
  <1>3. 1..MaxRules \subseteq Nat
    BY PatternAssumption
  <1> QED BY <1>1, <1>2, <1>3

-----------------------------------------------------------------------------
(* The place of a rule: rules before it are at least as specific, and the  *)
(* rule that is there now, if any, is less specific.                       *)
LEMMA PlaceFound ==
    ASSUME NEW list \in Seq(Rule), NEW rule \in Rule
    PROVE  /\ Place(list, rule) \in 1..(Len(list) + 1)
           /\ Place(list, rule) <= Len(list) => RuleIsMoreSpecific(rule, list[Place(list, rule)])
           /\ \A j \in 1..(Place(list, rule) - 1) : ~ RuleIsMoreSpecific(rule, list[j])
  <1> DEFINE Fits(k) == k <= Len(list) => RuleIsMoreSpecific(rule, list[k])
             S       == {k \in 1..(Len(list) + 1) : Fits(k)}
  <1>1. Len(list) + 1 \in S /\ S \subseteq Nat
    OBVIOUS
  <1>2. PICK m \in S : \A n \in S : m <= n
    BY <1>1, NatMinimum
  <1>3. \A j \in 1..(m - 1) : ~ RuleIsMoreSpecific(rule, list[j])
    <2> SUFFICES ASSUME NEW j \in 1..(m - 1), RuleIsMoreSpecific(rule, list[j])
                 PROVE  FALSE
      OBVIOUS
    <2>1. j \in S
      OBVIOUS
    <2>2. m <= j
      BY <1>2, <2>1
    <2> QED BY <2>2
  <1>4. /\ m \in 1..(Len(list) + 1)
        /\ m <= Len(list) => RuleIsMoreSpecific(rule, list[m])
    OBVIOUS
  <1> QED BY <1>3, <1>4 DEF Place

(* The entries of a list into which a rule is inserted.                    *)
LEMMA Inserted ==
    ASSUME NEW list \in Seq(Rule), NEW rule \in Rule, NEW k \in 1..(Len(list) + 1)
    PROVE  LET new == InsertAt(list, k, rule) IN
           /\ new \in Seq(Rule)
           /\ Len(new) = Len(list) + 1
           /\ \A i \in 1..(Len(list) + 1) :
                 new[i] = IF i < k THEN list[i] ELSE IF i = k THEN rule ELSE list[i - 1]
  <1> DEFINE front == SubSeq(list, 1, k - 1)
             back  == SubSeq(list, k, Len(list))
  <1>1. /\ front \in Seq(Rule) /\ Len(front) = k - 1
        /\ \A i \in 1..(k - 1) : front[i] = list[i]
    OBVIOUS
  <1>2. /\ back \in Seq(Rule) /\ Len(back) = Len(list) - k + 1
        /\ \A i \in 1..(Len(list) - k + 1) : back[i] = list[k + i - 1]
    OBVIOUS
  <1> HIDE DEF front, back
  <1>3. /\ front \o <<rule>> \in Seq(Rule) /\ Len(front \o <<rule>>) = k
        /\ \A i \in 1..k : (front \o <<rule>>)[i] = IF i < k THEN list[i] ELSE rule
    BY <1>1
  <1> DEFINE head == front \o <<rule>>
             new  == head \o back
  <1>4. head \in Seq(Rule) /\ Len(head) = k
    BY <1>3
  <1> HIDE DEF head
  <1>5. /\ new \in Seq(Rule) /\ Len(new) = Len(list) + 1
        /\ \A i \in 1..k : new[i] = head[i]
        /\ \A i \in (k + 1)..(Len(list) + 1) : new[i] = back[i - k]
    BY <1>2, <1>4
  <1> HIDE DEF new
  <1>6. ASSUME NEW i \in 1..(Len(list) + 1)
        PROVE  new[i] = IF i < k THEN list[i] ELSE IF i = k THEN rule ELSE list[i - 1]
    <2>1. CASE i <= k
      BY <1>3, <1>5, <2>1 DEF head
    <2>2. CASE i > k
      <3>1. i - k \in 1..(Len(list) - k + 1) /\ i \in (k + 1)..(Len(list) + 1)
        BY <2>2
      <3>2. new[i] = back[i - k] /\ back[i - k] = list[k + (i - k) - 1]
        BY <1>2, <1>5, <3>1
      <3>3. k + (i - k) - 1 = i - 1
        OBVIOUS
      <3> QED BY <2>2, <3>2, <3>3
    <2> QED BY <2>1, <2>2
  <1> QED BY <1>5, <1>6 DEF InsertAt, front, back, head, new

(* RuleSetAddRule keeps a list in order if the rule is newer than those of *)
(* the list.                                                               *)
LEMMA AddKeepsOrder ==
    ASSUME NEW list, NEW rule \in Rule, NEW n \in Nat, ConstsWithoutBytes,
           ListUpTo(list, n), ListOrdered(list), rule.line = n + 1
    PROVE  /\ ListUpTo(RuleSetAddRule(list, rule), n + 1)
           /\ ListOrdered(RuleSetAddRule(list, rule))
  <1> DEFINE k   == Place(list, rule)
             new == RuleSetAddRule(list, rule)
  <1>1. list \in Seq(Rule) /\ \A i \in 1..Len(list) : list[i].line <= n
    BY DEF ListUpTo
  <1>2. /\ k \in 1..(Len(list) + 1)
        /\ k <= Len(list) => RuleIsMoreSpecific(rule, list[k])
        /\ \A j \in 1..(k - 1) : ~ RuleIsMoreSpecific(rule, list[j])
    BY <1>1, PlaceFound
  <1>3. /\ new \in Seq(Rule) /\ Len(new) = Len(list) + 1
        /\ \A i \in 1..(Len(list) + 1) :
              new[i] = IF i < k THEN list[i] ELSE IF i = k THEN rule ELSE list[i - 1]
    BY <1>1, <1>2, Inserted DEF RuleSetAddRule
  <1> HIDE DEF k, new
  <1>4. \A i \in 1..Len(list) : list[i] \in Rule /\ list[i].line \in Nat
    BY <1>1, RuleLine
  <1>5. ListUpTo(new, n + 1)
    <2> SUFFICES ASSUME NEW i \in 1..Len(new) PROVE new[i].line <= n + 1
      BY <1>3 DEF ListUpTo
    <2>1. CASE i < k
      BY <1>1, <1>2, <1>3, <1>4, <2>1
    <2>2. CASE i = k
      BY <1>3, <2>2
    <2>3. CASE i > k
      <3>1. i - 1 \in 1..Len(list) /\ new[i] = list[i - 1]
        BY <1>1, <1>2, <1>3, <2>3
      <3> QED BY <1>1, <1>4, <3>1
    <2> QED BY <1>1, <1>2, <1>3, <2>1, <2>2, <2>3
  <1>6. \A i \in 1..Len(list), j \in 1..Len(list) : i < j => Precedes(list[i], list[j])
    BY DEF ListOrdered
  <1>7. \A j \in 1..Len(list) : j >= k => RuleIsMoreSpecific(rule, list[j])
    <2> SUFFICES ASSUME NEW j \in 1..Len(list), j >= k PROVE RuleIsMoreSpecific(rule, list[j])
      OBVIOUS
    <2>1. k \in 1..Len(list) /\ Weight(rule) > Weight(list[k])
      BY <1>1, <1>2, <1>4, RuleByWeight
    <2>2. Weight(list[k]) >= Weight(list[j])
      <3>1. CASE j = k
        BY <2>1, <3>1, WeightIn
      <3>2. CASE j > k
        <4>1. Precedes(list[k], list[j])
          BY <1>6, <2>1, <3>2
        <4>2. ~ RuleIsMoreSpecific(list[j], list[k])
          <5>1. \/ Weight(list[k]) > Weight(list[j])
                \/ ~ (Weight(list[j]) > Weight(list[k]))
            BY <1>4, <2>1, <4>1, RuleByWeight DEF Precedes
          <5> QED BY <1>4, <2>1, <5>1, RuleByWeight, WeightIn
        <4>3. ~ (Weight(list[j]) > Weight(list[k]))
          BY <1>4, <2>1, <4>2, RuleByWeight
        <4> QED BY <4>3, WeightIn
      <3> QED BY <1>1, <1>2, <2>1, <3>1, <3>2
    <2>3. Weight(rule) > Weight(list[j])
      BY <2>1, <2>2, WeightIn
    <2> QED BY <1>4, <2>3, RuleByWeight
  <1>8. ListOrdered(new)
    <2> SUFFICES ASSUME NEW i \in 1..(Len(list) + 1), NEW j \in 1..(Len(list) + 1), i < j
                 PROVE  Precedes(new[i], new[j])
      BY <1>3 DEF ListOrdered
    <2>1. CASE j < k
      <3>1. /\ i \in 1..Len(list) /\ j \in 1..Len(list)
            /\ new[i] = list[i] /\ new[j] = list[j]
        BY <1>1, <1>2, <1>3, <2>1
      <3> QED BY <1>6, <3>1
    <2>2. CASE j = k
      <3>1. i \in 1..(k - 1) /\ i \in 1..Len(list) /\ new[i] = list[i] /\ new[j] = rule
        BY <1>1, <1>2, <1>3, <2>2
      <3>2. ~ RuleIsMoreSpecific(rule, list[i]) /\ list[i].line < rule.line
        BY <1>1, <1>2, <1>4, <3>1
      <3> QED BY <3>1, <3>2 DEF Precedes
    <2>3. CASE j > k /\ i = k
      <3>1. j - 1 \in 1..Len(list) /\ j - 1 >= k /\ new[j] = list[j - 1] /\ new[i] = rule
        BY <1>1, <1>2, <1>3, <2>3
      <3> QED BY <1>7, <3>1 DEF Precedes
    <2>4. CASE j > k /\ i < k
      <3>1. /\ j - 1 \in 1..Len(list) /\ i \in 1..Len(list) /\ i < j - 1
            /\ new[j] = list[j - 1] /\ new[i] = list[i]
        BY <1>1, <1>2, <1>3, <2>4
      <3> QED BY <1>6, <3>1
    <2>5. CASE j > k /\ i > k
      <3>1. /\ j - 1 \in 1..Len(list) /\ i - 1 \in 1..Len(list) /\ i - 1 < j - 1
            /\ new[j] = list[j - 1] /\ new[i] = list[i - 1]
        BY <1>1, <1>2, <1>3, <2>5
      <3> QED BY <1>6, <3>1
    <2> QED BY <1>1, <1>2, <2>1, <2>2, <2>3, <2>4, <2>5
  <1> QED BY <1>5, <1>8 DEF new

-----------------------------------------------------------------------------
(* The invariant holds of the empty lists.                                 *)
LEMMA RulesInvInit ==
    ASSUME RulesInit
    PROVE  RulesInv
  <1>1. \A set \in Sets, op \in Op : rules[set][op] = <<>> /\ <<>> \in Seq(Rule) /\ Len(<<>>) = 0
    BY DEF RulesInit
  <1>2. line_no \in 0..MaxRules
    BY PatternAssumption DEF RulesInit
  <1>3. rules \in [Sets -> [Op -> Seq(Rule)]]
    BY DEF RulesInit
  <1>4. 1..0 = {}
    OBVIOUS
  <1> QED BY <1>1, <1>2, <1>3, <1>4 DEF RulesInv, ListUpTo, ListOrdered

(* Every step of the parser keeps it.                                      *)
LEMMA RulesInvStep ==
    ASSUME RulesInv, [RulesNext]_ruleVars, ConstsWithoutBytes
    PROVE  RulesInv'
  <1>1. CASE UNCHANGED ruleVars
    BY <1>1 DEF RulesInv, ruleVars, ListUpTo, ListOrdered
  <1>2. CASE EmptyRule
    <2>1. line_no' \in 0..MaxRules /\ rules' = rules /\ line_no' = line_no + 1
      BY <1>2, PatternAssumption DEF EmptyRule, RulesInv
    <2>2. \A set \in Sets, op \in Op : ListUpTo(rules[set][op], line_no + 1)
      <3> SUFFICES ASSUME NEW set \in Sets, NEW op \in Op,
                          NEW i \in 1..Len(rules[set][op])
                   PROVE  rules[set][op][i].line <= line_no + 1
        BY DEF RulesInv, ListUpTo
      <3>1. rules[set][op] \in Seq(Rule) /\ rules[set][op][i].line <= line_no
        BY DEF RulesInv, ListUpTo
      <3>2. rules[set][op][i].line \in Int /\ line_no \in Int
        BY <3>1, PatternAssumption, RuleLine DEF RulesInv
      <3> QED BY <3>1, <3>2
    <2> QED BY <2>1, <2>2 DEF RulesInv
  <1>3. ASSUME NEW op \in Op, NEW arg \in [1..3 -> Pattern], NEW to \in Sets,
               RuleRegister(op, arg, to)
        PROVE  RulesInv'
    <2> DEFINE rule == [op |-> op, arg |-> arg, to |-> to, line |-> line_no + 1]
               new  == RuleSetAddRule(rules[to][op], rule)
    <2>1. line_no \in Nat /\ line_no' = line_no + 1 /\ line_no' \in 0..MaxRules
          /\ rule \in Rule /\ rule.line = line_no + 1
      BY <1>3, PatternAssumption DEF RuleRegister, RulesInv, Rule
    <2>2. ListUpTo(rules[to][op], line_no) /\ ListOrdered(rules[to][op])
      BY DEF RulesInv
    <2>3. ListUpTo(new, line_no + 1) /\ ListOrdered(new)
      BY <2>1, <2>2, AddKeepsOrder
    <2>4. new \in Seq(Rule)
      BY <2>3 DEF ListUpTo
    <2>5. rules \in [Sets -> [Op -> Seq(Rule)]] /\ rules' = [rules EXCEPT ![to][op] = new]
      BY <1>3 DEF RuleRegister, RulesInv
    <2> HIDE DEF new
    <2>6. rules' \in [Sets -> [Op -> Seq(Rule)]]
      BY <2>4, <2>5
    <2>7. \A s \in Sets, o \in Op :
             rules'[s][o] = IF s = to /\ o = op THEN new ELSE rules[s][o]
      BY <2>5
    <2>8. \A s \in Sets, o \in Op : ListUpTo(rules'[s][o], line_no + 1)
      <3> SUFFICES ASSUME NEW s \in Sets, NEW o \in Op
                   PROVE  ListUpTo(rules'[s][o], line_no + 1)
        OBVIOUS
      <3>1. CASE s = to /\ o = op
        BY <2>3, <2>7, <3>1
      <3>2. CASE ~ (s = to /\ o = op)
        <4>1. rules'[s][o] = rules[s][o] /\ ListUpTo(rules[s][o], line_no)
          BY <2>7, <3>2 DEF RulesInv
        <4> SUFFICES ASSUME NEW i \in 1..Len(rules[s][o])
                     PROVE  rules[s][o][i].line <= line_no + 1
          BY <4>1 DEF ListUpTo
        <4>2. rules[s][o][i].line <= line_no /\ rules[s][o] \in Seq(Rule)
          BY <4>1 DEF ListUpTo
        <4>3. rules[s][o][i].line \in Int
          BY <4>2, RuleLine
        <4> QED BY <2>1, <4>2, <4>3
      <3> QED BY <3>1, <3>2
    <2>9. \A s \in Sets, o \in Op : ListOrdered(rules'[s][o])
      BY <2>3, <2>7 DEF RulesInv
    <2> QED BY <2>1, <2>6, <2>8, <2>9 DEF RulesInv
  <1> QED BY <1>1, <1>2, <1>3 DEF RulesNext

(* Ordered is a part of the invariant.                                     *)
LEMMA RulesInvOrdered ==
    ASSUME RulesInv
    PROVE  Ordered
  BY DEF RulesInv, Ordered, ListOrdered

(* Whatever rules are read, in whatever order, every list is in order and  *)
(* of equally specific rules the one that was read first comes first       *)
(* (RuleSetAddRule, translate.c:116).                                      *)
THEOREM RulesOrdered ==
    ASSUME ConstsWithoutBytes
    PROVE  RulesSpec => []Ordered
  <1>1. RulesInit => RulesInv
    BY RulesInvInit
  <1>2. RulesInv /\ [RulesNext]_ruleVars => RulesInv'
    BY RulesInvStep
  <1>3. RulesInv => Ordered
    BY RulesInvOrdered
  <1> QED BY <1>1, <1>2, <1>3, PTL DEF RulesSpec

-----------------------------------------------------------------------------
(***************************************************************************)
(* Translate.                                                              *)
(***************************************************************************)

\* The stages after the choice; a call that tests ends in the first of them.
Chosen     == {"load1", "load2", "operate", "store", "stored"}
Generating == Chosen \ {"load1"}

\* The call generates and cannot fail any more.
Busy(f) == ~ f.test /\ f.pc \in Chosen

\* A call when n instructions have been generated.
FrameOK(f, n) ==
    /\ {"pc", "test", "mark", "has1", "has2", "hasr"} \subseteq DOMAIN f
    /\ f.test \in BOOLEAN
    /\ f.pc \in Generating => ~ f.test
    /\ ~ Busy(f) => f.mark = n

\* The stack: a call that generates has been made by calls that cannot fail any more.
StackOK(stk, n) ==
    /\ \E S : stk \in Seq(S)
    /\ \A k \in 1..Len(stk) : FrameOK(stk[k], n)
    /\ \A j \in 1..Len(stk), k \in 1..Len(stk) : j < k /\ ~ stk[j].test => Busy(stk[k])

-----------------------------------------------------------------------------
(* The entries of a stack without its top, and with another one on top.    *)
LEMMA StackTail ==
    ASSUME NEW S, NEW stk \in Seq(S), stk # <<>>
    PROVE  /\ Tail(stk) \in Seq(S) /\ Len(Tail(stk)) = Len(stk) - 1 /\ Len(stk) \in Nat \ {0}
           /\ Head(stk) = stk[1]
           /\ \A k \in 1..(Len(stk) - 1) : Tail(stk)[k] = stk[k + 1]
  OBVIOUS

LEMMA StackPush ==
    ASSUME NEW S, NEW stk \in Seq(S), NEW f
    PROVE  /\ <<f>> \o stk \in Seq(S \cup {f}) /\ Len(<<f>> \o stk) = Len(stk) + 1
           /\ (<<f>> \o stk)[1] = f
           /\ \A k \in 1..Len(stk) : (<<f>> \o stk)[k + 1] = stk[k]
  <1>1. stk \in Seq(S \cup {f}) /\ <<f>> \in Seq(S \cup {f})
    OBVIOUS
  <1> QED BY <1>1

(* A call is over: if it has generated something, its callers are busy.    *)
LEMMA PopKeeps ==
    ASSUME NEW stk, NEW n, NEW m, StackOK(stk, n), stk # <<>>,
           m = n \/ ~ Head(stk).test
    PROVE  StackOK(Tail(stk), m)
  <1>1. PICK S : stk \in Seq(S)
    BY DEF StackOK
  <1> DEFINE t == Tail(stk)
  <1>2. /\ t \in Seq(S) /\ Len(t) = Len(stk) - 1 /\ Len(stk) \in Nat \ {0}
        /\ Head(stk) = stk[1]
        /\ \A k \in 1..(Len(stk) - 1) : t[k] = stk[k + 1]
    BY <1>1, StackTail
  <1> HIDE DEF t
  <1>3. \A k \in 1..Len(t) : FrameOK(t[k], m)
    <2> SUFFICES ASSUME NEW k \in 1..Len(t) PROVE FrameOK(t[k], m)
      OBVIOUS
    <2>1. k + 1 \in 1..Len(stk) /\ 1 \in 1..Len(stk) /\ 1 < k + 1 /\ t[k] = stk[k + 1]
      BY <1>2
    <2>2. FrameOK(t[k], n)
      BY <2>1 DEF StackOK
    <2>3. CASE m = n
      BY <2>2, <2>3
    <2>4. CASE ~ stk[1].test
      <3>1. Busy(t[k])
        BY <2>1, <2>4 DEF StackOK
      <3> QED BY <2>2, <3>1 DEF FrameOK
    <2> QED BY <1>2, <2>3, <2>4
  <1>4. \A j \in 1..Len(t), k \in 1..Len(t) : j < k /\ ~ t[j].test => Busy(t[k])
    <2> SUFFICES ASSUME NEW j \in 1..Len(t), NEW k \in 1..Len(t), j < k, ~ t[j].test
                 PROVE  Busy(t[k])
      OBVIOUS
    <2>1. /\ j + 1 \in 1..Len(stk) /\ k + 1 \in 1..Len(stk) /\ j + 1 < k + 1
          /\ t[j] = stk[j + 1] /\ t[k] = stk[k + 1]
      BY <1>2
    <2> QED BY <2>1 DEF StackOK
  <1> QED BY <1>2, <1>3, <1>4 DEF StackOK, t

(* A call is made: if it generates, its caller is busy.                    *)
LEMMA PushKeeps ==
    ASSUME NEW stk, NEW n, NEW f, StackOK(stk, n), FrameOK(f, n),
           ~ f.test => \A k \in 1..Len(stk) : Busy(stk[k])
    PROVE  StackOK(<<f>> \o stk, n)
  <1>1. PICK S : stk \in Seq(S)
    BY DEF StackOK
  <1> DEFINE p == <<f>> \o stk
  <1>2. /\ p \in Seq(S \cup {f}) /\ Len(p) = Len(stk) + 1 /\ p[1] = f
        /\ \A k \in 1..Len(stk) : p[k + 1] = stk[k]
    BY <1>1, StackPush
  <1>3. Len(stk) \in Nat
    BY <1>1
  <1> HIDE DEF p
  <1>4. \A k \in 1..Len(p) : k # 1 => k - 1 \in 1..Len(stk) /\ p[k] = stk[k - 1]
    <2> SUFFICES ASSUME NEW k \in 1..Len(p), k # 1
                 PROVE  k - 1 \in 1..Len(stk) /\ p[k] = stk[k - 1]
      OBVIOUS
    <2>1. k - 1 \in 1..Len(stk) /\ (k - 1) + 1 = k
      BY <1>2, <1>3
    <2> QED BY <1>2, <2>1
  <1>5. \A k \in 1..Len(p) : FrameOK(p[k], n)
    BY <1>2, <1>4 DEF StackOK
  <1>6. \A j \in 1..Len(p), k \in 1..Len(p) : j < k /\ ~ p[j].test => Busy(p[k])
    <2> SUFFICES ASSUME NEW j \in 1..Len(p), NEW k \in 1..Len(p), j < k, ~ p[j].test
                 PROVE  Busy(p[k])
      OBVIOUS
    <2>1. k - 1 \in 1..Len(stk) /\ p[k] = stk[k - 1]
      BY <1>2, <1>3, <1>4
    <2>2. CASE j = 1
      BY <1>2, <2>1, <2>2
    <2>3. CASE j # 1
      <3>1. j - 1 \in 1..Len(stk) /\ p[j] = stk[j - 1] /\ j - 1 < k - 1
        BY <1>2, <1>3, <1>4, <2>3
      <3> QED BY <2>1, <3>1 DEF StackOK
    <2> QED BY <2>2, <2>3
  <1> QED BY <1>2, <1>5, <1>6 DEF StackOK, p

(* The top of the stack goes on, without becoming a call that generates if *)
(* it was none.                                                            *)
LEMMA GotoKeeps ==
    ASSUME NEW stk, NEW n, NEW m, NEW f, StackOK(stk, n), stk # <<>>, FrameOK(f, m),
           ~ f.test => ~ Head(stk).test,
           m = n \/ ~ Head(stk).test
    PROVE  StackOK(<<f>> \o Tail(stk), m)
  <1>1. PICK S : stk \in Seq(S)
    BY DEF StackOK
  <1>2. /\ Len(Tail(stk)) = Len(stk) - 1 /\ Len(stk) \in Nat \ {0} /\ Head(stk) = stk[1]
        /\ \A k \in 1..(Len(stk) - 1) : Tail(stk)[k] = stk[k + 1]
    BY <1>1, StackTail
  <1>3. StackOK(Tail(stk), m)
    BY PopKeeps
  <1>4. ASSUME ~ f.test, NEW k \in 1..Len(Tail(stk))
        PROVE  Busy(Tail(stk)[k])
    <2>1. k + 1 \in 1..Len(stk) /\ 1 \in 1..Len(stk) /\ 1 < k + 1 /\ Tail(stk)[k] = stk[k + 1]
      BY <1>2
    <2> QED BY <1>2, <1>4, <2>1 DEF StackOK
  <1> QED BY <1>3, <1>4, PushKeeps

(* The top of the stack goes on and makes a call.                          *)
LEMMA CallKeeps ==
    ASSUME NEW stk, NEW n, NEW f, NEW c, StackOK(stk, n), stk # <<>>,
           FrameOK(f, n), f.test = Head(stk).test, FrameOK(c, n), ~ c.test => Busy(f)
    PROVE  StackOK(<<c, f>> \o Tail(stk), n)
  <1>1. PICK S : stk \in Seq(S)
    BY DEF StackOK
  <1>2. Tail(stk) \in Seq(S)
    BY <1>1, StackTail
  <1> DEFINE g == <<f>> \o Tail(stk)
  <1>3. StackOK(g, n)
    BY GotoKeeps
  <1>4. /\ Len(g) = Len(Tail(stk)) + 1 /\ g[1] = f /\ Len(Tail(stk)) \in Nat
        /\ g \in Seq(S \cup {f})
    BY <1>2, StackPush
  <1> HIDE DEF g
  <1>5. ASSUME ~ c.test, NEW k \in 1..Len(g)
        PROVE  Busy(g[k])
    <2>1. 1 \in 1..Len(g)
      BY <1>4
    <2>2. ~ g[1].test
      BY <1>4, <1>5 DEF Busy
    <2>3. CASE k = 1
      BY <1>4, <1>5, <2>3
    <2>4. CASE k # 1
      <3>1. 1 < k
        BY <1>4, <2>4
      <3> QED BY <1>3, <2>1, <2>2, <3>1 DEF StackOK
    <2> QED BY <2>3, <2>4
  <1>6. StackOK(<<c>> \o g, n)
    BY <1>3, <1>5, PushKeeps
  <1>7. <<c, f>> \o Tail(stk) = <<c>> \o g
    <2> DEFINE t == Tail(stk)
    <2> SUFFICES <<c, f>> \o t = <<c>> \o (<<f>> \o t)
      BY DEF g
    <2>1. t \in Seq(S \cup {c, f}) /\ <<c>> \in Seq(S \cup {c, f}) /\ <<f>> \in Seq(S \cup {c, f})
      BY <1>2
    <2> HIDE DEF t
    <2> QED BY <2>1
  <1> QED BY <1>6, <1>7

-----------------------------------------------------------------------------
(* What is left of AllOrNothing when the stack is in order.                *)
LEMMA StackAllOrNothing ==
    ASSUME StackOK(stack, Len(out))
    PROVE  AllOrNothing
  BY DEF StackOK, FrameOK, Busy, Chosen, AllOrNothing

(* A new call is in order.                                                 *)
LEMMA CallOK ==
    ASSUME NEW op, NEW r, NEW a, NEW b, NEW test \in BOOLEAN, NEW bigger
    PROVE  /\ FrameOK(Call(op, r, a, b, test, bigger), Len(out))
           /\ Call(op, r, a, b, test, bigger).test = test
  BY DEF FrameOK, Call, Busy, Chosen, Generating

(* And one that gets an answer stays in order.                             *)
LEMMA AnsweredOK ==
    ASSUME NEW f, NEW n, NEW answer, FrameOK(f, n)
    PROVE  FrameOK(Answered(f, answer), n) /\ Answered(f, answer).test = f.test
  BY DEF FrameOK, Answered, Busy, Chosen, Generating

(* A return, of a call that may have generated something if it was made    *)
(* for that.                                                               *)
LEMMA ReturnKeeps ==
    ASSUME StackOK(stack, Len(out)), stack # <<>>, NEW answer, Return(answer),
           Len(out') = Len(out) \/ ~ Top.test
    PROVE  StackOK(stack', Len(out'))
  <1>1. PICK S : stack \in Seq(S)
    BY DEF StackOK
  <1> DEFINE t == Tail(stack)
  <1>2. StackOK(t, Len(out'))
    BY PopKeeps DEF Top
  <1>3. /\ t \in Seq(S) /\ Len(t) = Len(stack) - 1 /\ Len(stack) \in Nat \ {0}
        /\ \A k \in 1..(Len(stack) - 1) : t[k] = stack[k + 1]
    BY <1>1, StackTail
  <1>4. CASE Len(stack) > 1
    <2> DEFINE f == Answered(t[1], answer)
    <2>0. 1 \in 1..(Len(stack) - 1) /\ 1 + 1 = 2 /\ Len(t) # 0
      BY <1>3, <1>4
    <2>1. t # <<>> /\ Head(t) = t[1] /\ t[1] = stack[2] /\ 1 \in 1..Len(t)
      <3> HIDE DEF t
      <3>1. t[1] = stack[2] /\ 1 \in 1..Len(t)
        BY <1>3, <2>0
      <3>2. t # <<>>
        BY <1>3, <2>0
      <3>3. Head(t) = t[1]
        BY <1>3, <3>2, StackTail
      <3> QED BY <3>1, <3>2, <3>3
    <2>2. FrameOK(t[1], Len(out'))
      BY <1>2, <2>1 DEF StackOK
    <2>3. FrameOK(f, Len(out')) /\ f.test = t[1].test
      BY <2>2, AnsweredOK
    <2>4. stack' = <<f>> \o Tail(t)
      BY <1>4, <2>1 DEF Return
    <2> HIDE DEF t, f
    <2> QED BY <1>2, <2>1, <2>3, <2>4, GotoKeeps
  <1>5. CASE ~ (Len(stack) > 1)
    <2>1. stack' = <<>>
      BY <1>5 DEF Return
    <2>2. stack' \in Seq({}) /\ Len(stack') = 0
      BY <2>1
    <2> QED BY <2>2 DEF StackOK
  <1> QED BY <1>4, <1>5

(* The top goes on in another stage, nothing is generated.                 *)
LEMMA StageKeeps ==
    ASSUME StackOK(stack, Len(out)), stack # <<>>, NEW f, Goto(f), out' = out,
           FrameOK(f, Len(out)), f.test = Top.test
    PROVE  StackOK(stack', Len(out'))
  BY GotoKeeps DEF Goto, Top

(* A call is made, nothing is generated.                                   *)
LEMMA CallsKeeps ==
    ASSUME StackOK(stack, Len(out)), stack # <<>>, NEW f, NEW c, Calls(f, c), out' = out,
           FrameOK(f, Len(out)), f.test = Top.test, FrameOK(c, Len(out)), ~ c.test => Busy(f)
    PROVE  StackOK(stack', Len(out'))
  BY CallKeeps DEF Calls, Top

(* The top of a stack in order is in order.                                *)
LEMMA TopOK ==
    ASSUME StackOK(stack, Len(out)), stack # <<>>
    PROVE  FrameOK(Top, Len(out))
  <1>1. PICK S : stack \in Seq(S)
    BY DEF StackOK
  <1>2. Top = stack[1] /\ 1 \in 1..Len(stack)
    BY <1>1, StackTail DEF Top
  <1> QED BY <1>2 DEF StackOK

-----------------------------------------------------------------------------
(* Each stage of InstrTranslate3 keeps the stack in order.                 *)
LEMMA DirectKeeps ==
    ASSUME StackOK(stack, Len(out)), Direct
    PROVE  StackOK(stack', Len(out'))
  <1> DEFINE i == InstrTranslate2(Top.op, Top.result, Top.arg1, Top.arg2)
             f == [Top EXCEPT !.pc = "arg1", !.has1 = Complex(Top.arg1),
                              !.has2 = Complex(Top.arg2), !.hasr = Complex(Top.result)]
  <1> HIDE DEF i
  <1>1. stack # <<>> /\ Top.pc = "direct" /\ FrameOK(Top, Len(out))
    BY TopOK DEF Direct
  <1>2. CASE i # <<>>
    <2>1. Return(TRUE) /\ (out' = out \/ ~ Top.test)
      BY <1>2 DEF Direct, i
    <2> QED BY <1>1, <2>1, ReturnKeeps
  <1>3. CASE i = <<>>
    <2>1. Goto(f) /\ out' = out
      BY <1>3 DEF Direct, i, Quiet
    <2>2. FrameOK(f, Len(out)) /\ f.test = Top.test
      BY <1>1 DEF FrameOK, Busy, Chosen, Generating
    <2> QED BY <1>1, <2>1, <2>2, StageKeeps
  <1> QED BY <1>2, <1>3

LEMMA TestKeeps ==
    ASSUME StackOK(stack, Len(out)), stack # <<>>, Top.pc \notin Chosen, out' = out,
           NEW result, NEW arg, TestLet(Top, result, arg) \/ Goto(Answered(Top, FALSE))
    PROVE  StackOK(stack', Len(out'))
  <1>1. FrameOK(Top, Len(out))
    BY TopOK
  <1>2. CASE TestLet(Top, result, arg)
    <2> DEFINE c == Call("let", result, arg, NoVar, TRUE, Top.bigger)
    <2>1. FrameOK(c, Len(out)) /\ c.test
      BY CallOK
    <2>2. Calls(Top, c)
      BY <1>2 DEF TestLet
    <2> HIDE DEF c
    <2> QED BY <1>1, <2>1, <2>2, CallsKeeps
  <1>3. CASE Goto(Answered(Top, FALSE))
    BY <1>1, <1>3, AnsweredOK, StageKeeps
  <1> QED BY <1>2, <1>3

LEMMA ArgsKeep ==
    ASSUME StackOK(stack, Len(out)), Arg1Test \/ Arg2Test \/ ResultTest
    PROVE  StackOK(stack', Len(out'))
  <1>1. out' = out /\ stack # <<>> /\ Top.pc \notin Chosen
    BY DEF Arg1Test, Arg2Test, ResultTest, Quiet, Chosen
  <1>2. CASE Arg1Test
    BY <1>1, <1>2, TestKeeps DEF Arg1Test
  <1>3. CASE Arg2Test
    BY <1>1, <1>3, TestKeeps DEF Arg2Test
  <1>4. CASE ResultTest
    BY <1>1, <1>4, TestKeeps DEF ResultTest
  <1> QED BY <1>2, <1>3, <1>4

LEMMA ChooseKeeps ==
    ASSUME StackOK(stack, Len(out)), Choose
    PROVE  StackOK(stack', Len(out'))
  <1> DEFINE k == SelectInSeq(Combos, LAMBDA c : Replaceable(Top, c))
             f == [Top EXCEPT !.pc = "load1", !.to = Top.result.type, !.has1 = Combos[k][1],
                              !.has2 = Combos[k][2], !.hasr = Combos[k][3]]
             g == [Top EXCEPT !.pc = "bigger", !.to = Top.result.type]
  <1> HIDE DEF k
  <1>1. out' = out /\ stack # <<>> /\ Top.pc = "choose" /\ FrameOK(Top, Len(out))
    BY TopOK DEF Choose, Quiet
  <1>2. Goto(f) \/ Goto(g) \/ Return(FALSE)
    BY DEF Choose, k
  <1>3. FrameOK(f, Len(out)) /\ f.test = Top.test /\ FrameOK(g, Len(out)) /\ g.test = Top.test
    BY <1>1 DEF FrameOK, Busy, Chosen, Generating
  <1> HIDE DEF f, g
  <1>4. CASE Goto(f)
    BY <1>1, <1>3, <1>4, StageKeeps
  <1>5. CASE Goto(g)
    BY <1>1, <1>3, <1>5, StageKeeps
  <1>6. CASE Return(FALSE)
    BY <1>1, <1>6, ReturnKeeps
  <1> QED BY <1>2, <1>4, <1>5, <1>6

LEMMA BiggerKeeps ==
    ASSUME StackOK(stack, Len(out)), Bigger \/ Widen
    PROVE  StackOK(stack', Len(out'))
  <1>1. out' = out /\ stack # <<>> /\ Top.pc \in {"bigger", "widen"} /\ FrameOK(Top, Len(out))
    BY TopOK DEF Bigger, Widen, Quiet
  <1>2. CASE Bigger
    <2> DEFINE t == TypeBiggerType(Top.op, Top.to)
               f == [Top EXCEPT !.pc = "narrow", !.to = t]
               c == Call("let", Top.result, Local("tmp_r", t), NoVar, TRUE, f.bigger)
    <2> HIDE DEF t
    <2>1. Return(FALSE) \/ Calls(f, c)
      BY <1>2 DEF Bigger, TestLet, t
    <2>2. FrameOK(f, Len(out)) /\ f.test = Top.test
      BY <1>1 DEF FrameOK, Busy, Chosen, Generating
    <2>3. FrameOK(c, Len(out)) /\ c.test
      BY CallOK
    <2> HIDE DEF f, c
    <2>4. CASE Return(FALSE)
      BY <1>1, <2>4, ReturnKeeps
    <2>5. CASE Calls(f, c)
      BY <1>1, <2>2, <2>3, <2>5, CallsKeeps
    <2> QED BY <2>1, <2>4, <2>5
  <1>3. CASE Widen
    <2> DEFINE f == [Top EXCEPT !.pc = "compute"]
               c == Call(Top.op, Local("tmp_r", Top.to), Top.arg1, Top.arg2, TRUE, TRUE)
    <2>1. Calls(f, c)
      BY <1>3 DEF Widen
    <2>2. FrameOK(f, Len(out)) /\ f.test = Top.test
      BY <1>1 DEF FrameOK, Busy, Chosen, Generating
    <2>3. FrameOK(c, Len(out)) /\ c.test
      BY CallOK
    <2> HIDE DEF f, c
    <2> QED BY <1>1, <2>1, <2>2, <2>3, CallsKeeps
  <1> QED BY <1>2, <1>3

(* A call that generates: its caller is in a stage in which it cannot fail.*)
LEMMA GenerateKeeps ==
    ASSUME StackOK(stack, Len(out)), stack # <<>>, out' = out, NEW f, NEW result, NEW arg,
           Generate(f, result, arg), FrameOK(f, Len(out)), f.test = Top.test, Busy(f)
    PROVE  StackOK(stack', Len(out'))
  <1> DEFINE c == Call("let", result, arg, NoVar, FALSE, FALSE)
  <1>1. FrameOK(c, Len(out))
    BY CallOK
  <1>2. Calls(f, c)
    BY DEF Generate
  <1> HIDE DEF c
  <1> QED BY <1>1, <1>2, CallsKeeps

LEMMA LoadsKeep ==
    ASSUME StackOK(stack, Len(out)), Load1 \/ Load2
    PROVE  StackOK(stack', Len(out'))
  <1>1. out' = out /\ stack # <<>> /\ Top.pc \in {"load1", "load2"} /\ FrameOK(Top, Len(out))
    BY TopOK DEF Load1, Load2
  <1>2. CASE Load1
    <2> DEFINE a == VarNewTmp(Top.arg1.type)
               f == [Top EXCEPT !.pc = "load2", !.arg1 = a]
               g == [Top EXCEPT !.pc = "load2"]
    <2> HIDE DEF a
    <2>1. CASE Top.test
      BY <1>1, <1>2, <2>1, ReturnKeeps DEF Load1
    <2>2. CASE ~ Top.test
      <3>1. Generate(f, a, Top.arg1) \/ Goto(g)
        BY <1>2, <2>2 DEF Load1, a
      <3>2. /\ FrameOK(f, Len(out)) /\ f.test = Top.test /\ Busy(f)
            /\ FrameOK(g, Len(out)) /\ g.test = Top.test
        BY <1>1, <2>2 DEF FrameOK, Busy, Chosen, Generating
      <3> HIDE DEF f, g
      <3>3. CASE Generate(f, a, Top.arg1)
        BY <1>1, <3>2, <3>3, GenerateKeeps
      <3>4. CASE Goto(g)
        BY <1>1, <3>2, <3>4, StageKeeps
      <3> QED BY <3>1, <3>3, <3>4
    <2> QED BY <2>1, <2>2
  <1>3. CASE Load2
    <2> DEFINE a == VarNewTmp(Top.arg2.type)
               f == [Top EXCEPT !.pc = "operate", !.arg2 = a]
               g == [Top EXCEPT !.pc = "operate"]
    <2> HIDE DEF a
    <2>1. Generate(f, a, Top.arg2) \/ Goto(g)
      BY <1>3 DEF Load2, a
    <2>2. Top.pc = "load2" /\ ~ Top.test
      BY <1>1, <1>3 DEF Load2, FrameOK, Chosen, Generating
    <2>3. /\ FrameOK(f, Len(out)) /\ f.test = Top.test /\ Busy(f)
          /\ FrameOK(g, Len(out)) /\ g.test = Top.test
      BY <1>1, <2>2 DEF FrameOK, Busy, Chosen, Generating
    <2> HIDE DEF f, g
    <2>4. CASE Generate(f, a, Top.arg2)
      BY <1>1, <2>3, <2>4, GenerateKeeps
    <2>5. CASE Goto(g)
      BY <1>1, <2>3, <2>5, StageKeeps
    <2> QED BY <2>1, <2>4, <2>5
  <1> QED BY <1>2, <1>3

LEMMA OperateKeeps ==
    ASSUME StackOK(stack, Len(out)), Operate
    PROVE  StackOK(stack', Len(out'))
  <1> DEFINE r == IF Top.hasr THEN VarNewTmp(Top.to) ELSE Top.result
             f == [Top EXCEPT !.pc = "store", !.tmp = r]
  <1> HIDE DEF r
  <1>1. stack # <<>> /\ Top.pc = "operate" /\ FrameOK(Top, Len(out)) /\ Goto(f)
    BY TopOK DEF Operate, r
  <1>2. ~ Top.test
    BY <1>1 DEF FrameOK, Chosen, Generating
  <1>3. FrameOK(f, Len(out')) /\ f.test = Top.test
    BY <1>1, <1>2 DEF FrameOK, Busy, Chosen, Generating
  <1> HIDE DEF f
  <1> QED BY <1>1, <1>2, <1>3, GotoKeeps DEF Goto, Top

LEMMA StoreKeeps ==
    ASSUME StackOK(stack, Len(out)), Store \/ Stored
    PROVE  StackOK(stack', Len(out'))
  <1> DEFINE f == [Top EXCEPT !.pc = "stored"]
  <1>1. /\ out' = out /\ stack # <<>> /\ Top.pc \in {"store", "stored"} /\ FrameOK(Top, Len(out))
        /\ Generate(f, Top.result, Top.tmp) \/ Return(TRUE)
    BY TopOK DEF Store, Stored, Quiet
  <1>2. FrameOK(f, Len(out)) /\ f.test = Top.test /\ Busy(f)
    BY <1>1 DEF FrameOK, Busy, Chosen, Generating
  <1> HIDE DEF f
  <1>3. CASE Generate(f, Top.result, Top.tmp)
    BY <1>1, <1>2, <1>3, GenerateKeeps
  <1>4. CASE Return(TRUE)
    BY <1>1, <1>4, ReturnKeeps
  <1> QED BY <1>1, <1>3, <1>4

-----------------------------------------------------------------------------
LEMMA StackInit ==
    ASSUME Init
    PROVE  StackOK(stack, Len(out))
  <1>1. stack = <<>> /\ stack \in Seq({}) /\ Len(stack) = 0
    BY DEF Init, TransInit
  <1> QED BY <1>1 DEF StackOK

LEMMA StackNext ==
    ASSUME StackOK(stack, Len(out)), [Next]_vars
    PROVE  StackOK(stack', Len(out'))
  <1>1. CASE UNCHANGED vars \/ ParseRule \/ SkipAssert
    <2>1. UNCHANGED <<stack, out>>
      BY <1>1 DEF vars, transVars, ParseRule, SkipAssert
    <2> QED BY <2>1
  <1>2. CASE NextInstr
    <2> DEFINE c == Call(block[pos].op, block[pos].result, block[pos].arg1, block[pos].arg2,
                         FALSE, FALSE)
    <2>1. stack = <<>> /\ stack' = <<c>> /\ out' = out
      BY <1>2 DEF NextInstr, Running, Quiet
    <2>2. FrameOK(c, Len(out))
      BY CallOK
    <2> HIDE DEF c
    <2>3. stack' \in Seq({c}) /\ Len(stack') = 1 /\ stack'[1] = c
      BY <2>1
    <2>4. \A k \in 1..Len(stack') : k = 1 /\ FrameOK(stack'[k], Len(out'))
      BY <2>1, <2>2, <2>3
    <2>5. \A j \in 1..Len(stack'), k \in 1..Len(stack') : ~ (j < k)
      BY <2>4
    <2> QED BY <2>3, <2>4, <2>5 DEF StackOK
  <1>3. CASE InstrTranslate3
    BY <1>3, DirectKeeps, ArgsKeep, ChooseKeeps, BiggerKeeps, LoadsKeep, OperateKeeps, StoreKeeps
       DEF InstrTranslate3
  <1> QED BY <1>1, <1>2, <1>3 DEF Next

(* An instruction that turns out to have no translation leaves nothing     *)
(* behind, whatever the rules are: as long as a call of InstrTranslate3    *)
(* may answer no, nothing has been generated since it began.               *)
THEOREM NothingByHalves == Spec => []AllOrNothing
  <1>1. Init => StackOK(stack, Len(out))
    BY StackInit
  <1>2. StackOK(stack, Len(out)) /\ [Next]_vars => StackOK(stack, Len(out))'
    BY StackNext
  <1>3. StackOK(stack, Len(out)) => AllOrNothing
    BY StackAllOrNothing
  <1> QED BY <1>1, <1>2, <1>3, PTL DEF Spec

(* The parser reads one of the files.                                      *)
LEMMA FileInit ==
    ASSUME Init
    PROVE  file \in Seq(FileRule) /\ Len(file) <= MaxRules
  BY UnitsAssumption DEF Init, TransInit

(* Seen from the lists of rules every step is one of the parser or none.   *)
LEMMA RulesStep ==
    ASSUME RulesInv, file \in Seq(FileRule), Len(file) <= MaxRules, [Next]_vars
    PROVE  [RulesNext]_ruleVars /\ file' = file
  <1>1. CASE ParseRule
    <2> DEFINE r == file[line_no + 1]
    <2>1. line_no \in Nat /\ line_no + 1 \in 1..Len(file) /\ file' = file
      <3>1. line_no \in Nat /\ Len(file) \in Nat /\ line_no < Len(file)
        <4>1. line_no < Len(file)
          BY <1>1 DEF ParseRule, Parsing
        <4>2. line_no \in 0..MaxRules /\ MaxRules \in Nat
          BY PatternAssumption DEF RulesInv
        <4>3. Len(file) \in Nat
          OBVIOUS
        <4> QED BY <4>1, <4>2, <4>3
      <3>2. file' = file
        BY <1>1 DEF ParseRule, transVars
      <3> QED BY <3>1, <3>2
    <2>2. r \in FileRule
      BY <2>1
    <2>3. IF r.to = "" THEN EmptyRule ELSE RuleRegister(r.op, r.arg, r.to)
      BY <1>1 DEF ParseRule
    <2>4. r.op \in Op /\ r.arg \in [1..3 -> Pattern] /\ (r.to # "" => r.to \in Sets)
      BY <2>2 DEF FileRule
    <2> HIDE DEF r
    <2> QED BY <2>1, <2>3, <2>4 DEF RulesNext
  <1>2. CASE UNCHANGED vars \/ SkipAssert \/ NextInstr
    BY <1>2 DEF vars, transVars, ruleVars, SkipAssert, NextInstr, Quiet
  <1>3. CASE InstrTranslate3
    <2>1. UNCHANGED <<ruleVars, file>>
      BY <1>3 DEF InstrTranslate3, Direct, Arg1Test, Arg2Test, ResultTest, Choose, Bigger, Widen,
                  Load1, Load2, Operate, Store, Stored, Quiet
    <2> QED BY <2>1
  <1> QED BY <1>1, <1>2, <1>3 DEF Next

(* The lists of rules are in order while translation uses them.            *)
THEOREM TranslateOrdered ==
    ASSUME ConstsWithoutBytes
    PROVE  Spec => []Ordered
  <1> DEFINE Inv == RulesInv /\ file \in Seq(FileRule) /\ Len(file) <= MaxRules
  <1>1. Init => Inv
    BY RulesInvInit, FileInit DEF Init
  <1>2. Inv /\ [Next]_vars => Inv'
    BY RulesStep, RulesInvStep
  <1>3. Inv => Ordered
    BY RulesInvOrdered
  <1> QED BY <1>1, <1>2, <1>3, PTL DEF Spec

-----------------------------------------------------------------------------
(* The stack after the top went on, after it made a call and after it      *)
(* returned to its caller.                                                 *)
LEMMA GotoShape ==
    ASSUME NEW S, NEW stk \in Seq(S), stk # <<>>, NEW f
    PROVE  LET s == <<f>> \o Tail(stk) IN
           /\ s \in Seq(S \cup {f}) /\ Len(s) = Len(stk) /\ Len(stk) \in Nat \ {0} /\ s[1] = f
           /\ \A k \in 2..Len(stk) : s[k] = stk[k]
  <1> DEFINE t == Tail(stk)
             s == <<f>> \o t
  <1>1. /\ t \in Seq(S) /\ Len(t) = Len(stk) - 1 /\ Len(stk) \in Nat \ {0}
        /\ \A k \in 1..(Len(stk) - 1) : t[k] = stk[k + 1]
    BY StackTail
  <1> HIDE DEF t
  <1>2. /\ s \in Seq(S \cup {f}) /\ Len(s) = Len(t) + 1 /\ s[1] = f
        /\ \A k \in 1..Len(t) : s[k + 1] = t[k]
    BY <1>1, StackPush
  <1> HIDE DEF s
  <1>3. ASSUME NEW k \in 2..Len(stk) PROVE s[k] = stk[k]
    <2>1. k - 1 \in 1..Len(t) /\ k - 1 \in 1..(Len(stk) - 1) /\ (k - 1) + 1 = k
      BY <1>1
    <2> QED BY <1>1, <1>2, <2>1
  <1>4. /\ s \in Seq(S \cup {f}) /\ Len(s) = Len(stk) /\ Len(stk) \in Nat \ {0} /\ s[1] = f
    BY <1>1, <1>2
  <1> QED BY <1>3, <1>4 DEF s, t

(* The top has made a call.                                                *)
LEMMA CallShape ==
    ASSUME NEW S, NEW stk \in Seq(S), stk # <<>>, NEW f, NEW c
    PROVE  LET s == <<c, f>> \o Tail(stk) IN
           /\ s \in Seq(S \cup {f} \cup {c}) /\ Len(s) = Len(stk) + 1 /\ Len(stk) \in Nat \ {0}
           /\ s[1] = c /\ s[2] = f
           /\ \A k \in 2..Len(stk) : s[k + 1] = stk[k]
  <1> DEFINE t == Tail(stk)
             g == <<f>> \o t
             s == <<c>> \o g
  <1>1. /\ g \in Seq(S \cup {f}) /\ Len(g) = Len(stk) /\ Len(stk) \in Nat \ {0} /\ g[1] = f
        /\ \A k \in 2..Len(stk) : g[k] = stk[k]
    BY GotoShape
  <1>2. <<c, f>> \o t = s
    <2>1. t \in Seq(S \cup {c, f}) /\ <<c>> \in Seq(S \cup {c, f}) /\ <<f>> \in Seq(S \cup {c, f})
      BY StackTail
    <2> HIDE DEF t
    <2> QED BY <2>1
  <1> HIDE DEF g
  <1>3. /\ s \in Seq(S \cup {f} \cup {c}) /\ Len(s) = Len(g) + 1 /\ s[1] = c
        /\ \A k \in 1..Len(g) : s[k + 1] = g[k]
    BY <1>1, StackPush
  <1> HIDE DEF s
  <1>4. s[2] = f
    <2>1. 1 \in 1..Len(g) /\ 1 + 1 = 2
      BY <1>1
    <2> QED BY <1>1, <1>3, <2>1
  <1>5. \A k \in 2..Len(stk) : s[k + 1] = stk[k]
    BY <1>1, <1>3
  <1> QED BY <1>1, <1>2, <1>3, <1>4, <1>5 DEF t

(* The top has returned to its caller.                                     *)
LEMMA ReturnShape ==
    ASSUME NEW S, NEW stk \in Seq(S), Len(stk) > 1, NEW f
    PROVE  LET s == <<f>> \o Tail(Tail(stk)) IN
           /\ s \in Seq(S \cup {f}) /\ Len(s) = Len(stk) - 1 /\ Len(stk) \in Nat \ {0}
           /\ s[1] = f
           /\ \A k \in 3..Len(stk) : s[k - 1] = stk[k]
  <1> DEFINE t == Tail(stk)
             s == <<f>> \o Tail(t)
  <1>0. stk # <<>>
    OBVIOUS
  <1>1. /\ t \in Seq(S) /\ Len(t) = Len(stk) - 1 /\ Len(stk) \in Nat \ {0}
        /\ \A k \in 1..(Len(stk) - 1) : t[k] = stk[k + 1]
    BY <1>0, StackTail
  <1> HIDE DEF t
  <1>2. t # <<>>
    BY <1>1
  <1>3. /\ s \in Seq(S \cup {f}) /\ Len(s) = Len(t) /\ Len(t) \in Nat \ {0} /\ s[1] = f
        /\ \A k \in 2..Len(t) : s[k] = t[k]
    BY <1>1, <1>2, GotoShape
  <1> HIDE DEF s
  <1>4. ASSUME NEW k \in 3..Len(stk) PROVE s[k - 1] = stk[k]
    <2>1. k - 1 \in 2..Len(t) /\ k - 1 \in 1..(Len(stk) - 1) /\ (k - 1) + 1 = k
      BY <1>1
    <2> QED BY <1>1, <1>3, <2>1
  <1> QED BY <1>1, <1>3, <1>4 DEF s, t

-----------------------------------------------------------------------------
\* A call of InstrTranslate3, and a stack of calls.
CallFields == {"op", "result", "arg1", "arg2", "test", "bigger", "pc", "has1", "has2", "hasr",
               "to", "tmp", "mark"}
IsCall(f) == /\ CallFields \subseteq DOMAIN f
             /\ f.pc \in Stages
             /\ {f.test, f.bigger, f.has1, f.has2, f.hasr} \subseteq BOOLEAN
IsStack(stk) == /\ \E S : stk \in Seq(S)
                /\ \A k \in 1..Len(stk) : IsCall(stk[k])

(* A new call is one.                                                      *)
LEMMA NewCallTyped ==
    ASSUME NEW op, NEW r, NEW a, NEW b, NEW test \in BOOLEAN, NEW bigger \in BOOLEAN
    PROVE  IsCall(Call(op, r, a, b, test, bigger))
  BY DEF IsCall, Call, CallFields, Stages

(* A call that gets its answer stays one.                                  *)
LEMMA AnsweredTyped ==
    ASSUME NEW f, IsCall(f), NEW answer \in BOOLEAN
    PROVE  IsCall(Answered(f, answer))
  <1> DEFINE g == Answered(f, answer)
  <1>1. DOMAIN g = DOMAIN f
    BY DEF Answered
  <1>2. g.pc \in Stages /\ {g.test, g.bigger, g.has1, g.has2, g.hasr} \subseteq BOOLEAN
    BY DEF IsCall, CallFields, Answered, Stages
  <1> QED BY <1>1, <1>2 DEF IsCall

(* What the stack is after each of the three ways to go on: by a step, ... *)
LEMMA GotoTyped ==
    ASSUME IsStack(stack), stack # <<>>, NEW f, IsCall(f), Goto(f)
    PROVE  IsStack(stack') /\ stack' # <<>>
  <1>1. PICK S : stack \in Seq(S)
    BY DEF IsStack
  <1> DEFINE s == <<f>> \o Tail(stack)
  <1>2. /\ s \in Seq(S \cup {f}) /\ Len(s) = Len(stack) /\ Len(stack) \in Nat \ {0} /\ s[1] = f
        /\ \A k \in 2..Len(stack) : s[k] = stack[k]
    BY <1>1, GotoShape
  <1>3. stack' = s
    BY DEF Goto
  <1> HIDE DEF s
  <1>4. \A k \in 1..Len(s) : IsCall(s[k])
    BY <1>2 DEF IsStack
  <1> QED BY <1>2, <1>3, <1>4 DEF IsStack

(* ... by a call, ...                                                      *)
LEMMA CallsTyped ==
    ASSUME IsStack(stack), stack # <<>>, NEW f, NEW c, IsCall(f), IsCall(c), Calls(f, c)
    PROVE  IsStack(stack') /\ stack' # <<>>
  <1>1. PICK S : stack \in Seq(S)
    BY DEF IsStack
  <1> DEFINE s == <<c, f>> \o Tail(stack)
  <1>2. /\ s \in Seq(S \cup {f} \cup {c}) /\ Len(s) = Len(stack) + 1 /\ Len(stack) \in Nat \ {0}
        /\ s[1] = c /\ s[2] = f
        /\ \A k \in 2..Len(stack) : s[k + 1] = stack[k]
    BY <1>1, CallShape
  <1>3. stack' = s
    BY DEF Calls
  <1> HIDE DEF s
  <1>4. ASSUME NEW k \in 1..Len(s) PROVE IsCall(s[k])
    <2>1. CASE k = 1 \/ k = 2
      BY <1>2, <2>1
    <2>2. CASE k > 2
      <3>1. k - 1 \in 2..Len(stack) /\ k - 1 \in 1..Len(stack) /\ (k - 1) + 1 = k
        BY <1>2, <2>2
      <3> QED BY <1>2, <3>1 DEF IsStack
    <2> QED BY <1>2, <2>1, <2>2
  <1> QED BY <1>2, <1>3, <1>4 DEF IsStack

(* ... and by a return.                                                    *)
LEMMA ReturnTyped ==
    ASSUME IsStack(stack), stack # <<>>, NEW answer \in BOOLEAN, Return(answer)
    PROVE  IsStack(stack') /\ (Len(stack) > 1 => stack' # <<>>)
  <1>1. PICK S : stack \in Seq(S)
    BY DEF IsStack
  <1>2. CASE Len(stack) > 1
    <2> DEFINE f == Answered(stack[2], answer)
               s == <<f>> \o Tail(Tail(stack))
    <2>1. /\ s \in Seq(S \cup {f}) /\ Len(s) = Len(stack) - 1 /\ Len(stack) \in Nat \ {0}
          /\ s[1] = f
          /\ \A k \in 3..Len(stack) : s[k - 1] = stack[k]
      BY <1>1, <1>2, ReturnShape
    <2>2. stack' = s
      BY <1>2 DEF Return
    <2>3. IsCall(f)
      <3>1. 2 \in 1..Len(stack)
        BY <1>1, <1>2
      <3> QED BY <3>1, AnsweredTyped DEF IsStack
    <2> HIDE DEF s, f
    <2>4. ASSUME NEW k \in 1..Len(s) PROVE IsCall(s[k])
      <3>1. CASE k = 1
        BY <2>1, <2>3, <3>1
      <3>2. CASE k # 1
        <4>1. k + 1 \in 3..Len(stack) /\ k + 1 \in 1..Len(stack) /\ (k + 1) - 1 = k
          BY <2>1, <3>2
        <4> QED BY <2>1, <4>1 DEF IsStack
      <3> QED BY <3>1, <3>2
    <2> QED BY <1>2, <2>1, <2>2, <2>4 DEF IsStack
  <1>3. CASE ~ (Len(stack) > 1)
    <2>1. stack' = <<>>
      BY <1>3 DEF Return
    <2>2. stack' \in Seq({}) /\ Len(stack') = 0
      BY <2>1
    <2> QED BY <1>3, <2>2 DEF IsStack
  <1> QED BY <1>2, <1>3

(* The choice among the combinations: the first one that can be translated.*)
LEMMA ComboChosen ==
    ASSUME NEW k, k = SelectInSeq(Combos, LAMBDA c : Replaceable(Top, c))
    PROVE  \/ k = 0 /\ \A m \in 1..7 : ~ Replaceable(Top, Combos[m])
           \/ k \in 1..7 /\ Replaceable(Top, Combos[k])
  <1> DEFINE I == {n \in 1..Len(Combos) : Replaceable(Top, Combos[n])}
  <1>1. k = IF I # {} THEN Min(I) ELSE 0
    BY DEF SelectInSeq
  <1>2. Len(Combos) = 7
    BY DEF Combos
  <1>3. CASE I = {}
    BY <1>1, <1>2, <1>3
  <1>4. CASE I # {}
    <2>1. I \subseteq Nat
      BY <1>2
    <2>2. \E m \in I : \A n \in I : m <= n
      BY <1>4, <2>1, NatMinimum
    <2>3. k \in I
      BY <1>1, <1>4, <2>2 DEF Min
    <2> QED BY <1>2, <2>3
  <1> QED BY <1>3, <1>4

(* Every entry of Combos is three Booleans.                                *)
LEMMA ComboTyped ==
    ASSUME NEW k \in 1..7
    PROVE  /\ Combos[k][1] \in BOOLEAN /\ Combos[k][2] \in BOOLEAN /\ Combos[k][3] \in BOOLEAN
  <1>1. CASE k = 1
    BY <1>1 DEF Combos
  <1>2. CASE k = 2
    BY <1>2 DEF Combos
  <1>3. CASE k = 3
    BY <1>3 DEF Combos
  <1>4. CASE k = 4
    BY <1>4 DEF Combos
  <1>5. CASE k = 5
    BY <1>5 DEF Combos
  <1>6. CASE k = 6
    BY <1>6 DEF Combos
  <1>7. CASE k = 7
    BY <1>7 DEF Combos
  <1> QED BY <1>1, <1>2, <1>3, <1>4, <1>5, <1>6, <1>7

(* The top of a stack of calls.                                            *)
LEMMA TopTyped ==
    ASSUME IsStack(stack), stack # <<>>
    PROVE  IsCall(Top) /\ Top = stack[1] /\ Len(stack) \in Nat \ {0}
  <1>1. PICK S : stack \in Seq(S)
    BY DEF IsStack
  <1>2. Top = stack[1] /\ 1 \in 1..Len(stack) /\ Len(stack) \in Nat \ {0}
    BY <1>1, StackTail DEF Top
  <1> QED BY <1>2 DEF IsStack

(* Every step inside InstrTranslate3 does one of three things to the stack:*)
(* the top goes on, it makes a call, or it returns.                        *)
StackSteps ==
    \/ \E f : IsCall(f) /\ Goto(f) /\ Inside
    \/ \E f, c : IsCall(f) /\ IsCall(c) /\ Calls(f, c) /\ Inside
    \/ \E answer \in BOOLEAN : Return(answer)

(* A stage that asks a question makes a call or goes on.                   *)
LEMMA TestSteps ==
    ASSUME NEW f, NEW result, NEW arg, IsCall(f), Inside,
           TestLet(f, result, arg) \/ Goto(Answered(f, FALSE))
    PROVE  StackSteps
  <1>1. CASE TestLet(f, result, arg)
    <2> DEFINE c == Call("let", result, arg, NoVar, TRUE, f.bigger)
    <2>1. IsCall(c)
      <3>1. f.bigger \in BOOLEAN
        BY DEF IsCall
      <3> QED BY <3>1, NewCallTyped
    <2>2. Calls(f, c)
      BY <1>1 DEF TestLet
    <2> QED BY <2>1, <2>2 DEF StackSteps
  <1>2. CASE Goto(Answered(f, FALSE))
    <2>1. IsCall(Answered(f, FALSE))
      BY AnsweredTyped
    <2> QED BY <1>2, <2>1 DEF StackSteps
  <1> QED BY <1>1, <1>2

(* Each stage does one of the three.                                       *)
LEMMA InstrSteps ==
    ASSUME IsStack(stack), InstrTranslate3
    PROVE  StackSteps
  <1>1. stack # <<>> /\ IsCall(Top)
    BY TopTyped DEF InstrTranslate3, Direct, Arg1Test, Arg2Test, ResultTest, Choose, Bigger, Widen,
                    Load1, Load2, Operate, Store, Stored
  <1>2. CASE Direct
    <2> DEFINE f == [Top EXCEPT !.pc = "arg1", !.has1 = Complex(Top.arg1),
                                !.has2 = Complex(Top.arg2), !.hasr = Complex(Top.result)]
    <2>1. Return(TRUE) \/ (Goto(f) /\ Inside)
      BY <1>2 DEF Direct
    <2>2. IsCall(f)
      BY <1>1 DEF IsCall, CallFields, Stages, Complex
    <2> HIDE DEF f
    <2> QED BY <2>1, <2>2 DEF StackSteps
  <1>3. CASE Arg1Test
    BY <1>1, <1>3, TestSteps DEF Arg1Test
  <1>4. CASE Arg2Test
    BY <1>1, <1>4, TestSteps DEF Arg2Test
  <1>5. CASE ResultTest
    BY <1>1, <1>5, TestSteps DEF ResultTest
  <1>6. CASE Choose
    <2> DEFINE k == SelectInSeq(Combos, LAMBDA c : Replaceable(Top, c))
               f == [Top EXCEPT !.pc = "load1", !.to = Top.result.type, !.has1 = Combos[k][1],
                                !.has2 = Combos[k][2], !.hasr = Combos[k][3]]
               g == [Top EXCEPT !.pc = "bigger", !.to = Top.result.type]
    <2>1. k = 0 \/ k \in 1..7
      BY ComboChosen
    <2> HIDE DEF k
    <2>2. (k # 0 /\ Goto(f) /\ Inside) \/ (Goto(g) /\ Inside) \/ Return(FALSE)
      BY <1>6 DEF Choose, k
    <2>3. k # 0 => IsCall(f)
      <3>1. k \in 1..7 => /\ Combos[k][1] \in BOOLEAN /\ Combos[k][2] \in BOOLEAN
                         /\ Combos[k][3] \in BOOLEAN
        BY ComboTyped
      <3> HIDE DEF k
      <3> QED BY <1>1, <2>1, <3>1 DEF IsCall, CallFields, Stages
    <2>4. IsCall(g)
      BY <1>1 DEF IsCall, CallFields, Stages
    <2> HIDE DEF f, g
    <2> QED BY <2>2, <2>3, <2>4 DEF StackSteps
  <1>7. CASE Bigger
    <2> DEFINE t == TypeBiggerType(Top.op, Top.to)
               f == [Top EXCEPT !.pc = "narrow", !.to = t]
    <2> HIDE DEF t
    <2>1. Return(FALSE) \/ (TestLet(f, Top.result, Local("tmp_r", t)) /\ Inside)
      BY <1>7 DEF Bigger, t
    <2>2. IsCall(f)
      BY <1>1 DEF IsCall, CallFields, Stages
    <2> HIDE DEF f
    <2>3. CASE Return(FALSE)
      BY <2>3 DEF StackSteps
    <2> QED BY <2>1, <2>2, <2>3, TestSteps
  <1>8. CASE Widen
    <2> DEFINE f == [Top EXCEPT !.pc = "compute"]
               c == Call(Top.op, Local("tmp_r", Top.to), Top.arg1, Top.arg2, TRUE, TRUE)
    <2>1. Calls(f, c) /\ Inside
      BY <1>8 DEF Widen
    <2>2. IsCall(c)
      BY NewCallTyped
    <2>3. IsCall(f)
      BY <1>1 DEF IsCall, CallFields, Stages
    <2> QED BY <2>1, <2>2, <2>3 DEF StackSteps
  <1>9. CASE Load1 \/ Load2
    <2> DEFINE a == VarNewTmp(Top.arg1.type)
               b == VarNewTmp(Top.arg2.type)
               f == [Top EXCEPT !.pc = "load2", !.arg1 = a]
               g == [Top EXCEPT !.pc = "operate", !.arg2 = b]
               f2 == [Top EXCEPT !.pc = "load2"]
               g2 == [Top EXCEPT !.pc = "operate"]
               c == Call("let", a, Top.arg1, NoVar, FALSE, FALSE)
               d == Call("let", b, Top.arg2, NoVar, FALSE, FALSE)
    <2> HIDE DEF a, b
    <2>1. \/ Return(TRUE)
          \/ Calls(f, c) /\ Inside
          \/ Goto(f2) /\ Inside
          \/ Calls(g, d) /\ Inside
          \/ Goto(g2) /\ Inside
      BY <1>9 DEF Load1, Load2, Generate, a, b
    <2>2. IsCall(c) /\ IsCall(d)
      BY NewCallTyped
    <2>3. IsCall(f) /\ IsCall(g) /\ IsCall(f2) /\ IsCall(g2)
      BY <1>1 DEF IsCall, CallFields, Stages
    <2> HIDE DEF c, d, f, g, f2, g2
    <2> QED BY <2>1, <2>2, <2>3 DEF StackSteps
  <1>10. CASE Operate
    <2> DEFINE r == IF Top.hasr THEN VarNewTmp(Top.to) ELSE Top.result
               f == [Top EXCEPT !.pc = "store", !.tmp = r]
    <2> HIDE DEF r
    <2>1. Goto(f) /\ Inside
      BY <1>10 DEF Operate, r
    <2>2. IsCall(f)
      BY <1>1 DEF IsCall, CallFields, Stages
    <2> QED BY <2>1, <2>2 DEF StackSteps
  <1>11. CASE Store \/ Stored
    <2> DEFINE f == [Top EXCEPT !.pc = "stored"]
               c == Call("let", Top.result, Top.tmp, NoVar, FALSE, FALSE)
    <2>1. Return(TRUE) \/ (Calls(f, c) /\ Inside)
      BY <1>11 DEF Store, Stored, Generate
    <2>2. IsCall(c)
      BY NewCallTyped
    <2>3. IsCall(f)
      BY <1>1 DEF IsCall, CallFields, Stages
    <2> HIDE DEF c, f
    <2> QED BY <2>1, <2>2, <2>3 DEF StackSteps
  <1> QED BY <1>2, <1>3, <1>4, <1>5, <1>6, <1>7, <1>8, <1>9, <1>10, <1>11 DEF InstrTranslate3

-----------------------------------------------------------------------------
\* What stays as it was read; what the walk through the block changes.
InputTyped ==
    /\ file \in Seq(FileRule) /\ Len(file) <= MaxRules
    /\ block \in Seq(ToSet(block)) /\ \A i \in ToSet(block) : Generated(i)
    /\ asserts_off \in BOOLEAN
WalkTyped ==
    /\ line_no \in 0..MaxRules
    /\ pos \in 1..(Len(block) + 1) /\ in_assert \in BOOLEAN
    /\ errors \subseteq 1..Len(block)
    /\ temps \in Nat
    /\ IsStack(stack)
    /\ stack # <<>> => pos <= Len(block)

(* The invariant holds at the beginning, ...                               *)
LEMMA TypesInit ==
    ASSUME Init
    PROVE  InputTyped /\ WalkTyped
  <1>1. InputTyped
    <2>1. PICK unit \in Units : /\ file = unit.rules /\ block = unit.block
                                 /\ asserts_off = unit.asserts_off
      BY DEF Init, TransInit
    <2>2. /\ unit.rules \in Seq(FileRule) /\ Len(unit.rules) <= MaxRules
          /\ unit.block \in Seq(ToSet(unit.block))
          /\ \A i \in ToSet(unit.block) : Generated(i)
          /\ unit.asserts_off \in BOOLEAN
      BY UnitsAssumption
    <2> QED BY <2>1, <2>2 DEF InputTyped
  <1>2. stack = <<>> /\ stack \in Seq({}) /\ Len(stack) = 0
    BY DEF Init, TransInit
  <1>3. line_no \in 0..MaxRules
    BY PatternAssumption DEF Init, RulesInit
  <1>4. Len(block) \in Nat
    BY <1>1 DEF InputTyped
  <1>5. pos = 1 /\ in_assert = FALSE /\ errors = {} /\ temps = 0
    BY DEF Init, TransInit
  <1>6. pos \in 1..(Len(block) + 1)
    BY <1>4, <1>5
  <1>7. IsStack(stack)
    BY <1>2 DEF IsStack
  <1>8. WalkTyped
    BY <1>2, <1>3, <1>5, <1>6, <1>7 DEF WalkTyped
  <1> QED BY <1>1, <1>8

(* A return in the block: the walk goes on to the next instruction.        *)
LEMMA ReturnWalks ==
    ASSUME InputTyped, WalkTyped, stack # <<>>, NEW answer \in BOOLEAN, Return(answer)
    PROVE  /\ IsStack(stack')
           /\ pos' \in 1..(Len(block) + 1) /\ errors' \subseteq 1..Len(block)
           /\ stack' # <<>> => pos' <= Len(block)
  <1>1. IsStack(stack') /\ (Len(stack) > 1 => stack' # <<>>)
    BY ReturnTyped DEF WalkTyped
  <1>2. Len(block) \in Nat /\ pos \in 1..Len(block) /\ errors \subseteq 1..Len(block)
    <2>1. Len(block) \in Nat
      BY DEF InputTyped
    <2>2. pos \in 1..(Len(block) + 1) /\ pos <= Len(block) /\ errors \subseteq 1..Len(block)
      BY DEF WalkTyped
    <2> QED BY <2>1, <2>2
  <1>3. CASE Len(stack) > 1
    <2>1. pos' = pos /\ errors' = errors
      BY <1>3 DEF Return
    <2>2. pos \in 1..(Len(block) + 1) /\ pos <= Len(block)
      BY <1>2
    <2> QED BY <1>1, <1>2, <2>1, <2>2
  <1>4. CASE ~ (Len(stack) > 1)
    <2>1. stack' = <<>> /\ pos' = pos + 1 /\ (errors' = errors \/ errors' = errors \cup {pos})
      BY <1>4 DEF Return
    <2>2. pos + 1 \in 1..(Len(block) + 1)
      BY <1>2
    <2>3. errors' \subseteq 1..Len(block)
      BY <1>2, <2>1
    <2> QED BY <1>1, <2>1, <2>2, <2>3
  <1> QED BY <1>3, <1>4

(* InstrTranslate3 stays in the block.                                     *)
LEMMA InstrWalks ==
    ASSUME InputTyped, WalkTyped, InstrTranslate3
    PROVE  WalkTyped' /\ UNCHANGED <<ruleVars, file, block, asserts_off>>
  <1>1. UNCHANGED <<ruleVars, file, block, asserts_off, in_assert>> /\ stack # <<>>
    BY DEF InstrTranslate3, Direct, Arg1Test, Arg2Test, ResultTest, Choose, Bigger, Widen,
           Load1, Load2, Operate, Store, Stored, Quiet
  <1>2. temps' = temps \/ temps' = temps + 1
    BY DEF InstrTranslate3, Direct, Arg1Test, Arg2Test, ResultTest, Choose, Bigger, Widen,
           Load1, Load2, Operate, Store, Stored, Quiet
  <1>3. /\ IsStack(stack')
        /\ pos' \in 1..(Len(block) + 1) /\ errors' \subseteq 1..Len(block)
        /\ stack' # <<>> => pos' <= Len(block)
    <2>1. StackSteps
      BY InstrSteps DEF WalkTyped
    <2>2. CASE \E f : IsCall(f) /\ Goto(f) /\ Inside
      BY <1>1, <2>2, GotoTyped DEF Inside, WalkTyped
    <2>3. CASE \E f, c : IsCall(f) /\ IsCall(c) /\ Calls(f, c) /\ Inside
      BY <1>1, <2>3, CallsTyped DEF Inside, WalkTyped
    <2>4. CASE \E answer \in BOOLEAN : Return(answer)
      BY <1>1, <2>4, ReturnWalks
    <2> QED BY <2>1, <2>2, <2>3, <2>4 DEF StackSteps
  <1>4. line_no' = line_no
    BY <1>1 DEF ruleVars
  <1> QED BY <1>1, <1>2, <1>3, <1>4 DEF WalkTyped

(* ... and every step keeps it.                                            *)
LEMMA TypesNext ==
    ASSUME InputTyped, WalkTyped, [Next]_vars
    PROVE  InputTyped' /\ WalkTyped' /\ UNCHANGED <<file, block, asserts_off>>
  <1>1. CASE UNCHANGED vars
    BY <1>1 DEF vars, ruleVars, transVars, InputTyped, WalkTyped
  <1>2. CASE ParseRule
    <2>1. UNCHANGED transVars /\ line_no < Len(file)
      BY <1>2 DEF ParseRule, Parsing
    <2>2. line_no' = line_no + 1
      BY <1>2 DEF ParseRule, EmptyRule, RuleRegister
    <2>3. line_no' \in 0..MaxRules
      <3>1. Len(file) \in Nat /\ MaxRules \in Nat /\ line_no \in Nat
        BY PatternAssumption DEF InputTyped, WalkTyped
      <3> QED BY <2>1, <2>2, <3>1 DEF InputTyped
    <2> QED BY <2>1, <2>3 DEF transVars, InputTyped, WalkTyped
  <1>3. CASE SkipAssert
    <2>1. /\ UNCHANGED <<ruleVars, file, block, asserts_off, stack, out, temps, errors>>
          /\ pos' = pos + 1 /\ in_assert' \in BOOLEAN
      BY <1>3 DEF SkipAssert, WalkTyped
    <2>2. pos <= Len(block) /\ stack = <<>> /\ Len(block) \in Nat
      BY <1>3 DEF SkipAssert, Running, InputTyped
    <2> QED BY <2>1, <2>2 DEF ruleVars, InputTyped, WalkTyped
  <1>4. CASE NextInstr
    <2> DEFINE c == Call(block[pos].op, block[pos].result, block[pos].arg1, block[pos].arg2,
                         FALSE, FALSE)
    <2>1. stack' = <<c>> /\ pos <= Len(block) /\ Quiet /\ Inside
      BY <1>4 DEF NextInstr, Running
    <2>2. IsCall(c)
      BY NewCallTyped
    <2> HIDE DEF c
    <2>3. IsStack(stack')
      <3>1. stack' \in Seq({c}) /\ Len(stack') = 1 /\ stack'[1] = c
        BY <2>1
      <3> QED BY <2>2, <3>1 DEF IsStack
    <2> QED BY <2>1, <2>3 DEF Quiet, Inside, ruleVars, InputTyped, WalkTyped
  <1>5. CASE InstrTranslate3
    BY <1>5, InstrWalks DEF InputTyped
  <1> QED BY <1>1, <1>2, <1>3, <1>4, <1>5 DEF Next

(* Whatever the rules are, the walk stays in the block, calls are at one of*)
(* the stages of InstrTranslate3 and errors are instructions of the block. *)
THEOREM TranslateTypeCorrect == Spec => []TypeOK
  <1>1. Init => InputTyped /\ WalkTyped
    BY TypesInit
  <1>2. (InputTyped /\ WalkTyped) /\ [Next]_vars => (InputTyped /\ WalkTyped)'
    BY TypesNext
  <1>3. InputTyped /\ WalkTyped => TypeOK
    BY DEF InputTyped, WalkTyped, IsStack, IsCall, TypeOK
  <1> QED BY <1>1, <1>2, <1>3, PTL DEF Spec

-----------------------------------------------------------------------------
\* A rule of the set fits the instruction.
Matched(set, i) == \E k \in 1..Len(rules[set][i.op]) : RuleMatch(rules[set][i.op][k], i)

(* A rule is found if there is one that fits.                              *)
LEMMA RuleFound ==
    ASSUME NEW set, NEW i
    PROVE  FindRule(set, i) # <<>> <=> Matched(set, i)
  <1> DEFINE list == rules[set][i.op]
             I    == {n \in 1..Len(list) : RuleMatch(list[n], i)}
             k    == IF I # {} THEN Min(I) ELSE 0
  <1>1. FindRule(set, i) = IF k = 0 THEN <<>> ELSE <<list[k]>>
    BY DEF FindRule, SelectInSeq
  <1>2. I # {} => Min(I) \in I
    <2> SUFFICES ASSUME I # {} PROVE Min(I) \in I
      OBVIOUS
    <2>1. I \subseteq Nat
      OBVIOUS
    <2>2. \E m \in I : \A n \in I : m <= n
      BY <2>1, NatMinimum
    <2> QED BY <2>2 DEF Min
  <1>3. 0 \notin I
    OBVIOUS
  <1>4. I # {} <=> Matched(set, i)
    BY DEF Matched
  <1> HIDE DEF I
  <1>5. k # 0 <=> I # {}
    BY <1>2, <1>3
  <1> HIDE DEF k
  <1>6. FindRule(set, i) # <<>> <=> k # 0
    BY <1>1
  <1> QED BY <1>4, <1>5, <1>6

(* A LET has a rule in one of the two sets; its arguments are not swapped. *)
LEMMA LetTranslates ==
    ASSUME NEW r, NEW a
    PROVE  Translates("let", r, a, NoVar) <=>
              \/ Matched("emit", Instr("let", r, a, NoVar))
              \/ Matched("instr", Instr("let", r, a, NoVar))
  <1> DEFINE i == Instr("let", r, a, NoVar)
  <1>1. Translates("let", r, a, NoVar) <=> InstrTranslate(i) # <<>>
    BY DEF Translates, InstrTranslate2, Commutative, Branches
  <1> HIDE DEF i
  <1>2. InstrTranslate(i) # <<>> <=> Matched("emit", i) \/ Matched("instr", i)
    BY RuleFound DEF InstrTranslate
  <1> QED BY <1>1, <1>2 DEF i

(* An argument that is not there is not a variable.                        *)
LEMMA NoVarMode == NoVar.mode = "none"
  BY DEF NoVar

\* No rule tells the two arguments apart.
Alike(x, y) == \A p : ArgMatch(p, x) <=> ArgMatch(p, y)

(* The rules do not tell two variables of one type apart, ...              *)
LEMMA ArgMatchSame ==
    ASSUME NEW x, NEW y, x.mode = "var", y.mode = "var", x.type = y.type
    PROVE  Alike(x, y)
  <1>1. x # NoVar /\ y # NoVar
    BY NoVarMode
  <1>2. ASSUME NEW type PROVE VarMatchesType(x, type) <=> VarMatchesType(y, type)
    <2>1. VarMatchesType(x, type) <=>
             \/ type = AnyType \/ x.type = type
             \/ x.type \subseteq type /\ TypeSize(type) <= TypeSize(x.type)
      BY DEF VarMatchesType
    <2>2. VarMatchesType(y, type) <=>
             \/ type = AnyType \/ y.type = type
             \/ y.type \subseteq type /\ TypeSize(type) <= TypeSize(y.type)
      BY DEF VarMatchesType
    <2> QED BY <2>1, <2>2
  <1> QED BY <1>1, <1>2 DEF ArgMatch, Alike

(* ... nor two instructions whose arguments are alike.                     *)
LEMMA RuleMatchSame ==
    ASSUME NEW op, NEW r, NEW a, NEW b, NEW s, NEW c, NEW d,
           Alike(r, s),
           Alike(a, c),
           Alike(b, d),
           r = a <=> s = c, r = b <=> s = d, a = b <=> c = d,
           NEW rule, RuleMatch(rule, Instr(op, r, a, b))
    PROVE  RuleMatch(rule, Instr(op, s, c, d))
  <1> DEFINE x == <<r, a, b>>
             y == <<s, c, d>>
  <1>1. /\ x[1] = r /\ x[2] = a /\ x[3] = b
        /\ y[1] = s /\ y[2] = c /\ y[3] = d
    OBVIOUS
  <1>2. /\ rule.op = op
        /\ \A k \in 1..3 : ArgMatch(rule.arg[k], x[k])
        /\ \A k \in 1..3, l \in 1..3 :
              rule.arg[k].no = rule.arg[l].no /\ rule.arg[k].no # 0 => x[k] = x[l]
    BY DEF RuleMatch, Instr
  <1> HIDE DEF x, y
  <1>3. \A k \in 1..3 : k = 1 \/ k = 2 \/ k = 3
    OBVIOUS
  <1>4. \A k \in 1..3 : ArgMatch(rule.arg[k], y[k])
    BY <1>1, <1>2, <1>3 DEF Alike
  <1>5. \A k \in 1..3, l \in 1..3 : x[k] = x[l] => y[k] = y[l]
    BY <1>1, <1>3
  <1>6. \A k \in 1..3, l \in 1..3 :
           rule.arg[k].no = rule.arg[l].no /\ rule.arg[k].no # 0 => y[k] = y[l]
    BY <1>2, <1>5
  <1>7. RuleMatch(rule, Instr(op, s, c, d)) <=>
           /\ rule.op = op
           /\ \A k \in 1..3 : ArgMatch(rule.arg[k], y[k])
           /\ \A k \in 1..3, l \in 1..3 :
                 rule.arg[k].no = rule.arg[l].no /\ rule.arg[k].no # 0 => y[k] = y[l]
    BY DEF RuleMatch, Instr, y
  <1> QED BY <1>2, <1>4, <1>6, <1>7

(* A set that has a rule for one of them has one for the other.            *)
LEMMA MatchedSame ==
    ASSUME NEW op, NEW r, NEW a, NEW b, NEW s, NEW c, NEW d,
           Alike(r, s),
           Alike(a, c),
           Alike(b, d),
           r = a <=> s = c, r = b <=> s = d, a = b <=> c = d,
           NEW set, Matched(set, Instr(op, r, a, b))
    PROVE  Matched(set, Instr(op, s, c, d))
  <1>1. Instr(op, r, a, b).op = op /\ Instr(op, s, c, d).op = op
    BY DEF Instr
  <1>2. PICK k \in 1..Len(rules[set][op]) : RuleMatch(rules[set][op][k], Instr(op, r, a, b))
    BY <1>1 DEF Matched
  <1>3. RuleMatch(rules[set][op][k], Instr(op, s, c, d))
    BY <1>2, RuleMatchSame
  <1> QED BY <1>1, <1>2, <1>3 DEF Matched

(* Whether a LET can be translated is the same for two variables of one    *)
(* type in the place of its result, and in that of its argument.           *)
LEMMA LetResultSame ==
    ASSUME NEW r, NEW s, NEW a, r.mode = "var", s.mode = "var", r.type = s.type, r # a, s # a,
           Translates("let", r, a, NoVar)
    PROVE  Translates("let", s, a, NoVar)
  <1>1. r # NoVar /\ s # NoVar
    BY NoVarMode
  <1>2. Alike(r, s)
    BY ArgMatchSame
  <1>3. ASSUME NEW set, Matched(set, Instr("let", r, a, NoVar))
        PROVE  Matched(set, Instr("let", s, a, NoVar))
    <2>1. Alike(NoVar, NoVar)
      BY DEF Alike
    <2>2. Alike(a, a)
      BY DEF Alike
    <2>3. (r = a) <=> (s = a)
      OBVIOUS
    <2>4. (r = NoVar) <=> (s = NoVar)
      BY <1>1
    <2>5. (a = NoVar) <=> (a = NoVar)
      BY <1>1
    <2> QED BY <1>2, <1>3, <2>1, <2>2, <2>3, <2>4, <2>5, MatchedSame
  <1> QED BY <1>3, LetTranslates

(* The same for the argument.                                              *)
LEMMA LetArgSame ==
    ASSUME NEW r, NEW a, NEW b, a.mode = "var", b.mode = "var", a.type = b.type, r # a, r # b,
           Translates("let", r, a, NoVar)
    PROVE  Translates("let", r, b, NoVar)
  <1>1. a # NoVar /\ b # NoVar
    BY NoVarMode
  <1>2. Alike(a, b)
    BY ArgMatchSame
  <1>3. ASSUME NEW set, Matched(set, Instr("let", r, a, NoVar))
        PROVE  Matched(set, Instr("let", r, b, NoVar))
    <2>1. Alike(NoVar, NoVar)
      BY DEF Alike
    <2>2. Alike(r, r)
      BY DEF Alike
    <2>3. (r = a) <=> (r = b)
      OBVIOUS
    <2>4. (r = NoVar) <=> (r = NoVar)
      BY <1>1
    <2>5. (a = NoVar) <=> (b = NoVar)
      BY <1>1
    <2> QED BY <1>2, <1>3, <2>1, <2>2, <2>3, <2>4, <2>5, MatchedSame
  <1> QED BY <1>3, LetTranslates

-----------------------------------------------------------------------------
\* Which of the arguments and the result are replaced.
Replacing == [1..3 -> BOOLEAN]

\* The call for an instruction i of the block: a way to translate i that it has not noted
\* does not exist, and when it has gone on to a bigger result there is none at all.
FindOK(f, i) ==
    /\ f.op = i.op /\ f.result = i.result /\ ~ f.test /\ ~ f.bigger
    /\ f.pc \notin Generating => f.arg1 = i.arg1 /\ f.arg2 = i.arg2
    /\ f.pc \in {"arg1", "arg2", "result", "choose"} =>
          ~ Translates(i.op, i.result, i.arg1, i.arg2)
    /\ f.pc = "arg1" => f.has1 = Complex(i.arg1)
    /\ f.pc \in {"arg1", "arg2"} => f.has2 = Complex(i.arg2)
    /\ f.pc \in {"arg1", "arg2", "result"} => f.hasr = Complex(i.result)
    /\ f.pc \in {"arg2", "result", "choose"} =>
          f.has1 \/ \A c \in Replacing : c[1] => ~ TranslatableBy(i, c)
    /\ f.pc \in {"result", "choose"} =>
          f.has2 \/ \A c \in Replacing : c[2] => ~ TranslatableBy(i, c)
    /\ f.pc = "choose" =>
          f.hasr \/ \A c \in Replacing : c[3] => ~ TranslatableBy(i, c)
    /\ f.pc \in {"bigger", "narrow", "widen", "compute"} => ~ Translatable(i)

\* The answer to the question the call f asks about i is no.
Settled(f, i) ==
    /\ f.pc = "arg1"   => \A c \in Replacing : c[1] => ~ TranslatableBy(i, c)
    /\ f.pc = "arg2"   => \A c \in Replacing : c[2] => ~ TranslatableBy(i, c)
    /\ f.pc = "result" => \A c \in Replacing : c[3] => ~ TranslatableBy(i, c)

\* The call g has not begun, and asks for the translation of a LET.
AsksLet(g, result, arg) ==
    /\ g.pc = "direct"
    /\ g.op = "let" /\ g.result = result /\ g.arg1 = arg /\ g.arg2 = NoVar

\* The call g is the one f has made to find out about i, and has still to look at the rules.
Requests(f, g, i) ==
    /\ f.pc = "arg1"   => AsksLet(g, Replaced(i.arg1, TRUE, "tmp1"), i.arg1)
    /\ f.pc = "arg2"   => AsksLet(g, Replaced(i.arg2, TRUE, "tmp2"), i.arg2)
    /\ f.pc = "result" => AsksLet(g, i.result, Replaced(i.result, TRUE, "tmp_r"))

\* While f waits for g.
Waiting(f, g, i) == Settled(f, i) \/ Requests(f, g, i)

\* The last entry of the stack is the call for i, the one before it the call it waits for.
FindStack(stk, i) ==
    stk # <<>> =>
       /\ FindOK(stk[Len(stk)], i)
       /\ Len(stk) > 1 => Waiting(stk[Len(stk)], stk[Len(stk) - 1], i)

(* A call that is no longer at its beginning, or finds no rule there, has  *)
(* settled the question its caller asks.                                   *)
LEMMA WaitingSettled ==
    ASSUME NEW f, NEW g, NEW i, Waiting(f, g, i),
           g.pc # "direct" \/ ~ Translates(g.op, g.result, g.arg1, g.arg2)
    PROVE  Settled(f, i)
  <1> SUFFICES ASSUME Requests(f, g, i) PROVE Settled(f, i)
    BY DEF Waiting
  <1>1. f.pc = "arg1" => ~ CanLoad("tmp1", i.arg1)
    BY DEF Requests, AsksLet, CanLoad
  <1>2. f.pc = "arg2" => ~ CanLoad("tmp2", i.arg2)
    BY DEF Requests, AsksLet, CanLoad
  <1>3. f.pc = "result" => ~ CanStore(i.result)
    BY DEF Requests, AsksLet, CanStore
  <1> QED BY <1>1, <1>2, <1>3 DEF Settled, TranslatableBy

(* The call for i goes on with an answer.                                  *)
LEMMA AnswerFinds ==
    ASSUME NEW f, NEW i, IsCall(f), FindOK(f, i), NEW answer \in BOOLEAN,
           answer \/ Settled(f, i)
    PROVE  FindOK(Answered(f, answer), i)
  <1> DEFINE g == Answered(f, answer)
  <1> SUFFICES FindOK(g, i)
    OBVIOUS
  <1>1. /\ g.op = f.op /\ g.result = f.result /\ g.arg1 = f.arg1 /\ g.arg2 = f.arg2
        /\ g.test = f.test /\ g.bigger = f.bigger
    BY DEF Answered
  <1>2. CASE f.pc = "arg1"
    <2>1. g.pc = "arg2" /\ g.has1 = answer /\ g.has2 = f.has2 /\ g.hasr = f.hasr
      BY <1>2 DEF Answered, IsCall, CallFields
    <2> HIDE DEF g
    <2>2. answer \/ \A c \in Replacing : c[1] => ~ TranslatableBy(i, c)
      BY <1>2 DEF Settled
    <2> QED BY <1>1, <1>2, <2>1, <2>2 DEF FindOK, Generating, Chosen
  <1>3. CASE f.pc = "arg2"
    <2>1. g.pc = "result" /\ g.has1 = f.has1 /\ g.has2 = answer /\ g.hasr = f.hasr
      BY <1>3 DEF Answered, IsCall, CallFields
    <2> HIDE DEF g
    <2>2. answer \/ \A c \in Replacing : c[2] => ~ TranslatableBy(i, c)
      BY <1>3 DEF Settled
    <2> QED BY <1>1, <1>3, <2>1, <2>2 DEF FindOK, Generating, Chosen
  <1>4. CASE f.pc = "result"
    <2>1. g.pc = "choose" /\ g.has1 = f.has1 /\ g.has2 = f.has2 /\ g.hasr = answer
      BY <1>4 DEF Answered, IsCall, CallFields
    <2> HIDE DEF g
    <2>2. answer \/ \A c \in Replacing : c[3] => ~ TranslatableBy(i, c)
      BY <1>4 DEF Settled
    <2> QED BY <1>1, <1>4, <2>1, <2>2 DEF FindOK, Generating, Chosen
  <1>5. CASE f.pc \in {"narrow", "compute"}
    <2>1. g.pc \in {"widen", "bigger", "load1"}
      BY <1>5 DEF Answered, IsCall, CallFields
    <2> HIDE DEF g
    <2> QED BY <1>1, <1>5, <2>1 DEF FindOK, Generating, Chosen
  <1>6. CASE f.pc \notin {"arg1", "arg2", "result", "narrow", "compute"}
    <2>1. g = f
      BY <1>6 DEF Answered
    <2> HIDE DEF g
    <2> QED BY <2>1
  <1> QED BY <1>2, <1>3, <1>4, <1>5, <1>6

-----------------------------------------------------------------------------
(* The stack after each of the three ways to go on: by a step, ...         *)
LEMMA GotoFinds ==
    ASSUME IsStack(stack), stack # <<>>, NEW i, FindStack(stack, i), NEW f, Goto(f),
           Len(stack) = 1 => FindOK(f, i),
           Len(stack) = 2 => Settled(stack[2], i)
    PROVE  FindStack(stack', i)
  <1>1. PICK S : stack \in Seq(S)
    BY DEF IsStack
  <1> DEFINE s == <<f>> \o Tail(stack)
             n == Len(stack)
  <1>2. /\ s \in Seq(S \cup {f}) /\ Len(s) = n /\ n \in Nat \ {0} /\ s[1] = f
        /\ \A k \in 2..n : s[k] = stack[k]
    BY <1>1, GotoShape
  <1>3. stack' = s
    BY DEF Goto
  <1> HIDE DEF s
  <1>4. CASE n = 1
    BY <1>2, <1>3, <1>4 DEF FindStack
  <1>5. CASE n > 1
    <2>1. s[n] = stack[n] /\ FindOK(stack[n], i) /\ Waiting(stack[n], stack[n - 1], i)
      BY <1>2, <1>5 DEF FindStack
    <2>2. Waiting(stack[n], s[n - 1], i)
      <3>1. CASE n = 2
        BY <3>1 DEF Waiting
      <3>2. CASE n > 2
        <4>1. s[n - 1] = stack[n - 1]
          BY <1>2, <3>2
        <4> QED BY <2>1, <4>1
      <3> QED BY <1>2, <1>5, <3>1, <3>2
    <2> QED BY <1>2, <1>3, <1>5, <2>1, <2>2 DEF FindStack
  <1> QED BY <1>2, <1>4, <1>5

(* ... by a call, ...                                                      *)
LEMMA CallsFinds ==
    ASSUME IsStack(stack), stack # <<>>, NEW i, FindStack(stack, i), NEW f, NEW c, Calls(f, c),
           Len(stack) = 1 => FindOK(f, i) /\ Waiting(f, c, i),
           Len(stack) = 2 => Settled(stack[2], i)
    PROVE  FindStack(stack', i)
  <1>1. PICK S : stack \in Seq(S)
    BY DEF IsStack
  <1> DEFINE s == <<c, f>> \o Tail(stack)
             n == Len(stack)
  <1>2. /\ s \in Seq(S \cup {f} \cup {c}) /\ Len(s) = n + 1 /\ n \in Nat \ {0}
        /\ s[1] = c /\ s[2] = f
        /\ \A k \in 2..n : s[k + 1] = stack[k]
    BY <1>1, CallShape
  <1>3. stack' = s
    BY DEF Calls
  <1> HIDE DEF s
  <1>4. n \in Nat \ {0} /\ n + 1 > 1 /\ (n + 1) - 1 = n
    BY <1>2
  <1>5. CASE n = 1
    <2>1. s[n + 1] = f /\ s[n] = c
      BY <1>2, <1>5
    <2> QED BY <1>2, <1>3, <1>4, <1>5, <2>1 DEF FindStack
  <1>6. CASE n > 1
    <2>1. s[n + 1] = stack[n] /\ FindOK(stack[n], i) /\ Waiting(stack[n], stack[n - 1], i)
      BY <1>2, <1>6 DEF FindStack
    <2>2. Waiting(stack[n], s[n], i)
      <3>1. CASE n = 2
        BY <3>1 DEF Waiting
      <3>2. CASE n > 2
        <4>1. n - 1 \in 2..n /\ (n - 1) + 1 = n
          BY <1>2, <3>2
        <4>2. s[n] = stack[n - 1]
          BY <1>2, <4>1
        <4> QED BY <2>1, <4>2
      <3> QED BY <1>4, <1>6, <3>1, <3>2
    <2>3. FindOK(s[n + 1], i) /\ Waiting(s[n + 1], s[(n + 1) - 1], i)
      BY <1>4, <2>1, <2>2
    <2> QED BY <1>2, <1>3, <2>3 DEF FindStack
  <1> QED BY <1>4, <1>5, <1>6

(* ... and by a return.                                                    *)
LEMMA ReturnFinds ==
    ASSUME IsStack(stack), stack # <<>>, NEW i, FindStack(stack, i),
           NEW answer \in BOOLEAN, Return(answer),
           Len(stack) = 2 => answer \/ Settled(stack[2], i)
    PROVE  FindStack(stack', i)
  <1>1. PICK S : stack \in Seq(S)
    BY DEF IsStack
  <1> DEFINE n == Len(stack)
             f == Answered(stack[2], answer)
             s == <<f>> \o Tail(Tail(stack))
  <1>2. CASE n > 1
    <2>1. /\ s \in Seq(S \cup {f}) /\ Len(s) = n - 1 /\ n \in Nat \ {0} /\ s[1] = f
          /\ \A k \in 3..n : s[k - 1] = stack[k]
      BY <1>1, <1>2, ReturnShape
    <2>2. stack' = s
      BY <1>2 DEF Return
    <2>3. FindOK(stack[n], i) /\ Waiting(stack[n], stack[n - 1], i)
      BY <1>2 DEF FindStack
    <2> HIDE DEF s
    <2>4. CASE n = 2
      <3>1. IsCall(stack[2]) /\ FindOK(stack[2], i)
        BY <2>1, <2>3, <2>4 DEF IsStack
      <3>2. FindOK(f, i)
        BY <2>4, <3>1, AnswerFinds
      <3>3. Len(s) = 1 /\ s[1] = f
        BY <2>1, <2>4
      <3> QED BY <2>2, <3>2, <3>3 DEF FindStack
    <2>5. CASE n > 2
      <3>1. s[n - 1] = stack[n]
        BY <2>1, <2>5
      <3>2. Waiting(stack[n], s[(n - 1) - 1], i)
        <4>1. CASE n = 3
          <5>1. s[(n - 1) - 1] = f /\ n - 1 = 2
            BY <2>1, <4>1
          <5>2. stack[2].pc = "direct" => f = stack[2]
            BY DEF Answered
          <5>3. Waiting(stack[n], f, i)
            <6>1. CASE Settled(stack[n], i)
              BY <6>1 DEF Waiting
            <6>2. CASE stack[2].pc = "direct"
              BY <2>3, <5>1, <5>2, <6>2
            <6>3. CASE stack[2].pc # "direct"
              <7>1. Settled(stack[n], i)
                BY <2>3, <5>1, <6>3, WaitingSettled
              <7> QED BY <7>1 DEF Waiting
            <6> QED BY <6>1, <6>2, <6>3
          <5> QED BY <5>1, <5>3
        <4>2. CASE n > 3
          <5>1. n - 1 \in 3..n /\ (n - 1) - 1 = n - 2
            BY <2>1, <4>2
          <5>2. s[(n - 1) - 1] = stack[n - 1]
            BY <2>1, <5>1
          <5> QED BY <2>3, <5>2
        <4> QED BY <2>1, <2>5, <4>1, <4>2
      <3> QED BY <2>1, <2>2, <2>3, <3>1, <3>2 DEF FindStack
    <2> QED BY <1>2, <2>1, <2>4, <2>5
  <1>3. CASE ~ (n > 1)
    BY <1>3 DEF Return, FindStack
  <1> QED BY <1>2, <1>3

-----------------------------------------------------------------------------
(* The tests that are left out: a LET of the same kind as the one that has *)
(* no rule, which does not become translatable by another variable.        *)
LEMMA Arg1LeftOut ==
    ASSUME NEW i, Generated(i), ~ Translates(i.op, i.result, i.arg1, i.arg2),
           \/ ~ Complex(i.arg1)
           \/ i.op = "let" /\ ~ Complex(i.result) /\ i.result.type = i.arg1.type,
           NEW c \in Replacing, c[1]
    PROVE  ~ TranslatableBy(i, c)
  <1> SUFFICES ASSUME TranslatableBy(i, c) PROVE FALSE
    OBVIOUS
  <1>1. CanLoad("tmp1", i.arg1)
    BY DEF TranslatableBy
  <1>2. Complex(i.arg1) /\ i.arg1.mode # "var"
    BY <1>1 DEF CanLoad, Complex
  <1>3. i.op = "let" /\ ~ Complex(i.result) /\ i.result.type = i.arg1.type
    BY <1>2
  <1>4. i.result.mode = "var" /\ i.arg2 = NoVar
    BY <1>3 DEF Generated, Complex
  <1> DEFINE v == Replaced(i.arg1, TRUE, "tmp1")
  <1>5. v.mode = "var" /\ v.type = i.arg1.type
    BY DEF Replaced, Variable
  <1>6. Translates("let", v, i.arg1, NoVar)
    BY <1>1 DEF CanLoad
  <1> HIDE DEF v
  <1>7. v # i.arg1 /\ i.result # i.arg1
    BY <1>2, <1>4, <1>5
  <1>8. Translates("let", i.result, i.arg1, NoVar)
    BY <1>3, <1>4, <1>5, <1>6, <1>7, LetResultSame
  <1> QED BY <1>3, <1>4, <1>8

(* A LET has no second argument.                                           *)
LEMMA Arg2LeftOut ==
    ASSUME NEW i, Generated(i), ~ Complex(i.arg2) \/ i.op = "let",
           NEW c \in Replacing, c[2]
    PROVE  ~ TranslatableBy(i, c)
  <1>1. ~ Complex(i.arg2)
    BY NoVarMode DEF Generated, Complex
  <1> QED BY <1>1 DEF TranslatableBy, CanLoad

(* The same for the result.                                                *)
LEMMA ResultLeftOut ==
    ASSUME NEW i, Generated(i), ~ Translates(i.op, i.result, i.arg1, i.arg2),
           \/ ~ Complex(i.result)
           \/ i.op = "let" /\ i.arg1.mode = "var" /\ i.arg1.type = i.result.type,
           NEW c \in Replacing, c[3]
    PROVE  ~ TranslatableBy(i, c)
  <1> SUFFICES ASSUME TranslatableBy(i, c) PROVE FALSE
    OBVIOUS
  <1>1. CanStore(i.result)
    BY DEF TranslatableBy
  <1>2. Complex(i.result) /\ i.result.mode # "var"
    BY <1>1 DEF CanStore, Complex
  <1>3. i.op = "let" /\ i.arg1.mode = "var" /\ i.arg1.type = i.result.type
    BY <1>2
  <1>4. i.arg2 = NoVar
    BY <1>3 DEF Generated
  <1> DEFINE v == Replaced(i.result, TRUE, "tmp_r")
  <1>5. v.mode = "var" /\ v.type = i.result.type
    BY DEF Replaced, Variable
  <1>6. Translates("let", i.result, v, NoVar)
    BY <1>1 DEF CanStore
  <1> HIDE DEF v
  <1>7. i.result # v /\ i.result # i.arg1
    BY <1>2, <1>3, <1>5
  <1>8. Translates("let", i.result, i.arg1, NoVar)
    BY <1>3, <1>5, <1>6, <1>7, LetArgSame
  <1> QED BY <1>3, <1>4, <1>8

\* The same arguments are replaced.
SameChoice(c, d) == (c[1] <=> d[1]) /\ (c[2] <=> d[2]) /\ (c[3] <=> d[3])

(* Combos has every choice but the one that replaces nothing.              *)
LEMMA CombosAll ==
    ASSUME NEW c \in Replacing, c[1] \/ c[2] \/ c[3]
    PROVE  \E m \in 1..7 : SameChoice(Combos[m], c)
  <1>1. c[1] \in BOOLEAN /\ c[2] \in BOOLEAN /\ c[3] \in BOOLEAN
    BY DEF Replacing
  <1>2. CASE c[1] = TRUE /\ c[2] = FALSE /\ c[3] = FALSE
    <2>1. Combos[1][1] = TRUE /\ Combos[1][2] = FALSE /\ Combos[1][3] = FALSE
      BY DEF Combos
    <2>2. 1 \in 1..7 /\ SameChoice(Combos[1], c)
      BY <1>2, <2>1 DEF SameChoice
    <2> QED BY <2>2
  <1>3. CASE c[1] = FALSE /\ c[2] = TRUE /\ c[3] = FALSE
    <2>1. Combos[2][1] = FALSE /\ Combos[2][2] = TRUE /\ Combos[2][3] = FALSE
      BY DEF Combos
    <2>2. 2 \in 1..7 /\ SameChoice(Combos[2], c)
      BY <1>3, <2>1 DEF SameChoice
    <2> QED BY <2>2
  <1>4. CASE c[1] = FALSE /\ c[2] = FALSE /\ c[3] = TRUE
    <2>1. Combos[3][1] = FALSE /\ Combos[3][2] = FALSE /\ Combos[3][3] = TRUE
      BY DEF Combos
    <2>2. 3 \in 1..7 /\ SameChoice(Combos[3], c)
      BY <1>4, <2>1 DEF SameChoice
    <2> QED BY <2>2
  <1>5. CASE c[1] = TRUE /\ c[2] = TRUE /\ c[3] = FALSE
    <2>1. Combos[4][1] = TRUE /\ Combos[4][2] = TRUE /\ Combos[4][3] = FALSE
      BY DEF Combos
    <2>2. 4 \in 1..7 /\ SameChoice(Combos[4], c)
      BY <1>5, <2>1 DEF SameChoice
    <2> QED BY <2>2
  <1>6. CASE c[1] = TRUE /\ c[2] = FALSE /\ c[3] = TRUE
    <2>1. Combos[5][1] = TRUE /\ Combos[5][2] = FALSE /\ Combos[5][3] = TRUE
      BY DEF Combos
    <2>2. 5 \in 1..7 /\ SameChoice(Combos[5], c)
      BY <1>6, <2>1 DEF SameChoice
    <2> QED BY <2>2
  <1>7. CASE c[1] = FALSE /\ c[2] = TRUE /\ c[3] = TRUE
    <2>1. Combos[6][1] = FALSE /\ Combos[6][2] = TRUE /\ Combos[6][3] = TRUE
      BY DEF Combos
    <2>2. 6 \in 1..7 /\ SameChoice(Combos[6], c)
      BY <1>7, <2>1 DEF SameChoice
    <2> QED BY <2>2
  <1>8. CASE c[1] = TRUE /\ c[2] = TRUE /\ c[3] = TRUE
    <2>1. Combos[7][1] = TRUE /\ Combos[7][2] = TRUE /\ Combos[7][3] = TRUE
      BY DEF Combos
    <2>2. 7 \in 1..7 /\ SameChoice(Combos[7], c)
      BY <1>8, <2>1 DEF SameChoice
    <2> QED BY <2>2
  <1> QED BY <1>1, <1>2, <1>3, <1>4, <1>5, <1>6, <1>7, <1>8

(* If none of the combinations can be translated, there is no translation. *)
LEMMA NoneReplaceable ==
    ASSUME NEW i, FindOK(Top, i), Top.pc = "choose", Len(stack) = 1,
           \A m \in 1..7 : ~ Replaceable(Top, Combos[m])
    PROVE  ~ Translatable(i)
  <1> SUFFICES ASSUME NEW c \in Replacing, TranslatableBy(i, c) PROVE FALSE
    BY DEF Translatable, Replacing
  <1>1. /\ Top.op = i.op /\ Top.result = i.result /\ Top.arg1 = i.arg1 /\ Top.arg2 = i.arg2
        /\ ~ Translates(i.op, i.result, i.arg1, i.arg2)
    BY DEF FindOK, Generating, Chosen
  <1>2. (c[1] => Top.has1) /\ (c[2] => Top.has2) /\ (c[3] => Top.hasr)
    BY DEF FindOK
  <1>3. CASE c[1] \/ c[2] \/ c[3]
    <2>1. PICK m \in 1..7 : SameChoice(Combos[m], c)
      BY <1>3, CombosAll
    <2>2. 0 - Len(stack) = -1
      OBVIOUS
    <2>3. Translates(i.op,
                     IF c[3] THEN Local("tmp_r", i.result.type) ELSE i.result,
                     IF c[1] THEN Local("tmp1", i.arg1.type) ELSE i.arg1,
                     IF c[2] THEN Local("tmp2", i.arg2.type) ELSE i.arg2)
      BY <2>2 DEF TranslatableBy, Replaced, Local
    <2>4. Replaceable(Top, Combos[m])
      BY <1>1, <1>2, <2>1, <2>3 DEF Replaceable, SameChoice
    <2> QED BY <2>4
  <1>4. CASE ~ (c[1] \/ c[2] \/ c[3])
    BY <1>1, <1>4 DEF TranslatableBy, Replaced
  <1> QED BY <1>3, <1>4

-----------------------------------------------------------------------------
\* What a step of InstrTranslate3 does while instruction i of the block is translated.
FindStep(i) ==
    /\ FindStack(stack', i)
    /\ stack' # <<>> => pos' = pos
    /\ errors' = errors \/ (errors' = errors \cup {pos} /\ ~ Translatable(i))

\* Where the proofs of the steps begin.
Finding(i) == IsStack(stack) /\ stack # <<>> /\ FindStack(stack, i) /\ Generated(i)

(* The top of the stack, when it is the call for i and when that waits for *)
(* it.                                                                     *)
LEMMA TopFinds ==
    ASSUME NEW i, Finding(i)
    PROVE  /\ IsCall(Top)
           /\ Len(stack) = 1 => FindOK(Top, i)
           /\ Len(stack) = 2 => Waiting(stack[2], Top, i)
           /\ Len(stack) = 2 /\ Top.pc # "direct" => Settled(stack[2], i)
  <1>1. IsCall(Top) /\ Top = stack[1]
    BY TopTyped DEF Finding
  <1>2. Len(stack) = 1 => FindOK(Top, i)
    BY <1>1 DEF Finding, FindStack
  <1>3. ASSUME Len(stack) = 2 PROVE Waiting(stack[2], Top, i)
    <2>1. Len(stack) > 1 /\ Len(stack) - 1 = 1
      BY <1>3
    <2> QED BY <1>1, <1>3, <2>1 DEF Finding, FindStack
  <1> QED BY <1>1, <1>2, <1>3, WaitingSettled

(* The three ways to go on, as steps: the top goes on, ...                 *)
LEMMA GotoStep ==
    ASSUME NEW i, Finding(i), NEW f, Goto(f), Inside,
           Len(stack) = 1 => FindOK(f, i),
           Len(stack) = 2 => Settled(stack[2], i)
    PROVE  FindStep(i)
  BY GotoFinds DEF Finding, FindStep, Inside

(* A call, ...                                                             *)
LEMMA CallsStep ==
    ASSUME NEW i, Finding(i), NEW f, NEW c, Calls(f, c), Inside,
           Len(stack) = 1 => FindOK(f, i) /\ Waiting(f, c, i),
           Len(stack) = 2 => Settled(stack[2], i)
    PROVE  FindStep(i)
  BY CallsFinds DEF Finding, FindStep, Inside

(* ... and a return.                                                       *)
LEMMA ReturnStep ==
    ASSUME NEW i, Finding(i), NEW answer \in BOOLEAN, Return(answer),
           Len(stack) = 1 => answer \/ ~ Translatable(i),
           Len(stack) = 2 => answer \/ Settled(stack[2], i)
    PROVE  FindStep(i)
  <1>1. FindStack(stack', i)
    BY ReturnFinds DEF Finding
  <1>2. Len(stack) = 1 \/ Len(stack) > 1
    <2>1. Len(stack) \in Nat \ {0}
      BY TopTyped DEF Finding
    <2> DEFINE n == Len(stack)
    <2> HIDE DEF n
    <2>2. n \in Nat \ {0} => n = 1 \/ n > 1
      OBVIOUS
    <2> QED BY <2>1, <2>2 DEF n
  <1>3. CASE Len(stack) > 1
    BY <1>1, <1>3 DEF Return, FindStep
  <1>4. CASE Len(stack) = 1
    BY <1>1, <1>4 DEF Return, FindStep
  <1> QED BY <1>2, <1>3, <1>4

-----------------------------------------------------------------------------
(* The steps of InstrTranslate3.                                           *)
LEMMA DirectFinds ==
    ASSUME NEW i, Finding(i), Direct
    PROVE  FindStep(i)
  <1> DEFINE f == [Top EXCEPT !.pc = "arg1", !.has1 = Complex(Top.arg1),
                              !.has2 = Complex(Top.arg2), !.hasr = Complex(Top.result)]
  <1>1. /\ IsCall(Top) /\ Top.pc = "direct"
        /\ Len(stack) = 1 => FindOK(Top, i)
        /\ Len(stack) = 2 => Waiting(stack[2], Top, i)
    BY TopFinds DEF Direct
  <1>2. CASE Translates(Top.op, Top.result, Top.arg1, Top.arg2)
    <2>1. Return(TRUE)
      BY <1>2 DEF Direct, Translates
    <2> QED BY <2>1, ReturnStep
  <1>3. CASE ~ Translates(Top.op, Top.result, Top.arg1, Top.arg2)
    <2>1. Goto(f) /\ Inside
      BY <1>3 DEF Direct, Translates
    <2>2. /\ f.op = Top.op /\ f.result = Top.result /\ f.arg1 = Top.arg1 /\ f.arg2 = Top.arg2
          /\ f.test = Top.test /\ f.bigger = Top.bigger
          /\ f.pc = "arg1" /\ f.has1 = Complex(Top.arg1) /\ f.has2 = Complex(Top.arg2)
          /\ f.hasr = Complex(Top.result)
      BY <1>1 DEF IsCall, CallFields
    <2> HIDE DEF f
    <2>3. ASSUME Len(stack) = 1 PROVE FindOK(f, i)
      <3>1. /\ Top.op = i.op /\ Top.result = i.result /\ Top.arg1 = i.arg1 /\ Top.arg2 = i.arg2
            /\ ~ Top.test /\ ~ Top.bigger
        BY <1>1, <2>3 DEF FindOK, Generating, Chosen
      <3> QED BY <1>3, <2>2, <3>1 DEF FindOK
    <2>4. Len(stack) = 2 => Settled(stack[2], i)
      BY <1>1, <1>3, WaitingSettled
    <2> QED BY <2>1, <2>3, <2>4, GotoStep
  <1> QED BY <1>2, <1>3

(* A question about i is asked, or is not worth asking.                    *)
LEMMA TestFinds ==
    ASSUME NEW i, Finding(i), NEW result, NEW arg, Inside, Top.pc # "direct",
           \/ TestLet(Top, result, arg)
           \/ Goto(Answered(Top, FALSE)) /\ (Len(stack) = 1 => Settled(Top, i)),
           NEW c, c = Call("let", result, arg, NoVar, TRUE, Top.bigger),
           Len(stack) = 1 => Requests(Top, c, i)
    PROVE  FindStep(i)
  <1>1. /\ IsCall(Top)
        /\ Len(stack) = 1 => FindOK(Top, i)
        /\ Len(stack) = 2 => Settled(stack[2], i)
    BY TopFinds
  <1>2. CASE TestLet(Top, result, arg)
    <2>1. Calls(Top, c)
      BY <1>2 DEF TestLet
    <2>2. Len(stack) = 1 => Waiting(Top, c, i)
      BY DEF Waiting
    <2> QED BY <1>1, <2>1, <2>2, CallsStep
  <1>3. CASE Goto(Answered(Top, FALSE)) /\ (Len(stack) = 1 => Settled(Top, i))
    <2>1. Len(stack) = 1 => FindOK(Answered(Top, FALSE), i)
      BY <1>1, <1>3, AnswerFinds
    <2> QED BY <1>1, <1>3, <2>1, GotoStep
  <1> QED BY <1>2, <1>3

(* The temporary variables of the call for i are those of Translatable.    *)
LEMMA BaseLocal ==
    ASSUME Len(stack) = 1, NEW var, NEW which
    PROVE  Local(which, var.type) = Replaced(var, TRUE, which)
  <1>1. 0 - Len(stack) = -1
    OBVIOUS
  <1> QED BY <1>1 DEF Local, Replaced

(* A new call has not begun.                                               *)
LEMMA NewCallAsks ==
    ASSUME NEW r, NEW a, NEW test, NEW bigger
    PROVE  AsksLet(Call("let", r, a, NoVar, test, bigger), r, a)
  BY DEF AsksLet, Call

(* The three questions: the first argument, ...                            *)
LEMMA Arg1Finds ==
    ASSUME NEW i, Finding(i), Arg1Test
    PROVE  FindStep(i)
  <1> DEFINE v == Local("tmp1", Top.arg1.type)
             c == Call("let", v, Top.arg1, NoVar, TRUE, Top.bigger)
             Left == \/ ~ Top.has1
                     \/ Top.op = "let" /\ ~ Top.hasr /\ Top.result.type = Top.arg1.type
  <1>1. Top.pc = "arg1" /\ Inside /\ (Len(stack) = 1 => FindOK(Top, i)) /\ IsCall(Top)
    BY TopFinds DEF Arg1Test
  <1>2. TestLet(Top, v, Top.arg1) \/ (Goto(Answered(Top, FALSE)) /\ Left)
    BY DEF Arg1Test
  <1>3. ASSUME Len(stack) = 1
        PROVE  /\ Top.op = i.op /\ Top.result = i.result /\ Top.arg1 = i.arg1
               /\ Top.has1 = Complex(i.arg1) /\ Top.hasr = Complex(i.result)
               /\ ~ Translates(i.op, i.result, i.arg1, i.arg2)
    BY <1>1, <1>3 DEF FindOK, Generating, Chosen
  <1>4. Left /\ Len(stack) = 1 => Settled(Top, i)
    BY <1>1, <1>3, Arg1LeftOut DEF Settled, Finding
  <1>5. Len(stack) = 1 => Requests(Top, c, i)
    BY <1>1, <1>3, BaseLocal, NewCallAsks DEF Requests
  <1> HIDE DEF v, Left
  <1> QED BY <1>1, <1>2, <1>4, <1>5, TestFinds

(* ... the second one, ...                                                 *)
LEMMA Arg2Finds ==
    ASSUME NEW i, Finding(i), Arg2Test
    PROVE  FindStep(i)
  <1> DEFINE v == Local("tmp2", Top.arg2.type)
             c == Call("let", v, Top.arg2, NoVar, TRUE, Top.bigger)
             Left == \/ ~ Top.has2
                     \/ Top.op = "let" /\ ~ Top.hasr /\ Top.result.type = Top.arg2.type
  <1>1. Top.pc = "arg2" /\ Inside /\ (Len(stack) = 1 => FindOK(Top, i)) /\ IsCall(Top)
    BY TopFinds DEF Arg2Test
  <1>2. TestLet(Top, v, Top.arg2) \/ (Goto(Answered(Top, FALSE)) /\ Left)
    BY DEF Arg2Test
  <1>3. ASSUME Len(stack) = 1
        PROVE  /\ Top.op = i.op /\ Top.arg2 = i.arg2 /\ Top.has2 = Complex(i.arg2)
    BY <1>1, <1>3 DEF FindOK, Generating, Chosen
  <1>4. Left /\ Len(stack) = 1 => Settled(Top, i)
    BY <1>1, <1>3, Arg2LeftOut DEF Settled, Finding
  <1>5. Len(stack) = 1 => Requests(Top, c, i)
    BY <1>1, <1>3, BaseLocal, NewCallAsks DEF Requests
  <1> HIDE DEF v, Left
  <1> QED BY <1>1, <1>2, <1>4, <1>5, TestFinds

(* ... the result, ...                                                     *)
LEMMA ResultFinds ==
    ASSUME NEW i, Finding(i), ResultTest
    PROVE  FindStep(i)
  <1> DEFINE v == Local("tmp_r", Top.result.type)
             c == Call("let", Top.result, v, NoVar, TRUE, Top.bigger)
             Left == \/ ~ Top.hasr
                     \/ Top.op = "let" /\ Top.arg1.mode = "var" /\ Top.arg1.type = Top.result.type
  <1>1. Top.pc = "result" /\ Inside /\ (Len(stack) = 1 => FindOK(Top, i)) /\ IsCall(Top)
    BY TopFinds DEF ResultTest
  <1>2. TestLet(Top, Top.result, v) \/ (Goto(Answered(Top, FALSE)) /\ Left)
    BY DEF ResultTest
  <1>3. ASSUME Len(stack) = 1
        PROVE  /\ Top.op = i.op /\ Top.result = i.result /\ Top.arg1 = i.arg1
               /\ Top.hasr = Complex(i.result)
               /\ ~ Translates(i.op, i.result, i.arg1, i.arg2)
    BY <1>1, <1>3 DEF FindOK, Generating, Chosen
  <1>4. Left /\ Len(stack) = 1 => Settled(Top, i)
    BY <1>1, <1>3, ResultLeftOut DEF Settled, Finding
  <1>5. Len(stack) = 1 => Requests(Top, c, i)
    BY <1>1, <1>3, BaseLocal, NewCallAsks DEF Requests
  <1> HIDE DEF v, Left
  <1> QED BY <1>1, <1>2, <1>4, <1>5, TestFinds

(* ... the choice, ...                                                     *)
LEMMA ChooseFinds ==
    ASSUME NEW i, Finding(i), Choose
    PROVE  FindStep(i)
  <1> DEFINE k == SelectInSeq(Combos, LAMBDA c : Replaceable(Top, c))
             f == [Top EXCEPT !.pc = "load1", !.to = Top.result.type, !.has1 = Combos[k][1],
                              !.has2 = Combos[k][2], !.hasr = Combos[k][3]]
             g == [Top EXCEPT !.pc = "bigger", !.to = Top.result.type]
  <1>1. \/ k = 0 /\ (\A m \in 1..7 : ~ Replaceable(Top, Combos[m]))
        \/ k \in 1..7
    BY ComboChosen
  <1> HIDE DEF k
  <1>2. /\ Top.pc = "choose" /\ IsCall(Top)
        /\ Len(stack) = 1 => FindOK(Top, i)
        /\ Len(stack) = 2 => Settled(stack[2], i)
    BY TopFinds DEF Choose
  <1>3. \/ k # 0 /\ Goto(f) /\ Inside
        \/ k = 0 /\ Goto(g) /\ Inside
        \/ k = 0 /\ Return(FALSE)
    BY DEF Choose, k
  <1>4. CASE k # 0 /\ Goto(f) /\ Inside
    <2>1. /\ f.op = Top.op /\ f.result = Top.result /\ f.arg1 = Top.arg1 /\ f.arg2 = Top.arg2
          /\ f.test = Top.test /\ f.bigger = Top.bigger /\ f.pc = "load1"
      BY <1>2 DEF IsCall, CallFields
    <2> HIDE DEF f
    <2>2. Len(stack) = 1 => FindOK(f, i)
      BY <1>2, <2>1 DEF FindOK, Generating, Chosen
    <2> QED BY <1>2, <1>4, <2>2, GotoStep
  <1>5. k = 0 /\ Len(stack) = 1 => ~ Translatable(i)
    BY <1>1, <1>2, NoneReplaceable
  <1>6. CASE k = 0 /\ Goto(g) /\ Inside
    <2>1. /\ g.op = Top.op /\ g.result = Top.result /\ g.arg1 = Top.arg1 /\ g.arg2 = Top.arg2
          /\ g.test = Top.test /\ g.bigger = Top.bigger /\ g.pc = "bigger"
      BY <1>2 DEF IsCall, CallFields
    <2> HIDE DEF g
    <2>2. Len(stack) = 1 => FindOK(g, i)
      BY <1>2, <1>5, <1>6, <2>1 DEF FindOK, Generating, Chosen
    <2> QED BY <1>2, <1>6, <2>2, GotoStep
  <1>7. CASE k = 0 /\ Return(FALSE)
    BY <1>2, <1>5, <1>7, ReturnStep
  <1> QED BY <1>3, <1>4, <1>6, <1>7

(* ... and a bigger result, which is tried when there is no translation.   *)
LEMMA BiggerFinds ==
    ASSUME NEW i, Finding(i), Bigger \/ Widen
    PROVE  FindStep(i)
  <1>1. /\ Top.pc \in {"bigger", "widen"} /\ IsCall(Top)
        /\ Len(stack) = 1 => FindOK(Top, i) /\ ~ Translatable(i)
        /\ Len(stack) = 2 => Settled(stack[2], i)
    <2>1. Top.pc \in {"bigger", "widen"}
      BY DEF Bigger, Widen
    <2>2. /\ IsCall(Top)
          /\ Len(stack) = 1 => FindOK(Top, i)
          /\ Len(stack) = 2 => Settled(stack[2], i)
      BY <2>1, TopFinds
    <2>3. Len(stack) = 1 => ~ Translatable(i)
      BY <2>1, <2>2 DEF FindOK
    <2> QED BY <2>1, <2>2, <2>3
  <1>2. CASE Bigger
    <2> DEFINE t == TypeBiggerType(Top.op, Top.to)
               f == [Top EXCEPT !.pc = "narrow", !.to = t]
               c == Call("let", Top.result, Local("tmp_r", t), NoVar, TRUE, f.bigger)
    <2> HIDE DEF t
    <2>1. Return(FALSE) \/ (Calls(f, c) /\ Inside)
      BY <1>2 DEF Bigger, TestLet, t
    <2>2. /\ f.op = Top.op /\ f.result = Top.result /\ f.arg1 = Top.arg1 /\ f.arg2 = Top.arg2
          /\ f.test = Top.test /\ f.bigger = Top.bigger /\ f.pc = "narrow"
      BY <1>1 DEF IsCall, CallFields
    <2> HIDE DEF f, c
    <2>3. CASE Return(FALSE)
      BY <1>1, <2>3, ReturnStep
    <2>4. CASE Calls(f, c) /\ Inside
      <3>1. Len(stack) = 1 => FindOK(f, i)
        BY <1>1, <2>2 DEF FindOK, Generating, Chosen
      <3>2. Waiting(f, c, i)
        BY <2>2 DEF Waiting, Settled
      <3> QED BY <1>1, <2>4, <3>1, <3>2, CallsStep
    <2> QED BY <2>1, <2>3, <2>4
  <1>3. CASE Widen
    <2> DEFINE f == [Top EXCEPT !.pc = "compute"]
               c == Call(Top.op, Local("tmp_r", Top.to), Top.arg1, Top.arg2, TRUE, TRUE)
    <2>1. Calls(f, c) /\ Inside
      BY <1>3 DEF Widen
    <2>2. /\ f.op = Top.op /\ f.result = Top.result /\ f.arg1 = Top.arg1 /\ f.arg2 = Top.arg2
          /\ f.test = Top.test /\ f.bigger = Top.bigger /\ f.pc = "compute"
      BY <1>1 DEF IsCall, CallFields
    <2> HIDE DEF f, c
    <2>3. Len(stack) = 1 => FindOK(f, i)
      BY <1>1, <2>2 DEF FindOK, Generating, Chosen
    <2>4. Waiting(f, c, i)
      BY <2>2 DEF Waiting, Settled
    <2> QED BY <1>1, <2>1, <2>3, <2>4, CallsStep
  <1> QED BY <1>2, <1>3

(* A translation has been chosen: the answer is yes, whatever the steps are*)
(* that generate it.                                                       *)
LEMMA GenerateFinds ==
    ASSUME NEW i, Finding(i), Load1 \/ Load2 \/ Operate \/ Store \/ Stored
    PROVE  FindStep(i)
  <1> DEFINE a == VarNewTmp(Top.arg1.type)
             b == VarNewTmp(Top.arg2.type)
             r == IF Top.hasr THEN VarNewTmp(Top.to) ELSE Top.result
             f1 == [Top EXCEPT !.pc = "load2", !.arg1 = a]
             f2 == [Top EXCEPT !.pc = "load2"]
             f3 == [Top EXCEPT !.pc = "operate", !.arg2 = b]
             f4 == [Top EXCEPT !.pc = "operate"]
             f5 == [Top EXCEPT !.pc = "store", !.tmp = r]
             f6 == [Top EXCEPT !.pc = "stored"]
             Later(f) == /\ f.op = Top.op /\ f.result = Top.result
                         /\ f.test = Top.test /\ f.bigger = Top.bigger
                         /\ f.pc \in Generating
  <1>1. Top.pc \in Chosen /\ Top.pc # "direct"
    BY DEF Load1, Load2, Operate, Store, Stored, Chosen
  <1>2. /\ IsCall(Top)
        /\ Len(stack) = 1 => FindOK(Top, i)
        /\ Len(stack) = 2 => Settled(stack[2], i)
    BY <1>1, TopFinds
  <1> HIDE DEF a, b, r
  <1>3. \/ Return(TRUE)
        \/ \E f \in {f1, f2, f3, f4, f5, f6} :
              Inside /\ (Goto(f) \/ \E c : Calls(f, c))
    BY DEF Load1, Load2, Operate, Store, Stored, Generate, a, b, r
  <1>4. \A f \in {f1, f2, f3, f4, f5, f6} : Later(f)
    BY <1>2 DEF IsCall, CallFields, Generating, Chosen
  <1> HIDE DEF f1, f2, f3, f4, f5, f6
  <1>5. CASE Return(TRUE)
    BY <1>5, ReturnStep
  <1>6. ASSUME NEW f \in {f1, f2, f3, f4, f5, f6}, Inside, Goto(f) \/ \E c : Calls(f, c)
        PROVE  FindStep(i)
    <2>1. Later(f)
      BY <1>4, <1>6
    <2> HIDE DEF Later
    <2>2. Len(stack) = 1 => FindOK(f, i)
      BY <1>2, <2>1 DEF Later, FindOK, Generating, Chosen
    <2>3. \A c : Waiting(f, c, i)
      BY <2>1 DEF Later, Waiting, Settled, Generating, Chosen
    <2>4. CASE Goto(f)
      BY <1>2, <1>6, <2>2, <2>4, GotoStep
    <2>5. CASE \E c : Calls(f, c)
      BY <1>2, <1>6, <2>2, <2>3, <2>5, CallsStep
    <2> QED BY <1>6, <2>4, <2>5
  <1> QED BY <1>3, <1>5, <1>6

(* All the stages together.                                                *)
LEMMA InstrFinds ==
    ASSUME NEW i, Finding(i), InstrTranslate3
    PROVE  FindStep(i)
  BY DirectFinds, Arg1Finds, Arg2Finds, ResultFinds, ChooseFinds, BiggerFinds, GenerateFinds
     DEF InstrTranslate3

-----------------------------------------------------------------------------
(* What can be translated changes with the rules only.                     *)
LEMMA SameRules ==
    ASSUME rules' = rules
    PROVE  /\ \A i : Translatable(i)' <=> Translatable(i)
           /\ \A stk, i : FindStack(stk, i)' <=> FindStack(stk, i)
  <1>1. \A op, r, a, b : Translates(op, r, a, b)' <=> Translates(op, r, a, b)
    BY DEF Translates, InstrTranslate2, InstrTranslate, FindRule, SelectInSeq
  <1>2. \A i, c : TranslatableBy(i, c)' <=> TranslatableBy(i, c)
    BY <1>1 DEF TranslatableBy, CanLoad, CanStore
  <1>3. \A i : Translatable(i)' <=> Translatable(i)
    BY <1>2 DEF Translatable
  <1>4. \A f, i : FindOK(f, i)' <=> FindOK(f, i)
    BY <1>1, <1>2, <1>3 DEF FindOK
  <1>5. \A f, g, i : Waiting(f, g, i)' <=> Waiting(f, g, i)
    <2>1. \A f, i : Settled(f, i)' <=> Settled(f, i)
      BY <1>2 DEF Settled
    <2>2. \A f, g, i : Requests(f, g, i)' <=> Requests(f, g, i)
      OBVIOUS
    <2> QED BY <2>1, <2>2 DEF Waiting
  <1> QED BY <1>3, <1>4, <1>5 DEF FindStack

\* The inductive invariant.
FindInv ==
    /\ Parsing => stack = <<>> /\ errors = {}
    /\ stack # <<>> => FindStack(stack, block[pos])
    /\ FindsTranslation

(* The invariant holds at the beginning, ...                               *)
LEMMA FindInit ==
    ASSUME Init
    PROVE  FindInv
  BY DEF Init, TransInit, FindInv, FindsTranslation

(* ... and every step keeps it.                                            *)
LEMMA FindNext ==
    ASSUME InputTyped, WalkTyped, FindInv, [Next]_vars
    PROVE  FindInv'
  <1>1. CASE ParseRule
    <2>1. stack' = <<>> /\ errors' = {}
      BY <1>1 DEF ParseRule, transVars, FindInv
    <2> QED BY <2>1 DEF FindInv, FindsTranslation
  <1>2. CASE UNCHANGED vars \/ SkipAssert
    <2>1. UNCHANGED <<rules, line_no, file, block, stack, errors>> /\ (stack # <<>> => pos' = pos)
      BY <1>2 DEF vars, ruleVars, transVars, SkipAssert, Running
    <2>2. /\ \A i : Translatable(i)' <=> Translatable(i)
          /\ \A stk, i : FindStack(stk, i)' <=> FindStack(stk, i)
      BY <2>1, SameRules
    <2> QED BY <2>1, <2>2 DEF FindInv, FindsTranslation, Parsing
  <1>3. CASE NextInstr
    <2> DEFINE i == block[pos]
               c == Call(i.op, i.result, i.arg1, i.arg2, FALSE, FALSE)
    <2>1. UNCHANGED <<rules, line_no, file, block, errors, pos>> /\ stack' = <<c>> /\ ~ Parsing
      BY <1>3 DEF NextInstr, Running, Quiet, Inside, ruleVars
    <2>2. /\ \A j : Translatable(j)' <=> Translatable(j)
          /\ \A stk, j : FindStack(stk, j)' <=> FindStack(stk, j)
      BY <2>1, SameRules
    <2>3. /\ c.op = i.op /\ c.result = i.result /\ c.arg1 = i.arg1 /\ c.arg2 = i.arg2
          /\ c.test = FALSE /\ c.bigger = FALSE /\ c.pc = "direct"
      BY DEF Call
    <2> HIDE DEF c
    <2>4. FindOK(c, i)
      BY <2>3 DEF FindOK, Generating, Chosen
    <2>5. Len(stack') = 1 /\ stack'[1] = c
      BY <2>1
    <2>6. FindStack(stack', i)
      BY <2>4, <2>5 DEF FindStack
    <2>7. FindStack(stack, block[pos])'
      BY <2>1, <2>2, <2>6
    <2> QED BY <2>1, <2>2, <2>7 DEF FindInv, FindsTranslation, Parsing
  <1>4. CASE InstrTranslate3
    <2> DEFINE i == block[pos]
    <2>1. UNCHANGED <<ruleVars, file, block>> /\ stack # <<>>
      BY <1>4, InstrWalks DEF InstrTranslate3, Direct, Arg1Test, Arg2Test, ResultTest, Choose,
            Bigger, Widen, Load1, Load2, Operate, Store, Stored
    <2>2. /\ \A j : Translatable(j)' <=> Translatable(j)
          /\ \A stk, j : FindStack(stk, j)' <=> FindStack(stk, j)
      BY <2>1, SameRules DEF ruleVars
    <2>3. Finding(i)
      <3>1. pos \in 1..Len(block) /\ block \in Seq(ToSet(block))
        <4>1. Len(block) \in Nat /\ block \in Seq(ToSet(block))
          BY DEF InputTyped
        <4>2. pos \in 1..(Len(block) + 1) /\ pos <= Len(block)
          BY <2>1 DEF WalkTyped
        <4> QED BY <4>1, <4>2
      <3>2. i \in ToSet(block)
        BY <3>1
      <3> QED BY <2>1, <3>2 DEF Finding, InputTyped, WalkTyped, FindInv
    <2>4. FindStep(i)
      BY <1>4, <2>3, InstrFinds
    <2>5. (stack # <<>> => FindStack(stack, block[pos]))'
      BY <2>1, <2>2, <2>4 DEF FindStep
    <2>6. FindsTranslation'
      <3>1. \A k \in errors' : ~ Translatable(block[k])
        BY <2>4 DEF FindStep, FindInv, FindsTranslation
      <3> QED BY <2>1, <2>2, <3>1 DEF FindsTranslation
    <2>7. ~ Parsing'
      BY <2>1 DEF FindInv, Parsing, ruleVars
    <2> QED BY <2>5, <2>6, <2>7 DEF FindInv
  <1> QED BY <1>1, <1>2, <1>3, <1>4 DEF Next

(* No instruction is reported as unsupported although a translation with   *)
(* LETs around it exists, whatever the rules and the block are: the order  *)
(* of the attempts in InstrTranslate3 and the tests it leaves out lose     *)
(* none.                                                                   *)
THEOREM TranslationFound == Spec => []FindsTranslation
  <1> DEFINE Inv == InputTyped /\ WalkTyped /\ FindInv
  <1>1. Init => Inv
    BY TypesInit, FindInit
  <1>2. Inv /\ [Next]_vars => Inv'
    BY TypesNext, FindNext
  <1>3. Inv => FindsTranslation
    BY DEF FindInv
  <1> QED BY <1>1, <1>2, <1>3, PTL DEF Spec
-----------------------------------------------------------------------------
(* Seen from the lists of rules every step is one of the parser or none.   *)
LEMMA ImplementsStep ==
    ASSUME InputTyped, WalkTyped, [Next]_vars
    PROVE  [RulesNext]_ruleVars
  <1>1. CASE ParseRule
    <2> DEFINE r == file[line_no + 1]
    <2>1. line_no + 1 \in 1..Len(file)
      <3>1. line_no < Len(file)
        BY <1>1 DEF ParseRule, Parsing
      <3>2. line_no \in Nat /\ Len(file) \in Nat
        BY PatternAssumption DEF InputTyped, WalkTyped
      <3> QED BY <3>1, <3>2
    <2>2. r \in FileRule
      BY <2>1 DEF InputTyped
    <2>3. IF r.to = "" THEN EmptyRule ELSE RuleRegister(r.op, r.arg, r.to)
      BY <1>1 DEF ParseRule
    <2>4. r.op \in Op /\ r.arg \in [1..3 -> Pattern] /\ (r.to # "" => r.to \in Sets)
      BY <2>2 DEF FileRule
    <2> HIDE DEF r
    <2> QED BY <2>3, <2>4 DEF RulesNext
  <1>2. CASE UNCHANGED vars \/ SkipAssert \/ NextInstr
    BY <1>2 DEF vars, transVars, ruleVars, SkipAssert, NextInstr, Quiet
  <1>3. CASE InstrTranslate3
    BY <1>3, InstrWalks
  <1> QED BY <1>1, <1>2, <1>3 DEF Next

(* Translate implements RuleSet: whatever is translated, the lists of      *)
(* rules are what the parser has made of a file, and translation only      *)
(* reads them.                                                             *)
THEOREM TranslateImplementsRules == Spec => RulesSpec
  <1> DEFINE Inv == InputTyped /\ WalkTyped
  <1>1. Init => Inv /\ RulesInit
    BY TypesInit DEF Init
  <1>2. Inv /\ [Next]_vars => Inv' /\ [RulesNext]_ruleVars
    BY TypesNext, ImplementsStep
  <1> QED BY <1>1, <1>2, PTL DEF Spec, RulesSpec

-----------------------------------------------------------------------------
\* The rule that is used for an instruction goes before every other rule that fits it.
MostSpecific ==
    \A set \in Sets : \A i : i.op \in Op /\ FindRule(set, i) # <<>> =>
       \E k \in 1..Len(rules[set][i.op]) :
          LET list == rules[set][i.op] IN
          /\ FindRule(set, i) = <<list[k]>>
          /\ RuleMatch(list[k], i)
          /\ \A n \in 1..Len(list) : RuleMatch(list[n], i) /\ n # k => Precedes(list[k], list[n])

(* The first rule that fits, in a list that is in order.                   *)
LEMMA FirstIsMostSpecific ==
    ASSUME Ordered
    PROVE  MostSpecific
  <1> SUFFICES ASSUME NEW set \in Sets, NEW i, i.op \in Op, FindRule(set, i) # <<>>
               PROVE  \E k \in 1..Len(rules[set][i.op]) :
                         LET list == rules[set][i.op] IN
                         /\ FindRule(set, i) = <<list[k]>>
                         /\ RuleMatch(list[k], i)
                         /\ \A n \in 1..Len(list) :
                               RuleMatch(list[n], i) /\ n # k => Precedes(list[k], list[n])
    BY DEF MostSpecific
  <1> DEFINE list == rules[set][i.op]
             I    == {n \in 1..Len(list) : RuleMatch(list[n], i)}
             k    == IF I # {} THEN Min(I) ELSE 0
  <1>1. FindRule(set, i) = IF k = 0 THEN <<>> ELSE <<list[k]>>
    BY DEF FindRule, SelectInSeq
  <1>2. I # {}
    BY <1>1
  <1>3. k \in I /\ \A n \in I : k <= n
    <2>1. I \subseteq Nat
      OBVIOUS
    <2>2. \E m \in I : \A n \in I : m <= n
      BY <1>2, <2>1, NatMinimum
    <2> QED BY <1>2, <2>2 DEF Min
  <1>4. FindRule(set, i) = <<list[k]>> /\ k \in 1..Len(list) /\ RuleMatch(list[k], i)
    <2> HIDE DEF k
    <2> QED BY <1>1, <1>3
  <1>5. ASSUME NEW n \in 1..Len(list), RuleMatch(list[n], i), n # k
        PROVE  Precedes(list[k], list[n])
    <2>1. n \in I
      BY <1>5
    <2> HIDE DEF k
    <2>2. k \in Int /\ n \in Int
      BY <1>4
    <2> HIDE DEF I
    <2>4. k <= n
      BY <1>3, <2>1
    <2>3. k < n
      BY <1>5, <2>2, <2>4
    <2> QED BY <1>4, <2>3 DEF Ordered
  <1> HIDE DEF k
  <1> QED BY <1>4, <1>5

(* Which rule translates an instruction does not depend on the order in    *)
(* which rules that differ in how specific they are stand in the file: it  *)
(* is a rule that is more specific than every other one that fits, or was  *)
(* read before it when neither is.  (For files in which constants and      *)
(* bytes of variables do not meet; FindRule takes the first rule that      *)
(* fits, and RuleSetAddRule keeps the lists in order.)                     *)
THEOREM RuleMostSpecific ==
    ASSUME ConstsWithoutBytes
    PROVE  Spec => []MostSpecific
  <1>1. Spec => []Ordered
    BY TranslateOrdered
  <1>2. Ordered => MostSpecific
    BY FirstIsMostSpecific
  <1> QED BY <1>1, <1>2, PTL

=============================================================================
