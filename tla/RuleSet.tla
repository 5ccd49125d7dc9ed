------------------------------- MODULE RuleSet -------------------------------
(***************************************************************************)
(* The rule sets of translate.c and gen.c.  A rule rewrites one            *)
(* instruction; the rules of one operation are a list, and the first rule  *)
(* of the list that matches is the one used.  A rule is put into the list  *)
(* where RuleIsMoreSpecific, a comparison that leaves many rules           *)
(* undecided, first says that it goes before another one.                  *)
(***************************************************************************)
EXTENDS Integers, Sequences, SequencesExt

CONSTANTS
    Op,         \* operations of instructions
    Pattern,    \* what a rule may say of an argument: records with a variant
    MaxRules    \* bound: rules in the files that are parsed

\* RuleArgVariant (RULE_ANY is what an argument that is not given gets).
Variants == {"any", "variable", "const", "register", "variant", "deref", "arg", "element",
             "tuple", "range", "byte", "bit", "sub", "add", "mul", "div", "and", "or", "xor",
             "destination"}

ASSUME PatternAssumption ==
    /\ \A p \in Pattern : p.variant \in Variants
    /\ MaxRules \in Nat

\* The list a rule belongs to: INSTR_RULES (its body is EMIT), TRANSLATE_RULES, GEN_RULES.
Sets == {"emit", "instr", "macro"}

\* A rule; line is the line it was read from.
Rule == [op : Op, arg : [1..3 -> Pattern], to : Sets, line : 1..MaxRules]

VARIABLES
    rules,      \* the lists: rules[set][op]
    line_no     \* rules that the parser has read

ruleVars == <<rules, line_no>>

-----------------------------------------------------------------------------

RuleArgIsRegister(p) == p.variant \in {"register", "variant"}

RuleArgIsMoreSpecific(l, r) ==
    /\ ~ RuleArgIsRegister(r)
    /\ \/ RuleArgIsRegister(l)
       \/ l.variant = "const" /\ r.variant # "const"
       \/ l.variant = "byte" /\ r.variant # "byte"

\* The first argument in which one of the rules is more specific decides, l is asked first.
RuleIsMoreSpecific(l, r) ==
    \E i \in 1..3 :
       /\ RuleArgIsMoreSpecific(l.arg[i], r.arg[i])
       /\ \A j \in 1..(i - 1) : /\ ~ RuleArgIsMoreSpecific(l.arg[j], r.arg[j])
                                /\ ~ RuleArgIsMoreSpecific(r.arg[j], l.arg[j])

\* Mutant of Place: the new rule goes before the rules that are equally specific.
PlaceBeforeEqual(list, rule) ==
    CHOOSE k \in 1..(Len(list) + 1) :
       /\ k <= Len(list) => ~ RuleIsMoreSpecific(list[k], rule)
       /\ \A j \in 1..(k - 1) : RuleIsMoreSpecific(list[j], rule)

\* The index at which the rule is linked in: that of the first rule it is more specific than.
Place(list, rule) ==
    CHOOSE k \in 1..(Len(list) + 1) :
       /\ k <= Len(list) => RuleIsMoreSpecific(rule, list[k])
       /\ \A j \in 1..(k - 1) : ~ RuleIsMoreSpecific(rule, list[j])

RuleSetAddRule(list, rule) == InsertAt(list, Place(list, rule), rule)

-----------------------------------------------------------------------------

RulesInit ==
    /\ rules = [set \in Sets |-> [op \in Op |-> <<>>]]
    /\ line_no = 0

\* A rule without a body is an error and is not kept.
EmptyRule ==
    /\ line_no < MaxRules
    /\ line_no' = line_no + 1
    /\ UNCHANGED rules

\* ParseRule has read a rule: a macro rule goes to GEN_RULES, others where their body says.
RuleRegister(op, arg, to) ==
    /\ line_no < MaxRules
    /\ line_no' = line_no + 1
    /\ rules' = [rules EXCEPT ![to][op] =
                    RuleSetAddRule(@, [op |-> op, arg |-> arg, to |-> to, line |-> line_no + 1])]

RulesNext ==
    \/ EmptyRule
    \/ \E op \in Op, arg \in [1..3 -> Pattern], to \in Sets : RuleRegister(op, arg, to)

RulesSpec == RulesInit /\ [][RulesNext]_ruleVars

-----------------------------------------------------------------------------

\* Whether l stands before r where the list is in order: the more specific rule is first, and
\* of two rules that are equally specific the one that was read first.
Precedes(l, r) ==
    \/ RuleIsMoreSpecific(l, r)
    \/ ~ RuleIsMoreSpecific(r, l) /\ l.line < r.line

\* In a file of rules that has this property RuleIsMoreSpecific is an order.  (A constant is more
\* specific than a byte of a variable and the other way round.)
ConstsWithoutBytes == \A p \in Pattern, q \in Pattern : ~ (p.variant = "const" /\ q.variant = "byte")

\* The lists are in order: which
\* rule is chosen does not depend on the order of rules that differ in how specific they are.
\* It is about RuleSetAddRule, which compares the new rule with the rules before its place
\* only, by a comparison that is not an order when constants and bytes meet.
Ordered ==
    \A set \in Sets, op \in Op :
       LET list == rules[set][op] IN
       \A j \in 1..Len(list), i \in 1..Len(list) : i < j => Precedes(list[i], list[j])
=============================================================================
