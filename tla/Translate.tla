------------------------------ MODULE Translate ------------------------------
(***************************************************************************)
(* ProcTranslate: every instruction of a block is replaced by what the     *)
(* rules make of it.  When no rule fits, InstrTranslate3 tries to load     *)
(* arguments into temporary variables, to store the result from one, and   *)
(* at last to compute a bigger result; it calls itself to find out whether *)
(* the LET instructions this takes can be translated in turn.  The C stack *)
(* of these calls is the variable stack.                                   *)
(*                                                                         *)
(* A type is the set of integers in its range.  The body of a rule is      *)
(* taken to compute the instruction the rule is for.                       *)
(***************************************************************************)
EXTENDS RuleSet, FiniteSets, FiniteSetsExt

CONSTANTS
    Units,      \* what is translated: rules (a sequence of [op, arg, to]), a block, asserts_off
    TINT,       \* the type of integer constants
    ByteRange   \* values of one byte

\* A rule of a file; to is "" if it has no body.
FileRule == [op : Op, arg : [1..3 -> Pattern], to : Sets \cup {""}]

\* The type of a pattern that names none (NULL).
AnyType == {}

\* A variable, element of an array, constant or label; n is the number of a constant or a temporary variable.
VarMode == {"var", "elem", "int", "label"}
NoVar   == [mode |-> "none", type |-> {}, name |-> "", n |-> 0]

\* An instruction the parser generates: it has no temporary variables of the translation, and
\* LET has one argument, which goes to a variable or an element.
Generated(i) ==
    /\ \A var \in {i.result, i.arg1, i.arg2} :
          var # NoVar => var.mode \in VarMode /\ (var.mode = "var" => var.n = 0)
    /\ i.op = "let" => i.result.mode \in {"var", "elem"} /\ i.arg1 # NoVar /\ i.arg2 = NoVar

ASSUME UnitsAssumption ==
    \A unit \in Units :
       /\ unit.rules \in Seq(FileRule) /\ Len(unit.rules) <= MaxRules
       /\ unit.block \in Seq(ToSet(unit.block))
       /\ \A i \in ToSet(unit.block) : Generated(i)
       /\ unit.asserts_off \in BOOLEAN

\* An instruction whose three arguments are given.
Instr(op, result, arg1, arg2) == [op |-> op, result |-> result, arg1 |-> arg1, arg2 |-> arg2]

Branches     == {"ifeq", "ifne", "iflt", "ifge", "ifgt", "ifle"}
Commutative  == {"add", "mul", "and", "or", "xor"}

\* Mutant of OpRelSwap: the opposite condition, for arguments in the other order.
OpRelNot(op) ==
    CASE op = "ifle" -> "ifgt" [] op = "ifgt" -> "ifle"
      [] op = "iflt" -> "ifge" [] op = "ifge" -> "iflt" [] OTHER -> op

OpRelSwap(op) ==
    CASE op = "ifle" -> "ifge" [] op = "ifge" -> "ifle"
      [] op = "ifgt" -> "iflt" [] op = "iflt" -> "ifgt" [] OTHER -> op

VARIABLES
    file, block,        \* the file of rules, the instructions of the block
    asserts_off,        \* ASSERTS_OFF
    pos, in_assert,     \* index of the instruction i, whether it is part of an assertion
    stack,              \* calls of InstrTranslate3, the latest first
    out,                \* instructions generated
    temps,              \* number of variables made by VarNewTmp
    errors              \* instructions reported as unsupported

transVars == <<file, block, asserts_off, pos, in_assert, stack, out, temps, errors>>
vars      == <<ruleVars, transVars>>

-----------------------------------------------------------------------------
\* Types and matching

\* TypeSize looks at the higher end of the range only, when the lower one is negative.
TypeSize(type) == CHOOSE s \in 1..4 : /\ s < 4 => \A v \in type : v < ByteRange^s
                                      /\ s > 1 => \E v \in type : v >= ByteRange^(s - 1)

VarMatchesType(var, type) ==
    \/ type = AnyType \/ var.type = type
    \/ var.mode = "int" /\ var.n \in type
    \/ var.mode = "var" /\ var.type \subseteq type /\ TypeSize(type) <= TypeSize(var.type)

ArgMatch(p, arg) ==
    \/ p.variant = "any"
    \/ /\ arg # NoVar
       /\ \/ p.variant = "const" /\ arg.mode = "int" /\ VarMatchesType(arg, p.type)
          \/ p.variant = "register" /\ arg.mode = "int" /\ arg.n \in p.type
          \/ p.variant = "variable" /\ arg.mode = "var" /\ VarMatchesType(arg, p.type)
          \/ p.variant = "element" /\ arg.mode = "elem" /\ arg.type = p.type
          \/ p.variant = "arg" /\ arg.mode # "elem" /\ VarMatchesType(arg, p.type)

\* A macro argument that a rule uses twice must be the same variable both times.
RuleMatch(rule, i) ==
    LET arg == <<i.result, i.arg1, i.arg2>> IN
    /\ rule.op = i.op
    /\ \A k \in 1..3 : ArgMatch(rule.arg[k], arg[k])
    /\ \A k \in 1..3, l \in 1..3 :
          rule.arg[k].no = rule.arg[l].no /\ rule.arg[k].no # 0 => arg[k] = arg[l]

\* The first rule that matches, in a sequence; an empty one when there is none.
FindRule(set, i) ==
    LET k == SelectInSeq(rules[set][i.op], LAMBDA rule : RuleMatch(rule, i)) IN
    IF k = 0 THEN <<>> ELSE <<rules[set][i.op][k]>>

\* Rules for instructions of the processor come first.
InstrTranslate(i) ==
    IF FindRule("emit", i) # <<>> THEN <<i>>
    ELSE IF FindRule("instr", i) # <<>> THEN <<i>> ELSE <<>>

\* With the other order of arguments, if there is no rule for this one.
InstrTranslate2(op, result, arg1, arg2) ==
    LET plain    == InstrTranslate(Instr(op, result, arg1, arg2))
        swapped  == InstrTranslate(Instr(OpRelSwap(op), result, arg2, arg1))
    IN  IF plain # <<>> \/ op \notin Commutative \cup Branches THEN plain ELSE swapped

Translates(op, result, arg1, arg2) == InstrTranslate2(op, result, arg1, arg2) # <<>>

\* The smallest of the types of results that are bigger than type, AnyType when there is none.
TypeBiggerType(op, type) ==
    FoldLeft(LAMBDA found, rule :
               LET t == rule.arg[1].type IN
               IF /\ rule.arg[1].variant = "arg"
                  /\ type \subseteq t /\ type # t
                  /\ found = AnyType \/ t \subseteq found
               THEN t ELSE found,
             AnyType, rules["instr"][op])

-----------------------------------------------------------------------------
\* InstrTranslate3

\* A call; test and bigger are the flags TEST_ONLY and BIGGER_RESULT.
Call(op, result, arg1, arg2, test, bigger) ==
    [op |-> op, result |-> result, arg1 |-> arg1, arg2 |-> arg2, test |-> test, bigger |-> bigger,
     pc |-> "direct", has1 |-> FALSE, has2 |-> FALSE, hasr |-> FALSE, to |-> {}, tmp |-> NoVar,
     mark |-> Len(out)]

\* The temporary variables of a call are on the C stack, each of them its own.
Variable(which, type, n) == [mode |-> "var", type |-> type, name |-> which, n |-> n]
Local(which, type)       == Variable(which, type, 0 - Len(stack))
VarNewTmp(type)          == Variable("tmp", type, temps + 1)

\* An argument that is more than a variable (a label is a variable whose type is LABEL).
Complex(var) == var.mode \in {"elem", "int"}

Top == Head(stack)
Goto(frame)       == stack' = <<frame>> \o Tail(stack)
Calls(frame, call) == stack' = <<call, frame>> \o Tail(stack)

\* Mutant of TestLet: the flag TEST_ONLY is forgotten.
TestLetGenerates(frame, result, arg) ==
    Calls(frame, Call("let", result, arg, NoVar, FALSE, frame.bigger))

\* The test whether a LET can be translated; other flags of the call stay as they are.
TestLet(frame, result, arg) == Calls(frame, Call("let", result, arg, NoVar, TRUE, frame.bigger))

Generate(frame, result, arg) == Calls(frame, Call("let", result, arg, NoVar, FALSE, FALSE))

\* Mutant of Answered: a bigger type that cannot be computed is tried again.
AnsweredAgain(frame, answer) ==
    CASE frame.pc = "arg1"   -> [frame EXCEPT !.has1 = answer, !.pc = "arg2"]
      [] frame.pc = "arg2"   -> [frame EXCEPT !.has2 = answer, !.pc = "result"]
      [] frame.pc = "result" -> [frame EXCEPT !.hasr = answer, !.pc = "choose"]
      [] frame.pc = "narrow" -> [frame EXCEPT !.pc = IF answer THEN "widen" ELSE "bigger"]
      [] frame.pc = "compute" ->
            [frame EXCEPT !.hasr = answer \/ @, !.pc = IF answer THEN "load1" ELSE "widen"]
      [] OTHER -> frame

\* What a caller does with the answer of the call it has made.
Answered(frame, answer) ==
    CASE frame.pc = "arg1"   -> [frame EXCEPT !.has1 = answer, !.pc = "arg2"]
      [] frame.pc = "arg2"   -> [frame EXCEPT !.has2 = answer, !.pc = "result"]
      [] frame.pc = "result" -> [frame EXCEPT !.hasr = answer, !.pc = "choose"]
      [] frame.pc = "narrow" -> [frame EXCEPT !.pc = IF answer THEN "widen" ELSE "bigger"]
      [] frame.pc = "compute" ->
            [frame EXCEPT !.hasr = answer \/ @, !.pc = IF answer THEN "load1" ELSE "bigger"]
      [] OTHER -> frame               \* answers of calls that generate are not looked at

\* Mutant of Return: the instruction behind the one that failed is reported.
ReturnReportsNext(answer) ==
    IF Len(stack) > 1
    THEN /\ stack' = <<Answered(stack[2], answer)>> \o Tail(Tail(stack))
         /\ UNCHANGED <<pos, errors>>
    ELSE /\ stack' = <<>>
         /\ pos' = pos + 1
         /\ errors' = IF answer THEN errors ELSE errors \cup {pos + 1}

\* The call returns; an instruction of the block that cannot be translated is reported.
Return(answer) ==
    IF Len(stack) > 1
    THEN /\ stack' = <<Answered(stack[2], answer)>> \o Tail(Tail(stack))
         /\ UNCHANGED <<pos, errors>>
    ELSE /\ stack' = <<>>
         /\ pos' = pos + 1
         /\ errors' = IF answer THEN errors ELSE errors \cup {pos}

Quiet == UNCHANGED <<ruleVars, file, block, asserts_off, in_assert, out, temps>>
Inside == UNCHANGED <<pos, errors>>

\* The instruction is translated as it is, if that is possible.
Direct ==
    /\ stack # <<>> /\ Top.pc = "direct"
    /\ LET i == InstrTranslate2(Top.op, Top.result, Top.arg1, Top.arg2) IN
       IF i # <<>>
       THEN /\ Return(TRUE)
            /\ out' = IF Top.test THEN out ELSE out \o i
            /\ UNCHANGED <<ruleVars, file, block, asserts_off, in_assert, temps>>
       ELSE /\ Goto([Top EXCEPT !.pc = "arg1", !.has1 = Complex(Top.arg1),
                                !.has2 = Complex(Top.arg2), !.hasr = Complex(Top.result)])
            /\ Quiet /\ Inside

\* A LET that loads the argument of a LET into a variable of the same type is not tried.
Arg1Test ==
    /\ stack # <<>> /\ Top.pc = "arg1"
    /\ IF /\ Top.has1
          /\ ~ (Top.op = "let" /\ ~ Top.hasr /\ Top.result.type = Top.arg1.type)
       THEN TestLet(Top, Local("tmp1", Top.arg1.type), Top.arg1)
       ELSE Goto(Answered(Top, FALSE))
    /\ Quiet /\ Inside

Arg2Test ==
    /\ stack # <<>> /\ Top.pc = "arg2"
    /\ IF /\ Top.has2
          /\ ~ (Top.op = "let" /\ ~ Top.hasr /\ Top.result.type = Top.arg2.type)
       THEN TestLet(Top, Local("tmp2", Top.arg2.type), Top.arg2)
       ELSE Goto(Answered(Top, FALSE))
    /\ Quiet /\ Inside

ResultTest ==
    /\ stack # <<>> /\ Top.pc = "result"
    /\ IF /\ Top.hasr
          /\ ~ (Top.op = "let" /\ Top.arg1.mode = "var" /\ Top.arg1.type = Top.result.type)
       THEN TestLet(Top, Top.result, Local("tmp_r", Top.result.type))
       ELSE Goto(Answered(Top, FALSE))
    /\ Quiet /\ Inside

\* Mutant of Combos: both arguments are never replaced together.
CombosSingleArg == << <<TRUE, FALSE, FALSE>>, <<FALSE, TRUE, FALSE>>, <<FALSE, FALSE, TRUE>>,
                      <<TRUE, FALSE, TRUE>>, <<FALSE, TRUE, TRUE>> >>

\* Which of the arguments and the result are replaced, in the order in which this is tried.
Combos == << <<TRUE, FALSE, FALSE>>, <<FALSE, TRUE, FALSE>>, <<FALSE, FALSE, TRUE>>,
             <<TRUE, TRUE, FALSE>>, <<TRUE, FALSE, TRUE>>, <<FALSE, TRUE, TRUE>>,
             <<TRUE, TRUE, TRUE>> >>

Replaceable(frame, c) ==
    /\ c[1] => frame.has1
    /\ c[2] => frame.has2
    /\ c[3] => frame.hasr
    /\ Translates(frame.op,
                  IF c[3] THEN Local("tmp_r", frame.result.type) ELSE frame.result,
                  IF c[1] THEN Local("tmp1", frame.arg1.type) ELSE frame.arg1,
                  IF c[2] THEN Local("tmp2", frame.arg2.type) ELSE frame.arg2)

\* The first choice that can be translated; otherwise a bigger result, at most once.
Choose ==
    /\ stack # <<>> /\ Top.pc = "choose"
    /\ LET k == SelectInSeq(Combos, LAMBDA c : Replaceable(Top, c)) IN
       IF k # 0
       THEN /\ Goto([Top EXCEPT !.pc = "load1", !.to = Top.result.type, !.has1 = Combos[k][1],
                                !.has2 = Combos[k][2], !.hasr = Combos[k][3]])
            /\ Inside
       ELSE IF Top.result.mode = "var" /\ ~ Top.bigger
            THEN Goto([Top EXCEPT !.pc = "bigger", !.to = Top.result.type]) /\ Inside
            ELSE Return(FALSE)
    /\ Quiet

\* Can a value of the next bigger type be stored in the result ...
Bigger ==
    /\ stack # <<>> /\ Top.pc = "bigger"
    /\ LET t == TypeBiggerType(Top.op, Top.to) IN
       IF t = AnyType THEN Return(FALSE)
       ELSE /\ TestLet([Top EXCEPT !.pc = "narrow", !.to = t], Top.result, Local("tmp_r", t))
            /\ Inside
    /\ Quiet

\* ... and computed?
Widen ==
    /\ stack # <<>> /\ Top.pc = "widen"
    /\ Calls([Top EXCEPT !.pc = "compute"],
             Call(Top.op, Local("tmp_r", Top.to), Top.arg1, Top.arg2, TRUE, TRUE))
    /\ Quiet /\ Inside

\* A translation is known: a test is over, otherwise the arguments are loaded.
Load1 ==
    /\ stack # <<>> /\ Top.pc = "load1"
    /\ IF Top.test
       THEN Return(TRUE) /\ UNCHANGED temps
       ELSE /\ IF Top.has1
               THEN LET a == VarNewTmp(Top.arg1.type) IN
                    /\ Generate([Top EXCEPT !.pc = "load2", !.arg1 = a], a, Top.arg1)
                    /\ temps' = temps + 1
               ELSE Goto([Top EXCEPT !.pc = "load2"]) /\ UNCHANGED temps
            /\ Inside
    /\ UNCHANGED <<ruleVars, file, block, asserts_off, in_assert, out>>

Load2 ==
    /\ stack # <<>> /\ Top.pc = "load2"
    /\ IF Top.has2
       THEN LET a == VarNewTmp(Top.arg2.type) IN
            /\ Generate([Top EXCEPT !.pc = "operate", !.arg2 = a], a, Top.arg2)
            /\ temps' = temps + 1
       ELSE Goto([Top EXCEPT !.pc = "operate"]) /\ UNCHANGED temps
    /\ Inside
    /\ UNCHANGED <<ruleVars, file, block, asserts_off, in_assert, out>>

\* What InstrTranslate2 returns is not looked at here.
Operate ==
    /\ stack # <<>> /\ Top.pc = "operate"
    /\ LET result == IF Top.hasr THEN VarNewTmp(Top.to) ELSE Top.result IN
       /\ out' = out \o InstrTranslate2(Top.op, result, Top.arg1, Top.arg2)
       /\ Goto([Top EXCEPT !.pc = "store", !.tmp = result])
       /\ temps' = IF Top.hasr THEN temps + 1 ELSE temps
    /\ Inside
    /\ UNCHANGED <<ruleVars, file, block, asserts_off, in_assert>>

Store ==
    /\ stack # <<>> /\ Top.pc = "store"
    /\ IF Top.hasr THEN Generate([Top EXCEPT !.pc = "stored"], Top.result, Top.tmp) /\ Inside
                   ELSE Return(TRUE)
    /\ Quiet

Stored ==
    /\ stack # <<>> /\ Top.pc = "stored"
    /\ Return(TRUE)
    /\ Quiet

InstrTranslate3 ==
    \/ Direct \/ Arg1Test \/ Arg2Test \/ ResultTest \/ Choose \/ Bigger \/ Widen
    \/ Load1 \/ Load2 \/ Operate \/ Store \/ Stored

-----------------------------------------------------------------------------
\* The parser reads the rules, then ProcTranslate walks the block.

TransInit ==
    /\ \E unit \in Units :
          file = unit.rules /\ block = unit.block /\ asserts_off = unit.asserts_off
    /\ pos = 1 /\ in_assert = FALSE
    /\ stack = <<>> /\ out = <<>> /\ temps = 0 /\ errors = {}

Init == RulesInit /\ TransInit

Parsing == line_no < Len(file)

ParseRule ==
    /\ Parsing
    /\ LET r == file[line_no + 1] IN
       IF r.to = "" THEN EmptyRule ELSE RuleRegister(r.op, r.arg, r.to)
    /\ UNCHANGED transVars

Running == ~ Parsing /\ stack = <<>> /\ pos <= Len(block)
Skips   == asserts_off /\ (in_assert \/ block[pos].op \in {"assert_begin", "assert_end"})

\* Without asserts everything from ASSERT_BEGIN to ASSERT_END is dropped.
SkipAssert ==
    /\ Running /\ Skips
    /\ in_assert' = CASE block[pos].op = "assert_begin" -> TRUE
                      [] block[pos].op = "assert_end" -> FALSE
                      [] OTHER -> in_assert
    /\ pos' = pos + 1
    /\ UNCHANGED <<ruleVars, file, block, asserts_off, stack, out, temps, errors>>

NextInstr ==
    /\ Running /\ ~ Skips
    /\ LET i == block[pos] IN
       stack' = <<Call(i.op, i.result, i.arg1, i.arg2, FALSE, FALSE)>>
    /\ Quiet /\ Inside

Finished == ~ Parsing /\ stack = <<>> /\ pos > Len(block)

Next == ParseRule \/ SkipAssert \/ NextInstr \/ InstrTranslate3

Spec     == Init /\ [][Next]_vars
FairSpec == Spec /\ WF_vars(Next)

-----------------------------------------------------------------------------
\* What instructions compute: the measure

Cell(var) == <<var.name, var.n>>

\* A value in a variable of this type: it wraps at the ends.
Wrap(v, type) == CHOOSE w \in type : (w - v) % Cardinality(type) = 0

Apply(op, x, y) ==
    CASE op = "let" -> x [] op = "add" -> x + y [] op = "sub" -> x - y [] op = "mul" -> x * y
      [] op = "div" -> IF y = 0 THEN 0 ELSE x \div y

Holds(op, x, y) ==
    CASE op = "ifeq" -> x = y [] op = "ifne" -> x # y [] op = "iflt" -> x < y
      [] op = "ifge" -> x >= y [] op = "ifgt" -> x > y [] op = "ifle" -> x <= y

Value(arg, cells) ==
    CASE arg = NoVar -> 0 [] arg.mode = "int" -> arg.n [] OTHER -> cells[Cell(arg)]

\* One instruction; jumps are the answers of the conditions so far.
Step(run, i) ==
    LET x == Value(i.arg1, run.cells)
        y == Value(i.arg2, run.cells)
    IN  IF i.op \in Branches THEN [run EXCEPT !.jumps = Append(@, <<i.result, Holds(i.op, x, y)>>)]
        ELSE IF i.op \in {"assert_begin", "assert_end"} THEN run
        ELSE [run EXCEPT !.cells = [c \in DOMAIN @ \cup {Cell(i.result)} |->
                IF c = Cell(i.result) THEN Wrap(Apply(i.op, x, y), i.result.type) ELSE @[c]]]

Run(code, cells) == FoldLeft(Step, [cells |-> cells, jumps |-> <<>>], code)

Args(i)    == {i.result, i.arg1, i.arg2}
Storage    == {var \in UNION {Args(block[k]) : k \in 1..Len(block)} : var.mode \in {"var", "elem"}}
Ends(type) == {Min(type), Max(type) - 1, Max(type)}
Stores     == {cells \in [{Cell(v) : v \in Storage} -> UNION {Ends(v.type) : v \in Storage}] :
                 \A v \in Storage : cells[Cell(v)] \in v.type}

\* The instructions that are to be translated: with ASSERTS_OFF not those of an assertion.
Asserted(k) == \E b \in 1..k, e \in k..Len(block) :
                  /\ block[b].op = "assert_begin" /\ block[e].op = "assert_end"
                  /\ \A j \in b..(e - 1) : block[j].op # "assert_end"
Wanted == LET kept == {k \in 1..Len(block) : ~ (asserts_off /\ Asserted(k))} IN
          [n \in 1..Cardinality(kept) |->
             block[CHOOSE k \in kept : Cardinality({j \in kept : j <= k}) = n]]

-----------------------------------------------------------------------------

\* The places in InstrTranslate3 a call can be at.
Stages == {"direct", "arg1", "arg2", "result", "choose", "bigger", "narrow", "widen", "compute",
           "load1", "load2", "operate", "store", "stored"}

TypeOK ==
    /\ line_no \in 0..MaxRules
    /\ pos \in 1..(Len(block) + 1) /\ in_assert \in BOOLEAN
    /\ errors \subseteq 1..Len(block)
    /\ temps \in Nat
    /\ \A k \in 1..Len(stack) :
          LET f == stack[k] IN
          /\ f.pc \in Stages
          /\ {f.test, f.bigger, f.has1, f.has2, f.hasr} \subseteq BOOLEAN

\* What is generated for a block computes what the block says, for all values of its variables,
\* and in every branch the condition is the same.  It is about the whole of InstrTranslate3: a
\* test that is answered differently from what the translation then does loses an instruction
\* without any message, because the answers of the calls that generate are not looked at.
SameMeaning ==
    Finished /\ errors = {} =>
       \A cells \in Stores :
          LET want == Run(Wanted, cells)
              got  == Run(out, cells)
          IN  /\ got.jumps = want.jumps
              /\ \A c \in DOMAIN cells : got.cells[c] = want.cells[c]

\* No call of InstrTranslate3 waits for another one that asks the same of arguments of the same
\* kinds: the answer depends on nothing else, so it would ask again, and the calls never end
\* (comments at translate.c:645 and translate.c:767).
Asks(f) == LET kind(var) == <<var.mode, var.type, IF var.mode = "int" THEN var.n ELSE 0>> IN
           <<f.op, kind(f.result), kind(f.arg1), kind(f.arg2), f.test, f.bigger,
             f.result = f.arg1, f.result = f.arg2, f.arg1 = f.arg2>>
NoRepeatedCall ==
    \A j \in 1..Len(stack), k \in 1..Len(stack) : j < k => Asks(stack[j]) # Asks(stack[k])

\* As long as a call may still answer that there is no translation, nothing has been generated
\* since it began: an instruction that is reported as unsupported leaves no half of it behind.
AllOrNothing ==
    \A k \in 1..Len(stack) :
       stack[k].test \/ stack[k].pc \notin {"load1", "load2", "operate", "store", "stored"}
          => Len(out) = stack[k].mark

\* A translation of an instruction, with LETs for the arguments and the result in c.
Replaced(var, c, which) == IF c THEN Variable(which, var.type, -1) ELSE var
CanLoad(which, arg) == Complex(arg) /\ Translates("let", Replaced(arg, TRUE, which), arg, NoVar)
CanStore(result)    == /\ Complex(result)
                       /\ Translates("let", result, Replaced(result, TRUE, "tmp_r"), NoVar)
TranslatableBy(i, c) ==
    /\ c[1] => CanLoad("tmp1", i.arg1)
    /\ c[2] => CanLoad("tmp2", i.arg2)
    /\ c[3] => CanStore(i.result)
    /\ Translates(i.op, Replaced(i.result, c[3], "tmp_r"), Replaced(i.arg1, c[1], "tmp1"),
                  Replaced(i.arg2, c[2], "tmp2"))
Translatable(i) == \E c \in [1..3 -> BOOLEAN] : TranslatableBy(i, c)

\* An instruction is reported as unsupported only if there is no way to replace some of its
\* arguments and its result by variables so that it and the LETs this takes have rules.  It is
\* about the order in which InstrTranslate3 tries these ways and the ones it rules out.
FindsTranslation == \A k \in errors : ~ Translatable(block[k])

\* Translation of every block ends, when a program that can take a step takes it.
Terminates == <>Finished
=============================================================================
