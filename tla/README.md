# Verification of Atalan

Atalan (`src/src/atalan`) is an optimising compiler from a small language with indented blocks to
assembler for 8-bit processors, the 6502 first of all. It is a sequential C program. What makes it hard is
not concurrency inside the compiler but the long series of passes over one shared, mutable program: each
pass relies on what another one noted earlier (edges of the flow graph, source instructions, next uses, call
counts, flags), and the note may be stale by then. What the passes have to preserve is the meaning of the
program compiled, and there the processor does interleave: an interrupt routine may run between any two
instructions.

All file names below are in `src/src/atalan` unless another directory is given.

## 1. The system

### Components

| Component | State it keeps | Operations | Correct when | Status |
|---|---|---|---|---|
| Lexer `lexer.c` | line, position, stack `BLK` of blocks (indentation, end and stop token), files being parsed, files known | `NextToken`, `ReadLine`, `EnterBlockWithStop`, `ExitBlock`, `NextIs`, `SrcOpen`, `SrcClose`, `ParseModuleParameters` | every block entered ends once, in the order of nesting, and lines are resumed where a `use` left them | **Lexer** |
| Parser `parser.c`, `parse_type.c` | `STACK` of operands, `G_BLOCKS` with false and loop labels, flag `not`, scope | `ParseExpression`, `ParseCondition`, `ParseIf`, `ParseFor`, `ParseArgs`, `ParseAssign`, `ParseCommands`, ... | the code generated does what the manual says of the text | **Parser, ParsedProgram** |
| Generation `gen.c` | stack of code blocks, variables, `SCOPE` | `GenBegin/End`, `GenBlock`, `Gen`, `GenMacro`, `InstrEvalConst`, `InScope`, `FindOrAllocLabel` | every label jumped to is placed once | **CodeGen** |
| Types `type.c` | types per instruction and variable, shared and changed in place; sequences; marks | `TypeInfer`: `TypeDeduce`, `InstrInferType`, `FindType`, `TypeRestrict`, `TypeInferLoops`, the final pass | the type holds every value computed; what is removed because of it is never needed; the passes end | **Ranges, TypeRange, TypeInfer** |
| Rules `translate.c` | a list of rules per operation in three sets; during translation the calls of `InstrTranslate3` on the C stack | `RuleSetAddRule`, `RuleRegister`, `InstrTranslate3`, `ProcTranslate` | lists are in order of specificity; what is generated computes what was to be translated; a translation is found if there is one; translation ends | **RuleSet, Translate** |
| Register arguments `type_proc.c` | - | `ProcAssignRegisterArguments` | as the parser | in Parser |
| Flow graph `opt_blocks.c` | chain of blocks, edges `to`, `cond_to`, callers, `label->instr` | `GenerateBasicBlocks`, `LinkBlocks`, `OptimizeJumps`, `OptimizeMergeBranchCode`, `DeadCodeElimination` | the code emitted runs like the code written | **FlowGraph** |
| Value propagation `opt_values.c` | `src_i` and `dep` per variable | `OptimizeValues`, `OptimizeVarMerge`, `CheckValues` | as above | **Values** (without `CheckValues`) |
| Liveness `opt_live.c` | `VarLive` and `src_i` per variable, `next_use` per instruction | `OptimizeLive` | removes nothing that is observed | **Liveness** |
| Optimizer driver `optimize.c` | `modified` | `OptimizeCombined`, `ProcOptimize` | ends; never makes code costlier | **Combined** |
| Loops `opt_loops.c`, `opt_loop_shift.c` | loop bounds, definitions reaching a loop | `OptimizeLoops`, `OptimizeLoopShift` | as above | planned |
| Collisions `opt_global.c`, `var_set.c` | live sets per block | `OptimizeDataFlowBack` | two variables live together collide | planned |
| Variable allocation `opt_var_use.c` | addresses, `VAR_HEAP`, a local heap per procedure | `AllocateVariables`, `AllocateVariablesFromHeap(NoOptim)` | variables needed at the same time do not overlap | **VarAlloc** |
| Heap `mem_heap.c` | array of free ranges | `HeapAddBlock`, `HeapRemoveBlock`, `HeapAllocBlock` | never hands out a byte twice | **HeapBlocks, MemHeap** |
| Procedure use `variables.c`, `main.c` | flags on procedures, uses of labels | `ProcUse`, `VarUse`, `ProcessUsedProc` | what is called is compiled | partly, in VarAlloc and FlowGraph |
| Big integers, emitter (but for the order of what it prints), errors, `common`, processor definitions, emulators | - | arithmetic, printing | - | not modelled (section 8) |

### How they interact

`main.c:322-419` calls, after parsing and in this order, each for every procedure in use:
`VarUse` - `GenerateBasicBlocks` - `CheckValues` - `TypeInfer` - `OptimizeLoopShift` - `ProcTranslate` -
`VarUse` - `ProcUse` - `GenerateBasicBlocks` - `OptimizeJumps` - `ProcOptimize` (which is
`OptimizeCombined`: values, liveness, merging of branches until nothing changes, then liveness and merging of
variables, and all again while something changes) - `VarUse` - `DeadCodeElimination` - `OptimizeJumps`
twice - `VarUse` - `AllocateVariables` - `Emit`.

The passes do not pass messages; they share the instructions and the fields on variables and blocks:

* `src_i` of a variable is its source instruction in the value pass and its next use in the liveness pass.
* `processed` of a variable and of a block serves every traversal; `VarProcessed` and `VarUsed` are one bit,
  `VarUsedInInterupt` and `VarLabelDefined` another (`language.h:523-530`).
* `instr` of a variable is the block of a label and the code of a procedure.
* `OptimizeJumps` turns calls into jumps (tail calls) before `AllocateVariables` reads the calls.
* `AllocateVariables` gives the memory of one procedure to another through `HeapAddBlock` and
  `HeapRemoveBlock`, whose correctness depends on never adding a range twice.

### What is hard

Stale notes between passes; edges that no longer match the code while it is being rewritten; passes that
repeat until nothing changes; an array that is edited by the loop walking over it; memory handed from
procedure to procedure over many steps; interrupts. `PROJECT.json` lists each hazard at its line with the
properties that cover it; those without a property say which part of the plan they wait for.

## 2. The modules

| Module | Models | Uses |
|---|---|---|
| `HeapBlocks` | what the functions of `mem_heap.c` compute, as operators on a sequence of `[adr, size]` | |
| `MemHeap` | one heap as a state machine, removal turn by turn, growth of its array | `HeapBlocks` |
| `AddressPool` | what a heap promises: a set of free bytes | |
| `VarAlloc` | tail calls, then `AllocateVariables` for every procedure, step by step | `HeapBlocks` |
| `FlowGraph` | the blocks of one procedure and the jump passes, with the code run beside its source | |
| `ProcCode` | instructions, blocks, rules, and how code runs | |
| `Liveness` | steps of `OptimizeLive` | `ProcCode` |
| `Values` | steps of `OptimizeValues` and `OptimizeVarMerge` | `ProcCode` |
| `Combined` | `OptimizeCombined`: the passes in order, and the code run beside its source | `Liveness`, `Values` |
| `Lexer` | lines into tokens, ends of blocks, files and their parameters | |
| `CodeGen` | variables, scopes, blocks of code, labels, constant folding, macros | `Lexer` |
| `Parser` | every function of the parser for expressions, conditions, statements, procedures, types of integers | `CodeGen` |
| `ParsedProgram` | the parser at work command by command, and its code run on all initial values | `Parser` |
| `Source` | programs as trees, what the manual says they mean and how they are written: the measure, no code of the compiler | |
| `Ranges` | the arithmetic: operations on ranges, conditions known beforehand, ends of sequences | |
| `TypeRange` | types in memory, ranges, sequences and variants: operations, joins, restrictions | `Ranges` |
| `TypeInfer` | `TypeInfer` of one procedure, step by step, and the procedure run on all arguments | `TypeRange` |
| `RuleSet` | a rule set as the parser fills it, sorted by specificity | |
| `Translate` | `InstrTranslate3` with its calls of itself as an explicit stack, and `ProcTranslate` over a block | `RuleSet` |
| `HeapBlocksProofs`, `MemHeapProofs`, `VarAllocProofs`, `FlowGraphProofs`, `TranslateProofs` (with RuleSet), `CombinedProofs`, `RangesProofs` | the proofs | |
| `NumberProofs` | the facts about numbers and recursive functions that the proofs share | |
| `MCVarAlloc`, `MCVarAllocGraphs`, `MCFlowGraph`, `MCCombined`, `MCParser`, `MCTypeInfer`, `MCTranslate` | programs and bounds for TLC | |

### Heap

`block` is `heap->block[0 .. count-1]`, `capacity` the size of the array. `HeapAddBlock` (operator) extends
the first entry the new range touches, or appends. Entries are not merged with each other, although the
comments at `mem_heap.c:62-63` say so. `HeapRemoveStep` is one turn of the loop of `HeapRemoveBlock`: an entry
may be dropped, trimmed at either side, or split, and after a split the function returns
(`mem_heap.c:35`). `AllocFrom` takes the range from the entry that fits best and deletes it when it is empty.
In `MemHeap` the variable `removing` is the removal under way; `AddFresh` adds a range that is in no entry,
`AddAgain` (only with `Overlapping = TRUE`) any range. `held` is a history variable, the ranges handed out; clients do not add them again.

### Variable allocation

A program is a record: whom each procedure calls, what it ends with, the sizes of its variables, how many of
them are its own (the rest belong to the scope of a `for` loop), and the interrupt handlers. `OptimizeJumps`
makes the ending call of each procedure a jump, one procedure at a time, in the order the compiler takes.
Then, for each procedure `proc`, for each other one `proc2` whose variables can be reused (`AddVariable`), and
once more for those that cannot (`RemoveVariable`, `RemoveTurn`, `RemoveDone`: one turn of
`HeapRemoveBlock` each), the local heap is put together; `AllocVariable` places one variable: at the address
of a lender (the collision graph stays empty for a loop's scope), from the local heap, from `VAR_HEAP`, or
nowhere. `aliased` are the variables that share the address object of another one: they are skipped when addresses
are collected.

### Flow graph

A procedure is flat code as `gen.c` leaves it; "do" stands for all instructions that only compute. `BasicBlocks` cuts it
before labels and behind jumps; the labels at the beginning of a block are dropped (`AfterLabels`), and what jumps to one of them
is led to the first. `FlowGraphAssumption` says what source code is: a label is there once, what is
jumped to is a label of the procedure or another procedure, and the entry of the procedures it calls is no label of its own.
`graph` holds `chain` (the list of blocks by number), the code and label of each, and `label->instr`.
`link` holds the edges that `LinkBlocks` found last; they are not updated when a pass changes the code, as in
the program. One action is one block of a pass: `LinkBlocks` (one whole call, its loop removes blocks one by
one), `VarUse`, `JumpsBlock`, `JumpToJump`, `TailCall`, `JumpsDone`, `DeadBlock`, `DeadDone`, `MergeBlock`,
`MergeDone`. `rest` is the list of passes still to do, and `MergeDone` puts the passes of one more round
before it when something was modified.

### Optimizer

`code` is the instructions per block, `src` is `src_i` of each variable, `dep` its expression, `live` the
`VarLive` flags, `nextUse` the field of each instruction. One action is one instruction of a pass
(`ValuesStep`, `LiveStep`, `MergeStep`) or one block (`EnterValues`, `EnterLive`, `BranchesStep`,
`EnterMerge`, `LeaveBlock`); `NextPass` is the loop of `OptimizeCombined`. `Rules` says which forms of
instruction the processor has and what they cost; every rewriting asks for a rule as `TransformInstr` and
`InstrRule` do (`Allowed`). A called procedure is a record of what it reads, writes and hides behind a tail call.
The C functions that call themselves on an expression (`UsesValue`, `Equivalent`, `VarIsOffset`) are recursive functions on `Exp`, the expressions
nested at most `MaxNest` times; the search for the next use along the blocks is a function of the number of blocks it may still look at.

### Lexer, generation and parser

The globals of the lexer, the generator and the parser are the fields of one record `p` (the heads of the
three modules say which field is which global), and each C function is an operator from the record before it to the
record after it. A failed command is `tok = "error"`, as `TOK = TOKEN_ERROR` is in the program, and
every caller looks at it where the code does. Functions of the parser that call each other in a circle
(an expression holds a call, a call arguments, an argument an expression, and in the same way blocks
commands) go through `Rule(name, args, p)`, whose CASE has one line for each of them; `Exp`, `Operand`, `Condition`,
`Commands` and so on are the names under which they are called. Everything else is called directly.

The actions of `ParsedProgram` are one command of the loop of `ParseCommands`, and the end of `Parse`.
When the program is parsed, `Exec` runs what was generated: integers wrap at the size of their variable, the overflow
flag is what the last addition left, arguments in registers share a cell. `Source` runs the tree
of the same program as the reference manual says.

`wild` notes that the parser has read below the bottom of `STACK` or through a null pointer, `hangs` that one of its loops
takes no token any more. A program that the manual allows must come out with neither, and without errors; a program that
breaks a rule must come out with an error (`Accepted`).

`n` of a variable shares its place with the pointer `var` (`language.h:558-567`): `Overlaid` is what reading `n` gives,
the constant `Address` what a pointer reads as. `paren` is `EXP_PARENTHESES`, of which only matters whether it is 0: below 0 it is a large
number in the program, and not 0 in the model either. `Values` is the loop over the variables of an assignment: a variable without an expression of its own takes
what is left on the stack, as in the program.

### Types

Types are objects with an identity: `TypeLet` makes two instructions share one, `TypeExpand` changes it in place, and
a change is noticed by comparing pointers. So `h.types` is a heap of types and a type is its number. `ty` has the three
types of every instruction (`type[RESULT]`, `type[ARG1]`, `type[ARG2]`) and whether the first is a restriction. One action is one instruction
of a pass or the end of one, where it is decided what comes next (`Analyse`); the backward search `FindType` through the blocks is one step,
as it is one call. When the types are settled, the procedure is run as it was written, on every
argument.

### Rules and translation

`rules[set][op]` is the list of one operation in one of the three sets (`INSTR_RULES`, `TRANSLATE_RULES`, `GEN_RULES`), `line_no` the
number of rules read. `RuleSetAddRule` walks the list until the new rule is more specific than the one it is at; `Place` is that index.

`stack` is the C stack of `InstrTranslate3`, the latest call first. A frame holds the arguments, the flags
`TEST_ONLY` and `BIGGER_RESULT`, `has1`, `has2`, `has_r`, the type the result is widened to, and `pc`, where the call is.
One action is one piece of the function between two calls of itself: `Direct` (as it is), `Arg1Test`, `Arg2Test`, `ResultTest` (can the
LET be translated?), `Choose` (the first combination of replacements that has a rule), `Bigger` and `Widen` (a result of a bigger type), and, in a call that
generates, `Load1`, `Load2`, `Operate`, `Store`, `Stored`. `Return` hands the answer to the frame below, where `Answered` continues. `out` is the code
generated. `mark` is a history variable: how much had been generated when the call began.
`UnitsAssumption` says what the parser can hand over (`Generated`): no temporary variables of the translation, and a LET has one argument and a
variable or an element as result.

A type is the set of integers in its range. `SameMeaning` runs the block and what was generated for it on values at the ends of the types.

### Running the code

FlowGraph and Combined end with a pair of machines: `run` executes the code as written and the code as it is
now side by side, from one observable event to the next. Events are, in FlowGraph, instructions, calls and
ends; in Combined, branches taken, calls with the values the callee reads, hardware registers read and
written, and the results at the end. Values that are read from hardware or left by a call are chosen
nondeterministically and given to both. `SameEvents` says that the two never differ.

## 3. The runs

| Run | Shows |
|---|---|
| `heap_disjoint` | entries stay disjoint, nothing is handed out twice, the array is large enough, and the heap implements `AddressPool` |
| `heap_overlapping` | `HeapAddBlock` makes available exactly the bytes it is given, also when some are in the heap already |
| `alloc_plain` | without tail calls: a procedure and what it calls, at any depth, never share memory; locals do not overlap; `VAR_HEAP` stays apart from everything placed; placing ends |
| `alloc_tail_call` | violation: a caller shares memory with what a callee jumps to |
| `flow_structured` | the jump passes preserve structured programs, place every label, read no instruction of an empty block, and end |
| `optimize` | the passes of `OptimizeCombined` together preserve the procedures of five families, meet no instruction that was deleted, never make code costlier, keep every instruction within the processor's rules, and end |
| `optimize_global_store` | violation: a store to a global that a called procedure reads is removed |
| `parse` | expressions, conditions, loops, procedures, macros, files, constants and jumps, written in four layouts, are accepted and the code generated computes what the manual says; programs that break a rule are reported; blocks and scopes stay balanced; names are declared once however often a file is used; every command takes a token |
| `infer` | the types inferred hold every value computed, what is folded or removed because of them was not needed, the types of undeclared local variables hold all they are assigned, a local variable that is read before it is assigned is reported there as uninitialized, nothing is read through NULL, and a pass is repeated only when it settled something |
| `infer_join` | violation: behind `if x <> 6` with an assignment, `x` is taken to be 6 |
| `translate` | for files of rules with some missing and in two orders: rules are in order, what is generated computes what the block says, no call waits for one that asks the same, an instruction reported as unsupported leaves nothing behind and has no translation of the kinds looked for, and translation ends |
| `translate_long` | violation: three bytes stored in two, with the LET rules of the 6502, is asked again and again |

Every property of a passing run has a mutant of a mapped definition that breaks it.

### Bounds

* `heap_disjoint`: addresses 0..4, ranges up to 3 bytes, up to 3 entries. Two entries with a gap on either
  side of a removed range, a split, a trim at both ends and a full array all occur; the theorems below cover all
  other sizes. `heap_overlapping` uses addresses 0..3.
* `alloc_plain`: every acyclic call graph over 3 procedures, each with up to two variables of 1 and 2 bytes,
  plus a root variable; `VAR_HEAP` in two ranges of 5 and 3 bytes, so that entries are split, reused and
  exhausted. Loops' scopes and interrupt routines are among the programs. Three procedures are also
  the most for which `LocalsApart` holds in every program: with four it fails (section 5). The violating run uses 4 procedures and a
  heap large enough that exhaustion plays no part.
* `flow_structured`: two statements in sequence, or one in the other, of `if`, `if/else`, `while`, `for`, with
  `return`, calls, in an interrupt routine, and with a condition that has no opposite rule. That is deep enough for
  jumps to jumps, empty blocks with several callers, tail calls on both sides of a branch and dead blocks.
  The entry label of a callee is not set in the runs (see the divergence about tail calls of loops).
* `optimize`: integers modulo 4, values from outside 0 and 3, fewer than 10 instructions in a block; straight
  code of two or three statements, calls with an argument in a register or in memory, an `if/else` with
  code behind it, and a loop. The statements copy, set, increment and decrement a local, a global and an output
  argument and read and write hardware registers, through the accumulator or the index register. In the fifth family
  a loop's body reads a variable whose value from before is not needed, and the instruction that reads it is removed. `MaxNest = 100`: an
  instruction adds one level to an expression, and a block has fewer than 10.

* `parse`: every expression of three operators in every tree over two priorities; every condition of one or two relations, negated or not, alone or with a third; chains of three; conditions in `if`, `else if`,
  `unless`, `while`, `until`, `assert`, inside and beside one another; loops with limits and steps at the ends of one and two bytes, with limits that are
  variables, with `where`, `while`, `until`, nested; procedures with up to three arguments of which two fit in registers, two results, `return`,
  a loop or a call in the body; calls as statements, operands, arguments and on both sides of several targets;
  macros; `in`, `out` and `debug`; several targets with one value each, and with a constant or a variable for all; programs that break a rule, among them assignments to a constant, a type and
  a read-only register, reading what is only written, a second body of a macro and a value nobody takes; three files that use each other, in every order, with and without parameters; constants; labels. Initial values are 0, 1, 2 and 5, which is on both
  sides of every constant compared with. Layouts are indented blocks, parentheses on one line and on several, and `then` on one line. Families leave out the forms that
  section 5 shows to be wrong; the comments in `MCParser` say where. 400 instructions (`Fuel`) are never used up by a
  program that ends.
* `infer`: 346 procedures of at most six blocks, arguments 0..4, ten families; conditions on both sides of, at and beyond the ends of the
  ranges compared. Restrictions, sequences, declared types, variants, dead blocks, folded conditions and unassigned variables all occur. `Limit = 1000`
  stands for the largest integer; it is out of reach of every value but only just of a product of two ends. No run takes `MaxSteps = 60`.
* `translate`: a byte has two bits, so that types of one, two and three bytes are small sets. Three families of files, each with every choice of
  the optional rules, in the order of the file and backwards: sums of bytes with elements, constants and a result of two
  bytes; branches with an assertion before, with `ASSERTS_OFF` on and off, a rule without body and a macro rule among them; differences that need
  a result of three bytes, and products of two. `MaxRules = 16` is above the length of every file. Two premises on files keep
  known faults out: a variable may stand wherever an element may (`ElementsLoad`; without it `Operate` finds no rule after `has1` and `has2`
  were settled for another result type, and the instruction is lost without a message, section 5), and every bigger result can be stored back (`Narrows`;
  the LET rules for three bytes of `m6502.atl` do not meet it, and that is what `translate_long` shows).

### Deadlock and fairness

Deadlock is checked, except in the heap's runs, where the clients of a heap may stop calling, in `infer`, where the run of the procedure ends, in
`translate`, where the block ends, and in `parse`, where the parser ends. A finished compiler
stutters explicitly (`Done`, `Finished`).

The compiler is one thread that takes its next step whenever there is one, so weak fairness of the whole
next-state relation is what the code's scheduling gives. In FlowGraph and Combined the fairness is on
compiling only (`WF_vars(~run.on /\ Compile)`): nobody has to run the code, and termination is said of the
compiler (`<>(compiled \/ run.on)`). Combined writes the same formula with the state function that enables
`Optimize` spelled out, because TLC evaluates ENABLED of its large actions slowly. No fairness is
assumed of the program compiled. In Translate the fairness is on all of `Next`.

ParsedProgram and TypeInfer state no fairness. TLC evaluates ENABLED of their large steps again for every state, which takes
longer than checking everything else, and for a sequential program termination follows from a measure that a safety property can
state: `Progresses` bounds the number of commands by the tokens taken, so that a command that takes none violates it, and `PassesSettle` makes every
repetition of a pass settle at least one of finitely many things.

## 4. What is proved

tlapm checks, for every value of the constants that satisfies the modules' assumptions:

| Theorem | Says |
|---|---|
| `HeapTypeCorrect`, `HeapWithinCapacity` | `TypeOK` and `InCapacity` of MemHeap, also with ranges added twice |
| `HeapEntriesDisjoint`, `HeapAllocatesOnce`, `HeapRemovesAll` | if no range is added twice: `BlocksDisjoint`, `NoDoubleAllocation`, `PassedIsClear` |
| `HeapIsPool` | if no range is added twice, MemHeap implements `AddressPool` |
| `AddsWhatIsGiven` | every `HeapAddBlock` covers exactly the bytes before and the ones given, always |
| `AllocTypeCorrect` | `Spec => []TypeOK` of VarAlloc |
| `RulesOrdered`, `TranslateOrdered` | if constants and bytes of variables do not meet in the patterns (`ConstsWithoutBytes`), the lists of rules are in order, however many rules are read and in whichever order, and translation does not disturb them |
| `TranslateImplementsRules` | Translate implements the specification of the rule sets (`RulesSpec` of RuleSet) |
| `RuleMostSpecific` | with `ConstsWithoutBytes`: the rule used for an instruction is more specific than every other one that fits, or as specific and read earlier |
| `TranslateTypeCorrect` | `TypeOK` of Translate |
| `NothingByHalves` | `AllOrNothing` of Translate for every file of rules and every block |
| `TranslationFound` | `FindsTranslation` of Translate for every file of rules and every block |
| `FlowGraphTypeCorrect`, `LabelsArePlaced` | `TypeOK` and `LabelsPlaced` of FlowGraph, for every procedure the assumption admits, structured or not, through all passes |
| `CombinedTypeCorrect` | `TypeOK` of Combined, for every procedure, every set of rules and every processor: all the passes leave are instructions there is a rule for |
| `NoPassMeetsFreedInstr` | `NoFreedInstr` of Combined: no variable that a pass meets has an instruction that was deleted as `src_i` |
| `VarHeapStaysUnused` | `VAR_HEAP` has no byte in common with a placed variable or an entry of a local heap, for every program, with tail calls, interrupts and loops |
| `ScopesStayApart` | `LocalsApart` of VarAlloc for every program, as long as no byte is in the local heap twice (`AddedOnce`) |
| `CallersStayApart`, `RelatedStayApart` | `CallersKeepVariables` for every program of which no call is made a jump (`NoTailCall`), under `AddedOnce`; with tail calls the same for the calls `ProcCallsProc` still sees |
| `HeapAddedOnce` | `AddedOnce`, for every program in which of any three procedures two are related by calls (`NoThreeUnrelated`) |
| `PlacingIsSafe` | `LocalsApart` and `CallersKeepVariables` (the latter with `NoTailCall`) for those programs, however many procedures they have |
| `OperationInRange` | the range inferred for the result of an operation holds the result: ADD and SUB for all ranges, MUL and DIV for ranges without negative numbers |
| `ConstraintInRange` | the range `InstrConstraints` infers for the first operand of ADD or SUB from the result and the second operand holds it |
| `FactorInRange`, `FactorLost` | the same for MUL where no range has negative numbers and the second operand is not 0; the code asks for neither, and without them the operand is lost |
| `ConditionDecided` | a branch made a GOTO is always taken, and one removed never, for all values of the ranges and all six conditions |
| `SequenceInRange`, `LastValueLost` | a sequence upwards that is turned into a range has no value outside of it that passes the condition, where the last value is found (`EndFound`); with `<` and steps of one size the value just below the limit is never in the range |

The argument, bottom up:

* `HeapBlocksProofs` has the lemmas about the operators: which entries there are after one is replaced, dropped
  or appended, and from these what `HeapAddBlock` covers (`AddCovered`), that one turn of removal
  trims, drops or splits exactly one entry (`RemoveTrims`, `RemoveDrops`, `RemoveSplits`) and that taking from the
  best fit removes exactly the bytes returned (`AllocTakes`).
* `TypeInv` adds to `TypeOK` that the array is large enough and that the range being removed is not empty. `TypeOK`
  alone is not inductive: that a trimmed or split entry is still a block (sizes are positive) follows only from
  the removed range being non-empty.
* `SafeInv` adds that entries are disjoint, apart from what is handed out and below `MaxAdr`, and that what removal has
  passed is clear of the range. Without disjointness a split, after which the function returns, would leave bytes in later entries; that is also
  why the hypothesis `Overlapping = FALSE` is needed and why two locals can come to share memory (section 5).
* `HeapIsPool` maps `block` to the bytes it covers, less those of a removal under way: a removal is then one
  step of the pool, at its beginning, and its turns stutter.
* `AllocInv` for VarAlloc is `TypeOK`, a non-empty removal, `VarHeapUnused` and the disjointness of `VAR_HEAP`'s entries. The
  last is the strengthening: a range taken from one entry is clear of the others only if they are disjoint. That
  `VarHeapUnused` also speaks of the local heap is what lets an address wander from a variable to the local heap and to
  another variable. Nothing asks the local heap to be disjoint, so the theorem survives double additions.
* `SafeInv` of VarAlloc is what keeps variables apart. When a variable is placed, the range must be clear of three kinds of variables: those of the same
  procedure, those of procedures related to it that have been taken out of the local heap, and those that share an address object, which
  HeapVarOp skips. `HeapClear` says the first two, turn by turn of a removal (`StillRemoving`: the entries behind
  the one it is at may still overlap); `AliasOK` leads the third to the variable that lent the address; `UnplacedOK` says that nothing else has an
  address yet, since `AllocateVariables` goes through VARS in order. That the local heap is disjoint (`AddedOnce`) is needed at one place each: when a split ends
  a removal, and when room in one entry is handed out. So the theorems say that double additions are the *only* way two locals, or a
  caller and its callee in a program without tail calls, come to share memory; section 5 has programs where they do. `HeapMade` then shows
  when there is none: the variables added to the local heap belong to procedures unrelated to `proc`, and if two of them
  are related they are apart by `SafeInv` itself. `NeedsAreCalls` compares the walk over all control flow with the walk over the calls left, which needs
  that the closure grows with the set it starts from (`ClosureGrows`).
* The first part of `TranslateProofs` shows that `RuleIsMoreSpecific` is the comparison of a weight (three ranks as digits), which is where
  `ConstsWithoutBytes` is needed: a constant is more specific than a byte and a byte more specific than a constant (`translate.c:77-85`), so with both
  there is no order. `RulesInv` adds to `Ordered` that no rule in a list is newer than the last one read, since of equally specific rules the older comes first.
* For `NothingByHalves` the invariant `StackOK` says of every two calls on the stack that if the later one generates, the earlier
  one is past its choice, and that a call that only tests is never in a stage that generates. So when something is appended to `out`, no call on the stack can fail any more.
  `AllOrNothing` alone is not inductive: it says nothing about the calls that wait. The lemmas about pushing, popping and replacing the top carry it through each action.

* `TranslationFound` says of the steps of `InstrTranslate3` that they overlook nothing: `FindInv` is about the
  call of an instruction of the block and the call it waits for. `FindOK` says which of the ways to translate the instruction
  are excluded at each stage (after `arg1`, if `has1` is false, loading the first argument has no rules; after `choose`, no way is left), and `Requests` that
  the call on top of it asks exactly the LET this is decided by, so that its answer (`Settled`) is the right one. Three kinds of lemmas carry it: the rules do not tell variables of one type
  apart, as long as equal arguments stay equal (`MatchedSame`), so that a test with a local variable speaks for every temporary one; a call
  that is past its beginning has shown that there is no direct rule (`WaitingSettled`); and a test that is left out is a LET of the same kind
  as the one being translated, which has no rule either (`Arg1LeftOut`, `ResultLeftOut`). The property is about ways with one level of LETs; what a bigger result adds is not needed for it.
* `TranslateImplementsRules` is a refinement with the identity on the variables of RuleSet: `ParseRule` is `RulesNext`, everything else stutters.
* `GraphInv` for FlowGraph has four parts, and `TypeOK` with `LabelsPlaced` is not inductive without any of them. `GraphOK`: a jump to another block is the
  last instruction of its block, its label belongs to exactly one block of the chain, which `label->instr` names, and the chain has no block twice. `EdgesOK`:
  while `OptimizeJumps` and `OptimizeMergeBranchCode` run, edges lead to blocks of the chain, although the code they were made from has
  changed; this is what a merge or a jump folded along a stale edge relies on. `CallersOK`: `DeadCodeElimination` removes a block
  when it has no callers, so every block that jumps to it must be in its list of callers, and the first block is never looked at. `RestOK`: the passes that
  use edges come right after `LinkBlocks`, so that `EdgesOK` and `CallersOK` can be had from it. The lemmas are about one edit each (replacing
  a jump, taking a block out, joining two blocks), and each action cites the edits it makes.

* For Combined, `TypeInv` says of every instruction of the code that it is one of the processor's (`IsInstr`), and that the procedure
  keeps its number of blocks. Each rewriting (`ReplacedOK`, `FoldedOK`, `ReusedOK`, `MergedOK`, `MergeCopyOK`, `GatheredOK`) has a lemma that it asks for the rule of what it
  writes. `SrcInv` is the strengthening of `NoFreedInstr`. While `OptimizeValues` is at the instruction `k`, every `src_i` is NULL or an instruction before `k` in
  its block (`ValuesSrc`), so that removing the one at `k` leaves nothing behind. `OptimizeLive` goes backwards and starts
  from the next uses in other blocks, so there `src_i` of a variable is NULL, in another block, behind `k`, or the first
  instruction of its own block that touches the variable (`LiveSrc`). In the last case that instruction may be deleted
  while `src_i` still names it; no instruction before it touches the variable, which is why nobody meets it. `SearchFinds` shows that the
  search ends at such an instruction, by induction over the number of blocks it may look at. That the functions the search and the chains are
  written with exist is `Recursion`, proved from the well-ordering of the numbers, as the library's theorems about it take an operator.

* `RangesProofs` is about the arithmetic the inferencer rests on, for every range and every value. That an operation is monotone is what
  makes the ends of the ranges give the ends of the result; `Monotone` is where this is so, and it is the reason for the hypotheses: MUL with
  negative ends and MOD are not, and `type.c:1190` treats them alike. That the quotient is the largest number that fits (`QuotientFits`) carries both DIV and the ends of sequences.
  The theorems follow what the code asks, not what it should: `FactorLost` shows that dividing by a range with 0, or one with negative numbers, excludes
  operands (`type.c:2478-2482`), so `FactorInRange` has hypotheses the code does not test. `Reaches` lets a sequence start anywhere in the range of its start and be raised by any values of the
  step; `SequenceOf` is the question as the code asks it, with the low end of the start and the stored limit. Since a limit for `<` is stored as `max-1`
  and compared as `<` again (`type.c:1848`, `:1311`), `LastValueLost` has `i = 1`, step 2, `i < 4` end in 1..1 though 3 is reached. `EndFound` is what is left: in steps
  of one size, one start, and a last value below the limit that the sequence does not meet; for `<>`, a start that is not behind the limit. Steps
  are 1 at least, which the code does not test either.

`NoFreedInstr` said before that no `src_i` at all names a deleted instruction. The proof failed at exactly the last case of
`LiveSrc`, and the fifth family of `optimize` shows that the case occurs: the property now speaks of the variables a pass meets (`Met`).

The theorems about FlowGraph and Translate needed the assumptions on sources to say what the parser guarantees (labels once, LETs with one argument), and
`LabelsPlaced` now leaves out the entry of a called procedure, which is no label of this one.

Only model-checked, and why:

* `SameEvents` of FlowGraph and Combined and the three `SameMeaning`: they compare what two pieces of code compute, which is induction over the run.
* `NoNullInstr` of FlowGraph: it is false for arbitrary gotos (in `l1@ goto l2`, `l2@ goto l1` the first block becomes empty, and the one behind it, the last, begins with a goto: `cond_i` is NULL at `opt_blocks.c:424`), and holds for the structured
  procedures of the run; no assumption on flat code says "structured" without recursion.
* `CallersKeepVariables` and `LocalsApart` of VarAlloc without the hypotheses above: false for larger programs (section 5). The run checks
  them for all programs of three procedures, the theorems for the larger ones in which they are true.
* `NeverCostlier` of Combined: it is a fact about the rules too. An argument that is replaced by an older copy may need a form with a dearer rule, so it is not
  true of every set of rules, and it sums over all code. It holds for the rules of the 6502 that the run has.
* The properties of ParsedProgram and TypeInfer: Parser and TypeRange have RECURSIVE operators, and TypeInfer uses bitwise operations, which
  the prover does not take. What `TypesContain` and `SameMeaning` of TypeInfer need of one operation, one condition and one sequence is proved (`Ranges`); that it is
  put together rightly on all paths through a procedure is checked.
* All liveness.

## 5. Disagreements between code and documents

Shown by a violating run, with the quoted line under `findings` in `PROJECT.json`; each was also
reproduced with the compiler built from this source:

1. `alloc_tail_call`: `ProcCallsProc` follows `INSTR_CALL` only, but `OptimizeJumps` has made ending calls jumps.
2. `optimize_global_store`: see `findings`.
3. `translate_long`: a LET to a smaller type without a rule asks for a LET from the next bigger type to the same
   result, which is the same question; the compiler built from this source overflows its stack on `in i:0..$ffffff`, `out r:0..65535`, `r = i`.
4. `infer_join`: the restriction of a variable by a condition is applied where it does not hold.

Met while modelling, without a run of their own. The families of the runs leave out the programs concerned. Those about `lo K`, `x,y = z+1`, nested calls,
declared results and sequences below were reproduced with the compiler, too, and make `parse` or `infer` fail when they are put into a family.

Memory:

* The flag `VarUsedInInterupt` is set on what an interrupt routine calls, not on the routine, and only looked at in
  the other procedure (`variables.c:888`, `opt_var_use.c:466`): an interrupt routine is given memory of the procedures it interrupts.
* A range taken over from two procedures that share it is added to the local heap twice (`opt_var_use.c:443`), and two locals
  of one procedure of four overlap.
* `HeapAddBlock` neither merges blocks nor ignores a block that exists (`mem_heap.c:62-63`, `:71`, `:80`). By
  the same route a caller and its callee come to share memory in programs of six procedures, because
  `HeapRemoveBlock` returns after a split (`mem_heap.c:35`).
* The counter of a `for` loop and a variable of its body get one address, since the collision graph of a
  loop's scope is empty (`opt_var_use.c:263`, `:350`).

Flow graph and optimizer:

* `OptimizeJumps` swaps a branch around a block without asking who else jumps there (`opt_blocks.c:430`).
* A copy is used after its source changed: `src_i` of the copy still stands (`opt_values.c:213`).
* When equal calls are merged behind a branch, the assignments of their register arguments are removed (`opt_live.c:165`).
* A branch to a tail call of a procedure that begins with a loop is led to the label inside that procedure
  (`opt_blocks.c:440`; the field `instr` means something else for a procedure).
* Two gotos that jump to each other make `OptimizeJumps` follow them for ever (`opt_blocks.c:443`), the jump folding
  announced at `doc/news.txt:105`.
* Dead code after a return is kept when it has an `if` (`opt_blocks.c:520` looks at callers that are themselves dead).
* Writes of a procedure behind its tail call are not seen by its caller (`opt_values.c:619`): `g = 7`,
  `x = g`, a call that changes `g`, `y = g` copies the old value.
* `CheckValues` turns `y = x+1`, `z = y+2` into `y = x+3`, `z = y+6` in effect (`opt_values.c:1157-1168`; the comment
  above it says the first instruction is kept).
* `arr(g)=5`, `l=g`, `g=g+1`, `k=arr(g)` reads the element that was written.
* `InstrEvalConst` tests the dividend instead of the divisor (`instr.c:471`, `:479`), and
  `InstrEquivalent` ignores the result of commutative operations (`instr.c:251`).


Lexer and parser:

* `for n` over a variable that exists, which `doc/reference.txt:856` describes, ends the compiler: `idx` stays a null pointer (`parser.c:2046`, `:2234`).
* `for i:0..x` with a declared `x` compares with a limit that was not read (`parser.c:1939`); `for i:x..255` with a variable
  `x` never ends; the body is run once when the first value is behind the last; `for i:250..255` leaves the index with the
  range 250..0 (`parser.c:2226`).
* A condition is negated by inverting what is read next: in a chain each relation by itself, so that `unless 1 <= x < y` runs only if both fail
  (`parser.c:1600`).
* `x=1 and (x=2 or y=3)` forgets the false label of the first part, and so does `where a or b` (`parser.c:1672`, `:2083`). Negated, AND binds weaker than OR.
* `x + f(3)` loses `x`: `ParseArgs` empties the stack of operands (`parser.c:4242`); when an argument of a call is another call of the same procedure, the values
  already written to its memory arguments are overwritten; a call as an argument in a list with others behind it.
* `y = 1 +` and `use m (3)` read below the stack, or never end. `if c then g a,b else ...` on one line is a syntax error.
* `lo K` and `hi K` of a named constant are bytes of a pointer: the value is asked for with `VarIntConst`, but taken from `n` of the constant itself
  (`parser.c:270`, `language.h:558-567`). With `const K = $1234` the compiler wrote 80 and 233 for `x = lo K`, `y = hi K` in one run.
* `x,y = z+1` is compiled to code for `y` only: what is left on the stack is stored into each variable (`parser.c:3307`), and `GenLastResult` redirects the
  last instruction once more (`:3343`). The comment there counts results, not variables. With a constant or a variable for a value (`examples/tetris.atl:284`) all are written.
* `f((f(x, 3) + y) * 2, 1)` is reported as a call without its second argument: the inner call sets `EXP_PARENTHESES` to 0 (`parser.c:1383`), the end of the
  parentheses makes it 65535 (`:307`), and every comma behind makes a pair (`:1268`).
* `const K = x` with a variable `x` makes `K` stand for what `x` points to, and without a type reads through a null pointer if that is nothing (`variables.c:1271`, `parser.c:3335`).
* A macro with effects is marked like a variable that may be only written, and reported as one when it is used in an expression (`parser.c:982`).
* A file that cannot be opened pops a block that was not pushed (`lexer.c:1006`); `FILE_DIR` is not put back when a
  file ends (`lexer.c:789`).

Rules:

* Constants and bytes are each more specific than the other (`translate.c:77-85`), although the comment above them ranks constants first; in `cpu/m6502/m6502.atl`
  (2100-2102) both occur, and which rule wins depends on the order in the file. The test `l->variant != RULE_ELEMENT` at `:83` asks the wrong
  rule, so that an element is never more specific than anything.
* After a bigger result was found, `has1` and `has2` still say what could be loaded, not what has to be; both arguments are loaded, and when there is a rule
  for an element but none for a variable, the last `InstrTranslate2` (`translate.c:723`) finds nothing and nobody looks at its answer.
* The size of a type with a negative end counts that end as one byte (`type.c:610`): -1500..100 has one byte.

Types:

* `TypeRestrictRange` compares pointers instead of values (`type.c:1723`), so that conditions never narrow a range, which `doc/type_inferencing.txt:19` takes for granted;
  what does narrow is a comparison with one value, in the wrong direction after `<>` (run `infer_join`).
* A global keeps its type across a call that changes it (`type.c:2046`). The ranges of MOD, and of MUL and DIV with negative ends, are wrong (`type.c:1190`), and so is what a MUL by a range with 0 or negative numbers, and a DIV, which was rounded, leave of the first operand (`type.c:2478-2482`). The limit of a sequence with `<` is lowered twice (`type.c:1848`, `:1311`), and its range starts from the low end of the start whatever the start is: theorems about `Ranges` say where this loses values.
* "Value does not fit" is never reported, since the final pass skips what has a type; `doc/type_inferencing.txt` calls it an error.
* A procedure that begins with the head of a loop reads through NULL (`type.c:2235`), as does a sequence without a
  right end; a step of 0 divides by zero; a restriction that is NULL repeats a pass for ever (`type.c:2394`); IFEQ with a sequence ends the compiler without a
  message (`type.c:1867`).
* `until i = n` takes the end `n` out of what reaches the condition too (`type.c:1306`, `:1842`), finds it false and removes it with the code behind the
  loop (`type.c:2645`).
* When the result of an instruction is declared, `InstrUseDeclaredTypes` gives it that type (`type.c:2948`), `InstrInferType` skips it, and a variable
  it reads before it is assigned is not reported: `d = z + a` with `d` declared. The comment at `type.c:2407` takes for granted that it is.
* The range of a sequence has the values that pass the condition (`type.c:1311`), but is taken for the values written: behind other code, `i = 1`, `l@ i = i + 2`,
  `if i < 4 goto l`, the type found for `i` is 1..3, and `i` becomes 5.
* The end of `l@ a=a+1`, `if a<10 goto l` is removed. A variable counted up in a loop has only its last values as type, and a
  step that does not divide the distance is rounded down.

## 6. Abstractions

* Heap and VarAlloc: `VAR_HEAP` is given as disjoint ranges. Addresses given by the user, registers, unused variables and
  variables of size 0 are left out (they are skipped by the code). `ROOT_PROC` is not in the list of
  variables, as in the program. A procedure's own variables come before those of its loops. The later
  calls of `OptimizeJumps` change no call that the first left.
* FlowGraph: data blocks and `ALIGN`, and labels whose address is taken, are left out. What the value and
  liveness passes do to instructions in between is in Combined. An `ASSERT` that fails ends a run. The conditions of
  branches keep their values from one observable event to the next. Runs start where the passes are between
  two uses of the graph, and at the end.
* Combined: integers and processor registers only. Arrays, references, tuples, aliases, flags that rules set on the
  side, `IN SEQUENCE`, the limit on nesting of expressions, and external procedures without code are left
  out; so is `OptimizeLoops`, which changes nothing in code without arrays or counters it can move to
  registers. The argument in a register is that register. Reading hardware is matched by the instruction; a
  read whose value is not used may be dropped.
* Lexer: characters are tokens already, and a token knows whether a space is before it. Parser: arrays, structures,
  strings, `print`, rules, instructions and `either` are left out; types are those of integers. A file is its lines; it is found in the directory the
  code looks in first. The arrays of blocks and operands have no end. Source positions of errors are left out: a failed command is
  an error, once. The type expected of an operand (`RESULT_TYPE`, with the constants that belong to it) is left out, and so are
  conditions that are one boolean value and the bodies of pairs: a pair is one value, which the families do not use. `G_BLOCK->t_label` is never set by the parser and left out.
* TypeInfer: no arrays, tuples, addresses, temporaries or asserts. A call assigns declared results only. Blocks
  that become empty stay in the chain. `CheckValues`, which comes before, is left out.
* Translate: the body of a rule is taken to compute the instruction it is for. Registers, `VarReg`, tuples, dereferences, byte offsets, patterns within
  patterns and the marking of rules for the garbage collector are left out; an index of an element is part of its name. A file is read before anything is
  translated, as in the program. Temporary variables of a test are named after the call that makes them, as they are on its C stack.
* The rules in `MCCombined` are those of `cpu/m6502/m6502.atl` for the instructions used.

## 7. Plan

Order by importance; 1-7 are done, 8-10 extend the model, 11 proves more.

1. `HeapBlocks`, `MemHeap`, `AddressPool` with runs, refinement and proofs.
2. `VarAlloc` with call graphs, tail calls, interrupts, loops.
3. `FlowGraph`: every jump pass.
4. `ProcCode`, `Liveness`, `Values`, `Combined`: the optimizer.
5. `Lexer`, `CodeGen`, `Parser`, `ParsedProgram` against `Source`.
6. `Ranges`, `TypeRange`, `TypeInfer`.
7. `RuleSet`, `Translate`, with proofs.
8. `CheckValues` as a pass of its own over `ProcCode`, before translation.
9. `DataFlow`: `OptimizeDataFlowBack`, `VarSet` and the graph of collisions that
   `AllocateVariablesFromHeap` would use on a procedure; property: a block is processed when its followers are,
   and variables live together collide.
10. `Loops`: moving a variable of a loop to a
   register. Arrays and structures in the parser.
11. Proofs: the rules, translation, FlowGraph's graph, Combined's rewritings, the separation of variables and the arithmetic of ranges are done. Next: an assumption on rules under which
    `NeverCostlier` can be had from the same lemmas, and the recursion of TypeRange over sequences and variants as recursive functions.

Runs are limited on purpose: as later modules arrive, violations that show the same cause, or a cause that section 5 tells as well,
are dropped first.

## 8. Not modelled, and why

`bigint.c` and `var_int.c` are arithmetic without state. Loops, loop shift and collisions wait for the plan. `emit.c`, `errors.c` and `common/common.c` print,
format and open files. The definitions of processors and platforms (`cpu`, `platform`, `module`) are data;
what the optimizer needs of them is in `MCCombined`. `src/con6502` and `src/conz80` are emulators
of third parties, used by tests. `opt_live2.c` is called by nothing. Examples, projects, documentation and web
pages are not part of the program.
