# The cub compiler in TLA+

cub compiles a small statically typed language in passes that each run to
completion: characters → tokens → tree → analysed tree → code blocks →
optimised blocks → C (or LLVM) text. It is one process with one thread; nothing
is persisted and nothing is sent. What is hard is not scheduling but the
shape of the programs it is given: an order of legal constructs, nested in one
another, that leads the generator to a block another construct already finished,
to a variable a join dropped, or to an operand that stayed behind in an earlier
block. The passes before it have the same nature: a look-ahead that reads past
a push-back buffer, conversions inserted into a list while it is walked, parent
pointers set by hand. These models therefore let TLC choose the input (tokens,
statements, instructions) piece by piece and check everything up to a bound; for
five of the passes the proofs remove the bound.

Line numbers are those of the repository's source files.

## 1. Inventory

| Part | State | Operations | What makes it correct | Module |
|---|---|---|---|---|
| stream, buffer, `xalloc.c` | pushed-back characters, line and offset, bytes used | shift, push, grow | push-back is the inverse of shift; no write past the end | `TokenBuffer` has the growth; the rest is not modelled |
| lexer: `lex.c`, `token.c` | the current token's buffer | scan one token | – | not modelled |
| token buffer and look-ahead: `parse-common.c`, `parse-detect-ambiguous.c` | push-back stack of tokens; look-ahead tokens, index, `unused` flag | peek, shift, push, accept, expect, lookahead, merge, detect | looking ahead never changes which tokens are parsed | `TokenStream`, `Detect`, `TokenBuffer` |
| parser: `parse.c`, `expression/`, `statement/` | the tree | recursive descent | every reading of a text is found, grouped by precedence, and nothing written is lost | `Parser` |
| scopes and labels: `analyze-symbol.c`, `analyze.c` | one symbol table per block and kind, parent pointers | add, look up, find the loop of a break and the function of a return | the innermost visible declaration; a jump goes where the text says | `Scopes` |
| types: `type.c`, `analyze-type.c`, `analyze.c` | types of expressions, chains of operands | promote, implicit and explicit cast, one analysis per operation | casts keep values, do not depend on the order of operands, lose none | `Types`, `Expressions` |
| code blocks: `generate.h`, `generate-common.c`, `generate-block.c` | blocks with parameters, symbol list, operand stack, instructions, tail | create, child, inject arguments, branch, join, fork, rejoin, merge, branch into, tangle, weave | a tail passes what its target takes; a tail is written once | `CodeBlocks` |
| generator: `generate.c` | the block being filled, one C frame per nested construct, the loops' break and continue lists | one `generate_*` function per construct | symbols agree with the scope, operands in order, every block ends | `Generate` |
| copy elimination: `optimize.c` | map from old to new instruction numbers | drop copies, renumber | the block computes what it did before | `Copies` |
| LLVM backend: `llvm-backend/` | deferred patches, live sets | queue and apply a patch | each patch is applied once, after its text exists | not modelled (section 7) |
| C backend, listing backend, driver, core library, tests | – | output, file I/O | – | not modelled |

How they interact: `compile.c` (main, 75-101) calls the passes one after the
other. The parser pulls tokens from the lexer, which pulls characters from the
stream; both push back what they read too far. Analysis writes into the tree
the symbol every name refers to and the loop every break or continue leaves; the
generator relies on both, and aborts ("post-analysis") where they turn out wrong. The
generator builds blocks through the operations of `generate-block.c` only; the
optimiser rewrites each block alone; a backend prints them.

The models meet where the passes do. `TokenBuffer` implements `TokenStream`, and
`Parser` reads such a stream: a sequence of tokens, and the questions of `Detect`
put to it. `Scopes` shows what `Generate` takes for the names a program may use
(`Visible`): the variables of its own unit that are in scope, and in a function those
around it. `Copies` takes blocks of
every shape a sequence of `new_instruction` can give them.

The behaviours that are hard to test are listed, each at its line, under
`hazards` in `PROJECT.json`. The repository has no test of the generator.

## 2. Modules

**`TokenStream`** is the abstract specification: tokens are taken once each, in the
order of the source, except for the one last taken, which may be handed back.

**`TokenBuffer`** is the implementation, with `Detect` inside it.

| Code | Model |
|---|---|
| `parse_state.buffer`, `count`, `cap` | `buffer` (next token last), `cap` |
| tokens the lexer has returned; null returned | `scanned` (history), `ended` |
| the token a parse function holds between shift and free or push | `held` |
| `lookahead_state` | `upstream`, `unused`, `tokens`, `lookCap` |
| `parse_peek`, `parse_shift`, `accept`, `expect`, `parse_push` | `Peek`, `Shift`, `Accept`, `Expect`, `Push` |
| the three places `lookahead` finds a token in | `LookUpstream`, `LookUnused`, `LookFurther` |
| the same at the end of the source, where null is stored and read | `LookPastTheEnd` (outcome "crash") |
| a `detect_ambiguous_*` call, its recursive calls, `merge_lookahead` | `Detect`, `Return`, `Merge` |
| `resize` (`xalloc.c`) | `Resize` |

**`Detect`** has the four functions of `parse-detect-ambiguous.c` as graphs of
questions ("is the next token a …?"), each with its successor for yes and for no, so
that the same definitions drive the state machine of `TokenBuffer` and the
operator `Classify` of `Parser`.

**`Parser`** is the recursive descent of `parse.c` as operators from the tokens left to
a tree and the rest. Its results are "found" (possibly the null tree), "exit" (a
message), "crash" and "undefined". The calls that go round the grammar (a block in a
function in an expression in a statement) all go through `Inner`. Names, literals and
primitive types are one token each; class bodies and positions are left out. **`MCParser`**
grows an input token by token for one of six goals, keeps what every structure it
could have makes of it (`readings`), and states the properties.

**`Types`** holds the tables of `analyze-type.c` as sets of pairs, and `type.c`'s
equivalence and the walk through the classes a class extends as recursive functions.
The types of a program are given in levels, `TypesOf`: those of a level are simple, an
object's, or made of types of the levels before. **`Expressions`** takes an operation and operands that
are analysed already and runs the analysis of that operation: `given` is the node
as the parser built it, `expression` what `analyze_expression` made of it, `end`
how it ended. A node's operand list is the chain that starts at `e->value`; an
inserted cast takes the head of the chain as the code does, and the caller
relinks it, so a slip in the relinking shows as a lost or moved operand. The arguments of
a call are passed one parameter after another (`NextArgument`). An expression that was
analysed may be an operand of the next (`GoOn`); a statement may not.

**`Scopes`** has two phases. Actions `Write…`, `Open…`, `Close`, `Else` are the parser
writing a program statement by statement, leaving in every node the `parent` the
code leaves there; `Start` calls `analyze`, which then goes over the program with
one action per kind of statement (`Hoist`, `AnalyzeBlock`, … `Leave`).

| Code | Model |
|---|---|
| nodes and what they hold | `nodes` (`body`), in the order of the text |
| `parent` pointers, 0 for one not set yet | `nodes[n].parent` |
| `symbol_map`s of a block | `tables`: entries of block, table, name and node |
| activations of `analyze_block` | `calls` |
| `get_symbol`, `parent_scope`, `get_label`, the walk of S_RETURN | `GetSymbol`, `ParentScope`, `GetLabel`, `NearestLoop`, `FunctionAround` |
| the symbol and loop written into the tree | `found`, `targets` |
| an error message, an abort, a null read | `ended`: "defined", "undeclared", "misused", "outside", "crash" |

**`CodeBlocks`** has no variables: a block is a record and every function of
`generate-block.c` is an operator from a list of blocks to a list of blocks.
Two lists are walked together in the code; when they disagree the C program
follows a null pointer, writes past an array or counts a `size_t` below zero.
The operators keep these outcomes: `inject` of a tail is "ok", "null" or
"over", `made` of a block is "ok", "short" (a parent's list ends before the
context's), "mismatched" (a parent has another symbol where the context has one; debug
builds compare them, generate-block.c 82, and exit) or "endless". Types and structs
are left out, and a symbol is a number. The exit of `join_blocks` for a missing
return struct (213-216) is left out as well: `ArgumentsFit` says that it is never reached.

**`Generate`** turns the recursion of `generate.c` into a state machine.

| Code | Model |
|---|---|
| the argument and result `parent` (NULL after an abrupt end) | `cur` (`NoBlock`) |
| the C call stack of `generate_*` with its locals | `frames`; one action for each stretch of code between two recursive calls |
| which function runs next | `at`: a statement, a further clause, an expression, or the return of one |
| `code_system.blocks` | `blocks` |
| the tree | not a variable: the next node is chosen when it is reached, at most `MaxNodes` of them |
| the symbols analysis put in scope | `scope`; in a function also `Outer`, for the variables around it, which its block is not given |
| `break_node`, `continue_node` of a loop | `brk`, `cont` of its frame |
| `generate_loop_trigger_data` | `ctx`, `prev`, `done` of the frame of a do-while |
| abort, exit, undefined behaviour | `status`: "missing" (a symbol not in the list), "rejected", "crashed" |

Undefined behaviour is a choice: an overrun of a tail's argument array
(`HeapBroken`) may stop the program at once, later or never, and the lists
`s_loop` leaves uninitialised may or may not lead to a crash
(`DoWhileOnStaleLists`). A unit is the top level, a void function or a value
function; functions are generated one at a time into the same block list, and
a function literal inside an expression is a unit of its own, so one unit at a
time is modelled. The callee of a call is an expression like any other, generated
before the arguments.

**`MCGenerate`** is the module TLC runs; the `.cfg` files differ only in the kinds
of nodes the programs are built from and in the bounds.

**`Copies`** builds a block instruction by instruction (phase "generate"), gives it a
tail, and runs `optimize_copies` over it, one step per instruction: `i`, `offset`
and `map` are the locals of the code, `instructions` its array, `source` the block
before. `origin` and `kept` are history. The map's entries that were never written
are `Unset`; reading one is reading uninitialised memory.

**`CopiesProofs`** and **`TokenBufferProofs`** hold the proofs about the module in their
name. Those about the generator are in three modules, each extending the one before it:
**`GenerateProofs`** (the operations of `CodeBlocks`, who holds which block, and what a step does
to the lists of symbols), **`GenerateArguments`** (those lists against the scope, and
what the tails pass on) and **`GenerateOperands`** (what the instructions use). Those about `Scopes` are in two: **`ScopesProofs`** (the tree the parser writes, the calls
of analyze, and the parents) and **`ScopesRules`** (jumps, names and verdicts).
**`ExpressionsProofs`** has those about `Types` and `Expressions`.

## 3. Properties and runs

The runs of the passes before and after the generator stop where the code stops, at
the end of a text, an analysis or a block; they say `CHECK_DEADLOCK FALSE`. The
generator's runs check for deadlock.

### From tokens to a tree

`Lookahead` (244 k states): sources of up to four tokens of six kinds, and every
order of the parser's operations and of detections over them. Arrays start with a
capacity of 2 instead of 16, so that they grow within four tokens; with 16 the
growth would never happen. Four tokens are enough for a detection to recurse
once, to leave a token unused, and for two detections with a push between them.

- `TakesInOrder` (refinement of `TokenStream`): whatever the look-ahead has read
  past the parser's push-back, and however the two are merged, the parser takes every
  token once and in order.
- `LooksInOrder`: a detection matches the tokens ahead of the parser one after
  another, whether they come from the parser's stack, from the token it left
  unused or from the lexer.
- `WithinCapacity`: no array is written past its end.
- `DetectionEnds` (liveness, section 5); `TypeOK`.

`Parse` (160 k states, under two minutes): every text that some reading can go
through, of up to 8 tokens for an ambiguous statement, 9 for an ambiguous
expression and for what follows `new`, 8 for chains of operators, 7 for the other
forms of an expression, 10 for statements that begin with a word of their own.
Each goal has its own alphabet, which is what makes those lengths possible:
four operands with three operators between them, a `for` with all its parts and a
body.

- `DetectionAgrees`: whenever a text can be read to its end as a definition, an
  expression, a function, a new array or a new object, that is what the look-ahead
  has found it to be. Three exceptions are named: `TypeIsMissing` (a function type with a
  parameter that has no type), `IsDeclared` (a named function could begin an
  expression as well), `ReturnsArray` (a function literal without a name that
  returns an array is not recognised).
- `Grouped`: the twelve loops of precedence group every chain with at most one
  assignment as the operators' order says, and only a name can be assigned to. Nothing is said
  of more than one: `a = b = c;` is grouped to the left and then refused as an assignment to
  no name (parse.c 677-686), which the comments at 676 and 689 call incorrect. They say it
  of `?:` as well, which is not among the operators of this property; `Parser` groups both as the code does.
- `ReadsBack`: a tree has the tokens of the text that it was read from, in their order, but for
  parentheses; and it is the tree of its own text with all parentheses written out.
- `NothingLost`: every name in the text of a statement is in its tree, once, also
  where a `for` is rebuilt from blocks; except in a labelled `for` with an
  initialiser, whose label is written into a node of another type (parse.c 1290).

### Analysis

`Expressions` (106 k states): every operation, on operands of every type (numbers of
all widths, boolean, string, null, arrays, three classes of which one extends
another, four function types, one that takes a function and an array of functions) and on operations of those. Calls and constructors
have up to two arguments. An analysis looks at one operation and the types of its
operands, so operands of each type are all there is to vary.

- `WellTyped`: every operation that analysis accepts has operands of the types it needs
  and the type of its result (`NodeFits`, which names every operation), and every cast goes from a
  type to one it is for. `Unchecked` names what the code asks nothing of: a boolean
  is compared with anything (analyze.c 240), a null is added to a string or compared
  with one in any way (analyze-type.c 822), anything can be counted up (analyze.c 529), and anything
  assigned to the length of an array (analyze.c 72). An integer given for a boolean argument makes a
  call take the comparison's zero for its next argument (`IntegerForBoolean`,
  analyze.c 171-176).
- `KeepsCommonValues`: a conversion of integers changes no value both types have. The
  number of bit patterns of a type is the constant `Patterns`: 2^8 to 2^64 in the program,
  4 to 32 in the run, in which TLC goes through every value. Only how the sizes relate to one another
  matters (`PatternsAssumption`), and the proof is for the program's sizes as well. Floats
  are left out, so that a float may lose range in a 64-bit integer (analyze-type.c
  390-395) is not seen.
- `OrderDoesNotMatter`: the two sides of an operator, or branches of a ternary,
  exchanged, give the same casts exchanged, or the same error. Two exceptions: a string and
  a null literal are accepted one way round only (analyze-type.c 822); and a ternary of types of
  which one says somewhere that it is a function where the other says that it is none
  (`FunctionOrNot`) is taken neither way round, but one order is refused and the other
  reads a member of a union that was not written (type.c 48-60, from analyze-type.c 849).
- `TablesAgree`: a cast inserted by any of the tables is the explicit one.
- `OperandsKept`: relinking around inserted casts loses or moves no operand.

`Scopes` (1.9 M states): every program of three or four statements in nine small
languages, each with the statements and look-ups that make its cases happen:
hiding, declarations in conditions, `for`, classes, all modes of look-up, two names, jumps,
nested loops and functions, two labels. A language with all forms at once would
allow two statements; hiding needs a block, two declarations and a use.

- `ResolvesInnermost`: a name means the declaration in the innermost block that
  had declared it by then, over hoisting and the order in which tables are searched.
- `LinksAgree`: the parents, set by hand in nine places, agree with what holds what.
- `EverythingAnalyzed`: no statement is left out or taken twice.
- `RejectsOnlyWrong`: a program is turned down exactly when its text breaks a rule. A
  jump out of a function, to a loop around it, breaks one and is taken (section 4): the
  exception `LeavesFunction`.
- `JumpsFindLoop`: a break or continue goes to the innermost loop around it in its
  function, or to the innermost with its label, whenever there is one.
- `ReturnsFindFunction`: a return leaves the innermost function around it.

### Generation

Bounds: `Constructs` (node kinds), `Units`, `MaxNodes` (statements and
non-literal expressions of the program), `MaxParams` (function parameters),
`MaxArgs` (call arguments). A literal may always be chosen, so the bound never cuts
a program short in the middle of an expression. Deadlock is checked in these runs:
a program that is generated, or given up, stutters in `Over`, and any other
state without a successor would be a construct nobody handles.

| Run | Programs | Properties |
|---|---|---|
| `GenStatements` (640 k states) | every statement, get, set, instanceof; 4 nodes; top level and value functions of up to one parameter | `TypeOK`, `ScopeAgrees`, `ArgumentsFit`, `ContextIsPrefix`, `OpenIsPending`, `EveryBlockEnds`, `SealedStays` |
| `GenExpressions` (1 M) | every expression but instanceof, calls with up to 2 arguments; 4 nodes; top level and void functions | `ScopeAgrees`, `OperandsEarlier`, `StackEmptyBetween`, `OpenIsPending` |

What they say:

- `ScopeAgrees`: whatever path generation took to a block, the block knows
  exactly the variables of its own unit that are in scope, in order of declaration. The
  variables around a function are never among them, and that is what
  `GenEnclosing` shows (section 4).
- `ArgumentsFit`: for every jump, the source has a value for exactly the variables
  its target has parameters for, and a return struct where one is taken.
- `ContextIsPrefix`: the debug check of `child_block`, "mismatched symbol table": the
  context's symbols are the first of every parent, the same in the same places;
  for a do-while it rests on `loop_trigger` having chosen the right block.
- `OpenIsPending`, `EveryBlockEnds`, `SealedStays`: a block without a tail is the
  current one or is held by exactly one construct in progress, all have tails at
  the end, and a block with a tail is never written again.
- `OperandsEarlier`: instructions and tails use only what their own block
  computed before them, although any operand may have ended in another block.
- `StackEmptyBetween`: pushes and pops balance over every nesting of expressions.

Why the bounds are enough to be worth running: four nodes hold a loop with a
declaration inside it, a conditional break or continue, and another statement before it, in
it or after it; and an operand left waiting while a ternary or a call, itself
with operands, moves generation to another block, followed by another statement. (Loops
of five nodes were found to be no different, and the proofs have no bound.)
Every action fires in at least one run. Nine of the properties are proved for programs
of every size (section 6).

`OperandsEarlier` is checked, and proved, without instanceof and without declarations that
have no value. With them it fails, and the code says why: instanceof reads its
operand's number after adding its own instruction (generate.c 673-676), and a
call saves and restores variables that have no value yet (the TODO at 1003).
`ArgumentsFit` and `OperandsEarlier` speak of runs in which nothing undefined
has happened (`Defined`); what is undefined is the subject of `JoinsFit`.

### Copies

`Copies` (730 k states): every block of up to four parameters and instructions, of the
copy, a store, a literal, an instanceof and a native call (one of each way the
pass treats operands), with every tail of up to one argument, those of a branch included, which
both of its blocks take (generate-block.c 193-208). Four numbers hold a
copy of a copy, an instruction that reads it, and another after that.

- `SameMeaning`: each kept instruction, and the tail, reads the values it read
  before. The operand of an instanceof is its own number (generate.c 676) and is no
  operand the pass could keep.
- `EffectsKept`: nothing but copies is dropped, and the order of the rest is kept.
- `UnreadStays`: moving instructions down in place overwrites none not yet read.

### Mutants

Each property of a passing run is paired in `PROJECT.json` with a mutant of one
definition, a plausible slip in the code, under which TLC finds it violated:

| Property | Mutant | Slip |
|---|---|---|
| `TypeOK` | `BranchIntoOnce` | `branch_into` makes one child and names two |
| `ScopeAgrees` | `RejoinInner`, `SetSymbolAnew` | `rejoin_block` takes the inner block's symbols; an assignment adds an entry |
| `ArgumentsFit` | `CommonFirst`, `InjectUntilLast` | `child_block` asks only the first parent; the walk of the lists stops one short |
| `EveryBlockEnds` | `EndsUnlessCut` | after an if whose second branch ends abruptly, the first is dropped |
| `SealedStays` | `EndReturnGoesOn` | generation goes on in a block that returned |
| `ContextIsPrefix` | `LoopTriggerLate` | `loop_trigger` takes the block after the continue |
| `OpenIsPending` | `WeaveNoBreaks`, `MergeFirst` | `weave_blocks` forgets the break list; `merge_blocks` joins one branch |
| `OperandsEarlier` | `SlotAfter` | a symbol's parameter is counted off by one |
| `StackEmptyBetween` | `ComputeInPlace` | a compound assignment peeks where it should pop |
| `TypeOK` of `TokenBuffer` | `PushAnything` | parse_push takes the null token, or one that was freed |
| `TakesInOrder` | `MergeInScanOrder` | the look-ahead is merged without being reversed |
| `LooksInOrder` | `LookUnusedAgain` | a matched token stays marked as unused, and is matched again |
| `WithinCapacity` | `ResizeToUsed` | an array is grown to what is used, with no room for one more |
| `DetectionEnds` | `AnsweredUntilClosed` | where the parenthesis is not closed, the loop over commas goes on: it matches no token and never leaves |
| `DetectionAgrees` | `AllowIfOnly` | a restriction is compared instead of tested for a flag |
| `Grouped` | `LevelLoopToTheRight` | a level of precedence recurses on its right side |
| `ReadsBack` | `MoreExpressionsUnlinked` | an argument after the first is read and not linked into the list |
| `NothingLost` | `ForBodyWithoutStep` | the step of a `for` is not linked into the body |
| `WellTyped` | `AssignUnconverted` | the conversion of an assigned value is made and not stored |
| `KeepsCommonValues` | `ConversionRowZeroExtends` | the signed rows of the table zero-extend |
| `OrderDoesNotMatter` | `NullRowOneWay` | the comparison with null is accepted one way round only |
| `TablesAgree` | `ImplicitMethodSigned` | an unsigned number widened to a signed one is sign-extended |
| `OperandsKept` | `ArgumentOfCallLinked` | the cast of an argument keeps the arguments after it as its operands |
| `ResolvesInnermost` | `EarlierBackwards` | the tables of a block are searched in the opposite order |
| `LinksAgree` | `LoopParentOutside` | the loop of a `for` with an initialiser is given the parent of its block |
| `EverythingAnalyzed` | `OnwardAfterOne` | only the first block of an if is analysed |
| `RejectsOnlyWrong` | `DefinedInAnyTable` | a name is taken for defined when any table of the block has it |
| `JumpsFindLoop` | `GetLabelLoosely` | a loop without a label answers to every label |
| `ReturnsFindFunction` | `FunctionOutside` | the walk starts one function too far out |
| `SameMeaning` | `DropCopyUnresolved` | a copy of a copy is mapped to the copy |
| `EffectsKept` | `FinishAtLast` | the last instruction is forgotten |
| `UnreadStays` | `DropCopyMoving` | all instructions are moved down at each copy that is dropped |

## 4. Disagreements found

Five runs are expected to fail; each was confirmed on a build of the program.

- `GenDoWhileHeader` / `JoinsFit`. The jump from a do-while's condition back to
  its body reads the symbols and stack the body's first block holds after it was
  filled (generate.c 390, generate-block.c 172-190). `do { let x = 1; } while …`
  follows a null pointer or writes past the argument array, in a function or after the
  declaration of a variable; otherwise the block takes no parameters and `inject_params`
  returns early (170). A while's jump back
  (432) reads its condition block in the same way: `while (i + (c == 1 ? 1 : 2) < 5)`
  leaves that block with an operand on its stack and overruns the array.
- `GenTernaryResult` / `StackPassedOn`. The arguments for the stack parameters are
  the target's own entries (generate-block.c 188-190), not the source's, against
  the comment in `generate_ternary` (1335-1339).
- `GenReturnAfterCall` / `ReturnStructFirst`. A return takes instruction 0 for the
  return struct (generate.c 494-505); after a call that is the context struct.
- `GenEnclosing` / `NoneMissing`. Analysis lets a function's body name the variables
  around the function (analyze.c 12, analyze-symbol.c 139, 167), but its block starts with
  the arguments only (generate.c 578-584): `let x = 1; u8 f() { return x; }` aborts with "missing
  symbol … post-analysis" (667).
- `ScopesJumps` / `JumpsStayInFunction`. `get_label` and `parent_scope` stop at a function
  (analyze-symbol.c 56), and the message is "must be inside a loop" (analyze.c
  638-642). But no function is ever the parent of anything: a body's parent is
  set past it (analyze.c 12), and a break in a function leaves a loop outside it.

Other behaviours kept in the model as outcomes, without a claim to set against
them: `{ break; }` joins a block that does not exist (220-224), a variable used
in its own initialiser aborts (666-669), a block with a stack and no other
parameter is never finished (generate-block.c 146), and a loop's lists start
uninitialised. A plain store into an array pops its operands the wrong way round:
`a[i] = v` puts the value where the index belongs (generate.c 942-944; compare 871-873 and
backend.c 429-435), which no property here tells apart.

In the same way, from the other passes; each was seen on a build of the program
where the program can be run to it:

- `while (true) ;` and `return;` in a function are parsed to a null pointer that
  analysis reads (analyze.c 711, 762): outcome "crash".
- A definition declares its name before its value is analysed and a `let` after
  it; both are modelled as they are.
- A detection that meets the end of the source stores and reads a null token.
- A function literal without parameters uses a type that was freed (parse.c 189,
  212), and a labelled `for` with an initialiser writes the label into a block.

## 5. Fairness and liveness

`DetectionEnds` is checked under `WF(Look) /\ WF(Return) /\ WF(Merge)`. The fairness is
that of a C call: once the parser calls a detection, the program does nothing
else until it has returned, and each step of it is enabled until it is taken.
The parser itself is under no fairness; it may stop after any operation. The
property says that the loops and recursive calls of the four functions cannot go
round without a token being matched; with a loop that goes on after its lookahead has
failed, they do.

The other machines have no liveness property. Each is a walk over a finite tree or
array, and the bound on it would be the only thing such a property shows.
The one loop of the generator that may not end is the outcome "endless".

## 6. What is proved

All theorems hold for every value of the constants, under the assumptions named in the
module, and say `Spec => …`.

### Copies (`CopiesProofs`)

From `OperationsAssumption`, `PlainAssumption`, `BoundsAssumption`: for blocks of every
size and every mix of operations,

| Theorem | Establishes |
|---|---|
| `InnerInvariant` | `[]IInv` |
| `MeaningKept` | `[]SameMeaning` |
| `EffectsStay` | `[]EffectsKept` |
| `UnreadUntouched` | `UnreadStays` |

`SameMeaning` speaks of the end of the pass only. `IInv` says what holds in the
middle of it: every number looked at so far is mapped to a number that stands for the
same value (`MapInv`); the instructions written so far are the kept ones in order, each
with its operands renumbered (`KeptInv`, `CodeInv`); the half of the array not
read yet is as it was generated (`ArrayInv`). The last is what makes the
renumbering in place sound: the pass writes at `offset`, reads at `i`, and
`offset <= i`. A number that is read was written before, because an operand is
always an earlier number (`SourceInv`), the same fact that `OperandsEarlierAlways` proves of
the blocks of the generator. A branch's arguments are renumbered like those of a jump (optimize.c
128-130), and `SameMeaning` asks it of every tail.

### Token buffer (`TokenBufferProofs`)

From `NoTokenIsNoKind`, `FirstCapacityGrows`, `MaxTokensIsNatural`: for sources of every
length,

| Theorem | Establishes |
|---|---|
| `InnerInvariant` | `[]IInv` |
| `BufferIsStream` | `TakesInOrder`, the refinement of `TokenStream` |
| `MatchesInOrder` | `[]LooksInOrder` |
| `TypesHold` | `[]TypeOK` |
| `CapacitiesHold` | `[]WithinCapacity` |

The refinement maps `at` to the tokens scanned and not ahead. `IInv` says that the
tokens ahead (the stack read from its top, then the look-ahead's own) are the end of what
was scanned (`OrderInv`), that the token held is the one before them (`HeldInv`),
and that the part of the stack the detection has walked down, with its tokens but
for an unused one, is what it has matched (`LookInv`). A merge leaves the tokens
ahead as they are, which is why it maps to a stutter. `DetectionEnds` stays with TLC.

`WithinCapacity` rests on `resize` (xalloc.c 34-54): the loop there turns a power of
two into one and a half times as much, and that into the next power of two, until it
is more than what is used; from a capacity of 1 it would go on for ever. `FirstCapacityGrows` asks for 2, the program has 16. That the result is
large enough for every use is proved of the recursive function in `Resize` by induction
(`EnoughIsEnough`); `CapInv` carries it, with the capacity at least 2, through every step.

### Scopes (`ScopesProofs`, `ScopesRules`)

From `NoneAssumption` and `LanguagesAssumption`: for programs of every size, with any
names, labels and forms,

| Theorem | Establishes |
|---|---|
| `ControlHolds` | `[]ControlInv`, the inductive invariant |
| `LinksHold` | `[]LinksAgree` |
| `TargetsHold` | `[]TargetsInv`: every jump analysis has passed has one target, that of the text |
| `JumpsHold` | `[]JumpsFindLoop` |
| `ReturnsHold` | `[]ReturnsFindFunction` |
| `NamesHold` | `[]NamesInv`: the tables and finds at every point of the analysis |
| `NamesResolve` | `[]ResolvesInnermost` |
| `AllAnalyzed` | `[]EverythingAnalyzed` |
| `VerdictsHold` | `[]VerdictInv`: a verdict has its reason |
| `VerdictsRight` | `[]RejectsOnlyWrong` |

The properties compare the code, which follows parents, with the text, which holds
its parts. Four things have to be known in between, at every step of either
phase:

- `TreeInv` (`ScopesProofs`): the nodes are one tree, numbered in the order of the text,
  each kind holding what its construct holds; the open blocks lie on one path; every
  parent is the holder, except that a function's body has none yet and is later given the block
  around the function. Each of the parser's writers keeps this, `OpenFor` with up to
  six nodes at once being the hardest.
- `ControlInv` (`ScopesProofs`): the calls of analyze that are under way are in
  blocks of the tree, and of two of them the inner one is in a statement that the
  outer one has passed, or both wait their turn in the bodies of one. What is *to come* is
  what lies under a statement no call has reached. A step takes one statement out of what is to
  come and puts the inside of it into new calls; nothing is lost or counted twice.
  A function that is not to come has had its parent set (`LinkInv`), so that every
  walk the analysis starts meets blocks only, and the walks along the parents are the
  paths of the tree.
- `NamesInv` (`ScopesRules`): the tables hold exactly the declarations of the text that are
  no longer *pending*: of classes and functions those whose block has been hoisted, of
  variables and arguments those whose statement has been reached; no name is
  in one table of one block twice. From this and the path of blocks, what
  `get_symbol` finds is `Meaning`, for each of the modes of look-up.
- `VerdictInv`: a verdict is never given without its reason. `EverythingAnalyzed` and the
  other half of `RejectsOnlyWrong` follow at the end, when nothing is to come.

`GetSymbol`, `ParentScope`, `GetLabel` and the other walks, and `Above` in the
rules, are recursive functions over node numbers. What they return is proved for the least
number for which it would be wrong (`NoLeastNoElement`, stated at the head of `ScopesProofs`, and of
the two other modules that need it, for the growth of arrays and for walks over types
and classes): the holder of a node has
a smaller number, and so has the parent. Each invariant was first checked by TLC on the programs of the run
`Scopes`. `LanguagesAssumption` says that the modes of a language are among the five
the code has (`Modes`); a mode without a mask would leave `Mask` undefined.

### Generator (`GenerateProofs`, `GenerateArguments`, `GenerateOperands`)

From `ConstructsAssumption`, `UnitsAssumption`, `BoundsAssumption`:

| Theorem | Establishes |
|---|---|
| `InnerInvariant` | `[]Inner`, the inductive invariant |
| `TypesHold` | `[]TypeOK` |
| `OpenBlocksArePending` | `[]OpenIsPending` |
| `NoValueIsLeft` | `[]StackEmptyBetween` |
| `EveryBlockHasItsEnd` | `[]EveryBlockEnds` |
| `SealedBlocksStay` | `SealedStays` |
| `ScopesAgree` | `[]ScopeAgrees` |
| `ContextsArePrefixes` | `[]ContextIsPrefix` |
| `ArgumentsFitAlways` | `[]ArgumentsFit` |
| `OperandsEarlierAlways` | `[]OperandsEarlier`, from `Valued` as well |

None of these is inductive. To show that a break leaves no block behind one must
know that no other construct holds the same block; to show that the stack is
empty after a statement, how many results each construct in progress has left
there. `Inner` adds both to the types: while the status is "running" there is a
function `h` such that

- `Shape`: a block is unfinished exactly if it is current or held by a frame,
  no block is held twice, and the fields of each frame are what its stage needs;
- `Levels`: after the first *i* calls in progress, `h[i]` results are on the
  stack of every block held there, and `h` grows by what each frame has pushed
  (an operand's number, an update's target, nothing for a statement);
- between statements `h` is zero everywhere.

The first section of `GenerateProofs` gives the type and the effect of every operation on
the block list: which blocks are added, with how high a stack, which get a tail, and that the
others are unchanged. Then there is one lemma per action; each shows that the step leads
from one `Ready` state to another, and `InnerStep` collects them over the disjuncts of
`Next`.

`ScopeAgrees` needs more than the current block. After a statement list generation goes on
in a block that some call named long before, or in one made by joining several, so the
first invariant of `GenerateArguments`, `Agreed`, says of every call in progress what the blocks it
refers to know:

- `Known`: a block from before the call has exactly the names that were in scope where the
  call began; one that will be joined with others begins with these. The body of a do-while
  gives its condition more: its context is the block in which the body stood before the statement that first
  continued (`loop_trigger`), or where the body ended if none did, so the context chosen
  so far is a prefix of every block that waits to continue.
- `Apart`: only the current block's list grows, and it is none of those that a call
  in progress relies on, so what a call knows stays true.
- `Chain`, `Discipline`: scopes grow inwards, and calls for statements hold calls for
  expressions but not the reverse.
- `Targets`, `Idle`: the target of a compound assignment has a symbol, so that no symbol is
  added when its number is changed; and the block a call returns to has none yet.
- `Whole`: no block was made from a parent with too few symbols or with others. It is
  `ContextIsPrefix`, and it also is what makes a joined block's list the context's list.

`ArgumentsFit` is about the tails, and a tail is judged against a block that may be much
older or not yet made. Where one operation makes both, they fit by what `child_block` and
`inject_params` do with the list of the first parent. The back edges do not:
a loop's header is made before the condition and the body, with its parameters fixed, and
whatever the body has become by its end must still have a value for each. The invariant of
`ArgumentsFit`, `Supplied`, therefore adds to `Agreed`:

- `Flows`: every tail whose arguments are all there fits each block it leads to: the same
  positions, the same variables there, and a return struct where one is taken.
- `Sound`: no block loses the value of a parameter, and only functions have the struct.
- `Laden`: for every loop in progress, each block that may still be joined to its header, and to
  the block after it, carries a value for every parameter of theirs: the current
  block, and the blocks that calls inside the loop keep (an operand's block, the one with the
  condition of an if, those that wait to break or continue). The header itself is `Steady`: its
  parameters are among the variables that were in scope at the loop, and no result of an
  expression is one of them, which `Inner` gives, since a loop is a statement.
- `Returning`: in a function, every block generated into or referred to has the struct, so
  no jump to a block that takes one can lack it.
- `Plausible`: no jump has gone on with arguments that are not there; a null argument is a
  crash of the code, and the model stops.

The lemmas come first: what `child_block`, `join_blocks` and `merge_blocks` make of
the values of their parents (`Grown`, and `Fed` after each operation), then one lemma per
action, as for `Inner`. The join of several waiting blocks is the longest: its list
is the context's, so `Known` is needed to see that each parent has the same variables in the
same places.

Each part was first checked by TLC on the programs of `GenStatements` and
`GenExpressions`. Enabledness and
termination are out of reach of the prover, and nothing recursive is defined.

`OperandsEarlier` is proved of the programs for which the runs check it: `Valued` says that
the constructs have no declaration without a value and no instanceof (section 3 says why
it fails with them). An operand's number comes from a symbol, from the stack or from the instruction
last added, and a block takes its first numbers as parameters, so the invariant, `Ordered`, counts:

- `Located`: what a block has in its symbols, on its stack and as its return struct
  are numbers it has.
- `Room`: it has at least as many numbers as there are such things, and after an expression one
  more. A child of the block has one parameter for each of them; a number taken over as
  it is must not be past those.
- `Backward`, `Terminated`: each instruction, and the tail, has used earlier numbers.
- `Holding`: the first branch of a ternary waits with its value, and the block a call returns
  to is empty until the call is made.

### Expressions (`ExpressionsProofs`)

For all classes, fields, types, operands and argument lists, of any number and
length, under

- `ClassesAssumption`: the classes are finite in number and none is its own ancestor. The code
  does not check the second; where it fails, the walks of the analysis never end
  (a hazard at analyze.c 808), and there is nothing to say of their result;
- `TypesAssumption`: a type is made of types that were there before it, as the parser builds
  them;
- `OperandsAssumption`: operands are values of the program's types or literals, nothing is declared
  with the type of null, and fields have types of the program;
- `PatternsAssumption`: the number of patterns of an integer type is even and positive, and a wider
  type has a multiple of a narrower one's, which powers of two are:

| Theorem | Establishes |
|---|---|
| `EquivalentIsEqual` | `equivalent_type` says yes of equal types only, and of all of them |
| `AnalysisOfAlways` | `[]AnalysisOf`, the inductive invariant |
| `WellTypedAlways` | `[]WellTyped` |
| `TablesAgreeAlways` | `[]TablesAgree` |
| `OperandsKeptAlways` | `[]OperandsKept` |
| `OrderDoesNotMatterAlways` | `[]OrderDoesNotMatter` |
| `KeepsCommonValuesAlways` | `[]KeepsCommonValues` |

The properties are about a node after its analysis, and alone say nothing of the node
before it. `AnalysisOf` ties the two together: between operations the expression is an operand;
after one, the given node is one that a step builds from analysed operands (`Built`), and end and
result are what `Analyze` makes of it. The work is then in the analysis:

- the tables, by kind (`ConversionRegular`, `PromotionRegular`, `FloatRegular`): every row names a kind
  that both operands reach by the explicit cast or by none, and calls `replace_cast`
  on the later operand first (the first one's `next` is lost by it);
- `equivalent_type`: by induction over the levels of types, the result for two types is "yes" exactly
  if they are equal, at any depth of arrays and functions (`EquivalentIsEqual`); without it
  "converted" would not mean "has the type". The walks through classes, for fields and for the
  arguments of a constructor, are taken by induction over the depth of a class (`ClassInduction`);
- one lemma per operation (`BitwiseNotOutcome` … `TernaryOutcome`): if the analysis is done, each operand
  of the result is the operand given, or in a cast or a comparison with zero, and it fits
  (`Outcome`). For calls and constructors the induction goes over the parameters (`PassedIs`): what is
  converted so far stands where it did, and the chain left is the one given from there on. This
  is where `IntegerForBoolean` has to be excepted;
- exchanging the sides (`NumbersExchanged`, `CompareExchanged`, `TernaryExchanged`): the tables are
  symmetric up to the order of their calls, and so is the relation of being equivalent;
- a value through a cast: of the casts between integers that analysis inserts, or that are asked for, each
  keeps the values in both ranges, by the arithmetic of `%` for any sizes (`ModUnique`), so no width
  of the program has to be tried.

### Only model-checked

`Parser` and `MCParser`: `DetectionAgrees`, `Grouped`, `ReadsBack` and `NothingLost`. Their
operators are `RECURSIVE`, over token sequences and trees that the tokens decide, and
the prover does not take such modules. A recursive *function* over a set that is there
beforehand is no obstacle: the walks of `Scopes`, the growth in `TokenBuffer`, types and
classes are such functions. Out of
reach altogether are liveness and `ENABLED`, so `DetectionEnds` and the absence of
deadlock in the generator's runs stay with TLC. What TLC shows there is for every input up to the bounds of section 3.

## 7. Plan

Done: the token buffer and its refinement, the parser, scopes, conversions, copies, the
generator's control flow, and the proofs above. Left, in this order:

1. Classes in `Generate` (`generate_class`, `generate_new`) with the layout of the structs,
   so that the index of an inherited field (analyze.c 106) can be checked.
2. `Patches`: the LLVM backend's deferred output and live sets.
3. The stream's push-back with its lines and offsets, and the lexer over it.

## 8. Not modelled, and why

Types, structs and classes in the generator (`generate_new`, `generate_class`):
they decide which struct an instruction names, and no property here tells them
apart. Native calls and field reads have the shape of `Linear`. Class bodies in
the parser repeat `let` and function declarations. Typedefs: the code has their
tables and their analysis, but their syntax is commented out (parse.c 1163-1174).
The labelled `for` with an initialiser writes into memory of another type; `Scopes`
has no such loop, `Parser` marks it. The lexer branches on one character at a time, with no
state between tokens. The backends print. The core library is a program in the
language. Positions are only printed in messages.
