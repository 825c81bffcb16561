# A TLA+ model of Tailslide

Tailslide (`src/libtailslide`) is a compiler library for LSL, the scripting
language of Second Life. It parses a script to a syntax tree, resolves names,
checks types, propagates constants, simplifies the tree, and prints it or
compiles it to one of two virtual machines (LSO and Mono). It is sequential:
one thread, no persistence, no messages. What is hard in it is of another kind.
Passes share a tree that they change while they visit it; counters, cached
flags and patches made by one pass are believed by a later one; and a script is
any combination of nested statements, jumps and labels, of which the tests hold
a few dozen. The modules here state what those passes promise each other, check
it on all the small combinations and prove part of it for every size.

All paths of sources below are relative to `src/libtailslide` unless they
start with `src/`.

## 1. The system

### Components, their state and how they interact

The command line (`src/tailslide_cli/main.cc`) and the tests drive one fixed order:

    parse -> collectSymbols -> determineTypes -> recalculateReferenceData
          -> propagateValues -> finalPass                    (always)
          -> optimize -> validateGlobals -> checkSymbols -> setMangledNames -> print
          -> desugar -> LSO or Mono compiler                 (only without errors)

| component | state it keeps | operations | who uses it |
|---|---|---|---|
| Syntax tree: `ast.cc`, `ast.hh`, `lslmini.hh` | `_mParent _mNext _mPrev _mChildren _mChildrenTail` of each node | `setNext setPrev setParent pushChild replaceNode takeChild setChild removeChild`, visiting with `node_child_iterator` | the grammar builds it, every pass reads it, the simplifiers and desugaring change it |
| Lexer, grammar, driver: `lslmini.l`, `lslmini.y`, `tailslide.cc` | the scanner, `ScriptContext::parsing` | `parse` | calls the tree |
| Symbols: `symtab.cc`, `symtab.hh`, `passes/symbol_resolution.cc` | symbol tables of nested scopes; per symbol its references, assignments, jumps | `define lookup`, the resolution visitors | visits the tree; filled in before type checking |
| Jump and label resolution: `passes/symbol_resolution.cc` | labels per scope, pending jumps, innermost loop, the last label of each name | `visitLoop visit resolvePendingJumps` | its classification (`isBreakLike`, `isContinueLike`, `hasUnstructuredJumps`) is believed by compilers and clients |
| Type checking: `passes/type_checking.cc`, `types.cc` | the type of each node; foldability of each read | `TypeCheckVisitor` | reads symbols and jumps; every later pass believes the types |
| Constant folding: `operations.cc`, `passes/values.cc` | the constant an expression stands for | `TailslideOperationBehavior`, `ConstantDeterminingVisitor` | the simplifier writes the constants into the tree |
| Validation of globals: `passes/globalexpr_validator.cc` | whether the initializer at hand is valid | `SimpleAssignableValidatingVisitor` | after the simplifier; the LSO image believes that every initializer has a constant |
| Desugaring: `passes/desugaring.cc` | none; it rewrites the tree | `DeSugaringVisitor`, `LLConformantDeSugaringVisitor`, `MonoDeSugaringVisitor` | both compilers believe that nothing is left to convert |
| References, values, simplification: `lslmini.cc`, `passes/values.cc`, `passes/tree_simplifier.cc`, `passes/constant_expression_simplifier.cc` | `_mReferences _mAssignments _mConstantValue`, the count of folds | `recalculateReferenceData propagateValues optimize` | counts change inside the tree's own operations |
| Final pass: `passes/final_pass.cc` | all-paths-return flags | `AllPathsReturnVisitor`, warnings | `getAllPathsReturn` is believed by the code generators |
| LSO code: `passes/lso/bytecode_compiler.cc` | a code stream, jump and label maps | one visit per statement and expression | patches earlier code |
| LSO image: `passes/lso/script_compiler.cc`, `resource_collector.cc` | the image stream, registers, heap, offsets and counts of an earlier walk | `visit(LSLScript)` and below | uses byte streams; the collector's numbers and the writer's places must agree |
| Byte stream: `bitstream.hh` | `_mData _mPos _mSize _mAllocSize _mEndianness _mReadOnly` | write, `moveTo`, `resize`, `makeSpace`, `removeSpace`, `duplicate`, `makeView`, `ScopedBitStreamSeek` | everything in `passes/lso` |
| Mono compiler: `passes/mono` | CIL text and name tables, whether a result was pushed | one visit per statement and expression | reads the desugared tree |
| Printer: `passes/pretty_print.cc` | the text | one visit per node | reads the simplified tree; its output is read again as a script |
| Logger: `logger.cc` | collected messages, script assertions | `log`, sort, report | everyone |
| Allocator, built-ins, strings | arena; a table; text | | |

### What is hard here, and what makes each component correct

* **Tree.** Lists are linked before they have a parent, and removal, replacement and
  hoisting rewrite up to seven pointers in an order that matters. *Correct:* the
  two directions of every list agree, siblings share their parent, nothing is
  its own ancestor, iterating over a node meets exactly its children, the tail is
  the last child.
* **References and simplification.** Counts are kept by addition and subtraction
  while nodes come and go, and drive the removal of declarations. *Correct:*
  counts never fall under the mentions left; nothing named is removed; nothing
  with a side effect is lost; the loop of passes ends, and ends only when nothing is left
  to do.
* **Jumps.** One pointer holds the innermost loop, and one name can label several
  places. *Correct:* a jump classified as a break or continue goes where one would go.
* **Foldability and returns.** Decisions made from the order of the source, true
  of the order of execution. *Correct:* a run never reaches a foldable read without
  the declaration (it can, see 5, item 3), nor the end of a body that always returns.
* **Names.** Four walks define and resolve names, lookup goes by name and type, and
  new names are made up at the end. *Correct:* a use means the declaration lexical
  scoping gives it, and still does under its new name.
* **Types, folding, desugaring.** What an operator makes of its operands is written
  down in a table, in the folding code and in two compilers. *Correct:* they agree:
  folding keeps the type and the laws of arithmetic; after desugaring nothing is left to convert.
* **Initializers of globals.** They read other globals, are folded, removed, validated by the rules of another compiler
  and evaluated in three ways. *Correct:* what is legal is accepted after any folding, what is accepted can be
  written, and every global starts with the value written for it.
* **Code for expressions.** Operands are evaluated from right to left, results are
  left on a stack of typed or untyped words, and offsets are added by hand. *Correct:*
  the code finds what it takes, leaves what it should and does what the statement means.
* **LSO control flow and image.** Forward patches, two walks that count the same things,
  indices that start at 1 beside positions that start at 0. *Correct:* the code
  does what the body says; a loader that follows the registers finds
  everything.
* **Byte stream.** Size, allocation and cursor move separately; views share bytes.
  *Correct:* what a file would do, without touching an unallocated byte.
* **Printing.** Folding and hoisting leave trees no text was ever read as. *Correct:*
  what is printed is read as the tree that was printed.

`PROJECT.json` lists every hazard at its line with the properties that watch it.

## 2. Modules

| module | models | kind |
|---|---|---|
| `AstForest` | what the tree promises: sequences of children | abstract specification |
| `AstTree` | `ast.cc`, `ast.hh`: the pointers | state machine |
| `AstTreeProofs` | theorems about `AstTree` | TLAPS |
| `Simplifier` | `lslmini.cc`, `values.cc`, `tree_simplifier.cc`, counting in `ast.cc` | state machine |
| `SimplifierProofs` | theorems about `Simplifier` | TLAPS |

| `Body` | statements of a body and the order LSL runs them in | operators; the reference of the next three, and the shape of `Symbols` |
| `BodyProofs` | lemmas about least numbers, trees, the walk over one and where control comes without doing anything | TLAPS, for `ExecutionProofs` and `SymbolsProofs` |
| `JumpResolution` | `symbol_resolution.cc` for labels, jumps and loops | walk as a state machine, over `Body` |
| `Execution` | foldability, all-paths-return, and the runs they are about | extends `JumpResolution` |
| `ExecutionProofs` | theorems about `JumpResolution` and `Execution` | TLAPS |
| `LsoCode` | statements in `bytecode_compiler.cc`, with a machine that runs the code | extends `Execution` |
| `LsoCodeProofs` | theorems about `LsoCode`: what its code is like | TLAPS |
| `LsoMeaningProofs` | theorem about `LsoCode`: what its code does | TLAPS |
| `Symbols` | `symbol_resolution.cc`, `lslmini.cc`, `symtab.cc`: declarations, uses, new names | state machine over scripts arranged as in `Body` |
| `SymbolsProofs` | theorems about `Symbols`: what is resolved, and the new names | TLAPS |
| `Types` | `types.cc`: coercions, casts, the table of operators | operators |
| `Folding` | `operations.cc`, `values.cc` | state machine: an expression is folded from the inside out |
| `Expressions` | what expressions and straight-line bodies mean | operators; the reference of the next seven |
| `TypeChecking` | `type_checking.cc` | operators |
| `Desugaring` | `desugaring.cc` | operators |
| `MonoCode`, `MonoMachine` | `mono/script_compiler.cc`; the machine and runtime its CIL is for | operators |
| `LsoExpressions`, `LsoMachine` | expressions, calls and layout in `lso/`; the machine its bytecode is for | operators |
| `Globals` | `globalexpr_validator.cc`; initializers in `values.cc`, `tree_simplifier.cc` and both `script_compiler.cc` | the pipeline of a script's globals; uses `TypeChecking` |
| `Compilation` | the pipeline from text to two machines, for one statement | composes the seven above |
| `Grammar` | `lslmini.y`: expressions, precedences | operators on a parser's stack |
| `Printing` | `pretty_print.cc` for expressions, after `tree_simplifier.cc` | state machine over `Grammar` |
| `ByteStream` | the operations of `BitStream` as operators | operators |
| `ByteFile` | what a stream promises: a file with a cursor | abstract specification |
| `BitStream` | a stream in use, with seeks, a view or a copy | state machine over `ByteStream` |
| `BitStreamProofs` | theorems about `BitStream` | TLAPS |
| `LsoImage` | `script_compiler.cc`, `resource_collector.cc` | state machine over `ByteStream` |
| `MCBody`, `MC*` | instances for TLC, refinement mappings | |

Definitions whose comment starts with `Mutant` are not used: each is the form a
mapped definition would have with a plausible bug in it, kept to show that a
property would notice.

### AstTree

The variables are the five pointer fields, `parsing` (`ScriptContext::parsing`) and
two histories. `LinkNext` and `LinkPrev` are the grammar's `setNext`/`setPrev` on parentless
nodes, `EndParsing` the end of `parseInternal`, `PushChild` the method (also run
by the constructors), `ReplaceNode` is `replaceNode` with a fresh replacement (and thereby `takeChild`
and `setChild`, which replace by a null node), `HoistChild` is
`replaceNode(cast, child)` as the constant expression simplifier calls it,
with the child still inside the cast, and `RemoveChild`
is `removeChild`. `setParent` visits siblings until one already has the parent;
`Walk` is that loop as a least fixed point, so that the module needs no recursion.

`chained` remembers nodes whose list came from the parser as a chain:
`pushChild` then sets `_mChildrenTail` to the chain's *first* node. The passes
never push to such a list; a client may, and `ClientPushes` says whether it does. The run sets it to FALSE: the
hazard at `ast.cc:81` is no property's, and `TailIsLast` and `PushAddsToEnd` exempt chained nodes (see §5, item 4).
`discarded` remembers hoisted-over nodes, whose `_mChildren` is stale; nothing uses
them again.

`MCAstTree` maps the pointers to sequences of children (`Kids`, `Loose`) and checks that
every step is a step of `AstForest`, where the order of siblings is plain.

### Simplifier

A program is its units in depth-first order, so that "the visitor meets" is a
counter `at`. `Recalculate`, `Propagate`, `StartPass`, `Visit` and `EndOptimize`
are the passes; `Rebuild` is a client that takes an operator's operands and puts
them into a new operator with the tree's API, after which counts are too high
(`takeChild` takes them off once, the constructor and `replaceNode` put them on twice).
Whether an expression is constant is modelled; the value of the constant is
not. A function's mention of itself is not counted by `Recalculate` but is taken off by
`Decrement`, as in the code; `Minus` stops at 0 as `removeReference` does.

### Body, JumpResolution, Execution, LsoCode

A body is a sequence of statements in source order, each naming the statement
around it. `Body` defines where control goes next from each of its points; it is
what the language says and the three compilers' passes are checked against it. `BodiesAssumption`
is what the grammar and name resolution leave: a node follows its parent and what is between them
is below it (`InOrder`), statements have their parts (`Shaped`), where the grammar wants no statement in one
there is an expression, which is one node as a label is (`Plain`), a local is declared in
a block and read behind its declaration in that block (`Scoped`). TLC checks it of every body.

`JumpResolution` walks a body as `SymbolResolutionVisitor` does, one statement per step:
entering and leaving loops with the one pointer `_mCurrentLoop`, declaring labels in scopes, collecting
jumps, then resolving each in its scope, moving it to the last label of its name when
Linden semantics are on, and classifying it. `LindenJumps` is the visitor's
parameter of that name; `collectSymbols` always passes true; the
visitor handles both.

`Execution` continues: it decides which reads are foldable, which bodies always
return, and then runs the body with every outcome of every condition. The state
of a run is where control is and which declarations have run.

`LsoCode` emits code cell by cell: an opcode, operand or expression is a cell;
operands that are patched later start as 0. It then runs the code on a
machine with a stack, side by side with the body, from any point of it. Only the last jump to a label is patched, as in the
code; the others keep operand 0. Emission may start where a run of the body starts, so that `LsoSpec` has
the runs of `Execution` among its behaviours and one run of TLC checks both; the proofs use the same fact
(`LsoImplementsExec`). Code is emitted under the rule the compilers get
(`LindenJumps` true), bodies run under both.

### Symbols

A script has globals, functions, states with handlers, parameters, locals, blocks, labels and uses. `at` is
the visitor's place and `phase` its walk: over the globals and prototypes, over the states'
names, over the bodies. `Enter` and `Leave` are the visit methods before and after
the children; `Define` is `defineSymbol` with its errors (`Hidden`, `Reserved`, `Clashes`), `Lookup` is
`lookupSymbol` through the enclosing scopes, by type, and `Resolved` what
`resolveSymbol` tries. Calls can stand in a global's initializer: the symbols are resolved before
`globalexpr_validator.cc` complains. Branches and loops open no scope and are left out of the scripts. `Arranged`
says where the grammar lets each kind of node stand. Labels wait for the end of their function as in the code. Then `MangleSymbol` takes
the tables in the order they were registered and gives each symbol the next name that is free in its table.

`UsesMeanDeclarations` compares this with lexical scoping as a rule book would put it (what is
visible where, which names clash), errors included. `ObfuscationKeepsMeaning` resolves the
printed script anew by that rule book. It leaves out functions that have two labels of one name
(`OneLabelOfName`): the jump goes to the last of them, which under a name of its own may be out of its sight.

### Types, Folding

`Folding` wraps one operator, cast, declaration, member or constructor at a time around a constant and keeps the
constant the code folds it to (`cur`) next to the type the checker gives (`typ`). `FoldUnary`, `FoldBinary` and `FoldCast` follow
`TailslideOperationBehavior` type by type. An integer has `Width` bits; a float is an exact fraction, so rounding, infinities
and NaN are left out. What the host leaves undefined (a shift by too much, an overflow) may be any integer.
The code has a case of its own for each pair of types, with its own conversions, test for zero and list of operators, and so
has the module (`IntegerBesideFloat`, `FloatBesideInteger`, `FloatBesideFloat`, `VectorByInteger`, `VectorByFloat`,
`StringBesideString`, `StringBesideKey`, `KeyBesideText`). The properties say how these cases belong together:

* `FoldKeepsType`: the constant has the type the checker's table gives, so the generators choose the same instructions.
* `OperatorLaws`: the laws of `/` with `%`, and of `==` with `!=`, from either side.
* `MixedNumberLaws`: folding gives what it gives after the promotions the desugared program would make (`FoldsAsPromoted`);
  the comparisons of all four number cases are those of one order, through a third number of either type too (`OneOrder`);
  and what is subtracted or divided by can be added or multiplied again, with nothing but a zero refused (`Undone`).
  They hold for exact fractions. In the code an integer beside a float is compared exactly, as every 32-bit
  integer is a `double`; its sums and quotients are rounded.

### Expressions, TypeChecking, Desugaring, MonoCode, MonoMachine, LsoExpressions, LsoMachine, Compilation

`Compilation` writes one expression from the inside out (`Write...`), each node checked as it is put on;
then it makes it a statement of a function (an expression statement, a declaration, a condition, a return), and if
there were no complaints compiles and runs a script that calls the function. Its results
are `meaning` (the definition of the language in `Expressions`), `plain` and `tuned` (CIL without and with `optimizeSubtractions` and
`omitPushes`) and `lso`. Values are symbolic terms in a normal form, so that one comparison speaks of all values.

* `Expressions` evaluates from right to left and knows of globals, parameters, locals,
  calls and a trace of what library functions were called with.
* `TypeChecking` and `Desugaring` are the visitors' methods, one operator each; children are rewritten after their parent, in the places they
  then have.
* `MonoCode` emits typed instructions. `MonoMachine` is stuck when an instruction does not find the types it takes,
  so "well typed" is "never stuck".
* `LsoExpressions` emits opcodes with the types they are told of and byte offsets computed as the code does
  (globals behind headers, parameters and locals from the base pointer, members in opposite orders in memory and on the
  stack). `LsoMachine`'s words remember their type only to notice an opcode that was told another one.

Three things are excluded by name from what the properties claim:

* `Warned`: `integer *= float`, which the checker accepts with a warning; neither target makes of it what it is short for.
* `KeepsInteger`: in LSO a float function returns the integer it was given; the comment at
  `lso/bytecode_compiler.cc:442` says that this is how the original compiler behaves.
* `DropsCall`: see 5, item 8.

### Globals

A script is a sequence of globals with their initializers. `Propagate` finds constants in order, `Simplify` is the
optimizer at one global (its initializer, then whether it is still mentioned), `Validate` the validator, and `CompileGlobal` puts a value into the
variable: what Mono's constructor computes from the fields before (`Field`), or the constant that the LSO image holds (`Cell`). The
compilers follow if nothing was complained of. `written` says whether the program assigns to the globals later.

The references are written from the source text: `InOrder` evaluates initializers in order with `Evaluate`;
`LsoInitial` is what the comments of `lso/script_compiler.cc:126` and `:159` say LL's compiler does with names; `Legal` is LL's grammar of
initializers. Two limits are the code's own. With folding, more is accepted than is legal, as the validator sees what was folded;
and for LSO the comment at `lso/script_compiler.cc:134` says that propagation does not know its rules for names, so
`LsoFollowsNames` is about compilation without folding. `list m = l;` is refused: `LSLLValueExpression::getConstantValue` gives
no list where a list is wanted (`WholeList`).

`MCScript` checks globals in one run with `Compilation`: a behaviour is about statements or about globals, and the other half
rests, since the statements' machines start with symbolic values of globals, which stand for any.

### ByteStream, BitStream, LsoImage

`ByteStream` has one operator for each method of `BitStream` on the record of its fields.
`BitStream` runs them in any order with nested `ScopedBitStreamSeek`s. Reading is a
move of the cursor and changes nothing else. `LsoImage` uses the same operators to
lay out a whole script: the globals, then the functions, then the states and the heap, with
tables filled in by seeking back, and then the registers; `OffsetOf` and the counts are the
resource collector's. The properties are a loader's view: start from the
registers, follow offsets, decode.

### Grammar, Printing

`Grammar` is the expression part of `lslmini.y` as a shift-reduce parser: `Read` puts one token on the stack, after
reducing (`Reduced`) what the table of precedences says binds at least as tightly. Its special rules are there: a minus
sign and a number are one literal wherever they meet; a cast takes only what follows it at once, and the parentheses it
needs leave no node; a `>` behind the last coordinate closes the vector unless what follows can only be an operand
(`%prec INITIALIZER`).

`Printing` writes a text token by token (`Write`), keeping only texts that are right so far; at any point at which the text is an
expression it may end (`EndText`), is simplified or not, and `tree` is what the printer gets.
`Printed` is the printer, in pieces, and `Lexed` joins pieces that touch as the lexer would. A tree reads
back if parsing that gives it again, parentheses aside (`Form`). `SignMisread` names the trees in which the sign of a literal, or the sign
before one, ends up where it is read as something else; they are what `printing_signs` is about, and
`PrintedReadsBack` claims nothing of them. Texts need not be well typed: the printer does not look at types.

## 3. Runs

| run | instance | shows |
|---|---|---|
| `ast_tree` | 5 nodes, symmetric, no client pushes | lists stay sound under every order of operations; refines `AstForest`; pushing appends |
| `simplifier` | 2 globals, 2 functions, 1 handler, all combinations of the initializers and bodies in `MCSimplifier`, with globals above or below the functions, 3 option sets, 0 or 1 rebuild | `CountsHold` (never too low, and exact if no client rewrites), no dangling names, no lost effects, termination, completeness |
| `lso_code` | about 17,500 bodies, both label rules | jumps are what they are classified as (`JumpKindsHold`, `StructuredIsClassified`); foldable reads see the initializer unless a loop leads back to them from a label behind them (`StraightReadsSeeInitializer`); all-paths-return is true; the code does what the body does, stack clean, jumps on instructions |
| `execution_back_edge` | one body | **violation**: a foldable read without the declaration |
| `bit_stream` | up to 4 bytes of 2 values, growth step 2, 2 nested seeks | stays in the allocation, seeks return, refines `ByteFile` |
| `lso_image` | up to 3 globals, functions included, 1 or 2 states, memory of 240 | everything is found (`EverythingFound`, `HeapWalks`); refused exactly when too large |
| `folding` | integers of 4 bits, boundary constants of every type, 2 operators | folding keeps types and the leave to make strings, and its cases by type are one arithmetic and one order |
| `folding_dot` | the same, 1 operator | **violation**: the product of two vectors is not their dot product |
| `compilation` | one operator, cast, call or constructor over composite operands, in 4 kinds of functions, as every kind of statement; besides, 669 scripts of up to 4 globals, most of which read the one before, 6 sets of options, globals assigned or not | three compilations agree with the meaning; desugaring is complete; errors are reported once; legal initializers are accepted (`RulesOfGlobals`), can be written, and globals start with what is written (`GlobalsStartAsWritten`): on Mono whatever is folded, on LSO by its rules for names |
| `symbols` | 3,186 scripts of few names | resolution is lexical scoping; new names change nothing |
| `printing` | 70,506 expressions of up to 6 tokens, by themselves or in a vector, folded or not | what is printed is read as the tree that was printed |
| `printing_signs` | the same | **violation**: a sign is misread |

### Bounds, and why they are enough

* *Five nodes*: `replaceNode` and `removeChild` touch a node, its parent, two neighbours and a
  replacement. Five allow a list of three under a node under another, a list of four, and a
  replacement with a child. The invariants are proved for every number.
* *Programs of `MCSimplifier`*: chains that become unused one pass after another (a local keeps a
  function which keeps a global), recursion of one and of two functions, locals with and without
  effects, lists. `MaxRewrites = 1` bounds the client: one rebuild already
  makes counts inexact.
* *Bodies*: `MCJumpResolution` nests two levels of loops and branches around a jump
  with statements and labels in, between and behind, and every loop kind at each
  level; a third level repeats what the second does to the innermost-loop
  pointer. `MCExecution` has one variable, since foldability is decided variable by variable,
  and a jump and a label in, before and behind its declaration and its reads, in loops and branches. `MCLsoCode` has every kind of
  statement in every other on two levels, with labels of one name more than
  once, and takes the bodies of the other two as well. Four of the seven properties are proved for every body.
* *Streams*: four bytes in a buffer that grows by two take it through growing
  by the step, growing by more than it, shrinking, and growing into a kept buffer. Two seeks nest.
  `MIN_REALLOC` is a constant of the module and proved about for every value.
* *Scripts of `MCSymbols`*: two globals, a function with a parameter, a handler with a block, and a state, over the names `x`,
  `y`, a library function, a built-in constant, an event and `_0`: each name can be a variable, a function, a parameter, a label
  and a state, declared before, after and inside of its use, and a function called by initializers before and behind it. Two scopes inside a function suffice for a name to be hidden and uncovered again.
* *Folding*: 4 bits have a smallest integer whose opposite does not exist, and an exact set of quotients to check; two operators
  put every operator over the result of every other. Constants include 0, -1 and the smallest integer; 1 is the result of a
comparison, and casts give floats that equal integers.
* *Compilation*: `MaxNodes = 1` counts only what is written around the leaf; leaves and companions are themselves assignments,
  increments, calls with effects and differences of mixed types, so that trees are up to four deep. An operator is compiled from
  its operands' code and types only, all of which the leaves have.
* *Globals*: a chain of four names reaches from an integer through a promotion and a name of that to a list; there are names of every type, with and
  without initializers, and each form of an initializer that is legal or nearly so.
* *Printing*: what a piece of text is read as depends on its neighbours on one level of brackets, and six
  tokens hold two operators and their three operands with one sign or cast. The other beginnings put them where brackets could touch, or a `>` could end a vector.
* *Images*: `TotalMemory = 240` (16,384 in the code) is chosen so that some scripts are
  too large and some just fit; three items allow a global to name an earlier one with
  a function in between and a list with strings and vectors.

### Deadlock and fairness

Except for the streams, every run says `CHECK_DEADLOCK FALSE`, because the program ends:
a pass returns, a body returns, an image is finished, and in the tree every node may come
to be in use. The only fairness is
`WF_vars(Next)` of `Simplifier`: `optimize` is a loop on one thread which the system
does not interrupt, so that it takes its next step as long as there is one. It is what
`Terminates` needs and it claims nothing of the client (a `Rebuild` is bounded by
`MaxRewrites`).

## 4. Proofs

`AstTreeProofs` proves, for every set of nodes, `TypeOK`, `NeighboursAgree`, `Acyclic`, `ListComplete`, `TailIsLast`
and `PushAddsToEnd`. `TypeCorrect` needs nothing; the others assume `~ClientPushes`, without
which the last two are false. The inductive invariant is

    IInv == TypeOK /\ NeighboursAgree /\ Acyclic /\ TailIsLast /\ FirstIsHead /\ DiscardedAlone

Neither part that is not a property is a luxury: the properties do not say that a
list's head *is* its first child (`FirstIsHead`), without which `removeChild` of the first child might
leave it on its list, and `HoistChild` leaves a node whose `_mChildren` points into
another list, harmless only because it has neither parent nor children nor siblings
(`DiscardedAlone`). `Acyclic` is stated on sets ("no set of nodes is closed under the pointer"), and
`Walk`, `Listed` and `Ancestors` are least fixed points, so that induction along a list becomes
instantiating one set; a lemma per action shows its new set closed. `ListComplete` follows
from the invariant (a child that is not listed would give a set closed under `prev`), and
`PushAddsToEnd` from the invariant and `ListComplete` before and after the step.

`BitStreamProofs` proves, for every set of bytes, growth step, byte orders and client
bounds, `StreamTypeOK` (which includes that cursor, size and allocation are in order),
`SeeksInStream` and `SeeksReturn`. The invariant adds `ViewShares`: while a view
exists it has the stream's buffer, which is why writing through the view keeps the stream
well formed. The lemmas (`ExtendedFacts` ... `CopyFacts`) state what each operator of
`ByteStream` does to size, cursor and buffer.
`SeeksReturn` follows as `moveTo` cannot fail while `SeeksInStream` holds:
`ScopedBitStreamSeek` ignores its result.

`StreamImplementsFile` proves the refinement of `ByteFile`: every step of a `BitStream` is a step of a
file with a cursor, or none. `ContentsFacts` relates the bytes of the file to the buffer and its
size, and there is one lemma per kind of step (`SeekStep`, `WriteStep`, `MakeStep`,
`TruncateStep`, `RemoveStep`, `ShareStep`).

`SimplifierProofs` proves every safety property of `Simplifier`, for every well-formed program,
every set of optimizations and any number of rebuilt operators: `CountsHold`, `NothingDangles`,
`FoldedReadsAreFixed`, `NothingLeft` and `EffectsStay`. The invariant adds

- `Untouched`: before `optimize()` the tree is as parsed, so the constants were found in all of it;
- `ConstantsFixed`: nothing below a constant is a call or an assignment, and a constant read is of a
  variable that nothing assigns;
- `Downward`: what is below a unit that left, left with it;
- `PassedIsClean`: nothing applies to what the visitor has passed, until it changes something.

`CountsHold` depends on `ConstantsFixed`: a recursive call is not counted, but would be taken off
with a folded expression or a pruned local. It leaves only with its whole function
(`RecursionLeavesWhole`), as constants have no calls. `NothingDangles` follows from the counts
(`PrunedIsUnused`), `NothingLeft` from their exactness and `PassedIsClean`.
`IsConstant` is recursive: `ConstantsDefined` shows by least counterexample (`LeastExists`, from the library's
`WFMin`) that the function exists, ranking globals before functions as the visitor does, and
`ConstantsClosed` that it holds of whatever is below a constant.

`ExecutionProofs` proves four properties for every body that satisfies `BodiesAssumption`, and either label rule.
All of them need the order of a visit first, which is the matter of `BodyProofs`: `DescendMeets` and `OnwardMeets` say that a
visitor has met exactly the nodes that stand before the one it comes to, and `EndMeets` that it has met all when it ends.

- `StructuredHasNoOther`: a jump is pending from when the visitor meets it (`PendingMet`), each pending
  jump is resolved once, and gets one kind or marks the function (`KindsInOrder`).
- `JumpKindsAreRight` (`JumpKindsHold`): `KindsInv` says that the loop the visitor remembers is the innermost one around it,
  unless it has forgotten it (`LoopKept`; leaving an inner loop sets the pointer to null, not to the outer loop), and that each kind was
  given on its grounds (`KindsGrounded`). That the grounds suffice is about control alone. A silent step leads `Ahead` (`SilentFlow`) or to an
  expression, so from any position the program comes to one where it does something after fewer steps than there are positions (`TrailSettles`, by
  the pigeonhole principle), and one silent step does not change which (`ArrivesStep`). A row of labels behind the loop is a row of such
  steps (`RowOfLabels`), and so is the way from the label up to its loop when `LastInLoop` holds (`LastLeadsBack`, by `OnlyLabels` in each block).
- `StraightReadsAreInitialized`: `Comes` is the region of positions from which control comes to the read without passing
  the declaration's end: behind the declaration and before the read, or in a loop around the read. `FlowComes` shows
  that a step into the region starts in it or at the end of the declaration. A jump into it would need a label
  between declaration and read, for which the read is not foldable, or one behind the read in a loop around it. The last
  case is the one that the property excludes, and how the error of section 5, item 3 was found: the proof did not close without it.
- `ReturningBodiesReturn`: the visitor's flag means that the body is a `DeadEnd`, a node in a set which nothing leads out of
  but from within (`Closed`): a return is one, a block whose last statement is one, a two-way branch of two. `VisitorInv` ties the flags to dead
  ends at each position of the visitor; the end of a node of such a set is only reached from the end of another (`DeadStays`), so no run reaches the first.

`LsoCodeProofs` proves `JumpsLand` and `StackClean` of the code of every body that satisfies `EmittableAssumption` as well. While the compiler
walks, `Emission` says of what it has emitted so far:

- `Laid`: each jump has its operand behind it and each operand its jump in front of it, an operand leads to where an instruction starts
  (`Starts`), and an instruction takes a value exactly when the one before it leaves one. An instruction that starts behind a value that is waiting
  would be a second way to it with another stack, so `Starts` excludes that as well; a hole, whose operand is still 0, leads just behind itself;
- a value waits at the end of the code (`Awaited`) exactly when the visitor has left an expression or a declaration (`Pending`) and its parent has still to take it;
- every position the compiler remembers, in `top` and `labelMap`, is one that instructions start at, and every operand of `jumpMap` is there;
- `HolesOpen`: `hole` and `pastElse` of every statement around the visitor point to an operand, once the part in front of it is emitted.

`Kept` says what survives a step: where instructions started and operands were, they still do and are, however the text grows (`AppendedCell`,
`AppendedJump`) and is patched (`Repatched`). `OpenEmits`, `CloseEmits` and `FinishSettles` are the steps of the compiler. The machine then stands at an
instruction with the stack the instruction before it leaves (`Standing`), whichever way it came.

`LsoMeaningProofs` proves `SameNext` of the same bodies: the code does what the body does, in its order, whatever the conditions.
`CompilerInv` is the inductive invariant, `CodeInv` with one part for each stage:

- *The order.* `Done` are the positions the visitor has come from, `Succ` where it goes from each. It is not the order of the body, as the
  increments of a `for` are emitted behind its statement (`Late`, `Skipped`); still it comes to a position once (`DoneGrows`) and to all (`DoneEnds`).
- *The picture.* While the compiler walks there is a `w` that gives each position done its place in the code (`Drawn`): there are its cells (`Pictured`); what
  `top`, `hole` and `pastElse` hold is the place they were set at (`RememberedOf`); the jumps of a statement lead to where it goes on once
  the part that patches them ends (`JointsOf`); and `jumpMap` and `labelMap` hold the *last* jump and label of each name (`Latest`).
  The hard step is the end of a node (`CloseDraws`), which emits a jump and patches another: that one belongs to the
  condition or the first branch of the same statement (`OwnerExists`), and nothing was said of it before (`OwnerUndisturbed`).
- *The code when it is done.* `LaidOut`: `w` is now defined everywhere, and a jump statement leads to the last label of its name if it is the last jump
  to that name, else just behind itself (`FinishLays`).
- *The simulation.* `SourceNext` goes silently from position to position for as many steps as there could be, `MachineNext` from cell to cell,
  and neither counts the other's steps: a position may have no cell, a jump may lead to a jump, and an empty loop goes on forever. `ComesTo` and `NeverStops` say
  without counting, by closed sets, what comes of a place, and `MachineShows` and `SourceShows` that both sides show just that (`PathSettles`, by the pigeonhole principle).
  A silent step of the body is a jump of the code or no step at all (`PointStep`), and control that goes on forever without doing anything meets a jump again and again (`NeitherStops`).
- *The machine.* `Follows`: from where the machine is, it shows what it shows from the place where the body goes on behind the last
  statement (`ExecuteFollows`). Where all paths return, no return stands behind the code; that its end is then
  never reached is `ReturnsInv` of `ExecutionProofs` once more, by the closed set of dead ends (`StartsAlive`).

`SymbolsProofs` proves `UsesMeanDeclarations` for every script that is `Arranged` and every set of symbols of the
language without two of one name: the three walks and the tables they fill accept exactly the scripts that keep the rules
of names, and give each use the declaration it means. `SymbolsInv` is the inductive invariant:

- `Where`: what each phase has walked; the first ends with the first state, as states stand behind the other globals;
- `Lists`: the collected labels and pending jumps are those met so far in the function the visitor is in;
- `WellScoped(Source) => errors = {}`: nothing is complained of without a reason;
- `errors = {} => RulesKept`: while nothing was complained of, the tables hold what has been `Seen`, and no more, the rules
  hold between any two of these declarations, and each use that has been `Answered` has the symbol it means in the *whole* script.

The last part is why the property is no matter of a single step. A use is answered when the tables hold a part of the script;
that what is declared later does not change the answer is the order of the walk: a local is defined after its
initializer, a label is looked for when its function is left, globals and states are all defined before the first body
(`LookupMeans`, with `InitializerSees`, `UseSees` and `JumpSees` for what has been seen). The converse direction needs that a clash of two names is noticed at the later of
the two, at a time when nothing else hides it (`ReservedNames`, `DefineKeeps`).

It goes on to `ObfuscationKeepsMeaning`. `MangleInv` says that no two declarations have one new name, that all new
names were made up so far, and that each number was spent on a new name or skipped for an old one. The last part is needed for
the loop in `setMangledNames` to end (`NameLeft`, by the pigeonhole principle): names are skipped for the sake of one table at a time, and
without it nothing bounds the numbers. A handler and the state `default` keep their names, which are not made up ones
(`NewNamesApart`), so a use sees under its new name the declaration it was resolved to and no other, whatever scope that is in
(`OnlyTarget`, `UseKeeps`), and in particular nothing that the old name was hidden by.

Assumptions: `Null` is not a node; `ClientPushes` is Boolean; `Zero` is a
byte; `MinRealloc`, `MaxSize`, `MaxSeeks` are natural; `"big"` is a byte order (the constructor's default);
every program is `WellFormed`, which says what the grammar, `globalexpr_validator.cc` and
`symbol_resolution.cc` leave, and which TLC checks of every program of the run; every body satisfies `BodiesAssumption` and every script is
`Arranged`, likewise checked; every body that is emitted is `Emittable`, likewise: its nodes are of the kinds there are, jumps and changes of state have no parts, a local
variable has an initializer, the default one that `bytecode_compiler.cc:420` emits when none is written, and that and conditions have a value
(`type_checking.cc:13`, `:137`); no two symbols of the language share a name (`builtins.txt` declares each once);
made up names are different (`_%x` of a counter), none is that of a symbol of the language, empty or `default` (they start with `_` and
a digit), and there are as many as are needed, twice the nodes of a script (the code makes them as it goes).

**Only model-checked**: `Terminates` (liveness under fairness), the refinement `ImplementsForest`
(it maps pointers to sequences by recursion); the folding of constants, whose integers need `Bitwise`, which the prover does
not take; and everything about expressions, text and images, whose structure is followed by recursion: `EverythingFound` would
need what a fold over all globals before one adds up to, by induction on the script.

## 5. Where the code and its documents disagree

With a run that shows it:

1. `types.cc:93` calls the product of two vectors a "dot product"; `operations.cc:462` folds it to
   `x1 * z2 + y1 * y2 + z1 * x2` (`folding_dot`).
2. `pretty_print.cc:384`: "Make sure we don't end up with `--2147483648`". Only an integer constant that is the whole operand
   is kept apart (`printing_signs`): `- -x` is printed `--x`, a decrement; with a constant `n` of -1, `-n * x` becomes
   `--1 * x`; with `n` 2, `x / -n * y` becomes `x / -2 * y`, which divides first although the sign's operand was the product;
   `<1, 2, a > n>` becomes `<1, 2, a > -1>`, where the first `>` ends the vector.
3. `type_checking.cc:411`: a read is foldable unless something "between us and its declaration" makes
   it unfoldable. A label that is the whole statement of a loop stands behind the loop's condition, yet
   a jump to it reaches the condition without the declaration (`execution_back_edge`): in
   `jump over; integer x = 5; while (x == 5) @over;` the read is folded to 5 and the script reads 0.

Seen while modelling, without a run of their own (each is the reason for a condition or a definition in the models):

4. `ast.hh:188` says `pushChild` adds "to end of list". `ast.cc:81` takes the first
   of a chain for the tail, so on a list that came from the parser the next `pushChild` cuts off
   all but the first child. No pass does this; a client of the library can (`ClientPushes`).
5. `symbol_resolution.cc:277` calls a jump to just behind "the innermost loop statement enclosing
   the jump" break-like. `visitLoop` (`:211`) sets `_mCurrentLoop` to null when it
   leaves an inner loop, so a jump behind that loop is not, and its function counts as having unstructured
   jumps. `JumpKindsHold` is therefore one-sided: what is classified is right.
6. `bitstream.hh:483`: "a read only BitStream cannot modify the underlying data"; `operator<<`
   (`:285`) on a view asks only when it must grow.
7. `bitstream.hh:140` promises "an identical copy"; `duplicate` (`:151`) does not copy the byte order.
8. `return f();` in a function without a value, where `f` has none either, is accepted (`src/tests/scripts/void_return.lsl:3` calls it legal); LSO code
   does not evaluate what has no size, and `f` is not called (`bytecode_compiler.cc:449`, `DropsCall`).
9. `symtab.cc:87` makes sure that a new name "isn't already in use", in the table of its own symbol. `-O3`
   (`src/tailslide_cli/main.cc:117`) renames globals and functions and leaves locals their names: a local that is called `_0`
   takes the uses of the global that becomes `_0`. `ObfuscationKeepsMeaning` is about renaming everything.
10. The constant expression simplifier replaces a cast to the type its operand already has by the operand, and the parentheses of a cast are no
    node: `(integer)(a + b) * c` is printed `a + b * c`. `Printing` hoists nothing.
11. `writePlaceholder` (`lso/script_compiler.cc:322`) leaves the stream one byte longer than the cursor's
    place, so when the last global is a placeholder a stray byte stands between the
    globals and the functions. A loader that follows the registers
    is not disturbed (`EverythingFound`), and the byte counts for the limit of memory
    (`RefusedWhenTooLarge`).
12. `globalexpr_validator.cc:9`: "don't bother complaining if the rvalue isn't constant due to a type or symbol
    resolution error that we've already reported". In `integer a = undeclared; integer b = a;` the second is complained of
    as well: `values.cc:58` notes the error at the symbol of `a`, where nobody looks. A read of a wrong member, as in `float f = v.s;`, is complained of twice
    because it is taken for the whole of `v` (`WrongMember`).

## 6. What is not modelled, and the plan

Left out for good: layout and text (how numbers and strings are spelled, statements' layout, CIL wording), the arena,
the table of built-ins, rounding, infinities and NaN of floats, option parsing.

Abstracted in what is modelled: values of constants (`Simplifier`), expressions inside control flow
(`LsoCode`: one cell each) and control flow around expressions (`Compilation`: straight-line bodies), keys, floats and rotations in
the image (laid out as strings and integers are), `detach`, `clear`, foreign buffers, moved-from streams and `hash` of
`BitStream`, and any use of a view after its stream's buffer has been replaced.

Not modelled yet: the logger and script assertions; the warnings of `FinalPassVisitor` and
`checkSymbols` about symbols nobody uses; checks of event handlers' signatures; state changes inside functions;
the class, labels and jumps of CIL; reading of statements and declarations, and what an
error or an exception during parsing leaves behind (`tailslide.cc:97`).

The plan, in its order:

1. `AstForest`, `AstTree`: everything else changes or reads the tree. *Done, proved.*
2. `Simplifier`: the state that lives longest between passes. *Done, proved.*
3. `Body`, `JumpResolution`, `Execution`, `LsoCode`: control flow. *Done, proved: what walks conclude of bodies, that code is
   well formed, and that it does what the body does.*
4. `ByteStream`, `ByteFile`, `BitStream`, `LsoImage`. *Done, the stream proved.*
5. `Symbols`: names and scopes, against lexical scoping. *Done but for warnings.*
6. `LsoExpressions`, `LsoMachine`: expressions, call frames, parameters and locals. *Done; its composition with
   `LsoCode`'s control is left.*
7. `Types`, `TypeChecking`, `Desugaring`. *Done*, with `Globals` for initializers.
8. `Folding`. *Done for integers, exact fractions, strings and lists.*
9. `MonoCode`, `MonoMachine`. *Done for expressions; labels and jumps, composed with `Body`, are left.*
10. `Grammar`, `Printing`. *Done for expressions; statements (a dangling `else`, bodies without braces) are left.*
11. The parser object's life cycle, errors and reuse; `Logger`: sorting and script assertions.
