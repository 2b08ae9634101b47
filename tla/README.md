# Verification of v-compiler

v-compiler translates a small C-like language to x86-64 assembly text. It is one
process with one thread: `main` (src/main.c) maps a file, runs the tokenizer, the
parser and the code generator one after the other, writes `main.asm` and calls
`nasm` and `ld`. There are no threads, messages or callbacks; what is hard about it
is the order of long sequences of calls on a few shared tables, the recursion that
meets bounded or hand-shifted vectors, and the many places where the process ends or
reads where it should not.

The line numbers below are those of the files under src/.

## 1. Inventory

| component | source | state | operations |
|---|---|---|---|
| tokenizer | tokenizer/tokenizer.c | `m_src`, `m_index`, the bounded `m_buf`, the token vector | `tokenize`: an outer loop over lexemes, inner loops over words and numbers; `peek`, `consume`, `push_back`, `push_token(_value)` |
| statement parser | parser/parser.c | `m_tokens`, `m_index`, the C stack of `parse_stmt` | `parse_prog`, `parse_stmt` with eleven handlers, `parse_expr` |
| expression parser | parser/binstmt/binstmt.c | a second `Parser_data` over a slice, the C stack of `parse_expr_prec_on_slice` | `parse_expr_to_terminator`, `parse_primary_on_slice`, `make_bin_from_nodes` |
| syntax tree | parser/parser.h | the node types | none |
| code generator | generation/generation.c, generation/helper/helper.c | `m_vars` (the index is the slot), `m_block` (rows of local names), `m_func` (parameters seen), `__label_counter`, `m_output` | `generate_gen_data`, `collect_vars_in_stmt`, `assign_slots_in_stmt`, `gen_stmt`, `handle_vars`, `delete_local_var`, `remove_last_block`, `gen_prog` |
| stack frame layout | generation/helper/helper.c:21-49 | none of its own: it is computed from `m_prog` | `slot_to_offset` |
| expression code | generation/helper/helper.c:290-490, the texts of generation.c | at run time: registers, the stack, memory | `gen_expr_to_rax`, `gen_binexpr_to_rax`, `gen_bindexpr_to_rax`, the prologue, the labels, calls and parameters |
| driver | main.c:27-288 | the mapped file, `main.asm`, `main.o`, `v` | `main`, `load_file`, `print_optional_prog` |
| vendored libraries | libs/ | vectors, strings | third-party: not modelled |

How they interact. Each stage hands its whole result to the next: a token vector, a
tree, a text. Inside a stage the functions share one struct (`Token_data`,
`Parser_data`, `gen_data`) and recurse into each other. The expression parser is
called by the statement parser and moves its `m_index`; the frame layout is called by
the generator with a slot, for every access. The label counter is the only state that
outlives a `gen_data`.

What is hard, and what makes each part correct:

* **Code generator.** Three walks over the tree fill, use and shrink one flat table
  whose index is the stack slot. Correct means: a name has one entry; while a
  variable's scope lasts, the code emitted before and after any deletion names the
  same slot; locals are gone after their body; `m_block` follows the bodies; jumps
  resolve inside nasm's local-label scopes; two variables do not share bytes.
* **Statement parser.** One pass, no backtracking, three tokens of look-ahead; loops
  that consume without a bound. Correct means: it accepts exactly a grammar that can
  be stated without it, its nodes stand where the grammar has them, and it ends.
* **Expression parser.** A slice is cut first and parsed by precedence climbing.
  Correct means: the tree is the one of the precedences; the recursion is paid for by
  tokens and by levels.
* **Tokenizer.** A bounded buffer, look-ahead after consumption, a literal that
  consumes unseen. Correct means: it is a longest-match lexer and loses no character.
* **Expression code.** Operands wait on a stack that also holds the variables, parts of
  registers keep what was in them, labels and jumps are written in the order of the
  text. Correct means: an instruction changes no variable and takes no branch that the
  source would not; what is pushed is popped; a call comes back with the frame of its
  caller.
* **Driver.** Exit codes against artefacts left over from an earlier call and against
  another call in the same directory, a diagnostic printer that dereferences what it
  prints. Correct means: the generator is handed a balanced tree, status 0 stands for
  an executable made from this source, and the process ends.

PROJECT.json lists the components with their status and, under "hazards", each of
these hard places at its line.

## 2. Modules

| module | stands for | |
|---|---|---|
| Lexicon | the character classes, symbols and reserved words of tokenizer.c | constants and helpers |
| Lexer | what the tokenizer promises | abstract specification |
| Tokenizer | `tokenize`, one step per turn of a loop | implements Lexer |
| TokenizerProofs | | theorems |
| MCTokenizer | | instance |
| Syntax | `parse_expr`, the lists and the heads of statements, as predicates "the tokens from i to e are a ..." | shared operators |
| ExprParser | `parse_expr_to_terminator`, with its call stack | state machine |
| ExprParserProofs | | theorems |
| MCExprParser | | instances |
| Parser | `parse_prog` and `parse_stmt`, with the stack of running calls | state machine |
| Grammar | the programs `parse_prog` is meant to accept, over the positions of the tokens | reference definition |
| ParserProps | the promises of the parser | properties |
| ParserProofs | | theorems |
| MCParser | | instances |
| Ast | the node kinds of parser.h as a pre-order listing | data |
| Frame | `slot_to_offset` and the bytes an access touches | operators |
| Symbols | the searches, insertion and deletion of `m_vars` | operators |
| Generator | the three passes of the code generator | state machine |
| GeneratorProps | its promises, and what comments say of it | properties |
| GeneratorProofs | | theorems |
| MCGenerator | | instances |
| Trees | programs whose expressions are trees, with the arithmetic of the widths | data |
| Emission | the instructions emitted for such a program | operators |
| Words | numbers of a width in bytes, signed and wrapped, and the operators on them | operators |
| Processor | the processor that runs an emitted text, one instruction per step | state machine |
| Levels | what a text must be for the processor to keep its stack | operators |
| ProcessorProps | what a running program keeps of its stack, its calls and their arguments | properties |
| ProcessorProofs | | theorems |
| Machine | the text that is emitted for a program, on the processor | composes Emission and Processor, implements Source |
| Source | what the statements mean | abstract specification |
| MachineProps | what a running program keeps of its source, and what comments say of it | properties |
| MachineProofs | extends ProcessorProofs: the texts of Emission are levelled | theorems |
| MCMachine | | instances |
| Nodes | the contents of the nodes that `parse_stmt` builds | operators |
| Driver | `main`, with another invocation on the same files | composes Parser and Generator |
| DriverProofs | | theorems |
| MCDriver | | instances |
| Recursion | induction over numbers, functions by recursion and counts along a listing, for the modules with theorems | lemmas |

Syntax is shared by ExprParser and Parser: Parser uses `BinExpr`, a statement of the
outcome of the expression parser without its steps, and ExprParser shows that statement
right for its own machine (`OutcomeByTokens`). Frame extends Ast and Symbols extends
Frame; Generator and Trees both extend Symbols, so that the two views of the generated
code, with its tables and with its values, share statements, slots and offsets.
Processor runs any text and knows nothing of the compiler; Machine gives it the texts of
Emission (`Compile <- ImageOf`) and refines Source. Driver takes Parser and
GeneratorProps as instances over its own variables; what the one leaves in `nodes`
becomes, by Nodes, the `prog` of the other. The token kinds are the strings of Syntax in
the parser and of Lexicon in the tokenizer.

### How state and actions correspond to the code

**Tokenizer.** `m_src`, `m_index`, `m_buf` and `tokens` are the fields; `loop` says
which loop is running. Every turn of a loop is an action; `push_back` on a full buffer
drops the character, as in tokenizer.c:32. `exit` on a lone `!` ends in "exited".
Lexer takes a whole lexeme per step; the mapping of Tokenizer reads the position of
the current lexeme off the history variable `from`, and a turn of an inner loop is a
stutter.

**ExprParser.** The two functions that call each other become `calls`, one record per
running `parse_expr_prec_on_slice` with its minimum precedence, its left operand and
what it waits for: nothing (`at = 0`), the right operand of the operator at `at`, or
the inside of a parenthesis (`at = -1`). A tree is its span of tokens with the set of
spans of its operators, which is all that precedence is about. The lines
binstmt.c:179-186 can never be reached and have no action.

**Parser.** `open` holds one record per `parse_stmt` that has called `parse_stmt`: for
a statement of its body, or, in a FOR, for cond1 and cond3. A leaf statement and the
head of a body are taken in one step, because nothing else can happen in between; a
FOR is several, because statements are parsed inside its head. `Exit` is every
`exit(1)`. `Overrun` is a read behind the token vector, after which C promises
nothing: the behaviour ends there. A FOR keeps the zeroed statement when cond1 or
cond3 is none (parser.c:917); it is a node "ZERO".

**Generator.** `pc` and `open` are the walk and its C stack, `m_vars`, `m_block`,
`m_func` and `label` the fields and the counter of the same names, `out` the text as
abstract instructions. One action per branch of `gen_stmt`, one per turn of the
parameter loop and of the deletion loop, two for a pass over the tree. `Exit` is every
`exit(1)`; `Crash` is a read by `slot_to_offset` behind the statements of the program.
Where one leaf both fails a lookup and overruns, either end may come first in the
model. `main` calls `generate_gen_data` once; a second call in one process is not modelled.

**Machine and Source.** Emission is the walk of `generate_gen_data` once more, giving
instructions instead of table changes: registers, widths, offsets, labels. It has one
text per statement of the listing (`StmtText`: that of a leaf, the part of a body
statement in front of its body, the part behind), in the table that the statements
before it leave (`VarsBehind`), and `Emit` puts them one behind the other. An expression
is the listing of its nodes with an operator behind its operands, and `Evaluate` walks
it with a stack of what the operands come to: a text in Emission, a number in Source, a
depth in `PushDepth`. That is the recursion of `gen_bindexpr_to_rax` and
`gen_binexpr_to_rax`, without a RECURSIVE operator. Processor has `regs`, `mem` (bytes
that were written), `ip` and one action per kind of instruction (`cqo; idiv` leaves its
remainder in rdx); `Trap` is a division by zero or one that overflows, `Fault` an access
outside the mapped stack, `Quit` the exit system call. An instruction carries the line
it was emitted for, which moves nothing: the refinement mapping reads the line of Source
off the instruction that runs next, and the values of its variables off their cells. The
instructions of a statement stutter until the one that changes a variable or leaves the
line. `image` has the text and what is known of it: the cells of the variables, the
cells that no waiting operand reaches and no other variable shares (`kept`), whether
Source promises anything (`promised`), the arguments that are written in calls, and the
levels. `calls` is a history of what each call owes its caller.

**Levels.** A level says, of one place in the text, whether the frame is built, how many
bytes of it are in use, and what rdi holds; it needs no run. `LevelsOf` reads the levels
off the text from top to bottom, which is the order in which the generator counts its
pushes and pops on paper. `Levelled` then asks that they agree along every way control
may take (jumps, both sides of a branch, and the ways back), that no instruction pops
what its own code did not push, that a function stores rdi before anything changes it,
and that numbers and jumps stay in range. A program whose text is levelled keeps its stack
(section 5, ProcessorProofs), and the text of every program that compiles is levelled
(`TextLevelled`; MachineProofs).

**Driver and Nodes.** `stage` says what `main` does next; Parser and Generator take
their own steps in the stages "parse" and "generate". A file is known by where its text
came from: "old" (an earlier invocation), "blank", "mine", "other", "mixed" (one text
over the rest of a longer one) or "gone". `Other` is another invocation in the same
directory; it appears from `fopen` on, since before that `main` touches no file and
the order does not matter. `spoiled` is history: a write was cut short or the other one
used the files after `main` had opened them. `Tails` are the tokens that are found
behind a file which fills its last page, where no NUL ends the text.

### Abstractions

* A token is its kind (and, in the tokenizer, its characters); a name is a model
  value. cond1 and cond3 of a FOR are leaf statements in Ast: a FOR there with a body
  statement in its head is outside the instances. Declarations of type `void` and
  parameter lists with a comma, which the parser takes, are outside those of Driver.
* An expression in Generator is its kind and the names it looks up, in order: what its
  tables and slots depend on. Values, registers and widths are those of Emission. More
  than six call arguments are outside both.
* The tokenizer produces neither `and` nor `or` (there is no such symbol in its
  table), so Generator takes no label number for short-circuit code. ExprParser and
  Emission keep both operators, which the code treats; in Emission their labels are
  relative skips.
* In Emission `cmp`, `setcc` and `movzx` are one instruction, and so are `test` and
  `je`: nothing happens between them. The processor has the instructions and registers
  that are emitted.
* A byte has `ByteValues` values. All widths shrink alike, so that every wrap, partial write
  and sign boundary of 1, 2, 4 and 8 bytes is there, at numbers TLC can count to. The
  cut of an operand literal to 32 bits is kept as the cut to four bytes.
* A missing cond1 or cond3 of a FOR is a zeroed node, and the kind 0 is EXIT with an
  integer literal: Nodes says so.
* What Source promises (`Promised` in Trees) is the class for which a C reading and the
  code agree: declarations over variables of their own type and, elsewhere, binary
  trees of literals; quotients, comparisons and truth values in eight bytes only; no
  ELSE, no function, no call, no local variable. The other programs are run too and
  keep the properties of ProcessorProps; section 4 lists how their meaning is lost.
* Call arguments have the kinds that carry a value. Another token there makes the
  generator call `atoi(NULL)`.
* The names of the functions of a program are told apart from the labels that the
  generator writes itself, `_start` and `_placeholder0`, `_placeholder1`, ..., with one
  exception: `JumpsResolve` knows by `Spelling` which names are those of a placeholder. A
  program that calls `start()` or `placeholder0()` without having such a function would
  be assembled; `Assembles` of Driver and `Compiles` of Machine leave it out.
* The text produced before an `exit` is discarded: `main` writes it only at the end.
* `main` prints the tree before generating code, and the printer falls through from
  WHILE to FOR to FUNC (main.c:168-203). A top-level WHILE, and a top-level FOR whose
  condition is not a literal, end there: Driver shows it (`NoLoopTests`). The instances
  of Generator leave those programs out at the top level and have them inside bodies;
  those of Machine run their text all the same, as the generator would write it.

## 3. Runs

| run | what it asks | expected |
|---|---|---|
| generator | types and loop bounds, unique entries, rows against bodies, nested bodies never compiled, jumps resolve, slots stable, locals gone, uses declared, disjoint bytes, termination | pass |
| tokenizer | types and the buffer's bound, no character lost, implements Lexer, termination | pass |
| expr_parser | types, minimum precedences climb, depth is paid for, the tree of the precedences, parentheses never succeed, outcome by tokens, termination | pass |
| parser | types, accepts the grammar, nodes derive, spans nest and cover, termination | pass |
| machine | control and widths stay in range, the emitted text is levelled, the stack is level between statements, functions return to their caller's frame, the argument arrives in the parameter, the text refines Source | pass |
| driver | what the parser hands over is balanced, no loop with a test compiles, status 0 means `v` is from this source, termination | pass |
| doc_reserve | "Compute bytes to reserve on stack: slots * 8" (generation.c:467) | violated: operands are pushed onto the cells of variables |
| doc_condition | "evaluate condition -> rax ; test ; je skip" (generation.c:342) | violated: a literal condition is never evaluated |
| doc_arguments | "function '%s' called with wrong number of arguments" (generation.c:244) | violated: a call with as many arguments as its function has parameters is refused |
| doc_undefined | "Undefined variable at codegen" (helper.c:284) | violated: a visible variable can be refused after a body that shadowed it |
| doc_terminator | "parse a contiguous expression ... until the first ')' or ';'" (binstmt.c:219) | violated: tokens before the terminator can be dropped |
| doc_unclosed | "Expected ')'" (parser.c:681) | violated: a head that is not closed is read past the tokens |

Definitions introduced as "Mutant:" are wrong on purpose, the way a slip in the code
would be: a dropped reset, an off-by-one, a token kept or skipped. PROJECT.json pairs
each property of a passing run with one that breaks it under the run's own instance,
which shows that the bounds are wide enough for the property to fail.

A violated run is a finding of PROJECT.json: the comment says one thing, the code does
another.

Three of the passing properties say that the code does less than its author can have
meant, and no comment or message promises more. `NoNestedBlockCompiles`: closing a body
pops two rows of `m_block` for the one it pushed (generation.c and helper.c:491), so that
a program with a body inside a body always ends in `exit(1)` when the outer one closes.
`NoParenthesis`: the slice is cut at the first `)`, so the branch for a parenthesised
operand never finds its closing token. `NoLoopTests`: no loop with a condition to
evaluate gets from `main` to an executable. The first two are proved in general
(section 5).

Where a comment or a message does promise more, the promise is the property of a run that
expects a violation. Next to doc_arguments a theorem says what the code does instead:
`CallsTakeOne`, behind a function with parameters every call of a compiled program has one
integer argument. One such comment has a theorem only: "create hash entries for every let
identifier", "including nested lets" (helper.c:56-57, generation.c:459). No pass enters
the body of an ELSE or of a WHILE, so a let there gets no entry and its program is refused:
`EnteredOrRefused` (section 5).

### Bounds, and why they are enough

* **generator.** All pairs of 43 units (15 leaf statements; 7 openers with 4 bodies:
  empty, a used local, a shadowing local, two locals) and, as the second one, 16
  bodies inside bodies, behind the declaration of `a`. A slot moves only when a body
  closes, and a clash needs a declaration or a parameter list before it and one after
  it: two units are the shortest history that has both, and the types occur in every
  order of sizes (1, 2, 4, 8). What follows a nested body is never generated, so it is
  tried last only. One of the functions is called placeholder0, the label that the
  generator writes behind the first function: in front of another body or behind one,
  both jumps to its label and jumps to others occur. One leaf assigns to a name that the
  other unit may declare, in front of it or behind it, or not at all.
* **tokenizer.** Every text of up to 4 of 10 characters, one or two of each class, and
  every run of up to 6 letters and digits with `BufSize` = 4: longer than the buffer
  by three, with a reserved word at every place. The look-ahead is two characters; 4
  are two lexemes with a look-ahead each.
* **expr_parser.** Every sequence of up to 4 tokens of 8 kinds (operand, three levels,
  both parentheses, `;`, a foreign token), and every chain of up to 4 operators over 7
  operators of all 6 levels, with and without a parenthesis in front: three operators
  are needed to close two calls at once, four to climb again after it.
* **parser.** Every kind of statement with every kind of expression, bodies two deep,
  FOR with and without each part, pairs of leaves; each program also broken off at
  every place, and with each token dropped or replaced by one of `Wrong`. An error of
  a handler shows up as a token left behind or taken too much, which one edit makes.

* **machine.** 2095 programs: every tree of one operator, and the trees of two and three,
  over a variable, a negative one and a literal, in each of the four widths; every pair
  of assignments, branches, loops and exits of literals; functions with and without a
  parameter, with and without a local, called from the top level, an initialiser, a
  loop and a function; programs that overwrite a return address. Three operators are
  what it takes for an operand to wait while another one waits. `ByteValues` = 4, so that
  200 or -3 are at the limits of a width, and `StackTop` = `StackSize` = 120: room for
  the frames of the instances, and an end that the recursive function reaches. The
  emitted text names widths and never looks at the size of a number, so that nothing
  in it tells the scale.
* **driver.** 139 files: a declaration and one or two statements, every kind of head with
  every kind of body and with a second body inside; a lone `!`; files that fill their
  page. `Tails` hold nothing, a name, or a closing parenthesis: a tail that changes
  nothing, one that breaks the program and one that completes it. One other invocation:
  two of them would do to each other what one does to `main`.

Deadlock is checked in every passing run: a final state stutters by an explicit
action, any other state without a step would be reported.

### Fairness

`WF_vars(Step)`, in Driver `WF_vars(Main)`: the compiler is one thread which never waits
for another one, so a step that can be taken is taken. `Other` is outside the fair part:
there may be no other invocation. `nasm` and `ld` are taken to end. `Termination` of
Generator, Tokenizer, ExprParser, Parser and Driver uses it. Lexer and Source, the
abstract specifications, and Processor have no fairness: only safety is refined, and a
compiled program need not end.

## 4. Read, not checked

The following were seen while reading. Some of them show in a model as what the code
does; no run asks whether they should be so.

Parser and driver:

* parser.c:925: a FOR reads its third part as a statement, which may take the `)`.
* `void x = 1;` leaves the kind of its node unset, and `return;` its expression
  (parser.c:725).
* parser.h:12 says of parameters that 0 is the type and 1 the name; a list is read in
  pairs whatever stands there, so that `int x, int` is two parameters.
* A FOR without cond1 or cond3 keeps a zeroed node, which is an EXIT of a literal:
  `for (1; i = i + 1) {}` ends the compiled program when it reaches the loop.
* main.c:278 says that gcc links; ld is called. "compiled" is printed before nasm runs.
  A missing program (main.c:245) is reported, and used all the same.

Tables of the generator:

* generation.c:459 says that slots follow the source order; `collect_vars` enters
  only IF and FOR before `assign_slots` enters functions, so a function's local gets a
  later slot than a variable declared behind the function.
* generation.c:121 speaks of finding the types of a function by its name; the name of an
  entry of `m_func` is that of the parameter and is never read. Next to the number of
  arguments (doc_arguments) their types are compared in the same way, and a character is
  always refused.
* A FOR or an IF on the top level adds nothing to the sum of `slot_to_offset`, which
  counts statements and not slots: offsets are right only while the two keep step.
* generation.c:440 assigns to a new local `__label_counter`, not to the counter.
* generation.h:41 describes the visibility of `m_block`; of parameters, no row is kept.
* A function named `start` defines `_start` a second time; one named `placeholder0`
  defines the label behind the first body, if that is a function, a second time
  (generation.c:107, :108, :220). nasm refuses both texts.

Meaning of the generated code:

* Loads of one, two and four bytes are not sign-extended: comparisons, quotients and
  truth values of negative narrow variables are those of large numbers.
* An ELSE body always runs: no label of its IF jumps around it. A RETURN computes its
  value and goes on to the next statement; only the end of a function returns.
* Outside of a declaration an identifier, and a literal that is the whole expression, are
  not loaded: the statement uses what rax held. An operand literal is moved as 32 bits.
* The argument of a call is what `atoi` makes of its text: 0 for an identifier.

## 5. Proofs

All proofs are checked by TLAPS for every value of the constants: every set of
programs, texts or token sequences, of any length. Each machine has an inductive
invariant of its own; a theorem about a finished run follows from what every step
keeps. The invariants were first checked by TLC on the instances of the runs.

### Recursion

The library's induction takes an operator, which the provers cannot instantiate, but a
theorem on well-founded relations is enough for the numbers. `LeastNat`: a set of
naturals has a least element. From it `UpTo` (a set that is closed under the successor),
`Recursive` (a function given by its value at 0 and by a step exists) and `SameSoFar`
(there is one only). With these, what a recursive function computes over sequences of
any length can be proved. `PrefixCount` and `SurplusStep` say how the counts that `Depth`
and `LabelOf` are made of grow along a listing.

### GeneratorProofs

From `ProgramsAssumption` (programs are balanced listings of statements: every END has
a body to close, which the recursion of the C tree gives).

* `Invariance`: `IInv == TypeOK /\ NoDupVars /\ RowsFollowBodies` is inductive.
* `TypeCorrect`, `TableUnique`, `RowsKept`, `NestingRejected`: `TypeOK`, `NoDupVars`,
  `RowsFollowBodies` and `NoNestedBlockCompiles` hold always.

The last one is the point. `NoNestedBlockCompiles` is not inductive: that a run which
nested bodies is not "done" says nothing about the state before. What is inductive is
a comparison of the rows with the bodies, `RowsFollowBodies`: without nesting there are
as many rows as open bodies, at most one; after nesting the rows are fewer than the
bodies, except that a body just opened may have its row. Closing takes two rows for
one body, so the deficit never goes away, `delete_local_var` meets an empty vector,
and "done", which needs no open body and therefore a negative number of rows, is out of
reach. The types are needed for `Front` and `Last` to mean anything, and uniqueness
for a deletion to keep uniqueness. The proof has a lemma per group of actions, and the
lemmas about `RemoveAt`, `Front`, `Last` and the insertion are stated once.

The second part of the module is about what is looked up.

* `NamesDeclared` (`UsesDeclared`) and `CallsOfOne` (`CallsTakeOne`, what the code does
  where doc_arguments finds the message wrong), both from `Lookups`: `LInv` is an
  invariant.

Both properties speak of a finished program. What every step keeps, `LInv`, speaks of
the statements behind the walk. `Passed`: their names are declared and their calls,
behind a function with parameters, have one integer. A FOR is the exception: its third
part is generated when its body closes, so that until then it waits on the C stack
(`open`); at the end no body is open and nothing waits. `Tables`: `m_vars` has declared
names only, because every insertion is of one and a deletion adds none, and each entry
of `m_func` has one type. `Noted`: behind a function with parameters `m_func` is not
empty, so that the comparison in a call takes place, and with an entry of one type it
can only succeed for one argument. `Places`: the loops of `gen_stmt` run at the
statement they belong to. `LInv` is inductive relative to `TypeOK`.

The third part is about scopes, labels and rows.

* `StackOfBodies`: `StackFollows`. The C stack of the walk holds the statements whose
  bodies are open where the walk is: its length is `Depth(prog, pc)`, a sum over the
  listing, and the statements are found in the listing at their depths.
* `ElseWhileRefused` (`EnteredOrRefused`, what the code does against the comment of
  helper.c:56), from `Entered`: until bodies are nested the
  table has names of entered bodies only, and each declaration behind the walk was found
  in it. The property needs the stack, because "inside an ELSE" is said of the listing
  and what the walk knows is its stack.
* `JumpsResolved` (`JumpsResolve`), from `LabelsAwaited`. While a text is generated some
  of its jumps have no label yet. `Text(out, label, ends, starts)` says that every label
  and jump has a number below the counter, that `ends` (the labels of the open body) are
  not there yet, that `starts` are there once, in the scope of nasm that is current, and
  that a jump whose label is not awaited has its one label in its own scope. A function
  cuts the scope, so no other label may be awaited across it: that no two bodies are open
  (`NestingRejected`) is what makes it true. One lemma per kind of instruction appended.
  A function is a target too if its name is spelled like the placeholder of a jump: in
  a finished text every function is one of the program (`FuncsFollow`), so that outside
  of the exclusion which the property states there is none.

The last part of the module is about slots.

* `LocalsGone` (`LocalsGoneAfterBody`), from `LocalsFollow`: the last row of `m_block`
  has the locals of the open body up to the walk; the part of it that the deletion loop
  has walked is out of the table; the locals of closed bodies are out of it, and no
  statement passed since has looked one up. The third part of a FOR is again looked up
  late, at its end.
* `SlotsStable` (`SlotStable`), from `OrderKept`: the first pass enters the top level in
  the order of its declarations, and every other name of the table stands behind the
  top-level declarations in front of it; so the entries that `delete_local_var` shifts
  belong to names declared later than the deleted one, none of which is bound while the
  body is still open. In the table alone this is not inductive: between the start of a
  deletion and the end of the body the locals are allowed to be on their way out
  (`BoundInPlace`).
* `CellsDisjoint` (`LayoutDisjoint`), in three parts. The table: from the order above and
  from `Lookups` (no name in the table is undeclared), by induction over the entries, the
  j-th entry is the j-th of the declarations in front (`TableInOrder`). The text: so every
  access to one of them that a step emits has slot j - 1, and a step only appends
  (`SlotsOfTop`). The frame: they are the first statements of the top level (`TopStmts`),
  and `slot_to_offset`, a recursive function, grows by the size of each (`SumGoes`), so
  that a cell begins where the one before ended (`CellsApart`).

### TokenizerProofs

From the assumptions of Lexicon (disjoint classes of characters, a buffer of two bytes at
least, reserved words that fit, each with a token type of its own, as in the table of
tokenizer.c) and `SourcesAssumption`.

* `TypeCorrect` (`TypeOK`), `Refinement` (`ImplementsLexer`).

`LexemeInv` says that in the loop over a word or a number the characters since `from` are
of its class and `m_buf` is what push_back keeps of them. With it the end of the loop is
the longest match of Lexer, a turn of the loop is a stutter, and the branches of the
switch are the steps for symbols: those need that no longer symbol starts where a single
one is taken.

* `TextKept` (`NothingLost`), for a text without quotes and unknown characters whose
  words and numbers fit the buffer; from `TextInv`: what the tokens spell is what the
  text says, white space left out, up to the lexeme that is being read. Both sides are
  recursive functions, over the tokens (`Spelled`) and over the characters (`Said`); one
  more token, or one more character, adds its part to either (`SpelledOneMore`,
  `SaidOneMore`). A token spells the text of its lexeme only if its type says which word
  it is, and if push_back has dropped nothing of it.

### ExprParserProofs

From `InputsAssumption` (inputs are sequences of tokens) alone.

* `RecursionPaid` (`DepthPaid`), `RecursionClimbs` (`MinsClimb`), `ParenthesesFail`
  (`NoParenthesis`), `TypeCorrect` (`TypeOK`).

`IInv` adds to the properties what they rest on. `NoClose`: the slice has no `)`,
because it ends before the least terminator (`LeastNat`). `ParenPending`: a `(`
that has been consumed has a call that waits behind it. `Waiting`: a call that is not
the innermost waits for something. So the caller of a parenthesis can never be
returned to, the pending call never goes away, and the outermost call cannot return.

* `Climbing` (`PrecedenceTree`), from `TreesKept`: what a call has parsed is the tree of
  precedences (`IsTree`) of the tokens behind the operator at which its caller waits, all
  its operators are at least of the call's minimum, and the next operator is weaker than
  the ones a caller will take back. Joining two such trees under an operator gives one.
* `OutcomeKnown` (`OutcomeByTokens`), from `ChainsKept`: operands and operators alternate
  in what is parsed, by the parity of `m_index`, and an exit has met a token that is no
  operand where one belongs. Parser uses the statement in place of the expression
  parser's steps.

### ParserProofs

From `InputsAssumption` alone.

* `TypeCorrect` (`TypeOK`), `SpansNested` (`SpansNest`) from `Invariance`: the running
  calls started one behind the other; no node reaches behind `m_index`; of a running call
  a node is inside or in front; the nodes in front of the outermost one own every token.
* `NodesDerived` (`NodesDerive`) and `GrammarAccepted` (`AcceptsGrammar`): soundness and
  completeness of the one-pass parser against Grammar.

Grammar is a function by recursion over spans. That it is what its rules say
(`DerivesByRule`) is proved first: a phrase depends on phrases of lower `Rank` (twice its
length, a list after a statement), so that below every rank there is exactly one function
that obeys the rules; the least rank without one (`LeastNat`) leads to a contradiction.

Then come the facts about the operators: where a value, a list of arguments or the head of a
statement ends is determined by where it starts (`ValueEnd`, `ArgumentsEnd`, `LeafEnd`,
`HeadEnd`, `NoStmt`), which is why a parser that never goes back can be complete, and the
two kinds of reading behind the tokens happen only where the grammar has no program
(`ValueStop`, `HeadStop`).

The invariant `Fits` compares a state with the grammar. `Sounds`: for each running call
what it has parsed is of the grammar (`Behind`): a list of statements of its body, or,
in a FOR, the parts in front of the one it is in. `Completes`: if the whole program is
of the grammar, there are places at which the running calls can end, the tokens between
them being what each call waits for (`Ahead`), and the process has not exited or
overrun. A step takes the innermost call along; by determinacy the end it takes is the
one that the grammar has. At the end no call is running, and both say that the tokens
are a program.

### DriverProofs

* `BuiltFromSource` (`BuiltFromThis`): `FilesInv` follows the three files from stage to
  stage; `Other` may change any of them, and then they are spoiled, but never old.

### ProcessorProofs

From `ByteValuesAssumption` (a byte has two values at least), `StackAssumption` (the
stack is mapped below the top of the address space, with room for two words above) and,
as the hypothesis of each theorem, `AllLevelled`: the texts that are run are levelled.
That is a condition on the text alone, of the kind a bytecode verifier decides, and
nothing here depends on the compiler. The theorems take it to every run
of every such text, for every width of a byte and every size of the stack; MachineProofs
discharges it.

* `TypeCorrect` (`TypeOK`), which uses of `AllLevelled` only that jumps and numbers stay
  in range: it holds whatever the program does to its stack.
* `StackIsLevel` (`StackLevel`), `EveryCallReturns` (`CallsReturn`) and
  `EveryArgumentArrives` (`ArgumentArrives`), from `FramedInv`.

None of the three is inductive: each speaks of one kind of instruction, and what brings
control there may lie any number of calls back. `FramedInv` adds to the types `Framed`,
which holds at every instruction while accesses stay below rbp (`BelowFrame`).
`CallsKept`: the frames of the running calls lie below each other, and in each the saved
rbp and the return address are still the ones the call put there. `AtLevel`: the level
of the next instruction says where rsp and rbp are in the innermost frame, and what rdi
holds. `Stored`: behind the store of rdi the parameter has the argument. A push or a
store writes below the saved words of every running call, which is where `BelowFrame` is
needed: without it the code does overwrite return addresses, and the instances have a
program that does. A call opens a frame below, at the level `Callee`; a return finds its
words untouched and goes on at the level behind the call.

The lemmas about words stand in front: division with remainder, powers of a byte
(`Values`), and that a word of w bytes, read by recursion over its bytes, is a number of
w bytes (`WordType`), is what was written (`WordWritten`), and does not change where
memory does not (`WordSame`).

### MachineProofs

* `EveryTextLevelled` (`TextLevelled`): the text that Emission gives for a program is
  levelled.
* `EveryProgramTyped`, `EveryProgramLevel`, `EveryFunctionReturns`,
  `EveryIntegerArrives`: with it the theorems of ProcessorProofs hold without their
  hypothesis (`TypeOK`, `StackLevel`, `CallsReturn`, `ArgumentArrives`).

They use the assumptions of Processor and Words and `ProgramsAssumption` of Machine: the
programs compile (`Compiles`) and the processor is given their texts. `Compiles` asks of
a program what the code has checked when it reaches gen_prog, and TLC evaluates it on the
2095 programs of the run:

* what the parser builds: a statement of a known kind, an operator with its two operands
  (parse_expr_prec_on_slice makes no other), literals that are numbers, at most six
  arguments and parameters (section 2, Abstractions);
* a call names a function of the program, without which nasm refuses the text;
* no body is inside another one, which is `NestingRejected` of GeneratorProofs, and every
  body is closed;
* the names were found in `m_vars`, with a type and an offset: lookup_var_slot exits on
  others;
* the text and the stack fit the address space, with sixteen bytes for an instruction.

The argument follows the text. A `Walks` goes through it from a level to a level: at each
instruction the level is the one that the instruction before leaves, and the instruction is
allowed there. Pieces of text that meet in a level can be put together, and three kinds of
piece are enough.

* An expression is `Quietly`: it pushes nothing that it does not pop, and only changes
  what is known of rdi. By induction over the listing of its nodes: every text on the
  stack of `Evaluate` is quiet, and an operator joins two of them by pushing and popping
  once, or skipping forward to a place at the same level.
* A leaf statement is `SteadyLeaf`: it begins and ends with nothing of the frame in use.
* Between bodies a text `Carries` labels: a list it gives, a list it still wants. In the
  main frame or in a body nothing is in use, so that a jump may meet its label there,
  whatever the statements between them are; a function starts over at `Callee` behind a
  jump that leads over it, and the main frame goes on behind its `ret`. Opening a body
  wants the label of its end (`OpenCarries`), closing it gives that label and wants, for
  a loop, the one of its start (`CloseCarries`). That every label which is wanted is
  given (`AllGiven`) is where bodies must be one deep: each has its end (`HasEnd`), and
  the numbers of the labels tell the bodies apart.

`LevelsAre` then says that what `LevelsOf` computes is the walk that was built, and
`TextIsLevelled` collects the conditions of `Levelled`: `SuccessorsAre` that every jump,
branch and skip meets its level, `HighIs` that the bytes in use are fewer than the
text has instructions times sixteen, `StoreAlone` that control comes behind a store
of rdi from that store only. What cannot be seen in the text alone,
that a call comes back with what it was given, is the part of ProcessorProofs.

### What TLC alone shows

* Liveness (`Termination` of five machines) under fairness, which is out of the
  prover's reach.
* `MeansItsSource` of Machine: that a text means what its source means is a second
  induction over trees, now of values in partial registers, together with an invariant
  that relates the cells in memory to the variables of Source. The lemmas on walks say
  where control and rsp are, not yet what rax holds.
* `HandedOver` and `NoLoopTests` of Driver. They are stated of the files of MCDriver and
  do not hold of every file that parses: an argument list takes any token, so that
  `f(});` has a brace and `f(while);` a `while` that is no statement, and a FOR with a
  body in its head, a `void` declaration or an odd parameter list has no tree in Ast
  (section 2, Abstractions). A theorem would have to say which files are meant, in an
  assumption on `Sources` as long as the grammar.

## 6. Not modelled

* **Diagnostic printing**: `print_tokens` and `print_bin_expr` print and change nothing.
  What `print_optional_prog` does not survive is in Driver.
* **Vendored libraries** (sds, kvec, khashl): third-party; vectors are sequences. khashl
  is included and not used.
* **Build and documents**: no state.
* nasm, ld and the processor are external: they do in the models what the code relies
  on.

## 7. Plan

Done, in this order: Generator and its frame (the most state, the most interacting
tables), Tokenizer with its abstract lexer, ExprParser, Parser, the first theorems; then
the emitted code with Source as its abstract specification, the composition of Parser
and Generator in Driver, and the theorems about lookups, calls, slots, labels, trees,
grammar, files, compiled programs and, last, the texts they are compiled to.

Dropped: an abstract specification of lexical scopes. It would be refined only by
programs of distinct names without nesting, and `SlotStable`, `LocalsGoneAfterBody` and
`NoNestedBlockCompiles` say that much.

To do:

1. `MeansItsSource` as a theorem: the value of rax behind an expression, by induction
   over its listing, on top of the walks of MachineProofs.
2. Contents of nodes for `void x = 1;` and `return;`, as a choice over what the memory
   may hold.
3. Local variables and shadowing in Source, which takes an environment of scopes.

The runs are few by design: where a new question needs one, the doc_ runs that a later
module restates more strongly give way.

## 8. Running it

    tlc -config MCGenerator.cfg MCGenerator      (and each .cfg with its module)
    tlapm Recursion.tla
    tlapm GeneratorProofs.tla
    tlapm ProcessorProofs.tla
    tlapm MachineProofs.tla
    tlapm TokenizerProofs.tla
    tlapm ExprParserProofs.tla
    tlapm ParserProofs.tla
    tlapm DriverProofs.tla
