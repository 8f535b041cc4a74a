# A formal model of lslc

`lslc` (in `src/src/`, about 6600 lines of C) compiles scripts of the Linden Scripting
Language: it preprocesses them, parses them, checks them and, on request, writes
bytecode. It is a sequential batch program. What makes it hard to get right is not
concurrency but long sequences of legal inputs that drive a shared piece of state into
a corner: a stack of conditionals shared by all included files, a macro table and a
table of file names that outlive the file that filled them, a hash table of symbols
under scopes that come and go, error counts that decide which stage still runs.

This directory holds TLA+ modules of those parts, the TLC configurations that check
them on small instances, and TLAPS proofs for every value of the constants.
Paths such as `preproc.c:318` are relative to `src/src/`.

## 1. The system

| Component | Source | State | Operations | Right when |
|---|---|---|---|---|
| Conditional stack | `preproc.c:299-339` | `CondStack.frames[32]`, `top` | push, else, elif, pop, active | text is emitted iff the selected branch of every enclosing conditional is open; one branch per conditional |
| Macro table, expansion | `preproc.c:86-125, 178-283, 372-413` | list of macros | define, undef, lookup, expand a line, evaluate `#if` | strings and comments untouched, arguments cut at top-level commas, parameters replaced at once |
| Preprocessor loop | `preproc.c:415-612` | recursion of `preprocess_file`, output buffer, depth | one directive or line at a time, include, return | the recursion ends, skipped regions do nothing, guards work, markers tell where every line comes from |
| Lexer | `lexer.c` | offset, line, file; static table of 256 file names | next token, line marker, comments, strings | the tokens are the text, longest first, and each is attributed to the file and line it comes from |
| Parser | `parser.c` | current and next token, tree under construction | recursive descent, recovery inside states | a form that it accepts is one of the grammar, with the tree the grammar gives; the forms of the grammar are accepted; it makes progress, and after a bad event it stands behind the state |
| Symbol table | `symtab.c` | chain of scopes, each with 64 buckets and a list | push, pop, define, lookup | it behaves as a stack of maps |
| Semantic checker | `sem.c` | symbol table, labels, jumps, current function | walk of the tree | declared before use, one meaning per name, types agree |
| Constant folder | `fold.c`, `types.c` | none | fold a tree | the value the language gives |
| Bytecode writer | `emit.c` | string pool, output file | collect strings, write | both passes agree, the file is whole |
| Diagnostics | `diag.c` | counts of errors and warnings, limit | report | counts decide the exit code |
| Size estimate | `main.c:135-163` | none | scan the text | it counts the characters of the tokens and of nothing else (not so: it counts those of line markers too) |
| Driver | `main.c` | options, return codes, files on disk | compile each file, combine the codes | code 0 means that nothing was wrong; files do not influence each other |
| Builtin tables, tree, utilities | `builtins.c`, `ast.c`, `util.c` | constant data, memory | lookup, allocation | - |

How they interact. The driver calls the preprocessor, which appends to one buffer and
calls itself for an `#include`; it writes `#line` markers for the lexer, which keeps
its idea of file and line from them. The parser pulls tokens from the lexer and builds
a tree, which the checker walks with the symbol table and the folder and the bytecode
writer walks twice. Every stage reports into a diagnostic context, and the driver, the
parser's loop and the checker's caller read its error count to decide what to do next.
All calls are synchronous; the only state that survives a file is the lexer's table of
file names, and whatever is on disk.

Hard behaviours, with their lines, are the `hazards` of `PROJECT.json`: state shared across
includes, arrays at their limit (31 conditionals, 256 file names, 16 parameter types, the depth
limit, 512 characters for a line marker), text-level state forgotten at line ends, longest
match and two scanners of one text, precedence and recovery in the parser, hash collisions and
shadowing, stages cut short by errors, exit codes and outputs of batches.

## 2. Modules

| Module | Models | Variables and actions |
|---|---|---|
| `CondStack` | the conditional stack | `cs` are the frames; `If`, `Elif`, `Else`, `Endif` the directives. `chains` is a history of what the text says (the condition values of every open conditional) and `dropped` remembers a lost push |
| `Macros` | macro table, `#if` expression, `expand_line` | operators only. A line is a sequence of tokens; `ExpandLine` is one left-to-right pass like the code's, one step of it `ExpandFrom` |
| `Expansion` (extends `Macros`) | reference: what becomes of a line, without scanning it | `line`, `result`; `Expand` |
| `Preproc` (extends both) | `preprocess_file`, `preproc_run` | `calls` is the C recursion made explicit: one record per activation with its file and next line. One action per directive or line, `Open`, `Include`, `Return`, `Finish`, and the failures of each |
| `Lexer` | the lexer from characters to tokens, and `estimate_bytecode_size` | `off`, `tokens`, `errs`; one action per branch of `lexer_next`, the estimate as an operator. `markers` only observes which line markers were obeyed |
| `Spelling` (extends `Lexer`) | reference: what a token is, without a scanner: which sequences of characters spell a token, a value, a comment, a line marker | - |
| `LineTrack` (extends `Preproc`) | the lexer on the preprocessor's output | `lexLine`, `lexFile`, the interned names, whether a line begins in code, comment or string; `LexMarker`, `LexMarkerAsText`, `LexLine`, `LexEof`, and `LexCutMarker` for a marker that did not fit the buffer it was formatted in (`preproc.c:55-62`) |
| `Tree` | the syntax tree | constructors of expressions, statements and declarations |
| `Parser` (extends `Tree`) | `parser.c` | `parser` is the place of the current token and the errors, `ast` what was built. The parsing functions are operators from a parser to what was built and the parser after it, and call each other through `Parsed`; `State`, `Typed`, `Procedure`, `StrayToken`, `Finish` are the branches of the top-level loop |
| `Grammar` (extends `Parser`) | reference: the grammar as a table of what every construct is written with (`Shape`) and how strongly it holds together (`Strength`; the levels of the binary operators, `OperatorLevels`, are those of the code); the text of a tree; which tokens stand for a tree | - |
| `ScopedMap` | abstract: a stack of maps | `Push`, `Pop`, `Define` |
| `SymTab` | the hash tables; implements `ScopedMap` | `scopes`; `SymPushScope`, `SymPopScope`, `SymDefine`, lookup as an operator |
| `Scopes` (uses `ScopedMap`) | `sem_check`: declarations, scopes, names, calls, labels, jumps, state changes, signatures of events, overloads of builtins and those LSO does not have, unused names | the symbol table `env`, the place in the script (`phase`, `unit`, `at`), label and jump lists, what is reported; one action per item of a body and per pass over the declarations |
| `Types`, `Exprs` | `types.c`; `check_expr`, `check_call` | operators: the annotated tree and the errors of an expression in a scope |
| `Fold` (extends `Exprs`) | `fold_expr`, `expr_is_constant` | operators on trees, parts before the whole |
| `Typing` (extends `Fold`) | initialisers of globals, declarations and expression statements, `if` conditions, returned values | `names`, `functions`, `results`; checks and folds one expression per step |
| `Emit` (extends `Tree`) | `emit_bytecode`, both passes | `todo` is the recursion over the tree made explicit, `strs` the pool, `file` the cells written |
| `Layout` (extends `Emit`) | reference: the layout as tables and a reader. The comment `emit.c:3-47` gives the order of pool, globals, functions and states and leaves the parts of a node open; those tables are what a reader has to assume of the writer. The header is left out | - |
| `Driver` | `main`, `compile_file`, error counting | the files still to do, the stage of the current one, `errs`, `rc`, `disk`; one action per exit of a stage |
| `MC...` | instances for TLC | small inputs, bounds |
| `Facts` | lemmas on numbers and sequences | - |
| `PreprocProofs` (also on `LineTrack`), `MacrosProofs`, `LexerProofs`, `SymTabProofs`, `ScopesProofs`, `DriverProofs`, `EmitProofs` | proofs | - |

How they fit together. `Preproc` extends `CondStack` and `Macros`, and `LineTrack` extends
`Preproc`: these compose, state and all. `Lexer` reads characters, `Parser` tokens, and
`Exprs`, `Fold` and `Emit` walk the trees of `Tree` that `Parser` builds. `SymTab` implements
`ScopedMap` (a checked refinement and a theorem), and `Scopes` drives `ScopedMap` (the property
and the theorem `DrivesTable`), so that what `Scopes` says of names holds of the hash tables.
`Scopes` leaves types out and `Typing` leaves blocks out: the one asks which declaration a name
means, the other what an expression is worth once that is known. In `Scopes` an expression is
the sequence of names and calls in it, and a body the sequence of what `check_stmt` meets, with
blocks as a pair of brackets; a script is any that the parser can build (`ScriptsAssumption`).

What is abstracted. Characters, outside `Lexer`: a line is a directive with its operands or a
sequence of tokens, a path is a directory and a name, names are strings that are only compared.
The order of the macro list (every name occurs once). Memory. The text of messages. A comment
or string is modelled by what it does to the lexer: whether a marker inside it is seen. A path
has a length (`PathLength`), and a line marker that does not fit the buffer is `cut`: what the
lexer makes of it is any of what such a line may hold, with at most `CutLines` more newlines
and errors and a name out of `CutNames`. In `Lexer` a letter has one case and the value of a
number is its spelling; in `Parser` the one token of lookahead is the next element of a
sequence, and `has_peek` always holds. In `Exprs` a tree is a record per node; a float is
counted in halves, and the integers of the folder are exact, against `IntBits` bits of the
language. A symbol stores `MaxParams` parameter types (16 in the code), and what is read beyond
them is any type. Not in the models of the checker: the suggestions of a similar name. In
`Emit`, line numbers, and `is_default` and `has_return_type`, which follow from other fields.
In the driver, a script is what the stages have to say of it. Definitions named
`...OneTooDeep`, `...IgnoresMatched` and the like next to an action are faulty variants: the
mutants of `PROJECT.json`, each of which some property rejects.

## 3. Runs

Passing runs:

* **macros** - `ExpandLine` on every line of at most six tokens over eight (300k lines)
  against a definition that does not scan: six tokens hold a call with two arguments, one of
  which contains another call or is empty, two calls of one argument with something after
  them, or a string before a comment opener. `CallsSubstitute` speaks of every line whose
  outermost calls are closed and have the right number of arguments, however many calls
  and parameters there are, none included.
* **preproc** - every main file over three alphabets: four lines of conditionals,
  definitions and text; four lines of includes around an include guard, with headers that
  guard themselves, include themselves or include each other; three lines of every other
  directive, with headers that open, reverse or close a conditional of their includer.
  Depth limit 3, three frames, so that pushes are lost. It checks `BranchSelection` (as
  long as no push was lost, `cond_active()` is what the text says), `ParentIsOuter` (also
  after one was lost) and `NoSecondBranch` (no frame becomes active again): three frames
  suffice because frames interact with their immediate surroundings only, and the proof
  needs no induction over the stack. Further `CallChain` (the
  recursion stays within its limit and every waiting activation stands at the `#include`
  that leads to the next), `SkippedOnlyCopies` (in a skipped branch nothing is defined,
  entered or reported, and every line becomes a blank one; the two exceptions are `#pragma`
  and `#line`, which the code copies from there), `IncludeKeepsConditionals` (files that close
  what they open leave the shared stack as they found it), `GuardedOnce` (an include
  guard works for repeated, nested and self-inclusion), that all of it drives the
  conditional stack by the steps of `CondStack` (`CondSpec`), and `Termination`.
* **line_track** - preprocessor and lexer together, every main file of four lines over
  nine, a table for three names that may hold earlier ones, and files with headers whose paths
  do not fit the buffer of a marker (512) or of a name (1024), or fit it up to line 9.
  `AttributedUpToOne`: unless a marker was swallowed by a comment or string, or one of the causes
  below holds, every line is attributed to its file, and to its line up to one, the error not
  growing with further includes. `WrongFileHasACause`: the causes of a wrong file are a
  swallowed marker, a full table, a marker of the script's own, and a marker that was cut.
  The limit on names in the lexer is not among them: of the preprocessor's markers none that
  long arrives whole, and a script's own marker is a cause already.
* **lexer** - every text of up to five pieces over thirteen alphabets of six, after a
  beginning that puts the text inside a string, a number, a comment, a line marker, or behind a
  byte order mark (550k states); most pieces are characters, some are line markers or parts
  of one. `TokensAreTheText`: every token is the longest one that the rest of the
  text begins with, has the kind and value its characters spell, and only blanks, comments,
  line markers and reported characters lie between. `EstimateIsTokens`: in a text without
  errors and without a backslash, the estimate of the driver is the number of characters in
  tokens and in line markers, if these are like the ones of the preprocessor: with two quotes,
  and a slash between them only.
  Five characters after a beginning hold an escape inside a closed string, a number with
  fraction, exponent and suffix, a comment with a false end, three operators in a row.
* **parser** - three families of token sequences (600k states): all sequences of up to five
  pieces of thirteen kinds in the place of an initialiser, a body or a whole script; the texts
  of trees with every kind of expression in every place of every kind, one operator of each
  strength, statements in statements, and declarations; states with any four pieces in the
  place of an event, between other forms. `AcceptedIsGrammatical`: a form without an error is a
  tree whose text, parentheses aside, is exactly the tokens consumed. `GrammaticalIsAccepted`:
  the text of a tree, with the parentheses it needs, is read as that tree. Both take the levels
  of the operators from the code (`OperatorLevels`): they say that the ten functions of the
  parser are together a grammar with these levels, not that these are the ones documented,
  which they are not for `||` and `&&` and for the operators on bits. `RecoveryInStep`: what
  follows a spoiled state is parsed as if nothing were wrong. `Progress`: every step takes a
  token. Trees two levels deep suffice, because a construct looks at nothing of its parts but
  where they end. At most five errors, so that the limit cuts some texts short.
* **sym_tab** - three names of which two collide, three scopes: the refinement of
  `ScopedMap` and innermost lookup. (The shape of the table, agreement of buckets and list
  and uniqueness, on which both rest, are proved, not run.)
* **driver** - every batch of one or two files of ten kinds (faultless, or a fault in one
  stage, or a size near or over the budget, or more errors than the checker is run with), with
  and without bytecode from an earlier run in the places of the outputs, six combinations of
  options, with and without `-Werror`, three limits; names that share a place are among them:
  with and without an extension, with two, and a path too long to be turned into a name, whose
  bytecode goes where that of `out.txt` goes. `ZeroMeansFaultless`, `VerdictsAreTheirOwn`,
  `BytecodeOfFaultless`, `OutputsApart`. Two files suffice for one to influence the next; three
  error counts (below, at and above five, the limit of the checker) are reached. What the
  documents say and the code does not do is not asserted: `VerdictsAreTheirOwn` leaves the code
  for an unwriteable `-o` open, `OutputsApart` speaks of names that differ by the rule of the
  code and by that of the manual. Neither does a zero code promise a whole file: writes are not
  checked (`disk[path].whole`).
* **typing** - 18 thousand scripts: integer initialisers of two operators over three numbers
  with `IntBits = 4`, so that overflow is common; initialisers that mix literals, constants,
  casts, members and lists; statements over variables of all types; conditions and returned
  values in functions with and without a type and in events; calls of functions with more
  parameters than `MaxParams = 2`; globals that hide builtins. `AcceptedIsTyped`: no node of an
  accepted expression is left with the error type. `OnlyVariablesWritten`. `FoldKeepsType`:
  folding comes after the type of the initialiser was checked and does not change it.
  `FoldKeepsValue`: what is folded in 64 bits agrees in the low bits with arithmetic at the
  width of the language, as long as no division, right shift, comparison or test meets an
  overflowed operand. `CallsFit`: the arguments of an accepted call fit the declared parameters
  that are stored. `ConstantsOnly`: unless a component is dropped, an initialiser is accepted
  exactly when it holds no variable and no call. Two operators deep, because folding a node
  looks at its children only.
* **scopes** - 17 thousand scripts in families: blocks of up to four brackets and declarations
  with uses between, names shared by locals, parameters, globals, functions and states, jumps
  and labels across blocks and units, calls in initialisers, returns, duplicate events, events
  with a right, wrong or overloaded signature, calls of a builtin with three overloads, one of
  them Mono-only, for both targets. The properties say what the text means without a symbol
  table and compare: `NamesAreLexical`, `CallsAreGlobal`, `JumpsStayInside`, `UnusedAreUnused`,
  `AcceptedIsWellFormed`; `ScopesMatchBlocks` and `DrivesTable` are those the proofs take up.
* **emit** - trees with every kind of expression, statement and declaration, present and absent
  optional parts, together with all their parts, `Byte = 3` so that counts wrap.
  `PoolComplete`: the second pass interns nothing. `FileIsTheScript`: the reader of `Layout`
  gets the tree back, to the last cell, if no list counted in a byte is longer than a byte can
  say.

Fairness is weak fairness of the next-state relation in `Preproc`: the
program is sequential and a step that can be taken is taken. Deadlock is not checked
where the program ends.

Runs that show a disagreement between the code and what is said of it:

* **preproc_deep** - the 32nd nested conditional is dropped and its `#else` and `#endif`
  act on the 31st (`preproc.c:318`).
* **track_include** - every line after an `#include` is reported one too far down
  (`preproc.c:479`).

Other divergences that the models contain and no run singles out. In the preprocessor, lexer
and driver: `#pragma` is copied and then an error of the lexer (`preproc.c:570`,
`DOCUMENTATION.md:571`: "Passed through (ignored)."); the estimate of the size takes the quote
of an escape `\"` for the end of the string, and counts `#line` markers, so that it grows with
includes and the length of paths (`main.c:142`, `DOCUMENTATION.md:299-304`); a line marker with
a path of about 500 characters loses its quote and its newline, and what lay behind the buffer
is read in their place (`preproc.c:55-62`); `#pragma` and `#line` are copied from skipped
branches too, which are to become blank lines (`preproc.c:571`, `preproc.c:21-22`); `0x` and
`1e` are numbers (`lexer.c:256`, `lexer.c:267`); a macro without parameters cannot be called,
because `G()` counts as one argument (`preproc.c:236`, against `preproc.c:172-173`); macros are
expanded in the later lines of a string that spans lines (`preproc.c:180`,
`DOCUMENTATION.md:51`); the last non-zero code is the exit code of a batch and not the worst
(`main.c:363`, `DOCUMENTATION.md:278`); an unwriteable `-o` target ends in code 1 and not 2
(`main.c:265`, `man/lslc.1:240-244`); only the extensions `.lsl` and `.txt` are replaced by
`.lslbc`, others are kept (`main.c:255`, `man/lslc.1:139-140`); a system include is also found
in the working directory (`preproc.c:165`, `DOCUMENTATION.md:559`); the error for a wrong
number of macro arguments has no location (`preproc.c:261`, `DOCUMENTATION.md:583`); a comma or
parenthesis in a string argument cuts it (`preproc.c:215`); a marker inside a block comment is
not honoured (`lexer.c:107`, `DOCUMENTATION.md:584`); the 257th file name is not interned
(`lexer.c:91`); a byte order mark is an error unless the preprocessor is off (`lexer.c:11`,
`DOCUMENTATION.md:45`); of `x.lsl.txt` only `.txt` is taken off, where the comment says
`.lsl.txt` (`main.c:254`); writes are not checked (`emit.c:84`); `-fmax-errors` is looked at
between top-level forms only (`parser.c:801`, `DOCUMENTATION.md:292`). In the parser: a comment
says that `>=` may close a vector, the code takes `>` alone (`parser.c:187-192`); an expression
that is missing takes the token in its place with it, so that a `return` without `;` swallows
the brace that follows (`parser.c:169`); the events of a state with a bad header are read as
functions (`parser.c:758`); `(f)(x)` is a call (`parser.c:235`); the table of precedences puts
`||` and `&&`, and the three bit operators, on one line each, where the code has a level for
every one (`parser.c:407-451`, `DOCUMENTATION.md:70-74`). In the checker, folder and writer:
`<g, 1, 2>.y` is accepted as the initialiser of a global, because the folder takes the
component and drops the others with whatever variable or call they hold before
`expr_is_constant` looks, and a global that hides a builtin constant is folded to the value of
the builtin (`fold.c:314`, `fold.c:253`, `DOCUMENTATION.md:535-537`); the 17th argument of a
call is compared with whatever lies behind the sixteen stored types, so that a correct call may
be rejected and a wrong one accepted (`sem.c:814`, `sem.c:228`, `DOCUMENTATION.md:173-174`); a
local that hides a builtin function is not warned about (`sem.c:608`, `DOCUMENTATION.md:194`);
the result of an unknown `ll` function, which is to be accepted, is rejected wherever it is
stored or computed with (`sem.c:289`, `types.c:52`, `DOCUMENTATION.md:145`); of two labels of
one name the earlier is called the duplicate (`sem.c:705`, because the list starts with the
last); the components of a rotation have no type check (`sem.c:323`); `1/0` is left unfolded
and accepted as an initialiser (`fold.c:140`); a function that only calls itself counts as used
(`sem.c:218`), and unused locals are not reported (`sem.c:973`, `DOCUMENTATION.md:288`); the
header of a file says version 2 where the layout says 1 (`emit.c:317`, `emit.c:7`); a function
with more than 255 parameters, or a `for` with more than 255 expressions, gives a file that
cannot be read (`emit.c:345`).

## 4. Proofs

All proofs are checked by TLAPS without further assumptions than the named ones on the
constants (positive array size and depth limit, a hash function into the buckets, well
typed inputs, signatures in the table of events); TLC evaluates those on every run.

* **`PreprocProofs`**, first the conditional stack alone, for every number of frames.
  `BranchSelection` is not inductive. The invariant `FrameInv` ties each frame to the
  chain of conditions it stands for: its parent flag to the selection of all the chains
  outside it, `active` to the parent flag and the selection of its own chain, `matched` to
  whether any condition of the chain held. From it: `CondTypeCorrect`,
  `BranchSelectionHolds`, `ParentIsOuterHolds`, `NoSecondBranchHolds`. Then the main loop,
  for every file system, search path and depth limit. `PreprocDrivesCondStack` shows that
  the preprocessor implements `CondSpec`: every action is a step of `CondStack` or leaves
  it alone. So the theorems above hold in every run (`PreprocSelectsBranches`).
  `CallChainHolds` rests on `Chained`, the property read as a relation of a file system
  and a chain, and on three lemmas for the three things that happen to a chain
  (`TopMoves`, `ChainEnters`, `ChainLeaves`). `SkippedOnlyCopiesHolds` combines that
  invariant with the one of the stack, with "the output is a sequence" and "nothing is
  open before the main file is". `IncludeKeepsConditionalsHolds` speaks of the innermost
  file only; the invariant `NestInv` says of every activation that on the stack it was
  entered with stand as many frames as conditionals are open in its file before its next
  line (`Level`), where the stack of a waiting activation is the one its include was
  entered with (`Above`). A file that is over has none open, which is what its includer
  needs. `GuardedOnceHolds` needs that at most one activation is ever inside the guard
  (`GuardInv`): as long as the guard is not defined none is past its definition, and once
  it is no other gets in. The one inside reads every line once, and its text in the output
  is from lines it has passed. For that a file has to be entered from a branch that is
  read (`BasesActive`).
* **`PreprocProofs`**, last part, on `LineTrack`, for every file system, every size of the
  table of file names and whatever was in it before. `OutInv` is about the writer: before
  every line of text stands a marker that, with the lines since, puts it in its file at
  its line or, once an include has returned, one further (`Told`, `Place`); and the same
  of the line to be written next. It holds because a step does one of five things to the
  output (`StepWrites`). `LexInv` is about the reader: it believes what it was told as
  long as no line misled it (`Misleads`: a marker that was cut or is the script's) and
  every name was in the table, and a table with room has every name. A marker that fits
  the buffer of the writer has a name that fits the one of the reader (`FittingIsTaken`),
  for any two sizes of which the second is not the smaller. From them
  `AttributedUpToOneHolds` and `WrongFileHasACauseHolds`.
* **`SymTabProofs`**, for any names, hash function and number of buckets. The invariant
  adds to `NamesUnique` that bucket and list hold the same symbols and the depth of each:
  `sym_define` looks for a name in one bucket only, and that says something about the
  scope because the two agree. From it: the three invariants, `LookupIsInnermostHolds`,
  and the refinement `SymTabImplementsScopedMap`.
* **`ScopesProofs`**, for every script the parser can build. `ScopesMatchBlocks` alone is
  not inductive: the invariant adds where the walk is (`PlaceInv`: the ranges of `unit`
  and `at` in each phase) and the shape of the table (`EnvInv`); that brackets match in
  every body is the assumption on scripts. From it `ScopesMatchBlocksHolds`,
  `ScopesTypeCorrect`, and `WalkDrivesTable`: a block or unit is left only while its scope
  is open, so every step is a step of `ScopedMap`, the specification that `SymTab` was
  proved to implement.
* **`ScopesProofs`**, second part, for every script the parser can build and any tables of
  builtins: what the checker reports is what the text deserves. The properties speak of
  the end of the walk, so each needs an invariant that says what is known on the way.
  `TopInv` counts the names of the top level that have been told and says what the global
  scope makes of each; `InnerInv` says that an inner scope holds the parameters, and the
  locals declared at its depth and not left since (`Held`). Together they give every
  reference the meaning of the text (`RefsMeanTheText`). `RefInv` then says, for the
  places `Seen` so far, that what is reported there and what is marked as used there is
  exactly what the text says, in both directions; the directions matter, because a report
  at a place not yet reached would be as wrong as a missing one. From it `NamesLexical`,
  `CallsGlobal` (with `BuiltinCall`, which says that the two lookups of the code find the
  overload the property speaks of), and with `UnusedInv` `UnusedUnused`. `LabelInv` says
  that the two lists hold the labels and jumps met so far in their order (the latest
  first), `JumpInv` what has been reported of the units left; from them `JumpsInside`.
  `HeadInv` and `ItemInv` say what is right as long as nothing was reported: headers of
  units and items of bodies; from them `AcceptedWellFormed`. Errors are never taken back,
  so it is enough to look at steps that report nothing.
* **`MacrosProofs`**, for every table of macros and every line. The property says what a
  line becomes without scanning it, so the proof is that the scan keeps step with the
  text: before every position outside of the arguments of a call, the scan is in a string
  exactly if an odd number of quotes of the text lies before it, no comment has begun, and
  what it returns for the rest is what the rest says (`Reads`). `ScanStep` is one step of
  it, from the positions after to the one before, a case for each branch of the loop;
  `CallAtCut` shows that the reader of arguments, which counts parentheses, finds the cuts
  that the property speaks of. `ExpandLine` is recursive: `ScanExists` shows that it has
  the values its definition asks for (`Recursion`, with `UpTo` and `DownTo`, induction
  over the numbers up to a length, in `Facts`). From it `CallsAreSubstituted`.
* **`LexerProofs`**, for any texts, letters and keywords. `TokensAreCut` compares a
  scanner with a definition that has none, so most of the proof is about the operators:
  what `lex_string` returns ends at the first quote that no backslash escapes
  (`Collected`, `StringIs`), what `lex_number` returns is a hexadecimal or decimal number
  and no longer piece of the text is (`HexNumber`, `DecimalNumber`), and what is skipped
  is a gap or is reported (`SkipGap`). That a token is the longest of any kind, and not
  only of its own, needs that the first character settles the kind (`FirstCharacter`). The
  invariant `Inv` adds to the property that between the last token and `off` is a gap too,
  and that tokens stay behind `off`. `EstimateIsExact` is about two scanners at once that
  do not move in step: one skips a comment and a token in one call, the other takes a
  character at a time and remembers only whether it is inside a string. The invariant
  `Balance` says that the whole estimate is what the tokens and the line markers so far
  hold and what is still to be counted from `off` on; it is kept since of what is skipped
  nothing is counted but the markers (`SkipCounted`, `MarkerCounted`), and every character
  of a token is (`TokenCounted`). For strings that is where the absence of backslashes is
  needed, for operators that `//` and `/*` cannot begin inside one (`DoubleFacts`). Loops
  of the code are recursive functions over positions; each is shown to have the values its
  definition asks for before anything is said of them (`SkipExists`, `StringExists`,
  `EstimateExists`).
* **`DriverProofs`**, for every batch, scripts, options, budget and limit. `StageInv` says
  in each stage what the count of errors means for the part of the script that was looked
  at: it is zero exactly if that part is without fault, and in the checker also that then
  all of the script was parsed, since the parser may stop early. `ResultInv` says what the
  code of a finished file means and that the exit code is zero exactly if all of them are,
  `DiskInv` that bytecode on the disk is from an earlier run or from a file that is done.
  From them `ZeroMeansFaultlessAlways`, `VerdictsAlways`, `BytecodeAlways`; and
  `OutputsApartAlways` with the lemma that plain names with different stems have different
  outputs, which is false of a path too long for the buffer and of `out.txt`
  (`main.c:250-264`) - the property says so since the proof asked.
* **`EmitProofs`**, for every tree. That no string is missing from the pool depends on two
  walks of different shape. The invariant says that whatever the second pass has still to
  write has all its strings in the pool already. To have it at the start of the second
  pass, `CollectInv` names the set of nodes visited so far: their strings are in the pool
  or on the list of what is to be visited, their children visited or on the list; when the
  list is empty the set is closed. `NodeCovered` is the lemma on the code: for every kind
  of node, what the second pass writes and visits is among what the first pass visited.
  Closing a set of nodes takes the place of an induction over trees. From it
  `PoolCompleteAlways` and `PoolIsKept`. The trees are any sets with the fields the code
  reads (`TreeAssumption`).

Model-checked only: liveness; what is said of `Parser`, `Typing` and the reader of `Layout`,
whose operators recur over trees and call each other (and `Fold` computes with bits).

## 5. Plan

1. (done) conditional stack, macros, preprocessor loop, line tracking, symbol table,
   driver; the checker's walk over scopes, labels, states and events; types, expressions,
   conditions, returns and folding; lexer, parser and tree; the bytecode writer.
2. (done) proofs for the conditional stack, the preprocessor's loop, the lexer's lines,
   the symbol table, all that `Scopes` says of names, the driver, and the string pool of
   the writer: every safety property that does not speak of a recursive computation.
3. (done) the recursive computations over positions of a text: `ExpandLine`, the lexer, and
   the estimate of the size.
4. Proofs left, over trees: steps of the recursive parts that need no induction, such as what one
   level of `fold_expr` keeps, and what a table of operators allows.

## 6. Not modelled

* The parsing of the command line (`main.c:291-360`) and the listings of builtins: one
  assignment per argument, with no state that a later step could find stale.
* The suggestions of similar names (`sem.c:36-105`, `diag.c:174`, `util.c:69`): they change
  the wording of a report and no verdict.
* The rendering of diagnostics with carets and colours (`diag.c:60-116`): layout.
* The tables of builtins (`builtins.c`): generated data; the models take them as constants.
* Memory: allocation, growing buffers and the destructors of `ast.c`. A sequence grows.
* The value of a numeral (`strtoll`, `strtod`).
