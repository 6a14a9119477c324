# Cicest in TLA+

Models of the Cicest compiler (`src/compiler`, `src/libraries`), checked with
TLC and, where marked, proved with TLAPS. The source is the reference: every
definition is a translation of the lines `PROJECT.json` names for it.

## The system

Cicest compiles a small ownership-based language to native code. A run is one
thread walking a pipeline; there is no concurrency, what is hard is the
*protocol* inside each phase and the assumptions phases make of each other.

```
 file ─► cstc_module ──► cstc_tyir_builder ─► cstc_tyir_interp ─► cstc_lir_builder ─► cstc_codegen ─► linker
         (lexer, parser)  types, moves,        constants folded,    basic blocks,        drop flags,      + runtime.c
         load, resolve,   borrows, generics,   constraints          drops, generic       LLVM
         flatten          availability         decided              instances
```

| Part | State it keeps | Operations | What is hard | What makes it correct |
|---|---|---|---|---|
| `cstc_module` | loaded modules, their binding tables, marks | load, resolve (recursive), bind, rewrite, flatten | cycles, re-exports, an implicit prelude edge, a reference held across a recursive call | accepts exactly the linkable file systems; every name means what the imports say; no private item leaks |
| `cstc_tyir_builder` | scopes of locals (moved, borrow counts), loop contexts, item tables | declare, move, borrow, branch, join, loop | state copied into branches and joined back; loops read once; counters released by other functions than took them | what is accepted never uses a value that is gone |
| `cstc_tyir_interp` | constant environment, budgets, folded program; keys of satisfied constraints | evaluate, fold, validate constraints | running user code in the compiler; unknown values; divergence; constraints met once and not evaluated again | ends within its budgets; folds only what execution would compute; the verdict does not depend on what is remembered |
| `cstc_lir_builder` | locals, blocks, scope frames, loop targets, instantiation caches | lower, jump, emit drops, instantiate | every jump leaves a different set of frames; an instance is named before its body exists | each owned value is dropped once; the emitted program defines what it names |
| `cstc_codegen` | slots and drop flags | assign, move, drop | trusts the checker; flags only guard drops | frees what is owned, nothing else |
| `cstc_repl` | items, replayed lets, session file, scratch directory | submit, reset, show | each step can fail after the previous one took effect | a refused fragment leaves no trace; an accepted one builds |
| `libraries/std/runtime.c` | heap strings | concat, read, format | growth and length arithmetic | no overflow, every owned buffer is freed |
| `cstc_parser`, `cstc_ast` | tokens, a cursor | one function per production | lookahead of two tokens and one scan where the grammar needs more; no recovery | accepts the documented grammar, with its precedence and grouping |
| `cstc_lexer` | the text, a cursor | tokens | – | a pure function of the text |
| `cstc_tyir`, `cstc_lir` | data declarations, `availability_join`, `compatible` | – | – | lattice laws |
| `cstc_symbol`, `cstc_span` | thread-local interner, source map | intern, add file | the session's lifetime | – |
| `cstc`, `cstc_inspect`, `cstc_cli_support` | options | pipeline with early exits | – | – |
| other libraries | – | diagnostics, resource paths, colours, test helper | – | – |

Interactions: `cstc_module` hands one flattened program on; the checker's
verdict on moves is relied on, unverified, by `cstc_codegen` (a move loads the
slot whatever the drop flag says); `cstc_lir_builder` decides which drops a
jump performs and `cstc_codegen` which of them free something; three phases
expand generic instances under one limit, and each trusts what the one before it
let through; the REPL drives the whole pipeline once or twice per turn and keeps
state between turns.

The hazards of this code, each at its line and with the properties that watch
it, are the `hazards` of `PROJECT.json`.

## Modules

| Module | Models |
|---|---|
| `ModuleResolver` | `cstc_module/module.hpp`: the resolver |
| `ModuleLinking` | what resolution promises, without a resolver: the abstract specification |
| `ModuleRefinement` | the refinement mapping from `ModuleResolver` to `ModuleLinking` |
| `MCModuleResolver` | four-file systems for TLC |
| `ModuleResolverProofs`, `LinkingProofs` | proofs about `ModuleResolver`: its invariants; that it implements `ModuleLinking` |
| `BorrowChecker` | `cstc_tyir_builder`: the move and borrow checks |
| `DropFlags` | `cstc_lir_builder` and `cstc_codegen`: what a checked function does with the values it owns; composed with `BorrowChecker` |
| `MCOwnership` | the families of functions TLC explores |
| `BorrowCheckerProofs` | proofs about `BorrowChecker`: its types, its counters, and what it knew along the edges of the control flow |
| `DropFlagsProofs` | proofs about `DropFlags` |
| `GenericProgram` | programs with generic items, substitution, keys, the limit: what the next three share |
| `TypeRecursion` | `cstc_tyir_builder`: expansion of struct types |
| `GenericConstraints` | `cstc_tyir_interp`: evaluation of where clauses |
| `Monomorphizer` | `cstc_lir_builder`: the class `Monomorphizer` |
| `Instantiation` | the three passes one after the other, and what they owe each other |
| `MCInstantiation` | program families for TLC |
| `InstantiationProofs`, `ConstraintProofs` | proofs about `Instantiation`: lowering, type expansion and the registers of all passes; the constraint verdict |
| `TyIR` | `cstc_tyir`: typed trees, which of them control can leave, which depend on the runtime |
| `ConstEval` | `cstc_tyir_interp`: evaluation and folding, against the execution of what `cstc_lir_builder` and `cstc_codegen` make of a tree |
| `MCConstEval` | bodies of the called function for TLC |
| `ReplSession` | `cstc_repl`: a session, its turns and what persists between them |
| `MCReplSession` | fragments for TLC |
| `ReplSessionProofs` | proofs about `ReplSession` |
| `Parser` | `cstc_parser`: every `parse_*` function |
| `Grammar` | `docs/language/syntax.md`, sections 3 and 4: the reference for `Parser` |
| `MCParser` | contexts and vocabularies for TLC |
| `Induction` | induction over the naturals, for the proofs |

### The resolver

`resolve_module`, `resolve_imports` and `add_implicit_prelude_fallback` are
mutually recursive. `stack` holds their activations, one frame per
`resolve_module`; `stage` says where in its body a frame is (loading a target,
about to call, binding the items of an import, about to resolve the prelude,
using it) and `import`/`item` are the loop counters. One action is one stretch
of code between two calls. `modules` is `modules_` (index plus one),
`nextId` is `next_module_id_`, `held` the length of `modules_` at the moment
`add_implicit_prelude_fallback` binds its reference. A file is what
`collect_local_bindings` and `resolve_imports` read of it: imports, and
declarations with the names they use freely. A mangled name is the record of
what its text is made of, `Prefixed` gives the text, so a root item may or may
not be spelled like a mangled one. The constructor canonicalizes the root and
the prelude before it loads anything, so a *missing* prelude is reported before
the root is read; in the model it is reported right after the root was loaded.

`ModuleLinking` says in terms of sets and the import graph when a file system
is linkable and what every file then sees: no stack, no marks, no order. What a
file reaches is the least set closed under imports, what it makes public a
re-export chain of any length. `ModuleRefinement` maps the resolver to it: the
verdict is what `run()` returned, the scopes are what `lookup_visible` finds in
the tables. `ImplementsLinking` (`Linking!Decides`) is the refinement without
fairness: the resolver's verdict and its tables are those, independent of the
order in which files are loaded; together with `Terminates` it gives all of
`Linking!Spec`, since a run that ends in `done` or `failed` has decided. It says what the code does with the prelude's
items, which `docs/language/modules.md:97` describes differently: they are a
fallback behind a module's own names and take no part in duplicate checks.

### Ownership

`BorrowChecker` reads a function token by token, in the order `lower_expr` and
`lower_block` walk the tree, choosing each token: one run of TLC reads *every*
program up to `MaxTokens` tokens. `locals` is the flattened `Scope`, `open` the
recursion (what opened each block, the copy of the scope taken there, whether
its end is reached, the branch already read). `known` records what the checker
believed before each token; it is a history variable. When the function ends
the program is accepted, and `DropFlags` runs it: `pc` walks the tokens with
arbitrary conditions, `mem` holds the drop flags that are set, what references
point at, and two faults – a stale slot read, an owned slot overwritten. The
drops are those `emit_scope_drops_to_depth` and the ends of blocks emit from the
frames `alloc_local` filled so far.

What is abstracted: name lookup (a local is named by the token that declares
it), types other than owned and reference, drop order (a set of locals is
dropped at once; drops of one function do not observe each other), values
carried by blocks, `break` and `return`, calls with several arguments, fields,
and the probing of generic calls. `let _ = &x;`, which leaves its borrow
registered in the same way as `let r = &x;`, is left out.

### Instantiation

One program goes through three passes; `phase` says which runs, and a pass that
finds it at fault ends the compilation with a `reason`. Items have at most one
parameter, so a type is a *chain* of constructors from the outside in, and
substitution replaces its innermost one. Each pass is recursive in the code; its
activations are the frames of `expanding`, `evaluating` and `work`, and one action
is the stretch from one call to the next.

- `TypeRecursion` is `validate_declared_type_cycles`: it expands every declared
  struct with its own parameter opaque, looks through references, refuses a struct
  met inside its own expansion and an expansion of more generic structs than the
  limit. Since a struct is expanded once, whether a deep nest is refused depends on
  the order of the declarations (`NestedPrograms`).
- `GenericConstraints` is `validate_program_constraints`: the where clauses of items
  and of what bodies call or initialize. A clause asks whether a call or an
  initializer would be well formed (`decl(..)`), or for the value of a call, and may
  be compared with `Constraint::Invalid`, so a refusal further in can be what a
  clause wants. `satisfied` remembers instances by a key that does not
  contain the `runtime` of a primitive; so `RememberedHold` asks that the clause
  holds for *an* instance of the key, and no check of a program in the run leads to
  instances with `num` and to others with `runtime num` (`Unmixed`). What depends on the parameter of the
  surrounding item is skipped, and nothing comes back to it after substitution;
  `EmittedCallsMeetConstraints` therefore speaks of items without parameters.
- `Monomorphizer` emits every item without parameters and, before it, every instance
  it mentions, arguments before the constructor they are given to. `Begun` is the
  `emitted_*` sets, the second guard behind the caches in `instantiated`.

The reference definitions need no memory: `Outcome` evaluates a clause afresh, to a
number of nested clauses out of `Depths`, `NeededAfter` closes the roots under `Asks`,
`EmittedTypesAreFinite` says that every nonempty set of emitted structs has one that
contains none of them. Left out: the copies of the bodies, inference of
type arguments (a use names its instance), and items of several parameters.

### The parser

Tokens arrive one at a time and `parse_tokens` is applied to every prefix, so a run
covers all words over a vocabulary, in a context that precedes and follows them. The
parser looks two tokens past the one it is about to take (`LookAhead`), except for
the scan after `name <`, which runs as far as a list of types could. A source that
was refused without having looked at its end stays refused and is not extended: the
error is `LookAhead` tokens or more before the end, and no scan before it is still
open (`ScanOpen`). Each function of the class is an operator from the position it
starts at to a position and tree, or to the token of the error; the stretches of
`consume` and nested calls are lists of steps that `Run` executes. Recursive calls
between functions go through `Parse`.

`Grammar` reads the documentation's grammar as a derivation relation: `Derive` gives
every tree of a stretch of tokens, with no idea of lookahead or of the order in which
alternatives are tried. The comparison has two directions. `AcceptedAsDocumented`:
what is accepted has the tree the parser built among its derivations. One form is
left out, a path that keeps type arguments (`HasGenericPath`), which the page does not
have; it may only stand where the page has no structure the parser could have read.
`DocumentedIsAccepted`: a derivable source is not refused, except for what
`Readable` and `BlockLooksTaken` name. `Grammar` itself is as wide as the page. The
exceptions are what the parser does differently from it, each met as a
counterexample of TLC:

- inside a condition only a *leading* `name {` is kept from being an initializer:
  `if !x {}` and `while a == b {}` are refused; likewise a block after `a < b >`;
- suffixes are taken after names, initializers and suffixes only: `().x` is refused;
- a jump is no left operand and no condition: `break || x`, `if break {}`;
- a condition or constraint does not start with an initializer, a constraint not with
  a block;
- a type has one qualifier: `runtime runtime num`, which `RuntimeType = "runtime" , Type`
  (`syntax.md:187`) derives, is refused (`parser.cpp:949`, and `parser_errors.cpp:162`
  expects it), and so is `const runtime num`;
- generic parameters of one name and fields of one name in an initializer are refused
  (`parser.cpp:347`, `1782`), though section 5 of the page asks for different names
  only of the fields of a struct, variants and the parameters of a function.

Taken from the page's notes rather than its productions: `decl` is a form with one
argument and not the name of a function, and `const` stands only in front of the type
of a parameter or a local, never inside another type.

Of what the page leaves out, `Grammar` has attributes, `const` types, and statements
that end with a block and need no `;`. Tokens are given: the lexer, spans, warnings
and the text of literals are left out.

### The constant evaluator

`fold_program` runs user code inside the compiler and rewrites the program by
the results, so the property is agreement: with the program as written, and with
the native code. A body is assembled in postfix order, one node per step, from
the forms `cstc_tyir_builder` accepts, with the types and availabilities it gives
them; so TLC meets *every* body up to `MaxSize` nodes. `FoldStep` is one
`fold_program`; `ExecuteStep` runs the body as written and as folded.

Three families of operators mirror three parts of the code. `Eval*` is
`eval_expr`: its kinds of `EvalState`, the step and call budgets, the runtime
barrier that is lifted inside a call. `Fold*` is `fold_expr`: the environment of
known and unknown locals, the branches and operands it selects or leaves alone,
the availability it recomputes (`Node`). `Exec*` is the compiled program: a loop
has a local for its breaks' values only when its type is not unit, an `if` of
type unit yields unit, both operands of `&&` are computed; a `trace` records
the runtime calls and `late` says when the runtime answers true.

Values are the Booleans and unit, which is what control depends on. Left out:
`for`, generics with their constraints, numbers, strings, structures and
references. The forms three known disagreements need are behind names of their
own, off in the passing run: `valued_then` (an `if` without `else` whose block
has a value; the violation run turns it on), `unit_break` (`break f();` of type
unit, whose call is never compiled, `cstc_lir_builder/src/builder.cpp:703`) and
`dead_rhs` (a right operand of `&&` that has effects, which compiled code
computes and the evaluator does not, `cstc_codegen/src/codegen.cpp:819`).

### The session

`submit` is a chain of calls, each of which can fail after the earlier ones took
effect; one action is one of them, and `stage` says which is next. The boolean
`written` is the success of `write_text_file`: inside `lower_to_tyir` and
`lower_to_lir` its exception becomes an error, at a commit it leaves `submit`
(`thrown`). `turn` is the fragment, what persisted before it, and the
`SubmissionResult`; `exe` is the program the executable in the scratch directory
was linked from. A snippet is what the rest of the compiler decides on: names
declared, called, used and moved, at most one fault with the phase that finds it,
and the ways its execution can end. `Resolves`, `Folds` and `Ends` abstract the
phases modelled elsewhere to that; `Folds` keeps the one rule the session depends
on, that what follows a certain `return` is not folded. A tail is an unnamed
statement; how it is printed is left out, and so are the inputs' texts.

Two things the model shows and no run states. Items are committed once they are
typed: one that only fails when generics are instantiated or symbols are linked
(fault `limit` or `link`) is a success and fails every later execution until
`:reset`. And a binding whose initialiser returns is kept: every later program
ends in its replay, before the fragment that was entered, and is a success.

## Runs

| Run | Asks | Bounds | Outcome |
|---|---|---|---|
| `resolver` | Does resolution implement linking, end, keep its marks, tables and reference sound, and flatten to distinct, non-leaking names? | 840 file systems: 7 × 6 × 5 × 4 shapes of four files that import, alias, re-export, collide, close cycles (with and without the prelude), fail to load | pass |
| `resolver_mangle` | Can flattening merge two items? | a root item spelled `__cst_mod_2__g` | violated |
| `ownership` | Do the counters cover every reference in scope and never underflow? Is what the checker believes true when an accepted program runs, on every path? Do jumps drop exactly what they leave, and do owners outlive references? | every program of 5 tokens, dead code included; loop-free ones of 7; ones with loops and every jump of 7 (of 6 where a header moves) | pass |
| `ownership_moved` | Are moved locals unusable (`ownership.md:115`)? | 6 tokens | violated: `loop { consume(x); }` |
| `ownership_temporaries` | Are temporaries dropped like bindings (`ownership.md:161`)? | 6 tokens | violated: `while show(&make()) { }` |
| `borrow_lexical` | Does a borrow end with its scope (`ownership.md:90`)? | 6 tokens | violated: `{ let r = &x; } consume(x);` |
| `const_eval` | Does folding keep what the program does? Does evaluation agree with execution? Is every literal of its node's type, and is what is known folded? | bodies of 6 nodes, 4 callees (assert, early return, recursion, endless loop); 8 steps, call depth 2 | pass |
| `const_eval_if` | Has an `if` without `else` type `Unit` (`syntax.md:344`) after folding? | 5 nodes | violated: `if true { true }` becomes a literal `true` of type unit |
| `repl_session` | Is every refused turn without a trace, every report true, every executable the turn's own? Does what persists still resolve? | 29 fragments over four names; any number of turns (names are declared once, so the states are finite) | pass |
| `repl_accepted` | Does the compiler accept what persists (`repl_session.cpp:444`)? | the same fragments | violated: `return; let x = assert(false);` |
| `instantiation` | Does each pass refuse only for an expansion that is there? Is what is remembered true and the verdict independent of it? Is the emitted program closed, finite, needed and written once, and does every compilation end? | 14,500 programs of three to six items in four families; limit 3; where clauses nested 12 deep in the reference | pass |
| `parser` | Is what is accepted in the documented grammar, with its structure? Is what the grammar derives accepted? | all words of up to 4 to 8 tokens over 29 vocabularies, each in its context | pass |

Why the bounds suffice. A shape of a file is chosen for the case it opens, and
the product combines them: every error of the resolver is reached, a cycle
closes through the root, through a third file and through the prelude, a
re-export chain has three files, an alias collides with a declaration in one
namespace and not in the other. In a program of seven tokens, two of which are
the ends of a block and of the function, a value is declared, lent, moved in
one branch, and used after the join, or moved in the body of a loop another
token leaves; the three violations need four to six tokens. In a session the
snippets depend on each other through two items and two bindings: enough for a
binding that moves another, a binding whose item is gone, a fragment whose parts
fail at different phases, and two turns of which the second meets what the first
left behind. A body of six nodes shadows a known local by an unknown one and reads
it in an inner block (five nodes), calls a function under a condition and leaves a
loop by a jump; budgets of 8 and 2 are met by every loop and recursion without an
exit, and the bound `Fuel` on executions is at least the step budget, so that what
was evaluated can be executed to its end. That evaluation ends is no property of
its own: TLC computes it for every body. Two mutually recursive generic items reach
a limit of 3 in every pass, growing (`f<&Wrap<T>>`) and going round, and a third
one that is shared is met again after it was finished, and while it is not. A
vocabulary of the parser holds the tokens that compete at one place, so that five or
six of them meet every lookahead from both sides, two operators of every pair of
levels, and a list's empty, last and trailing element.

The properties `CheckedLocalsLive`, `AcceptedMovesAreSafe` and `NothingLeaks` name
what they exclude: the programs that are not `LoopsMoveTheirOwn` or not
`NoHeaderTemporaries` are those of the two findings; every loop-free program is both.

`CHECK_DEADLOCK FALSE` is set because a resolution, a rejected program, a
returned function, a parsed source that is not extended and a folded program that
was refused or executed are really over, and a session can be closed. In
`Instantiation` the end of the compiler is a step of its own, so that a pass that
got stuck would be a deadlock.

## Fairness

`ModuleResolver` assumes `WF_vars(Next)`: one thread executes `run()` and nothing
it waits for can fail to come. That it ends over a cycle of imports rests on the
`Resolving` mark; its mutant forgets the mark and uses up the call stack. `ModuleLinking` has the same for its one step;
`Terminates` is what the resolver owes for it. `Instantiation` assumes the same: its
passes are calls one after the other on one thread, and `Terminates` says that the
limits end every one of them. The other models state no fairness: nothing there is
claimed to happen eventually, user loops need not end, an evaluation and a parse are
one step, a session waits for its user.

## Proofs

All theorems hold for every value of the constants – any number of files,
names and file systems, programs of any length, sessions of any number of turns –
under the assumptions the modules state: `PathsAssumption`, `FilesAssumption`,
`SentinelAssumption`; `OpsAssumption`, `HeadersAssumption`, `BoundsAssumption`;
`NoNameAssumption`, `FragmentsAssumption`, `NoProgramAssumption`; `ProgramAssumption`
and `LimitAssumption`: any limit and any set of programs as the checker accepts them
(`IsProgram`: an item is declared once, its name is none of the model's names
of built-in types, types are complete, what is called or initialized is declared).

- `ModuleResolverProofs!TypeCorrect`. `TypeOK` is not inductive: `IndexOf(Root)`
  only exists once the root is loaded, and a frame's counters must stay within
  the imports of its file. `Inv` adds `WellDefined`, which says so for each phase.
- `ModuleResolverProofs!MarksAreActivations`, `ReexportsAreVisible`,
  `ResolvedIsFinal`. `Safe` adds that paths identify modules. The marks hold
  because a frame is pushed only by the branch of `resolve_module` that finds
  `Loaded`; exports are visible because both tables start from the module's own
  items and grow by the same insertions; tables are final because only the top
  frame's module is ever written, and that one is `Resolving`.
- `ModuleResolverProofs!ReferenceStaysValid`. `add_implicit_prelude_fallback`
  keeps a reference into a vector across a call that may load files. `Order`
  says why this is sound: nothing is resolved before the prelude
  (`PreludeFirst`), so the call either returns at once or enters the prelude;
  a prelude that imports a file waits for it while that file waits for the
  prelude (`CallerStages`, `PreludeFrames`, `Waiting`), so that call never
  returns; a prelude without imports loads nothing (`PreludeDone`).
- `ModuleResolverProofs!ReferencesAreSound` and `NamesStayDistinct`. Both speak
  of the finished program; `Linked` says what holds on the way. `Identified`: ids
  tell modules apart, and only the root has id 0. `Locals`: the table of a module's own
  items is that of its declarations. `Provenance`: what a module *sees* is its own or
  declared `pub` somewhere, what it *hands on* (exports, fallback) is declared `pub`,
  whatever chain of re-exports and aliases it came by. `Emitted`: the
  program holds exactly the rewritten declarations of the modules rewritten so far.
  A reference is rewritten to a binding that is, by `Provenance`, some module's
  declaration, and that one is in the program. `NamesStayDistinct` has the hypothesis
  `MangledApart`: mangled texts tell modules and items apart, and no source spells one.
  The first half is true of `mangle_name`, whose id ends at the first `__` after it; the
  second is what the code does not ensure, as `resolver_mangle` shows.
- `LinkingProofs!ResolverLinks`: `Spec => ImplementsLinking`, step by step. A step
  that ends in `done` is `Linking!Link`, one that ends in `failed` is
  `Linking!Reject`, every other stutters (`StepDecides`); so each of the resolver's
  reasons to fail must be a reason why the files are not linkable (`FailsRightly`),
  and a resolution that comes to its end must have found none (`CompleteLinkable`)
  and have the right tables (`CompleteScopes`). `Links`, on top of `Linked` and `Order`,
  says what holds on the way:
  - the walk: every loaded file is one the root reaches (`Needed`), each activation
    was called for by an import of each one below it (`Nested`, `Calls`), so meeting a
    `Resolving` mark is a cycle of the graph; what a module imports before the place it is
    at is resolved (`Resolves`), so a resolved file reaches resolved files only and
    is on no cycle (`Acyclic`); nothing loaded is left over (`NoneForgotten`);
  - the tables: a module's tables hold, under each name, exactly what its own items and the
    import items *bound so far* introduce, and each entry comes from one place
    (`Tables`), so a clash is two places that introduce a name; the fallback of a resolved
    module is what the prelude exports (`Fallbacks`);
  - the depth: what a module exports is public within as many steps as there are
    resolved files (`Depth`). `ModuleLinking` follows re-exports as often as there are
    files; this part says that it is often enough, and needs the theorem's one
    hypothesis, that there are finitely many paths. Conversely nothing becomes public in
    any number of steps that the resolved modules do not export (`PublicIsExported`).
- `BorrowCheckerProofs!CountersNeverNegative` and `ReferencesCounted`: `TypeOK` and
  `BorrowsCounted` of `CheckSpec`, for programs of any length and nesting.
  `BorrowsCounted` is not inductive: closing a block restores a copy of the scope
  made when the block opened, so the copies have to be right too. `Inv` adds
  `Sound` (a reference borrows from an *earlier* local, and is counted there) for
  the scope and for every copy, and `Nested` (a copy fits the prefix of the scope
  its block started from, and blocks nest, a `for` strictly, as its element is a
  local of its own). `insert` adds one dependent and one count; leaving a scope
  releases exactly the counts of the references it pops (`PopSound`); a join takes
  the maximum of two covering counts (`MergedSound`).
- `DropFlagsProofs!CheckerIsSound`, `MovesAreSafe`, `EverythingIsFreed` and
  `OwnersOutlive`: `CheckedLocalsLive`, `AcceptedMovesAreSafe`, `NothingLeaks` and
  `OwnerOutlivesReference` of `DropFlags!Spec`, for functions of any length and nesting
  and on every path. The checker reads a function once; the program jumps. So the proof
  has two halves that share only what was known before each token (`known`).
  - `BorrowCheckerProofs`, while the function is read. `Checked` says that source,
    knowledge and open blocks are a `Model`: before each token the enclosing blocks are
    those whose headers come before it, and what their headers knew still is a prefix of
    the scope (`Around`); on the two sides of each edge of the control flow – into a
    branch, over a block, round a loop, out of it by `break` or `continue` – what is
    known where it leads is assured by what is known where it comes from (`TokenOK`,
    `Flows`), and each block is open or has its end (`Closed`). A block that is still open has no such edges yet; `Reads`
    says what its entry in `open` must remember for them to hold once it closes. Both
    join and `Diverges` matter here: a branch that never reaches its end contributes
    nothing, so the point after it is assured by the other branch alone.
  - `DropFlagsProofs`, while it runs. `RunInv` says that at each point memory is `Good`
    for what was known there. Each reference in scope points where the checker thinks:
    at the local it borrows from or at a temporary made before it (`Aims`). If no loop moves what is not its own, what the checker takes to be there
    is there (`Safe`) – and also what it took to be there where each enclosing loop
    began (`LoopsAlive`): without this part the invariant is not inductive, as the
    back edge returns to a scope that the body has left behind. If no header makes a
    temporary, each value in memory is held by a frame of an enclosing block or by the
    function's own (`Clean`), so the drops of the frames a jump leaves, which
    `FrameClears` follows from the innermost frame outwards, leave exactly what the
    target holds; at the return nothing is left.

  The two conditions are those of the properties, `LoopsMoveTheirOwn` and
  `NoHeaderTemporaries`; the runs `ownership_moved` and `ownership_temporaries` show
  that the code does not ensure them. `EverythingIsFreed` does not need the first,
  `OwnersOutlive` needs neither.
- `InstantiationProofs!PromisedInstancesAreBegun` and `NothingDangles`: a program that
  reaches the end of lowering defines each instance it names, for any programs and any
  limit. `NoDanglingInstance` speaks of the end only; `Inv` says what holds on
  the way. A frame of `work` keeps the types its declaration mentions and its place
  in them; every generic part that place has passed is in the cache (`Answered`), and
  so is everything an emitted declaration asks for. A part is passed either because the
  cache has it or because `Instantiate` just put it there (`PartPassed`), and a
  frame is emitted when every part is passed (`EmitStep`). `PromisedIsBegun` is part of
  `Inv`: at the end nothing is being emitted, so what was promised was emitted.

- `InstantiationProofs!NothingUnasked` and `LimitIsReached`: lowering emits no declaration
  twice and nothing but what the items without parameters lead to in at most as many
  steps as the limit, and gives up only over a chain of so many different instances.
  `Once` says that what is under way has not been emitted either, so that emitting it
  repeats nothing; it is kept because a step begins only what is not in `Begun`. `Chain` says that
  the frames of `work` are such a chain: each asked for by the one below, no two
  alike, the i-th needed after i - 1 steps. `NeededAfter` is a recursive function;
  what it computes is shown by induction over the steps (`Induction`).
- `InstantiationProofs!TypeRefusalsAreReal`: a refused type lies on a cycle of structs, or
  under a chain of as many generic instances as the limit. `Stack` says that the frames
  of `expanding` are such a chain and that no key is on it twice; the number the code
  counts up and down, a recursive function of the frames, is the cardinality of
  `Deep`. `RegistersAreTyped` is `TypeOK` of all three passes; its invariant
  `Registers` says that substitution, keys and parts of types stay within the types of
  the program.
- `InstantiationProofs!EmittedTypesEnd`: no emitted struct is inside itself, though the type
  checker expands each declaration once, with its parameter opaque, and the
  monomorphizer emits other instances with no check of its own. `FollowInv` says of the
  keys expanded to the end that each has what it contains among them (`Closed`), that of
  any of them one has none of the others inside (`Grounded`), and, past that pass, that
  every declared struct is one of them. If some emitted instances went round, take the
  shortest of them: it has an argument Y, and the instances of expanded keys at Y that
  belong to the round would be a round of expanded keys (`NoneInsideItself`).
  `SubstitutionTwice` and `InsideOfSubstitution` say that containment and substitution
  commute.
- `ConstraintProofs!RememberedAreMet`, `VerdictsAreRight` and `EmittedCallsAreMet`:
  `RememberedHold`, `ConstraintVerdictIsRight` and `EmittedCallsMeetConstraints`. The
  evaluator stops at the first constraint that fails, skips what it remembers, turns
  refusals of probes into values, and gives up when it meets a key again; `Outcome` does
  none of this. With one more nested clause allowed, an outcome that was found stays the
  outcome (`OutcomeNext`), so outcomes found with different allowances can be put
  together. `VerdictInv` says what has been found out on the way: in every frame the
  constraints before the current one hold (`Behind`), a frame evaluates the clause of
  what the frame below asks for (`Nesting`), the answer is the outcome of the constraint
  it is for (`Replies`), what is remembered is met (`Remembers`), the items before
  this one pass. Giving up at a key met again is right because a clause that comes back
  to itself is too deep with every allowance, and giving up at the limit because the
  frames are as many (`GivenUp`). What is emitted is then met because every call of
  an item without parameters is one of its checks (`UseIsChecked`), and emitted because
  it is asked for as it is written (`CallIsAsked`), by `NothingDangles`.

  Two hypotheses. `Unambiguous`: each program is `Unmixed`, so that within a check a
  key stands for one instance (`OneKey`). The code does not ensure it (see the
  hazard at `detail.hpp:99`): with a check that mixes `num` and `runtime num` a clause
  met for one would count as met for the other. The programs of the run have it, as an
  assumption of `MCInstantiation` that TLC evaluates. `AnyDepth`: `Depths` is all of the
  naturals. `Depths` only bounds how far the *reference* is evaluated, and TLC needs it
  to be finite; how deep the clauses of a program nest before memory cuts them short is
  bounded by no constant.
- `ReplSessionProofs`: `TypeOK`, `RefusedLeavesNoTrace`, `ReportsChange`,
  `PersistedResolves`, `RunsThisTurn`, `ChangeIsSaved` and the action property
  `CommitsOnlyAccepted`, for any fragments. `IInv` says what each stage of a
  turn knows from those before it: nothing was said or kept yet (`Pending`), the
  program was accepted, lowered, and linked into `exe` (`Accepted`), and it ran to
  its end before a body is committed (`Ran`). `PersistedResolves` needs that names
  found in a program with statements are found without them: dropping what was entered
  between two bindings takes away uses and moves, never a declaration.

Recursion is out of the prover's reach only where an operator is declared `RECURSIVE`.
A recursive *function* over numbers is reasoned about by sets: `NatSetInduction` says
that a set with zero and every successor holds all of them.

Only model-checked: `Terminates` of the resolver and of instantiation (liveness), and
the properties of `ConstEval`, `Parser` and `Grammar`, whose definitions are recursive
operators over trees.

## Not modelled

- `cstc_tyir_builder` beyond moves, borrows and type expansion: inference of type
  arguments, type compatibility, the availability of calls. They are functions over
  types without a state protocol; `ConstEval` and `GenericProgram` start from what
  they accept.
- Values carried by blocks and jumps in `BorrowChecker`; numbers, strings, structures,
  `for` and references in `ConstEval`. Hence no run for the comparison of `NaN`, nor
  for the two forms that are left out of `ConstEval`.
- `AstRewriter`'s lexical scopes: `free` uses are given.
- `cstc_lexer`, `cstc_symbol`, `cstc_span`, `cstc_lir`, the drivers, `runtime.c`:
  functions of their input, tables, or data.
- LLVM code generation below drop flags, diagnostics, terminal colours, resource paths,
  the end-to-end test helper: input and output.

## Plan

1. `ConstEval`: `for` and numbers; value-carrying blocks in `BorrowChecker` and
   `DropFlags`; scopes of `AstRewriter`.
2. Type compatibility and the availability lattice; generic inference; the lexer.
