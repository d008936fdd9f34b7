# A verification development of the Tiger compiler `tc`

TLA+ models of the compiler kept in `src/`, the TLC runs that check them, and
the TLAPS proofs about them. Paths below are relative to the repository.

## The system

`tc` is one process with one thread. Everything it does is a *task*: each module
of the compiler declares its tasks as static objects in a `tasks.hh` header;
their constructors register them; the command line selects some; the
dependencies of each are resolved; the resulting list is executed. Tasks share
global state: the tree `ast::tasks::the_program`, a few flags, and the status
`task_error()` that becomes the exit status.

| component | state | operations | what makes it correct |
|---|---|---|---|
| task system (`src/task`, `src/tc.cc`) | table of tasks, list to execute, arguments | register, option, resolve, execute, end of `main` | dependencies first, user's order kept, no execution on a broken table, faithful status |
| task table (`*/tasks.hh`) | the declarations | none | no unknown name, no cycle, each task gets what it needs |
| pipeline (`*/tasks.cc`) | the tree and its annotations, flags, call graphs, LLVM module | one per task | a task finds what it needs on the *current* tree; the status names the program's error |
| error handler (`lib/misc/error`) | a status, a message stream | `<<`, copy, import, `exit`, `exit_on_error` | the most severe status stays, no message is lost |
| timer (`lib/misc/timer`) | stack of tasks, times | push, pop, import, dump | nested times are attributed once |
| symbols (`lib/misc/symbol`, `unique`) | the set of all strings | create, compare, `fresh` | equal exactly when their strings are |
| parser, scanner (`src/parse`) | start condition, comment depth, grown string; open files | tokens, productions, import | comments nest, strings read back, precedences, inclusion ends |
| Tweasts (`src/parse/tweast`, `metavar-map`) | text, trees under numbers, a shared counter | `<<`, flatten, append, take | every reference keeps its tree |
| file library (`lib/misc/file-library`) | search path, directory stack | append, prepend, find, push, pop | names are relative to the file they are in, the path is searched |
| AST, cloner, printer, dumper (`src/ast`, `src/astclone`) | the tree | traversal, copy, print, draw | what is printed reads back as the same tree; the drawing shows it, node by node |
| scoped map, binder (`lib/misc/scoped-map`, `src/bind`) | stack of scopes; the definition of each use | `put`, `get`, scopes; chunks, loops | lexical scoping, breaks bound to the right loop |
| renamer (`src/bind`) | counter, new names | one per declaration and use | unique names, same bindings |
| type checker (`src/type`) | types of nodes, definitions of named types | one per node | an accepted program never goes wrong; checking ends |
| escapes, lambda lifting (`src/escapes`, `llvmtranslate/escapes-collector`) | escape flags, sets of captured variables | traversal, fixed point | every variable a function reaches, directly or by its calls, is passed to it |
| call graph, inliner, pruner (`src/callgraph`, `src/inlining`) | graph of functions, recursive functions | build, expand | only non recursive functions are expanded; same meaning; it ends |
| desugaring (`src/desugar`) | rewritten tree | loops, string comparisons | same meaning, at the largest integer too |
| LLVM translation (`src/llvmtranslate`) | functions, allocas, loop ends | one per node | the code does what the program says |
| runtime (`llvmtranslate/tiger-runtime.c`) | none but its constant strings | calls on strings | indices are checked, conversions are inverse |
| object, overload, combine | class names, overload table | as above | most of their code is deleted in this tree |
| utilities, tcsh, build | data | containers, bindings | not modelled, see below |

The parts interact by calls only: the register calls the tasks; a task calls the
entry point of its library with the tree; `desugar`, `inline`, `prune` and
`bounds-checks-add` call the binder and the type checker again on the tree they
build; desugaring and inlining build that tree by calling the *parser* on text
that holds trees (Tweasts) or, for loops, on what the *printer* makes of trees;
every task reports into the one `task_error()`.

What is hard here is not concurrency but

- *order*: the list is built by a recursive search interleaved with the options
  of the command line, from dependencies that only say which task must have run
  *at some time before*; a task may replace the tree after another annotated it,
  a flag may be set after the pass that reads it, an argument is read long after
  the option that gave it, and a task that throws leaves the rest undone;
- *state saved and restored by hand* around recursive visits: scopes, chunks,
  loops, the directory stack, the driver's input, the timer, the numbers of
  nested metavariables;
- *meaning kept through many representations*: a program is printed and parsed
  again, copied, renamed, expanded and flattened, and each pass relies on what
  the one before promised (unique names, recursive functions known, escapes
  computed) without checking it;
- *recursion that must end*: type names, inlining, fixed points, imports;
- *edges*: the largest integer, bytes above 127, empty strings, octal escapes.

## The modules

**The driver.** `ErrorStatus` is `misc::error::error_type` and the rule by which
one status stays (`Mark`). `TaskRegister` is the task system, from the static
constructors to the end of `main`. `enable_task` and `resolve_dependencies` call
each other; the model makes the recursion an explicit stack `calls` of
activation records, each with the dependencies still to visit, so that each step
of the search is one action (`CallDependency`, `NextDependency`, `Schedule`, and
`OverflowStack` when the process has no room for one more record). `Option` is
the notifier of one option, `EndOptions`, `BadUsage` and `Help` are the ways
`parse_arg` ends, `StartTask` and `TaskReturns`/`TaskThrows`/`TaskAborts` the
loop of `execute` with the three ways a task ends. The tables of declarations
are a constant set, so a model checks all of them at once. `asked` and `ran` are
history variables. `TaskSchedule` is what the register promises: a plan that
grows at its end by tasks whose needs it already meets, and then is executed
from its start without a gap; `TaskRegister!Promise` instantiates it with `plan
<- task_order`, `done <- Len(ran)`. `TcTasks` is the table `tc` really has.
`Pipeline` extends TaskRegister by the tasks themselves, one action per kind of
task, on a tree abstracted to what later tasks can tell apart: whether it is
bound, typed, has unique names, has its escapes, still has loops or string
comparisons, was parsed with the prelude, and its *perils*. A peril is what a
correct program may have that a pass cannot take, as `Compiler` finds it on real
trees: a loop that loses something in text (`lossy`), a recursion hidden in
arguments (`hidden`), something the translator has no value for
(`untranslatable`). A program has perils as it is written and others once it is
inlined. A task that transforms the program replaces the tree (`Replace`):
`Copy` says what a cloner loses, `Desugared` what desugaring may lose in text
(`Broken`), `Rechecked` what `bind_and_types_check` restores of a tree that
still binds and types (`Passes`). Each task ends by one of the three ends of
TaskRegister, now with a reason.

**The binder's states.** `ScopedMap` is `misc::scoped_map`: a stack of maps,
each a copy of the one below it at the time its scope began. `Binder` is
`bind::Binder` over it. The visitor calls itself; the model keeps its activation
records in the stack `open`. The program is not a constant: at each point the
next node is chosen among those the grammar allows there (`Begin...`, `Use`,
`Break`, `Header`, `Formal`), so one run covers every program of at most
`MaxSize` nodes, correct or not. What the code does around a sub-expression is
split where the sub-expression is visited: `ForExp` is `BeginFor`, (upper bound)
`LowerBound`, (lower bound) `ForBody`, (body) `EndFor`. A tuple of the three
name spaces is three entries, since `put` always copies the other two. Three
history variables say what the program means, independently of the binder: `own`
(what each open scope declares), `fault` (the node just visited is an error) and
`alarm` (it was reported).

**The passes.** These are functions of a tree, written as operators that follow
the visitors, one case for each node class they treat:

- `Ast`: the nodes (a record of class, name, number and children in the order
  `DefaultVisitor` visits them), the traversal `Walk`, the copy.
- `PrettyPrinter`: the tokens printed for each node. `Grammar`: the productions
  of `parsetiger.yy`, deciding as Bison's precedences decide, with
  metavariables; `&`, `|` and unary `-` are parsed from a Tweast, as in the
  code.
- `Bindings`: the `def_` of every use in a whole tree (identity of a node = rank
  in the traversal, as the tree is immutable where the code has pointers), and
  the redefinitions that `nb_chunks` makes the binder refuse (`Redefines`).
- `TypeChecker`: the type of every node and whether the program is accepted,
  `nil`, read-only indices, the chunks of types and the search of `sound()`,
  which may not end.
- `LambdaLifting`: escaping variables, the collector's fixed point, what each
  function is passed. `Renamer`, `Desugar`, `Inliner`: the trees they make; a
  dereferenced null pointer is a node `Crash`, an endless expansion `Endless`.
- `Translator`: what a tree computes, as an interpreter. With `code.lifted` it
  is the program `translator.cc` builds (functions by name, variables of other
  functions as addresses in extra arguments, strings as addresses of literals,
  fields by position, no `for`); without, it is the language (static scoping,
  strings by contents, fields by name). One interpreter in two modes keeps the
  comparison to where the two differ. Integers have `Width` bits.
- `Compiler` composes them on one program: `ParseProgram`, `ComputeBindings`,
  `ComputeTypes`, `RenameAll`, then `DesugarPass` and `InlinePass` in any order
  or not at all, the latter perhaps a second time (`InlineAgain`), which nothing
  renames for, and `Translate`, which needs a desugared tree. `meaning` is what
  the program does in the language, fixed when it was typed; `result` what its
  translation does.

**Drawings and graphs.** `DumperDot` is the drawing of a tree for Graphviz: the
boxes, rows, ports and arrows each visit writes, in order. `FundecGraph` is the
graph of functions with its vertices in the order they are added; a function the
graph does not have stands for its first vertex, which is what a null pointer
gets.

**Files.** `Scanner` has the start conditions, nested comments, strings with
their escapes, `misc::escape`; outside a comment `*` and `/` are two tokens.
`Files` has the search path, the directory stack, `find_file`, and the parse of
files that import each other: an import is `OpenFile` into a new frame, a list
is reduced from its end (`PushFront`, `Import`, `EndOfImport`), the prelude is
put in front (`EndOfProgram`, `EndOfPrelude`). The grammar is right recursive,
so all tokens of a list are read before its last import is reduced, up to the
first that cannot follow (`Unexpected`) or to a metavariable that names nothing
(`LastMetavar`). A frame therefore has, as its `fault`, the syntax error that
awaits it; `ErrorsAhead` are the lexical errors met on the way there; and the
error is reported when what is before it has been reduced, its imports included
(`EndWithError`). `GoodFiles` says what the files spell, apart from how they are
read: `Good(tree)[n]` are the files that can be read with `n` streams open,
because all they import is there and in `Good(tree)[n - 1]`, and
`Inclusion(tree)` has their declarations with those of every import in its
place.

**Machines of their own.** `Comments` runs two scanners of `Scanner` on one text
of any length, one alone and one inside a comment, and keeps whether `*` and `/`
met where they are no mark of the text's own (`marked`). `Literals` prints a
string byte by byte with `Escape` and reads it back rule by rule (`ReadOne`).
`ErrorHandler` has the handlers of a pass, of `tc` and of `main` and the steps
by which messages travel between them (`EndOfPass` copies a handler out of the
pass, imports it, and may throw it). `Symbols` has the set of strings behind all
symbols and the counter of new names (`MakeSymbol`, `Rename`). `Timer` has the
timers of the register and of `main` with a clock (`BeginTask`, `EndTask`,
`Tick`, `ImportTimes`, `LeaveMain`, `ReportTimes`). `Runtime` has the C
runtime's functions on strings, called on literals and on each other's results
in any order (`CallConcat`, `CallSubstring`, `CallChr`, ...): chars are signed,
ints wrap around, and the sum in `substring` is compared as a `size_t`. `due` is
what the comment of a call says it gives for the bytes that were spelled,
`negative` whether the call takes one of 128 or more for an int. `Tweasts` has
texts with references to trees and to other Tweasts (`AppendText`, `AppendTree`,
`AppendTweast`). `flatten` calls itself; its calls in progress are the stack
`flattening`, each with the inner Tweasts it has still to flatten
(`FlattenInner`). `TakeInner` begins to take one in, `MoveMetavar` is one turn
of the loop of `move_metavars_`, which renumbers one reference, and
`ReplaceInner` puts the text in its place. Then the parser reads (`ReadWord`,
`Take`, `EndOfText`); a reference without a tree and a tree that is left over
set `broken`. The code deletes the inner Tweasts together at the end of the
call; the model deletes each when it has been emptied, which nothing can tell.
Each of the last five keeps in history variables what was really reported, made,
spent, spelled or given.

**MC modules**: `MCTaskRegister` (tables), `MCPipeline` (programs and
selections), `MCBinder`, `MCCompiler` (programs), `MCFiles` (file systems),
`MCLibrary` (the files and the machines of their own, side by side: in each
behaviour one of them runs and the others stay where they began). `Runtime` has
a configuration of its own.

**Proof modules**: `SequenceLemmas`, `TaskRegisterProofs`, `PipelineProofs`,
`BinderProofs`, `FilesProofs`, `GoodFilesProofs`, `ScannerProofs` (about
`Comments`, `Literals` and `Tweasts`), `LibraryProofs` (about `ErrorHandler`,
`Symbols`, `Timer` and `Runtime`).

## The runs

| run | what it asks | bounds |
|---|---|---|
| `register` | `TypeOK`, `DependenciesFirst`, `AsOftenAsAsked`, `RunsInOrder`, `DependenciesOnce`, `RunsOnlyWhenSound`, `CleanExit`, `OwnArgument`, `KeepsPromise`, and `Termination` under fairness | 342 tables of 4 tasks: every acyclic one with at most 2 dependencies each, ordinary or disjunctive; faulty ones; cyclic ones; one with arguments. 2 options, 5 records |
| `pipeline` | `FindsAnnotations`, `NoTaskCrashes`, `ReadyToTranslate` on correct programs, `StatusTells` on all | the real table; any 2 of its tasks, or 3 out of 13 on a correct program; 15 programs |
| `binder` | `BinderTypeOK`, `LexicalScoping`, `ScopesBalanced`, `EnclosingLoop`, `NoMissedError`, `OnlyIndexClashes` | programs of 6 nodes, 2 names in each of 3 name spaces |
| `compile` | `ReadsBackWhatItPrints`, `DrawsTheTree`, `RenamingKeepsBindings`, `TypesEnd`, `NeverWrong`, `KeepsMeaning`, `PassesEnd`, `OnlyForwardCallsMiss`, `TranslationSame` | 855 programs, integers of 3 bits, 6 calls and iterations |
| `library` | on files: `GoodFilesParse`, `SuccessMeansGood`, `FollowsTheFile`, `NoFileTwice` | 1080 file systems, 1 search directory, 4 open files |
| | on machines: `CommentsNest` | texts of 8 lexemes of 4 kinds: `*`, `/`, the quote, the end of a line |
| | `StringsReadBack` | strings of 3 bytes, out of 18 on each side of the rules |
| | `MessagesArrive`, wherever the passes leave | messages of 1, 2 and 3 characters, 8 in all |
| | `NamesStayApart` | 2 names, one ending like a number, 11 numbers, 1 other symbol |
| | `TimesAddUp`, reports after an exception included | 2 task names, 3 in each other, 4 ticks |
| | `StringsChecked` | strings of 3 bytes of 2 bits, ints of 4 bits |
| | `TweastsKeepTheirData` | 3 Tweasts of at most 2 items before flattening, 2 kinds of trees, 3 numbers given while building |
| `sugar`, `index`, `loops`, `inlined`, `search`, `arguments`, `strings` | claims the code does not keep (below) | the smallest of the above that show it |

*Tables.* Four tasks suffice for every shape a search can meet: a shared
dependency (a diamond), a chain, a disjunctive task whose alternatives are
scheduled by another one, and a task asked for after it was scheduled as a
dependency. Two options are needed for one option to find the other's tasks in
the list, or to name a task twice with two arguments; three let a transformation
come between two options of the same kind in the pipeline, where `Bounded` keeps
the command lines of three options to those of `Selected` (`MCSpec`).
`StackLimit` is the room for activation records; it is above the depth of every
acyclic graph of the run; on the cyclic tables it is reached. In the pipeline
the chains of the real table are at most 5 deep. The programs have at most one
peril or one error each.

*Binder.* The names are interchangeable (symmetry), and one name is hidden, used
and declared again in another space with two. Six nodes hold two constructs
inside each other with a declaration in each and a use or a break at any place,
or a chunk of three declarations with their bodies; ends are not counted, so
every program is visited to its end. `nb_chunks` starts at 0 or 1, as earlier
bindings of the process leave it; only equality matters.

*Programs.* `MCCompiler` builds families with every choice of their parts:
arithmetic at the limits, comparisons of strings under a type's alias, loops
with every kind of bound and body (breaks, nested loops, functions and
declarations in the body, assignments to the bound), `nil` and records under
each use, all orders of three types naming each other, arrays and records with
aliases and with fields out of order, two functions calling each other and
sharing variables, functions in recursive functions, calls in arguments,
shadowing in nested scopes, names declared twice in a chunk, types that name
those of an earlier chunk, calls of functions in loops, so that inlining brings
their bodies there. With three bits the largest integer is 3, so a loop reaches
it; `Fuel` bounds calls and iterations; a program that runs out of it has no
meaning to compare (status `fuel`). A division by zero or an index out of an
array is `undefined` and compared with nothing either; arithmetic wraps.

*Files.* A directory with a main file, a file beside it, one of the same name in
a subdirectory, a directory of a search path. Texts have each kind of import
(beside, below, through `..`, of itself, of its importer, of what is missing),
each error (lexical, syntax, metavariables, unended comments and strings, an
integer too large) and comments around imports. Errors stand before, between and
behind the imports. Four open streams are fewer than a cycle through `..` needs,
so that its end (no stream left) is met. `MaxDirs = 1` directory is added at
most, before or behind.

*Small machines.* Eight lexemes of one character each hold a comment in a
comment, and a string or a product and a quotient in either. (The marks of
comments have two characters each; the other tokens change nothing about
comments.) The bytes are those at both ends of each class of characters the
escapes tell apart, so three hold an escape followed by what could prolong it.
Messages of different lengths show whatever overwrites another. Eleven numbers
hold one of two digits, beside a name that ends with a digit. Three tasks in
each other, of two names, hold one around its own name with another in between.
Chars of two bits are -2 to 1, so half the bytes are negative as chars; ints of
four bits hold the sums that overflow and those that do not, and three bytes
hold a substring at each end and in the middle. Three Tweasts hold one in one in
another, and two in one; three numbers hold two references to Tweasts and one to
a tree, or one with two trees, given in any order, so that an inner Tweast has
numbers above and below those around it. Numbers given while flattening are not
bounded. Tweasts, and trees, are interchangeable (symmetry).

`NoTaskCrashes`, `FindsAnnotations` and `ReadyToTranslate` are about the command
lines `Chosen` describes, so one run has them all. `Chosen` leaves out `clone`
and a second `parse` (they leave an unbound tree, which `--bindings-compute
--clone --types-compute` then dereferences), the `raw-` tasks (documented in
`desugar/tasks.hh` to leave the tree in a bad state), `no-prelude` (a string
comparison is then rewritten into a call to a primitive nobody declared, and
`bind_and_types_check` aborts) and the object, overloading and combining tasks;
for `ReadyToTranslate` also `desugar` and `llvm-compute` asked by themselves
(the first is what `sugar` is about; the second translates again a tree whose
escapes a later inlining lost). `StatusTells` is about all of them. `Offered`
limits the options of the run `sugar`, never the dependencies.

Deadlock is checked in the runs over TaskRegister, Pipeline and Binder, where an
`Ended` step closes every run: for the pipeline that shows that no task of `tc`
is reached whose behaviour the module leaves out. `Compiler`, `Files` and the
small machines simply stop, when the program is translated or refused, the text
read or the report made, so their runs do not check it.

### What the runs found

With a run each (`PROJECT.json`, `findings`):

- `sugar`: `--desugar --llvm-display` translates sugared code, as `desugar` is
  not run again after its flags are set.
- `index`: a declaration that hides the index of a `for` directly in its body is
  refused as a redefinition.
- `loops`: a `for` whose bound or body has an operand such as `(if x then 1 else
  0)` means something else once desugared: it is printed without its parentheses
  and parsed again.
- `inlined`: `--inline` of a procedure makes a variable without a value, which
  the translator cannot load: a program that could be translated no longer can.
- `search`: a file in a directory of the search path is not found (`DIR/f/f` is
  looked for), and its import then crashes `tc`.
- `arguments`: of `-P a -P b` both executions append `b`: a task has one
  argument, which is read when the list is executed.
- `strings`: a substring of one byte of 128 or more is read outside `consts`,
  and `ord` of such a byte is negative, so not the inverse of `chr`.

Met while modelling, and kept in the models as they are (each is an exception a
property names, or an action that ends the process):

- cycles among tasks exhaust the stack (`task-register.cc:110`, a FIXME);

- a `std::runtime_error` ends `tc` with status 0 (`tc.cc:43`; `CleanExit`);
- a `for` with a computed lower bound dereferences a null pointer
  (`desugar-visitor.cc:146`; `NamedCrash`, `PassesEnd`);
- a call graph printed after its tree was freed (`NamedCrash`);
- what a loop loses in text may keep the new tree from binding or typing
  (`libdesugar.hxx:30`), inlining may never end, and the translator may lack a
  value: `NamedCrash` has each as a crash of the very task that meets it, on a
  program that has the peril then;
- a function that calls itself in the arguments of a call is expanded for ever
  (`PassesEnd`), and `type c = a type a = b type b = a` makes `sound()` loop
  (`ComputeTypes`, stage `Endless`);
- a function that calls one declared after it in its chunk may lack the callee's
  variables (`OnlyForwardCallsMiss`);
- a `break` in a function declared in a loop's body is bound to that loop
  (`EnclosingLoop`, `NeverWrong`, `ForeignBreaks`);
- `<>` on strings compares addresses, records are stored by position and the
  names of their initialisers are never checked (`Divergent`);
- an array type is printed as its base type, so that a loop with one in its body
  does not check again after desugaring (`LostInText`, `PassesEnd`);
- a missing or recursive import crashes the parser (`Import`, stage `crashed`),
  an imported file's syntax error loses its own status for `parse`, and a file
  included in itself through `..` is included until no stream can be opened
  (`NoFileTwice`);
- the time report counts every task twice in its total, once under "rest", and
  lacks the tasks after an error exit (`TimesAddUp`);
- what is reported to a *copy* of an error handler overwrites its first messages
  (`Copied`; no path of `tc` does, which is what `MessagesArrive` shows);
- the children of nine classes of nodes are not drawn (`Undrawn`), and a
  function declared at the top level has, in the graph of parents, the first
  function added as its parent, since a null pointer is looked up like a
  function;
- `--object-types-compute` ends the process with status 0 and checks nothing,
  and `object-bindings-compute` tests its flag the wrong way round.

### Fairness

`FairSpec` assumes weak fairness of `Next` only: one thread that is not blocked
by anything goes on, and a task that was called comes back in one of the three
ways. Nothing is assumed about which task ends how. Termination of the search
therefore comes from the shape of the tables, not from fairness. The other
specifications assume no fairness, and no liveness is claimed of them.

## The proofs

The theorems hold for every value of the constants that meets the ASSUMEs of the
modules: any tables, command lines, programs, files, texts, any size and depth.
TLC evaluates the assumptions in the runs. Each inductive invariant was checked
by TLC as an invariant of a run before it was proved.

**The task system** (`TaskRegisterProofs`). They assume only
`DeclarationAssumption`: cyclic and faulty tables are included.

- `TypeCorrect`: `TypeOK`.
- `ScheduleCorrect`: `DependenciesFirst`. It is not inductive: between the call
  of `enable_task` and the append, the list says nothing about the dependencies
  visited so far. `ScheduleInv` adds `CallsResolving`: in every activation
  record each need of its task is met by the list or is still in the rest of its
  loop. It survives because the list only grows, and because the table does not
  change once a task is scheduled (`QuietStart`).
- `ExecutionInOrder`: `RunsInOrder`, strengthened by `Progress` (the timer holds
  exactly the task that is running).
- `RegisterImplementsSchedule`: `KeepsPromise`, by mapping each action to
  `Plan`, `Run`, a change of stage or a stutter, with the invariants above.
- `StatusClean`: `CleanExit`, with `OptionsProgress` (`ExitInv`): once an option
  was read there is something in the list or in the stack, so that `main` does
  not enable the default task over an error.
- `ArgumentsCorrect`: `OwnArgument`. `ArgumentInv` says that an object holds the
  argument of its last option, before and while the list is executed.
- `OnlySoundRuns`: `RunsOnlyWhenSound`. `SoundInv` says in each phase what no
  error so far, or being past `parse_arg`, tells about the whole table and about
  the dependencies of the tasks in the list and in the stack.
- `SearchSchedulesOnce` (`DependenciesOnce`) and `ListHoldsWhatWasAsked`
  (`AsOftenAsAsked`) are about the tables in `Acyclic`, those in which every
  dependency descends in one of `Ranks`, which may be any rankings of the names.
  `SearchInv` says that ranks descend along the stack, so a task that is entered
  as a dependency is not entered again below itself; `CountInv` counts the
  copies of a task in the list against its options, one more while its own
  option is being resolved. That `AcyclicTables` are in `Acyclic` is an ASSUME
  of `MCTaskRegister`.

**The pipeline** (`PipelineProofs`). A step of the pipeline is a step of the
register (`StepsOfTheRegister`), so the lemmas above hold of it.

- `StatusesTell`: `StatusTells`, for any table; `StatusInv` keeps the status
  equal to that of the program's fault as soon as a task that detects it has
  ended. `TreeInv` says why no task in between stops tc or reports another
  error: the tree binds and types (`Passes`) unless `--raw-desugar` wrote
  something that does not (`Misread`), which the property leaves out.
- `AnnotationsFound` (`FindsAnnotations`) and `TasksSurvive` (`NoTaskCrashes`)
  assume `Careful`: programs without a fault, no bare task selected, and a table
  in which each task that reads an annotation reaches, through its first needs,
  one that computes it (`Annotating`). `ListInv` says what can be in the list
  and in the stack, and bounds the depth of the search by the ranks;
  `AnnotationInv` says that what a completed task has left is still there, also
  when another one has replaced the tree since, and that the tree has no perils
  but those of the program as it was written or inlined, which is why a crash is
  one that `NamedCrash` names and no order of the options adds another.
- `TranslatorReady`: `ReadyToTranslate`, assuming `Ready`, which adds that
  desugaring is left to the translator. `DesugarsFirst` follows the search from
  the call for `llvm-compute` to its place in the list, `SugarInv` its
  execution: after `desugar` only tasks come that leave the tree alone
  (`Settled`).

`MCPipeline` has TLC evaluate, in each of its runs, that the table of `tc` meets
`Annotating`, `DesugarsLate` and the ranks (`TcIsAnnotating`), and that the
options `Selected` and the correct programs, with and without perils, meet the
rest (`SelectedIsReady`), so the hypotheses hold of what is modelled. The run
`pipeline` checks the same properties with all options offered, their condition
being on what was asked (`Chosen`). The run `sugar` shows what happens without
them.

**The binder** (`BinderProofs`): `BinderTypeCorrect`, `ScopingCorrect`
(`LexicalScoping`), `ScopingBalanced` (`ScopesBalanced`), `BreaksCorrect`
(`EnclosingLoop`) and `ErrorsReported` (`NoMissedError`) from one inductive
invariant, `BinderInv`:

- `EnvInv` is `LexicalScoping` with `Unbound`, which says at once what
  `LexicalScoping` says scope by scope: a map has no definition of a name
  exactly when no scope up to its own accepted one. It is what makes a reported
  use an error and conversely; as a fact of its own it is kept by each step,
  without an induction over depth.
- `ScopesBalanced` guarantees a scope to put into (`put` drops its data when
  there is none) and one to end, given `OpenInv`: the chunk list of the program
  is at the bottom of `open`, and headers and formals are only at its top, so
  the names a chunk has declared concern the frame on top alone.
- `EnclosingLoop` relates `break_stack` to positions in `open`; a loop's frame
  is on top when its position is pushed or popped.
- `SeenInv` says that the names declared so far by the chunk being declared are
  in the top map under the present `nb_chunks`, hence recognised: nothing
  between two headers, or two formals, counts a chunk or ends a scope.

`RefusalsExplained` (`OnlyIndexClashes`, an action property) needs the converse:
which names carry the present number at all. `IndexInv` says of each entry with
that number that it comes from the chunk being visited or is the index of a loop
whose scope is still open, at a depth that counts the scopes below it (`Level`).

**Files** (`FilesProofs`, `GoodFilesProofs`). `FollowsFiles` (`FollowsTheFile`)
and `ImportsDiffer` (`NoFileTwice`). `FilesInv` has one directory on the stack
for each frame, that of its file (`OneDirectoryEach`), the input each frame has
saved, that of the frame below it (`BegunBelow`), and the open files, which are
those of the frames and all different (`ImportedOnce`). That different paths
without `..` are different files is recursion over a path: it is shown by the
least prefix for which it would fail (`RealWhereNothingLeadsUp`).

`GoodFilesAreParsed` (`GoodFilesParse`) and `SuccessIsDeserved`
(`SuccessMeansGood`) come from `GoodFilesInv`. Lists are reduced from their end:
what is left in a frame is a prefix of the items it was begun with, what has
been reduced of it was good, and the chunks made so far are what those items
stand for (`FrameGood`). Good at which level is the point: the streams that are
open say how many more can be opened below a frame (`MoreOpen`), one less for
each frame further in, so that an import is good at exactly the level its
importer needs; the main program has been closed when the prelude is read. That
`Good(tree)` and `Inclusion(tree)` are functions at all (`GoodDefined`,
`InclusionDefined`) is shown by the least level at which they would not be.
`FoundBeside` leaves out the parses in which a file may be found elsewhere. A
frame with a `fault` promises nothing about what its items are, only that it
ends in an error, and good files have none: `NothingFails` says that as long as
all is good there was no error, no frame has a fault, and what is left to import
is good (`ImportsGood`). `MaxOpen` is any number but 0.

**The scanner** (`ScannerProofs`).

- `NestedComments`: `CommentsNest`. `CommentInv` keeps the scanner inside the
  comment one level deeper than the one that reads the text alone (`Deep`), as
  long as the text has no error and holds no mark but those of its own comments.
  A mark has two characters, so the invariant also says which of them either
  scanner holds back (`HeldInside`, `HoldsRight`); what the text may still do,
  such as end inside a string, is allowed for.
- `StringsSurvive`: `StringsReadBack`. `LiteralInv` says where the escape of
  each byte ends in the text, and that what has been read is the escapes of the
  first bytes; each of the 256 bytes is read back by one rule, whatever follows.
- `TreesAreKept`: `TweastsKeepTheirData`, for any number of Tweasts, kinds
  (`TweastAssumption`: there is one at least) and references, and any depth.
  `TweastInv` says that numbers are below `count_` and stand once in a text, so
  that `replace_first` finds the reference that is meant and no other
  (`Numbered`); that references and trees correspond (`References`), with those
  on their way as the only exception (`Arriving`); that the text spells what was
  given, its inner Tweasts read in their place (`Spelled`); that each inner
  Tweast is held once (`Owned`); that the calls of `flatten` are of different
  Tweasts, each inside the one below it, so that a call changes nothing its
  callers have still to use but what they wait for (`CallIsFor`); and that the
  text being moved still stands for what it did, part renumbered and part not
  (`MovedText`). What a text spells after a reference in its middle has been
  replaced by a text is a lemma about `FlattenSeq` (`SequenceLemmas`).

**The library** (`LibraryProofs`).

- `NothingIsLost`: `MessagesArrive`. `HandlerInv` says that a handler that is
  written to is written to at its end (the copies are not, and nothing is
  written to them), and that until it ends the handlers of `tc` and of the pass
  hold between them all that was reported.
- `NamesApart`: `NamesStayApart`. `SymbolInv` has one address for each string
  and a number of its own for each name given. Names with different numbers
  differ because the number is what follows the last `_`, and because different
  numbers have different digits (`ToDigitsDiffer`, by the least number that has
  those of another).
- `TimesCountOnce`: `TimesAddUp`. `TimerInv` relates what each clock shows to
  the time its task was innermost, while it runs and while it is stopped.
- `StringsAreRight`: `StringsChecked`, for chars and ints of any width, and
  strings no longer than an int counts (`RuntimeAssumption`). It leaves out what
  a call gives when it takes a byte above `MaxChar` for an int; `strings` shows
  that. `RuntimeInv` says that the string held has, as chars, the bytes it
  should have. A sum of two ints that are not negative and do not fit wraps to a
  negative one, which as a `size_t` is larger than any length (a lemma about
  remainders, as neither prover knows `%` by a variable); strings are ordered by
  the first byte in which they differ, which is the least number of a set that
  is not empty.

`SequenceLemmas` holds what several of them need about sequences, and
`LeastNumber`: a set of numbers that is not empty has a least one. It takes the
place of induction, for functions that recurse over numbers.

**Only model-checked** are liveness (`Termination`) and all of `Compiler` and
its passes: `ReadsBackWhatItPrints`, `DrawsTheTree`, `RenamingKeepsBindings`,
`TypesEnd`, `NeverWrong`, `KeepsMeaning`, `PassesEnd`, `OnlyForwardCallsMiss`
and `TranslationSame`. They are about RECURSIVE operators on trees, where the
provers have no SMT and there is no induction over data. Every other property
that a passing run checks is a theorem. The seven properties of the `violation`
runs are claims that do not hold.

## Not modelled

- Text: `--help`, the task graph, what the cells of `ast-dump` say, indentation
  and the comments of `--bindings-display`, wording of messages, locations
  (Bison's, in this grammar always empty ranges). The printer's tokens *are*
  modelled, since they are parsed again.
- The recovery of the parser after a syntax error: the program is refused, with
  the same status, whatever is recovered.
- LLVM itself: blocks, values, its verifier. A `break` inside an `if` with a
  value leaves a phi node with a missing edge; the interpreter does not see it.
- A directory imported as a file, names longer than `PATH_MAX`, and a file in
  the root directory that is found (the code takes the empty path for "not
  found").
- `object`, `overload`, `combine`: most bodies are deleted; the grammar has no
  production for a class, a method or an object, and the first task of each
  chain ends the process or binds nothing. Those first steps are in `Pipeline`;
  the rest cannot be reached.
- The containers of `lib/misc` (taken as sets, functions and sequences), `tcsh`
  (SWIG bindings over the same libraries), the build system, the text of the
  prelude (its four primitives that other passes call are in `Compiler`),
  output, flushing and exiting in the runtime (calls of the C library).
- Functions no one calls: `symbol::fresh` has its operator; `error::clear`,
  `file_library::append_dir_list`, the pointer overload of `scoped_map::get` are
  left out.

## Plan

1. Done: every component the tree of `tc` reaches, as above, and the theorems
   above.
2. Proofs left: the passes of `Compiler`. They need trees without recursion (a
   traversal as a machine over one node at a time, as the binder has it), first
   for the printer and the grammar.
3. Larger programs in `compile`: three functions sharing variables.
