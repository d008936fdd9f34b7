------------------------------ MODULE Pipeline ------------------------------
(***************************************************************************)
(* The compiler behind the task register: the abstract syntax tree that    *)
(* the tasks pass on through ast::tasks::the_program, what they annotate   *)
(* on it, and what they keep beside it.                                    *)
(*                                                                         *)
(* A tree carries its bindings, its types, its unique names and its        *)
(* escapes.  A task that transforms the program replaces the tree by a new *)
(* one, on which each of these is lost unless the task recomputes it; the  *)
(* call graph and the parent graph, kept in static pointers, go on         *)
(* pointing into the tree that was freed.  The register only knows the     *)
(* order of the tasks, so a dependency scheduled earlier counts as done    *)
(* even when a later task has undone it.                                   *)
(*                                                                         *)
(* Each step of a task is one of the three ends TaskRegister leaves open:  *)
(* it returns, throws or crashes.                                          *)
(***************************************************************************)
EXTENDS TaskRegister

CONSTANTS
  Offered,  \* the tasks a command line of the model may select
  Source    \* the programs to compile, see SourceType

\* What is wrong with no error in it (Compiler.tla finds each on programs):
\* a loop that loses something in the text DesugarVisitor makes of it, a
\* function on which the inliner never ends, something the translator cannot
\* translate.
Peril == {"lossy", "hidden", "untranslatable"}

\* A program: the error it contains, whether it has several `for' loops (with
\* literal or computed lower bounds), whether it compares strings (by anything
\* but <>, which stays as it is), and its perils, as it is written and as
\* inlining may make it: an inlined procedure cannot be translated, a body with
\* a recursive function comes into the arguments of a call.  Every program
\* uses a variable, an operator, and a function that can be inlined, and calls
\* no primitive.
Fault == {"none", "missing", "syntax", "lexical", "bind", "type"}
SourceType ==
  [fault: Fault,
   loops: {"none", "literal", "computed"},
   compares: BOOLEAN,
   perils: SUBSET Peril,
   inlined: SUBSET Peril]

ASSUME SourceAssumption == Source \subseteq SourceType

\* The options select declared tasks, and no name is without a task.
ASSUME TableAssumption ==
  /\ Offered \subseteq Object
  /\ \A table \in Declaration, n \in Name : \E o \in Object : table[o].name = n

VARIABLES
  source,       \* the program to compile
  tree,         \* ast::tasks::the_program
  flags,        \* desugar_for_p, desugar_string_cmp_p, and an empty prelude
  escaped,      \* escapes::escaped: the escapes were computed once
  graphs,       \* which tree callgraph and parentgraph point into
  module        \* llvmtranslate::tasks::module

Graph == {"callgraph", "parentgraph"}

\* The tasks that compute a graph and print it.
ComputeTask(g) == IF g = "callgraph" THEN "callgraph-compute" ELSE "parentgraph-compute"
DumpTask(g) == IF g = "callgraph" THEN "callgraph-dump" ELSE "parentgraph-dump"

compiler == <<source, tree, flags, escaped, graphs, module>>
allVars == <<vars, compiler>>

NoTree == [bound |-> FALSE, typed |-> FALSE, unique |-> FALSE,
           escapes |-> "none", prelude |-> FALSE, loops |-> "none",
           compares |-> FALSE, perils |-> {}]

\* tc when main starts to read its options: every task is registered.
PipelineInit ==
  /\ decl \in Declaration
  /\ pending = {}
  /\ task_list = [n \in Name |-> CHOOSE o \in Object : decl[o].name = n]
  /\ task_order = << >> /\ calls = << >> /\ asked = << >>
  /\ arg = [o \in Object |-> None]
  /\ phase = "options"
  /\ next = 1 /\ timer = << >> /\ ran = << >>
  /\ error = success /\ exit = None
  /\ source \in Source
  /\ tree = NoTree
  /\ flags = {}
  /\ escaped = FALSE
  /\ graphs = [g \in Graph |-> "none"]
  /\ module = "none"

-----------------------------------------------------------------------------
(* Trees.                                                                  *)

\* A rewritten tree may have come out with an error in it.
Broken == {"unbound", "untyped"}

TreeType ==
  [bound: BOOLEAN, typed: BOOLEAN, unique: BOOLEAN,
   escapes: {"none", "default", "computed"}, prelude: BOOLEAN,
   loops: {"none", "literal", "computed"}, compares: BOOLEAN,
   perils: SUBSET (Peril \union Broken)]

\* Mutant: the prelude is only read when it is not wanted.
ParsedTreeBare ==
  [bound |-> FALSE, typed |-> FALSE, unique |-> FALSE, escapes |-> "default",
   prelude |-> "no-prelude" \in flags,
   loops |-> source.loops, compares |-> source.compares, perils |-> source.perils]

\* The tree the parser builds.
ParsedTree ==
  [bound |-> FALSE, typed |-> FALSE, unique |-> FALSE, escapes |-> "default",
   prelude |-> "no-prelude" \notin flags,
   loops |-> source.loops, compares |-> source.compares, perils |-> source.perils]

\* A cloner copies the nodes and the names; bindings, types and escapes stay
\* with the nodes of the old tree.
Copy(t) == [t EXCEPT !.bound = FALSE, !.typed = FALSE, !.escapes = "default"]

\* bind_and_types_check on a new tree: it aborts on an error of the binder,
\* then on one of the type checker.
Passes(t) == t.perils \intersect Broken = {}
Rechecked(t) == [t EXCEPT !.bound = TRUE, !.typed = TRUE]

\* The loops DesugarVisitor rewrites all declare _lo and _hi; both rewritings
\* happen only if their flags are set.  A loop that loses something in text
\* may lose its types there; a comparison becomes a call to streq or strcmp,
\* which only the prelude declares.
Desugared(t, lost) ==
  LET for == "desugar-for" \in flags /\ t.loops # "none"
      compare == "desugar-string-cmp" \in flags /\ t.compares
      unbound == IF compare /\ ~t.prelude THEN {"unbound"} ELSE {}
      untyped == IF for /\ lost /\ "lossy" \in t.perils THEN {"untyped"} ELSE {}
  IN [Copy(t) EXCEPT
       !.unique   = @ /\ ~for,
       !.loops    = IF for THEN "none" ELSE @,
       !.compares = @ /\ "desugar-string-cmp" \notin flags,
       !.perils   = @ \union unbound \union untyped]

\* The body of an inlined function occurs twice, with the same names; it may
\* bring perils with it, and take others away.
Inlined(t, perils) == [Copy(t) EXCEPT !.unique = FALSE, !.perils = perils]

\* the_program is replaced and the old tree is freed.
Replace(t) ==
  /\ tree' = t
  /\ graphs' = [g \in Graph |->
                  IF graphs[g] = "none" THEN "none" ELSE "dangling"]

-----------------------------------------------------------------------------
(* The tasks.                                                              *)

Executing(tasks) == phase = "execute" /\ \E t \in tasks : timer = <<t>>

Returns(e) == TaskReturns(e)
Throws(e)  == TaskThrows(e, "error") /\ UNCHANGED compiler
Crashes    == TaskAborts /\ UNCHANGED compiler

\* parse::tasks::parse.  Without a file or with a syntax error there is no
\* tree; a lexical error is recorded and the tree is built.
Parse ==
  /\ Executing({"parse"})
  /\ \/ source.fault = "missing" /\ Throws(failure)
     \/ source.fault = "syntax" /\ Throws(parse)
     \/ /\ source.fault \notin {"missing", "syntax"}
        /\ Returns(IF source.fault = "lexical" THEN scan ELSE success)
        /\ Replace(ParsedTree)
        /\ UNCHANGED <<source, flags, escaped, module>>

\* The error is in the program, or in the tree another task made of it.
BindFails == source.fault = "bind" \/ "unbound" \in tree.perils

\* Mutant: the result of the binder is not recorded.
BindUnrecorded ==
  /\ Executing({"bindings-compute"})
  /\ \/ BindFails /\ Throws(success)
     \/ /\ ~BindFails
        /\ Returns(success)
        /\ tree' = [tree EXCEPT !.bound = TRUE]
        /\ UNCHANGED <<source, flags, escaped, graphs, module>>

\* bind::tasks::bindings_compute exits on a binding error.
Bind ==
  /\ Executing({"bindings-compute"})
  /\ \/ BindFails /\ Throws(bind)
     \/ /\ ~BindFails
        /\ Returns(success)
        /\ tree' = [tree EXCEPT !.bound = TRUE]
        /\ UNCHANGED <<source, flags, escaped, graphs, module>>

\* object::tasks::object_bindings_compute exits unless there is an error.
ObjectBind ==
  /\ Executing({"object-bindings-compute"})
  /\ IF BindFails
     THEN Returns(bind) /\ UNCHANGED compiler
     ELSE Throws(success)

\* bind::tasks::rename dereferences the definition of each use.
Rename ==
  /\ Executing({"rename"})
  /\ IF ~tree.bound THEN Crashes
     ELSE /\ Returns(success)
          /\ tree' = [tree EXCEPT !.unique = TRUE]
          /\ UNCHANGED <<source, flags, escaped, graphs, module>>

\* type::tasks::types_check, and overfun_types_compute whose type checker
\* adds nothing to it: exit_on_error also stops on an earlier error.
\* (Of some types that name each other, which is an error of the program, the
\* check does not end: TypeChecker.SearchEnds.)
CheckTypes ==
  /\ Executing({"types-compute", "overfun-types-compute"})
  /\ LET e == IF source.fault = "type" \/ "untyped" \in tree.perils
              THEN type ELSE success IN
       IF ~tree.bound THEN Crashes
       ELSE IF Mark(error, e) # success THEN Throws(e)
       ELSE /\ Returns(success)
            /\ tree' = [tree EXCEPT !.typed = TRUE]
            /\ UNCHANGED <<source, flags, escaped, graphs, module>>

\* The object type checker only meets a program with a binding error, see
\* ObjectBind: it exits on that error unless a missing definition stops it.
ObjectCheckTypes ==
  /\ Executing({"object-types-compute"})
  /\ Crashes \/ Throws(success)

\* escapes::tasks::escapes_compute.
ComputeEscapes ==
  /\ Executing({"escapes-compute"})
  /\ IF ~tree.bound THEN Crashes
     ELSE /\ Returns(success)
          /\ tree' = [tree EXCEPT !.escapes = "computed"]
          /\ escaped' = TRUE
          /\ UNCHANGED <<source, flags, graphs, module>>

\* BooleanTask::execute of the two flags the tasks of this model read, and
\* parse::tasks::no_prelude.
SetFlag ==
  /\ Executing({"desugar-for", "desugar-string-cmp", "no-prelude"})
  /\ Returns(success)
  /\ flags' = flags \union Range(timer)
  /\ UNCHANGED <<source, tree, escaped, graphs, module>>

\* StringTask::execute of --prelude, given a file with the usual primitives.
SetPrelude ==
  /\ Executing({"prelude"})
  /\ Returns(success)
  /\ flags' = flags \ {"no-prelude"}
  /\ UNCHANGED <<source, tree, escaped, graphs, module>>

\* What stops DesugarVisitor: a type it compares, a lower bound it expects to
\* be a literal.
VisitFails ==
  \/ "desugar-string-cmp" \in flags /\ ~tree.typed
  \/ "desugar-for" \in flags /\ tree.loops = "computed"

\* Mutant: the new tree is not bound and checked again.
DesugarUnchecked ==
  /\ Executing({"desugar"})
  /\ \E lost \in BOOLEAN :
       IF VisitFails THEN Crashes
       ELSE LET t == Desugared(tree, lost) IN
            /\ Returns(success)
            /\ Replace(IF escaped THEN [t EXCEPT !.escapes = "computed"] ELSE t)
            /\ UNCHANGED <<source, flags, escaped, module>>

\* Mutant: the escapes of the old tree are forgotten.
DesugarForgetful ==
  /\ Executing({"desugar"})
  /\ \E lost \in BOOLEAN :
       IF VisitFails \/ ~Passes(Desugared(tree, lost)) THEN Crashes
       ELSE /\ Returns(success)
            /\ Replace(Rechecked(Desugared(tree, lost)))
            /\ UNCHANGED <<source, flags, escaped, module>>

\* desugar::tasks::desugar binds and checks the new tree and restores the
\* escapes.
Desugar ==
  /\ Executing({"desugar"})
  /\ \E lost \in BOOLEAN :
       IF VisitFails \/ ~Passes(Desugared(tree, lost)) THEN Crashes
       ELSE LET t == Rechecked(Desugared(tree, lost)) IN
            /\ Returns(success)
            /\ Replace(IF escaped THEN [t EXCEPT !.escapes = "computed"] ELSE t)
            /\ UNCHANGED <<source, flags, escaped, module>>

\* desugar::tasks::raw_desugar leaves the new tree as it is.
RawDesugar ==
  /\ Executing({"raw-desugar"})
  /\ \E lost \in BOOLEAN :
       IF VisitFails THEN Crashes
       ELSE Returns(success) /\ Replace(Desugared(tree, lost))
            /\ UNCHANGED <<source, flags, escaped, module>>

\* Inlining dereferences the definition of each call, and exhausts the stack
\* of the process where it never ends; it binds and checks the new tree.
InlineFails == ~tree.bound \/ "hidden" \in tree.perils \/ ~Passes(tree)

Inline ==
  /\ Executing({"inline"})
  /\ IF InlineFails THEN Crashes
     ELSE /\ Returns(success)
          /\ \E p \in SUBSET source.inlined : Replace(Rechecked(Inlined(tree, p)))
          /\ UNCHANGED <<source, flags, escaped, module>>

\* Pruning and bounds checking add nothing to the cloner, but bind and check
\* the copy.
Rebuild ==
  /\ Executing({"prune", "bounds-checks-add"})
  /\ IF ~Passes(tree) THEN Crashes
     ELSE Returns(success) /\ Replace(Rechecked(Copy(tree)))
          /\ UNCHANGED <<source, flags, escaped, module>>

\* astclone::tasks::clone and raw_bounds_checks_add.
Clone ==
  /\ Executing({"clone", "raw-bounds-checks-add"})
  /\ Returns(success)
  /\ Replace(Copy(tree))
  /\ UNCHANGED <<source, flags, escaped, module>>

\* callgraph_compute links the functions by their calls' definitions,
\* parentgraph_compute by nesting.
ComputeGraph(g) ==
  /\ Executing({ComputeTask(g)})
  /\ Returns(success)
  /\ graphs' = [graphs EXCEPT ![g] =
                  IF g = "callgraph" /\ ~tree.bound THEN "unbound" ELSE "live"]
  /\ UNCHANGED <<source, tree, flags, escaped, module>>

\* Printing reads the names of the functions the graph points to: anything
\* can happen once they are freed.
DumpGraph(g) ==
  /\ Executing({DumpTask(g)})
  /\ \/ Returns(success) /\ UNCHANGED compiler
     \/ graphs[g] = "dangling" /\ Crashes

\* The translator has no visit for loops: the visitor it inherits from runs
\* through the body once; strings are compared by address.  It dereferences
\* definitions and types, and the values and blocks it expects its operands,
\* breaks and initial values to have (Compiler.tla, Untranslatable).
Translate ==
  /\ Executing({"llvm-compute"})
  /\ IF ~(tree.bound /\ tree.typed) \/ "untranslatable" \in tree.perils THEN Crashes
     ELSE /\ Returns(success)
          /\ module' = IF tree.loops # "none" \/ tree.compares
                       THEN "sugared" ELSE "faithful"
          /\ UNCHANGED <<source, tree, flags, escaped, graphs>>

\* combine_bind and overload::bind: the first flows off its end without a
\* value; the second visits no function, so it binds nothing, and its task
\* exits on an earlier error.
CombineBind == Executing({"combine-bindings-compute"}) /\ Crashes
OverloadBind ==
  /\ Executing({"overfun-bindings-compute"})
  /\ IF error # success THEN Throws(success)
     ELSE Returns(success) /\ UNCHANGED compiler

\* combine_rename and the tasks after combine-types-compute and
\* object-types-compute are never reached, since the one before never returns.
Passive == {
  "scan-trace", "parse-trace", "library-display",
  "library-append", "library-prepend", "task-list", "task-graph",
  "task-selection", "time-report", "ast-display", "ast-dump",
  "bindings-display", "escapes-display", "bound", "typed", "desugared",
  "object", "object-parse", "llvm-runtime-display", "llvm-display",
  "c-object", "c-desugar", "c-bounds", "c-escapes", "c-inline", "c-prune",
  "c-overload", "c-all"}

\* Displays, disjunctive tasks, and flags that no task of this model reads.
PassiveTask ==
  /\ Executing(Passive)
  /\ Returns(success)
  /\ UNCHANGED compiler

RunningTask ==
  \/ Parse \/ Bind \/ ObjectBind \/ Rename \/ CheckTypes \/ ObjectCheckTypes
  \/ ComputeEscapes \/ SetFlag \/ SetPrelude \/ Desugar \/ RawDesugar \/ Inline \/ Rebuild
  \/ Clone \/ Translate \/ CombineBind \/ OverloadBind \/ PassiveTask
  \/ \E g \in Graph : ComputeGraph(g) \/ DumpGraph(g)

\* The command line and main, as in TaskRegister.
Driver ==
  /\ \/ \E o \in Offered, a \in Argument \union {None} : Option(o, a)
     \/ EndOptions(TRUE)
     \/ ResolveNext
     \/ EnableDefault \/ StartExecution \/ StartTask \/ EndExecution
     \/ Ended
  /\ UNCHANGED compiler

PipelineNext == Driver \/ RunningTask

PipelineSpec == PipelineInit /\ [][PipelineNext]_allVars

-----------------------------------------------------------------------------
(* Properties.                                                             *)

Running(t) == timer = <<t>>
Completed(t) == \E i \in 1 .. next - 1 : i <= Len(task_order) /\ task_order[i] = t
HasRun(t) == \E i \in DOMAIN ran : ran[i][1] = t

Binding == {"types-compute", "rename", "escapes-compute", "callgraph-compute"}
Transforming ==
  {"desugar", "raw-desugar", "inline", "prune", "bounds-checks-add",
   "raw-bounds-checks-add"}

\* The tasks that leave a bare tree, the ones that replace the binder or the
\* type checker, what comes after these, and a program without a prelude.
Bare == {
  "clone", "raw-desugar", "raw-bounds-checks-add", "no-prelude",
  "object-bindings-compute", "object-types-compute", "object-rename",
  "object-desugar", "raw-object-desugar",
  "overfun-bindings-compute", "overfun-types-compute",
  "combine-bindings-compute", "combine-types-compute", "combine-rename",
  "combine-desugar"}

\* The options of the user select none of these tasks.
AskedNone(tasks) == \A k \in DOMAIN asked : asked[k][1] \notin tasks

\* A correct program, and options that select no task that leaves a bare tree
\* on purpose and not the parser.
Chosen == source.fault = "none" /\ AskedNone(Bare \union {"parse"})

\* A task finds the annotations its library function asks for on the tree it
\* is given ("a (bound) AST" in libtype.hh, "whose bindings and types have been
\* computed" in libdesugar.hh and libinlining.hh), although the list only
\* says which task computed them once, on a tree that may be gone.
FindsAnnotations ==
  Chosen =>
    \A t \in Binding \union Transforming \union {"llvm-compute"} :
      Running(t) => tree.bound /\ (t \notin Binding => tree.typed)

\* What is wrong with the program, as it is written or, after --inline, as it
\* has become.
Perils == IF Completed("inline") THEN source.inlined ELSE source.perils

\* The only ways a task brings tc down: a graph is printed after its tree was
\* freed; or the program itself, as it is or inlined, has what that very task
\* cannot take.
NamedCrash ==
  \/ \E g \in Graph : Running(DumpTask(g)) /\ graphs[g] = "dangling"
  \/ /\ Running("desugar") /\ "desugar-for" \in flags
     /\ source.loops = "computed" \/ (source.loops # "none" /\ "lossy" \in Perils)
  \/ Running("inline") /\ "hidden" \in Perils
  \/ Running("llvm-compute") /\ "untranslatable" \in Perils

\* No order of the options adds to them: no task meets a null definition, a
\* tree that binds or types no more, or the perils of a tree that is gone.
NoTaskCrashes == Chosen /\ phase = "crashed" => NamedCrash

\* Whatever transformed the program before, and in whatever order the user
\* asked, the translator gets a tree whose escapes are computed and whose
\* sugar is gone ("typed desugar-for desugar-string-cmp desugar
\* escapes-compute", llvmtranslate/tasks.hh), if desugaring is left to it.
ReadyToTranslate ==
  Chosen /\ AskedNone({"desugar", "desugared", "llvm-compute"}) =>
    (Running("llvm-compute") =>
       tree.escapes = "computed" /\ tree.loops = "none" /\ ~tree.compares)

StatusOf == [none |-> success, missing |-> failure, syntax |-> parse,
             lexical |-> scan, bind |-> bind, type |-> type]

\* The tasks that find the error of a program.
Detectors(f) ==
  IF f = "bind" THEN {"bindings-compute", "object-bindings-compute"}
  ELSE IF f = "type" THEN {"types-compute", "overfun-types-compute"}
  ELSE {"parse"}

\* --raw-desugar does not check what it writes, and so may put an error into
\* the program.
Misread ==
  /\ HasRun("raw-desugar")
  /\ source.compares \/ "lossy" \in source.perils \union source.inlined

\* The exit status names the error of the program if and only if a task that
\* looks for it was executed, whichever tasks came before or after
\* (error_type in error.hh; the statuses tests/testsuite.sh expects).
StatusTells ==
  exit \notin {None, 64} /\ ~Misread =>
    exit = IF \E t \in Detectors(source.fault) : HasRun(t)
           THEN StatusOf[source.fault] ELSE success

\* Why it holds: the tasks that have come to an end, the running one not
\* counted, have left the error of the program if one of them looks for it.
Ending == IF phase = "execute" /\ timer # << >> THEN Len(ran) - 1 ELSE Len(ran)
Found == \E i \in 1 .. Ending : ran[i][1] \in Detectors(source.fault)

StatusInv ==
  /\ source \in SourceType
  /\ \A n \in Name : Registered(n)
  /\ phase # "crashed" /\ ~Misread =>
       error = IF Found THEN StatusOf[source.fault] ELSE success
  /\ exit # None => phase = "exited" /\ exit = error
  /\ phase = "execute" /\ timer # << >> => timer = <<ran[Len(ran)][1]>>

\* A tree with an error of its own comes from --raw-desugar.
TreeInv ==
  /\ tree \in TreeType
  /\ tree.compares => source.compares
  /\ tree.perils \subseteq source.perils \union source.inlined \union Broken
  /\ ~Misread => Passes(tree)

-----------------------------------------------------------------------------
(* Why a task finds its annotations: the inductive invariant.              *)

\* What runs before what, in a list that holds no bare task.
Chain == {
  <<"bindings-compute", "parse">>, <<"bound", "bindings-compute">>,
  <<"types-compute", "bindings-compute">>, <<"typed", "types-compute">>,
  <<"rename", "bound">>, <<"escapes-compute", "bound">>,
  <<"callgraph-compute", "bindings-compute">>,
  <<"desugar", "types-compute">>, <<"inline", "types-compute">>,
  <<"prune", "types-compute">>, <<"bounds-checks-add", "types-compute">>,
  <<"llvm-compute", "typed">>, <<"llvm-compute", "escapes-compute">>}

\* A table that declares each task under its own name, in which only bare
\* tasks depend on bare tasks, and which imposes the chain.
Annotating(table) ==
  /\ \A o \in Object : table[o].name = o
  /\ \A o \in Object \ Bare :
       LET deps == table[o].deps IN
         IF table[o].kind = "disjunctive"
         THEN deps # << >> => Head(deps) \notin Bare
         ELSE Range(deps) \intersect Bare = {}
  /\ \A link \in Chain :
       LET deps == table[link[1]].deps IN
         /\ link[1] \in Object /\ link[2] \in Range(deps)
         /\ table[link[1]].kind = "disjunctive" => Range(deps) \subseteq Bare \union {link[2]}

\* The names have ranks below the depth of the stack.
Within(rank) == \A n \in Name : rank[n] < StackLimit
Shallow == \A table \in Declaration :
  \E rank \in Ranks : RankedBy(rank, table) /\ Within(rank)

\* Correct programs, and options that select no bare task and not the parser.
Careful ==
  /\ \A s \in Source : s.fault = "none"
  /\ Offered \intersect (Bare \union {"parse"}) = {}
  /\ Default = "parse"
  /\ \A table \in Declaration : Annotating(table)
  /\ Shallow

\* No bare task is in the list or comes into it, the parser comes once, and the
\* search stays within its stack.
ListInv ==
  /\ Range(task_order) \intersect Bare = {}
  /\ \A k \in DOMAIN calls :
       calls[k].task \notin Bare /\ Range(calls[k].rest) \intersect Bare = {}
  /\ \A i, j \in DOMAIN task_order :
       task_order[i] = "parse" /\ task_order[j] = "parse" => i = j
  /\ calls # << >> /\ calls[1].task = "parse" => "parse" \notin Range(task_order)
  /\ \A rank \in [Name -> Nat] : RankedBy(rank, decl) /\ Within(rank) =>
       \A k \in DOMAIN calls : rank[Named(k)] + k <= StackLimit

\* What the completed tasks have left on the tree is still there.
AnnotationInv ==
  /\ timer # << >> => next <= Len(task_order) /\ timer = <<task_order[next]>>
  /\ Completed("bindings-compute") => tree.bound
  /\ Completed("types-compute") => tree.typed
  /\ Completed("parse") => tree.prelude
  /\ tree \in TreeType
  /\ tree.loops \in {"none", source.loops}
  /\ tree.perils \subseteq Perils
  /\ "no-prelude" \notin flags
  /\ phase = "crashed" => NamedCrash

-----------------------------------------------------------------------------
(* Why the translator finds no sugar: the inductive invariant.             *)

\* What the translator needs, in the order it is enabled, and what is still
\* enabled between the desugaring and the translation.
Needed == <<"typed", "desugar-for", "desugar-string-cmp", "desugar", "escapes-compute">>
Quiet == {"escapes-compute", "bound", "bindings-compute", "parse"}

\* What is left of the needs as they are enabled.
Remaining == {
  Needed, <<"desugar-for", "desugar-string-cmp", "desugar", "escapes-compute">>,
  <<"desugar-string-cmp", "desugar", "escapes-compute">>,
  <<"desugar", "escapes-compute">>, <<"escapes-compute">>, << >>}

\* A table in which the program is desugared for the translator alone.
DesugarsLate(table) ==
  /\ "llvm-compute" \in Object
  /\ table["llvm-compute"].deps = Needed
  /\ table["llvm-compute"].kind # "disjunctive"
  /\ \A o \in Object \ Bare :
       /\ "desugar" \in Range(table[o].deps) => o \in {"llvm-compute", "desugared"}
       /\ "desugared" \notin Range(table[o].deps)
  /\ \A o \in Quiet \intersect Object : Range(table[o].deps) \subseteq Quiet \union Bare

\* A careful selection that leaves desugaring to the translator.
Ready ==
  /\ Careful
  /\ Offered \intersect {"desugar", "desugared", "llvm-compute"} = {}
  /\ \A table \in Declaration : DesugarsLate(table)

\* The first n tasks of the list desugar the program and then only compute.
Settled(n) == \E i \in 1 .. n :
  task_order[i] = "desugar" /\ \A j \in i + 1 .. n : task_order[j] \in Quiet

\* How far the activation record of the translator is.
TranslatorFrame(k) ==
  LET rest == calls[k].rest
      Left(t) == t \in Range(rest)
  IN  /\ rest \in Remaining
      /\ \A t \in {"desugar-for", "desugar-string-cmp"} :
           Left(t) \/ t \in Range(task_order)
      /\ IF Left("desugar")
         THEN "desugar" \in Range(task_order) =>
                k = Len(calls) /\ Head(rest) = "desugar" /\ Settled(Len(task_order))
         ELSE /\ Settled(Len(task_order))
              /\ \A m \in DOMAIN calls : m > k => calls[m].task \in Quiet

DesugarsFirst ==
  /\ \A k \in DOMAIN calls : calls[k].task # "desugared"
  /\ calls # << >> => calls[1].task \notin {"desugar", "llvm-compute"}
  /\ \A k \in DOMAIN calls :
       k > 1 => calls[k - 1].rest # << >> /\ Head(calls[k - 1].rest) = calls[k].task
  /\ \A k \in DOMAIN calls : calls[k].task = "llvm-compute" => TranslatorFrame(k)
  /\ "desugar" \in Range(task_order) /\ "llvm-compute" \notin Range(task_order) =>
       \E k \in DOMAIN calls : calls[k].task = "llvm-compute"
  /\ \A i \in DOMAIN task_order : task_order[i] = "desugar" =>
       \A t \in {"desugar-for", "desugar-string-cmp"} :
         \E j \in 1 .. i - 1 : task_order[j] = t
  /\ \A i \in DOMAIN task_order : task_order[i] = "llvm-compute" => Settled(i - 1)

\* The tree once it is desugared, and what the completed tasks have left.
SugarInv ==
  /\ \A t \in {"desugar-for", "desugar-string-cmp"} : Completed(t) => t \in flags
  /\ Completed("escapes-compute") => escaped
  /\ Settled(next - 1) => /\ tree.loops = "none" /\ ~tree.compares
                          /\ escaped => tree.escapes = "computed"

-----------------------------------------------------------------------------
(* A claim of the documentation the code does not keep.                    *)

\* desugar/tasks.hh: desugar is to "remove syntactic sugar from the Ast", and
\* llvm-compute depends on it and on its two flags.
TranslatesNoSugar == module # "sugared"
=============================================================================
