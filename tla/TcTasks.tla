------------------------------ MODULE TcTasks ------------------------------
(***************************************************************************)
(* The tasks tc declares in its */tasks.hh headers, with the names of the  *)
(* tasks each depends on.  A name is the long name of the option.          *)
(***************************************************************************)
EXTENDS TLC

After(deps) == [deps |-> deps, kind |-> "simple"]
OneOf(deps) == [deps |-> deps, kind |-> "disjunctive"]
Valued      == [deps |-> << >>, kind |-> "argument"]
Free        == After(<< >>)

\* The same declaration for each of the given names.
All(names, declaration) == [n \in names |-> declaration]

TaskTasks ==
  All({"task-list", "task-graph", "task-selection", "time-report"}, Free)

ParseTasks ==
  All({"scan-trace", "parse-trace", "no-prelude", "parse", "library-display"}, Free)
  @@ All({"prelude", "library-append", "library-prepend"}, Valued)

AstTasks == All({"ast-display", "ast-dump"}, After(<<"parse">>))

CloneTasks == "clone" :> After(<<"parse">>)

BindTasks ==
  "bindings-compute" :> After(<<"parse">>)
  @@ "bindings-display" :> After(<<"bound">>)
  @@ "bound" :> OneOf(<<"bindings-compute", "object-bindings-compute">>)
  @@ "rename" :> After(<<"bound">>)

EscapesTasks ==
  "escapes-compute" :> After(<<"bound">>)
  @@ "escapes-display" :> After(<<"parse">>)

CallgraphTasks ==
  "callgraph-compute" :> After(<<"bindings-compute">>)
  @@ "callgraph-dump" :> After(<<"callgraph-compute">>)
  @@ "parentgraph-compute" :> After(<<"parse">>)
  @@ "parentgraph-dump" :> After(<<"parentgraph-compute">>)

TypeTasks ==
  "typed" :> OneOf(<<"types-compute", "combine-types-compute",
                     "object-types-compute">>)
  @@ "types-compute" :> After(<<"bindings-compute">>)

DesugarTasks ==
  All({"desugar-for", "desugar-string-cmp"}, Free)
  @@ "desugared" :> OneOf(<<"desugar">>)
  @@ All({"desugar", "bounds-checks-add"}, After(<<"types-compute", "rename">>))
  @@ All({"raw-desugar", "raw-bounds-checks-add"}, After(<<"typed", "rename">>))

InliningTasks ==
  "inline" :> After(<<"types-compute", "rename">>)
  @@ "prune" :> After(<<"rename", "types-compute">>)

LLVMTasks ==
  "llvm-compute" :> After(<<"typed", "desugar-for", "desugar-string-cmp",
                            "desugar", "escapes-compute">>)
  @@ "llvm-runtime-display" :> Free
  @@ "llvm-display" :> After(<<"llvm-compute">>)

ObjectTasks ==
  "object" :> Free
  @@ "object-parse" :> After(<<"object", "parse">>)
  @@ "object-bindings-compute" :> After(<<"parse">>)
  @@ "object-types-compute" :> After(<<"object-bindings-compute">>)
  @@ "object-rename" :> After(<<"object-types-compute">>)
  @@ All({"object-desugar", "raw-object-desugar"}, After(<<"object-rename">>))

OverloadTasks ==
  "overfun-bindings-compute" :> After(<<"parse">>)
  @@ "overfun-types-compute" :> After(<<"overfun-bindings-compute">>)

CombineTasks ==
  "c-object" :> After(<<"object">>)
  @@ "c-desugar" :> After(<<"desugar-for", "desugar-string-cmp">>)
  @@ All({"c-bounds", "c-escapes", "c-inline", "c-prune", "c-overload"}, Free)
  @@ "c-all" :> After(<<"c-object", "c-bounds", "c-escapes", "c-desugar",
                        "c-inline", "c-prune", "c-overload">>)
  @@ "combine-bindings-compute" :> After(<<"parse">>)
  @@ "combine-types-compute" :> After(<<"combine-bindings-compute">>)
  @@ "combine-rename" :> After(<<"combine-types-compute">>)
  @@ "combine-desugar" :> After(<<"combine-rename">>)

TcTable ==
  TaskTasks @@ ParseTasks @@ AstTasks @@ CloneTasks @@ BindTasks
  @@ EscapesTasks @@ CallgraphTasks @@ TypeTasks @@ DesugarTasks
  @@ InliningTasks @@ LLVMTasks @@ ObjectTasks @@ OverloadTasks @@ CombineTasks

TcNames == DOMAIN TcTable

\* The declarations of the register when every object is known by its name.
TcDeclaration ==
  [n \in TcNames |-> [name |-> n, deps |-> TcTable[n].deps, kind |-> TcTable[n].kind]]
=============================================================================
