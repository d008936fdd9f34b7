----------------------------- MODULE MCPipeline -----------------------------
(* The compiler with the tasks tc declares, on small sets of programs.     *)
EXTENDS Pipeline, TcTasks

Declarations == {TcDeclaration}

\* Correct programs with nothing else wrong.
Program(loops, compares) ==
  [fault: {"none"}, loops: loops, compares: compares, perils: {{}}, inlined: {{}}]

Ordinary ==
  Program({"none", "literal", "computed"}, {TRUE}) \union Program({"none"}, {FALSE})

\* Correct programs with one peril, as they are written or once inlined.
Perilous ==
  {[fault |-> "none", loops |-> "literal", compares |-> FALSE,
    perils |-> IF inlined THEN {} ELSE {p}, inlined |-> {p}] :
     p \in Peril, inlined \in BOOLEAN}

\* Programs with an error.
Faulty ==
  [fault: Fault \ {"none"}, loops: {"none"}, compares: {FALSE},
   perils: {{}}, inlined: {{}}]

Sources == Ordinary \union Perilous \union Faulty

\* Analyses, displays and transformations that leave an annotated tree; desugar
\* comes in through llvm-display.
Selected ==
  {"bindings-display", "rename", "escapes-compute", "escapes-display", "typed",
   "types-compute", "callgraph-dump", "desugar-for", "desugar-string-cmp",
   "bounds-checks-add", "inline", "prune", "llvm-display"}

EveryTask == TcNames

\* The longest chain of dependencies below a task.
TcDepth[n \in TcNames] ==
  LET below == {TcDepth[d] : d \in Range(TcTable[n].deps)} IN
    IF below = {} THEN 0 ELSE 1 + Max(below)

TcRanks == {TcDepth}

\* Any two options, or three of the selected ones on a correct program.
Bounded ==
  \/ Len(asked) <= 2
  \/ source.fault = "none" /\ \A k \in DOMAIN asked : asked[k][1] \in Selected

MCSpec == PipelineInit /\ [][PipelineNext /\ Bounded']_allVars

\* What the proofs assume of the table holds of tc's.
ASSUME TcIsAnnotating ==
  /\ Annotating(TcDeclaration) /\ DesugarsLate(TcDeclaration)
  /\ RankedBy(TcDepth, TcDeclaration) /\ Within(TcDepth)

\* And what they assume of the options, of the selected ones.
ASSUME SelectedIsReady ==
  /\ Selected \intersect (Bare \union {"parse", "desugar", "desugared", "llvm-compute"}) = {}
  /\ \A p \in Ordinary \union Perilous : p.fault = "none"

EarlyDesugar == {"desugar", "llvm-display"}
=============================================================================
