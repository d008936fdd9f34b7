------------------------------- MODULE Compiler -------------------------------
(***************************************************************************)
(* The passes of tc composed on one program: parsed after the prelude,     *)
(* bound, typed, renamed, then rewritten by --inline and --desugar in      *)
(* either order, and translated.  Pipeline.tla is about which tasks run;   *)
(* here they run in the order of their dependencies and the subject is     *)
(* what each does to the tree.  meaning is what the program does in the    *)
(* language, result what its translation does.                             *)
(***************************************************************************)
EXTENDS Inliner, Translator, DumperDot

CONSTANT Sources    \* the programs, as expressions

VARIABLES source, the_program, stage, passes, meaning, result

vars == << source, the_program, stage, passes, meaning, result >>

NoRun == [out |-> << >>, st |-> "none"]

Primitives ==
  LET Prim(name, formals, res) ==
        FunctionDec(name, VarChunk([i \in DOMAIN formals |->
                      VarDec("p" \o ToString(i), NameTy(formals[i]), Null)]), res, Null)
  IN << Prim("print", << "string" >>, Null), Prim("print_int", << "int" >>, Null),
        Prim("streq", << "string", "string" >>, NameTy("int")),
        Prim("strcmp", << "string", "string" >>, NameTy("int")) >>

(* parse::parse puts the program in the function _main, after the prelude. *)
Program(exp) ==
  ParseDecs(Metavar("_chunks", ChunkList(<< FunctionChunk(Primitives) >>))
            \o T("function") \o Id("_main") \o T("(") \o T(")") \o T("=")
            \o T("(") \o Metavar("_exp", exp) \o T(";") \o T("(") \o T(")") \o T(")")).tree

TreeNodes == Walk(the_program)
Meaning(tree) == Run(Code(Walk(tree), FALSE, FALSE))

-----------------------------------------------------------------------------
Init ==
  /\ source \in Sources
  /\ the_program = Null
  /\ stage = "source"
  /\ passes = {}
  /\ meaning = NoRun
  /\ result = NoRun

ParseProgram ==
  /\ stage = "source"
  /\ the_program' = Program(source)
  /\ stage' = "parsed"
  /\ UNCHANGED << source, passes, meaning, result >>

ComputeBindings ==
  /\ stage = "parsed"
  /\ the_program' = Bind(the_program)
  /\ stage' = IF IsBound(the_program') THEN "bound" ELSE "rejected"
  /\ UNCHANGED << source, passes, meaning, result >>

(* The check types the tree, or reports errors, or does not end.           *)
ComputeTypes ==
  /\ stage = "bound"
  /\ stage' = CASE ~ SearchEnds(TreeNodes) -> "Endless"
                [] Accepted(the_program) -> "typed"
                [] OTHER -> "rejected"
  /\ meaning' = IF stage' = "typed" THEN Meaning(the_program) ELSE NoRun
  /\ UNCHANGED << source, the_program, passes, result >>

RenameAll ==
  /\ stage = "typed"
  /\ the_program' = Rename(the_program)
  /\ stage' = "ready"
  /\ UNCHANGED << source, passes, meaning, result >>

(* A pass makes a new tree, which is bound and typed again.                *)
Rewrite(pass, tree) ==
  /\ stage = "ready" /\ pass \notin passes
  /\ passes' = passes \cup {pass}
  /\ IF Rechecked(tree)
     THEN the_program' = Rebind(tree) /\ stage' = "ready"
     ELSE /\ the_program' = the_program
          /\ stage' = IF Fails(tree)
                      THEN (CHOOSE n \in Nodes(tree) : n.kind \in {"Crash", "Endless"}).kind
                      ELSE "aborted"
  /\ UNCHANGED << source, meaning, result >>

DesugarPass == Rewrite("desugar", Desugared(the_program, TRUE, TRUE))
InlinePass == Rewrite("inline", Inlined(the_program))
(* Asked twice, the task runs twice, without a renaming in between.        *)
InlineAgain == "inline" \in passes /\ Rewrite("again", Inlined(the_program))

(* The translation; merged tells whether LLVM shares equal literals.       *)
Untranslatable(nodes) ==
  \/ NullOperands(nodes, Collected(nodes)) # {}
  \/ ForeignBreaks(nodes) # {}
  \/ VoidLoads(nodes) # {}
  \/ BareNils(nodes) # {}

Translate ==
  /\ stage = "ready" /\ "desugar" \in passes
  /\ IF Untranslatable(TreeNodes)
     THEN stage' = "untranslated" /\ result' = result
     ELSE /\ stage' = "translated"
          /\ \E merged \in BOOLEAN : result' = Run(Code(TreeNodes, TRUE, merged))
  /\ UNCHANGED << source, the_program, passes, meaning >>

Next ==
  \/ ParseProgram \/ ComputeBindings \/ ComputeTypes \/ RenameAll
  \/ DesugarPass \/ InlinePass \/ InlineAgain \/ Translate

Spec == Init /\ [][Next]_vars

-----------------------------------------------------------------------------
(* What printing a tree loses: the type of an array is printed as its base *)
(* type, and an operand on the left that ends with an expression takes     *)
(* what follows it when it is read back.                                   *)
RECURSIVE Plain(_)
Plain(n) ==
  LET new == MapKids(n, Plain)
  IN IF new.kind = "SeqExp" /\ Len(new.kids) = 1 THEN new.kids[1] ELSE new
OpenEnded == {"IfExp", "WhileExp", "ForExp", "AssignExp", "ArrayExp"}
LostInText(n) ==
  \E m \in Nodes(Plain(n)) :
    m.kind = "ArrayTy" \/ (m.kind = "OpExp" /\ m.kids[1].kind \in OpenEnded)
ForLoops(tree) == {n \in Nodes(tree) : n.kind = "ForExp"}
(* A loop loses it if it is desugared, or a function that is inlined into  *)
(* a loop before.                                                          *)
LoopsLost ==
  /\ "desugar" \in passes
  /\ \/ \E n \in ForLoops(source) : LostInText(n.kids[2]) \/ LostInText(n.kids[3])
     \/ /\ "inline" \in passes /\ ForLoops(source) # {}
        /\ \E f \in Nodes(source) : f.kind = "FunctionDec" /\ LostInText(f)

(* The program as it was written, bound.                                   *)
Original == Walk(Bind(Program(source)))

(* A function calls itself, in the end, through a call or a function that  *)
(* is inside the arguments of a call, where the call graph does not look.  *)
HiddenRecursion(tree) ==
  LET nodes == Walk(tree)
      calls == {<< FunctionOf(nodes, rank), nodes[rank].value >> :
                  rank \in {k \in DOMAIN nodes : nodes[k].kind = "CallExp"}}
      RECURSIVE Callees(_)
      Callees(from) ==
        LET next == from \cup {c[2] : c \in {d \in calls : d[1] \in from}}
        IN IF next = from THEN from ELSE Callees(next)
      Recursive(f) == f \in Callees({c[2] : c \in {d \in calls : d[1] = f}})
      graph == CallGraph(tree)
      functions == {rank \in DOMAIN nodes : nodes[rank].kind = "FunctionDec"}
  IN \E f \in functions :
       Recursive(f) /\ (f \in ToSet(graph.vertices) => f \notin CalledBy(graph, f))

(* Programs on which the language and the translation part: strings        *)
(* compared by "<>", and records whose values are not in the order of the  *)
(* fields, or not under their names.                                       *)
Divergent(nodes) ==
  \E n \in ToSet(nodes) :
    \/ n.kind = "OpExp" /\ n.name = "<>" /\ OfStrings(nodes, n)
    \/ /\ n.kind = "RecordExp"
       /\ FieldNames(RecordOfType(nodes, TypeOf(nodes, n))) # FieldNames([n EXCEPT !.kids = Tail(@)])

(* What is printed (pretty-printer.cc) is read back by the grammar         *)
(* (parsetiger.yy) as the same tree, up to parentheses around one          *)
(* expression, when nothing in it is lost in text.                         *)
ReadsBackWhatItPrints ==
  stage = "source" /\ ~ LostInText(source)
    => Plain(ParseText(Display(source)).tree) = Plain(source)

(* The drawing of a parsed program, or of an expression in it, is a tree   *)
(* whose arrows and boxes agree (ast/dumper-dot.cc, dumper-dot.hxx).       *)
DrawsTheTree ==
  stage = "parsed" => \A n \in {the_program} \cup Nodes(source) : n # Null => DrawsTree(n)

(* After the renaming (bind/renamer.cc) every use still refers to its      *)
(* declaration although the names changed, and no two variables, functions *)
(* or types have the same name: what the inliner and the lookup of LLVM    *)
(* functions by name rely on.                                              *)
RenamingKeepsBindings ==
  stage = "ready" /\ passes = {} =>
    /\ Rebind(the_program) = the_program
    /\ \A n, m \in Nodes(the_program) :
         n.kind = m.kind /\ n.kind \in {"VarDec", "FunctionDec", "TypeDec"} /\ n.name = m.name
           /\ n.name \notin {"p1", "p2"} => n = m

(* In a program the type checker accepts (type-checker.cc:518, named.cc)   *)
(* every name of a type leads to a type that is not a name.                *)
TypesEnd ==
  stage = "typed" =>
    \A n \in Nodes(the_program) :
      n.kind = "TypeDec" => NextNamed(TreeNodes, n.value, Len(TreeNodes)) = 0

(* The type checker (type-checker.cc) is sound: a program it accepts never *)
(* uses a value as one of another type, unless a break has been bound to a *)
(* loop around its function.                                               *)
NeverWrong == meaning.st = "wrong" => ForeignBreaks(Original) # {}

(* The passes keep the meaning of a program (desugar-visitor.cc, inliner.cc),  *)
(* whichever is first: loops count to the largest integer and once, bounds *)
(* and arguments are evaluated once and in order, no name is captured.     *)
(* Except what a loop carries through text and loses there.                *)
KeepsMeaning ==
  stage = "ready" /\ meaning.st = "ok" /\ ~ LoopsLost => Meaning(the_program) = meaning

(* How a pass can end tc.  A rewritten program binds and types again       *)
(* (libdesugar.hxx), unless a loop lost something in text; a null pointer  *)
(* is dereferenced only in a loop whose lower bound is not a literal       *)
(* (desugar-visitor.cc:146); and calls are expanded for ever, by the first *)
(* --inline or the second, only where a function calls itself through the  *)
(* arguments of a call, which are not in the call graph                    *)
(* (call-graph-visitor.cc:33).                                             *)
PassesEnd ==
  /\ stage = "aborted" => LoopsLost
  /\ stage = "Crash" => \E n \in ForLoops(the_program) : n.kids[1].kids[2].kind # "IntExp"
  /\ stage = "Endless" /\ passes # {} => HiddenRecursion(the_program)

(* A function misses a variable of its callee (escapes-collector.cc) only  *)
(* when the callee comes after it in the chunk: its own needs were not     *)
(* known at the only visit of the call.                                    *)
OnlyForwardCallsMiss ==
  stage = "ready" /\ passes = {} =>
    \A call \in NullOperands(TreeNodes, Collected(TreeNodes)) :
      FunctionOf(TreeNodes, call) < TreeNodes[call].value

(* The translation (translator.cc) prints what the program prints in the   *)
(* language: through the extra arguments of lifted functions, recursive    *)
(* and nested, whether LLVM merges literals or not.                        *)
TranslationSame ==
  stage = "translated" /\ meaning.st = "ok" /\ ~ LoopsLost /\ ~ Divergent(TreeNodes)
    => result = meaning

(* The rewriting that desugar-visitor.cc:97 describes, for every loop.     *)
LoopsMeanTheSame ==
  stage = "ready" /\ meaning.st = "ok" => Meaning(the_program) = meaning

(* A variable without a value is a 0 (translator.cc:676), so that what     *)
(* could be translated can still be translated after a pass.               *)
TranslatesWhatItWasGiven == stage = "untranslated" => Untranslatable(Original)
=============================================================================
