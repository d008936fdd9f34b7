-------------------------------- MODULE Inliner --------------------------------
(***************************************************************************)
(* inlining::Inliner on a bound, typed and renamed tree; the call graph    *)
(* and the parent graph tell it which functions are recursive.             *)
(***************************************************************************)
EXTENDS Desugar, LambdaLifting, FundecGraph

\* Mutant: only a function that calls itself directly is recursive.
RecFunsDirect(tree) ==
  LET graph == CallGraph(tree) IN {f \in ToSet(graph.vertices) : f \in Adjacent(graph, f)}

(* The functions that can reach themselves, or be reached from a function  *)
(* inside them.                                                            *)
RecFuns(tree) ==
  LET graph == CallGraph(tree)
      parents == ParentGraph(tree)
  IN UNION {{g \in CalledBy(graph, f) : DeepGet(parents, f, g)} : f \in ToSet(graph.vertices)}

(* The text a call becomes: a variable for each formal, and one for the    *)
(* result, whether there is one or not.                                    *)
CallText(formals, args, result, body) ==
  T("let")
  \o FlatMap(Zip(formals, args), LAMBDA p :
       T("var") \o Id(p[1].name) \o T(":") \o Id(p[1].kids[1].name)
       \o T(":=") \o Metavar("_exp", p[2]))
  \o T("var") \o Id("res") \o (IF result = Null THEN << >> ELSE T(":") \o Id(result.name))
  \o T(":=") \o T("(") \o Metavar("_exp", body) \o T(")")
  \o T("in") \o Id("res") \o T("end")

(* depth bounds the bodies expanded inside each other: more of them than   *)
(* there are functions repeat one, and then there is no end.               *)
RECURSIVE InlineVisit(_, _, _, _)
InlineVisit(nodes, rec_funs, depth, n) ==
  IF n.kind # "CallExp" \/ n.value \in rec_funs \/ nodes[n.value].kids[3] = Null
  THEN MapKids(n, LAMBDA k : InlineVisit(nodes, rec_funs, depth, k))
  ELSE IF depth = 0 THEN Endless
  ELSE LET def == nodes[n.value]
           args == Each(n.kids, LAMBDA k : InlineVisit(nodes, rec_funs, depth, k))
           body == InlineVisit(nodes, rec_funs, depth - 1, def.kids[3])
       IN ParseText(CallText(def.kids[1].kids, args, def.kids[2], body)).tree

Inlined(tree) ==
  LET nodes == Walk(tree)
      rec_funs == RecFuns(tree)
  IN InlineVisit(nodes, rec_funs, Len(Added(nodes)), tree)
=============================================================================
