------------------------------ MODULE FundecGraph ------------------------------
(***************************************************************************)
(* callgraph::FundecGraph and the two graphs built with it on a bound      *)
(* tree: who calls whom, and which function each one is declared in.  A    *)
(* function is the number of its declaration, 0 the null pointer the       *)
(* visitors start with.  vertices are in the order they are added, edges   *)
(* are pairs of places in it.                                              *)
(***************************************************************************)
EXTENDS Ast, FiniteSets

(* hfundecs[f]: a function without a vertex gets the first one.            *)
Handle(vertices, f) ==
  IF f \in ToSet(vertices) THEN CHOOSE i \in DOMAIN vertices : vertices[i] = f ELSE 1

(* fundec_add of each function, then fundec_link of each pair: in the code *)
(* the two are mixed, but what is linked has been added before, or is null.*)
(* Edges are a set: a second call between two functions is no second edge. *)
Graph(functions, links) ==
  [vertices |-> functions,
   edges |-> {<< Handle(functions, l[1]), Handle(functions, l[2]) >> : l \in links}]

Adjacent(g, f) == {g.vertices[e[2]] : e \in {d \in g.edges : d[1] = Handle(g.vertices, f)}}

(* The visits of a chunk: its functions, before those inside them.         *)
Added(nodes) ==
  FlatMap(SelectSeq(nodes, LAMBDA n : n.kind = "FunctionChunk"),
          LAMBDA n : Each(n.kids, LAMBDA f : f.value))

-----------------------------------------------------------------------------
(* CallGraphVisitor.  The arguments of a call are not visited: the calls   *)
(* in them are not in the graph, nor are functions declared there.         *)
RECURSIVE Unhidden(_), CallsIn(_, _), Parents(_, _)
Unhidden(n) == << n >> \o FlatMap(IF n.kind = "CallExp" THEN << >> ELSE n.kids, Unhidden)

CallsIn(n, caller) ==
  IF n.kind = "CallExp" THEN {<< caller, n.value >>}
  ELSE UNION {CallsIn(n.kids[i], IF n.kind = "FunctionDec" THEN n.value ELSE caller)
                : i \in DOMAIN n.kids}

CallGraph(tree) == Graph(Added(Unhidden(tree)), CallsIn(tree, 0))

(* ParentGraphVisitor.  A function that is in no other is linked to the    *)
(* null pointer: to the first function of the graph, that one to itself.   *)
Parents(n, parent) ==
  LET inside == IF n.kind = "FunctionDec" THEN n.value ELSE parent
  IN (IF n.kind = "FunctionChunk" THEN {<< f.value, parent >> : f \in ToSet(n.kids)} ELSE {})
     \cup UNION {Parents(n.kids[i], inside) : i \in DOMAIN n.kids}

ParentGraph(tree) == Graph(Added(Walk(tree)), Parents(tree, 0))

(* hfundec_deep_get: whether searched is start, or a parent on the way to  *)
(* the function that is its own.                                           *)
RECURSIVE DeepGet(_, _, _)
DeepGet(g, start, searched) ==
  \/ start = searched
  \/ LET parent == CHOOSE p \in Adjacent(g, start) : TRUE
     IN parent # start /\ DeepGet(g, parent, searched)

(* boost::transitive_closure: the functions one or more calls away.        *)
RECURSIVE Reached(_, _)
Reached(g, from) ==
  LET next == from \cup UNION {Adjacent(g, f) : f \in from}
  IN IF next = from THEN from ELSE Reached(g, next)
CalledBy(g, f) == Reached(g, Adjacent(g, f))
=============================================================================
