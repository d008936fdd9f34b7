------------------------------- MODULE Bindings -------------------------------
(***************************************************************************)
(* What bind::Binder leaves in a tree it has no error to report about: the *)
(* def_ of every use.  (Binder.tla is about its scopes and its errors.)    *)
(* The identity of a node is its rank in the traversal of the whole tree.  *)
(* Declarations, loops and the nodes that create a type or an object take  *)
(* their own rank as number, uses that of the node they refer to.          *)
(***************************************************************************)
EXTENDS Ast, FiniteSets

Size(n) == Len(Walk(n))

KidRank(n, rank, i) ==
  rank + 1 + Accumulate(LAMBDA sum, k : sum + Size(k), 0, SubSeq(n.kids, 1, i - 1))

NoNames == << >>
TopScope == [var |-> NoNames, fun |-> NoNames, type |-> NoNames, loop |-> 0]

(* A scope after the declarations of a chunk, the chunk being at this rank.*)
ScopeKind(dec) ==
  CASE dec.kind = "VarDec" -> "var"
    [] dec.kind = "FunctionDec" -> "fun"
    [] dec.kind = "TypeDec" -> "type"

Declare(scope, chunk, rank) ==
  Accumulate(LAMBDA s, i :
             [s EXCEPT ![ScopeKind(chunk.kids[i])] =
                (chunk.kids[i].name :> KidRank(chunk, rank, i)) @@ @],
           scope, [i \in DOMAIN chunk.kids |-> i])

DeclareFirst(scope, list, rank, n) ==
  Accumulate(LAMBDA s, i : Declare(s, list.kids[i], KidRank(list, rank, i)),
           scope, [i \in 1..n |-> i])

Lookup(names, name) == IF name \in DOMAIN names THEN names[name] ELSE 0

(* int and string are never looked up.                                     *)
Builtins == {"int", "string"}

RECURSIVE Resolve(_, _, _)

(* n with this number, its i-th child resolved in the scope scopeOf(i).    *)
With(n, rank, number, scopeOf(_)) ==
  [n EXCEPT !.value = number,
            !.kids = EachIndexed(@, LAMBDA i, k : Resolve(k, KidRank(n, rank, i), scopeOf(i)))]

(* The functions and types of a chunk are in the scope of their bodies; a  *)
(* variable is not in the scope of its own initial value.                  *)
ResolveChunk(n, rank, scope) ==
  With(n, rank, 0, LAMBDA i : IF n.kind = "VarChunk" THEN scope ELSE Declare(scope, n, rank))

ResolveChunkList(n, rank, scope) ==
  With(n, rank, 0, LAMBDA i : DeclareFirst(scope, n, rank, i - 1))

ResolveLet(n, rank, scope) ==
  With(n, rank, 0, LAMBDA i :
    IF i = 1 THEN scope
    ELSE DeclareFirst(scope, n.kids[1], KidRank(n, rank, 1), Len(n.kids[1].kids)))

(* The formals are in the scope of the body.                               *)
ResolveFunctionDec(n, rank, scope) ==
  With(n, rank, rank, LAMBDA i :
    IF i = 3 THEN Declare(scope, n.kids[1], KidRank(n, rank, 1)) ELSE scope)

(* The counter of a for is in the scope of its body, not of its bounds.    *)
ResolveLoop(n, rank, scope) ==
  LET Inside == [scope EXCEPT !.loop = rank]
      body == Len(n.kids)
  IN With(n, rank, rank, LAMBDA i :
       IF i # body THEN scope
       ELSE IF n.kind = "WhileExp" THEN Inside
       ELSE Declare(Inside, VarChunk(<< n.kids[1] >>), KidRank(n, rank, 1) - 1))

Resolve(n, rank, scope) ==
  CASE n.kind = "SimpleVar" -> [n EXCEPT !.value = Lookup(scope.var, n.name)]
    [] n.kind = "NameTy" ->
         [n EXCEPT !.value = IF n.name \in Builtins THEN 0 ELSE Lookup(scope.type, n.name)]
    [] n.kind = "BreakExp" -> [n EXCEPT !.value = scope.loop]
    [] n.kind = "CallExp" -> With(n, rank, Lookup(scope.fun, n.name), LAMBDA i : scope)
    [] n.kind = "ChunkList" -> ResolveChunkList(n, rank, scope)
    [] n.kind \in {"VarChunk", "FunctionChunk", "TypeChunk"} -> ResolveChunk(n, rank, scope)
    [] n.kind = "LetExp" -> ResolveLet(n, rank, scope)
    [] n.kind = "FunctionDec" -> ResolveFunctionDec(n, rank, scope)
    [] n.kind \in {"WhileExp", "ForExp"} -> ResolveLoop(n, rank, scope)
    [] n.kind \in {"IntExp", "Null"} -> n
    [] OTHER -> With(n, rank, rank, LAMBDA i : scope)

Bind(tree) == Resolve(tree, 1, TopScope)

(* nb_chunks when the last node of a declaration has been visited: the     *)
(* chunks that have ended by then, its own not among them.                 *)
ChunksBefore(nodes, last) ==
  Cardinality({c \in DOMAIN nodes :
    nodes[c].kind \in {"VarChunk", "FunctionChunk", "TypeChunk"} /\ c + Size(nodes[c]) <= last})

(* A name is refused a second time in its chunk.  The index of a for is in *)
(* no chunk: it counts as of the first one that ends in the body.          *)
TwiceInChunk(chunk) ==
  \E i, j \in DOMAIN chunk.kids : i # j /\ chunk.kids[i].name = chunk.kids[j].name

HidesIndex(nodes, for) ==
  LET index == nodes[for].kids[1]
      body == for + 1 + Size(index) + Size(nodes[for].kids[2])
      Numbered(dec) == ChunksBefore(nodes,
                       dec + Size(nodes[dec]) - 1
                         + IF nodes[dec - 1].kind = "ForExp" THEN Size(nodes[dec - 1].kids[2]) ELSE 0)
  IN \E dec \in body .. for + Size(nodes[for]) - 1 :
       /\ nodes[dec].kind = "VarDec" /\ nodes[dec].name = index.name
       /\ Numbered(dec) = Numbered(for + 1)

Redefines(tree) ==
  LET nodes == Walk(tree)
  IN \E n \in DOMAIN nodes :
       \/ nodes[n].kind \in {"VarChunk", "FunctionChunk", "TypeChunk"} /\ TwiceInChunk(nodes[n])
       \/ nodes[n].kind = "ForExp" /\ HidesIndex(nodes, n)

(* Every use refers to something, and nothing is declared twice.           *)
IsBound(tree) ==
  /\ \A n \in Nodes(tree) :
       /\ n.kind \in {"SimpleVar", "CallExp", "BreakExp"} => n.value # 0
       /\ n.kind = "NameTy" /\ n.name \notin Builtins => n.value # 0
  /\ ~ Redefines(tree)

(* The tree without its bindings, as the parser builds it.                 *)
RECURSIVE Unbound(_)
Unbound(n) ==
  IF n.kind = "IntExp" THEN n ELSE [MapKids(n, Unbound) EXCEPT !.value = 0]
=============================================================================
