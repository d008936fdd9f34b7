-------------------------------- MODULE Renamer --------------------------------
(***************************************************************************)
(* bind::Renamer on a bound tree: every declaration gets its name with a   *)
(* counter behind it, in the order the visitor meets them, and every use   *)
(* takes the name of its declaration.  Primitives and _main keep theirs.   *)
(***************************************************************************)
EXTENDS Bindings

KeepsName(dec) == dec.kind = "FunctionDec" /\ (dec.kids[3] = Null \/ dec.name = "_main")

(* The declarations that get a new name, in order.  The formals of a       *)
(* function come before it, the headers of a chunk before its bodies.      *)
RECURSIVE Renamed(_)
RenamedAll(nodes) == FlatMap(nodes, Renamed)

\* Mutant: the formals keep their names.
RenamedHeaderOnly(dec) == IF KeepsName(dec) THEN << >> ELSE << dec >>

RenamedHeader(dec) ==
  Renamed(dec.kids[1]) \o (IF KeepsName(dec) THEN << >> ELSE << dec >>)

Renamed(n) ==
  CASE n.kind = "FunctionChunk" ->
         FlatMap(n.kids, RenamedHeader)
         \o FlatMap(n.kids, LAMBDA dec : Renamed(dec.kids[3]))
    [] n.kind \in {"VarDec", "TypeDec"} -> << n >> \o RenamedAll(n.kids)
    [] OTHER -> RenamedAll(n.kids)

(* The name of a declaration: its own, "_" and the number of declarations  *)
(* renamed before it.                                                      *)
NewNames(tree) ==
  LET decs == Renamed(tree)
  IN [d \in {decs[i].value : i \in DOMAIN decs} |->
        LET i == CHOOSE j \in DOMAIN decs : decs[j].value = d
        IN decs[i].name \o "_" \o ToString(i - 1)]

RECURSIVE WithNames(_, _)

\* Mutant: the names of types in their uses are forgotten.
WithNamesButTypes(names, n) ==
  LET new == MapKids(n, LAMBDA k : WithNames(names, k))
  IN IF /\ n.kind \in {"VarDec", "FunctionDec", "TypeDec", "SimpleVar", "CallExp"}
        /\ n.value \in DOMAIN names
     THEN [new EXCEPT !.name = names[n.value]]
     ELSE new

WithNames(names, n) ==
  LET new == MapKids(n, LAMBDA k : WithNames(names, k))
  IN IF /\ n.kind \in {"VarDec", "FunctionDec", "TypeDec", "SimpleVar", "CallExp", "NameTy"}
        /\ n.value \in DOMAIN names
     THEN [new EXCEPT !.name = names[n.value]]
     ELSE new

Rename(tree) == WithNames(NewNames(tree), tree)
=============================================================================
