--------------------------- MODULE MCTaskRegister ---------------------------
(* Small sets of declarations for checking TaskRegister with TLC.          *)
EXTENDS TaskRegister

CONSTANTS o1, o2, o3, o4   \* task objects

Objects4 == {o1, o2, o3, o4}
Names == {"parse", "bound", "rename", "escapes", "overfun"}
NameOf == (o1 :> "parse") @@ (o2 :> "bound") @@ (o3 :> "rename") @@ (o4 :> "escapes")

\* A declaration table from a name, a list and a kind for each object.
Table(name, deps, kind) ==
  [o \in Objects4 |-> [name |-> name[o], deps |-> deps[o], kind |-> kind[o]]]

\* The lists of at most two of the names in ns, without repetition.
Lists(ns) == {<< >>} \union {<<n>> : n \in ns}
             \union {p \in ns \X ns : p[1] # p[2]}

\* Such a list with a kind; with less than two dependencies the kind makes no
\* difference.
KindsOf(ns) ==
  {n \in [deps : Lists(ns), kind : {"simple", "disjunctive"}] :
     Len(n.deps) < 2 => n.kind = "simple"}

\* Every acyclic graph of four tasks with at most two dependencies each, every
\* task that has two being ordinary or disjunctive.
AcyclicTables ==
  {Table(NameOf,
         (o1 :> << >>) @@ (o2 :> n2.deps) @@ (o3 :> n3.deps) @@ (o4 :> n4.deps),
         (o1 :> "simple") @@ (o2 :> n2.kind) @@ (o3 :> n3.kind) @@ (o4 :> n4.kind)) :
     n2 \in KindsOf({"parse"}),
     n3 \in KindsOf({"parse", "bound"}),
     n4 \in KindsOf({"parse", "bound", "rename"})}

\* The names in the order of the file.
Order == [n \in Names |->
  CASE n = "parse" -> 0 [] n = "bound" -> 1 [] n = "rename" -> 2 [] n = "escapes" -> 3 [] OTHER -> 0]
Orders == {Order}

\* What the properties of the search assume of the declarations holds of
\* those.
ASSUME RanksAssumption == (AcyclicTables \intersect Declaration) \subseteq Acyclic

\* Declarations with mistakes: an unknown dependency, a name given twice.
FaultyTables ==
  {Table((o1 :> "parse") @@ (o2 :> n2) @@ (o3 :> "rename") @@ (o4 :> "escapes"),
         (o1 :> d1) @@ (o2 :> << >>) @@ (o3 :> d3) @@ (o4 :> << >>),
         (o1 :> "simple") @@ (o2 :> "simple") @@ (o3 :> k) @@ (o4 :> "simple")) :
     n2 \in {"parse", "bound", "rename"},
     d1 \in {<< >>, <<"overfun">>},
     d3 \in Lists({"parse", "bound", "overfun"}),
     k  \in {"simple", "disjunctive"}}

\* Two tasks that need each other, one of them perhaps disjunctive, and one
\* that needs them.
CyclicTables ==
  {Table(NameOf,
         (o1 :> <<"bound">>) @@ (o2 :> <<"parse">>) @@ (o3 :> << >>) @@ (o4 :> d4),
         (o1 :> "simple") @@ (o2 :> k) @@ (o3 :> "simple") @@ (o4 :> "simple")) :
     k \in {"simple", "disjunctive"}, d4 \in {<< >>, <<"bound">>}}

\* Two tasks that take an argument and have no dependency, like all of those
\* tc declares.
ArgumentTables ==
  {Table(NameOf,
         (o1 :> << >>) @@ (o2 :> << >>) @@ (o3 :> <<"parse">>) @@ (o4 :> << >>),
         (o1 :> "simple") @@ (o2 :> "argument") @@ (o3 :> "simple") @@ (o4 :> "argument"))}

AllTables == AcyclicTables \union FaultyTables \union CyclicTables \union ArgumentTables
=============================================================================
