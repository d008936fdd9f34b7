----------------------------- MODULE LambdaLifting -----------------------------
(***************************************************************************)
(* From nested functions to LLVM's flat ones: escapes::EscapesVisitor      *)
(* finds the variables used in another function than their own, and        *)
(* llvmtranslate::EscapesCollector the ones each function must be passed   *)
(* the address of.  Both work on a bound tree, in its traversal order.     *)
(***************************************************************************)
EXTENDS TypeChecker

(* The variables declared and used below n, and in which function.         *)
RECURSIVE Mentions(_, _)
Mentions(n, fn) ==
  LET inside == IF n.kind = "FunctionDec" THEN n.value ELSE fn
  IN (IF n.kind \in {"VarDec", "SimpleVar"}
      THEN {[kind |-> n.kind, dec |-> n.value, fn |-> fn]} ELSE {})
     \cup UNION {Mentions(n.kids[i], inside) : i \in DOMAIN n.kids}

DefSite(mentions, dec) == (CHOOSE m \in mentions : m.kind = "VarDec" /\ m.dec = dec).fn

Escaped(mentions) ==
  {m.dec : m \in {u \in mentions : u.kind = "SimpleVar" /\ u.fn # DefSite(mentions, u.dec)}}

-----------------------------------------------------------------------------
(* EscapesCollector.  collector.of is the map from functions to variables, *)
(* in which a function may have no entry yet; site and escaped are what    *)
(* the visitor above left in the tree.                                     *)
RECURSIVE Collect(_, _, _), Iterate(_, _, _)

Entry(collector, fn) == IF fn \in DOMAIN collector.of THEN collector.of[fn] ELSE {}
AddEntry(collector, fn, decs) ==
  [collector EXCEPT !.of = (fn :> (Entry(collector, fn) \cup decs)) @@ @]

CollectKids(collector, fn, n) ==
  Accumulate(LAMBDA c, k : Collect(c, fn, k), collector, n.kids)

(* A chunk of functions is visited again as long as a call in it added     *)
(* something; what was added in a chunk inside does not count.             *)
Iterate(collector, fn, chunk) ==
  IF ~ collector.did_modify THEN collector
  ELSE Iterate(CollectKids([collector EXCEPT !.did_modify = FALSE], fn, chunk), fn, chunk)

CollectChunk(collector, fn, chunk) ==
  [Iterate([collector EXCEPT !.did_modify = chunk.kids # << >>], fn, chunk)
     EXCEPT !.did_modify = collector.did_modify]

\* Mutant: a call adds nothing.
CollectCallNothing(collector, fn, callee) == collector

(* After its arguments, a call adds what its callee needs and the caller   *)
(* does not own.                                                           *)
CollectCall(collector, fn, callee) ==
  LET new == {v \in Entry(collector, callee) : collector.site[v] # fn} \ Entry(collector, fn)
  IN IF new = {} THEN collector
     ELSE [AddEntry(collector, fn, new) EXCEPT !.did_modify = TRUE]

(* A use of an escaping variable adds it, even in the function it is       *)
(* declared in, and that is no reason for another visit.                   *)
CollectVar(collector, fn, dec) ==
  IF dec \in collector.escaped THEN AddEntry(collector, fn, {dec}) ELSE collector

Collect(collector, fn, n) ==
  CASE collector.escaped = {} -> collector
    [] n.kind = "FunctionChunk" -> CollectChunk(collector, fn, n)
    [] n.kind = "FunctionDec" -> CollectKids(collector, n.value, n)
    [] n.kind = "CallExp" -> CollectCall(CollectKids(collector, fn, n), fn, n.value)
    [] n.kind = "SimpleVar" -> CollectVar(collector, fn, n.value)
    [] OTHER -> CollectKids(collector, fn, n)

(* collect_escapes, as a set for every function of the program.            *)
Collected(nodes) ==
  LET mentions == Mentions(nodes[1], 0)
      sites == [d \in {m.dec : m \in mentions} |-> DefSite(mentions, d)]
      start == [of |-> << >>, did_modify |-> FALSE, site |-> sites,
                escaped |-> Escaped(mentions)]
      end == Collect(start, 0, nodes[1])
  IN [f \in {n.value : n \in {m \in ToSet(nodes) : m.kind = "FunctionDec"}} |-> Entry(end, f)]

-----------------------------------------------------------------------------
(* The functions of the LLVM module, in the order they are created: those  *)
(* of a chunk, then those inside their bodies.                             *)
RECURSIVE Created(_)
Created(n) ==
  (IF n.kind = "FunctionChunk" THEN n.kids ELSE << >>)
  \o FlatMap(n.kids, Created)

(* A function is looked up by its name: of two of the same name, the       *)
(* second one gets another name in the module and is never found.          *)
Target(nodes, dec) ==
  LET functions == Created(nodes[1])
  IN functions[CHOOSE i \in DOMAIN functions :
       functions[i].name = dec.name /\ \A j \in 1..(i - 1) : functions[j].name # dec.name]

(* The function whose body the node of a rank is in.                       *)
FunctionOf(nodes, rank) ==
  LET around == {k \in 1..(rank - 1) :
                   nodes[k].kind = "FunctionDec" /\ rank < k + Size(nodes[k])}
  IN IF around = {} THEN 0 ELSE CHOOSE k \in around : \A j \in around : j <= k

(* The calls for which the translator has no address to pass: a variable   *)
(* the callee needs is neither passed to the caller nor declared in it     *)
(* before the call.  Building the call then dereferences a null pointer.   *)
NullOperands(nodes, escaped) ==
  LET Known(rank, v) ==
        LET fn == FunctionOf(nodes, rank)
        IN v \in escaped[fn] \/ (v < rank /\ FunctionOf(nodes, v) = fn)
  IN {rank \in DOMAIN nodes :
        /\ nodes[rank].kind = "CallExp"
        /\ \E v \in escaped[nodes[rank].value] : ~ Known(rank, v)}

(* A break whose loop is in another function: its block is in another      *)
(* LLVM function.                                                          *)
ForeignBreaks(nodes) ==
  {rank \in DOMAIN nodes :
     /\ nodes[rank].kind = "BreakExp"
     /\ FunctionOf(nodes, rank) # FunctionOf(nodes, nodes[rank].value)}

(* Variables without a value are loaded from a null pointer; a nil needs   *)
(* the record type it was given when it was compared with one.             *)
VoidLoads(nodes) ==
  {rank \in DOMAIN nodes :
     nodes[rank].kind = "SimpleVar" /\ TypeOf(nodes, nodes[rank]) = VoidType}
BareNils(nodes) ==
  {n.value : n \in {m \in ToSet(nodes) : m.kind = "NilExp"}} \ TypedNils(nodes[1])
=============================================================================
