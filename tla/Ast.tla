--------------------------------- MODULE Ast ---------------------------------
(***************************************************************************)
(* The abstract syntax trees of src/src/ast.  A node is a record of its    *)
(* class, a name (an identifier, an operator or the text of a string), a   *)
(* number and its children in the order DefaultVisitor visits them.  The   *)
(* number is the value of an integer literal; in the other nodes it is 0   *)
(* in a tree as parsed and becomes, once the tree is bound, the identity   *)
(* of a declaration or loop, or that of the declaration a use refers to    *)
(* (the pointers def_ of the code).  A child the code keeps as a null      *)
(* pointer is Null.  Types, escape flags and locations, which the code     *)
(* keeps in the nodes, are results of the modules that compute them.       *)
(*                                                                         *)
(* The grammar has no production for classes, methods and objects: those   *)
(* nodes are in no tree the parser returns and are left out.               *)
(***************************************************************************)
EXTENDS Integers, Sequences, SequencesExt

Node(kind, name, value, kids) ==
  [kind |-> kind, name |-> name, value |-> value, kids |-> kids]

Null == Node("Null", "", 0, << >>)

-----------------------------------------------------------------------------
(* Variables *)

SimpleVar(name) == Node("SimpleVar", name, 0, << >>)
FieldVar(var, name) == Node("FieldVar", name, 0, << var >>)
SubscriptVar(var, index) == Node("SubscriptVar", "", 0, << var, index >>)

IsVar(n) == n.kind \in {"SimpleVar", "FieldVar", "SubscriptVar"}

(* Expressions *)

NilExp == Node("NilExp", "", 0, << >>)
IntExp(i) == Node("IntExp", "", i, << >>)
StringExp(s) == Node("StringExp", s, 0, << >>)
CallExp(name, args) == Node("CallExp", name, 0, args)
OpExp(left, oper, right) == Node("OpExp", oper, 0, << left, right >>)
RecordExp(type_name, fields) == Node("RecordExp", "", 0, << type_name >> \o fields)
SeqExp(exps) == Node("SeqExp", "", 0, exps)
AssignExp(var, exp) == Node("AssignExp", "", 0, << var, exp >>)
IfExp(test, thenclause, elseclause) == Node("IfExp", "", 0, << test, thenclause, elseclause >>)
(* An if without an else has an empty sequence as its else clause. *)
IfThen(test, thenclause) == IfExp(test, thenclause, SeqExp(<< >>))
WhileExp(test, body) == Node("WhileExp", "", 0, << test, body >>)
ForExp(vardec, hi, body) == Node("ForExp", "", 0, << vardec, hi, body >>)
BreakExp == Node("BreakExp", "", 0, << >>)
LetExp(chunks, body) == Node("LetExp", "", 0, << chunks, body >>)
ArrayExp(type_name, size, init) == Node("ArrayExp", "", 0, << type_name, size, init >>)
CastExp(exp, ty) == Node("CastExp", "", 0, << exp, ty >>)

FieldInit(name, init) == Node("FieldInit", name, 0, << init >>)

(* Types *)

NameTy(name) == Node("NameTy", name, 0, << >>)
Field(name, type_name) == Node("Field", name, 0, << type_name >>)
RecordTy(fields) == Node("RecordTy", "", 0, fields)
ArrayTy(base_type) == Node("ArrayTy", "", 0, << base_type >>)

(* Declarations; formals is a chunk of variables, body is Null in a        *)
(* primitive, type_name and result are Null when they are not written.     *)

VarDec(name, type_name, init) == Node("VarDec", name, 0, << type_name, init >>)
FunctionDec(name, formals, result, body) ==
  Node("FunctionDec", name, 0, << formals, result, body >>)
TypeDec(name, ty) == Node("TypeDec", name, 0, << ty >>)

Chunk(kind, decs) == Node(kind, "", 0, decs)
VarChunk(decs) == Chunk("VarChunk", decs)
FunctionChunk(decs) == Chunk("FunctionChunk", decs)
TypeChunk(decs) == Chunk("TypeChunk", decs)
ChunkList(chunks) == Node("ChunkList", "", 0, chunks)

(* Chunk::push_front and ChunkList::push_front; ChunkList::splice_front    *)
(* and splice_back move every chunk of the other list.                     *)
PushFront(list, d) == [list EXCEPT !.kids = << d >> \o @]
SpliceFront(list, other) == [list EXCEPT !.kids = other.kids \o @]
SpliceBack(list, other) == [list EXCEPT !.kids = @ \o other.kids]

-----------------------------------------------------------------------------
(* f(i, e) of each element e, i being its index.  (SubSeq makes TLC keep   *)
(* the values, which it would compute again at every use of a function.)   *)
EachIndexed(seq, f(_, _)) == SubSeq([i \in DOMAIN seq |-> f(i, seq[i])], 1, Len(seq))
Each(seq, f(_)) == EachIndexed(seq, LAMBDA i, e : f(e))

(* FoldLeft, which TLC evaluates with a deeper stack.                      *)
Accumulate(f(_, _), start, seq) ==
  LET after[i \in 0..Len(seq)] == IF i = 0 THEN start ELSE f(after[i - 1], seq[i])
  IN after[Len(seq)]

(* The sequences f of the elements, one behind the other.                  *)
FlatMap(seq, f(_)) ==
  LET parts == Each(seq, f)
  IN IF parts = << >> THEN << >> ELSE Accumulate(LAMBDA flat, p : flat \o p, << >>, parts)

(* The traversal of DefaultVisitor: the nodes below n in the order of      *)
(* their first visit, a node before its children.                          *)
RECURSIVE Walk(_)
WalkAll(list) == FlatMap(list, Walk)
Walk(n) == << n >> \o WalkAll(n.kids)

Nodes(n) == ToSet(Walk(n))

(* astclone::Cloner: a new node of the class and the name of n, over its   *)
(* children cloned; and the pattern of every visitor that returns a tree,  *)
(* which does something else with them.                                    *)
Rebuilt(n, kids) == [n EXCEPT !.kids = kids]
MapKids(n, f(_)) == Rebuilt(n, Each(n.kids, f))
=============================================================================
