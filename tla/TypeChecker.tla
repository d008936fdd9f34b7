------------------------------ MODULE TypeChecker ------------------------------
(***************************************************************************)
(* type::TypeChecker over a bound tree.  A type is what the code has a     *)
(* type object for: the three built-in types, one Nil per nil, one Named   *)
(* per type declaration, one Record or Array per type expression; the id   *)
(* is the number of that node, so that equal types are the same object.    *)
(* As the number of a use is the rank of its declaration, ns[e.value] is   *)
(* the node e refers to, ns being the tree's nodes in traversal order.     *)
(*                                                                         *)
(* The code types each node once and keeps the answer in the node; here    *)
(* TypeOf is a function of the tree.  An error does not stop the visit: a  *)
(* program is accepted when no node that is visited has an error.          *)
(***************************************************************************)
EXTENDS Bindings, FiniteSets

Type(t, id) == [t |-> t, id |-> id]
IntType == Type("Int", 0)
StringType == Type("String", 0)
VoidType == Type("Void", 0)

RECURSIVE Actual(_, _, _), TypeOf(_, _)

(* Named::actual follows names to what they stand for; on a declaration    *)
(* that is not sound chunk_visit has put IntType in place of the cycle.        *)
Actual(ns, type, fuel) ==
  CASE type.t # "Named" -> type
    [] fuel = 0 -> IntType
    [] OTHER -> Actual(ns, TypeOf(ns, ns[type.id].kids[1]), fuel - 1)
ActualOf(ns, type) == Actual(ns, type, Len(ns))

\* Mutant: nil goes with every type.
CompatibleNil(ns, type1, type2) ==
  LET a == ActualOf(ns, type1)
      b == ActualOf(ns, type2)
  IN a = b \/ "Nil" \in {a.t, b.t}

(* compatible_with: the same object, but a nil goes with every record.     *)
Compatible(ns, type1, type2) ==
  LET a == ActualOf(ns, type1)
      b == ActualOf(ns, type2)
  IN a = b \/ {a.t, b.t} = {"Nil", "Record"}

FieldNames(record) == [i \in DOMAIN record.kids |-> record.kids[i].name]
HasField(record, name) == name \in ToSet(FieldNames(record))
(* Record::field_index *)
FieldIndex(record, name) ==
  CHOOSE i \in DOMAIN record.kids :
    record.kids[i].name = name /\ \A j \in 1..(i - 1) : record.kids[j].name # name

(* The RecordTy or ArrayTy node of an expression's type, Null if it is of  *)
(* neither kind.                                                           *)
RecordOfType(ns, type) ==
  LET a == ActualOf(ns, type) IN IF a.t = "Record" THEN ns[a.id] ELSE Null
ArrayOfType(ns, type) ==
  LET a == ActualOf(ns, type) IN IF a.t = "Array" THEN ns[a.id] ELSE Null

(* Built-in names that no declaration hides, then the user's types; every  *)
(* other unbound name is void.                                             *)
TypeOfName(n) ==
  CASE n.value # 0 -> Type("Named", n.value)
    [] n.name = "int" -> IntType
    [] n.name = "string" -> StringType
    [] OTHER -> VoidType

TypeOfVar(ns, n) ==
  CASE n.kind = "SimpleVar" -> TypeOf(ns, ns[n.value])
    [] n.kind = "FieldVar" ->
         LET r == RecordOfType(ns, TypeOf(ns, n.kids[1]))
         IN IF r # Null /\ HasField(r, n.name)
            THEN TypeOf(ns, r.kids[FieldIndex(r, n.name)].kids[1])
            ELSE IntType
    [] n.kind = "SubscriptVar" ->
         LET a == ArrayOfType(ns, TypeOf(ns, n.kids[1]))
         IN IF a # Null THEN TypeOf(ns, a.kids[1]) ELSE IntType

(* The type of a variable is the one written, or that of its initial value;*)
(* a function's is what it returns.                                        *)
TypeOfDec(ns, n) ==
  CASE n.kind = "VarDec" -> TypeOf(ns, IF n.kids[1] # Null THEN n.kids[1] ELSE n.kids[2])
    [] n.kind = "FunctionDec" -> IF n.kids[2] # Null THEN TypeOf(ns, n.kids[2]) ELSE VoidType

TypeOf(ns, n) ==
  CASE IsVar(n) -> TypeOfVar(ns, n)
    [] n.kind \in {"VarDec", "FunctionDec"} -> TypeOfDec(ns, n)
    [] n.kind = "NameTy" -> TypeOfName(n)
    [] n.kind = "RecordTy" -> Type("Record", n.value)
    [] n.kind = "ArrayTy" -> Type("Array", n.value)
    [] n.kind = "NilExp" -> Type("Nil", n.value)
    [] n.kind \in {"IntExp", "OpExp"} -> IntType
    [] n.kind = "StringExp" -> StringType
    [] n.kind = "RecordExp" ->
         IF RecordOfType(ns, TypeOf(ns, n.kids[1])) = Null THEN IntType
         ELSE ActualOf(ns, TypeOf(ns, n.kids[1]))
    [] n.kind = "ArrayExp" ->
         IF ArrayOfType(ns, TypeOf(ns, n.kids[1])) = Null THEN IntType ELSE TypeOf(ns, n.kids[1])
    [] n.kind = "CallExp" -> IF n.value = 0 THEN IntType ELSE TypeOf(ns, ns[n.value])
    [] n.kind = "SeqExp" -> IF n.kids = << >> THEN VoidType ELSE TypeOf(ns, Last(n.kids))
    [] n.kind \in {"IfExp", "LetExp", "CastExp"} -> TypeOf(ns, n.kids[2])
    [] n.kind \in {"AssignExp", "WhileExp", "ForExp", "BreakExp"} -> VoidType

-----------------------------------------------------------------------------
(* The pairs of types check_types compares when it visits a node.          *)

Arithmetic == {"+", "-", "*", "/"}

RecordChecks(ns, n) ==
  LET r == RecordOfType(ns, TypeOf(ns, n.kids[1]))
  IN [i \in 1..(Len(n.kids) - 1) |->
        << TypeOf(ns, n.kids[i + 1].kids[1]), TypeOf(ns, r.kids[i].kids[1]) >>]

CallChecks(ns, n) ==
  LET formals == ns[n.value].kids[1].kids
  IN [i \in DOMAIN n.kids |-> << TypeOf(ns, n.kids[i]), TypeOf(ns, formals[i]) >>]

VarDecChecks(ns, n) ==
  IF n.kids[1] = Null \/ n.kids[2] = Null THEN << >>
  ELSE << << TypeOf(ns, n.kids[1]), TypeOf(ns, n.kids[2]) >> >>

Checks(ns, n) ==
  LET Kid(i) == TypeOf(ns, n.kids[i])
  IN CASE n.kind = "SubscriptVar" -> << << Kid(2), IntType >> >>
       [] n.kind = "RecordExp" -> RecordChecks(ns, n)
       [] n.kind = "OpExp" ->
            IF n.name \in Arithmetic THEN << << Kid(1), IntType >>, << Kid(2), IntType >> >>
            ELSE << << Kid(1), Kid(2) >> >>
       [] n.kind = "ArrayExp" ->
            << << Kid(2), IntType >>, << TypeOf(ns, ArrayOfType(ns, Kid(1)).kids[1]), Kid(3) >> >>
       [] n.kind = "ForExp" -> << << Kid(1), IntType >>, << Kid(2), IntType >>, << Kid(3), VoidType >> >>
       [] n.kind = "AssignExp" -> << << Kid(1), Kid(2) >> >>
       [] n.kind = "IfExp" -> << << Kid(1), IntType >>, << Kid(2), Kid(3) >> >>
       [] n.kind = "CallExp" -> CallChecks(ns, n)
       [] n.kind = "WhileExp" -> << << Kid(1), IntType >>, << Kid(2), VoidType >> >>
       [] n.kind = "FunctionDec" ->
            IF n.kids[3] = Null THEN << >> ELSE << << TypeOf(ns, n), Kid(3) >> >>
       [] n.kind = "VarDec" -> VarDecChecks(ns, n)
       [] OTHER -> << >>

(* The counters of the for loops are marked read-only.                     *)
ReadOnly(ns, dec) == \E i \in DOMAIN ns : ns[i].kind = "ForExp" /\ ns[i].kids[1].value = dec

(* Named::sound walks along names from a declaration until it comes back   *)
(* or reaches a type that is not a name.                                   *)
RECURSIVE NextNamed(_, _, _)
NextNamed(ns, dec, n) ==
  IF n = 0 THEN dec
  ELSE LET t == TypeOf(ns, ns[dec].kids[1])
       IN IF t.t = "Named" THEN NextNamed(ns, t.id, n - 1) ELSE 0
Sound(ns, dec) == \A n \in 1..Len(ns) : NextNamed(ns, dec, n) # dec
(* It walks for ever from a name that leads into a cycle it is not part    *)
(* of, unless one before it in its chunk was found unsound, which ends the *)
(* search there, or the walk meets one that was found in an earlier chunk, *)
(* which then stands for int.                                              *)
WalkEnds(ns, dec) == ~ Sound(ns, dec) \/ NextNamed(ns, dec, Len(ns)) = 0
SearchEnds(ns) ==
  LET chunks == {c \in DOMAIN ns : ns[c].kind = "TypeChunk"}
      Dec(c, i) == ns[c].kids[i].value
      UnsoundBefore(c, i) == \E j \in 1..(i - 1) : ~ Sound(ns, Dec(c, j))
      Reset(c) == {Dec(c, i) : i \in {j \in DOMAIN ns[c].kids :
                     ~ Sound(ns, Dec(c, j)) /\ ~ UnsoundBefore(c, j)}}
  IN \A c \in chunks : \A i \in DOMAIN ns[c].kids :
       \/ WalkEnds(ns, Dec(c, i)) \/ UnsoundBefore(c, i)
       \/ \E d \in chunks, n \in 1..Len(ns) : d < c /\ NextNamed(ns, Dec(c, i), n) \in Reset(d)

(* What must hold of a node before its types can be compared.              *)
Shape(ns, n) ==
  LET Kid(i) == TypeOf(ns, n.kids[i])
  IN CASE n.kind = "FieldVar" ->
            RecordOfType(ns, Kid(1)) # Null /\ HasField(RecordOfType(ns, Kid(1)), n.name)
       [] n.kind = "SubscriptVar" -> ArrayOfType(ns, Kid(1)) # Null
       [] n.kind = "RecordExp" ->
            /\ RecordOfType(ns, Kid(1)) # Null
            /\ Len(RecordOfType(ns, Kid(1)).kids) = Len(n.kids) - 1
       [] n.kind = "ArrayExp" -> ArrayOfType(ns, Kid(1)) # Null
       [] n.kind = "AssignExp" ->
            ~ (n.kids[1].kind = "SimpleVar" /\ ReadOnly(ns, n.kids[1].value))
       [] n.kind = "CallExp" -> Len(ns[n.value].kids[1].kids) = Len(n.kids)
       [] n.kind = "VarDec" -> n.kids[1] # Null \/ Kid(2).t # "Nil"
       [] n.kind = "TypeDec" -> Sound(ns, n.value)
       [] n.kind = "RecordTy" -> IsInjective(FieldNames(n))
       [] OTHER -> TRUE

WellTyped(ns, n) ==
  /\ Shape(ns, n)
  /\ \A pair \in ToSet(Checks(ns, n)) : Compatible(ns, pair[1], pair[2])

(* The operand of a cast is not visited.                                   *)
RECURSIVE Visited(_)
Visited(n) ==
  << n >> \o FlatMap(IF n.kind = "CastExp" THEN Tail(n.kids) ELSE n.kids, Visited)

\* Mutant: the types of a chunk are not asked whether they are sound.
AcceptedUnsound(tree) ==
  LET ns == Walk(tree)
  IN \A n \in ToSet(Visited(tree)) : n.kind = "TypeDec" \/ WellTyped(ns, n)

Accepted(tree) ==
  LET ns == Walk(tree) IN \A n \in ToSet(Visited(tree)) : WellTyped(ns, n)

(* check_types gives a nil the record type it is compared with; two nils   *)
(* compared with each other, or a nil compared with nothing, have none.    *)
TypedNils(tree) ==
  LET ns == Walk(tree)
      pairs == UNION {ToSet(Checks(ns, n)) : n \in ToSet(Visited(tree))}
      Other(p, i, id) == p[i] = Type("Nil", id) /\ p[3 - i].t # "Nil"
  IN {n.value : n \in {m \in ToSet(Visited(tree)) :
        /\ m.kind = "NilExp"
        /\ \E p \in pairs, i \in {1, 2} : Other(p, i, m.value)}}
=============================================================================
