---------------------------- MODULE PrettyPrinter ----------------------------
(***************************************************************************)
(* ast::PrettyPrinter, as the sequence of tokens its output is scanned     *)
(* into: spaces, line breaks and indentation are left out, and so are the  *)
(* comments that display bindings and escapes.  A token is a record of its *)
(* kind, the text of an identifier or a string, the value of an integer,   *)
(* and the tree of a metavariable (a tree a Tweast carries as it is).      *)
(***************************************************************************)
EXTENDS Ast

Token(tok, text, num, tree) == [tok |-> tok, text |-> text, num |-> num, tree |-> tree]

(* Keywords, operators and punctuation; identifiers; integers;             *)
(* metavariables.                                                          *)
T(word) == << Token(word, "", 0, Null) >>
Id(name) == << Token("ID", name, 0, Null) >>
Number(i) == << Token("INT", "", i, Null) >>
Metavar(tok, tree) == << Token(tok, "", 0, tree) >>

(* misc::separate: the printed items with a separator between two of them. *)
Separate(items, sep) ==
  IF items = << >> THEN << >> ELSE Head(items) \o FlatMap(Tail(items), LAMBDA s : sep \o s)

RECURSIVE Display(_)

PrintAll(nodes, sep) == Separate(Each(nodes, Display), sep)

PrintVar(n) ==
  CASE n.kind = "SimpleVar" -> Id(n.name)
    [] n.kind = "FieldVar" -> Display(n.kids[1]) \o T(".") \o Id(n.name)
    [] n.kind = "SubscriptVar" -> Display(n.kids[1]) \o T("[") \o Display(n.kids[2]) \o T("]")

(* Literals, operations and constructions; only an operation brings        *)
(* parentheses of its own.                                                 *)
PrintValue(n) ==
  CASE n.kind = "NilExp" -> T("nil")
    [] n.kind = "IntExp" -> Number(n.value)
    [] n.kind = "StringExp" -> << Token("STRING", n.name, 0, Null) >>
    [] n.kind = "OpExp" ->
         T("(") \o Display(n.kids[1]) \o T(n.name) \o Display(n.kids[2]) \o T(")")
    [] n.kind = "CallExp" -> Id(n.name) \o T("(") \o PrintAll(n.kids, T(",")) \o T(")")
    [] n.kind = "RecordExp" ->
         Display(n.kids[1]) \o T("{") \o PrintAll(Tail(n.kids), T(",")) \o T("}")
    [] n.kind = "FieldInit" -> Id(n.name) \o T("=") \o Display(n.kids[1])
    [] n.kind = "ArrayExp" ->
         Display(n.kids[1]) \o T("[") \o Display(n.kids[2]) \o T("]") \o T("of") \o Display(n.kids[3])
    [] n.kind = "CastExp" ->
         T("_cast") \o T("(") \o Display(n.kids[1]) \o T(",") \o Display(n.kids[2]) \o T(")")

\* Mutant: no parentheses around a sequence.
PrintSeqBare(n) ==
  IF n.kids = << >> THEN T("(") \o T(")") ELSE PrintAll(n.kids, T(";"))

(* A sequence of one expression is printed as that expression, without     *)
(* parentheses.                                                            *)
PrintSeq(n) ==
  CASE Len(n.kids) = 0 -> T("(") \o T(")")
    [] Len(n.kids) = 1 -> Display(n.kids[1])
    [] OTHER -> T("(") \o PrintAll(n.kids, T(";")) \o T(")")

PrintControl(n) ==
  CASE n.kind = "AssignExp" -> Display(n.kids[1]) \o T(":=") \o Display(n.kids[2])
    [] n.kind = "IfExp" ->
         T("if") \o Display(n.kids[1]) \o T("then") \o Display(n.kids[2])
                 \o T("else") \o Display(n.kids[3])
    [] n.kind = "WhileExp" -> T("while") \o Display(n.kids[1]) \o T("do") \o Display(n.kids[2])
    [] n.kind = "ForExp" ->
         T("for") \o Id(n.kids[1].name) \o T(":=") \o Display(n.kids[1].kids[2])
                  \o T("to") \o Display(n.kids[2]) \o T("do") \o Display(n.kids[3])
    [] n.kind = "BreakExp" -> T("break")
    [] n.kind = "LetExp" ->
         T("let") \o Display(n.kids[1]) \o T("in") \o Display(n.kids[2]) \o T("end")

(* The type of an array is printed as its base type.                       *)
PrintTy(n) ==
  CASE n.kind = "NameTy" -> Id(n.name)
    [] n.kind = "RecordTy" -> T("{") \o PrintAll(n.kids, T(",")) \o T("}")
    [] n.kind = "Field" -> Id(n.name) \o T(":") \o Display(n.kids[1])
    [] n.kind = "ArrayTy" -> Display(n.kids[1])

PrintFormal(v) == Id(v.name) \o T(":") \o Display(v.kids[1])

PrintFunctionDec(n) ==
  LET formals == n.kids[1].kids
  IN  T(IF n.kids[3] = Null THEN "primitive" ELSE "function") \o Id(n.name)
      \o T("(") \o Separate(Each(formals, PrintFormal), T(","))
      \o T(")")
      \o (IF n.kids[2] = Null THEN << >> ELSE T(":") \o Display(n.kids[2]))
      \o (IF n.kids[3] = Null THEN << >> ELSE T("=") \o Display(n.kids[3]))

PrintVarDec(n) ==
  T("var") \o Id(n.name)
  \o (IF n.kids[1] = Null THEN << >> ELSE T(":") \o Display(n.kids[1]))
  \o T(":=") \o Display(n.kids[2])

PrintDec(n) ==
  CASE n.kind = "FunctionDec" -> PrintFunctionDec(n)
    [] n.kind = "VarDec" -> PrintVarDec(n)
    [] n.kind = "TypeDec" -> T("type") \o Id(n.name) \o T("=") \o Display(n.kids[1])
    [] n.kind \in {"VarChunk", "FunctionChunk", "TypeChunk", "ChunkList"} ->
         PrintAll(n.kids, << >>)

Display(n) ==
  CASE IsVar(n) -> PrintVar(n)
    [] n.kind = "SeqExp" -> PrintSeq(n)
    [] n.kind \in {"AssignExp", "IfExp", "WhileExp", "ForExp", "BreakExp", "LetExp"} ->
         PrintControl(n)
    [] n.kind \in {"NameTy", "RecordTy", "Field", "ArrayTy"} -> PrintTy(n)
    [] n.kind \in {"FunctionDec", "VarDec", "TypeDec", "VarChunk", "FunctionChunk",
                   "TypeChunk", "ChunkList"} -> PrintDec(n)
    [] OTHER -> PrintValue(n)
=============================================================================
