-------------------------------- MODULE Desugar --------------------------------
(***************************************************************************)
(* desugar::DesugarVisitor on a bound and typed tree: comparisons of       *)
(* strings become calls to the primitives streq and strcmp, `for' loops    *)
(* become `while' loops.  Both are written as text that is parsed again;   *)
(* operands of comparisons are carried into it as trees (metavariables),   *)
(* the bound and the body of a loop are printed into it.                   *)
(***************************************************************************)
EXTENDS Grammar, Renamer, TypeChecker

(* What a visitor leaves where it dereferences a null pointer, and where   *)
(* it never stops expanding.                                               *)
Crash == Node("Crash", "", 0, << >>)
Endless == Node("Endless", "", 0, << >>)
Fails(tree) == \E n \in Nodes(tree) : n.kind \in {"Crash", "Endless"}

\* Mutant: the type is compared as it is written.
OfStringsByName(nodes, e) == \A i \in {1, 2} : TypeOf(nodes, e.kids[i]) = StringType

OfStrings(nodes, e) ==
  \A i \in {1, 2} : ActualOf(nodes, TypeOf(nodes, e.kids[i])) = StringType

(* "<>" is not among the comparisons rewritten.                            *)
StringComparison(oper, l, r) ==
  LET operands == T("(") \o Metavar("_exp", l) \o T(",") \o Metavar("_exp", r) \o T(")")
  IN IF oper = "=" THEN ParseText(Id("streq") \o operands)
     ELSE ParseText(Id("strcmp") \o operands \o T(oper) \o Number(0))

\* Mutant: the loop counts before it tests.
LoopTextCounting(name, lo, hi, body) ==
  T("let") \o T("var") \o Id("_lo") \o T(":=") \o Number(lo)
  \o T("var") \o Id("_hi") \o T(":=") \o Display(hi)
  \o T("var") \o Id(name) \o T(":=") \o Id("_lo")
  \o T("in") \o T("while") \o Id(name) \o T("<=") \o Id("_hi") \o T("do")
  \o T("(") \o Display(body) \o T(";")
  \o Id(name) \o T(":=") \o Id(name) \o T("+") \o Number(1) \o T(")") \o T("end")

(* The loop tests before it counts, so that it ends at the largest integer.*)
LoopText(name, lo, hi, body) ==
  T("let") \o T("var") \o Id("_lo") \o T(":=") \o Number(lo)
  \o T("var") \o Id("_hi") \o T(":=") \o Display(hi)
  \o T("var") \o Id(name) \o T(":=") \o Id("_lo")
  \o T("in") \o T("if") \o Id("_lo") \o T("<=") \o Id("_hi") \o T("then")
  \o T("while") \o Number(1) \o T("do")
  \o T("(") \o Display(body) \o T(";")
  \o T("if") \o Id(name) \o T("=") \o Id("_hi") \o T("then") \o T("break") \o T(";")
  \o Id(name) \o T(":=") \o Id(name) \o T("+") \o Number(1) \o T(")") \o T("end")

RECURSIVE DesugarVisit(_, _, _, _)

(* The lower bound is taken for a literal without a test.                  *)
DesugarFor(vardec, hi, body) ==
  IF vardec.kids[2].kind # "IntExp" \/ Fails(hi) \/ Fails(body) THEN Crash
  ELSE ParseText(LoopText(vardec.name, vardec.kids[2].value, hi, body)).tree

DesugarVisit(nodes, for_p, string_cmp_p, n) ==
  LET kids == Each(n.kids, LAMBDA k : DesugarVisit(nodes, for_p, string_cmp_p, k))
  IN CASE /\ n.kind = "OpExp" /\ string_cmp_p
          /\ n.name \in {"=", "<=", "<", ">=", ">"} /\ OfStrings(nodes, n) ->
            StringComparison(n.name, kids[1], kids[2]).tree
       [] n.kind = "ForExp" /\ for_p -> DesugarFor(kids[1], kids[2], kids[3])
       [] OTHER -> [n EXCEPT !.kids = kids]

(* bind_and_types_check after a pass: what it returns is a new tree, and   *)
(* an error in it is an internal error that ends tc.                       *)
Rebind(tree) == Bind(Unbound(tree))
Rechecked(tree) == ~ Fails(tree) /\ IsBound(Rebind(tree)) /\ Accepted(Rebind(tree))

Desugared(tree, for_p, string_cmp_p) == DesugarVisit(Walk(tree), for_p, string_cmp_p, tree)
=============================================================================
