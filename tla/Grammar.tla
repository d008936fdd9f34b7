------------------------------- MODULE Grammar -------------------------------
(***************************************************************************)
(* The grammar of parse/parsetiger.yy, as a recursive-descent recogniser   *)
(* of token sequences that takes the decisions Bison's precedences take.   *)
(* A parse is a record: whether it succeeded, the tree built, and the      *)
(* tokens left.  The productions "&", "|" and unary "-" build their tree   *)
(* by parsing a Tweast whose metavariables are the operands.               *)
(***************************************************************************)
EXTENDS PrettyPrinter

Parsed(tree, rest) == [ok |-> TRUE, tree |-> tree, rest |-> rest]
SyntaxError == [ok |-> FALSE, tree |-> Null, rest |-> << >>]

At(ts, word) == ts # << >> /\ ts[1].tok = word
From(ts, n) == SubSeq(ts, n + 1, Len(ts))

(* Go on after parse p with its tree and what is left, if it succeeded;    *)
(* go on after a word, if it comes next.                                   *)
Then(p, f(_, _)) == IF p.ok THEN f(p.tree, p.rest) ELSE SyntaxError
Expect(ts, word, f(_)) == IF At(ts, word) THEN f(Tail(ts)) ELSE SyntaxError

(* The binary operators by precedence; comparisons do not associate.       *)
Level(word) ==
  CASE word = "|" -> 1
    [] word = "&" -> 2
    [] word \in {">=", "<=", "=", "<>", "<", ">"} -> 3
    [] word \in {"+", "-"} -> 4
    [] word \in {"*", "/"} -> 5
    [] OTHER -> 0
UnaryLevel == 6

LevelOf(ts) == IF ts = << >> THEN 0 ELSE Level(ts[1].tok)

RECURSIVE ParseExp(_, _), ParseList(_, _, _), ParseChunks(_), Item(_, _)

Exp(ts) == ParseExp(ts, 1)

(* The items of a rule, with commas or semicolons between them.            *)
ParseList(ts, sep, rule) ==
  Then(Item(rule, ts), LAMBDA x, r1 :
    IF At(r1, sep)
    THEN Then(ParseList(Tail(r1), sep, rule), LAMBDA xs, r2 : Parsed(PushFront(xs, x), r2))
    ELSE Parsed(SeqExp(<< x >>), r1))

Items(ts, sep, end, rule) ==
  IF At(ts, end) THEN Parsed(SeqExp(<< >>), ts) ELSE ParseList(ts, sep, rule)

Exps(ts, end) == Items(ts, ";", end, "exp")

TypeId(ts) ==
  CASE At(ts, "ID") -> Parsed(NameTy(ts[1].text), Tail(ts))
    [] At(ts, "_namety") -> Parsed(ts[1].tree, Tail(ts))
    [] OTHER -> SyntaxError

(* The three ways to write a binary operation as a tree: the two logical   *)
(* operators become conditionals.                                          *)
Tweast(ts) == Exp(ts).tree
And(l, r) ==
  Tweast(T("if") \o Metavar("_exp", l) \o T("then") \o T("(") \o Metavar("_exp", r) \o T(")")
         \o T("<>") \o Number(0) \o T("else")
         \o Number(0))
Or(l, r) ==
  Tweast(T("if") \o Metavar("_exp", l) \o T("then") \o Number(1)
         \o T("else") \o T("(") \o Metavar("_exp", r) \o T(")")
         \o T("<>") \o Number(0))
Opposite(e) == Tweast(Number(0) \o T("-") \o Metavar("_exp", e))

Binary(l, word, r) ==
  CASE word = "&" -> And(l, r)
    [] word = "|" -> Or(l, r)
    [] OTHER -> OpExp(l, word, r)

(* An lvalue, then what follows it: a field, an index, or the declaration  *)
(* of an array when the variable is a bare name and "of" follows.          *)
RECURSIVE Lvalue(_, _)
Lvalue(v, ts) ==
  CASE At(ts, ".") ->
         IF At(Tail(ts), "ID") THEN Lvalue(FieldVar(v, ts[2].text), From(ts, 2))
         ELSE SyntaxError
    [] At(ts, "[") ->
         Then(Exp(Tail(ts)), LAMBDA i, r1 : Expect(r1, "]", LAMBDA r2 :
           IF v.kind = "SimpleVar" /\ At(r2, "of")
           THEN Then(Exp(Tail(r2)), LAMBDA init, r3 :
                  Parsed(ArrayExp(NameTy(v.name), i, init), r3))
           ELSE Lvalue(SubscriptVar(v, i), r2)))
    [] OTHER -> Parsed(v, ts)

(* A variable is an expression, or the left side of an assignment, which   *)
(* extends as far to the right as it can.                                  *)
VarOrAssign(v, ts) ==
  Then(Lvalue(v, ts), LAMBDA x, rest :
    IF IsVar(x) /\ At(rest, ":=")
    THEN Then(Exp(Tail(rest)), LAMBDA e, r : Parsed(AssignExp(x, e), r))
    ELSE Parsed(x, rest))

Init1(ts) ==
  IF At(ts, "ID") /\ At(Tail(ts), "=")
  THEN Then(Exp(From(ts, 2)), LAMBDA e, r : Parsed(FieldInit(ts[1].text, e), r))
  ELSE SyntaxError

RecordOf(ty, ts) ==
  Then(Items(ts, ",", "}", "field init"), LAMBDA fields, r :
    Expect(r, "}", LAMBDA rest : Parsed(RecordExp(ty, fields.kids), rest)))

Identifier(ts) ==
  CASE At(Tail(ts), "(") ->
         Then(Items(From(ts, 2), ",", ")", "exp"), LAMBDA args, r :
           Expect(r, ")", LAMBDA rest : Parsed(CallExp(ts[1].text, args.kids), rest)))
    [] At(Tail(ts), "{") -> RecordOf(NameTy(ts[1].text), From(ts, 2))
    [] OTHER -> VarOrAssign(SimpleVar(ts[1].text), Tail(ts))

(* A name and its type, in a record type or in the formals of a function.  *)
Named(ts, make(_, _)) ==
  IF At(ts, "ID") /\ At(Tail(ts), ":")
  THEN Then(TypeId(From(ts, 2)), LAMBDA t, r : Parsed(make(ts[1].text, t), r))
  ELSE SyntaxError

TyField(ts) == Named(ts, Field)
Formal(ts) == Named(ts, LAMBDA name, t : VarDec(name, t, Null))

Ty(ts) ==
  CASE At(ts, "ID") -> Parsed(NameTy(ts[1].text), Tail(ts))
    [] At(ts, "{") ->
         Then(Items(Tail(ts), ",", "}", "field"), LAMBDA fields, r :
           Expect(r, "}", LAMBDA rest : Parsed(RecordTy(fields.kids), rest)))
    [] At(ts, "array") ->
         Expect(Tail(ts), "of", LAMBDA r : Then(TypeId(r), LAMBDA t, rest :
           Parsed(ArrayTy(t), rest)))
    [] OTHER -> SyntaxError

(* Control structures: the last expression of a conditional, a loop or an  *)
(* assignment takes every operator that follows, and an "else" belongs to  *)
(* the nearest "if".                                                       *)
If(ts) ==
  Then(Exp(ts), LAMBDA test, r1 : Expect(r1, "then", LAMBDA r2 :
    Then(Exp(r2), LAMBDA yes, r3 :
      IF At(r3, "else")
      THEN Then(Exp(Tail(r3)), LAMBDA no, r4 : Parsed(IfExp(test, yes, no), r4))
      ELSE Parsed(IfThen(test, yes), r3))))

While(ts) ==
  Then(Exp(ts), LAMBDA test, r1 : Expect(r1, "do", LAMBDA r2 :
    Then(Exp(r2), LAMBDA body, r3 : Parsed(WhileExp(test, body), r3))))

For(ts) ==
  IF At(ts, "ID") /\ At(Tail(ts), ":=")
  THEN Then(Exp(From(ts, 2)), LAMBDA lo, r1 : Expect(r1, "to", LAMBDA r2 :
         Then(Exp(r2), LAMBDA hi, r3 : Expect(r3, "do", LAMBDA r4 :
           Then(Exp(r4), LAMBDA body, r5 :
             Parsed(ForExp(VarDec(ts[1].text, Null, lo), hi, body), r5))))))
  ELSE SyntaxError

Let(ts) ==
  Then(ParseChunks(ts), LAMBDA chunks, r1 : Expect(r1, "in", LAMBDA r2 :
    Then(Exps(r2, "end"), LAMBDA exps, r3 : Expect(r3, "end", LAMBDA r4 :
      Parsed(LetExp(chunks, exps), r4)))))

Cast(ts) ==
  Expect(ts, "(", LAMBDA r1 : Then(Exp(r1), LAMBDA e, r2 : Expect(r2, ",", LAMBDA r3 :
    Then(Ty(r3), LAMBDA t, r4 : Expect(r4, ")", LAMBDA r5 : Parsed(CastExp(e, t), r5))))))

(* An expression that is not a binary operation.                           *)
Operand(ts) ==
  CASE At(ts, "nil") -> Parsed(NilExp, Tail(ts))
    [] At(ts, "INT") -> Parsed(IntExp(ts[1].num), Tail(ts))
    [] At(ts, "STRING") -> Parsed(StringExp(ts[1].text), Tail(ts))
    [] At(ts, "_exp") -> Parsed(ts[1].tree, Tail(ts))
    [] At(ts, "_lvalue") -> VarOrAssign(ts[1].tree, Tail(ts))
    [] At(ts, "_namety") -> Expect(Tail(ts), "{", LAMBDA r : RecordOf(ts[1].tree, r))
    [] At(ts, "ID") -> Identifier(ts)
    [] At(ts, "-") ->
         Then(ParseExp(Tail(ts), UnaryLevel), LAMBDA e, r : Parsed(Opposite(e), r))
    [] At(ts, "(") ->
         Then(Exps(Tail(ts), ")"), LAMBDA exps, r :
           Expect(r, ")", LAMBDA rest : Parsed(exps, rest)))
    [] At(ts, "if") -> If(Tail(ts))
    [] At(ts, "while") -> While(Tail(ts))
    [] At(ts, "for") -> For(Tail(ts))
    [] At(ts, "break") -> Parsed(BreakExp, Tail(ts))
    [] At(ts, "let") -> Let(Tail(ts))
    [] At(ts, "_cast") -> Cast(Tail(ts))
    [] OTHER -> SyntaxError

(* Binary operations of at least a level, grouped to the left; the level   *)
(* last of the operation just read tells two comparisons in a row.         *)
RECURSIVE Operations(_, _, _, _)
Operations(l, ts, min, last) ==
  LET level == LevelOf(ts)
  IN IF level = 0 \/ level < min THEN Parsed(l, ts)
     ELSE IF level = 3 /\ last = 3 THEN SyntaxError
     ELSE Then(ParseExp(Tail(ts), level + 1), LAMBDA r, rest :
            Operations(Binary(l, ts[1].tok, r), rest, min, level))

ParseExp(ts, min) == Then(Operand(ts), LAMBDA e, rest : Operations(e, rest, min, 0))

-----------------------------------------------------------------------------
(* Declarations *)

(* An optional ": type".                                                   *)
OptionalType(ts) == IF At(ts, ":") THEN TypeId(Tail(ts)) ELSE Parsed(Null, ts)

Fundec(ts) ==
  IF ~ (At(Tail(ts), "ID") /\ At(From(ts, 2), "(")) THEN SyntaxError
  ELSE Then(Items(From(ts, 3), ",", ")", "formal"), LAMBDA fs, r1 :
         Expect(r1, ")", LAMBDA r2 : Then(OptionalType(r2), LAMBDA res, r3 :
           LET Dec(body) == FunctionDec(ts[2].text, VarChunk(fs.kids), res, body)
           IN IF At(ts, "primitive") THEN Parsed(Dec(Null), r3)
              ELSE Expect(r3, "=", LAMBDA r4 :
                     Then(Exp(r4), LAMBDA body, r5 : Parsed(Dec(body), r5))))))

Tydec(ts) ==
  IF At(Tail(ts), "ID") /\ At(From(ts, 2), "=")
  THEN Then(Ty(From(ts, 3)), LAMBDA t, r : Parsed(TypeDec(ts[2].text, t), r))
  ELSE SyntaxError

Vardec(ts) ==
  IF ~ At(Tail(ts), "ID") THEN SyntaxError
  ELSE Then(OptionalType(From(ts, 2)), LAMBDA t, r1 : Expect(r1, ":=", LAMBDA r2 :
         Then(Exp(r2), LAMBDA e, r3 : Parsed(VarDec(ts[2].text, t, e), r3))))

(* Consecutive declarations of types, or of functions and primitives, are  *)
(* one chunk; each variable is a chunk of its own.                         *)
RECURSIVE OneChunk(_)
OneChunk(ts) ==
  LET types == At(ts, "type")
      Same(r) == IF types THEN At(r, "type") ELSE At(r, "function") \/ At(r, "primitive")
      New(decs) == IF types THEN TypeChunk(decs) ELSE FunctionChunk(decs)
  IN Then(IF types THEN Tydec(ts) ELSE Fundec(ts), LAMBDA d, r :
       IF Same(r)
       THEN Then(OneChunk(r), LAMBDA c, rest : Parsed(PushFront(c, d), rest))
       ELSE Parsed(New(<< d >>), r))

ParseChunks(ts) ==
  CASE \E w \in {"type", "function", "primitive"} : At(ts, w) ->
         Then(OneChunk(ts), LAMBDA c, r1 : Then(ParseChunks(r1), LAMBDA cs, r2 :
           Parsed(PushFront(cs, c), r2)))
    [] At(ts, "var") ->
         Then(Vardec(ts), LAMBDA d, r1 : Then(ParseChunks(r1), LAMBDA cs, r2 :
           Parsed(PushFront(cs, VarChunk(<< d >>)), r2)))
    [] At(ts, "_chunks") ->
         Then(ParseChunks(Tail(ts)), LAMBDA cs, r : Parsed(SpliceBack(ts[1].tree, cs), r))
    [] OTHER -> Parsed(ChunkList(<< >>), ts)

(* The right-hand sides that may be repeated.                              *)
Item(rule, ts) ==
  CASE rule = "exp" -> Exp(ts)
    [] rule = "field init" -> Init1(ts)
    [] rule = "field" -> TyField(ts)
    [] rule = "formal" -> Formal(ts)

-----------------------------------------------------------------------------
(* The whole input as an expression, and as a list of declarations.        *)
Complete(p) == IF p.ok /\ p.rest = << >> THEN p ELSE SyntaxError
ParseText(ts) == Complete(Exp(ts))
ParseDecs(ts) == Complete(ParseChunks(ts))
=============================================================================
