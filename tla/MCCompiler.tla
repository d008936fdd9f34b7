------------------------------ MODULE MCCompiler ------------------------------
(***************************************************************************)
(* The programs of the run: small families, each around one feature or one *)
(* interplay of features, with every choice of their parts.                *)
(***************************************************************************)
EXTENDS Compiler

a == SimpleVar("a")
b == SimpleVar("b")
x == SimpleVar("x")
y == SimpleVar("y")
zero == IntExp(0)
one == IntExp(1)
int == NameTy("int")
string == NameTy("string")
r == NameTy("r")

Show(e) == CallExp("print_int", << e >>)
Sequ(es) == SeqExp(es)
Var(name, ty, init) == VarChunk(<< VarDec(name, ty, init) >>)
LetIn(chunks, es) == LetExp(ChunkList(chunks), SeqExp(es))
Fun(name, formals, res, body) ==
  FunctionDec(name, VarChunk([i \in DOMAIN formals |-> VarDec(formals[i], int, Null)]), res, body)
Funs(fs) == FunctionChunk(fs)
CallF(name, args) == CallExp(name, args)
Plus(l, m) == OpExp(l, "+", m)

RecordType == TypeChunk(<< TypeDec("r", RecordTy(<< Field("a", int), Field("b", r) >>)) >>)
Pair == TypeChunk(<< TypeDec("r", RecordTy(<< Field("a", int), Field("b", int) >>)) >>)
ArrayType == TypeChunk(<< TypeDec("t", ArrayTy(int)) >>)
NewR(v, w) == RecordExp(r, << FieldInit("a", v), FieldInit("b", w) >>)

(* Arithmetic at the limits of the integers.                               *)
Numbers == {zero, one, IntExp(MaxInt), OpExp(zero, "-", IntExp(MaxInt))}
Arithmetics ==
  {Show(OpExp(l, oper, Sequ(<< m >>))) :
     l \in Numbers, m \in Numbers \cup {OpExp(OpExp(zero, "-", IntExp(MaxInt)), "-", one)},
     oper \in {"+", "*", "/", "<="}}

(* Comparisons of strings.                                                 *)
Strings ==
  {Show(OpExp(StringExp(l), oper, StringExp(m))) :
     l \in {"", "a"}, m \in {"a", "b"}, oper \in {"=", "<>", "<", ">="}}
  \cup {LetIn(<< TypeChunk(<< TypeDec("s", string) >>), Var("x", ty, StringExp("a")) >>,
             << Show(OpExp(x, oper, StringExp(m))) >>) :
          ty \in {Null, string, NameTy("s")}, m \in {"a", "b"}, oper \in {"=", "<="}}

(* Loops: their bounds, what their bodies do, loops in loops.              *)
Bodies ==
  {Show(x), IfThen(OpExp(x, "=", one), BreakExp),
   Sequ(<< Show(x), AssignExp(a, Plus(a, x)) >>),
   AssignExp(a, OpExp(Sequ(<< IfExp(x, one, zero) >>), "+", one)),
   AssignExp(a, Plus(IfExp(x, one, zero), one)),
   WhileExp(OpExp(a, "<", one), Sequ(<< AssignExp(a, one), BreakExp >>)),
   LetIn(<< Var("x", Null, IntExp(2)) >>, << Show(x) >>),
   LetIn(<< ArrayType, Var("x", NameTy("t"), ArrayExp(NameTy("t"), one, x)) >>,
        << Show(SubscriptVar(x, zero)) >>),
   LetIn(<< Funs(<< Fun("f", << >>, Null, AssignExp(a, x)) >>) >>, << CallF("f", << >>) >>),
   LetIn(<< Funs(<< Fun("f", << >>, Null, BreakExp) >>) >>, << CallF("f", << >>) >>),
   ForExp(VarDec("y", Null, zero), x, Show(Plus(x, y))),
   AssignExp(x, one)}
Loops ==
  {LetIn(<< Var("a", Null, zero) >>, << ForExp(VarDec("x", Null, lo), hi, body), Show(a) >>) :
     lo \in {zero, IntExp(MaxInt - 1), OpExp(zero, "-", one)},
     hi \in {one, IntExp(MaxInt), a}, body \in Bodies}

(* Initial values and types: what is accepted, and what it computes.       *)
Values == {one, StringExp("a"), NilExp, NewR(one, NilExp), Sequ(<< >>),
           IfExp(one, NilExp, NewR(zero, NilExp)), IfExp(one, NilExp, NilExp)}
Uses == {Show(x), CallF("print", << x >>), Show(OpExp(x, "=", NilExp)), AssignExp(x, NilExp),
         Show(FieldVar(x, "a")), x, Show(OpExp(x, "<>", x))}
Typings ==
  {LetIn(<< RecordType, Var("x", ty, v) >>, << use >>) :
     ty \in {Null, int, r}, v \in Values, use \in Uses}
  \cup {Show(OpExp(v, "=", w)) : v \in {NilExp, one, Sequ(<< >>)}, w \in {NilExp, StringExp("a")}}

(* Types that name each other, in any order.                               *)
Definitions == {int, NameTy("s"), NameTy("t"), NameTy("u"), RecordTy(<< Field("f", NameTy("t")) >>)}
TypeNames == {int, NameTy("s"), NameTy("t")}
Types ==
  {LetIn(<< TypeChunk(<< TypeDec("s", s), TypeDec("t", t), TypeDec("u", u) >>),
           Var("x", NameTy("s"), v) >>, << AssignExp(x, v) >>) :
     s \in Definitions, t \in Definitions, u \in Definitions \ {NameTy("u")}, v \in {one, NilExp}}
  \cup {LetIn(<< TypeChunk(<< TypeDec("s", s), TypeDec("t", t) >>), Var("y", Null, one),
                TypeChunk(<< TypeDec("u", u) >>), Var("x", NameTy("u"), one) >>, << AssignExp(x, one) >>) :
          s \in TypeNames, t \in TypeNames, u \in TypeNames}

(* Records and arrays in memory.                                           *)
Aggregates ==
  {LetIn(<< Pair, Var("x", Null, RecordExp(r, << FieldInit(f, one), FieldInit(g, IntExp(2)) >>)),
           Var("y", Null, x) >>,
        << AssignExp(FieldVar(y, h), IntExp(3)), Show(FieldVar(x, "a")), Show(FieldVar(x, "b")) >>) :
     f \in {"a", "b"}, g \in {"a", "b", "c"}, h \in {"a", "b"}}
  \cup {LetIn(<< ArrayType, Var("x", Null, ArrayExp(NameTy("t"), IntExp(2), one)), Var("y", ty, x) >>,
             << AssignExp(SubscriptVar(x, i), IntExp(3)), Show(SubscriptVar(y, one)) >>) :
          ty \in {Null, int, NameTy("t")}, i \in {zero, one, IntExp(2)}}

(* Nested functions sharing variables: who calls whom, from where.         *)
Effects == {AssignExp(a, Plus(a, one)), Show(a), CallF("g", << >>), Sequ(<< >>), BreakExp,
            IfThen(OpExp(a, "<", one), CallF("f", << >>))}
Nested ==
  {LetIn(<< Var("a", Null, zero),
           Funs(<< Fun("f", << >>, Null, e1), Fun("g", << >>, Null, e2) >>) >>,
        << CallF(called, << >>), Show(a) >>) :
     e1 \in Effects \cup {Sequ(<< e, AssignExp(a, Plus(a, one)) >>) : e \in Effects}, e2 \in (Effects \ {CallF("g", << >>)}) \cup {CallF("f", << >>)}, called \in {"f", "g"}}

(* A function whose variables a function inside it uses, recursively.      *)
Inner(m) == Fun("h", << >>, int, m)
Recursive ==
  {LetIn(<< Var("b", Null, IntExp(2)),
           Funs(<< Fun("f", << "a" >>, Null,
                       LetIn(<< Var("y", Null, Plus(a, one)), Funs(<< Inner(m) >>) >>,
                            << IfThen(OpExp(a, "<", one), CallF("f", << Plus(a, one) >>)),
                               Show(CallF("h", << >>)) >>)) >>) >>,
        << CallF("f", << arg >>), e >>) :
     m \in {a, b, y, Plus(a, Plus(y, b)), LetIn(<< Var("a", Null, one) >>, << Plus(a, y) >>)},
     arg \in {zero, one, b}, e \in {Sequ(<< >>), CallF("f", << one >>)}}

(* A procedure called twice, with a recursive function inside.             *)
Count(m) == Fun("h", << "n" >>, int,
                IfExp(OpExp(SimpleVar("n"), "<", one), m, CallF("h", << OpExp(SimpleVar("n"), "-", one) >>)))
Twice ==
  {LetIn(<< Funs(<< Fun("f", << "a", "b" >>, res,
                       LetIn(<< Funs(<< Count(m) >>) >>, << last >>)) >>) >>,
        << Show(CallF("f", << one, zero >>)), Show(CallF("f", << IntExp(2), arg >>)) >>) :
     m \in {a, b, Plus(a, b)}, res \in {Null, int}, last \in {CallF("h", << one >>), Show(a)},
     arg \in {IntExp(3), CallF("f", << one, one >>)}}

(* Calls whose arguments call: what inlining does to them.                 *)
Args(f) == {one, a, CallF(f, << one >>), LetIn(<< >>, << Show(one), a >>)}
Calling ==
  {LetIn(<< Var("a", Null, IntExp(3)),
           Funs(<< Fun("g", << "x" >>, int, Plus(x, a)),
                   Fun("f", << "x" >>, int,
                       IfExp(OpExp(x, "<", one), x, CallF("g", << e >>))) >>) >>,
        << Show(CallF("f", << arg >>)) >>) :
     e \in Args("g") \cup {x, CallF("f", << OpExp(x, "-", one) >>)}, arg \in Args("g")}

(* Names declared twice, in one scope inside another.                      *)
Shadows ==
  {LetIn(<< Var("a", Null, one), Funs(<< Fun("f", << >>, int, a) >>) >>,
        << LetIn(<< Var("a", Null, Plus(a, one)), Funs(<< Fun(name, << >>, int, body) >>) >>,
                << Show(CallF("f", << >>)), Show(a) >>) >>) :
     name \in {"f", "g"}, body \in {a, IntExp(3), CallF("f", << >>)}}

(* Functions called in loops, whose bodies may lose something in text.     *)
Fetch == LetIn(<< ArrayType, Var("x", NameTy("t"), ArrayExp(NameTy("t"), one, one)) >>,
               << SubscriptVar(x, zero) >>)
Repeated ==
  {LetIn(<< Var("a", Null, zero), Funs(<< Fun("f", << >>, int, body) >>) >>,
        << ForExp(VarDec("x", Null, zero), hi, AssignExp(a, Plus(a, CallF("f", << >>)))),
           Show(a) >>) :
     body \in {one, Plus(IfExp(a, one, zero), one), Fetch}, hi \in {one, CallF("f", << >>)}}

(* Two functions in one chunk, two formals: names the binder may refuse.   *)
Redeclared ==
  {LetIn(<< Funs(<< Fun("f", << "a", formal >>, int, a), Fun(name, << >>, int, one) >>) >>,
        << Show(CallF(name, << >>)) >>) :
     formal \in {"a", "b"}, name \in {"f", "g"}}

MCSources ==
  Arithmetics \cup Strings \cup Loops \cup Typings \cup Types \cup Aggregates \cup Nested \cup Recursive \cup Twice
  \cup Calling \cup Shadows \cup Repeated \cup Redeclared
MCTexts == << "", "a", "b" >>
=============================================================================
