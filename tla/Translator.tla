------------------------------ MODULE Translator ------------------------------
(***************************************************************************)
(* What a bound and typed tree computes, as an interpreter with a bounded  *)
(* number of calls and iterations.  With code.lifted it is the program     *)
(* that llvmtranslate::Translator builds: functions are found by name,     *)
(* variables of other functions are addresses passed as extra arguments,   *)
(* a string is the address of its literal, fields are stored by position.  *)
(* Without, it is the language: static scoping, strings compared by their  *)
(* contents, fields stored by name, `for' loops run as such.               *)
(*                                                                         *)
(* A state: the memory, the cell of each variable in sight, what was       *)
(* printed, the last value, the loop a break leaves, and a status: ok,     *)
(* break, fuel (the bound is reached), undefined (the program does what    *)
(* LLVM or the machine leaves undefined) or wrong (a value is used as one  *)
(* of another type, which a well-typed program must never do).             *)
(***************************************************************************)
EXTENDS LambdaLifting

CONSTANTS Width,     \* bits of an integer (32 in the code)
          Fuel,      \* calls and iterations of a run
          Texts      \* the texts of strings, in the order of strcmp

Wrap(i) == ((i + 2 ^ (Width - 1)) % 2 ^ Width) - 2 ^ (Width - 1)
MinInt == - (2 ^ (Width - 1))
MaxInt == 2 ^ (Width - 1) - 1

Value(k, n, size, text) == [k |-> k, n |-> n, size |-> size, text |-> text]
IntValue(i) == Value("int", Wrap(i), 0, "")
Truth(p) == IntValue(IF p THEN 1 ELSE 0)
VoidValue == Value("void", 0, 0, "")
Nil == Value("rec", 0, 0, "")
Address(cell) == Value("address", cell, 0, "")

-----------------------------------------------------------------------------
(* States *)

Start == [mem |-> << >>, env |-> << >>, out |-> << >>, val |-> VoidValue,
          brk |-> 0, st |-> "ok", fuel |-> Fuel]

Go(s, f(_)) == IF s.st = "ok" THEN f(s) ELSE s
Yield(s, v) == [s EXCEPT !.val = v]
Stop(s, st) == [s EXCEPT !.st = st]
Burn(s) == [s EXCEPT !.fuel = @ - 1]

Store(s, cell, v) == [s EXCEPT !.mem[cell] = v]
Allocate(s, vals) == [s EXCEPT !.mem = @ \o vals]
(* A new cell for each of these variables. *)
Alloca(s, decs, vals) ==
  LET cells == [d \in ToSet(decs) |-> Len(s.mem) + CHOOSE i \in DOMAIN decs : decs[i] = d]
  IN [Allocate(s, vals) EXCEPT !.env = cells @@ @]

-----------------------------------------------------------------------------
(* Operations *)

(* Division truncates toward zero.                                         *)
Quotient(a, b) ==
  LET Abs(i) == IF i < 0 THEN - i ELSE i
      q == Abs(a) \div Abs(b)
  IN IF (a < 0) = (b < 0) THEN q ELSE - q

Arith(s, oper, a, b) ==
  CASE oper = "+" -> Yield(s, IntValue(a + b))
    [] oper = "-" -> Yield(s, IntValue(a - b))
    [] oper = "*" -> Yield(s, IntValue(a * b))
    [] oper = "/" -> IF b = 0 \/ (a = MinInt /\ b = -1) THEN Stop(s, "undefined")
                     ELSE Yield(s, IntValue(Quotient(a, b)))

Ordered(oper, a, b) ==
  CASE oper = "=" -> a = b
    [] oper = "<>" -> a # b
    [] oper = "<" -> a < b
    [] oper = "<=" -> a <= b
    [] oper = ">" -> a > b
    [] oper = ">=" -> a >= b

TextRank(v) == IndexFirstSubSeq(<< v.text >>, Texts)
StrCmp(v, w) == TextRank(v) - TextRank(w)

(* What a comparison compares: numbers, the contents of strings in the     *)
(* language, addresses otherwise, whose order is nobody's choice.          *)
Compare(code, s, oper, v, w) ==
  CASE v.k = "str" /\ ~ code.lifted -> Yield(s, Truth(Ordered(oper, StrCmp(v, w), 0)))
    [] v.k # "int" /\ oper \notin {"=", "<>"} -> Stop(s, "undefined")
    [] OTHER -> Yield(s, Truth(Ordered(oper, v.n, w.n)))

Operate(code, s, oper, v, w) ==
  CASE oper \in Arithmetic /\ v.k = "int" /\ w.k = "int" -> Arith(s, oper, v.n, w.n)
    [] oper \notin Arithmetic /\ v.k = w.k -> Compare(code, s, oper, v, w)
    [] OTHER -> Stop(s, "wrong")

(* The primitives of tiger-runtime.c that the programs use.                *)
Primitive(s, name, args) ==
  CASE \E v \in ToSet(args) : v.k # (IF name = "print_int" THEN "int" ELSE "str") -> Stop(s, "wrong")
    [] name \in {"print", "print_int"} -> Yield([s EXCEPT !.out = Append(@, args[1])], VoidValue)
    [] name = "streq" -> Yield(s, Truth(args[1].text = args[2].text))
    [] name = "strcmp" -> Yield(s, IntValue(StrCmp(args[1], args[2])))

-----------------------------------------------------------------------------
RECURSIVE Eval(_, _, _), EvalFrom(_, _, _, _), Loop(_, _, _), ForLoop(_, _, _, _, _)

(* Evaluate the nodes in order; f receives the state and their values.     *)
EvalFrom(code, s, nodes, vals) ==
  IF nodes = << >> THEN << s, vals >>
  ELSE LET t == Eval(code, s, Head(nodes))
       IN IF t.st # "ok" THEN << t, vals >>
          ELSE EvalFrom(code, t, Tail(nodes), Append(vals, t.val))
EvalAll(code, s, nodes, f(_, _)) ==
  LET r == EvalFrom(code, s, nodes, << >>) IN Go(r[1], LAMBDA t : f(t, r[2]))

(* access_var: the address of a variable.  Nothing checks that an index is *)
(* inside the array or that a record is not nil.                           *)
Access(code, s, v) ==
  CASE v.kind = "SimpleVar" ->
         IF v.value \in DOMAIN s.env /\ s.env[v.value] # 0 THEN Yield(s, Address(s.env[v.value]))
         ELSE Stop(s, "wrong")
    [] v.kind = "SubscriptVar" ->
         EvalAll(code, s, v.kids, LAMBDA t, vals :
           IF vals[1].k # "arr" \/ vals[2].k # "int" THEN Stop(t, "wrong")
           ELSE IF vals[2].n \notin 0..(vals[1].size - 1) THEN Stop(t, "undefined")
           ELSE Yield(t, Address(vals[1].n + vals[2].n)))
    [] v.kind = "FieldVar" ->
         EvalAll(code, s, v.kids, LAMBDA t, vals :
           LET record == RecordOfType(code.nodes, TypeOf(code.nodes, v.kids[1]))
               field == FieldIndex(record, v.name)
           IN IF vals[1].k # "rec" THEN Stop(t, "wrong")
              ELSE IF vals[1].n = 0 THEN Stop(t, "undefined")
              ELSE IF field > vals[1].size THEN Stop(t, "wrong")
              ELSE Yield(t, Address(vals[1].n + field - 1)))

Load(code, s, v) == Go(Access(code, s, v), LAMBDA t : Yield(t, t.mem[t.val.n]))

(* The value is computed before the address it goes to.                    *)
Assign(code, s, n) ==
  Go(Eval(code, s, n.kids[2]), LAMBDA t :
    Go(Access(code, t, n.kids[1]), LAMBDA u : Yield(Store(u, u.val.n, t.val), VoidValue)))

Literal(code, n) ==
  Value("str", IF code.merged THEN IndexFirstSubSeq(<< n.name >>, Texts) ELSE n.value, 0, n.name)

(* The translator stores the i-th value in the i-th field, whatever names  *)
(* are written.                                                            *)
Fields(code, n, vals) ==
  LET record == RecordOfType(code.nodes, TypeOf(code.nodes, n.kids[1]))
      Slot(i) == IF code.lifted \/ ~ HasField(record, n.kids[i + 1].name) THEN i
                 ELSE FieldIndex(record, n.kids[i + 1].name)
  IN [i \in DOMAIN vals |->
        IF \E j \in DOMAIN vals : Slot(j) = i THEN vals[CHOOSE j \in DOMAIN vals : Slot(j) = i]
        ELSE vals[i]]

NewRecord(code, s, n) ==
  EvalAll(code, s, Tail(n.kids), LAMBDA t, vals :
    Yield(Allocate(t, Fields(code, n, vals)), Value("rec", Len(t.mem) + 1, Len(vals), "")))

NewArray(code, s, n) ==
  EvalAll(code, s, Tail(n.kids), LAMBDA t, vals :
    IF vals[1].k # "int" THEN Stop(t, "wrong")
    ELSE IF vals[1].n < 0 THEN Stop(t, "undefined")
    ELSE Yield(Allocate(t, [i \in 1..vals[1].n |-> vals[2]]),
               Value("arr", Len(t.mem) + 1, vals[1].n, "")))

RunIf(code, s, n) ==
  Go(Eval(code, s, n.kids[1]), LAMBDA t :
    IF t.val.k # "int" THEN Stop(t, "wrong")
    ELSE Eval(code, t, n.kids[IF t.val.n # 0 THEN 2 ELSE 3]))

(* A loop after its body: it goes on (next), or is left on its own break.  *)
Leave(s, loop, next) ==
  CASE s.st = "ok" -> next
    [] s.st = "break" /\ s.brk = loop -> Yield(Stop(s, "ok"), VoidValue)
    [] OTHER -> s

Loop(code, s, n) ==
  LET test == Eval(code, Burn(s), n.kids[1])
      body == Eval(code, test, n.kids[2])
  IN CASE s.fuel = 0 -> Stop(s, "fuel")
       [] test.st # "ok" -> test
       [] test.val.k # "int" -> Stop(test, "wrong")
       [] test.val.n = 0 -> Yield(test, VoidValue)
       [] OTHER -> Leave(body, n.value, Loop(code, body, n))

ForLoop(code, s, n, i, hi) ==
  LET body == Eval(code, Store(Burn(s), s.env[n.kids[1].value], IntValue(i)), n.kids[3])
  IN CASE i > hi -> Yield(s, VoidValue)
       [] s.fuel = 0 -> Stop(s, "fuel")
       [] OTHER -> Leave(body, n.value, ForLoop(code, body, n, i + 1, hi))

RunFor(code, s, n) ==
  EvalAll(code, s, << n.kids[1], n.kids[2] >>, LAMBDA t, vals :
    LET lo == t.mem[t.env[n.kids[1].value]]
    IN IF lo.k # "int" \/ vals[2].k # "int" THEN Stop(t, "wrong")
       ELSE ForLoop(code, t, n, lo.n, vals[2].n))

(* The variables a function sees when it is called: in the language, those *)
(* of the functions around it, and functions are not values, so these are  *)
(* the caller's; in the program translated, its formals and the addresses  *)
(* it was passed.                                                          *)
Passed(s, callee, target) ==
  [d \in ToSet(target) |->
     LET v == callee[CHOOSE i \in DOMAIN target : target[i] = d]
     IN IF v \in DOMAIN s.env THEN s.env[v] ELSE 0]

Enter(code, s, dec, vals) ==
  LET target == IF code.lifted THEN Target(code.nodes, dec) ELSE dec
      formals == [i \in DOMAIN target.kids[1].kids |-> target.kids[1].kids[i].value]
      Extra(d) == SetToSortSeq(code.escaped[d.value], <)
      outer == IF ~ code.lifted THEN s.env
               ELSE Passed(s, Extra(dec), Extra(target))
  IN IF \/ Len(formals) # Len(vals)
        \/ code.lifted /\ Len(Extra(dec)) # Len(Extra(target)) THEN Stop(s, "wrong")
     ELSE Eval(code, Alloca([s EXCEPT !.env = outer], formals, vals), target.kids[3])

(* The caller sees its own variables again; no break leaves a function.    *)
Return(s, dec, result) ==
  LET back == [result EXCEPT !.env = s.env]
  IN CASE result.st = "break" -> Stop(back, "wrong")
       [] result.st = "ok" /\ dec.kids[2] = Null -> Yield(back, VoidValue)
       [] OTHER -> back

Call(code, s, n) ==
  LET dec == code.nodes[n.value]
      args == EvalFrom(code, s, n.kids, << >>)
  IN CASE args[1].st # "ok" -> args[1]
       [] dec.kids[3] = Null -> Primitive(args[1], dec.name, args[2])
       [] args[1].fuel = 0 -> Stop(args[1], "fuel")
       [] OTHER -> Return(args[1], dec, Enter(code, Burn(args[1]), dec, args[2]))

Declaration(code, s, n) ==
  Go(Eval(code, s, n.kids[2]), LAMBDA t : Alloca(t, << n.value >>, << t.val >>))

Sequence(code, s, nodes) ==
  EvalAll(code, Yield(s, VoidValue), nodes, LAMBDA t, vals : t)

Eval(code, s, n) ==
  CASE s.st # "ok" -> s
    [] IsVar(n) -> Load(code, s, n)
    [] n.kind = "NilExp" -> Yield(s, Nil)
    [] n.kind = "IntExp" -> Yield(s, IntValue(n.value))
    [] n.kind = "StringExp" -> Yield(s, Literal(code, n))
    [] n.kind = "OpExp" ->
         EvalAll(code, s, n.kids, LAMBDA t, vals : Operate(code, t, n.name, vals[1], vals[2]))
    [] n.kind = "FieldInit" -> Eval(code, s, n.kids[1])
    [] n.kind = "RecordExp" -> NewRecord(code, s, n)
    [] n.kind = "ArrayExp" -> NewArray(code, s, n)
    [] n.kind = "CallExp" -> Call(code, s, n)
    [] n.kind = "AssignExp" -> Assign(code, s, n)
    [] n.kind = "IfExp" -> RunIf(code, s, n)
    [] n.kind = "WhileExp" -> Loop(code, s, n)
    [] n.kind = "ForExp" -> RunFor(code, s, n)
    [] n.kind = "BreakExp" -> Stop([s EXCEPT !.brk = n.value], "break")
    [] n.kind = "CastExp" -> Eval(code, s, n.kids[1])
    [] n.kind = "VarDec" -> Declaration(code, s, n)
    [] n.kind \in {"SeqExp", "LetExp", "ChunkList", "VarChunk"} -> Sequence(code, s, n.kids)
    [] n.kind \in {"FunctionChunk", "TypeChunk"} -> s

(* Run the program from its function _main; what can be seen of a run.     *)
Run(code) ==
  LET main == CHOOSE n \in ToSet(code.nodes) : n.kind = "FunctionDec" /\ n.name = "_main"
      outer == IF code.lifted THEN [d \in code.escaped[main.value] |-> 0] ELSE << >>
      end == Eval(code, [Start EXCEPT !.env = outer], main.kids[3])
  IN [out |-> Each(end.out, LAMBDA v : << IF v.k = "str" THEN 0 ELSE v.n, v.text >>),
      st |-> IF end.st = "break" THEN "wrong" ELSE end.st]

Code(nodes, lifted, merged) ==
  [nodes |-> nodes, lifted |-> lifted, merged |-> merged,
   escaped |-> IF lifted THEN Collected(nodes) ELSE << >>]
=============================================================================
