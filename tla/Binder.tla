------------------------------- MODULE Binder -------------------------------
(***************************************************************************)
(* bind::Binder, the visitor that binds each use of a name to its          *)
(* declaration and each break to its loop.                                 *)
(*                                                                         *)
(* The visitor's activation records are the stack `open': what is being    *)
(* visited, innermost last.  The program is not chosen beforehand: at each *)
(* node the next one is chosen among those the grammar allows there, so    *)
(* the behaviours are the traversals of all programs of at most MaxSize    *)
(* nodes.  A chunk is a series of declarations of one kind; all its        *)
(* headers are visited before its bodies.                                  *)
(*                                                                         *)
(* The binder keeps, for each name in each of its three name spaces, the   *)
(* declaration in force and the number nb_chunks had when it was declared, *)
(* by which it recognises two declarations of one chunk.                   *)
(***************************************************************************)
EXTENDS Integers, SequencesExt, ErrorStatus

CONSTANTS
  Id,      \* the names a program uses
  MaxSize  \* bound on the nodes of a program

Space == {"fun", "var", "type"}
Symbol == Space \X Id

\* No declaration: a null pointer.  Declarations are numbered from 1.
Null == 0

\* A name never put and one with a null definition are handled alike.
NoEntry == [def |-> Null, chunk |-> 0]

Map == INSTANCE ScopedMap WITH Key <- Symbol, Absent <- NoEntry

VARIABLES
  sm,          \* Binder::sm
  nb_chunks,   \* the global counter of chunks
  break_stack, \* Binder::break_stack: positions in `open' of loops
  error,       \* status of Binder::error_
  open,        \* the nodes being visited
  own,         \* history: the declarations accepted in each open scope
  alarm,       \* history: the last node visited was reported
  fault,       \* history: the last node visited is an error of the program
  size         \* number of nodes visited

vars == <<sm, nb_chunks, break_stack, error, open, own, alarm, fault, size>>
scopes == <<sm, own>>
verdict == <<error, alarm, fault>>

\* A node being visited: the name it declares, the names its chunk declared
\* so far, and a number: the bodies its chunk has left or, for a loop, the
\* number nb_chunks had at its index.
Frame(node, name, seen, number) ==
  [node |-> node, name |-> name, seen |-> seen, number |-> number]
Plain(node) == Frame(node, "", {}, 0)

Top == Last(open)
Push(frame) == open' = Append(open, frame)
Pop == open' = Front(open)
Become(frame) == open' = [open EXCEPT ![Len(open)] = frame]

Nothing == [s \in Symbol |-> Null]

\* Binding in the chunk list of a program.  Earlier calls of bind::bind left
\* nb_chunks anywhere.
Init ==
  /\ sm = Map!Empty
  /\ nb_chunks \in 0 .. 1
  /\ break_stack = << >>
  /\ error = success
  /\ open = <<Plain("chunks")>>
  /\ own = <<Nothing>>
  /\ alarm = FALSE /\ fault = FALSE
  /\ size = 0

-----------------------------------------------------------------------------
(* Nodes, scopes and declarations.                                         *)

Count == size' = size + 1
Node == size < MaxSize /\ Count
InExp == Top.node \in {"in", "init", "hi", "lo", "for", "test", "while", "body"}
InChunks == Top.node = "chunks"

ScopeBegin == sm' = Map!ScopeBegin(sm) /\ own' = Append(own, Nothing)
ScopeEnd   == sm' = Map!ScopeEnd(sm)   /\ own' = Front(own)

Quiet == alarm' = FALSE /\ fault' = FALSE /\ UNCHANGED error

Report(reported, wrong) ==
  /\ alarm' = reported
  /\ fault' = wrong
  /\ error' = IF reported THEN Mark(error, bind) ELSE error

\* Mutant: the chunk of the earlier declaration is not looked at.
ClashesAnywhere(s) == Map!Get(sm, s).def # Null

\* The symbol has a declaration made under the present number.
Clashes(s) ==
  LET entry == Map!Get(sm, s) IN entry.def # Null /\ entry.chunk = nb_chunks

\* A declaration is put unless it clashes; it is wrong if its chunk has one
\* of the same name.
Declare(s, wrong) ==
  /\ Report(Clashes(s), wrong)
  /\ IF Clashes(s) THEN UNCHANGED scopes
     ELSE /\ sm' = Map!Put(sm, s, [def |-> size', chunk |-> nb_chunks])
          /\ own' = [own EXCEPT ![Len(own)] = [@ EXCEPT ![s] = size']]

-----------------------------------------------------------------------------
(* Chunks.                                                                 *)

\* VarChunk: the initialiser of its one variable is visited first.
BeginVar(x) ==
  /\ InChunks /\ Node
  /\ Push(Frame("init", x, {}, 0))
  /\ Quiet
  /\ UNCHANGED <<scopes, nb_chunks, break_stack>>

EndVar ==
  /\ Top.node = "init" /\ Count
  /\ Declare(<<"var", Top.name>>, FALSE)
  /\ nb_chunks' = nb_chunks + 1
  /\ Pop
  /\ UNCHANGED break_stack

\* FunctionChunk and TypeChunk.
BeginChunk(kind) ==
  /\ InChunks /\ Node
  /\ Push(Plain(kind))
  /\ Quiet
  /\ UNCHANGED <<scopes, nb_chunks, break_stack>>

\* Mutant: the chunk is counted at each of its declarations.
HeaderCounted(kind, x) ==
  /\ Top.node = kind /\ (Top.number > 0 => size < MaxSize) /\ Count
  /\ Declare(<<kind, x>>, x \in Top.seen)
  /\ nb_chunks' = nb_chunks + 1
  /\ Become(Frame(kind, "", Top.seen \union {x}, Top.number + 1))
  /\ UNCHANGED break_stack

\* visit_dec_header.  A chunk has at least one declaration.
Header(kind, x) ==
  /\ Top.node = kind /\ (Top.number > 0 => size < MaxSize) /\ Count
  /\ Declare(<<kind, x>>, x \in Top.seen)
  /\ Become(Frame(kind, "", Top.seen \union {x}, Top.number + 1))
  /\ UNCHANGED <<nb_chunks, break_stack>>

\* The bodies of a TypeChunk only use types.
EndHeaders ==
  /\ Top.node \in {"fun", "type"} /\ Top.number > 0
  /\ Become(IF Top.node = "fun" THEN Frame("bodies", "", {}, Top.number)
                                ELSE Plain("types"))
  /\ Quiet
  /\ UNCHANGED <<scopes, nb_chunks, break_stack, size>>

\* visit_dec_body of a function: the formals are a VarChunk in its scope.
BeginBody ==
  /\ Top.node = "bodies" /\ Top.number > 0
  /\ ScopeBegin
  /\ open' = Append([open EXCEPT ![Len(open)].number = @ - 1], Plain("formals"))
  /\ Quiet
  /\ UNCHANGED <<nb_chunks, break_stack, size>>

Formal(x) ==
  /\ Top.node = "formals" /\ Node
  /\ Declare(<<"var", x>>, x \in Top.seen)
  /\ Become(Frame("formals", "", Top.seen \union {x}, 0))
  /\ UNCHANGED <<nb_chunks, break_stack>>

EndFormals ==
  /\ Top.node = "formals"
  /\ nb_chunks' = nb_chunks + 1
  /\ Become(Plain("body"))
  /\ Quiet
  /\ UNCHANGED <<scopes, break_stack, size>>

\* Mutant: the scope of a function stays open after its body.
EndBodyOpen ==
  /\ Top.node = "body"
  /\ Pop
  /\ Quiet
  /\ UNCHANGED <<scopes, nb_chunks, break_stack, size>>

EndBody ==
  /\ Top.node = "body"
  /\ ScopeEnd
  /\ Pop
  /\ Quiet
  /\ UNCHANGED <<nb_chunks, break_stack, size>>

EndChunk ==
  /\ Top.node = "types" \/ (Top.node = "bodies" /\ Top.number = 0)
  /\ nb_chunks' = nb_chunks + 1
  /\ Pop
  /\ Quiet
  /\ UNCHANGED <<scopes, break_stack, size>>

-----------------------------------------------------------------------------
(* Expressions.                                                            *)

\* SimpleVar, CallExp, and the NameTy of expressions and type declarations.
\* A call to an undeclared function leaves its arguments unvisited.
\* int and string, which are never looked up, are not among the names.
Use(s) ==
  /\ InExp \/ (Top.node \in {"types", "formals"} /\ s[1] = "type")
  /\ Node
  /\ Report(Map!Get(sm, s).def = Null, \A k \in DOMAIN own : own[k][s] = Null)
  /\ UNCHANGED <<scopes, nb_chunks, break_stack, open>>

BeginLet ==
  /\ InExp /\ Node
  /\ ScopeBegin
  /\ Push(Plain("chunks"))
  /\ Quiet
  /\ UNCHANGED <<nb_chunks, break_stack>>

LetBody ==
  /\ InChunks /\ Len(open) > 1
  /\ Become(Plain("in"))
  /\ Quiet
  /\ UNCHANGED <<scopes, nb_chunks, break_stack, size>>

EndLet ==
  /\ Top.node = "in"
  /\ ScopeEnd
  /\ Pop
  /\ Quiet
  /\ UNCHANGED <<nb_chunks, break_stack, size>>

\* ForExp: the upper bound, then in a new scope the lower bound, the index,
\* and the body.
BeginFor(x) ==
  /\ InExp /\ Node
  /\ Push(Frame("hi", x, {}, 0))
  /\ Quiet
  /\ UNCHANGED <<scopes, nb_chunks, break_stack>>

LowerBound ==
  /\ Top.node = "hi"
  /\ ScopeBegin
  /\ Become([Top EXCEPT !.node = "lo"])
  /\ Quiet
  /\ UNCHANGED <<nb_chunks, break_stack, size>>

ForBody ==
  /\ Top.node = "lo" /\ Count
  /\ Declare(<<"var", Top.name>>, FALSE)
  /\ break_stack' = Append(break_stack, Len(open))
  /\ Become(Frame("for", Top.name, {}, nb_chunks))
  /\ UNCHANGED nb_chunks

EndFor ==
  /\ Top.node = "for"
  /\ break_stack' = Front(break_stack)
  /\ ScopeEnd
  /\ Pop
  /\ Quiet
  /\ UNCHANGED <<nb_chunks, size>>

\* Mutant: the loop is entered before its test is visited.
BeginWhileEarly ==
  /\ InExp /\ Node
  /\ Push(Plain("test"))
  /\ break_stack' = Append(break_stack, Len(open'))
  /\ Quiet
  /\ UNCHANGED <<scopes, nb_chunks>>

BeginWhile ==
  /\ InExp /\ Node
  /\ Push(Plain("test"))
  /\ Quiet
  /\ UNCHANGED <<scopes, nb_chunks, break_stack>>

WhileBody ==
  /\ Top.node = "test"
  /\ break_stack' = Append(break_stack, Len(open))
  /\ Become(Plain("while"))
  /\ Quiet
  /\ UNCHANGED <<scopes, nb_chunks, size>>

EndWhile ==
  /\ Top.node = "while"
  /\ break_stack' = Front(break_stack)
  /\ Pop
  /\ Quiet
  /\ UNCHANGED <<scopes, nb_chunks, size>>

\* The positions of the loops whose bodies are being visited.
Loops == {i \in DOMAIN open : open[i].node \in {"for", "while"}}

\* BreakExp is bound to the last loop of break_stack.
Break ==
  /\ InExp /\ Node
  /\ Report(break_stack = << >>, Loops = {})
  /\ UNCHANGED <<scopes, nb_chunks, break_stack, open>>

\* The whole program was visited.
Ended == Len(open) = 1 /\ UNCHANGED vars

ChunkNext ==
  \/ \E x \in Id : BeginVar(x) \/ Formal(x)
  \/ \E kind \in {"fun", "type"} :
       BeginChunk(kind) \/ \E x \in Id : Header(kind, x)
  \/ EndVar \/ EndHeaders \/ BeginBody \/ EndFormals \/ EndBody \/ EndChunk

ExpNext ==
  \/ \E s \in Symbol : Use(s)
  \/ \E x \in Id : BeginFor(x)
  \/ BeginLet \/ LetBody \/ EndLet
  \/ LowerBound \/ ForBody \/ EndFor
  \/ BeginWhile \/ WhileBody \/ EndWhile
  \/ Break

Next == ChunkNext \/ ExpNext \/ Ended

Spec == Init /\ [][Next]_vars

-----------------------------------------------------------------------------
(* Properties.                                                             *)

NodeKind == {"chunks", "init", "fun", "type", "types", "bodies", "formals",
             "body", "in", "hi", "lo", "for", "test", "while"}
Frames ==
  LET named == {"init", "hi", "lo", "for"}
  IN  [node : named, name : Id, seen : {{}}, number : Nat]
        \union [node : NodeKind \ named, name : {""}, seen : SUBSET Id, number : Nat]
Entry == [def : Nat, chunk : Nat]

\* What the members of the binder, and the history, range over.
BinderTypeOK ==
  /\ sm \in Seq([Symbol -> Entry])
  /\ own \in Seq([Symbol -> Nat])
  /\ nb_chunks \in Nat
  /\ break_stack \in Seq(Nat)
  /\ error \in {success, bind}
  /\ open \in Seq(Frames)
  /\ alarm \in BOOLEAN /\ fault \in BOOLEAN
  /\ size \in Nat

\* The stack of copies is the environment of the program text: in every open
\* scope a name means the declaration accepted there or, failing that, what it
\* means in the scope around it; nothing declared in a scope that was closed
\* is left (Binder::sm, scope_begin and scope_end).
Visible(k, s) ==
  IF own[k][s] # Null THEN own[k][s]
  ELSE IF k = 1 THEN Null ELSE sm[k - 1][s].def

LexicalScoping ==
  /\ Len(sm) = Len(own)
  /\ \A k \in DOMAIN sm : \A s \in Symbol : sm[k][s].def = Visible(k, s)

\* Every scope a function, a let or a for opens is closed exactly once, at the
\* end of that construct.
Scoped == {i \in DOMAIN open :
             open[i].node \in {"formals", "body", "in", "lo", "for"}
               \/ (i > 1 /\ open[i].node = "chunks")}
ScopesBalanced == Len(sm) = 1 + Cardinality(Scoped)

\* A break is bound to the innermost loop whose body it is in: break_stack
\* lists the loops whose bodies are visited, the outermost first, and no loop
\* whose test or bounds are.
EnclosingLoop ==
  /\ Range(break_stack) = Loops
  /\ \A i, j \in DOMAIN break_stack : i < j => break_stack[i] < break_stack[j]

\* A name declared twice in one chunk, a name used outside the scope of its
\* declarations and a break outside any loop are all reported (the binder
\* "diagnoses identifier use errors", binder.hh).
NoMissedError == fault => alarm

\* The only correct declarations refused are those of a name that hides the
\* index of a for loop directly in its body: the index is declared under the
\* number the next chunk has (ForExp, nb_chunks).
OnlyIndexClashes ==
  [][alarm' /\ ~fault' =>
       \E i \in DOMAIN open :
         open[i].node = "for" /\ open[i].number = nb_chunks]_vars

\* A correct program is accepted: a declaration that only hides one of another
\* scope or another chunk is not reported.
RejectsOnlyErrors == alarm => fault
=============================================================================
