---------------------------- MODULE BinderProofs ----------------------------
(***************************************************************************)
(* Theorems about Binder, for every set of names and programs of any size. *)
(***************************************************************************)
EXTENDS Binder, SequenceLemmas, FiniteSetTheorems

\* What is visited starts with the chunk list of the program; declarations
\* and formals are only visited innermost.
Declaring == {"fun", "type", "formals"}

OpenInv ==
  /\ open # << >>
  /\ open[1].node = "chunks"
  /\ \A i \in DOMAIN open : i < Len(open) => open[i].node \notin Declaring

-----------------------------------------------------------------------------
(* The three ways a step changes what is being visited, by the kinds of    *)
(* the nodes.                                                              *)

Pushed(n) ==
  /\ Len(open') = Len(open) + 1
  /\ \A i \in 1 .. Len(open) : open'[i].node = open[i].node
  /\ open'[Len(open) + 1].node = n

Popped ==
  /\ Len(open') = Len(open) - 1
  /\ \A i \in 1 .. Len(open) - 1 : open'[i] = open[i]

Became(n) ==
  /\ Len(open') = Len(open)
  /\ \A i \in 1 .. Len(open) - 1 : open'[i] = open[i]
  /\ open'[Len(open)].node = n

LEMMA PushShape ==
  ASSUME open \in Seq(Frames), NEW f \in Frames, Push(f)
  PROVE  open' \in Seq(Frames) /\ Pushed(f.node) /\ open'[Len(open')] = f
<1>1. open' = Append(open, f)
  BY DEF Push
<1>2. /\ open' \in Seq(Frames)
      /\ Len(open') = Len(open) + 1
      /\ \A i \in 1 .. Len(open) : open'[i] = open[i]
      /\ open'[Len(open) + 1] = f
  BY <1>1, AppendFacts
<1> QED
  BY <1>2 DEF Pushed

LEMMA PopShape ==
  ASSUME open \in Seq(Frames), open # << >>, Pop
  PROVE  open' \in Seq(Frames) /\ Popped
BY FrontLast DEF Pop, Popped

LEMMA BecomeShape ==
  ASSUME open \in Seq(Frames), open # << >>, NEW f \in Frames, Become(f)
  PROVE  open' \in Seq(Frames) /\ Became(f.node) /\ open'[Len(open')] = f
<1>1. open' = [open EXCEPT ![Len(open)] = f]
  BY DEF Become
<1>2. /\ open' \in Seq(Frames)
      /\ Len(open') = Len(open)
      /\ \A i \in 1 .. Len(open) - 1 : open'[i] = open[i]
      /\ open'[Len(open)] = f
  BY <1>1, ReplaceLast
<1> QED
  BY <1>2 DEF Became

\* The innermost node is the last one.
LEMMA TopFacts ==
  ASSUME open \in Seq(Frames), open # << >>
  PROVE  /\ Len(open) \in Nat \ {0}
         /\ DOMAIN open = 1 .. Len(open)
         /\ Top \in Frames
         /\ Top = open[Len(open)]
BY FrontLast DEF Top

\* The shapes preserve OpenInv.
LEMMA OpenPushed ==
  ASSUME open \in Seq(Frames), open' \in Seq(Frames), OpenInv, NEW n, Pushed(n),
         Top.node \notin Declaring
  PROVE  OpenInv'
<1>1. /\ Len(open) \in Nat \ {0} /\ DOMAIN open = 1 .. Len(open)
      /\ Top = open[Len(open)]
  BY TopFacts DEF OpenInv
<1>2. Len(open') = Len(open) + 1 /\ DOMAIN open' = 1 .. Len(open')
  BY DEF Pushed
<1>3. open'[1].node = "chunks"
  BY <1>1 DEF Pushed, OpenInv
<1>4. open' # << >>
  BY <1>1, <1>2, EmptySeq
<1>5. ASSUME NEW i \in DOMAIN open', i < Len(open')
      PROVE  open'[i].node \notin Declaring
  <2>1. i \in 1 .. Len(open) /\ open'[i].node = open[i].node
    BY <1>1, <1>2, <1>5 DEF Pushed
  <2>2. CASE i = Len(open)
    BY <1>1, <2>1, <2>2
  <2>3. CASE i < Len(open)
    BY <1>1, <2>1, <2>3 DEF OpenInv
  <2> QED
    BY <1>1, <2>1, <2>2, <2>3
<1> QED
  BY <1>3, <1>4, <1>5 DEF OpenInv

LEMMA OpenPopped ==
  ASSUME open \in Seq(Frames), open' \in Seq(Frames), OpenInv, Popped,
         Top.node # "chunks"
  PROVE  OpenInv'
<1>1. /\ Len(open) \in Nat \ {0} /\ DOMAIN open = 1 .. Len(open)
      /\ Top = open[Len(open)]
  BY TopFacts DEF OpenInv
<1>2. Len(open) # 1
  BY <1>1 DEF OpenInv
<1>3. Len(open') = Len(open) - 1 /\ DOMAIN open' = 1 .. Len(open')
  BY DEF Popped
<1>4. open'[1].node = "chunks"
  BY <1>1, <1>2 DEF Popped, OpenInv
<1>5. open' # << >>
  BY <1>1, <1>2, <1>3, EmptySeq
<1>6. ASSUME NEW i \in DOMAIN open', i < Len(open')
      PROVE  open'[i].node \notin Declaring
  BY <1>1, <1>3, <1>6 DEF Popped, OpenInv
<1> QED
  BY <1>4, <1>5, <1>6 DEF OpenInv

LEMMA OpenBecame ==
  ASSUME open \in Seq(Frames), open' \in Seq(Frames), OpenInv, NEW n, Became(n),
         Top.node # "chunks" \/ Len(open) > 1
  PROVE  OpenInv'
<1>1. /\ Len(open) \in Nat \ {0} /\ DOMAIN open = 1 .. Len(open)
      /\ Top = open[Len(open)]
  BY TopFacts DEF OpenInv
<1>2. Len(open) # 1
  BY <1>1 DEF OpenInv
<1>3. Len(open') = Len(open) /\ DOMAIN open' = 1 .. Len(open')
  BY DEF Became
<1>4. open'[1].node = "chunks"
  BY <1>1, <1>2 DEF Became, OpenInv
<1>5. open' # << >>
  BY <1>1, <1>3, EmptySeq
<1>6. ASSUME NEW i \in DOMAIN open', i < Len(open')
      PROVE  open'[i].node \notin Declaring
  BY <1>1, <1>3, <1>6 DEF Became, OpenInv
<1> QED
  BY <1>4, <1>5, <1>6 DEF OpenInv

-----------------------------------------------------------------------------
(* What each step does to the nodes being visited, to break_stack and to   *)
(* the scopes.                                                             *)

Named == {"init", "hi", "lo", "for"}
LoopNode == {"for", "while"}

\* The nodes that have a scope of their own, except for the root.
ScopeNode == {"formals", "body", "in", "lo", "for", "chunks"}

\* A step leaves the scopes, but for one declaration...
Kept ==
  \/ UNCHANGED scopes
  \/ \E s \in Symbol, wrong \in BOOLEAN : Declare(s, wrong) /\ Count

\* ...unless it makes a scope node of another node, or the reverse.
Effect(before, after) ==
  /\ before \notin ScopeNode /\ after \in ScopeNode => ScopeBegin
  /\ before \in ScopeNode /\ after \notin ScopeNode => ScopeEnd
  /\ (before \in ScopeNode <=> after \in ScopeNode) => Kept

LEMMA PlainFrame ==
  ASSUME NEW n \in NodeKind \ Named, NEW seen \in SUBSET Id, NEW k \in Nat
  PROVE  Frame(n, "", seen, k) \in Frames /\ Frame(n, "", seen, k).node = n
BY DEF Frames, Frame, Named

LEMMA NamedFrame ==
  ASSUME NEW n \in Named, NEW x \in Id, NEW k \in Nat
  PROVE  Frame(n, x, {}, k) \in Frames /\ Frame(n, x, {}, k).node = n
BY DEF Frames, Frame, Named

LEMMA PlainType ==
  ASSUME NEW n \in NodeKind \ Named
  PROVE  Plain(n) \in Frames /\ Plain(n).node = n
BY PlainFrame DEF Plain

LEMMA FrameFields ==
  ASSUME NEW f \in Frames
  PROVE  /\ f.node \in NodeKind /\ f.number \in Nat /\ f.seen \in SUBSET Id
         /\ f.node \in Named => f.name \in Id
BY DEF Frames, Named, NodeKind

Shape ==
  \/ UNCHANGED <<open, break_stack, scopes>>
  \/ \E n \in NodeKind \ LoopNode :
       /\ Pushed(n) /\ Top.node \notin Declaring
       /\ Effect("", n) /\ UNCHANGED break_stack
  \/ /\ Popped /\ Top.node \notin LoopNode \union {"chunks"}
     /\ Effect(Top.node, "") /\ UNCHANGED break_stack
  \/ \E n \in NodeKind \ LoopNode :
       /\ Became(n) /\ Top.node \notin LoopNode
       /\ Top.node # "chunks" \/ Len(open) > 1
       /\ n # "chunks"
       /\ Effect(Top.node, n) /\ UNCHANGED break_stack
  \/ \E n \in LoopNode :
       /\ Became(n) /\ Top.node \notin LoopNode \union {"chunks"}
       /\ Effect(Top.node, n) /\ break_stack' = Append(break_stack, Len(open))
  \/ /\ Popped /\ Top.node \in LoopNode
     /\ Effect(Top.node, "") /\ break_stack' = Front(break_stack)

\* A body takes its place above the chunk of its function.
LEMMA BeginBodyShape ==
  ASSUME BinderTypeOK, OpenInv, BeginBody
  PROVE  /\ open' \in Seq(Frames) /\ Pushed("formals")
         /\ open'[Len(open')] = Plain("formals")
<1>1. /\ open \in Seq(Frames) /\ open # << >> /\ Len(open) \in Nat \ {0}
      /\ Top \in Frames /\ Top = open[Len(open)] /\ DOMAIN open = 1 .. Len(open)
  BY TopFacts DEF BinderTypeOK, OpenInv
<1>2. Top.node = "bodies" /\ Top.number > 0
  BY DEF BeginBody
<1> DEFINE less  == [Top EXCEPT !.number = @ - 1]
           chunk == [open EXCEPT ![Len(open)] = less]
<1>3. Top.number - 1 \in Nat
  BY <1>1, <1>2, FrameFields
<1>5. less \in Frames /\ less.node = "bodies"
  BY <1>1, <1>2, <1>3 DEF Frames
<1>7. open' = Append(chunk, Plain("formals"))
  BY <1>1 DEF BeginBody
<1> HIDE DEF less
<1>8. /\ chunk \in Seq(Frames)
      /\ Len(chunk) = Len(open)
      /\ \A i \in 1 .. Len(open) - 1 : chunk[i] = open[i]
      /\ chunk[Len(open)] = less
  BY <1>1, <1>5, ReplaceLast
<1> HIDE DEF chunk
<1>9. \A i \in 1 .. Len(open) : chunk[i].node = open[i].node
  BY <1>1, <1>2, <1>5, <1>8
<1>10. Plain("formals") \in Frames /\ Plain("formals").node = "formals"
  BY PlainType DEF Named, NodeKind
<1>11. /\ open' \in Seq(Frames)
       /\ Len(open') = Len(chunk) + 1
       /\ \A i \in 1 .. Len(chunk) : open'[i] = chunk[i]
       /\ open'[Len(chunk) + 1] = Plain("formals")
  BY <1>7, <1>8, <1>10, AppendFacts
<1> QED
  BY <1>8, <1>9, <1>10, <1>11 DEF Pushed

\* Every other step that changes `open' pushes, pops or replaces one node.
LEMMA StepShape ==
  ASSUME BinderTypeOK, OpenInv, [Next]_vars
  PROVE  open' \in Seq(Frames) /\ Shape
<1>1. /\ open \in Seq(Frames) /\ open # << >>
      /\ Top \in Frames /\ Top.seen \in SUBSET Id /\ Top.number \in Nat
      /\ Top.node \in Named => Top.name \in Id
  BY TopFacts, FrameFields DEF BinderTypeOK, OpenInv
<1> USE DEF Named, NodeKind, LoopNode, Declaring, ScopeNode, Effect
<1>a. \A n \in NodeKind \ Named : Plain(n) \in Frames /\ Plain(n).node = n
  BY PlainType
<1>b. \A n \in Named : \A x \in Id : \A k \in Nat :
        Frame(n, x, {}, k) \in Frames /\ Frame(n, x, {}, k).node = n
  BY NamedFrame
<1>c. \A n \in NodeKind \ Named : \A seen \in SUBSET Id : \A k \in Nat :
        Frame(n, "", seen, k) \in Frames /\ Frame(n, "", seen, k).node = n
  BY PlainFrame
<1>d. UNCHANGED scopes => Kept
  BY DEF Kept
<1>e. ASSUME NEW s \in Symbol, NEW wrong \in BOOLEAN, Declare(s, wrong), Count
      PROVE  Kept
  BY <1>e DEF Kept
<1>2. ASSUME NEW n \in NodeKind \ LoopNode, NEW f \in Frames, f.node = n, Push(f),
             Top.node \notin Declaring, Effect("", n), UNCHANGED break_stack
      PROVE  open' \in Seq(Frames) /\ Shape
  BY <1>1, <1>2, PushShape DEF Shape
<1>3. ASSUME Pop, Top.node \notin LoopNode \union {"chunks"},
             Effect(Top.node, ""), UNCHANGED break_stack
      PROVE  open' \in Seq(Frames) /\ Shape
  BY <1>1, <1>3, PopShape DEF Shape
<1>4. ASSUME NEW f \in Frames, f.node \notin LoopNode, Become(f),
             Top.node \notin LoopNode, Top.node # "chunks" \/ Len(open) > 1,
             f.node # "chunks", Effect(Top.node, f.node), UNCHANGED break_stack
      PROVE  open' \in Seq(Frames) /\ Shape
  BY <1>1, <1>4, BecomeShape, FrameFields DEF Shape
<1>5. ASSUME NEW f \in Frames, f.node \in LoopNode, Become(f),
             Top.node \notin LoopNode \union {"chunks"},
             Effect(Top.node, f.node), break_stack' = Append(break_stack, Len(open))
      PROVE  open' \in Seq(Frames) /\ Shape
  BY <1>1, <1>5, BecomeShape DEF Shape
<1>6. ASSUME Pop, Top.node \in LoopNode, Effect(Top.node, ""),
             break_stack' = Front(break_stack)
      PROVE  open' \in Seq(Frames) /\ Shape
  BY <1>1, <1>6, PopShape DEF Shape
<1>7. ASSUME UNCHANGED <<open, break_stack, scopes>>
      PROVE  open' \in Seq(Frames) /\ Shape
  BY <1>1, <1>7 DEF Shape
<1>8. ASSUME NEW x \in Id, BeginVar(x) PROVE open' \in Seq(Frames) /\ Shape
  <2>1. Frame("init", x, {}, 0) \in Frames /\ Frame("init", x, {}, 0).node = "init"
    BY <1>b
  <2> QED
    BY <1>d, <1>2, <1>8, <2>1 DEF BeginVar, InChunks
<1>9. ASSUME EndVar PROVE open' \in Seq(Frames) /\ Shape
  <2>1. <<"var", Top.name>> \in Symbol
    BY <1>1, <1>9 DEF EndVar, Symbol, Space
  <2>2. Kept
    BY <1>e, <1>9, <2>1 DEF EndVar
  <2> QED
    BY <1>3, <1>9, <2>2 DEF EndVar
<1>10. \A kind \in {"fun", "type"} : BeginChunk(kind) => open' \in Seq(Frames) /\ Shape
  BY <1>d, <1>2, <1>a DEF BeginChunk, InChunks
<1>11. ASSUME NEW kind \in {"fun", "type"}, NEW x \in Id, Header(kind, x)
       PROVE  open' \in Seq(Frames) /\ Shape
  <2> DEFINE f == Frame(kind, "", Top.seen \union {x}, Top.number + 1)
  <2>1. Top.seen \union {x} \in SUBSET Id /\ Top.number + 1 \in Nat
    BY <1>1
  <2>2. f \in Frames /\ f.node = kind
    BY <2>1, <1>c
  <2>3. <<kind, x>> \in Symbol /\ (x \in Top.seen) \in BOOLEAN
    BY DEF Symbol, Space
  <2>4. Kept
    BY <1>e, <1>11, <2>3 DEF Header
  <2> HIDE DEF f
  <2>5. Become(f) /\ Top.node = kind /\ UNCHANGED break_stack
    BY <1>11 DEF Header, f
  <2> QED
    BY <1>4, <2>2, <2>4, <2>5
<1>12. ASSUME EndHeaders PROVE open' \in Seq(Frames) /\ Shape
  <2> DEFINE f == IF Top.node = "fun" THEN Frame("bodies", "", {}, Top.number)
                  ELSE Plain("types")
  <2>1. f \in Frames /\ f.node \in {"bodies", "types"}
    <3>1. {} \in SUBSET Id
      OBVIOUS
    <3> QED
      BY <1>1, <3>1, <1>a, <1>c
  <2>2. Become(f) /\ Top.node \in {"fun", "type"} /\ UNCHANGED break_stack /\ Kept
    BY <1>d, <1>12 DEF EndHeaders
  <2> HIDE DEF f
  <2> QED
    BY <1>4, <2>1, <2>2
<1>13. ASSUME BeginBody PROVE open' \in Seq(Frames) /\ Shape
  <2>1. Top.node = "bodies" /\ UNCHANGED break_stack /\ ScopeBegin
    BY <1>13 DEF BeginBody
  <2> QED
    BY <1>13, <2>1, BeginBodyShape DEF Shape
<1>14. ASSUME NEW x \in Id, Formal(x) PROVE open' \in Seq(Frames) /\ Shape
  <2> DEFINE f == Frame("formals", "", Top.seen \union {x}, 0)
  <2>1. f \in Frames /\ f.node = "formals"
    BY <1>1, <1>c
  <2>2. <<"var", x>> \in Symbol /\ (x \in Top.seen) \in BOOLEAN
    BY DEF Symbol, Space
  <2>3. Kept
    BY <1>e, <1>14, <2>2 DEF Formal, Node
  <2> HIDE DEF f
  <2>4. Become(f) /\ Top.node = "formals" /\ UNCHANGED break_stack
    BY <1>14 DEF Formal, f
  <2> QED
    BY <1>4, <2>1, <2>3, <2>4
<1>15. EndFormals => open' \in Seq(Frames) /\ Shape
  BY <1>d, <1>4, <1>a DEF EndFormals
<1>16. EndBody => open' \in Seq(Frames) /\ Shape
  BY <1>3 DEF EndBody
<1>17. EndChunk => open' \in Seq(Frames) /\ Shape
  BY <1>d, <1>3 DEF EndChunk
<1>18. \A s \in Symbol : Use(s) => open' \in Seq(Frames) /\ Shape
  BY <1>7 DEF Use
<1>19. BeginLet => open' \in Seq(Frames) /\ Shape
  BY <1>2, <1>a DEF BeginLet, InExp
<1>20. LetBody => open' \in Seq(Frames) /\ Shape
  BY <1>d, <1>4, <1>a DEF LetBody, InChunks
<1>21. EndLet => open' \in Seq(Frames) /\ Shape
  BY <1>3 DEF EndLet
<1>22. ASSUME NEW x \in Id, BeginFor(x) PROVE open' \in Seq(Frames) /\ Shape
  <2>1. Frame("hi", x, {}, 0) \in Frames /\ Frame("hi", x, {}, 0).node = "hi"
    BY <1>b
  <2> QED
    BY <1>d, <1>2, <1>22, <2>1 DEF BeginFor, InExp
<1>23. ASSUME LowerBound PROVE open' \in Seq(Frames) /\ Shape
  <2>1. Top.node = "hi" /\ Top.name \in Id /\ Become([Top EXCEPT !.node = "lo"])
    BY <1>1, <1>23 DEF LowerBound
  <2>2. [Top EXCEPT !.node = "lo"] \in Frames /\ [Top EXCEPT !.node = "lo"].node = "lo"
    BY <1>1, <2>1 DEF Frames
  <2> QED
    BY <1>4, <1>23, <2>1, <2>2 DEF LowerBound
<1>24. ASSUME ForBody PROVE open' \in Seq(Frames) /\ Shape
  <2> DEFINE f == Frame("for", Top.name, {}, nb_chunks)
  <2>1. f \in Frames /\ f.node = "for"
    BY <1>1, <1>24, <1>b DEF ForBody, BinderTypeOK
  <2>2. <<"var", Top.name>> \in Symbol
    BY <1>1, <1>24 DEF ForBody, Symbol, Space
  <2>3. Kept
    BY <1>e, <1>24, <2>2 DEF ForBody
  <2> QED
    BY <1>5, <1>24, <2>1, <2>3 DEF ForBody
<1>25. EndFor => open' \in Seq(Frames) /\ Shape
  BY <1>6 DEF EndFor
<1>26. BeginWhile => open' \in Seq(Frames) /\ Shape
  BY <1>d, <1>2, <1>a DEF BeginWhile, InExp
<1>27. WhileBody => open' \in Seq(Frames) /\ Shape
  BY <1>d, <1>5, <1>a DEF WhileBody
<1>28. EndWhile => open' \in Seq(Frames) /\ Shape
  BY <1>d, <1>6 DEF EndWhile
<1>29. Break \/ Ended \/ UNCHANGED vars => open' \in Seq(Frames) /\ Shape
  BY <1>7 DEF Break, Ended, vars, scopes
<1> QED
  BY <1>8, <1>9, <1>10, <1>11, <1>12, <1>13, <1>14, <1>15, <1>16, <1>17, <1>18,
     <1>19, <1>20, <1>21, <1>22, <1>23, <1>24, <1>25, <1>26, <1>27, <1>28, <1>29
     DEF Next, ChunkNext, ExpNext

-----------------------------------------------------------------------------
(* The loops.                                                              *)

LEMMA LoopsType ==
  ASSUME open \in Seq(Frames)
  PROVE  Loops = {i \in 1 .. Len(open) : open[i].node \in LoopNode}
BY DEF Loops, LoopNode

\* Leaving the innermost loop leaves the others.
LEMMA FrontOfLoops ==
  ASSUME open \in Seq(Frames), open # << >>, break_stack \in Seq(Nat),
         EnclosingLoop, Top.node \in LoopNode, break_stack' = Front(break_stack),
         Loops' = Loops \ {Len(open)}
  PROVE  break_stack' \in Seq(Nat) /\ EnclosingLoop'
<1> DEFINE n == Len(open)
           m == Len(break_stack)
<1>1. n \in Loops /\ n \in Nat /\ \A i \in Loops : i \in Nat /\ i <= n
  BY TopFacts, LoopsType
<1>2. PICK j \in DOMAIN break_stack : break_stack[j] = n
  BY <1>1 DEF EnclosingLoop, Range
<1>3. m \in Nat /\ DOMAIN break_stack = 1 .. m
  OBVIOUS
<1>4. /\ \A i \in 1 .. m : break_stack[i] \in Loops
      /\ \A l \in Loops : \E i \in 1 .. m : break_stack[i] = l
      /\ \A i, k \in 1 .. m : i < k => break_stack[i] < break_stack[k]
  BY <1>3 DEF EnclosingLoop, Range
<1>5. break_stack # << >> /\ j \in 1 .. m
  BY <1>2, <1>3
<1>6. /\ break_stack' \in Seq(Nat)
      /\ DOMAIN break_stack' = 1 .. m - 1
      /\ \A i \in 1 .. m - 1 : break_stack'[i] = break_stack[i]
  <2>1. /\ Front(break_stack) \in Seq(Nat)
        /\ Len(Front(break_stack)) = m - 1
        /\ \A i \in 1 .. m - 1 : Front(break_stack)[i] = break_stack[i]
    BY <1>5, FrontLast
  <2>2. DOMAIN Front(break_stack) = 1 .. Len(Front(break_stack))
    BY <2>1
  <2> QED
    BY <2>1, <2>2
<1> HIDE DEF n, m
<1>7. j = m
  <2> SUFFICES ASSUME j < m PROVE FALSE
    BY <1>3, <1>5
  <2>1. m \in 1 .. m
    BY <1>3, <1>5
  <2>2. break_stack[j] < break_stack[m] /\ break_stack[m] \in Loops
    BY <1>4, <1>5, <2>1
  <2>3. n < break_stack[m]
    BY <1>2, <2>2
  <2>4. break_stack[m] \in Nat /\ break_stack[m] <= n
    BY <1>1, <2>2
  <2> QED
    BY <1>1, <2>3, <2>4
<1>8. ASSUME NEW i \in 1 .. m - 1 PROVE break_stack'[i] \in Loops \ {n}
  <2>1. i \in 1 .. m /\ i < m /\ m \in 1 .. m
    BY <1>3
  <2>2. break_stack[i] < break_stack[m] /\ break_stack[i] \in Loops
    BY <1>4, <2>1
  <2>3. break_stack[m] = n
    BY <1>2, <1>7
  <2>4. break_stack[i] < n /\ break_stack[i] \in Nat
    BY <1>1, <2>2, <2>3
  <2>5. break_stack[i] # n
    BY <1>1, <2>4
  <2> QED
    BY <1>6, <2>2, <2>5
<1>9. ASSUME NEW l \in Loops \ {n} PROVE \E i \in 1 .. m - 1 : break_stack'[i] = l
  <2>1. PICK i \in 1 .. m : break_stack[i] = l
    BY <1>4
  <2>2. i # m
    BY <1>2, <1>7, <1>9, <2>1
  <2>3. i \in 1 .. m - 1
    BY <1>3, <2>2
  <2> QED
    BY <1>6, <2>1, <2>3
<1>10. Range(break_stack') = Loops \ {n}
  <2>1. \A i \in DOMAIN break_stack' : break_stack'[i] \in Loops \ {n}
    BY <1>6, <1>8
  <2>2. \A l \in Loops \ {n} : \E i \in DOMAIN break_stack' : break_stack'[i] = l
    BY <1>6, <1>9
  <2>3. Range(break_stack') \subseteq Loops \ {n}
    BY <2>1 DEF Range
  <2>4. Loops \ {n} \subseteq Range(break_stack')
    BY <2>2 DEF Range
  <2> QED
    BY <2>3, <2>4
<1>11. \A i, k \in DOMAIN break_stack' : i < k => break_stack'[i] < break_stack'[k]
  <2>1. \A i \in 1 .. m - 1 : i \in 1 .. m
    BY <1>3
  <2> QED
    BY <1>4, <1>6, <2>1
<1> QED
  BY <1>6, <1>10, <1>11 DEF EnclosingLoop, n

\* Entering a loop adds it at the end.
LEMMA AppendLoop ==
  ASSUME open \in Seq(Frames), open # << >>, break_stack \in Seq(Nat),
         EnclosingLoop, Top.node \notin LoopNode,
         break_stack' = Append(break_stack, Len(open)),
         Loops' = Loops \union {Len(open)}
  PROVE  break_stack' \in Seq(Nat) /\ EnclosingLoop'
<1> DEFINE n == Len(open)
           m == Len(break_stack)
<1>1. n \in Nat /\ \A i \in Loops : i \in Nat /\ i < n
  BY TopFacts, LoopsType
<1>2. m \in Nat /\ DOMAIN break_stack = 1 .. m
  OBVIOUS
<1>3. /\ break_stack' \in Seq(Nat)
      /\ DOMAIN break_stack' = 1 .. m + 1
      /\ \A i \in 1 .. m : break_stack'[i] = break_stack[i]
      /\ break_stack'[m + 1] = n
  BY <1>1, AppendFacts
<1>4. /\ \A i \in 1 .. m : break_stack[i] \in Loops
      /\ \A l \in Loops : \E i \in 1 .. m : break_stack[i] = l
      /\ \A i, k \in 1 .. m : i < k => break_stack[i] < break_stack[k]
  BY <1>2 DEF EnclosingLoop, Range
<1> HIDE DEF n, m
<1>5. \A i \in 1 .. m + 1 : i \in 1 .. m \/ i = m + 1
  BY <1>2
<1>6. Range(break_stack') = Loops \union {n}
  <2>1. \A i \in 1 .. m + 1 : break_stack'[i] \in Loops \union {n}
    BY <1>3, <1>4, <1>5
  <2>2. ASSUME NEW l \in Loops \union {n} PROVE \E i \in 1 .. m + 1 : break_stack'[i] = l
    <3>1. \A i \in 1 .. m : i \in 1 .. m + 1
      BY <1>2
    <3>2. m + 1 \in 1 .. m + 1
      BY <1>2
    <3> QED
      BY <1>3, <1>4, <3>1, <3>2
  <2>3. \A i \in DOMAIN break_stack' : break_stack'[i] \in Loops \union {n}
    BY <1>3, <2>1
  <2>4. \A l \in Loops \union {n} : \E i \in DOMAIN break_stack' : break_stack'[i] = l
    BY <1>3, <2>2
  <2>5. Range(break_stack') \subseteq Loops \union {n}
    BY <2>3 DEF Range
  <2>6. Loops \union {n} \subseteq Range(break_stack')
    BY <2>4 DEF Range
  <2> QED
    BY <2>5, <2>6
<1>7. ASSUME NEW i \in 1 .. m + 1, NEW k \in 1 .. m + 1, i < k
      PROVE  break_stack'[i] < break_stack'[k]
  <2>1. i \in 1 .. m /\ break_stack'[i] = break_stack[i]
    BY <1>2, <1>3, <1>7
  <2>2. CASE k = m + 1
    <3>1. break_stack'[i] \in Loops /\ break_stack'[k] = n
      BY <1>3, <1>4, <2>1, <2>2
    <3> QED
      BY <1>1, <3>1
  <2>3. CASE k \in 1 .. m
    BY <1>3, <1>4, <1>7, <2>1, <2>3
  <2> QED
    BY <1>5, <2>2, <2>3
<1> QED
  BY <1>3, <1>6, <1>7 DEF EnclosingLoop, n

\* Every step keeps break_stack the list of the loops.
LEMMA LoopsNext ==
  ASSUME BinderTypeOK, OpenInv, EnclosingLoop, open' \in Seq(Frames), Shape
  PROVE  OpenInv' /\ break_stack' \in Seq(Nat) /\ EnclosingLoop'
<1>1. /\ open \in Seq(Frames) /\ open # << >> /\ break_stack \in Seq(Nat)
      /\ Len(open) \in Nat \ {0} /\ Top = open[Len(open)]
  BY TopFacts DEF BinderTypeOK, OpenInv
<1>2. /\ Loops = {i \in 1 .. Len(open) : open[i].node \in LoopNode}
      /\ Loops' = {i \in 1 .. Len(open') : open'[i].node \in LoopNode}
  BY <1>1, LoopsType DEF Loops, LoopNode
<1>3. ASSUME Loops' = Loops, UNCHANGED break_stack
      PROVE  break_stack' \in Seq(Nat) /\ EnclosingLoop'
  BY <1>1, <1>3 DEF EnclosingLoop
<1>4. CASE UNCHANGED <<open, break_stack>>
  <2>1. Loops' = Loops /\ OpenInv'
    BY <1>2, <1>4 DEF OpenInv
  <2> QED
    BY <1>3, <1>4, <2>1
<1>5. CASE \E n \in NodeKind \ LoopNode :
             Pushed(n) /\ Top.node \notin Declaring /\ UNCHANGED break_stack
  <2>1. Loops' = Loops
    BY <1>1, <1>2, <1>5 DEF Pushed
  <2>2. OpenInv'
    BY <1>1, <1>5, OpenPushed
  <2> QED
    BY <1>3, <1>5, <2>1, <2>2
<1>6. CASE /\ Popped /\ Top.node \notin LoopNode \union {"chunks"}
           /\ UNCHANGED break_stack
  <2>1. Loops' = Loops
    <3>1. \A i \in 1 .. Len(open) - 1 : i \in Loops' <=> i \in Loops
      BY <1>1, <1>2, <1>6 DEF Popped
    <3>2. Len(open) \notin Loops
      BY <1>1, <1>2, <1>6 DEF Popped
    <3>3. \A i \in Loops \union Loops' : i \in 1 .. Len(open) - 1 \/ i = Len(open)
      BY <1>1, <1>2, <1>6 DEF Popped
    <3>4. Len(open) \notin Loops'
      BY <1>1, <1>2, <1>6 DEF Popped
    <3> QED
      BY <3>1, <3>2, <3>3, <3>4
  <2>2. OpenInv'
    BY <1>1, <1>6, OpenPopped
  <2> QED
    BY <1>3, <1>6, <2>1, <2>2
<1>7. CASE \E n \in NodeKind \ LoopNode :
             /\ Became(n) /\ Top.node \notin LoopNode
             /\ Top.node # "chunks" \/ Len(open) > 1
             /\ UNCHANGED break_stack
  <2>1. Loops' = Loops
    <3>1. \A i \in 1 .. Len(open) - 1 : i \in Loops' <=> i \in Loops
      BY <1>1, <1>2, <1>7 DEF Became
    <3>2. Len(open) \notin Loops /\ Len(open) \notin Loops'
      BY <1>1, <1>2, <1>7 DEF Became
    <3>3. \A i \in Loops \union Loops' : i \in 1 .. Len(open) - 1 \/ i = Len(open)
      BY <1>1, <1>2, <1>7 DEF Became
    <3> QED
      BY <3>1, <3>2, <3>3
  <2>2. OpenInv'
    BY <1>1, <1>7, OpenBecame
  <2> QED
    BY <1>3, <1>7, <2>1, <2>2
<1>8. CASE \E n \in LoopNode :
             /\ Became(n) /\ Top.node \notin LoopNode \union {"chunks"}
             /\ break_stack' = Append(break_stack, Len(open))
  <2>1. Loops' = Loops \union {Len(open)}
    <3>1. \A i \in 1 .. Len(open) - 1 : i \in Loops' <=> i \in Loops
      BY <1>1, <1>2, <1>8 DEF Became
    <3>2. Len(open) \notin Loops /\ Len(open) \in Loops'
      BY <1>1, <1>2, <1>8 DEF Became
    <3>3. \A i \in Loops \union Loops' : i \in 1 .. Len(open) - 1 \/ i = Len(open)
      BY <1>1, <1>2, <1>8 DEF Became
    <3> QED
      BY <3>1, <3>2, <3>3
  <2>2. OpenInv'
    BY <1>1, <1>8, OpenBecame
  <2> QED
    BY <1>1, <1>8, <2>1, <2>2, AppendLoop
<1>9. CASE Popped /\ Top.node \in LoopNode /\ break_stack' = Front(break_stack)
  <2>1. Loops' = Loops \ {Len(open)}
    <3>1. \A i \in 1 .. Len(open) - 1 : i \in Loops' <=> i \in Loops
      BY <1>1, <1>2, <1>9 DEF Popped
    <3>2. Len(open) \in Loops
      BY <1>1, <1>2, <1>9 DEF Popped
    <3>3. \A i \in Loops \union Loops' : i \in 1 .. Len(open) - 1 \/ i = Len(open)
      BY <1>1, <1>2, <1>9 DEF Popped
    <3>4. Len(open) \notin Loops'
      BY <1>1, <1>2, <1>9 DEF Popped
    <3> QED
      BY <3>1, <3>2, <3>3, <3>4
  <2>2. OpenInv'
    BY <1>1, <1>9, OpenPopped DEF LoopNode
  <2> QED
    BY <1>1, <1>9, <2>1, <2>2, FrontOfLoops
<1> QED
  BY <1>4, <1>5, <1>6, <1>7, <1>8, <1>9 DEF Shape

-----------------------------------------------------------------------------
(* The environment.                                                        *)

Env == [Symbol -> Entry]
Own == [Symbol -> Nat]

EnvType == sm \in Seq(Env) /\ own \in Seq(Own) /\ Len(sm) = Len(own)

\* A scope that begins is a copy of the one around it.
LEMMA BeginFacts ==
  ASSUME EnvType, ScopeBegin
  PROVE  /\ EnvType'
         /\ Len(sm') = Len(sm) + 1
         /\ \A k \in 1 .. Len(sm) : sm'[k] = sm[k] /\ own'[k] = own[k]
         /\ own'[Len(sm) + 1] = Nothing
         /\ \A s \in Symbol :
              sm'[Len(sm) + 1][s] = IF Len(sm) = 0 THEN NoEntry ELSE sm[Len(sm)][s]
<1>1. sm \in Seq(Env) /\ own \in Seq(Own) /\ Len(sm) = Len(own) /\ Len(sm) \in Nat
  BY DEF EnvType
<1>2. Nothing \in Own
  BY DEF Nothing, Own, Null
<1>3. /\ own' \in Seq(Own)
      /\ Len(own') = Len(sm) + 1
      /\ \A k \in 1 .. Len(sm) : own'[k] = own[k]
      /\ own'[Len(sm) + 1] = Nothing
  BY <1>1, <1>2, AppendFacts DEF ScopeBegin
<1>4. CASE sm = << >>
  <2> DEFINE blank == [s \in Symbol |-> NoEntry]
  <2>1. sm' = <<blank>>
    BY <1>4 DEF ScopeBegin, Map!ScopeBegin, Map!Empty
  <2>2. blank \in Env
    BY DEF Env, Entry, NoEntry, Null
  <2>3. Len(sm) = 0
    BY <1>4
  <2>4. \A s \in Symbol : blank[s] = NoEntry
    OBVIOUS
  <2> HIDE DEF blank
  <2>5. sm' \in Seq(Env) /\ Len(sm') = 1 /\ sm'[1] = blank
    BY <2>1, <2>2
  <2> QED
    BY <1>3, <2>3, <2>4, <2>5 DEF EnvType
<1>5. CASE sm # << >>
  <2>1. sm' = Append(sm, sm[Len(sm)])
    BY <1>5 DEF ScopeBegin, Map!ScopeBegin, Map!Last
  <2>2. sm[Len(sm)] \in Env /\ Len(sm) # 0
    BY <1>1, <1>5, FrontLast, EmptySeq
  <2>3. /\ sm' \in Seq(Env)
        /\ Len(sm') = Len(sm) + 1
        /\ \A k \in 1 .. Len(sm) : sm'[k] = sm[k]
        /\ sm'[Len(sm) + 1] = sm[Len(sm)]
    BY <1>1, <2>1, <2>2, AppendFacts
  <2> QED
    BY <1>1, <1>3, <2>2, <2>3 DEF EnvType
<1> QED
  BY <1>4, <1>5

\* A scope that ends leaves those around it.
LEMMA EndFacts ==
  ASSUME EnvType, ScopeEnd
  PROVE  /\ EnvType'
         /\ DOMAIN sm' \subseteq DOMAIN sm
         /\ \A k \in DOMAIN sm' : sm'[k] = sm[k] /\ own'[k] = own[k]
         /\ sm # << >> => Len(sm') = Len(sm) - 1
<1>1. sm \in Seq(Env) /\ own \in Seq(Own) /\ Len(sm) = Len(own) /\ Len(sm) \in Nat
  BY DEF EnvType
<1>2. CASE sm = << >>
  <2>1. own = << >>
    BY <1>1, <1>2, EmptySeq
  <2>2. sm' = sm /\ own' = own
    BY <1>2, <2>1, FrontEmpty DEF ScopeEnd, Map!ScopeEnd
  <2> QED
    BY <1>1, <1>2, <2>2 DEF EnvType
<1>3. CASE sm # << >>
  <2>1. own # << >>
    BY <1>1, <1>3, EmptySeq
  <2>2. sm' = Front(sm) /\ own' = Front(own)
    BY <1>3 DEF ScopeEnd, Map!ScopeEnd, Map!Front, Front
  <2>3. /\ sm' \in Seq(Env) /\ Len(sm') = Len(sm) - 1
        /\ \A k \in 1 .. Len(sm) - 1 : sm'[k] = sm[k]
    BY <1>1, <1>3, <2>2, FrontLast
  <2>4. /\ own' \in Seq(Own) /\ Len(own') = Len(own) - 1
        /\ \A k \in 1 .. Len(own) - 1 : own'[k] = own[k]
    BY <1>1, <2>1, <2>2, FrontLast
  <2>5. DOMAIN sm' = 1 .. Len(sm) - 1 /\ DOMAIN sm = 1 .. Len(sm)
    BY <1>1, <2>3
  <2> QED
    BY <1>1, <2>3, <2>4, <2>5 DEF EnvType
<1> QED
  BY <1>2, <1>3

\* An accepted declaration changes its symbol in the innermost scope only.
LEMMA DeclareFacts ==
  ASSUME EnvType, size \in Nat, nb_chunks \in Nat, Count,
         NEW s \in Symbol, NEW wrong, Declare(s, wrong), ~Clashes(s), sm # << >>
  PROVE  /\ EnvType'
         /\ Len(sm') = Len(sm)
         /\ \A k \in 1 .. Len(sm) - 1 : sm'[k] = sm[k] /\ own'[k] = own[k]
         /\ \A t \in Symbol \ {s} : /\ sm'[Len(sm)][t] = sm[Len(sm)][t]
                                   /\ own'[Len(sm)][t] = own[Len(sm)][t]
         /\ sm'[Len(sm)][s] = [def |-> size', chunk |-> nb_chunks]
         /\ own'[Len(sm)][s] = size'
<1> DEFINE e == [def |-> size', chunk |-> nb_chunks]
           m == [sm[Len(sm)] EXCEPT ![s] = e]
           o == [own[Len(own)] EXCEPT ![s] = size']
<1>1. sm \in Seq(Env) /\ own \in Seq(Own) /\ Len(sm) = Len(own) /\ Len(sm) \in Nat
  BY DEF EnvType
<1>2. own # << >>
  BY <1>1, EmptySeq
<1>3. sm[Len(sm)] \in Env /\ own[Len(own)] \in Own
  BY <1>1, <1>2, FrontLast
<1>4. e \in Entry /\ size' \in Nat
  BY DEF Entry, Count
<1>5. sm' = [sm EXCEPT ![Len(sm)] = m] /\ own' = [own EXCEPT ![Len(own)] = o]
  BY DEF Declare, Map!Put
<1>6. m \in Env /\ m[s] = e /\ \A t \in Symbol \ {s} : m[t] = sm[Len(sm)][t]
  <2> HIDE DEF e
  <2> QED
    BY <1>3, <1>4 DEF Env
<1>7. o \in Own /\ o[s] = size' /\ \A t \in Symbol \ {s} : o[t] = own[Len(own)][t]
  BY <1>3, <1>4 DEF Own
<1> HIDE DEF m, o, e
<1>8. /\ sm' \in Seq(Env) /\ Len(sm') = Len(sm)
      /\ \A k \in 1 .. Len(sm) - 1 : sm'[k] = sm[k]
      /\ sm'[Len(sm)] = m
  BY <1>1, <1>5, <1>6, ReplaceLast
<1>9. /\ own' \in Seq(Own) /\ Len(own') = Len(own)
      /\ \A k \in 1 .. Len(own) - 1 : own'[k] = own[k]
      /\ own'[Len(own)] = o
  BY <1>1, <1>2, <1>5, <1>7, ReplaceLast
<1> QED
  BY <1>1, <1>6, <1>7, <1>8, <1>9 DEF EnvType, e

\* What a name means in each open scope, and that it means nothing exactly
\* when nothing of that name was accepted there or around it.
Unbound ==
  \A k \in DOMAIN sm : \A s \in Symbol :
    sm[k][s].def = Null <=> \A j \in 1 .. k : own[j][s] = Null

EnvInv == EnvType /\ LexicalScoping /\ Unbound

LEMMA EnvBegin ==
  ASSUME EnvInv, ScopeBegin
  PROVE  EnvInv'
<1> DEFINE n == Len(sm)
<1>1. /\ EnvType' /\ n \in Nat
      /\ DOMAIN sm = 1 .. n /\ DOMAIN sm' = 1 .. n + 1
      /\ Len(sm') = Len(own')
      /\ \A k \in 1 .. n : sm'[k] = sm[k] /\ own'[k] = own[k]
      /\ \A s \in Symbol : own'[n + 1][s] = Null
      /\ \A s \in Symbol :
           sm'[n + 1][s] = IF n = 0 THEN NoEntry ELSE sm[n][s]
  BY BeginFacts DEF EnvInv, EnvType, Nothing
<1>2. \A k \in 1 .. n : \A s \in Symbol :
        /\ sm[k][s].def = Visible(k, s)
        /\ sm[k][s].def = Null <=> \A j \in 1 .. k : own[j][s] = Null
  BY <1>1 DEF EnvInv, LexicalScoping, Unbound
<1> HIDE DEF n
<1>3. ASSUME NEW k \in 1 .. n + 1, NEW s \in Symbol
      PROVE  /\ sm'[k][s].def = Visible(k, s)'
             /\ sm'[k][s].def = Null <=> \A j \in 1 .. k : own'[j][s] = Null
  <2>1. CASE k \in 1 .. n
    <3>1. \A j \in 1 .. k : j \in 1 .. n /\ own'[j] = own[j]
      BY <1>1, <2>1
    <3>2. k # 1 => k - 1 \in 1 .. n
      BY <1>1, <2>1
    <3>3. sm'[k] = sm[k] /\ own'[k] = own[k] /\ (k # 1 => sm'[k - 1] = sm[k - 1])
      BY <1>1, <2>1, <3>2
    <3> QED
      BY <1>2, <2>1, <3>1, <3>3 DEF Visible
  <2>2. CASE k = n + 1 /\ n = 0
    <3>1. sm'[k][s] = NoEntry /\ own'[k][s] = Null
      BY <1>1, <2>2
    <3>2. NoEntry.def = Null
      BY DEF NoEntry
    <3>3. k = 1 /\ 1 .. k = {1}
      BY <2>2
    <3> QED
      BY <3>1, <3>2, <3>3 DEF Visible
  <2>3. CASE k = n + 1 /\ n # 0
    <3>1. /\ sm'[k][s] = sm[n][s] /\ own'[k][s] = Null
          /\ k # 1 /\ k - 1 = n /\ n \in 1 .. n /\ sm'[n] = sm[n]
      BY <1>1, <2>3
    <3>2. sm'[k][s].def = Visible(k, s)'
      BY <3>1 DEF Visible
    <3>3. \A j \in 1 .. n : own'[j] = own[j]
      BY <1>1
    <3>4. \A j \in 1 .. k : j \in 1 .. n \/ j = k
      BY <1>1, <2>3
    <3>5. \A j \in 1 .. n : j \in 1 .. k
      BY <1>1, <2>3
    <3>6. (\A j \in 1 .. k : own'[j][s] = Null) <=> (\A j \in 1 .. n : own[j][s] = Null)
      BY <3>1, <3>3, <3>4, <3>5
    <3> QED
      BY <1>2, <3>1, <3>2, <3>6
  <2> QED
    BY <1>1, <2>1, <2>2, <2>3
<1> QED
  BY <1>1, <1>3 DEF EnvInv, LexicalScoping, Unbound

LEMMA EnvEnd ==
  ASSUME EnvInv, ScopeEnd
  PROVE  EnvInv'
<1>1. /\ EnvType' /\ Len(sm') = Len(own')
      /\ DOMAIN sm' \subseteq DOMAIN sm
      /\ \A k \in DOMAIN sm' : sm'[k] = sm[k] /\ own'[k] = own[k]
  BY EndFacts DEF EnvInv, EnvType
<1>2. DOMAIN sm' = 1 .. Len(sm') /\ Len(sm') \in Nat
  BY <1>1 DEF EnvType
<1>3. \A k \in DOMAIN sm' : \A j \in 1 .. k : j \in DOMAIN sm'
  BY <1>2
<1>4. \A k \in DOMAIN sm' : k # 1 => k - 1 \in DOMAIN sm'
  BY <1>2
<1>5. ASSUME NEW k \in DOMAIN sm', NEW s \in Symbol
      PROVE  /\ sm'[k][s].def = Visible(k, s)'
             /\ sm'[k][s].def = Null <=> \A j \in 1 .. k : own'[j][s] = Null
  <2>1. sm'[k][s].def = Visible(k, s)'
    BY <1>1, <1>4 DEF EnvInv, LexicalScoping, Visible
  <2> QED
    BY <1>1, <1>3, <2>1 DEF EnvInv, Unbound
<1> QED
  BY <1>1, <1>5 DEF EnvInv, LexicalScoping, Unbound

LEMMA EnvDeclare ==
  ASSUME EnvInv, sm # << >>, size \in Nat, nb_chunks \in Nat, Count,
         NEW s \in Symbol, NEW wrong \in BOOLEAN, Declare(s, wrong)
  PROVE  EnvInv' /\ Len(sm') = Len(sm)
<1> DEFINE n == Len(sm)
<1>1. CASE Clashes(s)
  <2>1. sm' = sm /\ own' = own
    BY <1>1 DEF Declare, scopes
  <2> QED
    BY <2>1 DEF EnvInv, EnvType, LexicalScoping, Visible, Unbound
<1>2. CASE ~Clashes(s)
  <2>1. /\ EnvType' /\ Len(sm') = n
        /\ \A k \in 1 .. n - 1 : sm'[k] = sm[k] /\ own'[k] = own[k]
        /\ \A t \in Symbol \ {s} : sm'[n][t] = sm[n][t] /\ own'[n][t] = own[n][t]
        /\ sm'[n][s] = [def |-> size', chunk |-> nb_chunks]
        /\ own'[n][s] = size'
    BY <1>2, DeclareFacts DEF EnvInv
  <2>2. /\ n \in Nat \ {0} /\ DOMAIN sm = 1 .. n /\ DOMAIN sm' = 1 .. n
        /\ Len(sm') = Len(own')
    BY <2>1, EmptySeq DEF EnvInv, EnvType
  <2>3. size' # Null
    BY DEF Count, Null
  <2>4. \A k \in 1 .. n : \A t \in Symbol :
          /\ sm[k][t].def = Visible(k, t)
          /\ sm[k][t].def = Null <=> \A j \in 1 .. k : own[j][t] = Null
    BY <2>2 DEF EnvInv, LexicalScoping, Unbound
  <2>5. sm'[n][s].def = size'
    BY <2>1
  <2> HIDE DEF n
  <2>6. ASSUME NEW k \in 1 .. n, NEW t \in Symbol
        PROVE  /\ sm'[k][t].def = Visible(k, t)'
               /\ sm'[k][t].def = Null <=> \A j \in 1 .. k : own'[j][t] = Null
    <3>1. k # 1 => k - 1 \in 1 .. n - 1
      BY <2>2
    <3>2. \A j \in 1 .. k : j \in 1 .. n - 1 \/ (j = n /\ k = n)
      BY <2>2
    <3>3. k # 1 => sm'[k - 1] = sm[k - 1]
      BY <2>1, <3>1
    <3>4. CASE t # s \/ k # n
      <4>1. \A j \in 1 .. k : own'[j][t] = own[j][t]
        BY <2>1, <3>2, <3>4
      <4>2. k \in 1 .. k
        BY <2>2
      <4>3. sm'[k][t] = sm[k][t] /\ own'[k][t] = own[k][t]
        BY <2>1, <3>2, <3>4, <4>2
      <4> QED
        BY <2>4, <3>3, <4>1, <4>3 DEF Visible
    <3>5. CASE t = s /\ k = n
      <4>1. k \in 1 .. k
        BY <2>2
      <4> QED
        BY <2>1, <2>3, <2>5, <3>5, <4>1 DEF Visible
    <3> QED
      BY <3>4, <3>5
  <2> QED
    BY <2>1, <2>2, <2>6 DEF EnvInv, LexicalScoping, Unbound, n
<1> QED
  BY <1>1, <1>2

LEMMA EnvNext ==
  ASSUME EnvInv, sm # << >>, size \in Nat, nb_chunks \in Nat,
         NEW before, NEW after, Effect(before, after)
  PROVE  EnvInv' /\ (Kept => Len(sm') = Len(sm))
<1>1. ASSUME UNCHANGED scopes PROVE EnvInv' /\ Len(sm') = Len(sm)
  BY <1>1 DEF scopes, EnvInv, EnvType, LexicalScoping, Visible, Unbound
<1>2. ASSUME Kept PROVE EnvInv' /\ Len(sm') = Len(sm)
  BY <1>1, <1>2, EnvDeclare DEF Kept
<1> QED
  BY <1>2, EnvBegin, EnvEnd DEF Effect

-----------------------------------------------------------------------------
(* The number of scopes.                                                   *)

LEMMA ScopedSet ==
  open \in Seq(Frames) /\ OpenInv =>
    \A i : i \in Scoped <=> i \in 2 .. Len(open) /\ open[i].node \in ScopeNode
<1> SUFFICES ASSUME open \in Seq(Frames), OpenInv, NEW i
             PROVE  i \in Scoped <=> i \in 2 .. Len(open) /\ open[i].node \in ScopeNode
  OBVIOUS
<1>1. Len(open) \in Nat \ {0} /\ DOMAIN open = 1 .. Len(open) /\ open[1].node = "chunks"
  BY TopFacts DEF OpenInv
<1>2. CASE i \notin 1 .. Len(open)
  <2>1. i \notin 2 .. Len(open)
    BY <1>1, <1>2
  <2> QED
    BY <1>1, <1>2, <2>1 DEF Scoped
<1>3. CASE i = 1
  BY <1>1, <1>3 DEF Scoped
<1>4. CASE i \in 1 .. Len(open) /\ i # 1
  BY <1>1, <1>4 DEF Scoped, ScopeNode
<1> QED
  BY <1>2, <1>3, <1>4

LEMMA ScopedFinite ==
  open \in Seq(Frames) => IsFiniteSet(Scoped) /\ Cardinality(Scoped) \in Nat
<1> SUFFICES ASSUME open \in Seq(Frames)
             PROVE  IsFiniteSet(Scoped) /\ Cardinality(Scoped) \in Nat
  OBVIOUS
<1>1. Scoped \subseteq 1 .. Len(open) /\ Len(open) \in Nat
  BY DEF Scoped
<1>2. IsFiniteSet(1 .. Len(open))
  BY <1>1, FS_Interval
<1> QED
  BY <1>1, <1>2, FS_Subset, FS_CardinalityType

\* A scope is opened with a scope node and closed with it.
LEMMA BalanceStep ==
  ASSUME open \in Seq(Frames), open' \in Seq(Frames), EnvType, ScopesBalanced,
         NEW l, NEW before, NEW after, Effect(before, after),
         Kept => Len(sm') = Len(sm),
         before \in ScopeNode <=> l \in Scoped,
         after \in ScopeNode <=> l \in Scoped',
         Scoped' \ {l} = Scoped \ {l}
  PROVE  ScopesBalanced'
<1>1. IsFiniteSet(Scoped) /\ Cardinality(Scoped) \in Nat
  BY ScopedFinite
<1>2. sm # << >> /\ Len(sm) \in Nat
  BY <1>1, EmptySeq DEF EnvType, ScopesBalanced
<1>3. CASE before \in ScopeNode <=> after \in ScopeNode
  <2>1. \A i : i \in Scoped' <=> i \in Scoped
    <3>1. l \in Scoped' <=> l \in Scoped
      BY <1>3
    <3>2. \A i : i # l => (i \in Scoped' <=> i \in Scoped)
      OBVIOUS
    <3> QED
      BY <3>1, <3>2
  <2>2. Scoped' = Scoped
    BY <2>1
  <2> QED
    BY <1>3, <2>2 DEF Effect, ScopesBalanced
<1>4. CASE before \notin ScopeNode /\ after \in ScopeNode
  <2>1. Scoped' = Scoped \union {l} /\ l \notin Scoped
    BY <1>4
  <2>2. Cardinality(Scoped') = Cardinality(Scoped) + 1
    BY <1>1, <2>1, FS_AddElement
  <2>3. Len(sm') = Len(sm) + 1
    BY <1>4, BeginFacts DEF Effect
  <2> QED
    BY <1>1, <1>2, <2>2, <2>3 DEF ScopesBalanced
<1>5. CASE before \in ScopeNode /\ after \notin ScopeNode
  <2>1. Scoped' = Scoped \ {l} /\ l \in Scoped
    BY <1>5
  <2>2. Cardinality(Scoped') = Cardinality(Scoped) - 1
    BY <1>1, <2>1, FS_RemoveElement
  <2>3. Len(sm') = Len(sm) - 1
    BY <1>2, <1>5, EndFacts DEF Effect
  <2> QED
    BY <1>1, <1>2, <2>2, <2>3 DEF ScopesBalanced
<1> QED
  BY <1>3, <1>4, <1>5

\* There always is a scope.
LEMMA ScopesExist ==
  ASSUME open \in Seq(Frames), EnvType, ScopesBalanced
  PROVE  /\ sm # << >> /\ Len(sm) \in Nat \ {0}
         /\ DOMAIN sm = 1 .. Len(sm) /\ DOMAIN own = 1 .. Len(sm)
<1>1. Cardinality(Scoped) \in Nat
  BY ScopedFinite
<1>2. Len(sm) \in Nat \ {0}
  BY <1>1 DEF ScopesBalanced
<1> QED
  BY <1>2, EmptySeq DEF EnvType

LEMMA ScopesNext ==
  ASSUME BinderTypeOK, OpenInv, OpenInv', open' \in Seq(Frames), Shape,
         EnvInv, ScopesBalanced
  PROVE  EnvInv' /\ ScopesBalanced'
<1> DEFINE n == Len(open)
<1>1. /\ open \in Seq(Frames) /\ n \in Nat \ {0} /\ Top = open[n]
      /\ size \in Nat /\ nb_chunks \in Nat /\ EnvType
  BY TopFacts DEF BinderTypeOK, OpenInv, EnvInv
<1>2. /\ \A i : i \in Scoped <=> i \in 2 .. n /\ open[i].node \in ScopeNode
      /\ \A i : i \in Scoped' <=> i \in 2 .. Len(open') /\ open'[i].node \in ScopeNode
  <2>1. \A i : i \in Scoped <=> i \in 2 .. n /\ open[i].node \in ScopeNode
    BY <1>1, ScopedSet
  <2>2. (open \in Seq(Frames) /\ OpenInv =>
           \A i : i \in Scoped <=> i \in 2 .. Len(open) /\ open[i].node \in ScopeNode)'
    BY ScopedSet, PTL
  <2> QED
    BY <2>1, <2>2
<1>3. sm # << >>
  BY <1>1, ScopesExist
<1>4. ASSUME NEW l, NEW before, NEW after, Effect(before, after),
             before \in ScopeNode <=> l \in Scoped,
             after \in ScopeNode <=> l \in Scoped',
             Scoped' \ {l} = Scoped \ {l}
      PROVE  EnvInv' /\ ScopesBalanced'
  <2>1. EnvInv' /\ (Kept => Len(sm') = Len(sm))
    BY <1>1, <1>3, <1>4, EnvNext
  <2> QED
    BY <1>1, <1>4, <2>1, BalanceStep
<1>5. CASE UNCHANGED <<open, break_stack, scopes>>
  <2>1. sm' = sm /\ own' = own /\ open' = open
    BY <1>5 DEF scopes
  <2> QED
    BY <2>1 DEF EnvInv, EnvType, LexicalScoping, Visible, Unbound, ScopesBalanced, Scoped
<1>6. ASSUME NEW a, Pushed(a), Effect("", a) PROVE EnvInv' /\ ScopesBalanced'
  <2>1. /\ Len(open') = n + 1 /\ open'[n + 1].node = a
        /\ \A i \in 1 .. n : open'[i].node = open[i].node
    BY <1>6 DEF Pushed
  <2> HIDE DEF n
  <2>2. "" \notin ScopeNode
    BY DEF ScopeNode
  <2>3. n + 1 \notin Scoped
    BY <1>1, <1>2
  <2>4. a \in ScopeNode <=> n + 1 \in Scoped'
    BY <1>1, <1>2, <2>1
  <2>5. ASSUME NEW i PROVE i \in Scoped' /\ i # n + 1 <=> i \in Scoped
    <3>1. i \in 2 .. n + 1 /\ i # n + 1 <=> i \in 2 .. n
      BY <1>1
    <3>2. i \in 2 .. n => i \in 1 .. n
      BY <1>1
    <3> QED
      BY <1>2, <2>1, <3>1, <3>2
  <2>6. Scoped' \ {n + 1} = Scoped \ {n + 1}
    BY <2>3, <2>5
  <2> QED
    BY <1>4, <1>6, <2>2, <2>3, <2>4, <2>6
<1>7. ASSUME Popped, Effect(Top.node, ""), Top.node # "chunks"
      PROVE  EnvInv' /\ ScopesBalanced'
  <2>1. n # 1
    BY <1>1, <1>7 DEF OpenInv
  <2>2. Len(open') = n - 1 /\ \A i \in 1 .. n - 1 : open'[i] = open[i]
    BY <1>7 DEF Popped
  <2> HIDE DEF n
  <2>3. "" \notin ScopeNode
    BY DEF ScopeNode
  <2>4. n \notin Scoped'
    BY <1>1, <1>2, <2>2
  <2>5. Top.node \in ScopeNode <=> n \in Scoped
    BY <1>1, <1>2, <2>1
  <2>6. ASSUME NEW i PROVE i \in Scoped /\ i # n <=> i \in Scoped'
    <3>1. i \in 2 .. n /\ i # n <=> i \in 2 .. n - 1
      BY <1>1
    <3>2. i \in 2 .. n - 1 => i \in 1 .. n - 1
      BY <1>1
    <3> QED
      BY <1>2, <2>2, <3>1, <3>2
  <2>7. Scoped' \ {n} = Scoped \ {n}
    BY <2>4, <2>6
  <2> QED
    BY <1>4, <1>7, <2>3, <2>4, <2>5, <2>7
<1>8. ASSUME NEW a, Became(a), Effect(Top.node, a), Top.node # "chunks" \/ n > 1
      PROVE  EnvInv' /\ ScopesBalanced'
  <2>1. n # 1
    BY <1>1, <1>8 DEF OpenInv
  <2>2. /\ Len(open') = n /\ open'[n].node = a
        /\ \A i \in 1 .. n - 1 : open'[i] = open[i]
    BY <1>8 DEF Became
  <2> HIDE DEF n
  <2>3. a \in ScopeNode <=> n \in Scoped'
    BY <1>1, <1>2, <2>1, <2>2
  <2>4. Top.node \in ScopeNode <=> n \in Scoped
    BY <1>1, <1>2, <2>1
  <2>5. ASSUME NEW i PROVE i \in Scoped /\ i # n <=> i \in Scoped' /\ i # n
    <3>1. i \in 2 .. n /\ i # n => i \in 1 .. n - 1
      BY <1>1
    <3> QED
      BY <1>2, <2>2, <3>1
  <2>6. Scoped' \ {n} = Scoped \ {n}
    BY <2>5
  <2> QED
    BY <1>4, <1>8, <2>3, <2>4, <2>6
<1> QED
  BY <1>5, <1>6, <1>7, <1>8 DEF Shape, LoopNode

-----------------------------------------------------------------------------
(* What is reported.                                                       *)

\* The names seen in the chunk that is being declared are recognised.
SpaceOf(node) == IF node = "formals" THEN "var" ELSE node

SeenInv ==
  Top.node \in Declaring => \A x \in Top.seen : Clashes(<<SpaceOf(Top.node), x>>)

LEMMA CountersNext ==
  ASSUME BinderTypeOK, [Next]_vars
  PROVE  /\ size' \in Nat /\ nb_chunks' \in Nat /\ error' \in {success, bind}
         /\ alarm' \in BOOLEAN /\ fault' \in BOOLEAN
<1>1. /\ size \in Nat /\ nb_chunks \in Nat /\ error \in {success, bind}
      /\ alarm \in BOOLEAN /\ fault \in BOOLEAN
  BY DEF BinderTypeOK
<1>2. Mark(error, bind) \in {success, bind}
  BY <1>1 DEF Mark, success, bind
<1>3. ASSUME Quiet
      PROVE  error' \in {success, bind} /\ alarm' \in BOOLEAN /\ fault' \in BOOLEAN
  BY <1>1, <1>3 DEF Quiet
<1>4. ASSUME NEW r \in BOOLEAN, NEW w \in BOOLEAN, Report(r, w)
      PROVE  error' \in {success, bind} /\ alarm' \in BOOLEAN /\ fault' \in BOOLEAN
  BY <1>1, <1>2, <1>4 DEF Report
<1>5. ASSUME NEW s, NEW w \in BOOLEAN, Declare(s, w)
      PROVE  error' \in {success, bind} /\ alarm' \in BOOLEAN /\ fault' \in BOOLEAN
  <2>1. Clashes(s) \in BOOLEAN
    BY DEF Clashes
  <2> QED
    BY <1>4, <1>5, <2>1 DEF Declare
<1>6. Count \/ Node \/ UNCHANGED size => size' \in Nat
  BY <1>1 DEF Count, Node
<1>7. nb_chunks' = nb_chunks + 1 \/ UNCHANGED nb_chunks => nb_chunks' \in Nat
  BY <1>1
<1> DEFINE Goal == /\ size' \in Nat /\ nb_chunks' \in Nat /\ error' \in {success, bind}
                   /\ alarm' \in BOOLEAN /\ fault' \in BOOLEAN
<1>8. \A x \in Id : BeginVar(x) \/ BeginFor(x) => Goal
  BY <1>3, <1>6, <1>7 DEF BeginVar, BeginFor
<1>9. ASSUME NEW x \in Id, Formal(x) PROVE Goal
  <2>1. (x \in Top.seen) \in BOOLEAN
    OBVIOUS
  <2> QED
    BY <1>5, <1>6, <1>7, <1>9, <2>1 DEF Formal
<1>10. ASSUME NEW kind, NEW x \in Id, Header(kind, x) PROVE Goal
  <2>1. (x \in Top.seen) \in BOOLEAN
    OBVIOUS
  <2> QED
    BY <1>5, <1>6, <1>7, <1>10, <2>1 DEF Header
<1>11. \A kind : BeginChunk(kind) => Goal
  BY <1>3, <1>6, <1>7 DEF BeginChunk
<1>12. EndVar \/ ForBody => Goal
  BY <1>5, <1>6, <1>7 DEF EndVar, ForBody
<1>13. EndHeaders \/ BeginBody \/ EndFormals \/ EndBody \/ EndChunk => Goal
  BY <1>3, <1>6, <1>7 DEF EndHeaders, BeginBody, EndFormals, EndBody, EndChunk
<1>14. ASSUME NEW s \in Symbol, Use(s) PROVE Goal
  <2>1. Report(Map!Get(sm, s).def = Null, \A k \in DOMAIN own : own[k][s] = Null)
    BY <1>14 DEF Use
  <2>2. (Map!Get(sm, s).def = Null) \in BOOLEAN
        /\ (\A k \in DOMAIN own : own[k][s] = Null) \in BOOLEAN
    OBVIOUS
  <2> QED
    BY <1>4, <1>6, <1>7, <1>14, <2>1, <2>2 DEF Use
<1>15. BeginLet \/ LetBody \/ EndLet \/ LowerBound \/ EndFor => Goal
  BY <1>3, <1>6, <1>7 DEF BeginLet, LetBody, EndLet, LowerBound, EndFor
<1>16. BeginWhile \/ WhileBody \/ EndWhile => Goal
  BY <1>3, <1>6, <1>7 DEF BeginWhile, WhileBody, EndWhile
<1>17. Break => Goal
  BY <1>4, <1>6, <1>7 DEF Break
<1>18. Ended \/ UNCHANGED vars => Goal
  BY <1>1 DEF Ended, vars
<1> HIDE DEF Goal
<1>19. Goal
  BY <1>8, <1>9, <1>10, <1>11, <1>12, <1>13, <1>14, <1>15, <1>16, <1>17, <1>18
     DEF Next, ChunkNext, ExpNext
<1> QED
  BY <1>19 DEF Goal

\* A declaration is recognised by the next one of its chunk, and forgets none.
LEMMA DeclareSeen ==
  ASSUME EnvInv, sm # << >>, size \in Nat, nb_chunks \in Nat, Count,
         NEW s \in Symbol, NEW wrong \in BOOLEAN, Declare(s, wrong),
         UNCHANGED nb_chunks
  PROVE  Clashes(s)' /\ \A t \in Symbol : Clashes(t) => Clashes(t)'
<1>1. CASE Clashes(s)
  <2>1. sm' = sm
    BY <1>1 DEF Declare, scopes
  <2> QED
    BY <1>1, <2>1 DEF Clashes, Map!Get
<1>2. CASE ~Clashes(s)
  <2>1. /\ EnvType' /\ Len(sm') = Len(sm)
        /\ \A t \in Symbol \ {s} : sm'[Len(sm)][t] = sm[Len(sm)][t]
        /\ sm'[Len(sm)][s] = [def |-> size', chunk |-> nb_chunks]
    BY <1>2, DeclareFacts DEF EnvInv
  <2>2. sm' # << >>
    BY <2>1, EmptySeq DEF EnvInv, EnvType
  <2>3. \A t \in Symbol : Map!Get(sm, t) = sm[Len(sm)][t]
    BY DEF Map!Get, Map!Last
  <2>4. \A t \in Symbol : Map!Get(sm, t)' = sm'[Len(sm)][t]
    BY <2>1, <2>2 DEF Map!Get, Map!Last
  <2>5. size' # Null
    BY DEF Count, Null
  <2>6. Clashes(s)'
    BY <2>1, <2>4, <2>5 DEF Clashes
  <2>7. ASSUME NEW t \in Symbol \ {s}, Clashes(t) PROVE Clashes(t)'
    BY <2>1, <2>3, <2>4, <2>7 DEF Clashes
  <2> QED
    BY <2>6, <2>7
<1> QED
  BY <1>1, <1>2

\* Where nothing is being declared, there is nothing to recognise.
LEMMA SeenElsewhere ==
  ASSUME Top'.node \notin Declaring \/ Top'.seen = {}
  PROVE  SeenInv'
BY DEF SeenInv

LEMMA SeenKept ==
  ASSUME SeenInv, UNCHANGED <<open, scopes, nb_chunks>>
  PROVE  SeenInv'
BY DEF SeenInv, Top, Last, Clashes, Map!Get, scopes

\* One more name was declared in the chunk.
LEMMA SeenDeclared ==
  ASSUME BinderTypeOK, OpenInv, EnvInv, ScopesBalanced, SeenInv, Count,
         NEW node \in Declaring, NEW x \in Id, NEW k \in Nat, NEW wrong \in BOOLEAN,
         Top.node = node, Declare(<<SpaceOf(node), x>>, wrong),
         UNCHANGED nb_chunks,
         Become(Frame(node, "", Top.seen \union {x}, k))
  PROVE  SeenInv'
<1> DEFINE f == Frame(node, "", Top.seen \union {x}, k)
<1>1. /\ open \in Seq(Frames) /\ open # << >> /\ Top.seen \in SUBSET Id
      /\ size \in Nat /\ nb_chunks \in Nat
  BY TopFacts, FrameFields DEF BinderTypeOK, OpenInv
<1>2. sm # << >>
  BY <1>1, ScopesExist DEF EnvInv
<1>3. \A y \in Id : <<SpaceOf(node), y>> \in Symbol
  BY DEF SpaceOf, Symbol, Space, Declaring
<1>4. f \in Frames
  BY <1>1, PlainFrame DEF Declaring, NodeKind, Named
<1>5. Top' = f
  <2>1. open' \in Seq(Frames) /\ open'[Len(open')] = f
    BY <1>1, <1>4, BecomeShape
  <2> QED
    BY <2>1 DEF Top, Last
<1>6. f.node = node /\ f.seen = Top.seen \union {x}
  BY DEF Frame
<1>7. /\ Clashes(<<SpaceOf(node), x>>)'
      /\ \A t \in Symbol : Clashes(t) => Clashes(t)'
  <2>1. <<SpaceOf(node), x>> \in Symbol
    BY <1>3
  <2> QED
    BY <1>1, <1>2, <2>1, DeclareSeen
<1>8. ASSUME NEW y \in Top.seen \union {x} PROVE Clashes(<<SpaceOf(node), y>>)'
  <2>1. CASE y = x
    BY <1>7, <2>1
  <2>2. CASE y \in Top.seen
    BY <1>1, <1>3, <1>7, <2>2 DEF SeenInv
  <2> QED
    BY <2>1, <2>2
<1> QED
  BY <1>5, <1>6, <1>8 DEF SeenInv

LEMMA SeenNext ==
  ASSUME BinderTypeOK, OpenInv, EnvInv, ScopesBalanced, SeenInv, [Next]_vars
  PROVE  SeenInv'
<1>1. /\ open \in Seq(Frames) /\ open # << >>
      /\ Len(open) \in Nat \ {0} /\ Top = open[Len(open)] /\ DOMAIN open = 1 .. Len(open)
      /\ Top.seen \in SUBSET Id /\ Top.number \in Nat
      /\ Top.node \in Named => Top.name \in Id
  BY TopFacts, FrameFields DEF BinderTypeOK, OpenInv
<1>2. ASSUME NEW f \in Frames, Push(f), f.node \notin Declaring \/ f.seen = {}
      PROVE  SeenInv'
  <2>1. open' \in Seq(Frames) /\ open'[Len(open')] = f
    BY <1>1, <1>2, PushShape
  <2> QED
    BY <1>2, <2>1, SeenElsewhere DEF Top, Last
<1>3. ASSUME NEW f \in Frames, Become(f), f.node \notin Declaring \/ f.seen = {}
      PROVE  SeenInv'
  <2>1. open' \in Seq(Frames) /\ open'[Len(open')] = f
    BY <1>1, <1>3, BecomeShape
  <2> QED
    BY <1>3, <2>1, SeenElsewhere DEF Top, Last
<1>4. ASSUME Pop, Top.node # "chunks" PROVE SeenInv'
  <2>1. Len(open) # 1
    BY <1>1, <1>4 DEF OpenInv
  <2>2. /\ Len(open') = Len(open) - 1
        /\ \A i \in 1 .. Len(open) - 1 : open'[i] = open[i]
    BY <1>1, <1>4, PopShape DEF Popped
  <2>3. Len(open) - 1 \in 1 .. Len(open) /\ Len(open) - 1 \in 1 .. Len(open) - 1
    BY <1>1, <2>1
  <2>4. open[Len(open) - 1].node \notin Declaring
    BY <1>1, <2>3 DEF OpenInv
  <2>5. Top' = open[Len(open) - 1]
    BY <2>2, <2>3 DEF Top, Last
  <2> QED
    BY <2>4, <2>5, SeenElsewhere
<1>5. ASSUME NEW n \in NodeKind \ Named
      PROVE  Plain(n) \in Frames /\ Plain(n).node = n /\ Plain(n).seen = {}
  BY PlainType DEF Plain, Frame
<1> USE DEF NodeKind, Named, Declaring
<1>6. ASSUME NEW x \in Id, BeginVar(x) PROVE SeenInv'
  <2>1. Frame("init", x, {}, 0) \in Frames /\ Frame("init", x, {}, 0).node = "init"
    BY NamedFrame
  <2> QED
    BY <1>2, <1>6, <2>1 DEF BeginVar
<1>7. EndVar \/ EndBody \/ EndChunk \/ EndLet \/ EndFor \/ EndWhile => SeenInv'
  BY <1>4 DEF EndVar, EndBody, EndChunk, EndLet, EndFor, EndWhile
<1>8. \A kind \in {"fun", "type"} : BeginChunk(kind) => SeenInv'
  BY <1>2, <1>5 DEF BeginChunk
<1>9. ASSUME NEW kind \in {"fun", "type"}, NEW x \in Id, Header(kind, x)
      PROVE  SeenInv'
  <2>1. SpaceOf(kind) = kind /\ kind \in Declaring /\ Top.number + 1 \in Nat
    BY <1>1 DEF SpaceOf
  <2>2. /\ Top.node = kind /\ Count /\ UNCHANGED nb_chunks
        /\ Declare(<<kind, x>>, x \in Top.seen)
        /\ Become(Frame(kind, "", Top.seen \union {x}, Top.number + 1))
    BY <1>9 DEF Header
  <2>3. (x \in Top.seen) \in BOOLEAN
    OBVIOUS
  <2> QED
    BY <2>1, <2>2, <2>3, SeenDeclared
<1>10. ASSUME NEW x \in Id, Formal(x) PROVE SeenInv'
  <2>1. SpaceOf("formals") = "var" /\ "formals" \in Declaring /\ 0 \in Nat
    BY DEF SpaceOf
  <2>2. /\ Top.node = "formals" /\ Count /\ UNCHANGED nb_chunks
        /\ Declare(<<"var", x>>, x \in Top.seen)
        /\ Become(Frame("formals", "", Top.seen \union {x}, 0))
    BY <1>10 DEF Formal, Node
  <2>3. (x \in Top.seen) \in BOOLEAN
    OBVIOUS
  <2> QED
    BY <2>1, <2>2, <2>3, SeenDeclared
<1>11. ASSUME EndHeaders PROVE SeenInv'
  <2> DEFINE f == IF Top.node = "fun" THEN Frame("bodies", "", {}, Top.number)
                  ELSE Plain("types")
  <2>1. f \in Frames /\ f.node \notin Declaring
    <3>1. /\ Frame("bodies", "", {}, Top.number) \in Frames
          /\ Frame("bodies", "", {}, Top.number).node = "bodies"
      BY <1>1, PlainFrame
    <3>2. Plain("types") \in Frames /\ Plain("types").node = "types"
      BY <1>5
    <3> QED
      BY <3>1, <3>2
  <2>2. Become(f)
    BY <1>11 DEF EndHeaders
  <2> HIDE DEF f
  <2> QED
    BY <1>3, <2>1, <2>2
<1>12. ASSUME BeginBody PROVE SeenInv'
  <2>1. Top' = Plain("formals")
    BY <1>12, BeginBodyShape DEF Top, Last
  <2> QED
    BY <1>5, <2>1, SeenElsewhere
<1>13. EndFormals \/ LetBody \/ WhileBody => SeenInv'
  BY <1>3, <1>5 DEF EndFormals, LetBody, WhileBody
<1>14. (\E s \in Symbol : Use(s)) \/ Break \/ Ended \/ UNCHANGED vars => SeenInv'
  BY SeenKept DEF Use, Break, Ended, vars, scopes
<1>15. BeginLet \/ BeginWhile => SeenInv'
  BY <1>2, <1>5 DEF BeginLet, BeginWhile
<1>16. ASSUME NEW x \in Id, BeginFor(x) PROVE SeenInv'
  <2>1. Frame("hi", x, {}, 0) \in Frames /\ Frame("hi", x, {}, 0).node = "hi"
    BY NamedFrame
  <2> QED
    BY <1>2, <1>16, <2>1 DEF BeginFor
<1>17. ASSUME LowerBound PROVE SeenInv'
  <2>1. Top.node = "hi" /\ Top.name \in Id /\ Become([Top EXCEPT !.node = "lo"])
    BY <1>1, <1>17 DEF LowerBound
  <2>2. Top \in Frames
    BY <1>1, TopFacts
  <2>3. [Top EXCEPT !.node = "lo"] \in Frames /\ [Top EXCEPT !.node = "lo"].node = "lo"
    BY <2>1, <2>2 DEF Frames
  <2> QED
    BY <1>3, <2>1, <2>3
<1>18. ASSUME ForBody PROVE SeenInv'
  <2>1. Top.node = "lo" /\ Top.name \in Id /\ nb_chunks \in Nat
    BY <1>1, <1>18 DEF ForBody, BinderTypeOK
  <2> DEFINE f == Frame("for", Top.name, {}, nb_chunks)
  <2>2. f \in Frames /\ f.node = "for"
    BY <2>1, NamedFrame
  <2>3. Become(f)
    BY <1>18 DEF ForBody
  <2> HIDE DEF f
  <2> QED
    BY <1>3, <2>2, <2>3
<1> QED
  BY <1>6, <1>7, <1>8, <1>9, <1>10, <1>11, <1>12, <1>13, <1>14, <1>15, <1>16,
     <1>17, <1>18 DEF Next, ChunkNext, ExpNext

LEMMA ErrorsNext ==
  ASSUME BinderTypeOK, OpenInv, EnvInv, ScopesBalanced, EnclosingLoop, SeenInv,
         NoMissedError, [Next]_vars
  PROVE  NoMissedError'
<1>1. Quiet => NoMissedError'
  BY DEF Quiet, NoMissedError
<1>2. ASSUME NEW s, NEW wrong \in BOOLEAN, Declare(s, wrong), wrong => Clashes(s)
      PROVE  NoMissedError'
  BY <1>2 DEF Declare, Report, NoMissedError
<1>3. ASSUME NEW kind \in {"fun", "type"}, NEW x \in Id, Header(kind, x)
      PROVE  NoMissedError'
  <2>1. Top.node = kind /\ Declare(<<kind, x>>, x \in Top.seen)
    BY <1>3 DEF Header
  <2>2. x \in Top.seen => Clashes(<<kind, x>>)
    BY <2>1 DEF SeenInv, SpaceOf, Declaring
  <2>3. (x \in Top.seen) \in BOOLEAN
    OBVIOUS
  <2> QED
    BY <1>2, <2>1, <2>2, <2>3
<1>4. ASSUME NEW x \in Id, Formal(x) PROVE NoMissedError'
  <2>1. Top.node = "formals" /\ Declare(<<"var", x>>, x \in Top.seen)
    BY <1>4 DEF Formal
  <2>2. x \in Top.seen => Clashes(<<"var", x>>)
    BY <2>1 DEF SeenInv, SpaceOf, Declaring
  <2>3. (x \in Top.seen) \in BOOLEAN
    OBVIOUS
  <2> QED
    BY <1>2, <2>1, <2>2, <2>3
<1>5. EndVar \/ ForBody => NoMissedError'
  BY <1>2 DEF EndVar, ForBody
<1>6. ASSUME NEW s \in Symbol, Use(s) PROVE NoMissedError'
  <2>1. Report(Map!Get(sm, s).def = Null, \A k \in DOMAIN own : own[k][s] = Null)
    BY <1>6 DEF Use
  <2>2. /\ sm # << >> /\ Len(sm) \in Nat /\ DOMAIN sm = 1 .. Len(sm)
        /\ DOMAIN own = 1 .. Len(sm)
    BY ScopesExist DEF EnvInv, BinderTypeOK
  <2>3. Len(sm) \in DOMAIN sm
    BY <2>2, ScopesExist DEF EnvInv, BinderTypeOK
  <2>4. Map!Get(sm, s) = sm[Len(sm)][s]
    BY <2>2 DEF Map!Get, Map!Last
  <2>5. Map!Get(sm, s).def = Null <=> \A k \in 1 .. Len(sm) : own[k][s] = Null
    BY <2>3, <2>4 DEF EnvInv, Unbound
  <2> QED
    BY <2>1, <2>2, <2>5 DEF Report, NoMissedError
<1>7. ASSUME Break PROVE NoMissedError'
  <2>1. Report(break_stack = << >>, Loops = {})
    BY <1>7 DEF Break
  <2>2. break_stack \in Seq(Nat)
    BY DEF BinderTypeOK
  <2>3. Loops = {} => break_stack = << >>
    <3> SUFFICES ASSUME Loops = {}, break_stack # << >> PROVE FALSE
      OBVIOUS
    <3>1. 1 \in DOMAIN break_stack
      BY <2>2, EmptySeq
    <3>2. break_stack[1] \in Range(break_stack)
      BY <3>1 DEF Range
    <3> QED
      BY <3>2 DEF EnclosingLoop
  <2> QED
    BY <2>1, <2>3 DEF Report, NoMissedError
<1>8. Ended \/ UNCHANGED vars => NoMissedError'
  <2>1. Ended \/ UNCHANGED vars => fault' = fault /\ alarm' = alarm
    BY DEF Ended, vars
  <2> QED
    BY <2>1, Zenon DEF NoMissedError
<1>9. \A x \in Id : BeginVar(x) \/ BeginFor(x) => NoMissedError'
  BY <1>1 DEF BeginVar, BeginFor
<1>10. \A kind \in {"fun", "type"} : BeginChunk(kind) => NoMissedError'
  BY <1>1 DEF BeginChunk
<1>11. EndHeaders \/ BeginBody \/ EndFormals \/ EndBody \/ EndChunk => NoMissedError'
  BY <1>1 DEF EndHeaders, BeginBody, EndFormals, EndBody, EndChunk
<1>12. BeginLet \/ LetBody \/ EndLet \/ LowerBound \/ EndFor => NoMissedError'
  BY <1>1 DEF BeginLet, LetBody, EndLet, LowerBound, EndFor
<1>13. BeginWhile \/ WhileBody \/ EndWhile => NoMissedError'
  BY <1>1 DEF BeginWhile, WhileBody, EndWhile
<1> QED
  BY <1>3, <1>4, <1>5, <1>6, <1>7, <1>8, <1>9, <1>10, <1>11, <1>12, <1>13
     DEF Next, ChunkNext, ExpNext

-----------------------------------------------------------------------------
(* The theorems.                                                           *)

\* The inductive invariant.
BinderInv ==
  /\ BinderTypeOK
  /\ OpenInv
  /\ EnvInv
  /\ ScopesBalanced
  /\ EnclosingLoop
  /\ SeenInv
  /\ NoMissedError

LEMMA InvInit == Init => BinderInv
<1> SUFFICES ASSUME Init PROVE BinderInv
  OBVIOUS
<1> DEFINE root  == Plain("chunks")
           blank == [s \in Symbol |-> NoEntry]
<1>1. root \in Frames /\ root.node = "chunks" /\ root.seen = {}
  BY PlainType DEF Plain, Frame, NodeKind, Named
<1>2. blank \in Env /\ Nothing \in Own
  BY DEF Env, Own, Entry, NoEntry, Null, Nothing
<1>3. \A s \in Symbol : blank[s].def = Null /\ Nothing[s] = Null
  BY DEF NoEntry, Nothing
<1>4. /\ sm = <<blank>> /\ own = <<Nothing>> /\ open = <<root>>
      /\ break_stack = << >> /\ nb_chunks \in Nat /\ error \in {success, bind}
      /\ size = 0 /\ alarm = FALSE /\ fault = FALSE
  BY DEF Init, Map!Empty
<1> HIDE DEF root, blank
<1>5. /\ sm \in Seq(Env) /\ Len(sm) = 1 /\ sm[1] = blank /\ DOMAIN sm = {1}
      /\ own \in Seq(Own) /\ Len(own) = 1 /\ own[1] = Nothing /\ DOMAIN own = {1}
      /\ open \in Seq(Frames) /\ Len(open) = 1 /\ open[1] = root /\ DOMAIN open = {1}
  BY <1>1, <1>2, <1>4
<1>6. BinderTypeOK
  <2>1. break_stack \in Seq(Nat)
    BY <1>4
  <2> QED
    BY <1>4, <1>5, <2>1 DEF BinderTypeOK, Env, Own
<1>7. OpenInv
  BY <1>1, <1>4, <1>5 DEF OpenInv
<1>8. EnvInv
  <2>1. 1 .. 1 = {1}
    OBVIOUS
  <2> QED
    BY <1>3, <1>5, <2>1 DEF EnvInv, EnvType, LexicalScoping, Visible, Unbound
<1>9. ScopesBalanced
  <2>1. Scoped = {}
    BY <1>1, <1>5 DEF Scoped
  <2> QED
    BY <1>5, <2>1, FS_EmptySet DEF ScopesBalanced
<1>10. EnclosingLoop
  <2>1. Loops = {}
    BY <1>1, <1>5 DEF Loops
  <2>2. DOMAIN break_stack = {}
    BY <1>4
  <2> QED
    BY <2>1, <2>2 DEF EnclosingLoop, Range
<1>11. SeenInv
  BY <1>1, <1>5 DEF SeenInv, Top, Last, Declaring
<1> QED
  BY <1>4, <1>6, <1>7, <1>8, <1>9, <1>10, <1>11 DEF BinderInv, NoMissedError

LEMMA InvNext == BinderInv /\ [Next]_vars => BinderInv'
<1> SUFFICES ASSUME BinderInv, [Next]_vars PROVE BinderInv'
  OBVIOUS
<1> USE DEF BinderInv
<1>1. open' \in Seq(Frames) /\ Shape
  BY StepShape
<1>2. OpenInv' /\ break_stack' \in Seq(Nat) /\ EnclosingLoop'
  BY <1>1, LoopsNext
<1>3. EnvInv' /\ ScopesBalanced'
  BY <1>1, <1>2, ScopesNext
<1>4. BinderTypeOK'
  BY <1>1, <1>2, <1>3, CountersNext DEF BinderTypeOK, EnvInv, EnvType, Env, Own
<1>5. SeenInv'
  BY SeenNext
<1>6. NoMissedError'
  BY ErrorsNext
<1> QED
  BY <1>2, <1>3, <1>4, <1>5, <1>6

LEMMA Invariance == Spec => []BinderInv
BY InvInit, InvNext, PTL DEF Spec

\* Every member of the binder stays in its type, whatever the program.
THEOREM BinderTypeCorrect == Spec => []BinderTypeOK
BY Invariance, PTL DEF BinderInv

\* The stack of copies is the environment of the program text: a name means
\* the innermost declaration accepted around it.
THEOREM ScopingCorrect == Spec => []LexicalScoping
BY Invariance, PTL DEF BinderInv, EnvInv

\* scope_begin and scope_end are paired in every traversal.
THEOREM ScopingBalanced == Spec => []ScopesBalanced
BY Invariance, PTL DEF BinderInv

\* A break is bound to the innermost loop whose body it is in.
THEOREM BreaksCorrect == Spec => []EnclosingLoop
BY Invariance, PTL DEF BinderInv

\* The binder reports every error of use or of redefinition.
THEOREM ErrorsReported == Spec => []NoMissedError
BY Invariance, PTL DEF BinderInv

-----------------------------------------------------------------------------
(***************************************************************************)
(* Which correct declarations Binder refuses.                              *)
(*                                                                         *)
(* A declaration is refused when its name has one that carries the number  *)
(* nb_chunks has now.  The inductive invariant says where such fresh       *)
(* declarations can come from: the chunk that is being visited, or the     *)
(* index of a loop whose scope is open around.                             *)
(***************************************************************************)
\* The number of the scope of the i-th node visited: 1 for the root.
Level(i) == 1 + Cardinality({j \in Scoped : j <= i})

\* A declaration of scope k may be fresh because of the index of a loop.
FromIndex(k) ==
  \E i \in DOMAIN open :
    open[i].node = "for" /\ open[i].number = nb_chunks /\ Level(i) <= k

\* A declaration of s may be fresh because of the chunk being visited.
FromChunk(s) ==
  \/ Top.node \in {"fun", "type"} /\ s[1] = Top.node /\ s[2] \in Top.seen
  \/ Top.node = "types" /\ s[1] = "type"
  \/ Top.node \in {"bodies", "formals"} /\ s[1] = "fun"
  \/ Top.node = "formals" /\ s[1] = "var" /\ s[2] \in Top.seen

Explained(k, s) == FromIndex(k) \/ FromChunk(s)

Fresh(k, s) == sm[k][s].def # Null /\ sm[k][s].chunk = nb_chunks

IndexInv ==
  \A k \in DOMAIN sm : \A s \in Symbol :
    sm[k][s].chunk <= nb_chunks /\ (Fresh(k, s) => Explained(k, s))

-----------------------------------------------------------------------------
(* The scopes of the loops.                                                *)

\* The loops a step leaves open: all of them, or all but the innermost node.
AllStay ==
  \A i \in 1 .. Len(open) :
    /\ i \in DOMAIN open' /\ open'[i].node = open[i].node
    /\ open[i].node = "for" => open'[i].number = open[i].number
OthersStay ==
  \A i \in 1 .. Len(open) - 1 : i \in DOMAIN open' /\ open'[i] = open[i]

LEMMA LevelType == open \in Seq(Frames) => \A i : Level(i) \in Nat
<1> SUFFICES ASSUME open \in Seq(Frames), NEW i PROVE Level(i) \in Nat
  OBVIOUS
<1>1. IsFiniteSet(Scoped)
  BY ScopedFinite
<1>2. {j \in Scoped : j <= i} \in SUBSET Scoped
  OBVIOUS
<1> QED
  BY <1>1, <1>2, FS_Subset, FS_CardinalityType DEF Level

\* The innermost node is in the innermost scope.
LEMMA LevelTop ==
  open \in Seq(Frames) /\ OpenInv /\ ScopesBalanced => Level(Len(open)) = Len(sm)
<1> SUFFICES ASSUME open \in Seq(Frames), OpenInv, ScopesBalanced
             PROVE  Level(Len(open)) = Len(sm)
  OBVIOUS
<1>1. \A j \in Scoped : j <= Len(open)
  BY ScopedSet, TopFacts DEF OpenInv
<1>2. {j \in Scoped : j <= Len(open)} = Scoped
  BY <1>1
<1> QED
  BY <1>2 DEF Level, ScopesBalanced

LEMMA LevelTopNext ==
  (open \in Seq(Frames) /\ OpenInv /\ ScopesBalanced => Level(Len(open)) = Len(sm))'
BY LevelTop, PTL

LEMMA ScopedSetNext ==
  (open \in Seq(Frames) /\ OpenInv =>
     \A i : i \in Scoped <=> i \in 2 .. Len(open) /\ open[i].node \in ScopeNode)'
BY ScopedSet, PTL

\* The scope of a node is fixed by those below it.
LEMMA LevelStays ==
  ASSUME open \in Seq(Frames), open' \in Seq(Frames), OpenInv, OpenInv',
         NEW m \in Nat, m <= Len(open), m <= Len(open'),
         \A j \in 1 .. m : open'[j].node = open[j].node,
         NEW i \in 1 .. m
  PROVE  Level(i)' = Level(i)
<1>1. \A j : j \in Scoped <=> j \in 2 .. Len(open) /\ open[j].node \in ScopeNode
  BY ScopedSet
<1>2. \A j : j \in Scoped' <=> j \in 2 .. Len(open') /\ open'[j].node \in ScopeNode
  BY ScopedSetNext
<1>3. Len(open) \in Nat /\ Len(open') \in Nat
  OBVIOUS
<1>4. \A j \in 2 .. i : j \in 1 .. m /\ j \in 2 .. Len(open) /\ j \in 2 .. Len(open')
  BY <1>3
<1>5. \A j \in 2 .. Len(open) : j <= i => j \in 2 .. i
  BY <1>3
<1>6. \A j \in 2 .. Len(open') : j <= i => j \in 2 .. i
  BY <1>3
<1>7. {j \in Scoped : j <= i} = {j \in Scoped' : j <= i}
  BY <1>1, <1>2, <1>4, <1>5, <1>6
<1> QED
  BY <1>7 DEF Level

\* An explanation by an index lasts as long as its loop.
LEMMA IndexStays ==
  ASSUME open \in Seq(Frames), open' \in Seq(Frames), OpenInv, OpenInv',
         ScopesBalanced, UNCHANGED nb_chunks, NEW k \in Nat, FromIndex(k),
         \/ AllStay
         \/ OthersStay /\ (Top.node # "for" \/ k < Len(sm))
  PROVE  FromIndex(k)'
<1>1. /\ Len(open) \in Nat \ {0} /\ DOMAIN open = 1 .. Len(open)
      /\ Top = open[Len(open)] /\ DOMAIN open' = 1 .. Len(open') /\ Len(open') \in Nat
  BY TopFacts DEF OpenInv
<1>2. PICK i \in 1 .. Len(open) :
        open[i].node = "for" /\ open[i].number = nb_chunks /\ Level(i) <= k
  BY <1>1 DEF FromIndex
<1>3. CASE AllStay
  <2>1. Len(open) \in DOMAIN open'
    BY <1>1, <1>3 DEF AllStay
  <2>2. Level(i)' = Level(i)
    BY <1>1, <1>3, <2>1, LevelStays DEF AllStay
  <2> QED
    BY <1>2, <1>3, <2>2 DEF AllStay, FromIndex
<1>4. CASE OthersStay /\ (Top.node # "for" \/ k < Len(sm))
  <2>1. i # Len(open)
    <3>1. CASE Top.node # "for"
      BY <1>1, <1>2, <3>1
    <3>2. CASE k < Len(sm)
      <4>1. Level(Len(open)) = Len(sm) /\ Level(i) \in Nat
        BY LevelTop, LevelType
      <4> QED
        BY <1>2, <3>2, <4>1
    <3> QED
      BY <1>4, <3>1, <3>2
  <2>2. i \in 1 .. Len(open) - 1
    <3>1. \A l \in Nat \ {0} : \A j \in 1 .. l : j # l => j \in 1 .. l - 1
      OBVIOUS
    <3> QED
      BY <1>1, <2>1, <3>1
  <2>3. Len(open) - 1 \in DOMAIN open'
    <3>1. Len(open) - 1 \in 1 .. Len(open) - 1
      BY <1>1, <2>2
    <3> QED
      BY <1>4, <3>1 DEF OthersStay
  <2>4. Level(i)' = Level(i)
    <3> DEFINE m == Len(open) - 1
    <3>1. /\ m \in Nat /\ m <= Len(open) /\ m <= Len(open')
          /\ \A j \in 1 .. m : open'[j].node = open[j].node
      BY <1>1, <1>4, <2>3 DEF OthersStay
    <3> HIDE DEF m
    <3>2. i \in 1 .. m
      BY <2>2 DEF m
    <3> QED
      BY <3>1, <3>2, LevelStays
  <2> QED
    BY <1>2, <1>4, <2>2, <2>4 DEF OthersStay, FromIndex
<1> QED
  BY <1>3, <1>4

-----------------------------------------------------------------------------
(* What a step does to the scopes and to the explanations.                 *)

\* Every explanation that held still holds.
StillExplained ==
  \A k \in DOMAIN sm : \A s \in Symbol : Explained(k, s) => Explained(k, s)'

LEMMA IndexKept ==
  ASSUME IndexInv, UNCHANGED <<scopes, nb_chunks>>, StillExplained
  PROVE  IndexInv'
BY DEF IndexInv, Fresh, StillExplained, scopes

\* A new scope has the declarations of the one around it.
LEMMA IndexBegin ==
  ASSUME open' \in Seq(Frames), EnvInv, sm # << >>, IndexInv, ScopeBegin,
         UNCHANGED nb_chunks, StillExplained
  PROVE  IndexInv'
<1>0. PICK n \in Nat : n = Len(sm)
  BY DEF EnvInv, EnvType
<1>1. /\ n \in Nat \ {0} /\ DOMAIN sm = 1 .. n /\ DOMAIN sm' = 1 .. n + 1
      /\ \A k \in 1 .. n : sm'[k] = sm[k]
      /\ \A s \in Symbol : sm'[n + 1][s] = sm[n][s]
  <2>1. n \in Nat \ {0}
    BY <1>0, EmptySeq DEF EnvInv, EnvType
  <2> QED
    BY <1>0, <2>1, BeginFacts DEF EnvInv, EnvType
<1>2. ASSUME NEW k \in 1 .. n, NEW s \in Symbol
      PROVE  sm'[k][s].chunk <= nb_chunks' /\ (Fresh(k, s)' => Explained(k, s)')
  BY <1>1 DEF IndexInv, Fresh, StillExplained
<1>3. ASSUME NEW s \in Symbol
      PROVE  sm'[n + 1][s].chunk <= nb_chunks'
             /\ (Fresh(n + 1, s)' => Explained(n + 1, s)')
  <2>1. n \in 1 .. n /\ sm'[n + 1][s] = sm'[n][s]
    BY <1>1
  <2>2. Fresh(n + 1, s)' => Explained(n, s)'
    BY <1>2, <2>1 DEF Fresh
  <2>3. FromIndex(n)' => FromIndex(n + 1)'
    <3>1. \A i : Level(i)' \in Nat
      <4>1. (open \in Seq(Frames) => \A i : Level(i) \in Nat)'
        BY LevelType, PTL
      <4> QED
        BY <4>1
    <3>2. \A l \in Nat : l <= n => l <= n + 1
      BY <1>1
    <3> QED
      BY <3>1, <3>2 DEF FromIndex
  <2>4. sm'[n + 1][s].chunk <= nb_chunks'
    BY <1>2, <2>1
  <2> QED
    BY <2>2, <2>3, <2>4 DEF Explained
<1> QED
  BY <1>1, <1>2, <1>3 DEF IndexInv

\* Leaving a scope leaves the declarations of those around it.
LEMMA IndexEnd ==
  ASSUME EnvInv, sm # << >>, IndexInv, ScopeEnd, UNCHANGED nb_chunks,
         \A k \in DOMAIN sm : k < Len(sm) =>
           \A s \in Symbol : Explained(k, s) => Explained(k, s)'
  PROVE  IndexInv'
<1>1. /\ Len(sm) \in Nat /\ DOMAIN sm = 1 .. Len(sm) /\ DOMAIN sm' = 1 .. Len(sm')
      /\ Len(sm') = Len(sm) - 1
      /\ \A k \in DOMAIN sm' : sm'[k] = sm[k]
  BY EndFacts DEF EnvInv, EnvType
<1>2. \A k \in DOMAIN sm' : k \in DOMAIN sm /\ k < Len(sm)
  BY <1>1
<1> QED
  BY <1>1, <1>2 DEF IndexInv, Fresh

\* The declarations in force after Declare are those before and one of the
\* present number.
LEMMA DeclaredEntries ==
  ASSUME EnvInv, sm # << >>, size \in Nat, nb_chunks \in Nat, Count,
         NEW s \in Symbol, NEW wrong \in BOOLEAN, Declare(s, wrong)
  PROVE  /\ DOMAIN sm' = DOMAIN sm
         /\ \A k \in DOMAIN sm : \A t \in Symbol :
              \/ sm'[k][t] = sm[k][t]
              \/ k = Len(sm) /\ t = s /\ sm'[k][t].chunk = nb_chunks
<1>1. CASE Clashes(s)
  BY <1>1 DEF Declare, scopes
<1>2. CASE ~Clashes(s)
  <2> DEFINE n == Len(sm)
  <2>1. /\ EnvType' /\ Len(sm') = n
        /\ \A k \in 1 .. n - 1 : sm'[k] = sm[k]
        /\ \A t \in Symbol \ {s} : sm'[n][t] = sm[n][t]
        /\ sm'[n][s] = [def |-> size', chunk |-> nb_chunks]
    BY <1>2, DeclareFacts DEF EnvInv
  <2>2. n \in Nat /\ DOMAIN sm = 1 .. n /\ DOMAIN sm' = 1 .. n
    BY <2>1 DEF EnvInv, EnvType
  <2> HIDE DEF n
  <2>3. \A k \in 1 .. n : k = n \/ k \in 1 .. n - 1
    BY <2>2
  <2>4. sm'[n][s].chunk = nb_chunks
    BY <2>1
  <2>5. ASSUME NEW k \in 1 .. n, NEW t \in Symbol
        PROVE  \/ sm'[k][t] = sm[k][t]
               \/ k = n /\ t = s /\ sm'[k][t].chunk = nb_chunks
    BY <2>1, <2>3, <2>4
  <2> QED
    BY <2>2, <2>5 DEF n
<1> QED
  BY <1>1, <1>2

LEMMA IndexDeclare ==
  ASSUME EnvInv, sm # << >>, size \in Nat, nb_chunks \in Nat, Count, IndexInv,
         NEW s \in Symbol, NEW wrong \in BOOLEAN, Declare(s, wrong),
         UNCHANGED nb_chunks, StillExplained,
         NEW n \in Nat, n = Len(sm), Explained(n, s)'
  PROVE  IndexInv'
<1>1. /\ DOMAIN sm' = DOMAIN sm
      /\ \A k \in DOMAIN sm : \A t \in Symbol :
           \/ sm'[k][t] = sm[k][t]
           \/ k = Len(sm) /\ t = s /\ sm'[k][t].chunk = nb_chunks
  BY DeclaredEntries
<1>2. Len(sm) \in Nat
  BY DEF EnvInv, EnvType
<1>3. ASSUME NEW k \in DOMAIN sm, NEW t \in Symbol
      PROVE  sm'[k][t].chunk <= nb_chunks' /\ (Fresh(k, t)' => Explained(k, t)')
  <2>1. CASE sm'[k][t] = sm[k][t]
    BY <2>1 DEF IndexInv, Fresh, StillExplained
  <2>2. CASE k = Len(sm) /\ t = s /\ sm'[k][t].chunk = nb_chunks
    <3>1. Explained(k, t)'
      BY <2>2
    <3> QED
      BY <2>2, <3>1
  <2> QED
    BY <1>1, <2>1, <2>2
<1> QED
  BY <1>1, <1>3 DEF IndexInv

\* When nb_chunks is counted on, nothing declared before is fresh.
LEMMA IndexCounted ==
  ASSUME EnvInv, sm # << >>, size \in Nat, nb_chunks \in Nat, IndexInv, Kept,
         nb_chunks' = nb_chunks + 1
  PROVE  IndexInv'
<1>1. /\ DOMAIN sm' = DOMAIN sm
      /\ \A k \in DOMAIN sm : \A t \in Symbol :
           sm'[k][t] = sm[k][t] \/ sm'[k][t].chunk = nb_chunks
  <2>1. CASE UNCHANGED scopes
    BY <2>1 DEF scopes
  <2>2. CASE \E s \in Symbol, wrong \in BOOLEAN : Declare(s, wrong) /\ Count
    BY <2>2, DeclaredEntries
  <2> QED
    BY <2>1, <2>2 DEF Kept
<1>2. ASSUME NEW k \in DOMAIN sm, NEW t \in Symbol
      PROVE  sm'[k][t].chunk <= nb_chunks
  <2>1. sm[k][t].chunk <= nb_chunks
    BY DEF IndexInv
  <2> QED
    BY <1>1, <2>1
<1>3. \A k \in DOMAIN sm : \A t \in Symbol : sm[k][t].chunk \in Nat
  BY DEF EnvInv, EnvType, Env, Entry
<1>4. \A k \in DOMAIN sm : \A t \in Symbol : sm'[k][t].chunk \in Nat
  BY <1>1, <1>3
<1>5. \A c \in Nat : c <= nb_chunks => c <= nb_chunks + 1 /\ c # nb_chunks + 1
  OBVIOUS
<1> QED
  BY <1>1, <1>2, <1>4, <1>5 DEF IndexInv, Fresh

-----------------------------------------------------------------------------
(* The steps.                                                              *)

\* Nothing is explained by the chunk where none is visited.
LEMMA NoChunk ==
  ASSUME Top.node \notin {"fun", "type", "types", "bodies", "formals"}, NEW s
  PROVE  ~FromChunk(s)
BY DEF FromChunk

\* The shapes of a step and the loops they leave open.
LEMMA PushStays ==
  ASSUME open \in Seq(Frames), NEW f \in Frames, Push(f)
  PROVE  AllStay /\ open' \in Seq(Frames) /\ open'[Len(open')] = f /\ Top' = f
<1>1. open' = Append(open, f)
  BY DEF Push
<1>2. /\ open' \in Seq(Frames) /\ Len(open) \in Nat
      /\ DOMAIN open' = 1 .. Len(open) + 1 /\ Len(open') = Len(open) + 1
      /\ \A i \in 1 .. Len(open) : open'[i] = open[i]
      /\ open'[Len(open) + 1] = f
  BY <1>1, AppendFacts
<1> QED
  BY <1>2 DEF AllStay, Top, Last

LEMMA BecomeStays ==
  ASSUME open \in Seq(Frames), open # << >>, NEW f \in Frames, Become(f)
  PROVE  OthersStay /\ open' \in Seq(Frames) /\ Len(open') = Len(open)
         /\ open'[Len(open')] = f /\ Top' = f
<1>1. /\ open' \in Seq(Frames) /\ Len(open') = Len(open) /\ Len(open) \in Nat
      /\ \A i \in 1 .. Len(open) - 1 : open'[i] = open[i]
      /\ open'[Len(open')] = f
  BY BecomeShape DEF Became
<1>2. DOMAIN open' = 1 .. Len(open')
  BY <1>1
<1> QED
  BY <1>1, <1>2 DEF OthersStay, Top, Last

LEMMA PopStays ==
  ASSUME open \in Seq(Frames), open # << >>, Pop
  PROVE  OthersStay /\ open' \in Seq(Frames)
<1>1. /\ open' \in Seq(Frames) /\ Len(open') = Len(open) - 1
      /\ \A i \in 1 .. Len(open) - 1 : open'[i] = open[i]
  BY PopShape DEF Popped
<1>2. DOMAIN open' = 1 .. Len(open) - 1
  BY <1>1
<1> QED
  BY <1>1, <1>2 DEF OthersStay

LEMMA BeginBodyStays ==
  ASSUME BinderTypeOK, OpenInv, BeginBody
  PROVE  AllStay /\ Top' = Plain("formals")
<1>1. /\ open \in Seq(Frames) /\ open # << >> /\ Len(open) \in Nat \ {0}
      /\ Top = open[Len(open)] /\ DOMAIN open = 1 .. Len(open)
  BY TopFacts DEF BinderTypeOK, OpenInv
<1>2. /\ open' \in Seq(Frames) /\ Pushed("formals")
      /\ open'[Len(open')] = Plain("formals")
  BY BeginBodyShape
<1> DEFINE chunk == [open EXCEPT ![Len(open)].number = @ - 1]
<1>3. open' = Append(chunk, Plain("formals")) /\ Top.node = "bodies"
  BY DEF BeginBody
<1>4. DOMAIN open' = 1 .. Len(open) + 1
      /\ \A i \in 1 .. Len(open) : open'[i].node = open[i].node
  BY <1>2 DEF Pushed
<1>5. ASSUME NEW i \in 1 .. Len(open), open[i].node = "for"
      PROVE  open'[i].number = open[i].number
  <2>1. i # Len(open)
    BY <1>1, <1>3, <1>5
  <2>2. DOMAIN chunk = 1 .. Len(open) /\ Len(chunk) = Len(open)
        /\ chunk[i] = open[i]
    BY <1>1, <2>1
  <2> HIDE DEF chunk
  <2>3. open'[i] = chunk[i]
    BY <1>3, <2>2
  <2> QED
    BY <2>2, <2>3
<1> QED
  BY <1>1, <1>2, <1>4, <1>5 DEF AllStay, Top, Last

\* A step that leaves the loops, and the chunk visited, explains as before.
LEMMA Explains ==
  ASSUME BinderTypeOK, BinderTypeOK', OpenInv, OpenInv', ScopesBalanced,
         UNCHANGED nb_chunks,
         \A s \in Symbol : FromChunk(s) => FromChunk(s)',
         \/ AllStay
         \/ OthersStay /\ Top.node # "for"
  PROVE  StillExplained
<1>1. open \in Seq(Frames) /\ open' \in Seq(Frames)
      /\ \A k \in DOMAIN sm : k \in Nat
  BY DEF BinderTypeOK
<1>2. \A k \in DOMAIN sm : FromIndex(k) => FromIndex(k)'
  BY <1>1, IndexStays
<1> QED
  BY <1>2 DEF StillExplained, Explained

LEMMA IndexNext ==
  ASSUME BinderInv, BinderInv', IndexInv, [Next]_vars
  PROVE  IndexInv'
<1>1. /\ open \in Seq(Frames) /\ open # << >> /\ open' \in Seq(Frames)
      /\ Len(open) \in Nat \ {0} /\ Top = open[Len(open)] /\ DOMAIN open = 1 .. Len(open)
      /\ Top \in Frames /\ Top.seen \in SUBSET Id /\ Top.number \in Nat
      /\ Top.node \in Named => Top.name \in Id
      /\ nb_chunks \in Nat /\ size \in Nat
      /\ BinderTypeOK /\ BinderTypeOK' /\ OpenInv /\ OpenInv'
      /\ EnvInv /\ ScopesBalanced
  BY TopFacts, FrameFields DEF BinderInv, BinderTypeOK, OpenInv
<1>2. sm # << >> /\ Len(sm) \in Nat
  BY <1>1, ScopesExist DEF EnvInv, EnvType
<1>3. ASSUME UNCHANGED nb_chunks, \A s \in Symbol : FromChunk(s) => FromChunk(s)',
             AllStay \/ (OthersStay /\ Top.node # "for")
      PROVE  StillExplained
  BY <1>1, <1>3, Explains
<1>4. ASSUME UNCHANGED nb_chunks, AllStay \/ (OthersStay /\ Top.node # "for"),
             Top.node \notin {"fun", "type", "types", "bodies", "formals"}
      PROVE  StillExplained
  BY <1>3, <1>4, NoChunk
<1>5. ASSUME NEW n \in NodeKind \ Named
      PROVE  Plain(n) \in Frames /\ Plain(n).node = n /\ Plain(n).seen = {}
  BY PlainType DEF Plain, Frame
<1> USE DEF NodeKind, Named
<1>6. ASSUME NEW x \in Id, BeginVar(x) PROVE IndexInv'
  <2>1. Frame("init", x, {}, 0) \in Frames
    BY NamedFrame
  <2>2. AllStay /\ Top.node = "chunks" /\ UNCHANGED <<scopes, nb_chunks>>
    BY <1>1, <1>6, <2>1, PushStays DEF BeginVar, InChunks
  <2> QED
    BY <1>4, <2>2, IndexKept
<1>7. ASSUME EndVar PROVE IndexInv'
  <2>1. <<"var", Top.name>> \in Symbol
    BY <1>1, <1>7 DEF EndVar, Symbol, Space
  <2>2. Kept /\ nb_chunks' = nb_chunks + 1
    BY <1>7, <2>1 DEF EndVar, Kept
  <2> QED
    BY <1>1, <1>2, <2>2, IndexCounted
<1>8. ASSUME NEW kind \in {"fun", "type"}, BeginChunk(kind) PROVE IndexInv'
  <2>1. Plain(kind) \in Frames
    BY <1>5
  <2>2. AllStay /\ Top.node = "chunks" /\ UNCHANGED <<scopes, nb_chunks>>
    BY <1>1, <1>8, <2>1, PushStays DEF BeginChunk, InChunks
  <2> QED
    BY <1>4, <2>2, IndexKept
<1>9. ASSUME NEW node \in Declaring, NEW x \in Id, NEW number \in Nat,
             NEW wrong \in BOOLEAN, Top.node = node, Count, UNCHANGED nb_chunks,
             Declare(<<SpaceOf(node), x>>, wrong),
             Become(Frame(node, "", Top.seen \union {x}, number))
      PROVE  IndexInv'
  <2> DEFINE f == Frame(node, "", Top.seen \union {x}, number)
  <2>1. f \in Frames
    BY <1>1, PlainFrame DEF Declaring
  <2>2. f.node = node /\ f.seen = Top.seen \union {x}
    BY DEF Frame
  <2>3. OthersStay /\ Top' = f /\ Top.node # "for"
    BY <1>1, <1>9, <2>1, BecomeStays DEF Declaring
  <2> HIDE DEF f
  <2>4. Top'.node = Top.node /\ Top'.seen = Top.seen \union {x}
    BY <1>9, <2>2, <2>3
  <2>5. \A s \in Symbol : FromChunk(s) => FromChunk(s)'
    BY <2>4 DEF FromChunk
  <2>6. StillExplained
    BY <1>3, <1>9, <2>3, <2>5
  <2> DEFINE s == <<SpaceOf(node), x>>
  <2>7. s \in Symbol /\ s[1] = SpaceOf(node) /\ s[2] = x
    BY DEF SpaceOf, Symbol, Space, Declaring
  <2> HIDE DEF s
  <2>8. FromChunk(s)'
    <3>1. x \in Top'.seen /\ Top'.node = node
      BY <1>9, <2>4
    <3>2. s' = s
      BY DEF s, SpaceOf
    <3>3. node \in {"fun", "type"} => SpaceOf(node) = node
      BY DEF SpaceOf
    <3>4. node = "formals" => SpaceOf(node) = "var"
      BY DEF SpaceOf
    <3> QED
      BY <2>7, <3>1, <3>2, <3>3, <3>4 DEF FromChunk, Declaring
  <2>9. PICK n \in Nat : n = Len(sm)
    BY <1>2
  <2>10. Explained(n, s)'
    BY <2>8 DEF Explained
  <2>11. Declare(s, wrong)
    BY <1>9 DEF s
  <2> QED
    BY <1>1, <1>2, <1>9, <2>6, <2>7, <2>9, <2>10, <2>11, IndexDeclare
<1>10. ASSUME NEW kind \in {"fun", "type"}, NEW x \in Id, Header(kind, x)
       PROVE  IndexInv'
  <2>1. SpaceOf(kind) = kind /\ kind \in Declaring /\ Top.number + 1 \in Nat
    BY <1>1 DEF SpaceOf, Declaring
  <2>2. /\ Top.node = kind /\ Count /\ UNCHANGED nb_chunks
        /\ Declare(<<kind, x>>, x \in Top.seen)
        /\ Become(Frame(kind, "", Top.seen \union {x}, Top.number + 1))
    BY <1>10 DEF Header
  <2>3. (x \in Top.seen) \in BOOLEAN
    OBVIOUS
  <2> QED
    BY <1>9, <2>1, <2>2, <2>3
<1>11. ASSUME NEW x \in Id, Formal(x) PROVE IndexInv'
  <2>1. SpaceOf("formals") = "var" /\ "formals" \in Declaring /\ 0 \in Nat
    BY DEF SpaceOf, Declaring
  <2>2. /\ Top.node = "formals" /\ Count /\ UNCHANGED nb_chunks
        /\ Declare(<<"var", x>>, x \in Top.seen)
        /\ Become(Frame("formals", "", Top.seen \union {x}, 0))
    BY <1>11 DEF Formal, Node
  <2>3. (x \in Top.seen) \in BOOLEAN
    OBVIOUS
  <2> QED
    BY <1>9, <2>1, <2>2, <2>3
<1>12. ASSUME EndHeaders PROVE IndexInv'
  <2> DEFINE f == IF Top.node = "fun" THEN Frame("bodies", "", {}, Top.number)
                  ELSE Plain("types")
  <2>1. f \in Frames /\ (Top.node = "fun" => f.node = "bodies")
        /\ (Top.node # "fun" => f.node = "types")
    <3>1. /\ Frame("bodies", "", {}, Top.number) \in Frames
          /\ Frame("bodies", "", {}, Top.number).node = "bodies"
      BY <1>1, PlainFrame
    <3>2. Plain("types") \in Frames /\ Plain("types").node = "types"
      BY <1>5
    <3> QED
      BY <3>1, <3>2
  <2>2. Become(f) /\ Top.node \in {"fun", "type"} /\ UNCHANGED <<scopes, nb_chunks>>
    BY <1>12 DEF EndHeaders
  <2> HIDE DEF f
  <2>3. OthersStay /\ Top' = f
    BY <1>1, <2>1, <2>2, BecomeStays
  <2>4. \A s \in Symbol : FromChunk(s) => FromChunk(s)'
    BY <2>1, <2>2, <2>3 DEF FromChunk
  <2> QED
    BY <1>3, <2>2, <2>3, <2>4, IndexKept
<1>13. ASSUME BeginBody PROVE IndexInv'
  <2>1. AllStay /\ Top' = Plain("formals") /\ Plain("formals").node = "formals"
    BY <1>1, <1>5, <1>13, BeginBodyStays
  <2>2. Top.node = "bodies" /\ ScopeBegin /\ UNCHANGED nb_chunks
    BY <1>13 DEF BeginBody
  <2>3. \A s \in Symbol : FromChunk(s) => FromChunk(s)'
    BY <2>1, <2>2 DEF FromChunk
  <2> QED
    BY <1>1, <1>2, <1>3, <2>1, <2>2, <2>3, IndexBegin
<1>14. EndFormals \/ EndChunk => IndexInv'
  BY <1>1, <1>2, IndexCounted DEF EndFormals, EndChunk, Kept
<1>15. ASSUME EndBody \/ EndLet PROVE IndexInv'
  <2>1. /\ Pop /\ ScopeEnd /\ UNCHANGED nb_chunks
        /\ Top.node \in {"body", "in"}
    BY <1>15 DEF EndBody, EndLet
  <2>2. StillExplained
    BY <1>1, <1>4, <2>1, PopStays
  <2> QED
    BY <1>1, <1>2, <2>1, <2>2, IndexEnd DEF StillExplained
<1>16. ASSUME UNCHANGED <<open, scopes, nb_chunks>> PROVE IndexInv'
  <2>1. AllStay
    BY <1>1, <1>16 DEF AllStay
  <2>2. \A s \in Symbol : FromChunk(s) => FromChunk(s)'
    BY <1>16 DEF FromChunk, Top, Last
  <2> QED
    BY <1>3, <1>16, <2>1, <2>2, IndexKept
<1>17. (\E s \in Symbol : Use(s)) \/ Break \/ Ended \/ UNCHANGED vars => IndexInv'
  BY <1>16 DEF Use, Break, Ended, vars, scopes
<1>18. ASSUME BeginLet PROVE IndexInv'
  <2>1. Plain("chunks") \in Frames
    BY <1>5
  <2>2. /\ AllStay /\ ScopeBegin /\ UNCHANGED nb_chunks
        /\ Top.node \notin {"fun", "type", "types", "bodies", "formals"}
    BY <1>1, <1>18, <2>1, PushStays DEF BeginLet, InExp
  <2> QED
    BY <1>1, <1>2, <1>4, <2>2, IndexBegin
<1>19. ASSUME LetBody \/ WhileBody PROVE IndexInv'
  <2>1. PICK n \in {"in", "while"} : Become(Plain(n))
    BY <1>19 DEF LetBody, WhileBody
  <2>2. OthersStay
    BY <1>1, <1>5, <2>1, BecomeStays
  <2>3. UNCHANGED <<scopes, nb_chunks>> /\ Top.node \in {"chunks", "test"}
    BY <1>19 DEF LetBody, WhileBody, InChunks
  <2> QED
    BY <1>4, <2>2, <2>3, IndexKept
<1>20. ASSUME NEW x \in Id, BeginFor(x) PROVE IndexInv'
  <2>1. Frame("hi", x, {}, 0) \in Frames
    BY NamedFrame
  <2>2. /\ AllStay /\ UNCHANGED <<scopes, nb_chunks>>
        /\ Top.node \notin {"fun", "type", "types", "bodies", "formals"}
    BY <1>1, <1>20, <2>1, PushStays DEF BeginFor, InExp
  <2> QED
    BY <1>4, <2>2, IndexKept
<1>21. ASSUME BeginWhile PROVE IndexInv'
  <2>1. Plain("test") \in Frames
    BY <1>5
  <2>2. /\ AllStay /\ UNCHANGED <<scopes, nb_chunks>>
        /\ Top.node \notin {"fun", "type", "types", "bodies", "formals"}
    BY <1>1, <1>21, <2>1, PushStays DEF BeginWhile, InExp
  <2> QED
    BY <1>4, <2>2, IndexKept
<1>22. ASSUME LowerBound PROVE IndexInv'
  <2>1. Top.node = "hi" /\ Top.name \in Id /\ Become([Top EXCEPT !.node = "lo"])
        /\ ScopeBegin /\ UNCHANGED nb_chunks
    BY <1>1, <1>22 DEF LowerBound
  <2>2. [Top EXCEPT !.node = "lo"] \in Frames
    BY <1>1, <2>1 DEF Frames
  <2>3. OthersStay
    BY <1>1, <2>1, <2>2, BecomeStays
  <2> QED
    BY <1>1, <1>2, <1>4, <2>1, <2>3, IndexBegin
<1>23. ASSUME ForBody PROVE IndexInv'
  <2>1. /\ Top.node = "lo" /\ Top.name \in Id /\ Count /\ UNCHANGED nb_chunks
        /\ Declare(<<"var", Top.name>>, FALSE)
        /\ Become(Frame("for", Top.name, {}, nb_chunks))
    BY <1>1, <1>23 DEF ForBody
  <2> DEFINE f == Frame("for", Top.name, {}, nb_chunks)
  <2>2. f \in Frames /\ f.node = "for" /\ f.number = nb_chunks
    BY <1>1, <2>1, NamedFrame DEF Frame
  <2>3. Become(f)
    BY <2>1
  <2> HIDE DEF f
  <2>4. OthersStay /\ Len(open') = Len(open) /\ open'[Len(open')] = f
    BY <1>1, <2>2, <2>3, BecomeStays
  <2>5. StillExplained
    BY <1>4, <2>1, <2>4
  <2>6. PICK n \in Nat : n = Len(sm)
    BY <1>2
  <2>7. <<"var", Top.name>> \in Symbol
    BY <2>1 DEF Symbol, Space
  <2>8. Len(sm') = Len(sm)
    BY <1>1, <1>2, <2>1, <2>7, EnvDeclare
  <2>9. Level(Len(open))' = n
    BY <2>6, <2>8, LevelTopNext DEF BinderInv, BinderTypeOK
  <2>10. FromIndex(n)'
    <3>1. Len(open') \in DOMAIN open'
      BY <1>1, <2>4
    <3> QED
      BY <2>1, <2>2, <2>4, <2>9, <3>1 DEF FromIndex
  <2>11. PICK s \in Symbol : s = <<"var", Top.name>>
    BY <2>7
  <2>12. Explained(n, s)' /\ Declare(s, FALSE)
    BY <2>1, <2>10, <2>11 DEF Explained
  <2> QED
    BY <1>1, <1>2, <2>1, <2>5, <2>6, <2>12, IndexDeclare
<1>24. ASSUME EndFor PROVE IndexInv'
  <2>1. Top.node = "for" /\ Pop /\ ScopeEnd /\ UNCHANGED nb_chunks
    BY <1>24 DEF EndFor
  <2>2. OthersStay
    BY <1>1, <2>1, PopStays
  <2>3. ASSUME NEW k \in DOMAIN sm, k < Len(sm), NEW s \in Symbol, Explained(k, s)
        PROVE  Explained(k, s)'
    <3>1. k \in Nat
      BY <1>1 DEF BinderTypeOK
    <3>2. FromIndex(k)
      BY <2>1, <2>3, NoChunk DEF Explained
    <3> QED
      BY <1>1, <2>1, <2>2, <2>3, <3>1, <3>2, IndexStays DEF Explained
  <2> QED
    BY <1>1, <1>2, <2>1, <2>3, IndexEnd
<1>25. ASSUME EndWhile PROVE IndexInv'
  <2>1. Top.node = "while" /\ Pop /\ UNCHANGED <<scopes, nb_chunks>>
    BY <1>25 DEF EndWhile
  <2> QED
    BY <1>1, <1>4, <2>1, PopStays, IndexKept
<1> QED
  BY <1>6, <1>7, <1>8, <1>10, <1>11, <1>12, <1>13, <1>14, <1>15, <1>17, <1>18,
     <1>19, <1>20, <1>21, <1>22, <1>23, <1>24, <1>25 DEF Next, ChunkNext, ExpNext

LEMMA IndexInit == Init => IndexInv
<1> SUFFICES ASSUME Init PROVE IndexInv
  OBVIOUS
<1> DEFINE blank == [s \in Symbol |-> NoEntry]
<1>1. \A s \in Symbol : blank[s].def = Null /\ blank[s].chunk = 0
  BY DEF NoEntry
<1>2. sm = <<blank>> /\ nb_chunks \in Nat
  BY DEF Init, Map!Empty
<1> HIDE DEF blank
<1>3. DOMAIN sm = {1} /\ sm[1] = blank
  BY <1>2
<1> QED
  BY <1>1, <1>2, <1>3 DEF IndexInv, Fresh

-----------------------------------------------------------------------------
(* The theorem.                                                            *)

\* Whatever the program, a correct declaration is only refused under the index
\* of a for loop that is open around it, declared under the present number.
THEOREM RefusalsExplained == Spec => OnlyIndexClashes
<1> DEFINE Excused == \E i \in DOMAIN open :
                        open[i].node = "for" /\ open[i].number = nb_chunks
<1>1. BinderInv /\ BinderInv' /\ IndexInv /\ [Next]_vars => IndexInv'
  BY IndexNext
<1>2. BinderInv /\ BinderInv' /\ IndexInv /\ [Next]_vars
        => (alarm' /\ ~fault' => Excused) \/ UNCHANGED vars
  <2> SUFFICES ASSUME BinderInv, BinderInv', IndexInv, Next, alarm', ~fault'
               PROVE  Excused \/ UNCHANGED vars
    BY DEF vars
  <2>1. /\ sm # << >> /\ Len(sm) \in DOMAIN sm /\ Top = open[Len(open)]
        /\ EnvInv /\ ScopesBalanced /\ Top \in Frames
    <3>1. /\ open \in Seq(Frames) /\ open # << >> /\ EnvInv /\ ScopesBalanced
          /\ EnvType /\ sm # << >>
      BY ScopesExist DEF BinderInv, BinderTypeOK, OpenInv, EnvInv
    <3>2. sm \in Seq(Env) /\ Len(sm) \in Nat \ {0} /\ DOMAIN sm = 1 .. Len(sm)
      BY <3>1, EmptySeq DEF EnvType
    <3> QED
      BY <3>1, <3>2, TopFacts
  <2>2. ~Quiet
    BY DEF Quiet
  <2>3. ASSUME NEW s \in Symbol, NEW wrong, Declare(s, wrong), FromChunk(s) => wrong
        PROVE  Excused
    <3>1. Clashes(s) /\ ~wrong
      BY <2>3 DEF Declare, Report
    <3>2. Fresh(Len(sm), s)
      BY <2>1, <3>1 DEF Clashes, Fresh, Map!Get, Map!Last
    <3>3. FromIndex(Len(sm))
      BY <2>1, <2>3, <3>1, <3>2 DEF IndexInv, Explained
    <3> QED
      BY <3>3 DEF FromIndex
  <2>4. ASSUME NEW kind \in {"fun", "type"}, NEW x \in Id, Header(kind, x)
        PROVE  Excused
    <3> DEFINE s == <<kind, x>>
    <3>1. Top.node = kind /\ Declare(s, x \in Top.seen)
      BY <2>4 DEF Header
    <3>2. s \in Symbol /\ s[1] = kind /\ s[2] = x
      BY DEF Symbol, Space
    <3> HIDE DEF s
    <3>3. FromChunk(s) => x \in Top.seen
      BY <3>1, <3>2 DEF FromChunk
    <3> QED
      BY <2>3, <3>1, <3>2, <3>3
  <2>5. ASSUME NEW x \in Id, Formal(x) PROVE Excused
    <3> DEFINE s == <<"var", x>>
    <3>1. Top.node = "formals" /\ Declare(s, x \in Top.seen)
      BY <2>5 DEF Formal
    <3>2. s \in Symbol /\ s[1] = "var" /\ s[2] = x
      BY DEF Symbol, Space
    <3> HIDE DEF s
    <3>3. FromChunk(s) => x \in Top.seen
      BY <3>1, <3>2 DEF FromChunk
    <3> QED
      BY <2>3, <3>1, <3>2, <3>3
  <2>6. ASSUME EndVar \/ ForBody PROVE Excused
    <3>1. Top.node \in {"init", "lo"} /\ Declare(<<"var", Top.name>>, FALSE)
      BY <2>6 DEF EndVar, ForBody
    <3>2. <<"var", Top.name>> \in Symbol
      BY <2>1, <3>1, FrameFields DEF Symbol, Space, Named
    <3>3. ~FromChunk(<<"var", Top.name>>)
      BY <3>1, NoChunk
    <3> QED
      BY <2>3, <3>1, <3>2, <3>3
  <2>7. ASSUME NEW s \in Symbol, Use(s) PROVE FALSE
    <3>1. /\ Map!Get(sm, s).def = Null
          /\ ~ \A k \in DOMAIN own : own[k][s] = Null
      BY <2>7 DEF Use, Report
    <3>2. DOMAIN own = 1 .. Len(sm)
      BY <2>1 DEF EnvInv, EnvType
    <3>3. Map!Get(sm, s) = sm[Len(sm)][s]
      BY <2>1 DEF Map!Get, Map!Last
    <3> QED
      BY <2>1, <3>1, <3>2, <3>3 DEF EnvInv, Unbound
  <2>8. ASSUME Break PROVE FALSE
    <3>1. break_stack = << >> /\ Loops # {}
      BY <2>8 DEF Break, Report
    <3> QED
      BY <3>1 DEF BinderInv, EnclosingLoop, Range
  <2>9. Ended => UNCHANGED vars
    BY DEF Ended
  <2>10. \A x \in Id : ~BeginVar(x) /\ ~BeginFor(x)
    BY <2>2 DEF BeginVar, BeginFor
  <2>11. \A kind \in {"fun", "type"} : ~BeginChunk(kind)
    BY <2>2 DEF BeginChunk
  <2>12. ~EndHeaders /\ ~BeginBody /\ ~EndFormals /\ ~EndBody /\ ~EndChunk
    BY <2>2 DEF EndHeaders, BeginBody, EndFormals, EndBody, EndChunk
  <2>13. ~BeginLet /\ ~LetBody /\ ~EndLet /\ ~LowerBound /\ ~EndFor
    BY <2>2 DEF BeginLet, LetBody, EndLet, LowerBound, EndFor
  <2>14. ~BeginWhile /\ ~WhileBody /\ ~EndWhile
    BY <2>2 DEF BeginWhile, WhileBody, EndWhile
  <2> HIDE DEF Excused
  <2> QED
    BY <2>4, <2>5, <2>6, <2>7, <2>8, <2>9, <2>10, <2>11, <2>12, <2>13, <2>14
       DEF Next, ChunkNext, ExpNext
<1> QED
  BY <1>1, <1>2, Invariance, IndexInit, PTL DEF OnlyIndexClashes, Spec
=============================================================================
