----------------------------- MODULE ScannerProofs -----------------------------
(***************************************************************************)
(* What can be put in a comment, for texts of any length made of any       *)
(* lexemes, what is read of a string that was printed, for strings of any  *)
(* bytes and any length, and what the parser reads of any Tweasts.         *)
(***************************************************************************)
EXTENDS Literals, Comments, Tweasts, SequenceLemmas

\* The scanner keeps to its type whatever it reads, is in a comment only when
\* it is one comment deep at least, and forgets no error.  It holds a "*" in a
\* comment only, nothing in a string, and elsewhere what was read last.
LEMMA EmitFacts ==
  ASSUME NEW l \in Lexer, NEW c \in TokenClass, NEW t \in TokenText
  PROVE  /\ Emit(l, c, t) \in Lexer
         /\ Emit(l, c, t).condition = l.condition /\ Emit(l, c, t).held = l.held
         /\ Emit(l, c, t).errors = l.errors
<1>1. l.tokens \in Seq(Token)
  BY DEF Lexer
<1>2. << c, t >> \in Token
  BY DEF Token
<1>3. Append(l.tokens, << c, t >>) \in Seq(Token)
  BY <1>1, <1>2
<1> HIDE DEF Token
<1> QED
  BY <1>3 DEF Emit, Lexer

LEMMA ErrorFacts ==
  ASSUME NEW l \in Lexer
  PROVE  /\ Error(l) \in Lexer
         /\ Error(l).condition = l.condition /\ Error(l).held = l.held
         /\ Error(l).errors = l.errors + 1 /\ l.errors \in Nat
BY DEF Error, Lexer

LEMMA ReleasedFacts ==
  ASSUME NEW l \in Lexer, l.condition = "INITIAL", l.held # "star"
  PROVE  /\ Released(l) \in Lexer
         /\ Released(l).condition = "INITIAL" /\ Released(l).held = "none"
         /\ Released(l).errors = l.errors
<1>1. CASE l.held = "slash"
  <2>1. /\ Letting(l) \in Lexer /\ Letting(l).condition = "INITIAL"
        /\ Letting(l).held = "none" /\ Letting(l).errors = l.errors
    BY DEF Letting, Lexer
  <2>2. Released(l) = Emit(Letting(l), "keyword", "/")
    BY <1>1 DEF Released
  <2>3. "keyword" \in TokenClass
    BY DEF TokenClass
  <2>4. "/" \in TokenText
    BY DEF TokenText
  <2> QED
    BY <2>1, <2>2, <2>3, <2>4, EmitFacts
<1>2. CASE l.held = "none"
  <2>1. Released(l) = l
    BY <1>2 DEF Released
  <2> QED
    BY <1>2, <2>1
<1>3. l.held \in {"none", "star", "slash"}
  BY DEF Lexer
<1> QED
  BY <1>1, <1>2, <1>3

\* What one match outside comments and strings leads to.
LEMMA OneMatchFacts ==
  ASSUME NEW l \in Lexer, l.condition = "INITIAL", l.held = "none", NEW m \in Lexemes
  PROVE  LET r == OneMatch(l, m, Extensions, Extensions) IN
         /\ r \in Lexer /\ r.errors \in Nat /\ l.errors \in Nat /\ r.errors >= l.errors
         /\ r.condition = IF m.class = "quote" THEN "SC_STRING" ELSE "INITIAL"
         /\ r.held = IF m.class = "slash" THEN "slash" ELSE "none"
<1> DEFINE r == OneMatch(l, m, Extensions, Extensions)
<1>1. m.class \in STRING /\ m.text \in TokenText /\ m.num \in Nat /\ l.errors \in Nat
  BY CommentsAssumption DEF Lexer, TokenText
<1> DEFINE Fine(x) == /\ x \in Lexer /\ x.errors \in Nat /\ x.errors >= l.errors
                      /\ x.condition = "INITIAL" /\ x.held = "none"
<1>2. Fine(l)
  BY <1>1
<1>3. Fine(Error(l))
  BY <1>1, ErrorFacts
<1>4. ASSUME NEW x, Fine(x), NEW c \in TokenClass PROVE Fine(Emit(x, c, m.text))
  BY <1>1, <1>4, EmitFacts
<1> HIDE DEF Fine
<1>5. CASE m.class = "int"
  <2>1. PICK x \in {l, Error(l)} : r = Emit(x, "INT", m.text)
    BY <1>5 DEF OneMatch
  <2>2. Fine(r)
    BY <1>2, <1>3, <1>4, <2>1 DEF TokenClass
  <2> QED
    BY <1>1, <1>5, <2>2 DEF Fine
<1>6. CASE m.class \in {"keyword", "metavar", "id", "star"}
  <2>1. r = Emit(l, IF m.class = "star" THEN "keyword" ELSE m.class, m.text)
    BY <1>6 DEF OneMatch
  <2>2. Fine(r)
    BY <1>2, <1>4, <1>6, <2>1 DEF TokenClass
  <2> QED
    BY <1>1, <1>6, <2>2 DEF Fine
<1>7. CASE m.class \in {"rid", "object"}
  <2>1. PICK c \in TokenClass : r \in {Emit(l, c, m.text), Error(l)}
    BY <1>7 DEF OneMatch, TokenClass
  <2>2. Fine(r)
    BY <1>2, <1>3, <1>4, <2>1
  <2> QED
    BY <1>1, <1>7, <2>2 DEF Fine
<1>8. CASE m.class = "quote"
  <2> DEFINE x == [l EXCEPT !.grown_string = << >>]
  <2>1. << >> \in Seq(STRING)
    OBVIOUS
  <2>2. x \in Lexer /\ x.errors = l.errors /\ x.held = "none"
    BY <2>1 DEF Lexer
  <2>3. r = Begin(x, "SC_STRING")
    BY <1>8 DEF OneMatch
  <2> HIDE DEF x
  <2>4. r \in Lexer /\ r.errors = l.errors /\ r.condition = "SC_STRING" /\ r.held = "none"
    BY <2>2, <2>3 DEF Begin, Lexer
  <2> QED
    BY <1>1, <1>8, <2>4
<1>9. CASE m.class = "slash"
  <2>1. r = [l EXCEPT !.held = "slash"]
    BY <1>9 DEF OneMatch
  <2>2. r \in Lexer /\ r.errors = l.errors /\ r.condition = "INITIAL" /\ r.held = "slash"
    BY <2>1 DEF Lexer
  <2> QED
    BY <1>1, <1>9, <2>2
<1>10. CASE m.class \in {"space", "endofline"}
  <2>1. r = l
    BY <1>10 DEF OneMatch
  <2> QED
    BY <1>1, <1>10, <2>1
<1>11. CASE m.class \notin {"int", "keyword", "metavar", "id", "rid", "object", "quote", "star",
                            "slash", "space", "endofline"}
  <2>1. r = Error(l)
    BY <1>11 DEF OneMatch
  <2> QED
    BY <1>1, <1>3, <1>11, <2>1 DEF Fine
<1> QED
  BY <1>5, <1>6, <1>7, <1>8, <1>9, <1>10, <1>11

\* What one character leads to in a comment.
LEMMA InCommentFacts ==
  ASSUME NEW l \in Lexer, l.nested > 0, l.condition = "SC_COMMENT", NEW m
  PROVE  LET r == InComment(l, m)
             opened == l.held = "slash" /\ m.class = "star"
             closes == l.held = "star" /\ m.class = "slash" IN
         /\ r \in Lexer /\ r.errors = l.errors
         /\ r.condition = IF closes /\ l.nested = 1 THEN "INITIAL" ELSE "SC_COMMENT"
         /\ r.nested = l.nested + (IF opened THEN 1 ELSE 0) - (IF closes THEN 1 ELSE 0)
         /\ r.held = IF ~ opened /\ ~ closes /\ m.class \in {"star", "slash"} THEN m.class ELSE "none"
<1>1. l.nested \in Nat /\ l.nested + 1 \in Nat /\ l.nested - 1 \in Nat
  BY DEF Lexer
<1>2. CASE l.held = "star" /\ m.class = "slash"
  <2> DEFINE c == IF l.nested = 1 THEN "INITIAL" ELSE "SC_COMMENT"
  <2>1. InComment(l, m) = Begin([Letting(l) EXCEPT !.nested = @ - 1], c)
    BY <1>2 DEF InComment
  <2>2. c \in {"INITIAL", "SC_COMMENT"}
    OBVIOUS
  <2>3. Letting(l) \in Lexer /\ Letting(l).nested = l.nested /\ Letting(l).errors = l.errors
        /\ Letting(l).held = "none"
    BY DEF Letting, Lexer
  <2> DEFINE x == [Letting(l) EXCEPT !.nested = @ - 1]
  <2>4. x \in Lexer /\ x.nested = l.nested - 1 /\ x.errors = l.errors /\ x.held = "none"
    BY <1>1, <2>3 DEF Lexer
  <2> HIDE DEF x
  <2>5. Begin(x, c) \in Lexer /\ Begin(x, c).nested = x.nested /\ Begin(x, c).errors = x.errors
        /\ Begin(x, c).held = x.held /\ Begin(x, c).condition = c
    <3> HIDE DEF c
    <3> QED
      BY <2>2, <2>4 DEF Begin, Lexer
  <2> QED
    BY <1>1, <1>2, <2>1, <2>4, <2>5 DEF x
<1>3. CASE l.held = "slash" /\ m.class = "star"
  <2>1. InComment(l, m) = [Letting(l) EXCEPT !.nested = @ + 1]
    BY <1>3 DEF InComment
  <2>2. Letting(l) \in Lexer /\ Letting(l).nested = l.nested /\ Letting(l).errors = l.errors
        /\ Letting(l).held = "none" /\ Letting(l).condition = "SC_COMMENT"
    BY DEF Letting, Lexer
  <2>3. /\ InComment(l, m) \in Lexer /\ InComment(l, m).nested = l.nested + 1
        /\ InComment(l, m).errors = l.errors /\ InComment(l, m).held = "none"
        /\ InComment(l, m).condition = "SC_COMMENT"
    BY <1>1, <2>1, <2>2 DEF Lexer
  <2> QED
    BY <1>1, <1>3, <2>3
<1>4. CASE ~ (l.held = "star" /\ m.class = "slash") /\ ~ (l.held = "slash" /\ m.class = "star")
  <2> DEFINE h == IF m.class \in {"star", "slash"} THEN m.class ELSE "none"
  <2>1. InComment(l, m) = [l EXCEPT !.held = h]
    BY <1>4 DEF InComment
  <2>2. h \in {"none", "star", "slash"}
    OBVIOUS
  <2>3. /\ InComment(l, m) \in Lexer /\ InComment(l, m).nested = l.nested
        /\ InComment(l, m).errors = l.errors /\ InComment(l, m).held = h
        /\ InComment(l, m).condition = "SC_COMMENT"
    <3> HIDE DEF h
    <3> QED
      BY <2>1, <2>2 DEF Lexer
  <2> QED
    BY <1>1, <1>4, <2>3
<1> QED
  BY <1>2, <1>3, <1>4

\* What one character leads to in a string.
LEMMA InStringFacts ==
  ASSUME NEW l \in Lexer, l.condition = "SC_STRING", l.held = "none", NEW m \in Lexemes
  PROVE  LET r == InString(l, m) IN
         /\ r \in Lexer /\ r.errors = l.errors /\ r.held = "none"
         /\ r.condition = IF m.class = "quote" THEN "INITIAL" ELSE "SC_STRING"
<1>1. l.grown_string \in Seq(STRING) /\ m.text \in STRING /\ l.grown_string \in TokenText
  BY CommentsAssumption DEF Lexer, TokenText
<1>2. CASE m.class = "quote"
  <2> DEFINE x == Emit(l, "STRING", l.grown_string)
  <2>1. x \in Lexer /\ x.errors = l.errors /\ x.held = "none"
    BY <1>1, EmitFacts DEF TokenClass
  <2>2. InString(l, m) = Begin(x, "INITIAL")
    BY <1>2 DEF InString
  <2> HIDE DEF x
  <2> QED
    BY <1>2, <2>1, <2>2 DEF Begin, Lexer
<1>3. CASE m.class = "endofline"
  BY <1>3 DEF InString
<1>4. CASE m.class \notin {"quote", "endofline"}
  <2>1. Append(l.grown_string, m.text) \in Seq(STRING)
    BY <1>1
  <2>2. InString(l, m) = [l EXCEPT !.grown_string = Append(@, m.text)]
    BY <1>4 DEF InString
  <2> QED
    BY <1>4, <2>1, <2>2 DEF Lexer
<1> QED
  BY <1>2, <1>3, <1>4

\* In a comment nothing is left of the scanner but its depth and what it holds.
LEMMA InsideStep ==
  ASSUME NEW h \in {"none", "star", "slash"}, NEW n \in Nat, NEW m
  PROVE  LET r == InComment(Deep(h, n), m)
         IN /\ h = "star" /\ m.class = "slash" /\ n # 1 => r = Deep("none", n - 1)
            /\ h = "slash" /\ m.class = "star" => r = Deep("none", n + 1)
            /\ ~ (h = "star" /\ m.class = "slash") /\ ~ (h = "slash" /\ m.class = "star") =>
                 r = Deep(IF m.class \in {"star", "slash"} THEN m.class ELSE "none", n)
BY DEF InComment, Letting, Begin, Deep

\* The initial state is in the invariant.
LEMMA CommentInitInv == CommentInit => CommentInv
<1> SUFFICES ASSUME CommentInit PROVE CommentInv
  OBVIOUS
<1>1. alone \in Lexer
  BY DEF CommentInit, Scanning, Lexer
<1>2. inside = Deep("none", 1)
  <2> DEFINE x == [condition |-> "INITIAL", held |-> "slash", nested |-> 0,
                   grown_string |-> << >>, tokens |-> << >>, errors |-> 0]
  <2>1. ScanLexeme(Scanning, Slash) = InInitial(Scanning, Slash, Extensions, Extensions)
    BY DEF ScanLexeme, Rule, Scanning
  <2>2. Released(Scanning) = Scanning /\ Scanning.held = "none" /\ Slash.class = "slash"
    BY DEF Released, Scanning, Slash, Lexeme
  <2>3. OneMatch(Scanning, Slash, Extensions, Extensions) = [Scanning EXCEPT !.held = "slash"]
    BY <2>2 DEF OneMatch
  <2>4. ScanLexeme(Scanning, Slash) = x
    BY <2>1, <2>2, <2>3 DEF InInitial, Scanning
  <2>5. Star.class = "star" /\ x.condition = "INITIAL" /\ x.held = "slash"
    BY DEF Star, Lexeme
  <2>6. ScanLexeme(x, Star) = InInitial(x, Star, Extensions, Extensions)
    BY <2>5 DEF ScanLexeme, Rule
  <2>7. InInitial(x, Star, Extensions, Extensions) = Begin([Letting(x) EXCEPT !.nested = 1], "SC_COMMENT")
    BY <2>5 DEF InInitial
  <2>8. Begin([Letting(x) EXCEPT !.nested = 1], "SC_COMMENT") = Deep("none", 1)
    <3> DEFINE y(c, n) == [condition |-> c, held |-> "none", nested |-> n, grown_string |-> << >>,
                           tokens |-> << >>, errors |-> 0]
    <3>1. Letting(x) = y("INITIAL", 0)
      BY DEF Letting
    <3>2. [y("INITIAL", 0) EXCEPT !.nested = 1] = y("INITIAL", 1)
      OBVIOUS
    <3>3. Begin(y("INITIAL", 1), "SC_COMMENT") = y("SC_COMMENT", 1)
      BY DEF Begin
    <3> QED
      BY <3>1, <3>2, <3>3 DEF Deep
  <2> QED
    BY <2>4, <2>6, <2>7, <2>8 DEF CommentInit
<1>5. /\ alone.condition = "INITIAL" /\ alone.held = "none"
      /\ length = 0 /\ last = "none" /\ marked = FALSE
  BY DEF CommentInit, Scanning
<1>6. HeldInside = "none" /\ Depth = 1
  BY <1>5 DEF HeldInside, Depth
<1>7. HoldsRight
  BY <1>5 DEF HoldsRight
<1>8. InTheComment
  BY <1>2, <1>6 DEF InTheComment
<1>9. length \in Nat /\ marked \in BOOLEAN
  BY <1>5
<1>10. last \in {m.class : m \in Lexemes} \cup {"none"}
  BY <1>5
<1> QED
  BY <1>1, <1>7, <1>8, <1>9, <1>10 DEF CommentInv

\* Every step keeps the scanner in the comment, as deep as it is in the
\* comments of the text, with the same character held.
LEMMA CommentStepInv ==
  ASSUME CommentInv, NEW m \in Lexemes, ReadLexeme(m)
  PROVE  CommentInv'
<1>1. /\ alone \in Lexer /\ HoldsRight
      /\ alone' = ScanLexeme(alone, m) /\ inside' = ScanLexeme(inside, m)
      /\ length' = length + 1 /\ length \in Nat
      /\ last' = m.class
      /\ marked \in BOOLEAN /\ marked' = (marked \/ MarkInComment(m))
  BY DEF CommentInv, ReadLexeme
<1>2. /\ length' \in Nat /\ marked' \in BOOLEAN
      /\ last' \in {x.class : x \in Lexemes} \cup {"none"}
  BY <1>1 DEF MarkInComment
<1>3. alone.errors \in Nat /\ alone.nested \in Nat /\ alone.held \in {"none", "star", "slash"}
  BY <1>1 DEF Lexer
<1> DEFINE Goal ==
      /\ alone' \in Lexer /\ HoldsRight'
      /\ alone'.errors >= alone.errors /\ alone'.errors \in Nat
      /\ inside = Deep(HeldInside, Depth) /\ ~ MarkInComment(m) =>
           inside' = Deep(HeldInside', Depth')
<1>4. Depth \in Nat /\ HeldInside \in {"none", "star", "slash"}
  BY <1>3 DEF Depth, HeldInside
<1>5. inside = Deep(HeldInside, Depth) => inside' = InComment(inside, m)
  <2> SUFFICES ASSUME inside.condition = "SC_COMMENT" PROVE inside' = InComment(inside, m)
    BY DEF Deep
  <2> QED
    BY <1>1 DEF ScanLexeme, Rule
<1>6. ASSUME alone.condition = "INITIAL" PROVE Goal
  <2>1. alone' = InInitial(alone, m, Extensions, Extensions)
    BY <1>1, <1>6 DEF ScanLexeme, Rule
  <2>2. alone.held # "star" /\ (alone.held = "slash" => last = "slash") /\ Depth = 1
    BY <1>1, <1>6 DEF HoldsRight, Depth
  <2>3. CASE alone.held = "slash" /\ m.class = "star"
    <3> DEFINE x == [Letting(alone) EXCEPT !.nested = 1]
    <3>1. x \in Lexer /\ x.errors = alone.errors /\ x.nested = 1 /\ x.held = "none"
      BY <1>1 DEF Letting, Lexer
    <3>2. alone' = Begin(x, "SC_COMMENT")
      BY <2>1, <2>3 DEF InInitial
    <3> HIDE DEF x
    <3>3. /\ alone' \in Lexer /\ alone'.errors = alone.errors
          /\ alone'.condition = "SC_COMMENT" /\ alone'.nested = 1 /\ alone'.held = "none"
      BY <3>1, <3>2 DEF Begin, Lexer
    <3>4. HeldInside = "slash" /\ HeldInside' = "none" /\ Depth' = 2
      BY <1>6, <2>2, <2>3, <3>3 DEF HeldInside, Depth
    <3>5. inside = Deep(HeldInside, Depth) => inside' = Deep("none", 2)
      BY <1>5, <2>2, <2>3, <3>4, InsideStep
    <3> QED
      BY <1>3, <3>3, <3>4, <3>5 DEF HoldsRight
  <2>4. CASE ~ (alone.held = "slash" /\ m.class = "star")
    <3>1. /\ Released(alone) \in Lexer /\ Released(alone).condition = "INITIAL"
          /\ Released(alone).held = "none" /\ Released(alone).errors = alone.errors
      BY <1>1, <1>6, <2>2, ReleasedFacts
    <3>2. alone' = OneMatch(Released(alone), m, Extensions, Extensions)
      BY <2>1, <2>4 DEF InInitial
    <3>3. /\ alone' \in Lexer /\ alone'.errors \in Nat /\ alone'.errors >= alone.errors
          /\ alone'.condition = IF m.class = "quote" THEN "SC_STRING" ELSE "INITIAL"
          /\ alone'.held = IF m.class = "slash" THEN "slash" ELSE "none"
      BY <3>1, <3>2, OneMatchFacts
    <3>4. HoldsRight'
      BY <1>1, <3>3 DEF HoldsRight
    <3>5. Depth' = 1 /\ HeldInside' = IF m.class \in {"star", "slash"} THEN m.class ELSE "none"
      BY <1>1, <3>3 DEF Depth, HeldInside
    <3>6. ASSUME ~ MarkInComment(m)
          PROVE  /\ ~ (HeldInside = "star" /\ m.class = "slash")
                 /\ ~ (HeldInside = "slash" /\ m.class = "star")
      BY <1>3, <1>6, <2>2, <2>4, <3>6 DEF HeldInside, MarkInComment
    <3>7. inside = Deep(HeldInside, Depth) /\ ~ MarkInComment(m)
            => inside' = Deep(HeldInside', Depth')
      BY <1>4, <1>5, <2>2, <3>5, <3>6, InsideStep
    <3> QED
      BY <3>3, <3>4, <3>7
  <2> QED
    BY <2>3, <2>4
<1>7. ASSUME alone.condition = "SC_COMMENT" PROVE Goal
  <2>1. alone' = InComment(alone, m) /\ alone.nested > 0
    BY <1>1, <1>7 DEF ScanLexeme, Rule, HoldsRight
  <2> DEFINE opened == alone.held = "slash" /\ m.class = "star"
             closes == alone.held = "star" /\ m.class = "slash"
  <2>2. /\ alone' \in Lexer /\ alone'.errors = alone.errors
        /\ alone'.condition = IF closes /\ alone.nested = 1 THEN "INITIAL" ELSE "SC_COMMENT"
        /\ alone'.nested = alone.nested + (IF opened THEN 1 ELSE 0) - (IF closes THEN 1 ELSE 0)
        /\ alone'.held = IF ~ opened /\ ~ closes /\ m.class \in {"star", "slash"}
                         THEN m.class ELSE "none"
    BY <1>1, <1>7, <2>1, InCommentFacts
  <2>3. HoldsRight'
    BY <1>1, <1>3, <2>1, <2>2 DEF HoldsRight
  <2>4. HeldInside = alone.held /\ Depth = alone.nested + 1
    BY <1>3, <1>7 DEF HeldInside, Depth
  <2>5. HeldInside' = alone'.held
    BY <1>1, <2>2 DEF HeldInside
  <2>6. Depth' = Depth + (IF opened THEN 1 ELSE 0) - (IF closes THEN 1 ELSE 0)
    BY <1>3, <2>1, <2>2, <2>4 DEF Depth
  <2>7. inside = Deep(HeldInside, Depth) => inside' = Deep(HeldInside', Depth')
    <3>1. CASE closes
      BY <1>3, <1>4, <1>5, <2>1, <2>2, <2>4, <2>5, <2>6, <3>1, InsideStep
    <3>2. CASE opened
      BY <1>3, <1>4, <1>5, <2>1, <2>2, <2>4, <2>5, <2>6, <3>2, InsideStep
    <3>3. CASE ~ opened /\ ~ closes
      BY <1>3, <1>4, <1>5, <2>1, <2>2, <2>4, <2>5, <2>6, <3>3, InsideStep
    <3> QED
      BY <3>1, <3>2, <3>3
  <2> QED
    BY <1>3, <2>2, <2>3, <2>7
<1>8. ASSUME alone.condition = "SC_STRING" PROVE Goal
  <2>1. alone' = InString(alone, m) /\ alone.held = "none" /\ Depth = 1
    BY <1>1, <1>8 DEF ScanLexeme, Rule, HoldsRight, Depth
  <2>2. /\ alone' \in Lexer /\ alone'.errors = alone.errors /\ alone'.held = "none"
        /\ alone'.condition = IF m.class = "quote" THEN "INITIAL" ELSE "SC_STRING"
    BY <1>1, <1>8, <2>1, InStringFacts
  <2>3. HoldsRight'
    BY <2>2 DEF HoldsRight
  <2>4. Depth' = 1 /\ HeldInside' = IF m.class \in {"star", "slash"} THEN m.class ELSE "none"
    BY <1>1, <2>2 DEF Depth, HeldInside
  <2>5. ASSUME ~ MarkInComment(m)
        PROVE  /\ ~ (HeldInside = "star" /\ m.class = "slash")
               /\ ~ (HeldInside = "slash" /\ m.class = "star")
    BY <1>8, <2>5 DEF HeldInside, MarkInComment
  <2>6. inside = Deep(HeldInside, Depth) /\ ~ MarkInComment(m)
          => inside' = Deep(HeldInside', Depth')
    BY <1>4, <1>5, <2>1, <2>4, <2>5, InsideStep
  <2> QED
    BY <1>3, <2>2, <2>3, <2>6
<1>9. Goal
  <2>1. alone.condition \in {"INITIAL", "SC_COMMENT", "SC_STRING"}
    BY <1>1 DEF Lexer
  <2> HIDE DEF Goal
  <2> QED
    BY <1>6, <1>7, <1>8, <2>1
<1>10. InTheComment'
  <2> SUFFICES ASSUME alone'.errors = 0, ~ marked'
               PROVE  inside' = Deep(HeldInside', Depth')
    BY DEF InTheComment
  <2>1. ~ marked /\ ~ MarkInComment(m)
    BY <1>1
  <2>2. alone.errors = 0
    <3>1. alone'.errors >= alone.errors
      BY <1>9
    <3> HIDE DEF Goal
    <3> QED
      BY <1>3, <3>1
  <2>3. inside = Deep(HeldInside, Depth)
    BY <2>1, <2>2 DEF CommentInv, InTheComment
  <2> QED
    BY <1>9, <2>1, <2>3
<1> QED
  BY <1>2, <1>9, <1>10 DEF CommentInv

\* The invariant says what CommentsNest does, once the text is at its end.
LEMMA CommentInvNests == CommentInv => CommentsNest
<1> DEFINE starred == ScanLexeme(inside, Star)
<1> SUFFICES ASSUME CommentInv, FitForComment
             PROVE  LET after == EndOfFile(ScanLexeme(ScanLexeme(starred, Slash), Following))
                    IN after.errors = 0 /\ after.tokens = << << "id", "x" >> >>
  BY DEF CommentsNest
<1>1. alone \in Lexer /\ HoldsRight /\ ~ marked /\ alone.held # "slash"
      /\ EndOfFile(alone).errors = 0
  BY DEF CommentInv, FitForComment
<1>2. alone.condition = "INITIAL"
  <2> SUFFICES ASSUME alone.condition # "INITIAL" PROVE FALSE
    OBVIOUS
  <2>1. EndOfFile(alone).errors = alone.errors + 1 /\ alone.errors \in Nat
    BY <1>1 DEF EndOfFile, Begin, Error, Lexer
  <2> QED
    BY <1>1, <2>1
<1>3. alone.held = "none" /\ alone.errors = 0
  BY <1>1, <1>2, ReleasedFacts DEF HoldsRight, EndOfFile, Lexer
<1>4. inside = Deep(HeldInside, 1) /\ HeldInside \in {"none", "star"}
  BY <1>1, <1>2, <1>3 DEF CommentInv, InTheComment, HeldInside, Depth
<1>5. starred = Deep("star", 1)
  <2>1. ScanLexeme(inside, Star) = InComment(inside, Star)
    <3>1. inside.condition = "SC_COMMENT"
      BY <1>4 DEF Deep
    <3> QED
      BY <3>1 DEF ScanLexeme, Rule
  <2>2. Star.class = "star"
    BY DEF Star, Lexeme
  <2>3. HeldInside # "slash"
    BY <1>4
  <2> QED
    BY <1>4, <2>1, <2>2, <2>3, InsideStep
<1>6. ScanLexeme(Deep("star", 1), Slash) = Scanning
  <2> DEFINE x == Deep("star", 1)
  <2>1. x.condition = "SC_COMMENT" /\ x.held = "star" /\ x.nested = 1 /\ Slash.class = "slash"
    BY DEF Deep, Slash, Lexeme
  <2>2. Begin([Letting(x) EXCEPT !.nested = @ - 1], "INITIAL") = Scanning
    <3>1. Letting(x) = Deep("none", 1)
      BY DEF Letting, Deep
    <3>2. [Deep("none", 1) EXCEPT !.nested = @ - 1] = Deep("none", 0)
      BY DEF Deep
    <3>3. Begin(Deep("none", 0), "INITIAL") = Scanning
      BY DEF Begin, Deep, Scanning
    <3> HIDE DEF x
    <3> QED
      BY <3>1, <3>2, <3>3
  <2> HIDE DEF x
  <2>3. ScanLexeme(x, Slash) = InComment(x, Slash)
    BY <2>1 DEF ScanLexeme, Rule
  <2>4. InComment(x, Slash) = Begin([Letting(x) EXCEPT !.nested = @ - 1], "INITIAL")
    BY <2>1 DEF InComment
  <2> QED
    BY <2>2, <2>3, <2>4 DEF x
<1>7. ScanLexeme(Scanning, Following) = [Scanning EXCEPT !.tokens = << << "id", "x" >> >>]
  <2>1. /\ Scanning.condition = "INITIAL" /\ Scanning.held = "none" /\ Scanning.tokens = << >>
        /\ Following.class = "id" /\ Following.text = "x"
    BY DEF Scanning, Following, Lexeme
  <2>2. ScanLexeme(Scanning, Following) = InInitial(Scanning, Following, Extensions, Extensions)
    BY <2>1 DEF ScanLexeme, Rule
  <2>3. Released(Scanning) = Scanning
    BY <2>1 DEF Released
  <2>4. OneMatch(Scanning, Following, Extensions, Extensions) = Emit(Scanning, "id", "x")
    BY <2>1 DEF OneMatch
  <2>5. Emit(Scanning, "id", "x") = [Scanning EXCEPT !.tokens = << << "id", "x" >> >>]
    BY <2>1 DEF Emit
  <2> QED
    BY <2>1, <2>2, <2>3, <2>4, <2>5 DEF InInitial
<1>8. EndOfFile([Scanning EXCEPT !.tokens = << << "id", "x" >> >>]) =
        [Scanning EXCEPT !.tokens = << << "id", "x" >> >>]
  BY DEF EndOfFile, Released, Scanning
<1> QED
  BY <1>5, <1>6, <1>7, <1>8 DEF Scanning

\* Whatever a text is made of, and however long it is: if it is scanned
\* without an error, and "*" and "/" do not meet in an expression or in a
\* string literal of it, a comment around it ends where it is closed, and
\* nothing of the text is left (scantiger.ll, SC_COMMENT).
THEOREM NestedComments == CommentSpec => []CommentsNest
<1>1. CommentInv /\ [CommentNext]_commentVars => CommentInv'
  <2> SUFFICES ASSUME CommentInv, [CommentNext]_commentVars PROVE CommentInv'
    OBVIOUS
  <2>1. ASSUME NEW m \in Lexemes, ReadLexeme(m) PROVE CommentInv'
    BY <2>1, CommentStepInv
  <2>2. CASE UNCHANGED commentVars
    BY <2>2 DEF commentVars, CommentInv, InTheComment, HoldsRight, HeldInside, Depth
  <2> QED
    BY <2>1, <2>2 DEF CommentNext
<1> QED
  BY <1>1, CommentInitInv, CommentInvNests, PTL DEF CommentSpec

-----------------------------------------------------------------------------
(* Strings: each escape is read back by one rule.                          *)

\* Every byte with an escape of its own has one that is read back.
LEMMA LettersFacts ==
  /\ DOMAIN Letters = {8, 9, 10, 11, 12, 13, Backslash, Quote}
  /\ \A c \in DOMAIN Letters :
       /\ Letters[c] \in DOMAIN Named /\ Letters[c] # Newline /\ Letters[c] \in 0..255
       /\ Named[Letters[c]] = c
BY DEF Letters, Backslash, Quote, Newline, Named

\* A byte in base eight.
LEMMA OctalDigits ==
  ASSUME NEW c \in 0..255
  PROVE  /\ c \div 64 \in 0..3 /\ (c \div 8) % 8 \in 0..7 /\ c % 8 \in 0..7
         /\ 64 * (c \div 64) + 8 * ((c \div 8) % 8) + (c % 8) = c
         /\ c % 256 = c
OBVIOUS

\* The escape of a byte does not end a literal.
LEMMA EscapeFacts ==
  ASSUME NEW c \in 0..255
  PROVE  /\ Escape(c) \in Seq(0..255)
         /\ Len(Escape(c)) \in Nat \ {0}
         /\ Escape(c)[1] # Quote
<1>1. CASE c \in DOMAIN Letters
  <2>1. Escape(c) = << Backslash, Letters[c] >>
    BY <1>1 DEF Escape
  <2>2. Backslash \in 0..255 /\ Letters[c] \in 0..255
    BY <1>1, LettersFacts DEF Backslash
  <2> QED
    BY <2>1, <2>2 DEF Backslash, Quote
<1>2. CASE c \notin DOMAIN Letters /\ Printable(c)
  <2>1. Escape(c) = << c >>
    BY <1>2 DEF Escape
  <2>2. c # Quote
    BY <1>2, LettersFacts
  <2> QED
    BY <2>1, <2>2
<1>3. CASE c \notin DOMAIN Letters /\ ~ Printable(c)
  <2> DEFINE a == 48 + c \div 64
             b == 48 + ((c \div 8) % 8)
             d == 48 + (c % 8)
  <2>1. a \in 0..255 /\ b \in 0..255 /\ d \in 0..255 /\ Backslash \in 0..255
    BY OctalDigits DEF Backslash
  <2>2. Escape(c) = << Backslash, a, b, d >>
    BY <1>3 DEF Escape
  <2> HIDE DEF a, b, d
  <2> QED
    BY <2>1, <2>2 DEF Backslash, Quote
<1> QED
  BY <1>1, <1>2, <1>3

\* One rule reads the escape of a byte, the whole of it and no more.
LEMMA EscapeReadBack ==
  ASSUME NEW c \in 0..255, NEW value, NEW rest \in Seq(0..255), NEW errors \in Nat,
         Len(Escape(c)) <= Len(rest),
         \A i \in 1..Len(Escape(c)) : rest[i] = Escape(c)[i]
  PROVE  ReadOne(Reading(value, rest, errors)) =
           Reading(Append(value, c), SubSeq(rest, Len(Escape(c)) + 1, Len(rest)), errors)
<1> DEFINE r == Reading(value, rest, errors)
<1>1. r.value = value /\ r.rest = rest /\ r.errors = errors
  BY DEF Reading
<1>2. Len(rest) \in Nat
  OBVIOUS
<1> HIDE DEF r
<1> SUFFICES ReadOne(r) = Reading(Append(value, c), SubSeq(rest, Len(Escape(c)) + 1, Len(rest)), errors)
  BY DEF r
<1>3. CASE c \in DOMAIN Letters
  <2>1. Escape(c) = << Backslash, Letters[c] >> /\ Len(Escape(c)) = 2
    BY <1>3 DEF Escape
  <2>2. rest[1] = Backslash /\ rest[2] = Letters[c] /\ Len(rest) >= 2
    BY <2>1
  <2>3. Letters[c] \in DOMAIN Named /\ Named[Letters[c]] = c /\ Letters[c] # Newline
    BY <1>3, LettersFacts
  <2> HIDE DEF Letters, Named
  <2>4. ReadOne(r) = ReadEscape(r)
    BY <1>1, <2>2, <2>3 DEF ReadOne, Backslash, Newline
  <2>5. ReadEscape(r) = Reading(Append(value, Named[Letters[c]]), SubSeq(rest, 3, Len(rest)), errors)
    <3>1. r.rest[2] \in DOMAIN Named /\ Named[r.rest[2]] = Named[Letters[c]]
      BY <1>1, <2>2, <2>3
    <3>2. ReadEscape(r) = Reading(Append(r.value, Named[r.rest[2]]),
                                  SubSeq(r.rest, 2 + 1, Len(r.rest)), r.errors)
      BY <3>1 DEF ReadEscape
    <3> QED
      BY <1>1, <3>1, <3>2
  <2> QED
    BY <2>1, <2>3, <2>4, <2>5
<1>4. CASE c \notin DOMAIN Letters /\ Printable(c)
  <2>1. Escape(c) = << c >> /\ Len(Escape(c)) = 1
    BY <1>4 DEF Escape
  <2>2. rest[1] = c /\ rest # << >>
    BY <2>1
  <2>3. c # Newline /\ c # Backslash
    BY <1>4, LettersFacts DEF Newline
  <2>4. ReadOne(r) = Reading(Append(value, c), Tail(rest), errors)
    BY <1>1, <2>2, <2>3 DEF ReadOne
  <2>5. Tail(rest) = SubSeq(rest, 2, Len(rest))
    BY <2>2
  <2>6. Len(Escape(c)) + 1 = 2
    BY <2>1
  <2> QED
    BY <2>4, <2>5, <2>6
<1>5. CASE c \notin DOMAIN Letters /\ ~ Printable(c)
  <2> DEFINE a == c \div 64
             b == (c \div 8) % 8
             d == c % 8
  <2>1. /\ a \in 0..3 /\ b \in 0..7 /\ d \in 0..7
        /\ 64 * a + 8 * b + d = c /\ c % 256 = c
    BY OctalDigits
  <2>2. Escape(c) = << Backslash, 48 + a, 48 + b, 48 + d >> /\ Len(Escape(c)) = 4
    BY <1>5 DEF Escape
  <2> HIDE DEF a, b, d
  <2>3. /\ rest[1] = Backslash /\ rest[2] = 48 + a /\ rest[3] = 48 + b /\ rest[4] = 48 + d
        /\ Len(rest) >= 4
    BY <2>2
  <2>4. rest[2] \in 48..51
    BY <2>1, <2>3
  <2>5. rest[2] \notin DOMAIN Named /\ rest[2] # Newline
    <3>1. DOMAIN Named = {97, 98, 102, 110, 114, 116, 118, 92, 34}
      BY DEF Named, Backslash, Quote
    <3>2. \A v \in 48..51 : v \notin {97, 98, 102, 110, 114, 116, 118, 92, 34} /\ v # 10
      OBVIOUS
    <3> QED
      BY <2>4, <3>1, <3>2, Zenon DEF Newline
  <2>6. ReadOne(r) = ReadEscape(r)
    BY <1>1, <2>3, <2>5 DEF ReadOne, Backslash, Newline
  <2>7. /\ DigitOf(rest[1 + 1]) = a /\ DigitOf(rest[2 + 1]) = b /\ DigitOf(rest[3 + 1]) = d
    <3>1. rest[1 + 1] = 48 + a /\ rest[2 + 1] = 48 + b /\ rest[3 + 1] = 48 + d
      BY <2>3
    <3>2. (48 + a) - 48 = a /\ (48 + b) - 48 = b /\ (48 + d) - 48 = d
      BY <2>1
    <3> QED
      BY <3>1, <3>2 DEF DigitOf
  <2>8. \A i \in 2..4 : IsDigit(rest[i])
    <3>1. a \in 0..9 /\ b \in 0..9 /\ d \in 0..9
      BY <2>1
    <3>2. IsDigit(rest[2]) /\ IsDigit(rest[3]) /\ IsDigit(rest[4])
      BY <3>1, <2>7 DEF IsDigit
    <3> QED
      BY <3>2
  <2>9. Octal(a, b, d) % 256 = c
    <3>1. Octal(a, b, d) = 64 * a + 8 * b + d
      BY <2>1 DEF Octal
    <3> QED
      BY <2>1, <3>1
  <2>10. OctalFits(a, b, d)
    <3>1. 100 * a + 10 * b + d <= 377
      BY <2>1
    <3> QED
      BY <3>1 DEF OctalFits
  <2>11. ReadEscape(r) = Reading(Append(value, c), SubSeq(rest, 5, Len(rest)), errors)
    <3> HIDE DEF Octal, OctalFits, DigitOf, IsDigit
    <3>1. r.rest[2] \notin DOMAIN Named /\ Len(r.rest) >= 4 /\ \A i \in 2..4 : IsDigit(r.rest[i])
      BY <1>1, <2>3, <2>5, <2>8
    <3>2. ReadEscape(r) =
            Reading(Append(r.value, Octal(DigitOf(r.rest[1 + 1]), DigitOf(r.rest[2 + 1]),
                                          DigitOf(r.rest[3 + 1])) % 256),
                    SubSeq(r.rest, 4 + 1, Len(r.rest)),
                    IF OctalFits(DigitOf(r.rest[1 + 1]), DigitOf(r.rest[2 + 1]),
                                 DigitOf(r.rest[3 + 1]))
                    THEN r.errors ELSE r.errors + 1)
      BY <3>1, Zenon DEF ReadEscape
    <3> QED
      BY <1>1, <2>7, <2>9, <2>10, <3>2
  <2> QED
    BY <2>2, <2>6, <2>11
<1> QED
  BY <1>3, <1>4, <1>5

-----------------------------------------------------------------------------
\* Where the escapes end: one after the other, and inside the text.
LEMMA EndsFacts ==
  ASSUME LiteralInv, NEW k \in 0..Len(string)
  PROVE  /\ Ends(k) \in Nat /\ Ends(k) <= Ends(Len(string))
         /\ Len(text) = Ends(Len(string)) + (IF closed THEN 2 ELSE 0)
         /\ Len(string) \in Nat /\ Len(text) \in Nat
         /\ k < Len(string) =>
              /\ string[k + 1] \in 0..255
              /\ Len(Escape(string[k + 1])) \in Nat \ {0}
              /\ Ends(k + 1) = Ends(k) + Len(Escape(string[k + 1]))
              /\ Ends(k + 1) <= Ends(Len(string))
              /\ \A i \in 1..Len(Escape(string[k + 1])) :
                   text[Ends(k) + i] = Escape(string[k + 1])[i]
<1>1. /\ Len(string) \in Nat /\ Len(text) \in Nat /\ Len(ends) = Len(string)
      /\ \A i \in 1..Len(string) : string[i] \in 0..255 /\ ends[i] \in Nat
  <2>1. string \in Seq(LiteralBytes) /\ text \in Seq(0..255) /\ ends \in Seq(Nat)
    BY DEF LiteralInv
  <2>2. Len(ends) = Len(string)
    BY DEF LiteralInv, WhatIsPrinted
  <2>3. ASSUME NEW i \in 1..Len(string) PROVE string[i] \in 0..255 /\ ends[i] \in Nat
    <3>1. string[i] \in LiteralBytes /\ ends[i] \in Nat
      BY <2>1, <2>2
    <3> QED
      BY <3>1, LiteralsAssumption
  <2>4. Len(string) \in Nat /\ Len(text) \in Nat
    BY <2>1
  <2> QED
    BY <2>2, <2>3, <2>4
<1>2. \A i \in 0..Len(string) : Ends(i) \in Nat
  BY <1>1 DEF Ends
<1>3. Len(text) = Ends(Len(string)) + (IF closed THEN 2 ELSE 0)
  BY DEF LiteralInv, WhatIsPrinted
<1>4. ASSUME NEW i \in 1..Len(string)
      PROVE  /\ Ends(i) = Ends(i - 1) + Len(Escape(string[i]))
             /\ Ends(i) <= Ends(Len(string))
             /\ \A j \in 1..Len(Escape(string[i])) : text[Ends(i - 1) + j] = Escape(string[i])[j]
  <2>1. /\ ends[i] = Ends(i - 1) + Len(Escape(string[i]))
        /\ ends[i] <= Ends(Len(string))
        /\ \A j \in 1..Len(Escape(string[i])) : text[Ends(i - 1) + j] = Escape(string[i])[j]
    BY DEF LiteralInv, WhatIsPrinted
  <2>2. Ends(i) = ends[i]
    BY <1>1 DEF Ends
  <2> QED
    BY <2>1, <2>2
<1>5. Ends(k) <= Ends(Len(string))
  <2>1. CASE k = 0
    BY <1>1, <1>2, <2>1 DEF Ends
  <2> QED
    BY <1>1, <1>4, <2>1
<1>6. ASSUME k < Len(string)
      PROVE  /\ string[k + 1] \in 0..255
             /\ Len(Escape(string[k + 1])) \in Nat \ {0}
             /\ Ends(k + 1) = Ends(k) + Len(Escape(string[k + 1]))
             /\ Ends(k + 1) <= Ends(Len(string))
             /\ \A i \in 1..Len(Escape(string[k + 1])) :
                  text[Ends(k) + i] = Escape(string[k + 1])[i]
  <2>1. k + 1 \in 1..Len(string) /\ (k + 1) - 1 = k
    BY <1>1, <1>6
  <2>2. string[k + 1] \in 0..255
    BY <1>1, <2>1
  <2> HIDE DEF LiteralInv, Ends, Escape
  <2> QED
    BY <1>4, <2>1, <2>2, EscapeFacts
<1> QED
  BY <1>1, <1>2, <1>3, <1>5, <1>6

\* Nothing is printed at first.
LEMMA LiteralInitInv == LiteralInit => LiteralInv
<1> SUFFICES ASSUME LiteralInit PROVE LiteralInv
  OBVIOUS
<1>1. string = << >> /\ text = << >> /\ ends = << >> /\ closed = FALSE
  BY DEF LiteralInit
<1>2. << >> \in Seq(LiteralBytes) /\ << >> \in Seq(0..255) /\ << >> \in Seq(Nat)
  OBVIOUS
<1>3. Len(string) = 0 /\ Len(text) = 0 /\ Len(ends) = 0 /\ 1..Len(string) = {}
  BY <1>1
<1>4. WhatIsPrinted
  BY <1>1, <1>3 DEF WhatIsPrinted, Ends
<1> QED
  BY <1>1, <1>2, <1>4 DEF LiteralInv

\* The escape of another byte begins where the last one ended.
LEMMA PrintByteInv ==
  ASSUME LiteralInv, NEW c \in LiteralBytes, PrintByte(c) PROVE LiteralInv'
<1> DEFINE n == Len(string)
           e == Escape(c)
<1>1. /\ string \in Seq(LiteralBytes) /\ text \in Seq(0..255) /\ ends \in Seq(Nat)
      /\ closed = FALSE /\ n \in Nat /\ Len(ends) = n /\ Len(text) \in Nat
  BY DEF LiteralInv, WhatIsPrinted, PrintByte
<1>2. /\ string' = Append(string, c) /\ text' = text \o e
      /\ ends' = Append(ends, Len(text')) /\ closed' = FALSE
  BY <1>1 DEF PrintByte
<1>3. e \in Seq(0..255) /\ Len(e) \in Nat \ {0}
  BY LiteralsAssumption, EscapeFacts
<1> HIDE DEF e
<1>4. /\ text' \in Seq(0..255) /\ Len(text') = Len(text) + Len(e)
      /\ \A i \in 1..Len(text) : text'[i] = text[i]
      /\ \A i \in 1..Len(e) : text'[Len(text) + i] = e[i]
  BY <1>1, <1>2, <1>3
<1>5. /\ string' \in Seq(LiteralBytes) /\ Len(string') = n + 1
      /\ \A i \in 1..n : string'[i] = string[i]
      /\ string'[n + 1] = c
  BY <1>1, <1>2
<1>6. /\ ends' \in Seq(Nat) /\ Len(ends') = n + 1
      /\ \A i \in 1..n : ends'[i] = ends[i]
      /\ ends'[n + 1] = Len(text')
  BY <1>1, <1>2, <1>4
<1>7. \A i \in 0..n : Ends(i)' = Ends(i)
  BY <1>1, <1>6 DEF Ends
<1>8. Len(text) = Ends(n)
  <2>1. n \in 0..Len(string)
    BY <1>1
  <2>2. Ends(n) \in Nat /\ Len(text) = Ends(n) + (IF closed THEN 2 ELSE 0)
    BY <2>1, EndsFacts
  <2> QED
    BY <1>1, <2>2
<1>9. ASSUME NEW k \in 1..n + 1
      PROVE  /\ ends'[k] = Ends(k - 1)' + Len(Escape(string'[k]))
             /\ ends'[k] <= Len(text')
             /\ \A i \in 1..Len(Escape(string'[k])) :
                  text'[Ends(k - 1)' + i] = Escape(string'[k])[i]
  <2> HIDE DEF LiteralInv, Ends
  <2>1. CASE k = n + 1
    <3>1. Ends(k - 1)' = Len(text)
      BY <1>1, <1>7, <1>8, <2>1
    <3>2. Escape(string'[k]) = e
      BY <1>5, <2>1 DEF e
    <3>3. ends'[k] = Len(text) + Len(e) /\ ends'[k] <= Len(text')
      BY <1>1, <1>3, <1>4, <1>6, <2>1
    <3> QED
      BY <1>4, <3>1, <3>2, <3>3
  <2>2. CASE k \in 1..n
    <3>1. /\ ends[k] = Ends(k - 1) + Len(Escape(string[k])) /\ ends[k] <= Len(text)
          /\ \A i \in 1..Len(Escape(string[k])) : text[Ends(k - 1) + i] = Escape(string[k])[i]
      BY <1>8, <2>2 DEF LiteralInv, WhatIsPrinted
    <3>2. /\ string'[k] = string[k] /\ ends'[k] = ends[k] /\ Ends(k - 1)' = Ends(k - 1)
      BY <1>1, <1>5, <1>6, <1>7, <2>2
    <3>3. k - 1 \in 0..Len(string)
      BY <1>1, <2>2
    <3>4. Ends(k - 1) \in Nat
      BY <3>3, EndsFacts
    <3>5. Len(Escape(string[k])) \in Nat
      <4>1. string[k] \in LiteralBytes
        BY <1>1, <2>2
      <4> QED
        BY <4>1, LiteralsAssumption, EscapeFacts
    <3>6. \A i \in 1..Len(Escape(string[k])) : Ends(k - 1) + i \in 1..Len(text)
      BY <1>1, <3>1, <3>4, <3>5
    <3>7. \A i \in 1..Len(Escape(string[k])) : text'[Ends(k - 1) + i] = Escape(string[k])[i]
      BY <1>4, <3>1, <3>6
    <3>8. ends[k] <= Len(text')
      BY <1>1, <1>3, <1>4, <3>1, <3>4, <3>5
    <3> QED
      BY <3>1, <3>2, <3>7, <3>8
  <2> QED
    BY <1>1, <2>1, <2>2
<1>10. Ends(Len(string))' = Len(text')
  BY <1>1, <1>5, <1>6 DEF Ends
<1>11. WhatIsPrinted'
  <2>1. Len(string') \in Nat /\ Len(text') \in Nat
    BY <1>1, <1>3, <1>4, <1>5
  <2>2. Len(ends') = Len(string') /\ 1..Len(string') = 1..n + 1
    BY <1>5, <1>6
  <2>3. Len(text') = Len(text') + 0
    BY <2>1
  <2> HIDE DEF n, Ends
  <2> QED
    BY <1>2, <1>9, <1>10, <2>2, <2>3 DEF WhatIsPrinted
<1> QED
  BY <1>2, <1>4, <1>5, <1>6, <1>11 DEF LiteralInv

\* The quote after the last escape: nothing is read yet.
LEMMA CloseLiteralInv ==
  ASSUME LiteralInv, CloseLiteral PROVE LiteralInv'
<1>1. /\ string \in Seq(LiteralBytes) /\ text \in Seq(0..255) /\ ends \in Seq(Nat)
      /\ closed = FALSE /\ Len(string) \in Nat /\ Len(text) \in Nat
  BY DEF LiteralInv, CloseLiteral
<1>2. /\ string' = string /\ ends' = ends /\ closed' = TRUE
      /\ text' = text \o AfterLiteral /\ reading' = Reading(<< >>, text', 0)
  BY DEF CloseLiteral
<1>3. AfterLiteral \in Seq(0..255) /\ Len(AfterLiteral) = 2
      /\ AfterLiteral[1] = Quote /\ AfterLiteral[2] = 48
  BY DEF AfterLiteral, Quote
<1> HIDE DEF AfterLiteral
<1>4. /\ text' \in Seq(0..255) /\ Len(text') = Len(text) + 2
      /\ \A i \in 1..Len(text) : text'[i] = text[i]
      /\ text'[Len(text) + 1] = Quote /\ text'[Len(text) + 2] = 48
  <2>1. /\ text \o AfterLiteral \in Seq(0..255)
        /\ Len(text \o AfterLiteral) = Len(text) + Len(AfterLiteral)
        /\ \A i \in 1..Len(text) : (text \o AfterLiteral)[i] = text[i]
        /\ \A i \in 1..Len(AfterLiteral) : (text \o AfterLiteral)[Len(text) + i] = AfterLiteral[i]
    <3> DEFINE a == AfterLiteral
    <3>1. text \in Seq(0..255) /\ a \in Seq(0..255)
      BY <1>1, <1>3
    <3> HIDE DEF a
    <3>2. /\ text \o a \in Seq(0..255)
          /\ Len(text \o a) = Len(text) + Len(a)
          /\ \A i \in 1..Len(text) : (text \o a)[i] = text[i]
          /\ \A i \in 1..Len(a) : (text \o a)[Len(text) + i] = a[i]
      BY <3>1, ConcatFacts
    <3> QED
      BY <3>2 DEF a
  <2>2. 1 \in 1..Len(AfterLiteral) /\ 2 \in 1..Len(AfterLiteral)
    BY <1>3
  <2> QED
    BY <1>2, <1>3, <2>1, <2>2
<1>5. \A i : Ends(i)' = Ends(i)
  BY <1>2 DEF Ends
<1>6. Len(text) = Ends(Len(string))
  <2>1. Len(string) \in 0..Len(string)
    BY <1>1
  <2>2. /\ Ends(Len(string)) \in Nat
        /\ Len(text) = Ends(Len(string)) + (IF closed THEN 2 ELSE 0)
    BY <2>1, EndsFacts
  <2> QED
    BY <1>1, <2>2
<1>7. ASSUME NEW k \in 1..Len(string)
      PROVE  /\ ends'[k] = Ends(k - 1)' + Len(Escape(string'[k]))
             /\ ends'[k] <= Ends(Len(string))'
             /\ \A i \in 1..Len(Escape(string'[k])) :
                  text'[Ends(k - 1)' + i] = Escape(string'[k])[i]
  <2> HIDE DEF LiteralInv, Ends
  <2>1. /\ ends[k] = Ends(k - 1) + Len(Escape(string[k])) /\ ends[k] <= Len(text)
        /\ \A i \in 1..Len(Escape(string[k])) : text[Ends(k - 1) + i] = Escape(string[k])[i]
    BY <1>6 DEF LiteralInv, WhatIsPrinted
  <2>2. k - 1 \in 0..Len(string)
    BY <1>1
  <2>3. Ends(k - 1) \in Nat
    BY <2>2, EndsFacts
  <2>4. Len(Escape(string[k])) \in Nat
    <3>1. string[k] \in LiteralBytes
      BY <1>1
    <3> QED
      BY <3>1, LiteralsAssumption, EscapeFacts
  <2>5. \A i \in 1..Len(Escape(string[k])) : Ends(k - 1) + i \in 1..Len(text)
    BY <1>1, <2>1, <2>3, <2>4
  <2>6. \A i \in 1..Len(Escape(string[k])) : text'[Ends(k - 1) + i] = Escape(string[k])[i]
    BY <1>4, <2>1, <2>5
  <2>7. ends[k] <= Ends(Len(string))'
    BY <1>2, <1>5, <1>6, <2>1
  <2> QED
    BY <1>2, <1>5, <2>1, <2>6, <2>7
<1>8. WhatIsPrinted'
  <2>1. Len(text') = Ends(Len(string))' + 2
    BY <1>2, <1>4, <1>5, <1>6
  <2>2. Len(ends) = Len(string)
    BY DEF LiteralInv, WhatIsPrinted
  <2>3. text'[Len(text') - 1] = Quote /\ text'[Len(text')] = 48
    <3>1. Len(text') - 1 = Len(text) + 1 /\ Len(text') = Len(text) + 2
      BY <1>1, <1>4
    <3> QED
      BY <1>4, <3>1
  <2> QED
    BY <1>2, <1>7, <2>1, <2>2, <2>3 DEF WhatIsPrinted
<1>9. ReadSoFar(0)'
  <2>1. Ends(0)' + 1 = 1 /\ Len(text') \in Nat
    BY <1>1, <1>4 DEF Ends
  <2>2. SubSeq(text', 1, Len(text')) = text'
    BY <1>4
  <2>3. SubSeq(string', 1, 0) = << >>
    BY <1>1, <1>2
  <2> QED
    BY <1>2, <2>1, <2>2, <2>3 DEF ReadSoFar
<1>10. 0 \in 0..Len(string')
  BY <1>1, <1>2
<1> QED
  BY <1>1, <1>2, <1>4, <1>8, <1>9, <1>10 DEF LiteralInv

\* What is left of a literal that is being read.
LEMMA LeftToRead ==
  ASSUME LiteralInv, closed, NEW k \in 0..Len(string), ReadSoFar(k)
  PROVE  /\ reading.value = SubSeq(string, 1, k) /\ reading.errors = 0
         /\ reading.rest \in Seq(0..255)
         /\ Len(reading.rest) = Len(text) - Ends(k)
         /\ Len(reading.rest) >= 2
         /\ \A i \in 1..Len(reading.rest) : reading.rest[i] = text[Ends(k) + i]
         /\ reading.rest[1] = Quote <=> k = Len(string)
<1>1. /\ reading.value = SubSeq(string, 1, k) /\ reading.errors = 0
      /\ reading.rest = SubSeq(text, Ends(k) + 1, Len(text))
  BY DEF ReadSoFar, Reading
<1>2. /\ Ends(k) \in Nat /\ Ends(k) <= Ends(Len(string)) /\ Ends(Len(string)) \in Nat
      /\ Len(text) = Ends(Len(string)) + 2
      /\ Len(string) \in Nat /\ Len(text) \in Nat
  BY EndsFacts
<1>3. text \in Seq(0..255) /\ text[Len(text) - 1] = Quote
  BY DEF LiteralInv, WhatIsPrinted
<1>4. /\ reading.rest \in Seq(0..255)
      /\ Len(reading.rest) = Len(text) - Ends(k)
      /\ \A i \in 1..Len(reading.rest) : reading.rest[i] = text[Ends(k) + i]
  <2>1. Ends(k) \in 0..Len(text)
    BY <1>2
  <2>2. text \in Seq(0..255)
    BY <1>3
  <2> HIDE DEF Ends
  <2> DEFINE e == Ends(k)
  <2> HIDE DEF e
  <2>3. e \in 0..Len(text)
    BY <2>1 DEF e
  <2>4. LET t == SubSeq(text, e + 1, Len(text)) IN
          t \in Seq(0..255) /\ Len(t) = Len(text) - e /\ \A i \in 1..Len(text) - e : t[i] = text[e + i]
    BY <2>2, <2>3, SuffixFacts
  <2> QED
    BY <1>1, <2>4 DEF e
<1>5. Len(reading.rest) >= 2
  BY <1>2, <1>4
<1>6. reading.rest[1] = text[Ends(k) + 1]
  BY <1>4, <1>5
<1>7. CASE k = Len(string)
  <2>1. Ends(k) + 1 = Len(text) - 1
    BY <1>2, <1>7
  <2>2. reading.rest[1] = Quote
    BY <1>3, <1>6, <2>1
  <2> QED
    BY <1>1, <1>4, <1>5, <1>7, <2>2
<1>8. CASE k < Len(string)
  <2>1. /\ string[k + 1] \in 0..255
        /\ Len(Escape(string[k + 1])) \in Nat \ {0}
        /\ text[Ends(k) + 1] = Escape(string[k + 1])[1]
    <3>1. /\ string[k + 1] \in 0..255
          /\ Len(Escape(string[k + 1])) \in Nat \ {0}
          /\ \A i \in 1..Len(Escape(string[k + 1])) : text[Ends(k) + i] = Escape(string[k + 1])[i]
      BY <1>8, EndsFacts
    <3>2. 1 \in 1..Len(Escape(string[k + 1]))
      BY <3>1
    <3> QED
      BY <3>1, <3>2
  <2>2. Escape(string[k + 1])[1] # Quote
    BY <2>1, EscapeFacts
  <2>3. reading.rest[1] # Quote /\ k # Len(string)
    BY <1>2, <1>6, <1>8, <2>1, <2>2
  <2> QED
    BY <1>1, <1>4, <1>5, <2>3
<1> QED
  BY <1>2, <1>7, <1>8

\* One rule reads the escape of one byte.
LEMMA ApplyRuleInv ==
  ASSUME LiteralInv, ApplyRule PROVE LiteralInv'
<1>1. closed /\ reading.rest # << >> /\ reading.rest[1] # Quote
  BY DEF ApplyRule
<1>2. PICK k \in 0..Len(string) : ReadSoFar(k)
  BY <1>1 DEF LiteralInv
<1> DEFINE rest == reading.rest
           c == string[k + 1]
           l == Len(Escape(c))
<1>3. /\ reading.value = SubSeq(string, 1, k) /\ reading.errors = 0
      /\ rest \in Seq(0..255) /\ Len(rest) = Len(text) - Ends(k)
      /\ \A i \in 1..Len(rest) : rest[i] = text[Ends(k) + i]
      /\ k # Len(string)
  BY <1>1, <1>2, LeftToRead
<1>4. k < Len(string) /\ Len(string) \in Nat
  BY <1>3, EndsFacts
<1>5. /\ c \in 0..255 /\ l \in Nat \ {0}
      /\ Ends(k + 1) = Ends(k) + l /\ Ends(k + 1) <= Ends(Len(string))
      /\ \A i \in 1..l : text[Ends(k) + i] = Escape(c)[i]
      /\ Ends(k) \in Nat /\ Ends(Len(string)) \in Nat /\ Len(text) \in Nat
      /\ Len(text) = Ends(Len(string)) + 2
  BY <1>1, <1>4, EndsFacts
<1>6. l <= Len(rest) /\ \A i \in 1..l : rest[i] = Escape(c)[i]
  <2> HIDE DEF l, rest, c, Ends
  <2>1. l <= Len(rest)
    <3>1. Len(rest) = Len(text) - Ends(k)
      BY <1>3
    <3> HIDE DEF Escape
    <3> QED
      BY <1>5, <3>1
  <2>2. Len(rest) \in Nat
    BY <1>3
  <2>3. ASSUME NEW i \in 1..l PROVE rest[i] = Escape(c)[i]
    <3>1. i \in 1..Len(rest)
      BY <1>5, <2>1, <2>2
    <3>2. rest[i] = text[Ends(k) + i]
      BY <1>3, <3>1
    <3>3. text[Ends(k) + i] = Escape(c)[i]
      BY <1>5
    <3> QED
      BY <3>2, <3>3
  <2> QED
    BY <2>1, <2>3
<1>7. reading = Reading(reading.value, rest, 0)
  BY <1>2 DEF ReadSoFar, Reading
<1>8. ReadOne(Reading(reading.value, rest, 0)) =
        Reading(Append(reading.value, c), SubSeq(rest, l + 1, Len(rest)), 0)
  <2> DEFINE v == reading.value
  <2> HIDE DEF v, rest, c
  <2>1. /\ c \in 0..255 /\ rest \in Seq(0..255) /\ 0 \in Nat
        /\ Len(Escape(c)) <= Len(rest)
        /\ \A i \in 1..Len(Escape(c)) : rest[i] = Escape(c)[i]
    BY <1>3, <1>5, <1>6
  <2>2. ReadOne(Reading(v, rest, 0)) =
          Reading(Append(v, c), SubSeq(rest, Len(Escape(c)) + 1, Len(rest)), 0)
    BY <2>1, EscapeReadBack
  <2> QED
    BY <2>2 DEF v
<1>9. reading' = Reading(Append(reading.value, c), SubSeq(rest, l + 1, Len(rest)), 0)
  BY <1>7, <1>8 DEF ApplyRule
<1>10. Append(reading.value, c) = SubSeq(string, 1, k + 1)
  <2>1. string \in Seq(LiteralBytes)
    BY DEF LiteralInv
  <2> QED
    BY <1>3, <1>4, <2>1
<1>11. SubSeq(rest, l + 1, Len(rest)) = SubSeq(text, Ends(k + 1) + 1, Len(text))
  <2>1. text \in Seq(0..255) /\ rest = SubSeq(text, Ends(k) + 1, Len(text))
    BY <1>2 DEF LiteralInv, ReadSoFar, Reading
  <2>2. Ends(k) \in 0..Len(text) /\ l \in 0..Len(text) - Ends(k)
    BY <1>5
  <2>3. Ends(k + 1) = Ends(k) + l
    BY <1>5
  <2> DEFINE e == Ends(k)
  <2> HIDE DEF e, l, rest
  <2>4. e \in 0..Len(text) /\ l \in 0..Len(text) - e
    BY <2>2 DEF e
  <2>5. LET t == SubSeq(text, e + 1, Len(text)) IN
          SubSeq(t, l + 1, Len(t)) = SubSeq(text, (e + l) + 1, Len(text))
    BY <2>1, <2>4, SuffixOfSuffix
  <2> QED
    BY <2>1, <2>3, <2>5 DEF e
<1> HIDE DEF rest, c, l
<1>12. /\ string' = string /\ text' = text /\ ends' = ends /\ closed' = closed
  BY DEF ApplyRule
<1>13. ReadSoFar(k + 1)'
  <2>1. Ends(k + 1)' = Ends(k + 1)
    BY <1>12 DEF Ends
  <2> QED
    BY <1>9, <1>10, <1>11, <1>12, <2>1 DEF ReadSoFar
<1>14. k + 1 \in 0..Len(string')
  BY <1>4, <1>12
<1>15. WhatIsPrinted'
  BY <1>12 DEF LiteralInv, WhatIsPrinted, Ends
<1> QED
  BY <1>12, <1>13, <1>14, <1>15 DEF LiteralInv

\* At the quote that ends the literal, all of it has been read.
LEMMA LiteralInvReads == LiteralInv => StringsReadBack
<1> SUFFICES ASSUME LiteralInv, closed PROVE StringsReadBack
  BY DEF StringsReadBack
<1>1. PICK k \in 0..Len(string) : ReadSoFar(k)
  BY DEF LiteralInv
<1>2. /\ reading.value = SubSeq(string, 1, k) /\ reading.errors = 0
      /\ reading.rest \in Seq(0..255)
      /\ Len(reading.rest) = Len(text) - Ends(k)
      /\ Len(reading.rest) >= 2
      /\ \A i \in 1..Len(reading.rest) : reading.rest[i] = text[Ends(k) + i]
      /\ reading.rest[1] = Quote <=> k = Len(string)
  BY <1>1, LeftToRead
<1>3. reading.rest # << >>
  BY <1>2
<1>4. ASSUME reading.rest[1] = Quote
      PROVE  reading.value = string /\ reading.rest = AfterLiteral
  <2>1. k = Len(string)
    BY <1>2, <1>4
  <2>2. SubSeq(string, 1, Len(string)) = string
    BY DEF LiteralInv
  <2>3. Len(text) = Ends(k) + 2 /\ Ends(k) \in Nat
    BY <2>1, EndsFacts
  <2>4. Len(reading.rest) = 2
    BY <1>2, <2>3
  <2>5. reading.rest[2] = 48
    <3>1. text[Len(text)] = 48
      BY DEF LiteralInv, WhatIsPrinted
    <3>2. 2 \in 1..Len(reading.rest)
      BY <2>4
    <3> QED
      BY <1>2, <2>3, <3>1, <3>2
  <2>6. reading.rest = << Quote, 48 >>
    BY <1>2, <1>4, <2>4, <2>5
  <2> QED
    BY <1>2, <2>1, <2>2, <2>6 DEF AfterLiteral
<1> QED
  BY <1>2, <1>3, <1>4 DEF StringsReadBack

\* Whatever the bytes of a string and however many they are, what
\* misc::escape prints of it is read back, without an error, as the string it
\* was, up to the quote that closes it (pretty-printer.cc, StringExp, and
\* scantiger.ll, SC_STRING).
THEOREM StringsSurvive == LiteralSpec => []StringsReadBack
<1>1. LiteralInv /\ [LiteralNext]_literalVars => LiteralInv'
  <2> SUFFICES ASSUME LiteralInv, [LiteralNext]_literalVars PROVE LiteralInv'
    OBVIOUS
  <2>1. ASSUME NEW c \in LiteralBytes, PrintByte(c) PROVE LiteralInv'
    BY <2>1, PrintByteInv
  <2>2. CASE CloseLiteral
    BY <2>2, CloseLiteralInv
  <2>3. CASE ApplyRule
    BY <2>3, ApplyRuleInv
  <2>4. CASE UNCHANGED literalVars
    BY <2>4 DEF literalVars, LiteralInv, WhatIsPrinted, ReadSoFar, Ends
  <2> QED
    BY <2>1, <2>2, <2>3, <2>4 DEF LiteralNext
<1> QED
  BY <1>1, LiteralInitInv, LiteralInvReads, PTL DEF LiteralSpec

-----------------------------------------------------------------------------
(* The Tweasts.                                                            *)

\* What an item can be.
LEMMA ItemKinds ==
  ASSUME NEW w \in TextItem
  PROVE  /\ w.kind = WordKind => w.key \in Words
         /\ w.kind # WordKind =>
              /\ w.kind \in Kinds \cup {TweastKind} /\ w.key \in Nat
              /\ w = Show(w.kind, w.key)
         /\ w.kind # WordKind /\ w.kind # TweastKind =>
              w.kind \in Kinds /\ w \in [kind : Kinds, key : Nat]
BY TweastAssumption DEF TextItem, Reference, Kinds, WordKind, TweastKind, Show

LEMMA KindsApart == WordKind \notin Kinds /\ TweastKind \notin Kinds /\ WordKind # TweastKind
BY TweastAssumption DEF Kinds, WordKind, TweastKind

LEMMA ShowIs ==
  ASSUME NEW kind \in Kinds \cup {TweastKind}, NEW n \in Nat
  PROVE  /\ Show(kind, n) \in TextItem /\ Show(kind, n).kind = kind /\ Show(kind, n).key = n
         /\ Show(kind, n).kind # WordKind
         /\ kind \in Kinds => Show(kind, n) \in [kind : Kinds, key : Nat]
BY KindsApart DEF Show, TextItem, Reference

LEMMA TreeReference ==
  ASSUME NEW r \in [kind : Kinds, key : Nat]
  PROVE  /\ r \in TextItem /\ r.kind \in Kinds /\ r.kind # WordKind /\ r.kind # TweastKind
         /\ r.key \in Nat
BY KindsApart DEF TextItem, Reference

LEMMA WordIs ==
  ASSUME NEW w \in Words PROVE Word(w) \in TextItem /\ Word(w).kind = WordKind /\ Word(w).key = w
BY DEF Word, TextItem

\* What is left of a map.
LEMMA WithoutFacts ==
  ASSUME NEW f, NEW key
  PROVE  /\ DOMAIN Without(f, key) = DOMAIN f \ {key}
         /\ \A k \in DOMAIN f \ {key} : Without(f, key)[k] = f[k]
BY DEF Without

\* The least of the places of a reference that stands in one place.
LEMMA OnlyPlace ==
  ASSUME NEW items \in Seq(TextItem), NEW i \in DOMAIN items,
         \A j \in DOMAIN items : items[j] = items[i] => j = i
  PROVE  Places(items, items[i]) = {i} /\ Min(Places(items, items[i])) = i
<1>1. Places(items, items[i]) = {i}
  BY DEF Places
<1>2. i \in Nat
  OBVIOUS
<1>3. Min({i}) = i
  BY <1>2 DEF Min
<1> QED
  BY <1>1, <1>3

\* replace_first, of a reference that stands in one place.
LEMMA ReplaceSplices ==
  ASSUME NEW items \in Seq(TextItem), NEW i \in DOMAIN items,
         \A j \in DOMAIN items : items[j] = items[i] => j = i,
         NEW new \in Seq(TextItem)
  PROVE  ReplaceReference(items, items[i], new) = Spliced(items, i, new)
<1>1. Places(items, items[i]) = {i} /\ Min(Places(items, items[i])) = i
  BY OnlyPlace
<1> QED
  BY <1>1 DEF ReplaceReference, Spliced

\* One reference for another.
LEMMA ReplaceOne ==
  ASSUME NEW items \in Seq(TextItem), NEW i \in DOMAIN items,
         \A j \in DOMAIN items : items[j] = items[i] => j = i,
         NEW w \in TextItem
  PROVE  LET r == ReplaceReference(items, items[i], << w >>) IN
         /\ r \in Seq(TextItem) /\ DOMAIN r = DOMAIN items
         /\ \A j \in DOMAIN items : r[j] = IF j = i THEN w ELSE items[j]
<1>1. ReplaceReference(items, items[i], << w >>) = Spliced(items, i, << w >>)
  <2>1. << w >> \in Seq(TextItem)
    OBVIOUS
  <2> QED
    BY <2>1, ReplaceSplices
<1>2. Spliced(items, i, << w >>) \in Seq(TextItem) /\ ChangedAt(Spliced(items, i, << w >>), items, i, w)
  BY SplicedOne
<1> QED
  BY <1>1, <1>2 DEF ChangedAt

\* A whole text for a reference.
LEMMA ReplaceMany ==
  ASSUME NEW items \in Seq(TextItem), NEW i \in DOMAIN items,
         \A j \in DOMAIN items : items[j] = items[i] => j = i,
         NEW new \in Seq(TextItem)
  PROVE  SplicedAt(ReplaceReference(items, items[i], new), items, i, new)
         /\ ReplaceReference(items, items[i], new) \in Seq(TextItem)
BY ReplaceSplices, SplicedFacts

\* Where the items of the new text come from.
LEMMA ReplaceFrom ==
  ASSUME NEW items \in Seq(TextItem), NEW i \in DOMAIN items,
         \A j \in DOMAIN items : items[j] = items[i] => j = i,
         NEW new \in Seq(TextItem)
  PROVE  LET r == ReplaceReference(items, items[i], new)
             q == Len(new)
         IN /\ r \in Seq(TextItem)
            /\ \A j \in DOMAIN r :
                 \/ j \in 1 .. i - 1 /\ j \in DOMAIN items /\ r[j] = items[j]
                 \/ /\ (j - i) + 1 \in DOMAIN new
                    /\ r[j] = new[(j - i) + 1]
                 \/ /\ (j - q) + 1 \in DOMAIN items /\ (j - q) + 1 > i
                    /\ r[j] = items[(j - q) + 1]
            /\ \A w : w # items[i] /\ InText(items, w) => InText(r, w)
            /\ \A w : InText(new, w) => InText(r, w)
<1> DEFINE r == ReplaceReference(items, items[i], new)
           q == Len(new)
           n == Len(items)
<1>1. /\ r \in Seq(TextItem) /\ Len(r) = (n + q) - 1
      /\ \A j \in 1 .. i - 1 : r[j] = items[j]
      /\ \A j \in 1 .. q : r[(i - 1) + j] = new[j]
      /\ \A j \in 1 .. n - i : r[((i - 1) + q) + j] = items[i + j]
  BY ReplaceMany DEF SplicedAt
<1>2. /\ n \in Nat /\ i \in 1 .. n /\ q \in Nat
      /\ DOMAIN items = 1 .. n /\ DOMAIN new = 1 .. q
  OBVIOUS
<1> HIDE DEF r, q, n
<1>3. DOMAIN r = 1 .. (n + q) - 1
  BY <1>1
<1>4. ASSUME NEW j \in DOMAIN r
      PROVE  \/ j \in 1 .. i - 1 /\ j \in DOMAIN items /\ r[j] = items[j]
             \/ (j - i) + 1 \in DOMAIN new /\ r[j] = new[(j - i) + 1]
             \/ /\ (j - q) + 1 \in DOMAIN items /\ (j - q) + 1 > i
                /\ r[j] = items[(j - q) + 1]
  <2>1. CASE j < i
    <3>1. j \in 1 .. i - 1 /\ j \in DOMAIN items
      BY <1>2, <1>3, <2>1
    <3> QED
      BY <1>1, <3>1
  <2>2. CASE i <= j /\ j <= (i - 1) + q
    <3> DEFINE o == (j - i) + 1
    <3>1. o \in 1 .. q /\ (i - 1) + o = j
      BY <1>2, <1>3, <2>2
    <3> HIDE DEF o
    <3>2. r[j] = new[o]
      BY <1>1, <3>1
    <3> QED
      BY <1>2, <3>1, <3>2 DEF o
  <2>3. CASE j > (i - 1) + q
    <3> DEFINE o == j - ((i - 1) + q)
    <3>1. o \in 1 .. n - i /\ ((i - 1) + q) + o = j /\ i + o = (j - q) + 1
          /\ i + o \in 1 .. n /\ i + o > i
      <4>1. j \in Nat /\ i \in Nat /\ q \in Nat /\ n \in Nat /\ j <= (n + q) - 1
        BY <1>2, <1>3
      <4>0. j - ((i - 1) + q) >= 1 /\ j - ((i - 1) + q) <= n - i
        BY <2>3, <4>1
      <4>2. o >= 1 /\ o <= n - i /\ o \in Int
        BY <4>0, <4>1
      <4> QED
        <5>1. i + o = (j - q) + 1 /\ ((i - 1) + q) + o = j
          BY <4>1
        <5>2. i + o \in 1 .. n /\ i + o > i
          BY <4>1, <4>2
        <5> QED
          BY <4>1, <4>2, <5>1, <5>2
    <3> HIDE DEF o
    <3>2. r[j] = items[i + o]
      BY <1>1, <3>1
    <3> QED
      BY <1>2, <3>1, <3>2
  <2> QED
    BY <1>2, <1>3, <2>1, <2>2, <2>3
<1>5. ASSUME NEW w, w # items[i], InText(items, w) PROVE InText(r, w)
  <2>1. PICK j \in DOMAIN items : items[j] = w
    BY <1>5 DEF InText
  <2>2. j \in 1 .. n /\ j # i
    BY <1>2, <1>5, <2>1
  <2>3. CASE j < i
    <3>1. j \in 1 .. i - 1 /\ j \in DOMAIN r
      BY <1>2, <1>3, <2>2, <2>3
    <3> QED
      BY <1>1, <2>1, <3>1 DEF InText
  <2>4. CASE j > i
    <3> DEFINE o == j - i
    <3>1. o \in 1 .. n - i /\ i + o = j /\ ((i - 1) + q) + o \in DOMAIN r
      <4>1. j \in Nat /\ i \in Nat /\ q \in Nat /\ n \in Nat /\ j <= n /\ i >= 1
        BY <1>2, <2>2
      <4>2. o \in 1 .. n - i /\ i + o = j
        BY <2>4, <4>1
      <4>3. ((i - 1) + q) + o \in 1 .. (n + q) - 1
        BY <2>4, <4>1
      <4> QED
        BY <1>3, <4>2, <4>3
    <3> HIDE DEF o
    <3>2. r[((i - 1) + q) + o] = w
      BY <1>1, <2>1, <3>1
    <3> QED
      BY <3>1, <3>2 DEF InText
  <2> QED
    BY <1>2, <2>2, <2>3, <2>4
<1>6. ASSUME NEW w, InText(new, w) PROVE InText(r, w)
  <2>1. PICK j \in DOMAIN new : new[j] = w
    BY <1>6 DEF InText
  <2>2. j \in 1 .. q /\ (i - 1) + j \in DOMAIN r
    BY <1>2, <1>3, <2>1
  <2>3. r[(i - 1) + j] = w
    BY <1>1, <2>1, <2>2
  <2> QED
    BY <2>2, <2>3 DEF InText
<1> QED
  BY <1>1, <1>4, <1>5, <1>6 DEF r, q

\* How a text stays numbered.
LEMMA NumberedMore ==
  ASSUME NEW items \in Seq(TextItem), NEW n \in Nat, NEW m \in Nat, n <= m, Numbered(items, n)
  PROVE  Numbered(items, m)
<1> SUFFICES ASSUME NEW i \in DOMAIN items, items[i].kind # WordKind
             PROVE  items[i].key < m /\ \A j \in DOMAIN items : items[j] = items[i] => j = i
  BY DEF Numbered
<1>1. items[i] \in TextItem
  OBVIOUS
<1>2. items[i].key \in Nat
  BY <1>1, ItemKinds
<1> QED
  BY <1>2 DEF Numbered

LEMMA NumberedAppend ==
  ASSUME NEW items \in Seq(TextItem), NEW n \in Nat, Numbered(items, n),
         NEW w \in TextItem, NEW m \in Nat, n <= m,
         w.kind # WordKind => w.key = n /\ m = n + 1
  PROVE  Numbered(Append(items, w), m)
<1> DEFINE r == Append(items, w)
           l == Len(items)
<1>1. /\ l \in Nat /\ DOMAIN items = 1 .. l /\ DOMAIN r = 1 .. l + 1
      /\ \A i \in 1 .. l : r[i] = items[i] /\ items[i] \in TextItem
      /\ r[l + 1] = w
  BY AppendFacts
<1> HIDE DEF r, l
<1>2. \A i \in 1 .. l : items[i].kind # WordKind => items[i].key \in Nat /\ items[i].key < n
  BY <1>1, ItemKinds DEF Numbered
<1> SUFFICES ASSUME NEW i \in DOMAIN r, r[i].kind # WordKind
             PROVE  r[i].key < m /\ \A j \in DOMAIN r : r[j] = r[i] => j = i
  BY DEF Numbered, r
<1>3. i \in 1 .. l \/ i = l + 1
  BY <1>1
<1>4. CASE i \in 1 .. l
  <2>1. r[i].key < n /\ r[i].key \in Nat
    BY <1>1, <1>2, <1>4
  <2>2. r[l + 1] # r[i]
    BY <1>1, <2>1
  <2>3. \A j \in 1 .. l : r[j] = r[i] => j = i
    BY <1>1, <1>4 DEF Numbered
  <2> QED
    BY <1>1, <2>1, <2>2, <2>3
<1>5. CASE i = l + 1
  <2>1. r[i].key = n /\ m = n + 1
    BY <1>1, <1>5
  <2>2. \A j \in 1 .. l : r[j] # r[i]
    BY <1>1, <1>2, <1>5, <2>1
  <2> QED
    BY <1>1, <1>5, <2>1, <2>2
<1> QED
  BY <1>3, <1>4, <1>5

LEMMA NumberedTail ==
  ASSUME NEW items \in Seq(TextItem), NEW n \in Nat, Numbered(items, n), items # << >>
  PROVE  /\ Numbered(Tail(items), n)
         /\ Head(items).kind # WordKind => ~ InText(Tail(items), Head(items))
         /\ \A w : w # Head(items) /\ InText(items, w) => InText(Tail(items), w)
<1> DEFINE l == Len(items)
           r == Tail(items)
<1>1. /\ l \in Nat \ {0} /\ DOMAIN items = 1 .. l /\ DOMAIN r = 1 .. l - 1
      /\ \A i \in 1 .. l - 1 : r[i] = items[i + 1]
      /\ Head(items) = items[1]
  BY TailFacts
<1> HIDE DEF r, l
<1>2. ASSUME NEW i \in DOMAIN r, r[i].kind # WordKind
      PROVE  r[i].key < n /\ \A j \in DOMAIN r : r[j] = r[i] => j = i
  <2>1. i + 1 \in DOMAIN items /\ r[i] = items[i + 1]
    BY <1>1
  <2>2. r[i].key < n
    BY <1>2, <2>1 DEF Numbered
  <2>3. ASSUME NEW j \in DOMAIN r, r[j] = r[i] PROVE j = i
    <3>1. j + 1 \in DOMAIN items /\ r[j] = items[j + 1]
      BY <1>1
    <3>2. j + 1 = i + 1
      BY <1>2, <2>1, <2>3, <3>1 DEF Numbered
    <3> QED
      BY <1>1, <3>2
  <2> QED
    BY <2>2, <2>3
<1>3. ASSUME Head(items).kind # WordKind, InText(r, Head(items)) PROVE FALSE
  <2>1. PICK j \in DOMAIN r : r[j] = Head(items)
    BY <1>3 DEF InText
  <2>2. j + 1 \in DOMAIN items /\ items[j + 1] = items[1] /\ 1 \in DOMAIN items /\ j + 1 # 1
    BY <1>1, <2>1
  <2> QED
    BY <1>1, <1>3, <2>2 DEF Numbered
<1>4. ASSUME NEW w, w # Head(items), InText(items, w) PROVE InText(r, w)
  <2>1. PICK j \in DOMAIN items : items[j] = w
    BY <1>4 DEF InText
  <2>2. j # 1
    BY <1>1, <1>4, <2>1
  <2>3. j - 1 \in DOMAIN r /\ (j - 1) + 1 = j
    BY <1>1, <2>2
  <2>4. r[j - 1] = w
    BY <1>1, <2>1, <2>3
  <2> QED
    BY <2>3, <2>4 DEF InText
<1> QED
  BY <1>2, <1>3, <1>4 DEF Numbered, r

\* One reference for another, with the next number.
LEMMA NumberedReplaceOne ==
  ASSUME NEW items \in Seq(TextItem), NEW n \in Nat, Numbered(items, n),
         NEW i \in DOMAIN items, items[i].kind # WordKind,
         NEW w \in TextItem, w.kind # WordKind, w.key = n
  PROVE  Numbered(ReplaceReference(items, items[i], << w >>), n + 1)
<1> DEFINE r == ReplaceReference(items, items[i], << w >>)
<1>1. \A j \in DOMAIN items : items[j] = items[i] => j = i
  BY DEF Numbered
<1>2. /\ r \in Seq(TextItem) /\ DOMAIN r = DOMAIN items
      /\ \A j \in DOMAIN items : r[j] = IF j = i THEN w ELSE items[j]
  BY <1>1, ReplaceOne
<1> HIDE DEF r
<1>3. \A j \in DOMAIN items : items[j] \in TextItem
  OBVIOUS
<1>4. \A j \in DOMAIN items : items[j].kind # WordKind => items[j].key \in Nat /\ items[j].key < n
  BY <1>3, ItemKinds DEF Numbered
<1>5. \A j \in DOMAIN items : items[j] # w
  BY <1>4
<1> SUFFICES ASSUME NEW j \in DOMAIN items, r[j].kind # WordKind
             PROVE  r[j].key < n + 1 /\ \A k \in DOMAIN items : r[k] = r[j] => k = j
  BY <1>2 DEF Numbered, r
<1>6. CASE j = i
  BY <1>2, <1>5, <1>6
<1>7. CASE j # i
  <2>1. r[j] = items[j] /\ items[j].kind # WordKind
    BY <1>2, <1>7
  <2>2. items[j].key < n /\ \A k \in DOMAIN items : items[k] = items[j] => k = j
    BY <2>1 DEF Numbered
  <2> QED
    BY <1>2, <1>4, <1>5, <2>1, <2>2
<1> QED
  BY <1>6, <1>7

\* A text for a reference, which brings other references.
LEMMA NumberedReplace ==
  ASSUME NEW items \in Seq(TextItem), NEW n \in Nat, Numbered(items, n),
         NEW i \in DOMAIN items, items[i].kind # WordKind,
         NEW new \in Seq(TextItem), Numbered(new, n),
         \A j \in DOMAIN new : new[j].kind # WordKind => ~ InText(items, new[j])
  PROVE  LET r == ReplaceReference(items, items[i], new) IN
         /\ Numbered(r, n)
         /\ \A j \in DOMAIN r :
              InText(new, r[j]) \/ (InText(items, r[j]) /\ r[j] # items[i])
<1> DEFINE r == ReplaceReference(items, items[i], new)
           q == Len(new)
<1>1. \A j \in DOMAIN items : items[j] = items[i] => j = i
  BY DEF Numbered
<1> DEFINE InNew(j) == (j - i) + 1 \in DOMAIN new /\ r[j] = new[(j - i) + 1]
           Before_(j) == j \in 1 .. i - 1 /\ j \in DOMAIN items /\ r[j] = items[j]
           After(j) == /\ (j - q) + 1 \in DOMAIN items /\ (j - q) + 1 > i
                       /\ r[j] = items[(j - q) + 1]
           At(j) == IF Before_(j) THEN j ELSE (j - q) + 1
<1>2. r \in Seq(TextItem) /\ \A j \in DOMAIN r : Before_(j) \/ InNew(j) \/ After(j)
  BY <1>1, ReplaceFrom
<1>3. /\ q \in Nat /\ i \in Nat /\ DOMAIN r \subseteq Nat /\ DOMAIN items \subseteq Nat
      /\ DOMAIN new \subseteq Nat
  BY <1>2
<1> HIDE DEF r, q
<1>4. ASSUME NEW j \in DOMAIN r, ~ InNew(j)
      PROVE  /\ At(j) \in DOMAIN items /\ r[j] = items[At(j)] /\ At(j) # i
             /\ (At(j) < i => At(j) = j) /\ (At(j) > i => At(j) = (j - q) + 1)
  BY <1>2, <1>3, <1>4
<1>5. ASSUME NEW j \in DOMAIN r, InNew(j)
      PROVE  InText(new, r[j])
  BY <1>5 DEF InText
<1>6. ASSUME NEW j \in DOMAIN r, ~ InNew(j)
      PROVE  InText(items, r[j]) /\ r[j] # items[i]
  BY <1>1, <1>4, <1>6 DEF InText
<1>7. ASSUME NEW j \in DOMAIN r, r[j].kind # WordKind
      PROVE  r[j].key < n /\ \A k \in DOMAIN r : r[k] = r[j] => k = j
  <2>1. CASE InNew(j)
    <3>1. ASSUME NEW k \in DOMAIN r, r[k] = r[j] PROVE k = j
      <4>1. InNew(k)
        <5>1. ~ InText(items, r[j])
          BY <1>7, <2>1
        <5> QED
          BY <1>6, <3>1, <5>1
      <4>2. (k - i) + 1 = (j - i) + 1
        BY <1>7, <2>1, <3>1, <4>1 DEF Numbered
      <4> QED
        BY <1>3, <4>2
    <3>2. r[j].key < n
      BY <1>7, <2>1 DEF Numbered
    <3> QED
      BY <3>1, <3>2
  <2>2. CASE ~ InNew(j)
    <3> HIDE DEF At, InNew
    <3>1. At(j) \in DOMAIN items /\ r[j] = items[At(j)]
      BY <1>4, <2>2
    <3>2. ASSUME NEW k \in DOMAIN r, r[k] = r[j] PROVE k = j
      <4>1. ~ InNew(k)
        <5>1. InText(items, r[k])
          BY <1>6, <2>2, <3>2
        <5> QED
          BY <1>7, <3>2, <5>1 DEF InNew
      <4>2. At(k) = At(j)
        BY <1>4, <1>7, <3>1, <3>2, <4>1 DEF Numbered
      <4> QED
        BY <1>3, <1>4, <2>2, <4>1, <4>2
    <3>3. r[j].key < n
      BY <1>7, <3>1 DEF Numbered
    <3> QED
      BY <3>2, <3>3
  <2> QED
    BY <2>1, <2>2
<1>8. Numbered(r, n)
  BY <1>7 DEF Numbered
<1>9. \A j \in DOMAIN r : InText(new, r[j]) \/ (InText(items, r[j]) /\ r[j] # items[i])
  BY <1>5, <1>6
<1> QED
  BY <1>8, <1>9 DEF r

\* What an item stands for.
LEMMA PartTyped ==
  ASSUME TweastTypeOK, NEW id \in TweastIds, NEW w \in TextItem,
         w.kind \in Kinds => w \in DOMAIN trees[id],
         w.kind = TweastKind => w.key \in DOMAIN tweasts[id]
  PROVE  Part(id, w) \in Seq(Given)
<1>1. CASE w.kind = WordKind
  <2>1. w.key \in Given
    BY <1>1, ItemKinds DEF Given
  <2> QED
    BY <1>1, <2>1 DEF Part
<1>2. CASE w.kind = TweastKind
  <2>1. tweasts[id][w.key] \in TweastIds
    BY <1>2 DEF TweastTypeOK, IsMapOf
  <2>2. content[tweasts[id][w.key]] \in Seq(Given)
    BY <2>1 DEF TweastTypeOK
  <2> QED
    BY <1>2, <2>2, KindsApart DEF Part
<1>3. CASE w.kind # WordKind /\ w.kind # TweastKind
  <2>1. w \in DOMAIN trees[id]
    BY <1>3, ItemKinds
  <2>2. trees[id][w] \in Given
    BY <2>1 DEF TweastTypeOK, IsMapOf, Given
  <2> QED
    BY <1>3, <2>2 DEF Part
<1> QED
  BY <1>1, <1>2, <1>3

\* It goes on standing for the same as long as what it refers to stays.
LEMMA PartSame ==
  ASSUME NEW id \in TweastIds, NEW w \in TextItem,
         w.kind \in Kinds => trees'[id][w] = trees[id][w],
         w.kind = TweastKind =>
           /\ tweasts'[id][w.key] = tweasts[id][w.key]
           /\ content'[tweasts[id][w.key]] = content[tweasts[id][w.key]]
  PROVE  Part(id, w)' = Part(id, w)
<1>1. w.kind = WordKind \/ w.kind = TweastKind \/ w.kind \in Kinds
  BY ItemKinds
<1> QED
  BY <1>1, KindsApart DEF Part

\* The items of a text are referred to as they should be.
LEMMA ItemsOfText ==
  ASSUME NEW id \in TweastIds, texts \in [TweastIds -> Seq(TextItem)], References(id),
         NEW w, InText(texts[id], w)
  PROVE  /\ w \in TextItem
         /\ w.kind \in Kinds => w \in DOMAIN trees[id]
         /\ w.kind = TweastKind => w.key \in DOMAIN tweasts[id]
<1>1. PICK i \in DOMAIN texts[id] : texts[id][i] = w
  BY DEF InText
<1>2. texts[id] \in Seq(TextItem)
  OBVIOUS
<1>3. texts[id][i] \in TextItem
  BY <1>2
<1> QED
  BY <1>1, <1>3 DEF References

LEMMA ItemOfText ==
  ASSUME NEW items, NEW i \in DOMAIN items PROVE InText(items, items[i])
BY DEF InText

LEMMA PartsTyped ==
  ASSUME TweastTypeOK, NEW id \in TweastIds, References(id)
  PROVE  /\ Parts(id, texts[id]) \in Seq(Seq(Given))
         /\ Len(Parts(id, texts[id])) = Len(texts[id])
         /\ \A i \in 1 .. Len(texts[id]) : Parts(id, texts[id])[i] = Part(id, texts[id][i])
<1>1. texts[id] \in Seq(TextItem) /\ texts \in [TweastIds -> Seq(TextItem)]
  BY DEF TweastTypeOK
<1>2. ASSUME NEW i \in DOMAIN texts[id] PROVE Part(id, texts[id][i]) \in Seq(Given)
  BY <1>1, ItemOfText, ItemsOfText, PartTyped
<1> DEFINE n == Len(texts[id])
<1>3. n \in Nat /\ DOMAIN texts[id] = 1 .. n
  BY <1>1
<1>4. Parts(id, texts[id]) = [i \in 1 .. n |-> Part(id, texts[id][i])]
  BY <1>3 DEF Parts
<1> HIDE DEF n
<1>5. [i \in 1 .. n |-> Part(id, texts[id][i])] \in Seq(Seq(Given))
  BY <1>2, <1>3
<1> QED
  BY <1>3, <1>4, <1>5 DEF n

\* A text goes on spelling what was given while neither changes, and when both
\* get the same at the end.
LEMMA SpelledSame ==
  ASSUME NEW id \in TweastIds, Spelled(id),
         texts'[id] = texts[id], taken'[id] = taken[id], content'[id] = content[id],
         \A w : InText(texts[id], w) => Part(id, w)' = Part(id, w)
  PROVE  Spelled(id)'
<1>1. \A i \in DOMAIN texts[id] : Part(id, texts[id][i])' = Part(id, texts[id][i])
  <2> SUFFICES ASSUME NEW i \in DOMAIN texts[id]
               PROVE  Part(id, texts[id][i])' = Part(id, texts[id][i])
    OBVIOUS
  <2> DEFINE w == texts[id][i]
  <2>1. InText(texts[id], w)
    BY DEF InText
  <2>2. texts'[id][i] = w
    OBVIOUS
  <2> QED
    BY <2>1, <2>2 DEF Part
<1>2. Parts(id, texts[id])' = Parts(id, texts[id])
  BY <1>1 DEF Parts
<1> QED
  BY <1>2 DEF Spelled

LEMMA SpelledAppend ==
  ASSUME TweastTypeOK, NEW id \in TweastIds, References(id), Spelled(id),
         NEW x \in TextItem, texts'[id] = Append(texts[id], x), taken'[id] = taken[id],
         NEW p \in Seq(Given), content'[id] = content[id] \o p, Part(id, x)' = p,
         \A w : InText(texts[id], w) => Part(id, w)' = Part(id, w)
  PROVE  Spelled(id)'
<1>0. PICK n : n = Len(texts[id])
  OBVIOUS
<1> DEFINE P == Parts(id, texts[id])
           r == Append(texts[id], x)
           F == FlattenSeq(P)
<1>1. P \in Seq(Seq(Given)) /\ Len(P) = n /\ \A i \in 1 .. n : P[i] = Part(id, texts[id][i])
  BY <1>0, PartsTyped
<1>2. texts[id] \in Seq(TextItem) /\ taken[id] \in Seq(Given) /\ content[id] \in Seq(Given)
  BY DEF TweastTypeOK
<1>3. /\ n \in Nat /\ DOMAIN r = 1 .. n + 1 /\ \A i \in 1 .. n : r[i] = texts[id][i]
      /\ r[n + 1] = x /\ DOMAIN texts[id] = 1 .. n
  BY <1>0, <1>2, AppendFacts
<1>4. ASSUME NEW i \in 1 .. n PROVE Part(id, texts[id][i])' = P[i]
  <2> DEFINE w == texts[id][i]
  <2>1. InText(texts[id], w)
    BY <1>3 DEF InText
  <2>2. texts'[id][i] = w
    BY <1>3
  <2>3. Part(id, texts[id][i])' = Part(id, w)
    BY <2>1, <2>2 DEF Part
  <2> QED
    BY <1>1, <2>3
<1>5. Part(id, texts[id][n + 1])' = p
  <2>1. texts'[id][n + 1] = x
    BY <1>3
  <2> QED
    BY <2>1 DEF Part
<1>6. /\ Append(P, p) \in Seq(Seq(Given)) /\ DOMAIN Append(P, p) = 1 .. n + 1
      /\ \A i \in 1 .. n : Append(P, p)[i] = P[i]
      /\ Append(P, p)[n + 1] = p
  <2> HIDE DEF P
  <2> QED
    BY <1>1, AppendFacts
<1>7. Parts(id, texts[id])' = Append(P, p)
  <2>1. DOMAIN texts'[id] = 1 .. n + 1
    BY <1>3
  <2>2. Parts(id, texts[id])' = [i \in 1 .. n + 1 |-> Part(id, texts[id][i])']
    BY <2>1 DEF Parts
  <2> HIDE DEF P
  <2>3. ASSUME NEW i \in 1 .. n + 1 PROVE Part(id, texts[id][i])' = Append(P, p)[i]
    <3>1. i \in 1 .. n \/ i = n + 1
      BY <1>3
    <3> QED
      BY <1>4, <1>5, <1>6, <3>1
  <2>4. Append(P, p) = [i \in 1 .. n + 1 |-> Append(P, p)[i]]
    <3> DEFINE A == Append(P, p)
    <3> HIDE DEF A
    <3>1. A \in Seq(Seq(Given)) /\ DOMAIN A = 1 .. n + 1
      BY <1>6 DEF A
    <3>2. A = [i \in 1 .. n + 1 |-> A[i]]
      BY <3>1
    <3> QED
      BY <3>2 DEF A
  <2> QED
    BY <2>2, <2>3, <2>4
<1> HIDE DEF P
<1>8. F \in Seq(Given) /\ FlattenSeq(Append(P, p)) = F \o p
  BY <1>1, FlattenAppend
<1>9. content[id] = taken[id] \o F
  BY DEF Spelled, P
<1> HIDE DEF F
<1>10. (taken[id] \o F) \o p = taken[id] \o (F \o p)
  <2>1. \A a, b, c \in Seq(Given) : (a \o b) \o c = a \o (b \o c)
    BY ConcatOfThree
  <2> QED
    BY <1>2, <1>8, <2>1, Zenon
<1>11. content'[id] = taken'[id] \o FlattenSeq(Append(P, p))
  BY <1>8, <1>9, <1>10
<1> QED
  BY <1>7, <1>11 DEF Spelled

-----------------------------------------------------------------------------
\* How references stay right.
LEMMA ReferencesSame ==
  ASSUME TweastTypeOK, NEW id \in TweastIds, References(id),
         texts'[id] = texts[id], DOMAIN trees'[id] = DOMAIN trees[id],
         DOMAIN tweasts'[id] = DOMAIN tweasts[id], count_' \in Nat, count_ <= count_',
         \A ref : Arriving(id, ref) => Arriving(id, ref)'
  PROVE  References(id)'
<1>1. texts[id] \in Seq(TextItem) /\ count_ \in Nat
  BY DEF TweastTypeOK
<1>2. Numbered(texts[id], count_) => Numbered(texts[id], count_')
  BY <1>1, NumberedMore
<1>3. Numbered(texts[id], count_)'
  BY <1>2 DEF References, Numbered
<1>4. \A ref \in DOMAIN trees'[id] : InText(texts'[id], ref) \/ Arriving(id, ref)'
  BY DEF References
<1>5. \A k \in DOMAIN tweasts'[id] : InText(texts'[id], Show(TweastKind, k))
  BY DEF References
<1>6. \A i \in DOMAIN texts'[id] :
       /\ texts'[id][i].kind \in Kinds => texts'[id][i] \in DOMAIN trees'[id]
       /\ texts'[id][i].kind = TweastKind => texts'[id][i].key \in DOMAIN tweasts'[id]
  BY DEF References
<1> QED
  BY <1>3, <1>4, <1>5, <1>6 DEF References, InText

LEMMA InAppend ==
  ASSUME NEW S, NEW items \in Seq(S), NEW x \in S
  PROVE  \A w : InText(Append(items, x), w) <=> InText(items, w) \/ w = x
<1>1. /\ Len(items) \in Nat /\ DOMAIN items = 1 .. Len(items)
      /\ DOMAIN Append(items, x) = 1 .. Len(items) + 1
      /\ \A i \in 1 .. Len(items) : Append(items, x)[i] = items[i]
      /\ Append(items, x)[Len(items) + 1] = x
  BY AppendFacts
<1> DEFINE r == Append(items, x)
           n == Len(items)
<1> HIDE DEF r, n
<1>2. \A i \in 1 .. n + 1 : i \in 1 .. n \/ i = n + 1
  BY <1>1 DEF n
<1>3. n + 1 \in 1 .. n + 1 /\ \A i \in 1 .. n : i \in 1 .. n + 1
  BY <1>1 DEF n
<1>4. \A w : InText(r, w) <=> InText(items, w) \/ w = x
  BY <1>1, <1>2, <1>3 DEF InText, r, n
<1> QED
  BY <1>4 DEF r

LEMMA ReferencesAppend ==
  ASSUME TweastTypeOK, NEW id \in TweastIds, References(id), ~ moving,
         NEW x \in TextItem, texts'[id] = Append(texts[id], x),
         count_' \in Nat, count_ <= count_',
         x.kind # WordKind => x.key = count_ /\ count_' = count_ + 1,
         DOMAIN trees'[id] = DOMAIN trees[id] \cup (IF x.kind \in Kinds THEN {x} ELSE {}),
         DOMAIN tweasts'[id] =
           DOMAIN tweasts[id] \cup (IF x.kind = TweastKind THEN {x.key} ELSE {})
  PROVE  References(id)'
<1>1. texts[id] \in Seq(TextItem) /\ count_ \in Nat /\ texts \in [TweastIds -> Seq(TextItem)]
  BY DEF TweastTypeOK
<1>2. Numbered(texts[id], count_)
  BY DEF References
<1>3. Numbered(Append(texts[id], x), count_')
  BY <1>1, <1>2, NumberedAppend
<1>4. Numbered(texts'[id], count_')
  BY <1>3
<1>5. \A w : InText(texts'[id], w) <=> InText(texts[id], w) \/ w = x
  BY <1>1, InAppend
<1>6. ASSUME NEW ref \in DOMAIN trees'[id] PROVE InText(texts'[id], ref)
  <2>1. ref \in DOMAIN trees[id] \/ ref = x
    OBVIOUS
  <2> QED
    BY <1>5, <2>1 DEF References, Arriving
<1>7. ASSUME NEW k \in DOMAIN tweasts'[id] PROVE InText(texts'[id], Show(TweastKind, k))
  <2>1. CASE k \in DOMAIN tweasts[id]
    BY <1>5, <2>1 DEF References
  <2>2. CASE k \notin DOMAIN tweasts[id]
    <3>1. x.kind = TweastKind /\ k = x.key
      BY <2>2
    <3>2. x = Show(TweastKind, k)
      BY <3>1, ItemKinds, KindsApart
    <3> QED
      BY <1>5, <3>2
  <2> QED
    BY <2>1, <2>2
<1>8. ASSUME NEW w, InText(texts'[id], w)
      PROVE  /\ w.kind \in Kinds => w \in DOMAIN trees'[id]
             /\ w.kind = TweastKind => w.key \in DOMAIN tweasts'[id]
  <2>1. CASE w = x
    BY <2>1
  <2>2. CASE InText(texts[id], w)
    BY <1>1, <2>2, ItemsOfText
  <2> QED
    BY <1>5, <1>8, <2>1, <2>2
<1>9. \A i \in DOMAIN texts'[id] :
       /\ texts'[id][i].kind \in Kinds => texts'[id][i] \in DOMAIN trees'[id]
       /\ texts'[id][i].kind = TweastKind => texts'[id][i].key \in DOMAIN tweasts'[id]
  BY <1>8, ItemOfText
<1> QED
  BY <1>4, <1>6, <1>7, <1>9 DEF References

-----------------------------------------------------------------------------
\* Nothing is moved but by a call of flatten.
LEMMA NothingMoves ==
  ASSUME TweastInv, flattening = << >> PROVE moving = FALSE
BY DEF TweastInv, MovedText, TweastTypeOK

\* A Tweast that is not put into another one is in no other.
LEMMA NotHeld ==
  ASSUME TweastInv, NEW x \in TweastIds, place[x] # "tweast",
         NEW c \in TweastIds, NEW k \in DOMAIN tweasts[c]
  PROVE  tweasts[c][k] # x
BY DEF TweastInv, Owned

\* The parts of a text, when only a Tweast that no other holds has changed.
LEMMA OtherParts ==
  ASSUME TweastInv, NEW x \in TweastIds, place[x] # "tweast",
         NEW c \in TweastIds, \A k \in DOMAIN tweasts[c] : tweasts'[c][k] = tweasts[c][k],
         \A d \in TweastIds : d # x => content'[d] = content[d],
         NEW w, InText(texts[c], w), w.kind \in Kinds => trees'[c][w] = trees[c][w]
  PROVE  Part(c, w)' = Part(c, w)
<1>1. texts \in [TweastIds -> Seq(TextItem)] /\ References(c)
  BY DEF TweastInv, TweastTypeOK
<1>2. /\ w \in TextItem
      /\ w.kind = TweastKind => w.key \in DOMAIN tweasts[c]
  BY <1>1, ItemsOfText
<1>3. w.kind = TweastKind => tweasts[c][w.key] # x /\ tweasts[c][w.key] \in TweastIds
  BY <1>2, NotHeld DEF TweastInv, TweastTypeOK, IsMapOf
<1> QED
  BY <1>2, <1>3, PartSame

\* While no call of flatten is in progress, four facts are to be kept.
LEMMA RunningKeeps ==
  ASSUME TweastInv, flattening' = << >>, moving' = FALSE, broken' = FALSE, TweastTypeOK',
         \A id \in TweastIds : References(id)' /\ Spelled(id)' /\ Kept(id)', Owned'
  PROVE  TweastInv'
<1>1. DOMAIN flattening' = {}
  OBVIOUS
<1> QED
  BY <1>1 DEF TweastInv

\* The actions of the program, which keep what every step is to keep.
LEMMA MakeKeeps ==
  ASSUME TweastInv, NEW id \in TweastIds, Make(id) PROVE TweastInv'
<1> USE DEF Make, AtRest, innerVars
<1>1. moving = FALSE
  BY NothingMoves
<1>2. TweastTypeOK'
  BY DEF TweastInv, TweastTypeOK
<1>3. ASSUME NEW c \in TweastIds PROVE References(c)'
  <2>1. TweastTypeOK /\ References(c)
    BY DEF TweastInv
  <2>2. count_ <= count_' /\ count_' \in Nat
    BY <2>1 DEF TweastTypeOK
  <2>3. \A ref : ~ Arriving(c, ref)
    BY <1>1 DEF Arriving
  <2> QED
    BY <2>1, <2>2, <2>3, ReferencesSame
<1>4. ASSUME NEW c \in TweastIds PROVE Spelled(c)'
  BY DEF TweastInv, Spelled, Parts, Part
<1>5. ASSUME NEW c \in TweastIds PROVE Kept(c)'
  <2>1. Kept(c) /\ Kept(id) /\ place \in [TweastIds -> {"none", "program", "tweast", "parser"}]
    BY DEF TweastInv, TweastTypeOK
  <2>2. CASE c = id
    BY <2>1, <2>2 DEF Kept
  <2>3. CASE c # id
    BY <2>1, <2>3 DEF Kept
  <2> QED
    BY <2>2, <2>3
<1>6. Owned'
  BY DEF TweastInv, Owned, TweastTypeOK, IsMapOf
<1> QED
  BY <1>1, <1>2, <1>3, <1>4, <1>5, <1>6, RunningKeeps DEF TweastInv

LEMMA AppendTextKeeps ==
  ASSUME TweastInv, NEW id \in TweastIds, NEW w \in Words, AppendText(id, w)
  PROVE  TweastInv'
<1> USE DEF AppendText, Building, AtRest, innerVars
<1>1. moving = FALSE
  BY NothingMoves
<1>0. TweastTypeOK /\ place[id] # "tweast"
  BY DEF TweastInv
<1> DEFINE x == Word(w)
<1>x. x \in TextItem /\ x.kind = WordKind /\ x.key = w /\ w \in Given /\ << w >> \in Seq(Given)
  BY WordIs DEF Given
<1>t. /\ texts'[id] = Append(texts[id], x) /\ content'[id] = Append(content[id], w)
      /\ \A c \in TweastIds : c # id => texts'[c] = texts[c] /\ content'[c] = content[c]
      /\ texts[id] \in Seq(TextItem) /\ content[id] \in Seq(Given)
  BY <1>0 DEF TweastTypeOK
<1>2. TweastTypeOK'
  <2>1. Append(texts[id], x) \in Seq(TextItem) /\ Append(content[id], w) \in Seq(Given)
    BY <1>x, <1>t
  <2> QED
    BY <1>0, <2>1 DEF TweastTypeOK
<1> HIDE DEF x
<1>3. ASSUME NEW c \in TweastIds PROVE References(c)'
  <2>1. References(c)
    BY DEF TweastInv
  <2>2. count_ <= count_' /\ count_' \in Nat
    BY <1>0 DEF TweastTypeOK
  <2>3. \A ref : ~ Arriving(c, ref)
    BY <1>1 DEF Arriving
  <2>4. CASE c # id
    BY <1>0, <1>t, <2>1, <2>2, <2>3, <2>4, ReferencesSame
  <2>5. CASE c = id
    <3>1. /\ DOMAIN trees'[id] = DOMAIN trees[id] \cup (IF x.kind \in Kinds THEN {x} ELSE {})
          /\ DOMAIN tweasts'[id] =
               DOMAIN tweasts[id] \cup (IF x.kind = TweastKind THEN {x.key} ELSE {})
      BY <1>x, KindsApart
    <3> QED
      BY <1>0, <1>1, <1>x, <1>t, <2>1, <2>2, <2>5, <3>1, ReferencesAppend
  <2> QED
    BY <2>4, <2>5
<1>4. ASSUME NEW c \in TweastIds PROVE Spelled(c)'
  <2>1. Spelled(c) /\ References(c)
    BY DEF TweastInv
  <2>2. ASSUME NEW v, InText(texts[c], v) PROVE Part(c, v)' = Part(c, v)
    BY <1>0, <1>t, <2>2, OtherParts
  <2>3. CASE c # id
    BY <1>t, <2>1, <2>2, <2>3, SpelledSame
  <2>4. CASE c = id
    <3>1. Part(id, x)' = << w >>
      BY <1>x DEF Part, x, Word
    <3>2. content'[id] = content[id] \o << w >>
      BY <1>x, <1>t, AppendIs
    <3> QED
      BY <1>0, <1>x, <1>t, <2>1, <2>2, <2>4, <3>1, <3>2, SpelledAppend
  <2> QED
    BY <2>3, <2>4
<1>5. ASSUME NEW c \in TweastIds PROVE Kept(c)'
  BY <1>t DEF TweastInv, Kept
<1>6. Owned'
  BY DEF TweastInv, Owned
<1> QED
  BY <1>1, <1>2, <1>3, <1>4, <1>5, <1>6, RunningKeeps DEF TweastInv

LEMMA AppendTreeKeeps ==
  ASSUME TweastInv, NEW id \in TweastIds, NEW kind \in Kinds, NEW tree \in Trees,
         AppendTree(id, kind, tree)
  PROVE  TweastInv'
<1> USE DEF AppendTree, Building, AtRest, innerVars
<1>1. moving = FALSE
  BY NothingMoves
<1>0. TweastTypeOK /\ place[id] # "tweast"
  BY DEF TweastInv
<1> DEFINE x == Show(kind, count_)
<1>c. count_ \in Nat /\ count_' = count_ + 1 /\ count_' \in Nat /\ count_ <= count_'
  BY <1>0 DEF TweastTypeOK
<1>x. /\ x \in TextItem /\ x.kind = kind /\ x.key = count_ /\ tree \in Given /\ << tree >> \in Seq(Given)
      /\ x \in [kind : Kinds, key : Nat] /\ x.kind # WordKind /\ x.kind # TweastKind
  BY <1>c, ShowIs, KindsApart DEF Given
<1>t. /\ texts'[id] = Append(texts[id], x) /\ content'[id] = Append(content[id], tree)
      /\ trees'[id] = With(trees[id], x, tree)
      /\ \A c \in TweastIds : c # id =>
           texts'[c] = texts[c] /\ content'[c] = content[c] /\ trees'[c] = trees[c]
      /\ texts[id] \in Seq(TextItem) /\ content[id] \in Seq(Given)
  BY <1>0 DEF TweastTypeOK
<1>w. /\ DOMAIN trees'[id] = DOMAIN trees[id] \cup {x} /\ trees'[id][x] = tree
      /\ \A k \in DOMAIN trees[id] : k # x => trees'[id][k] = trees[id][k]
  <2> HIDE DEF x
  <2> QED
    BY <1>t DEF With
<1>2. TweastTypeOK'
  <2>1. Append(texts[id], x) \in Seq(TextItem) /\ Append(content[id], tree) \in Seq(Given)
    BY <1>x, <1>t
  <2>2. IsMapOf(trees'[id], [kind : Kinds, key : Nat], Trees)
    BY <1>0, <1>x, <1>w DEF TweastTypeOK, IsMapOf
  <2>3. \A c \in TweastIds : IsMapOf(trees'[c], [kind : Kinds, key : Nat], Trees)
    BY <1>0, <1>t, <2>2 DEF TweastTypeOK
  <2>4. texts' \in [TweastIds -> Seq(TextItem)] /\ content' \in [TweastIds -> Seq(Given)]
    BY <1>0, <2>1 DEF TweastTypeOK
  <2>5. DOMAIN trees' = TweastIds
    BY <1>0 DEF TweastTypeOK
  <2> QED
    BY <1>0, <1>c, <2>3, <2>4, <2>5 DEF TweastTypeOK
<1> HIDE DEF x
<1>7. ~ InText(texts[id], x)
  <2>1. \A i \in DOMAIN texts[id] : texts[id][i] \in TextItem
    BY <1>t
  <2>2. Numbered(texts[id], count_)
    BY DEF TweastInv, References
  <2> QED
    BY <1>c, <1>x, <2>1, <2>2 DEF Numbered, InText
<1>3. ASSUME NEW c \in TweastIds PROVE References(c)'
  <2>1. References(c)
    BY DEF TweastInv
  <2>3. \A ref : ~ Arriving(c, ref)
    BY <1>1 DEF Arriving
  <2>4. CASE c # id
    BY <1>0, <1>c, <1>t, <2>1, <2>3, <2>4, ReferencesSame
  <2>5. CASE c = id
    <3>1. /\ DOMAIN trees'[id] = DOMAIN trees[id] \cup (IF x.kind \in Kinds THEN {x} ELSE {})
          /\ DOMAIN tweasts'[id] =
               DOMAIN tweasts[id] \cup (IF x.kind = TweastKind THEN {x.key} ELSE {})
      BY <1>x, <1>w
    <3> QED
      BY <1>0, <1>1, <1>c, <1>x, <1>t, <2>1, <2>5, <3>1, ReferencesAppend
  <2> QED
    BY <2>4, <2>5
<1>4. ASSUME NEW c \in TweastIds PROVE Spelled(c)'
  <2>1. Spelled(c) /\ References(c)
    BY DEF TweastInv
  <2>2. ASSUME NEW v, InText(texts[c], v) PROVE Part(c, v)' = Part(c, v)
    <3>1. v.kind \in Kinds => v \in DOMAIN trees[c]
      BY <1>0, <2>1, <2>2, ItemsOfText DEF TweastTypeOK
    <3>2. c = id => v # x
      BY <1>7, <2>2
    <3>3. v.kind \in Kinds => trees'[c][v] = trees[c][v]
      BY <1>t, <1>w, <3>1, <3>2
    <3> QED
      BY <1>0, <1>t, <2>2, <3>3, OtherParts
  <2>3. CASE c # id
    BY <1>t, <2>1, <2>2, <2>3, SpelledSame
  <2>4. CASE c = id
    <3>0. PICK y : y = x
      OBVIOUS
    <3>1. Part(id, y)' = << tree >>
      BY <1>x, <1>w, <3>0 DEF Part
    <3>2. content'[id] = content[id] \o << tree >>
      BY <1>x, <1>t
    <3> QED
      BY <1>0, <1>x, <1>t, <2>1, <2>2, <2>4, <3>0, <3>1, <3>2, SpelledAppend
  <2> QED
    BY <2>3, <2>4
<1>5. ASSUME NEW c \in TweastIds PROVE Kept(c)'
  BY <1>t DEF TweastInv, Kept
<1>6. Owned'
  BY DEF TweastInv, Owned
<1> QED
  BY <1>1, <1>2, <1>3, <1>4, <1>5, <1>6, RunningKeeps DEF TweastInv

LEMMA AppendTweastKeeps ==
  ASSUME TweastInv, NEW id \in TweastIds, NEW other \in TweastIds, AppendTweast(id, other)
  PROVE  TweastInv'
<1> USE DEF AppendTweast, Building, AtRest, innerVars
<1>1. moving = FALSE
  BY NothingMoves
<1>0. TweastTypeOK /\ place[id] # "tweast" /\ place[other] # "tweast" /\ other # id
  BY DEF TweastInv
<1> DEFINE x == Show(TweastKind, count_)
<1>c. count_ \in Nat /\ count_' = count_ + 1 /\ count_' \in Nat /\ count_ <= count_'
  BY <1>0 DEF TweastTypeOK
<1>x. x \in TextItem /\ x.kind = TweastKind /\ x.key = count_ /\ x.kind # WordKind
  BY <1>c, ShowIs
<1>t. /\ texts'[id] = Append(texts[id], x) /\ content'[id] = content[id] \o content[other]
      /\ content'[other] = content[other] /\ content[other] \in Seq(Given)
      /\ tweasts'[id] = With(tweasts[id], count_, other)
      /\ \A c \in TweastIds : c # id =>
           texts'[c] = texts[c] /\ content'[c] = content[c] /\ tweasts'[c] = tweasts[c]
      /\ texts[id] \in Seq(TextItem) /\ content[id] \in Seq(Given)
      /\ place'[other] = "tweast" /\ \A c \in TweastIds : c # other => place'[c] = place[c]
  BY <1>0 DEF TweastTypeOK
<1>w. /\ DOMAIN tweasts'[id] = DOMAIN tweasts[id] \cup {count_} /\ tweasts'[id][count_] = other
      /\ \A k \in DOMAIN tweasts[id] : k # count_ => tweasts'[id][k] = tweasts[id][k]
  BY <1>t DEF With
<1>n. count_ \notin DOMAIN tweasts[id]
  <2>1. Numbered(texts[id], count_) /\ \A k \in DOMAIN tweasts[id] : InText(texts[id], Show(TweastKind, k))
    BY DEF TweastInv, References
  <2>2. ~ InText(texts[id], x)
    BY <1>c, <1>x, <2>1 DEF Numbered, InText
  <2> QED
    BY <2>1, <2>2
<1>k. \A c \in TweastIds : \A k \in DOMAIN tweasts[c] : tweasts'[c][k] = tweasts[c][k]
  BY <1>t, <1>w, <1>n
<1>2. TweastTypeOK'
  <2>1. Append(texts[id], x) \in Seq(TextItem) /\ content[id] \o content[other] \in Seq(Given)
    BY <1>x, <1>t
  <2>2. IsMapOf(tweasts'[id], Nat, TweastIds)
    BY <1>0, <1>c, <1>w DEF TweastTypeOK, IsMapOf
  <2>3. \A c \in TweastIds : IsMapOf(tweasts'[c], Nat, TweastIds)
    BY <1>0, <1>t, <2>2 DEF TweastTypeOK
  <2>4. texts' \in [TweastIds -> Seq(TextItem)] /\ content' \in [TweastIds -> Seq(Given)]
    BY <1>0, <2>1 DEF TweastTypeOK
  <2>5. /\ DOMAIN tweasts' = TweastIds
        /\ place' \in [TweastIds -> {"none", "program", "tweast", "parser"}]
    BY <1>0 DEF TweastTypeOK
  <2> QED
    BY <1>0, <1>c, <2>3, <2>4, <2>5 DEF TweastTypeOK
<1> HIDE DEF x
<1>3. ASSUME NEW c \in TweastIds PROVE References(c)'
  <2>1. References(c)
    BY DEF TweastInv
  <2>3. \A ref : ~ Arriving(c, ref)
    BY <1>1 DEF Arriving
  <2>4. CASE c # id
    BY <1>0, <1>c, <1>t, <2>1, <2>3, <2>4, ReferencesSame
  <2>5. CASE c = id
    <3>1. /\ DOMAIN trees'[id] = DOMAIN trees[id] \cup (IF x.kind \in Kinds THEN {x} ELSE {})
          /\ DOMAIN tweasts'[id] =
               DOMAIN tweasts[id] \cup (IF x.kind = TweastKind THEN {x.key} ELSE {})
      BY <1>x, <1>w, KindsApart
    <3> QED
      BY <1>0, <1>1, <1>c, <1>x, <1>t, <2>1, <2>5, <3>1, ReferencesAppend
  <2> QED
    BY <2>4, <2>5
<1>4. ASSUME NEW c \in TweastIds PROVE Spelled(c)'
  <2>1. Spelled(c) /\ References(c)
    BY DEF TweastInv
  <2>2. ASSUME NEW v, InText(texts[c], v) PROVE Part(c, v)' = Part(c, v)
    BY <1>0, <1>t, <1>k, <2>2, OtherParts
  <2>3. CASE c # id
    BY <1>t, <2>1, <2>2, <2>3, SpelledSame
  <2>4. CASE c = id
    <3>0. PICK y : y = x
      OBVIOUS
    <3>3. tweasts'[id][y.key] = other
      BY <1>x, <1>w, <3>0
    <3>1. Part(id, y)' = content[other]
      BY <1>x, <1>t, <3>0, <3>3, KindsApart DEF Part
    <3> QED
      BY <1>0, <1>x, <1>t, <2>1, <2>2, <2>4, <3>0, <3>1, SpelledAppend
  <2> QED
    BY <2>3, <2>4
<1>5. ASSUME NEW c \in TweastIds PROVE Kept(c)'
  <2>1. Kept(c) /\ flattening = << >> /\ flattening' = << >> /\ taken' = taken /\ trees' = trees
    BY DEF TweastInv
  <2>2. place[id] = "program" /\ place[other] = "program" /\ place'[id] = "program"
    BY <1>0, <1>t
  <2>3. CASE c = id
    BY <2>1, <2>2, <2>3 DEF Kept
  <2>4. CASE c = other
    BY <1>t, <2>1, <2>2, <2>4 DEF Kept
  <2>5. CASE c # id /\ c # other
    BY <1>t, <2>1, <2>5 DEF Kept
  <2> QED
    BY <2>3, <2>4, <2>5
<1>6. Owned'
  <2>1. \A c \in TweastIds : \A k \in DOMAIN tweasts[c] : tweasts[c][k] # other /\ tweasts[c][k] \in TweastIds
    BY <1>0, NotHeld DEF TweastTypeOK, IsMapOf
  <2>2. ASSUME NEW c \in TweastIds, NEW k \in DOMAIN tweasts'[c]
        PROVE  \/ c = id /\ k = count_ /\ tweasts'[c][k] = other
               \/ k \in DOMAIN tweasts[c] /\ tweasts'[c][k] = tweasts[c][k]
    BY <1>t, <1>w, <1>k
  <2>3. Owned
    BY DEF TweastInv
  <2>4. ASSUME NEW c \in TweastIds, NEW k \in DOMAIN tweasts'[c] PROVE place'[tweasts'[c][k]] = "tweast"
    BY <1>t, <2>1, <2>2, <2>3 DEF Owned
  <2>5. ASSUME NEW c \in TweastIds, NEW k \in DOMAIN tweasts'[c],
               NEW b \in TweastIds, NEW l \in DOMAIN tweasts'[b], tweasts'[b][l] = tweasts'[c][k]
        PROVE  b = c /\ l = k
    BY <2>1, <2>2, <2>3, <2>5 DEF Owned
  <2> QED
    BY <2>4, <2>5 DEF Owned
<1> QED
  BY <1>1, <1>2, <1>3, <1>4, <1>5, <1>6, RunningKeeps DEF TweastInv

\* The parser moves what the first item stands for from the text to what it
\* has read.
LEMMA SpelledTail ==
  ASSUME TweastTypeOK, NEW id \in TweastIds, References(id), Spelled(id),
         texts[id] # << >>, texts'[id] = Tail(texts[id]), content'[id] = content[id],
         taken'[id] = taken[id] \o Part(id, Head(texts[id])),
         \A w : InText(Tail(texts[id]), w) => Part(id, w)' = Part(id, w)
  PROVE  Spelled(id)'
<1>0. PICK n : n = Len(texts[id])
  OBVIOUS
<1> DEFINE P == Parts(id, texts[id])
           F == FlattenSeq(P)
<1>1. P \in Seq(Seq(Given)) /\ Len(P) = n /\ \A i \in 1 .. n : P[i] = Part(id, texts[id][i])
  BY <1>0, PartsTyped
<1>2. texts[id] \in Seq(TextItem) /\ taken[id] \in Seq(Given) /\ content[id] \in Seq(Given)
  BY DEF TweastTypeOK
<1>3. /\ n \in Nat \ {0} /\ Tail(texts[id]) \in Seq(TextItem) /\ DOMAIN Tail(texts[id]) = 1 .. n - 1
      /\ \A i \in 1 .. n - 1 : Tail(texts[id])[i] = texts[id][i + 1]
      /\ Head(texts[id]) = texts[id][1]
  BY <1>0, <1>2, TailFacts
<1>5. P # << >> /\ P[1] = Part(id, Head(texts[id]))
  <2>1. 1 \in 1 .. n
    BY <1>3
  <2> HIDE DEF P
  <2>2. Len(P) # 0
    BY <1>1, <1>3
  <2> QED
    BY <1>1, <1>3, <2>1, <2>2
<1>6. /\ Tail(P) \in Seq(Seq(Given)) /\ Len(Tail(P)) = n - 1
      /\ \A i \in 1 .. n - 1 : Tail(P)[i] = P[i + 1]
      /\ P[1] \in Seq(Given) /\ P = << P[1] >> \o Tail(P)
  <2> HIDE DEF P
  <2> QED
    BY <1>1, <1>5, TailFacts, HeadAndTail
<1>4. ASSUME NEW i \in 1 .. n - 1 PROVE Part(id, texts[id][i])' = Tail(P)[i]
  <2> DEFINE w == texts[id][i + 1]
  <2>1. InText(Tail(texts[id]), w)
    BY <1>3 DEF InText
  <2>2. texts'[id][i] = w
    BY <1>3
  <2>3. Part(id, texts[id][i])' = Part(id, w)
    BY <2>1, <2>2 DEF Part
  <2>4. i + 1 \in 1 .. n
    BY <1>3
  <2> QED
    BY <1>1, <1>6, <2>3, <2>4
<1>7. Parts(id, texts[id])' = Tail(P)
  <2>1. DOMAIN texts'[id] = 1 .. n - 1
    BY <1>3
  <2>2. Parts(id, texts[id])' = [i \in 1 .. n - 1 |-> Part(id, texts[id][i])']
    BY <2>1 DEF Parts
  <2> DEFINE T == Tail(P)
  <2> HIDE DEF P, T
  <2>3. T \in Seq(Seq(Given)) /\ DOMAIN T = 1 .. n - 1
    BY <1>6 DEF T
  <2>4. T = [i \in 1 .. n - 1 |-> T[i]]
    BY <2>3
  <2> QED
    BY <1>4, <2>2, <2>4 DEF T
<1> HIDE DEF P
<1>8. /\ FlattenSeq(Tail(P)) \in Seq(Given)
      /\ F = P[1] \o FlattenSeq(Tail(P))
  <2>1. << P[1] >> \in Seq(Seq(Given))
    BY <1>6
  <2>2. FlattenSeq(<< P[1] >> \o Tail(P)) = FlattenSeq(<< P[1] >>) \o FlattenSeq(Tail(P))
    BY <1>6, <2>1, FlattenConcat
  <2>3. FlattenSeq(<< P[1] >>) = P[1]
    BY <1>6, FlattenOne
  <2>4. FlattenSeq(Tail(P)) \in Seq(Given)
    <3>1. << >> \in Seq(Given)
      OBVIOUS
    <3> QED
      BY <1>6, <3>1, FlattenAppend
  <2> QED
    BY <1>6, <2>2, <2>3, <2>4
<1>9. content[id] = taken[id] \o F
  BY DEF Spelled, P
<1> DEFINE T == FlattenSeq(Tail(P))
<1> HIDE DEF F, T
<1>10. (taken[id] \o P[1]) \o T = taken[id] \o (P[1] \o T)
  <2>1. \A a, b, c \in Seq(Given) : (a \o b) \o c = a \o (b \o c)
    BY ConcatOfThree
  <2> QED
    BY <1>2, <1>6, <1>8, <2>1, Zenon DEF T
<1>11. content'[id] = taken'[id] \o FlattenSeq(Tail(P))
  BY <1>5, <1>8, <1>9, <1>10 DEF T
<1> QED
  BY <1>7, <1>11 DEF Spelled

LEMMA ReferencesTail ==
  ASSUME TweastTypeOK, NEW id \in TweastIds, References(id), ~ moving, count_' = count_,
         texts[id] # << >>, texts'[id] = Tail(texts[id]),
         DOMAIN tweasts[id] = {}, tweasts'[id] = tweasts[id],
         DOMAIN trees'[id] =
           DOMAIN trees[id] \ (IF Head(texts[id]).kind = WordKind THEN {} ELSE {Head(texts[id])})
  PROVE  References(id)'
<1> DEFINE x == Head(texts[id])
<1>1. texts[id] \in Seq(TextItem) /\ count_ \in Nat /\ texts \in [TweastIds -> Seq(TextItem)]
  BY DEF TweastTypeOK
<1>2. Numbered(texts[id], count_)
  BY DEF References
<1>3. /\ Numbered(Tail(texts[id]), count_)
      /\ x.kind # WordKind => ~ InText(Tail(texts[id]), x)
      /\ \A w : w # x /\ InText(texts[id], w) => InText(Tail(texts[id]), w)
  BY <1>1, <1>2, NumberedTail
<1>4. \A w : InText(Tail(texts[id]), w) => InText(texts[id], w)
  <2>1. /\ Len(texts[id]) \in Nat /\ DOMAIN texts[id] = 1 .. Len(texts[id])
        /\ DOMAIN Tail(texts[id]) = 1 .. Len(texts[id]) - 1
        /\ \A i \in 1 .. Len(texts[id]) - 1 : Tail(texts[id])[i] = texts[id][i + 1]
    BY <1>1, TailFacts
  <2> SUFFICES ASSUME NEW i \in DOMAIN Tail(texts[id]) PROVE InText(texts[id], Tail(texts[id])[i])
    BY DEF InText
  <2>2. i + 1 \in 1 .. Len(texts[id])
    BY <2>1
  <2> QED
    BY <2>1, <2>2 DEF InText
<1>5. Numbered(texts'[id], count_')
  BY <1>3
<1> HIDE DEF x
<1>6. ASSUME NEW ref \in DOMAIN trees'[id] PROVE InText(texts'[id], ref)
  <2>1. InText(texts[id], ref)
    BY DEF References, Arriving
  <2>2. x.kind # WordKind => ref # x
    BY DEF x
  <2>3. x.kind = WordKind => ref # x
    <3>1. ref \in DOMAIN trees[id]
      OBVIOUS
    <3>2. ref \in [kind : Kinds, key : Nat]
      BY <3>1 DEF TweastTypeOK, IsMapOf
    <3> QED
      BY <3>2, TreeReference
  <2> QED
    BY <1>3, <2>1, <2>2, <2>3
<1>7. ASSUME NEW w, InText(texts'[id], w)
      PROVE  /\ w.kind \in Kinds => w \in DOMAIN trees'[id]
             /\ w.kind = TweastKind => w.key \in DOMAIN tweasts'[id]
  <2>1. InText(texts[id], w)
    BY <1>4, <1>7
  <2>2. /\ w \in TextItem
        /\ w.kind \in Kinds => w \in DOMAIN trees[id]
        /\ w.kind = TweastKind => w.key \in DOMAIN tweasts[id]
    BY <1>1, <2>1, ItemsOfText
  <2>3. x.kind # WordKind => w # x
    BY <1>3, <1>7
  <2> QED
    BY <2>2, <2>3 DEF x
<1>8. \A i \in DOMAIN texts'[id] :
       /\ texts'[id][i].kind \in Kinds => texts'[id][i] \in DOMAIN trees'[id]
       /\ texts'[id][i].kind = TweastKind => texts'[id][i].key \in DOMAIN tweasts'[id]
  BY <1>7, ItemOfText
<1>9. \A k \in DOMAIN tweasts'[id] : InText(texts'[id], Show(TweastKind, k))
  OBVIOUS
<1> QED
  BY <1>5, <1>6, <1>8, <1>9 DEF References

-----------------------------------------------------------------------------
\* parse_input, and then the steps of the parser.
LEMMA ParseKeeps ==
  ASSUME TweastInv, NEW id \in TweastIds, ParseInput(id) PROVE TweastInv'
<1> USE DEF ParseInput, AtRest, innerVars
<1>0. TweastTypeOK /\ place[id] = "program" /\ flattening = << >>
  BY DEF TweastInv
<1>1. moving = FALSE
  BY NothingMoves
<1>c. Call(id) \in [id : TweastIds, visit : SUBSET Nat, key : Nat] /\ Call(id).id = id
      /\ Call(id).visit = DOMAIN tweasts[id]
  BY <1>0 DEF TweastTypeOK, IsMapOf, Call
<1>f. Len(flattening') = 1 /\ flattening'[1] = Call(id) /\ DOMAIN flattening' = {1} /\ flattening' # << >>
  OBVIOUS
<1>p. place'[id] = "parser" /\ \A c \in TweastIds : c # id => place'[c] = place[c]
  BY <1>0 DEF TweastTypeOK
<1>2. TweastTypeOK'
  <2>1. flattening' \in Seq([id : TweastIds, visit : SUBSET Nat, key : Nat])
    BY <1>c
  <2> QED
    BY <1>0, <2>1 DEF TweastTypeOK
<1>3. ASSUME NEW c \in TweastIds PROVE References(c)'
  <2>1. References(c)
    BY DEF TweastInv
  <2>2. count_ <= count_' /\ count_' \in Nat
    BY <1>0 DEF TweastTypeOK
  <2>3. \A ref : ~ Arriving(c, ref)
    BY <1>1 DEF Arriving
  <2> QED
    BY <1>0, <2>1, <2>2, <2>3, ReferencesSame
<1>4. ASSUME NEW c \in TweastIds PROVE Spelled(c)'
  BY DEF TweastInv, Spelled, Parts, Part
<1>5. ASSUME NEW c \in TweastIds PROVE Kept(c)'
  <2>1. Kept(c)
    BY DEF TweastInv
  <2>2. CASE c = id
    BY <1>0, <1>c, <1>f, <1>p, <2>1, <2>2 DEF Kept
  <2>3. CASE c # id
    BY <1>0, <1>c, <1>f, <1>p, <2>1, <2>3 DEF Kept
  <2> QED
    BY <2>2, <2>3
<1>6. Owned'
  <2>1. ASSUME NEW c \in TweastIds, NEW k \in DOMAIN tweasts[c] PROVE place'[tweasts[c][k]] = "tweast"
    <3>1. tweasts[c][k] # id /\ tweasts[c][k] \in TweastIds
      BY <1>0, NotHeld DEF TweastTypeOK, IsMapOf
    <3> QED
      BY <1>p, <3>1 DEF TweastInv, Owned
  <2> QED
    BY <2>1 DEF TweastInv, Owned
<1>7. CallIsFor(1)'
  BY <1>c, <1>f, <1>p DEF CallIsFor
<1>8. \A i \in DOMAIN flattening' : CallIsFor(i)'
  BY <1>f, <1>7
<1> QED
  BY <1>1, <1>2, <1>3, <1>4, <1>5, <1>6, <1>8 DEF TweastInv

\* The parser reads the first item of a text and what it stands for.
LEMMA ReadKeeps ==
  ASSUME TweastInv, NEW id \in TweastIds, BeingParsed(id), texts[id] # << >>,
         texts' = [texts EXCEPT ![id] = Tail(@)],
         taken' = [taken EXCEPT ![id] = @ \o Part(id, Head(texts[id]))],
         DOMAIN trees' = TweastIds, \A c \in TweastIds : c # id => trees'[c] = trees[c],
         DOMAIN trees'[id] =
           DOMAIN trees[id] \ (IF Head(texts[id]).kind = WordKind THEN {} ELSE {Head(texts[id])}),
         \A k \in DOMAIN trees'[id] : trees'[id][k] = trees[id][k],
         UNCHANGED << count_, tweasts, place, flattening, innerVars, broken, content >>
  PROVE  TweastInv'
<1> USE DEF BeingParsed, AtRest, innerVars
<1>0. TweastTypeOK /\ place[id] = "parser" /\ flattening = << >>
  BY DEF TweastInv
<1>1. moving = FALSE
  BY NothingMoves
<1>d. DOMAIN tweasts[id] = {} /\ References(id) /\ Spelled(id)
  BY <1>0 DEF TweastInv, Kept
<1>p. Part(id, Head(texts[id])) \in Seq(Given)
  <2>1. texts \in [TweastIds -> Seq(TextItem)] /\ texts[id] \in Seq(TextItem)
    BY <1>0 DEF TweastTypeOK
  <2>2. InText(texts[id], Head(texts[id]))
    <3>1. Head(texts[id]) = texts[id][1] /\ 1 \in DOMAIN texts[id]
      BY <2>1, TailFacts
    <3> QED
      BY <3>1 DEF InText
  <2> QED
    BY <1>0, <1>d, <2>1, <2>2, ItemsOfText, PartTyped
<1>t. /\ texts'[id] = Tail(texts[id]) /\ taken'[id] = taken[id] \o Part(id, Head(texts[id]))
      /\ \A c \in TweastIds : c # id => texts'[c] = texts[c] /\ taken'[c] = taken[c]
      /\ texts[id] \in Seq(TextItem) /\ taken[id] \in Seq(Given) /\ Tail(texts[id]) \in Seq(TextItem)
  BY <1>0, TailFacts DEF TweastTypeOK
<1>2. TweastTypeOK'
  <2>1. taken[id] \o Part(id, Head(texts[id])) \in Seq(Given)
    BY <1>p, <1>t
  <2>2. texts' \in [TweastIds -> Seq(TextItem)] /\ taken' \in [TweastIds -> Seq(Given)]
    BY <1>0, <1>t, <2>1 DEF TweastTypeOK
  <2>3. \A c \in TweastIds : IsMapOf(trees'[c], [kind : Kinds, key : Nat], Trees)
    <3>1. IsMapOf(trees[id], [kind : Kinds, key : Nat], Trees)
      BY <1>0 DEF TweastTypeOK
    <3>2. IsMapOf(trees'[id], [kind : Kinds, key : Nat], Trees)
      BY <3>1 DEF IsMapOf
    <3> QED
      BY <1>0, <3>2 DEF TweastTypeOK
  <2> QED
    BY <1>0, <2>2, <2>3 DEF TweastTypeOK
<1>3. ASSUME NEW c \in TweastIds PROVE References(c)'
  <2>1. References(c)
    BY DEF TweastInv
  <2>2. count_ <= count_' /\ count_' \in Nat
    BY <1>0 DEF TweastTypeOK
  <2>3. \A ref : ~ Arriving(c, ref)
    BY <1>1 DEF Arriving
  <2>4. CASE c # id
    BY <1>0, <1>t, <2>1, <2>2, <2>3, <2>4, ReferencesSame
  <2>5. CASE c = id
    BY <1>0, <1>1, <1>d, <1>t, <2>5, ReferencesTail
  <2> QED
    BY <2>4, <2>5
<1>4. ASSUME NEW c \in TweastIds PROVE Spelled(c)'
  <2>1. CASE c # id
    <3>1. Spelled(c)
      BY DEF TweastInv
    <3>2. \A v : Part(c, v)' = Part(c, v)
      BY <2>1 DEF Part
    <3> QED
      BY <1>t, <2>1, <3>1, <3>2, SpelledSame
  <2>2. CASE c = id
    <3>1. ASSUME NEW w, InText(Tail(texts[id]), w) PROVE Part(id, w)' = Part(id, w)
      <4>0. References(id)'
        BY <1>3
      <4>1. w.kind \in Kinds => w \in DOMAIN trees'[id]
        <5>1. PICK i \in DOMAIN texts'[id] : texts'[id][i] = w
          BY <1>t, <3>1 DEF InText
        <5> QED
          BY <4>0, <5>1 DEF References
      <4>2. w \in TextItem
        BY <1>t, <3>1 DEF InText
      <4> QED
        BY <4>1, <4>2, PartSame
    <3> QED
      BY <1>0, <1>d, <1>t, <2>2, <3>1, SpelledTail
  <2> QED
    BY <2>1, <2>2
<1>5. ASSUME NEW c \in TweastIds PROVE Kept(c)'
  BY <1>0, <1>t DEF TweastInv, Kept
<1>6. Owned'
  BY DEF TweastInv, Owned
<1> QED
  BY <1>1, <1>2, <1>3, <1>4, <1>5, <1>6, RunningKeeps DEF TweastInv

LEMMA ReadWordKeeps ==
  ASSUME TweastInv, NEW id \in TweastIds, ReadWord(id) PROVE TweastInv'
<1> USE DEF ReadWord
<1>0. TweastTypeOK
  BY DEF TweastInv
<1>1. taken' = [taken EXCEPT ![id] = @ \o Part(id, Head(texts[id]))]
  <2>1. texts[id] \in Seq(TextItem) /\ taken[id] \in Seq(Given)
    BY <1>0 DEF TweastTypeOK
  <2>2. Head(texts[id]) \in TextItem
    BY <2>1, TailFacts
  <2>3. Part(id, Head(texts[id])) = << Head(texts[id]).key >> /\ Head(texts[id]).key \in Given
    BY <2>2, ItemKinds DEF Part, Given
  <2>4. Append(taken[id], Head(texts[id]).key) = taken[id] \o << Head(texts[id]).key >>
    BY <2>1, <2>3, AppendIs
  <2> QED
    BY <2>3, <2>4
<1>2. /\ DOMAIN trees' = TweastIds /\ \A c \in TweastIds : trees'[c] = trees[c]
      /\ DOMAIN trees'[id] =
           DOMAIN trees[id] \ (IF Head(texts[id]).kind = WordKind THEN {} ELSE {Head(texts[id])})
  BY <1>0 DEF TweastTypeOK
<1> QED
  BY <1>1, <1>2, ReadKeeps

LEMMA TakeKeeps ==
  ASSUME TweastInv, NEW id \in TweastIds, Take(id) PROVE TweastInv'
<1> USE DEF Take, BeingParsed, AtRest
<1>0. TweastTypeOK /\ References(id) /\ DOMAIN tweasts[id] = {}
  BY DEF TweastInv, Kept
<1> DEFINE ref == Head(texts[id])
<1>1. texts \in [TweastIds -> Seq(TextItem)] /\ texts[id] \in Seq(TextItem) /\ taken[id] \in Seq(Given)
  BY <1>0 DEF TweastTypeOK
<1>2. InText(texts[id], ref)
  <2>1. Head(texts[id]) = texts[id][1] /\ 1 \in DOMAIN texts[id]
    BY <1>1, TailFacts
  <2> QED
    BY <2>1 DEF InText
<1>3. ref \in TextItem /\ ref.kind # WordKind /\ ref \in DOMAIN trees[id] /\ ref.kind # TweastKind
  <2>1. /\ ref \in TextItem
        /\ ref.kind \in Kinds => ref \in DOMAIN trees[id]
        /\ ref.kind = TweastKind => ref.key \in DOMAIN tweasts[id]
    BY <1>0, <1>1, <1>2, ItemsOfText
  <2> QED
    BY <1>0, <2>1, ItemKinds
<1>4. Part(id, ref) = << trees[id][ref] >> /\ trees[id][ref] \in Given
  BY <1>0, <1>3 DEF Part, TweastTypeOK, IsMapOf, Given
<1>5. taken' = [taken EXCEPT ![id] = @ \o Part(id, Head(texts[id]))]
  <2>1. Append(taken[id], trees[id][ref]) = taken[id] \o << trees[id][ref] >>
    BY <1>1, <1>4, AppendIs
  <2> QED
    BY <1>3, <1>4, <2>1
<1>6. trees' = [trees EXCEPT ![id] = Without(trees[id], ref)] /\ texts' = [texts EXCEPT ![id] = Tail(@)]
      /\ broken' = broken
  BY <1>3
<1>7. /\ DOMAIN trees' = TweastIds /\ trees'[id] = Without(trees[id], ref)
      /\ \A c \in TweastIds : c # id => trees'[c] = trees[c]
  BY <1>0, <1>6 DEF TweastTypeOK
<1> HIDE DEF ref
<1>8. /\ DOMAIN trees'[id] = DOMAIN trees[id] \ {ref}
      /\ \A k \in DOMAIN trees'[id] : trees'[id][k] = trees[id][k]
  BY <1>7 DEF Without
<1> QED
  BY <1>3, <1>5, <1>6, <1>7, <1>8, ReadKeeps DEF ref

LEMMA EndOfTextKeeps ==
  ASSUME TweastInv, NEW id \in TweastIds, EndOfText(id) PROVE TweastInv'
<1> USE DEF EndOfText, BeingParsed, AtRest, innerVars
<1>0. TweastTypeOK /\ References(id) /\ DOMAIN tweasts[id] = {} /\ place[id] # "tweast"
  BY DEF TweastInv, Kept
<1>1. moving = FALSE
  BY NothingMoves
<1>2. DOMAIN trees[id] = {} /\ broken' = FALSE
  <2>1. \A ref : ~ InText(texts[id], ref) /\ ~ Arriving(id, ref)
    BY <1>1 DEF InText, Arriving
  <2> QED
    BY <1>0, <2>1 DEF References
<1>t. /\ trees'[id] = << >> /\ taken'[id] = << >> /\ content'[id] = << >> /\ place'[id] = "none"
      /\ texts'[id] = << >>
      /\ \A c \in TweastIds : c # id =>
           /\ trees'[c] = trees[c] /\ taken'[c] = taken[c] /\ content'[c] = content[c]
           /\ place'[c] = place[c]
  BY <1>0 DEF TweastTypeOK
<1>3. TweastTypeOK'
  <2>1. << >> \in Seq(Given) /\ DOMAIN << >> = {}
    OBVIOUS
  <2>2. taken' \in [TweastIds -> Seq(Given)] /\ content' \in [TweastIds -> Seq(Given)]
    BY <1>0, <2>1 DEF TweastTypeOK
  <2>3. place' \in [TweastIds -> {"none", "program", "tweast", "parser"}] /\ DOMAIN trees' = TweastIds
    BY <1>0 DEF TweastTypeOK
  <2>4. \A c \in TweastIds : IsMapOf(trees'[c], [kind : Kinds, key : Nat], Trees)
    BY <1>0, <1>t, <2>1 DEF TweastTypeOK, IsMapOf
  <2> QED
    BY <1>0, <1>2, <2>2, <2>3, <2>4 DEF TweastTypeOK
<1>4. ASSUME NEW c \in TweastIds PROVE References(c)'
  <2>1. References(c)
    BY DEF TweastInv
  <2>2. count_ <= count_' /\ count_' \in Nat
    BY <1>0 DEF TweastTypeOK
  <2>3. \A ref : ~ Arriving(c, ref)
    BY <1>1 DEF Arriving
  <2>4. DOMAIN trees'[c] = DOMAIN trees[c]
    <3>1. DOMAIN << >> = {}
      OBVIOUS
    <3> QED
      BY <1>2, <1>t, <3>1
  <2> QED
    BY <1>0, <2>1, <2>2, <2>3, <2>4, ReferencesSame
<1>5. ASSUME NEW c \in TweastIds PROVE Spelled(c)'
  <2>1. CASE c # id
    <3>1. Spelled(c)
      BY DEF TweastInv
    <3>2. ASSUME NEW v, InText(texts[c], v) PROVE Part(c, v)' = Part(c, v)
      BY <1>0, <1>t, <2>1, <3>2, OtherParts
    <3> QED
      BY <1>t, <2>1, <3>1, <3>2, SpelledSame
  <2>2. CASE c = id
    <3>1. Parts(id, texts[id])' = << >>
      BY <1>t DEF Parts
    <3>2. << >> \o << >> = << >>
      OBVIOUS
    <3> QED
      BY <1>t, <2>2, <3>1, <3>2, FlattenNone DEF Spelled
  <2> QED
    BY <2>1, <2>2
<1>6. ASSUME NEW c \in TweastIds PROVE Kept(c)'
  <2>1. Kept(c) /\ flattening = << >>
    BY DEF TweastInv
  <2>2. DOMAIN << >> = {}
    OBVIOUS
  <2>3. CASE c = id
    BY <1>0, <1>t, <2>1, <2>2, <2>3 DEF Kept
  <2>4. CASE c # id
    BY <1>0, <1>t, <2>1, <2>4 DEF Kept
  <2> QED
    BY <2>3, <2>4
<1>7. Owned'
  <2>1. ASSUME NEW c \in TweastIds, NEW k \in DOMAIN tweasts[c] PROVE place'[tweasts[c][k]] = "tweast"
    <3>1. tweasts[c][k] # id /\ tweasts[c][k] \in TweastIds
      BY <1>0, NotHeld DEF TweastTypeOK, IsMapOf
    <3> QED
      BY <1>t, <3>1 DEF TweastInv, Owned
  <2> QED
    BY <2>1 DEF TweastInv, Owned
<1> QED
  BY <1>1, <1>2, <1>3, <1>4, <1>5, <1>6, <1>7, RunningKeeps DEF TweastInv

\* The innermost call.
LEMMA TopFacts ==
  ASSUME TweastInv, flattening # << >>
  PROVE  /\ Len(flattening) \in Nat \ {0} /\ DOMAIN flattening = 1 .. Len(flattening)
         /\ Top = flattening[Len(flattening)] /\ Top.id \in TweastIds
         /\ Top \in [id : TweastIds, visit : SUBSET Nat, key : Nat]
         /\ \A i \in 1 .. Len(flattening) :
              flattening[i] \in [id : TweastIds, visit : SUBSET Nat, key : Nat]
         /\ Front(flattening) \in Seq([id : TweastIds, visit : SUBSET Nat, key : Nat])
         /\ Len(Front(flattening)) = Len(flattening) - 1
         /\ \A i \in 1 .. Len(flattening) - 1 : Front(flattening)[i] = flattening[i]
<1> DEFINE Frame == [id : TweastIds, visit : SUBSET Nat, key : Nat]
           s == flattening
<1>1. s \in Seq(Frame)
  BY DEF TweastInv, TweastTypeOK
<1> HIDE DEF Frame, s
<1>2. s # << >>
  BY DEF s
<1>3. /\ Front(s) \in Seq(Frame) /\ Len(Front(s)) = Len(s) - 1
      /\ \A i \in 1 .. Len(s) - 1 : Front(s)[i] = s[i]
      /\ Last(s) \in Frame /\ Last(s) = s[Len(s)] /\ Len(s) \in Nat \ {0}
  BY <1>1, <1>2, FrontLast
<1>4. DOMAIN s = 1 .. Len(s) /\ \A i \in 1 .. Len(s) : s[i] \in Frame
  BY <1>1
<1>5. Top = Last(s)
  BY DEF Top, s
<1>6. Last(s).id \in TweastIds
  BY <1>3 DEF Frame
<1> QED
  BY <1>3, <1>4, <1>5, <1>6 DEF Frame, s

\* No call in progress is of a Tweast that the innermost one still holds.
LEMMA NewIsApart ==
  ASSUME TweastInv, flattening # << >>, NEW k \in DOMAIN tweasts[Top.id],
         NEW j \in 1 .. Len(flattening)
  PROVE  flattening[j].id # tweasts[Top.id][k]
<1> DEFINE n == Len(flattening)
<1>1. /\ n \in Nat \ {0} /\ DOMAIN flattening = 1 .. n /\ Top = flattening[n] /\ Top.id \in TweastIds
      /\ \A i \in 1 .. n : flattening[i].id \in TweastIds
  BY TopFacts
<1>2. place[tweasts[Top.id][k]] = "tweast"
  BY <1>1 DEF TweastInv, Owned
<1>3. CASE j = 1
  <2>1. place[flattening[1].id] = "parser"
    BY <1>1, <1>3 DEF TweastInv, CallIsFor
  <2> QED
    BY <1>2, <1>3, <2>1
<1>4. CASE j # 1
  <2> SUFFICES ASSUME flattening[j].id = tweasts[Top.id][k] PROVE FALSE
    OBVIOUS
  <2> DEFINE h == j - 1
  <2>1. h \in 1 .. n /\ h < n /\ h + 1 = j
    BY <1>1, <1>4
  <2> HIDE DEF h
  <2>2. /\ flattening[h].key \in DOMAIN tweasts[flattening[h].id]
        /\ tweasts[flattening[h].id][flattening[h].key] = flattening[j].id
    <3>1. CallIsFor(h)
      BY <1>1, <2>1 DEF TweastInv
    <3> QED
      BY <1>1, <2>1, <3>1 DEF CallIsFor
  <2>3. flattening[h].id = Top.id
    BY <1>1, <2>1, <2>2 DEF TweastInv, Owned
  <2>4. h = n
    <3>1. CallIsFor(n)
      BY <1>1 DEF TweastInv
    <3> QED
      BY <1>1, <2>1, <2>3, <3>1 DEF CallIsFor
  <2> QED
    BY <1>1, <2>1, <2>4
<1> QED
  BY <1>3, <1>4

\* The calls of flatten, and their returns.
LEMMA FlattenInnerKeeps ==
  ASSUME TweastInv, NEW k, FlattenInner(k) PROVE TweastInv'
<1> USE DEF FlattenInner, innerVars
<1> DEFINE n == Len(flattening)
           under == [Top EXCEPT !.visit = @ \ {k}, !.key = k]
           inner == tweasts[Top.id][k]
           Frame == [id : TweastIds, visit : SUBSET Nat, key : Nat]
<1>0. TweastTypeOK /\ Owned
  BY DEF TweastInv
<1>1. /\ n \in Nat \ {0} /\ DOMAIN flattening = 1 .. n /\ Top = flattening[n] /\ Top.id \in TweastIds
      /\ Top \in Frame /\ \A i \in 1 .. n : flattening[i] \in Frame
      /\ Front(flattening) \in Seq(Frame) /\ Len(Front(flattening)) = n - 1
      /\ \A i \in 1 .. n - 1 : Front(flattening)[i] = flattening[i]
  BY TopFacts
<1>2. \A i \in 1 .. n : CallIsFor(i)
  BY <1>1 DEF TweastInv
<1>3. k \in Top.visit /\ k \in DOMAIN tweasts[Top.id] /\ k \in Nat
  <2>1. k \in Top.visit
    BY DEF FirstKey
  <2>2. n \in 1 .. n
    BY <1>1
  <2>3. CallIsFor(n)
    BY <1>2, <2>2
  <2> QED
    BY <1>1, <2>1, <2>3 DEF CallIsFor
<1>4. moving = FALSE
  BY <1>3 DEF TweastInv, MovedText, TweastTypeOK
<1>5. inner \in TweastIds /\ Call(inner) \in Frame /\ Call(inner).id = inner
      /\ Call(inner).visit = DOMAIN tweasts[inner]
  BY <1>0, <1>1, <1>3 DEF TweastTypeOK, IsMapOf, Call
<1>6. under \in Frame /\ under.id = Top.id /\ under.visit = Top.visit \ {k} /\ under.key = k
  BY <1>1, <1>3
<1> HIDE DEF under, inner, n
<1>f. /\ flattening' \in Seq(Frame) /\ Len(flattening') = n + 1 /\ DOMAIN flattening' = 1 .. n + 1
      /\ \A i \in 1 .. n - 1 : flattening'[i] = flattening[i]
      /\ flattening'[n] = under /\ flattening'[n + 1] = Call(inner)
  <2> DEFINE s == Front(flattening)
             t == Append(s, under)
  <2>1. flattening' = Append(t, Call(inner))
    BY DEF under, inner
  <2>2. s \in Seq(Frame) /\ Len(s) = n - 1
    BY <1>1
  <2> HIDE DEF s, Frame
  <2>3. /\ t \in Seq(Frame) /\ Len(t) = Len(s) + 1 /\ \A i \in 1 .. Len(s) : t[i] = s[i]
        /\ t[Len(s) + 1] = under
    BY <1>6, <2>2, AppendFacts
  <2>0. Len(s) + 1 = n /\ Len(t) = n
    BY <1>1, <2>2, <2>3
  <2> HIDE DEF t
  <2>4. /\ flattening' \in Seq(Frame) /\ Len(flattening') = Len(t) + 1
        /\ DOMAIN flattening' = 1 .. Len(t) + 1
        /\ \A i \in 1 .. Len(t) : flattening'[i] = t[i]
        /\ flattening'[Len(t) + 1] = Call(inner)
    <3> DEFINE e == Call(inner)
    <3>1. e \in Frame /\ t \in Seq(Frame) /\ flattening' = Append(t, e)
      BY <1>5, <2>1, <2>3
    <3> HIDE DEF e
    <3>2. /\ Append(t, e) \in Seq(Frame) /\ Len(Append(t, e)) = Len(t) + 1
          /\ DOMAIN Append(t, e) = 1 .. Len(t) + 1
          /\ \A i \in 1 .. Len(t) : Append(t, e)[i] = t[i]
          /\ Append(t, e)[Len(t) + 1] = e
      BY <3>1, AppendFacts
    <3> QED
      BY <3>1, <3>2 DEF e
  <2>5. ASSUME NEW i \in 1 .. n - 1 PROVE flattening'[i] = flattening[i]
    <3>1. i \in 1 .. n /\ i \in 1 .. Len(s)
      BY <1>1, <2>2
    <3> QED
      BY <1>1, <2>0, <2>3, <2>4, <3>1 DEF s
  <2>6. n \in 1 .. n
    BY <1>1
  <2> QED
    BY <2>0, <2>3, <2>4, <2>5, <2>6
<1>g. \A i \in 1 .. n : flattening'[i].id = flattening[i].id
  <2> SUFFICES ASSUME NEW i \in 1 .. n PROVE flattening'[i].id = flattening[i].id
    OBVIOUS
  <2>1. i \in 1 .. n - 1 \/ i = n
    BY <1>1
  <2> QED
    BY <1>1, <1>6, <1>f, <2>1
<1>a. \A i \in 1 .. n : flattening[i].id # inner
  BY <1>3, NewIsApart DEF n, inner
<1>7. TweastTypeOK'
  BY <1>0, <1>f DEF TweastTypeOK
<1>8. ASSUME NEW c \in TweastIds PROVE References(c)'
  <2>1. References(c)
    BY DEF TweastInv
  <2>2. count_ <= count_' /\ count_' \in Nat
    BY <1>0 DEF TweastTypeOK
  <2>3. \A ref : ~ Arriving(c, ref)
    BY <1>4 DEF Arriving
  <2> QED
    BY <1>0, <2>1, <2>2, <2>3, ReferencesSame
<1>9. ASSUME NEW c \in TweastIds PROVE Spelled(c)'
  BY DEF TweastInv, Spelled, Parts, Part
<1>10. ASSUME NEW c \in TweastIds PROVE Kept(c)'
  <2>1. 1 \in 1 .. n /\ flattening' # << >>
    BY <1>1, <1>f
  <2>2. flattening'[1].id = flattening[1].id
    BY <1>g, <2>1
  <2>3. Kept(c)
    BY DEF TweastInv
  <2> QED
    BY <2>1, <2>2, <2>3 DEF Kept
<1>11. Owned'
  BY <1>0 DEF Owned
<1>12. ASSUME NEW i \in 1 .. n + 1 PROVE CallIsFor(i)'
  <2>0. ASSUME NEW j \in 1 .. n + 1, flattening'[j].id = flattening'[i].id PROVE j = i
    <3>1. (i \in 1 .. n \/ i = n + 1) /\ (j \in 1 .. n \/ j = n + 1)
      BY <1>1
    <3>2. CASE i \in 1 .. n /\ j \in 1 .. n
      <4>1. flattening[j].id = flattening[i].id
        BY <1>g, <2>0, <3>2
      <4>2. CallIsFor(i)
        BY <1>2, <3>2
      <4> QED
        BY <1>1, <3>2, <4>1, <4>2 DEF CallIsFor
    <3>3. CASE i = n + 1 /\ j \in 1 .. n
      BY <1>5, <1>a, <1>f, <1>g, <2>0, <3>3
    <3>4. CASE i \in 1 .. n /\ j = n + 1
      BY <1>5, <1>a, <1>f, <1>g, <2>0, <3>4
    <3> QED
      BY <3>1, <3>2, <3>3, <3>4
  <2>1. CASE i \in 1 .. n - 1
    <3>1. i + 1 \in 1 .. n /\ i \in 1 .. n /\ i < n /\ i < n + 1
      BY <1>1, <2>1
    <3>2. /\ flattening'[i] = flattening[i] /\ flattening'[i + 1].id = flattening[i + 1].id
      BY <1>f, <1>g, <2>1, <3>1
    <3>3. CallIsFor(i)
      BY <1>2, <3>1
    <3>4. Len(flattening) = n /\ Len(flattening') = n + 1
      BY <1>f DEF n
    <3>5. /\ flattening[i].visit \subseteq DOMAIN tweasts[flattening[i].id]
          /\ i = 1 => place[flattening[i].id] = "parser"
          /\ flattening[i].key \in DOMAIN tweasts[flattening[i].id] \ flattening[i].visit
          /\ tweasts[flattening[i].id][flattening[i].key] = flattening[i + 1].id
          /\ \A l \in DOMAIN tweasts[flattening[i].id] \ flattening[i].visit :
               l = flattening[i].key \/ DOMAIN tweasts[tweasts[flattening[i].id][l]] = {}
      BY <3>1, <3>3, <3>4 DEF CallIsFor
    <3>6. /\ flattening'[i].visit \subseteq DOMAIN tweasts'[flattening'[i].id]
          /\ i = 1 => place'[flattening'[i].id] = "parser"
          /\ flattening'[i].key \in DOMAIN tweasts'[flattening'[i].id] \ flattening'[i].visit
          /\ tweasts'[flattening'[i].id][flattening'[i].key] = flattening'[i + 1].id
          /\ \A l \in DOMAIN tweasts'[flattening'[i].id] \ flattening'[i].visit :
               l = flattening'[i].key \/ DOMAIN tweasts'[tweasts'[flattening'[i].id][l]] = {}
      BY <3>2, <3>5
    <3>7. \A j \in DOMAIN flattening' : flattening'[j].id = flattening'[i].id => j = i
      BY <1>f, <2>0
    <3> QED
      BY <3>1, <3>4, <3>6, <3>7 DEF CallIsFor
  <2>2. CASE i = n
    <3>1. n < n + 1 /\ Len(flattening) = n /\ ~ (n < n) /\ n \in 1 .. n
      BY <1>1 DEF n
    <3>2. CallIsFor(n)
      BY <1>2, <3>1
    <3>3. /\ Top.visit \subseteq DOMAIN tweasts[Top.id]
          /\ n = 1 => place[Top.id] = "parser"
          /\ \A l \in DOMAIN tweasts[Top.id] \ Top.visit : DOMAIN tweasts[tweasts[Top.id][l]] = {}
      BY <1>1, <3>1, <3>2 DEF CallIsFor
    <3>4. /\ under.visit \subseteq DOMAIN tweasts[Top.id]
          /\ \A l \in DOMAIN tweasts[Top.id] \ under.visit :
               l = k \/ DOMAIN tweasts[tweasts[Top.id][l]] = {}
          /\ k \in DOMAIN tweasts[Top.id] \ under.visit
          /\ tweasts[Top.id][k] = flattening'[n + 1].id
      BY <1>3, <1>5, <1>6, <1>f, <3>3 DEF inner
    <3>5. flattening'[i].id = Top.id /\ flattening'[i].visit = under.visit /\ flattening'[i].key = k
      BY <1>6, <1>f, <2>2
    <3> DEFINE p == flattening'[i]
    <3>6. /\ p.visit \subseteq DOMAIN tweasts'[p.id]
          /\ i = 1 => place'[p.id] = "parser"
          /\ p.key \in DOMAIN tweasts'[p.id] \ p.visit
          /\ tweasts'[p.id][p.key] = flattening'[i + 1].id
          /\ \A l \in DOMAIN tweasts'[p.id] \ p.visit :
               l = p.key \/ DOMAIN tweasts'[tweasts'[p.id][l]] = {}
      BY <2>2, <3>3, <3>4, <3>5
    <3>7. \A j \in DOMAIN flattening' : flattening'[j].id = flattening'[i].id => j = i
      BY <1>f, <2>0
    <3>8. i < Len(flattening')
      BY <1>f, <2>2, <3>1
    <3> QED
      BY <3>6, <3>7, <3>8 DEF CallIsFor
  <2>3. CASE i = n + 1
    <3>1. ~ (n + 1 < n + 1) /\ n + 1 # 1
      BY <1>1
    <3> QED
      BY <1>5, <1>f, <2>0, <2>3, <3>1 DEF CallIsFor
  <2>4. i \in 1 .. n - 1 \/ i = n \/ i = n + 1
    BY <1>1
  <2> QED
    BY <2>1, <2>2, <2>3, <2>4
<1>13. \A i \in DOMAIN flattening' : CallIsFor(i)'
  BY <1>f, <1>12
<1> QED
  BY <1>4, <1>7, <1>8, <1>9, <1>10, <1>11, <1>13 DEF TweastInv

LEMMA EndFlattenKeeps ==
  ASSUME TweastInv, EndFlatten PROVE TweastInv'
<1> USE DEF EndFlatten, innerVars
<1> DEFINE n == Len(flattening)
           Frame == [id : TweastIds, visit : SUBSET Nat, key : Nat]
<1>0. TweastTypeOK /\ Owned /\ moving = FALSE
  BY DEF TweastInv, TweastTypeOK
<1>1. /\ n \in Nat \ {0} /\ DOMAIN flattening = 1 .. n /\ Top = flattening[n] /\ Top.id \in TweastIds
      /\ \A i \in 1 .. n : flattening[i] \in Frame
      /\ Front(flattening) \in Seq(Frame) /\ Len(Front(flattening)) = n - 1
      /\ \A i \in 1 .. n - 1 : Front(flattening)[i] = flattening[i]
  BY TopFacts
<1>2. \A i \in 1 .. n : CallIsFor(i)
  BY <1>1 DEF TweastInv
<1> HIDE DEF n
<1>f. /\ flattening' \in Seq(Frame) /\ Len(flattening') = n - 1 /\ DOMAIN flattening' = 1 .. n - 1
      /\ \A i \in 1 .. n - 1 : flattening'[i] = flattening[i]
  BY <1>1
<1>7. TweastTypeOK'
  BY <1>0, <1>f DEF TweastTypeOK
<1>8. ASSUME NEW c \in TweastIds PROVE References(c)'
  <2>1. References(c)
    BY DEF TweastInv
  <2>2. count_ <= count_' /\ count_' \in Nat
    BY <1>0 DEF TweastTypeOK
  <2>3. \A ref : ~ Arriving(c, ref)
    BY <1>0 DEF Arriving
  <2> QED
    BY <1>0, <2>1, <2>2, <2>3, ReferencesSame
<1>9. ASSUME NEW c \in TweastIds PROVE Spelled(c)'
  BY DEF TweastInv, Spelled, Parts, Part
<1>10. ASSUME NEW c \in TweastIds PROVE Kept(c)'
  <2>1. Kept(c) /\ UNCHANGED << place, texts, trees, tweasts, taken >>
    BY DEF TweastInv
  <2>2. CASE n = 1
    <3>1. Len(flattening') = 0
      BY <1>f, <2>2
    <3>2. flattening' = << >>
      BY <1>f, <3>1, EmptySeq
    <3>3. flattening[1].id = c => DOMAIN tweasts[c] = {}
      BY <1>1, <2>2
    <3> QED
      BY <2>1, <3>2, <3>3 DEF Kept
  <2>3. CASE n # 1
    <3>1. 1 \in 1 .. n - 1 /\ Len(flattening') # 0
      BY <1>1, <1>f, <2>3
    <3>2. flattening' # << >> /\ flattening'[1] = flattening[1]
      BY <1>f, <3>1
    <3> QED
      BY <2>1, <3>2 DEF Kept
  <2> QED
    BY <2>2, <2>3
<1>11. Owned'
  BY <1>0 DEF Owned
<1>12. ASSUME NEW i \in 1 .. n - 1 PROVE CallIsFor(i)'
  <2>0. Len(flattening) = n
    BY DEF n
  <2>1. /\ i \in 1 .. n /\ i < n /\ i + 1 \in 1 .. n /\ Len(flattening) = n
        /\ (i < n - 1) \/ (i = n - 1 /\ i + 1 = n)
    BY <1>1, <2>0
  <2>2. CallIsFor(i)
    BY <1>2, <2>1
  <2>3. flattening'[i] = flattening[i]
    BY <1>f
  <2>4. \A j \in 1 .. n - 1 : j \in 1 .. n /\ flattening'[j] = flattening[j]
    BY <1>1, <1>f
  <2>5. CASE i < n - 1
    <3>1. i + 1 \in 1 .. n - 1
      BY <1>1, <2>5
    <3> QED
      BY <1>1, <1>f, <2>1, <2>2, <2>3, <2>4, <2>5, <3>1 DEF CallIsFor
  <2>6. CASE i = n - 1
    <3>1. flattening[i + 1].id = Top.id /\ DOMAIN tweasts[Top.id] = {}
      BY <1>1, <2>1, <2>6
    <3>2. \A l \in DOMAIN tweasts[flattening[i].id] \ flattening[i].visit :
            DOMAIN tweasts[tweasts[flattening[i].id][l]] = {}
      BY <2>1, <2>2, <3>1 DEF CallIsFor
    <3>3. ~ (i < Len(flattening'))
      BY <1>1, <1>f, <2>1, <2>6
    <3>4. /\ flattening'[i].visit \subseteq DOMAIN tweasts'[flattening'[i].id]
          /\ i = 1 => place'[flattening'[i].id] = "parser"
          /\ \A l \in DOMAIN tweasts'[flattening'[i].id] \ flattening'[i].visit :
               DOMAIN tweasts'[tweasts'[flattening'[i].id][l]] = {}
      BY <2>2, <2>3, <3>2 DEF CallIsFor
    <3>5. \A j \in DOMAIN flattening' : flattening'[j].id = flattening'[i].id => j = i
      BY <1>1, <1>f, <2>2, <2>3, <2>4 DEF CallIsFor
    <3> QED
      BY <3>3, <3>4, <3>5 DEF CallIsFor
  <2> QED
    BY <2>1, <2>5, <2>6
<1>13. \A i \in DOMAIN flattening' : CallIsFor(i)'
  BY <1>f, <1>12
<1> QED
  BY <1>0, <1>7, <1>8, <1>9, <1>10, <1>11, <1>13 DEF TweastInv

\* What a Tweast that is taken in is like.
LEMMA InnerFacts ==
  ASSUME TweastInv, flattening # << >>, Top.visit = {}, NEW k \in DOMAIN tweasts[Top.id]
  PROVE  /\ Top.id \in TweastIds /\ tweasts[Top.id][k] \in TweastIds /\ k \in Nat
         /\ tweasts[Top.id][k] # Top.id
         /\ place[tweasts[Top.id][k]] = "tweast" /\ place[Top.id] # "none"
         /\ DOMAIN tweasts[tweasts[Top.id][k]] = {} /\ taken[tweasts[Top.id][k]] = << >>
<1> DEFINE n == Len(flattening)
           inner == tweasts[Top.id][k]
<1>1. /\ n \in Nat \ {0} /\ DOMAIN flattening = 1 .. n /\ n \in 1 .. n /\ ~ (n < n)
      /\ Top = flattening[n] /\ Top.id \in TweastIds
  BY TopFacts
<1>2. inner \in TweastIds /\ k \in Nat
  BY <1>1 DEF TweastInv, TweastTypeOK, IsMapOf
<1>3. inner # Top.id
  BY <1>1, NewIsApart
<1>4. place[inner] = "tweast"
  BY <1>1 DEF TweastInv, Owned
<1>5. Kept(inner) /\ Kept(Top.id) /\ CallIsFor(n)
  BY <1>1, <1>2 DEF TweastInv
<1>6. place[Top.id] # "none"
  BY <1>5 DEF Kept
<1>7. taken[inner] = << >>
  BY <1>4, <1>5 DEF Kept
<1>8. DOMAIN tweasts[inner] = {}
  BY <1>1, <1>5 DEF CallIsFor
<1> QED
  BY <1>1, <1>2, <1>3, <1>4, <1>6, <1>7, <1>8

\* The text that is to be moved begins as the text of the inner Tweast.
LEMMA TakeInnerKeeps ==
  ASSUME TweastInv, NEW k, TakeInner(k) PROVE TweastInv'
<1> USE DEF TakeInner
<1>0. TweastTypeOK /\ Owned /\ moving = FALSE
  BY DEF TweastInv, TweastTypeOK
<1>k. k \in DOMAIN tweasts[Top.id]
  BY DEF FirstKey
<1>1. PICK top, inner : top = Top.id /\ inner = tweasts[Top.id][k]
  OBVIOUS
<1>2. /\ top \in TweastIds /\ inner \in TweastIds /\ k \in Nat /\ inner # top
      /\ DOMAIN tweasts[inner] = {} /\ taken[inner] = << >>
  BY <1>k, <1>1, InnerFacts
<1>3. References(inner) /\ Spelled(inner)
  BY <1>2 DEF TweastInv
<1>t. /\ Top' = Top /\ Inner' = inner /\ tweast_input' = texts[inner] /\ move' = DOMAIN trees[inner]
      /\ tweast_index' = k /\ moving'
  BY <1>1 DEF Inner, Top
<1>4. TweastTypeOK'
  <2>1. texts[inner] \in Seq(TextItem)
    BY <1>0, <1>2 DEF TweastTypeOK
  <2>2. DOMAIN trees[inner] \in SUBSET [kind : Kinds, key : Nat]
    BY <1>0, <1>2 DEF TweastTypeOK, IsMapOf
  <2> QED
    BY <1>0, <1>2, <1>t, <2>1, <2>2 DEF TweastTypeOK
<1>5. ASSUME NEW c \in TweastIds PROVE References(c)'
  <2>1. References(c)
    BY DEF TweastInv
  <2>2. count_ <= count_' /\ count_' \in Nat
    BY <1>0 DEF TweastTypeOK
  <2>3. \A ref : ~ Arriving(c, ref)
    BY <1>0 DEF Arriving
  <2> QED
    BY <1>0, <2>1, <2>2, <2>3, ReferencesSame
<1>6. ASSUME NEW c \in TweastIds PROVE Spelled(c)'
  BY DEF TweastInv, Spelled, Parts, Part
<1>7. ASSUME NEW c \in TweastIds PROVE Kept(c)'
  BY DEF TweastInv, Kept
<1>8. Owned'
  BY <1>0 DEF Owned
<1>9. \A i \in DOMAIN flattening' : CallIsFor(i)'
  BY DEF TweastInv, CallIsFor
<1>10. MovedText'
  <2>0. texts \in [TweastIds -> Seq(TextItem)] /\ texts[inner] \in Seq(TextItem)
    BY <1>0, <1>2 DEF TweastTypeOK
  <2>1. Numbered(texts[inner], count_)
    BY <1>3 DEF References
  <2>2. ASSUME NEW ref \in DOMAIN trees[inner] PROVE InText(texts[inner], ref)
    BY <1>0, <1>3 DEF References, Arriving
  <2>3. ASSUME NEW w, InText(texts[inner], w)
        PROVE  /\ w \in TextItem /\ (w.kind = WordKind \/ w \in DOMAIN trees[inner])
               /\ w.kind = WordKind => w \notin DOMAIN trees[inner]
               /\ w \in DOMAIN trees[inner] => w.kind # TweastKind
    <3>1. /\ w \in TextItem
          /\ w.kind \in Kinds => w \in DOMAIN trees[inner]
          /\ w.kind = TweastKind => w.key \in DOMAIN tweasts[inner]
      BY <1>2, <1>3, <2>0, <2>3, ItemsOfText
    <3>2. w \in DOMAIN trees[inner] => w \in [kind : Kinds, key : Nat]
      BY <1>0, <1>2 DEF TweastTypeOK, IsMapOf
    <3> QED
      BY <1>2, <3>1, <3>2, ItemKinds, TreeReference
  <2>4. content[inner] = FlattenSeq(Parts(inner, texts[inner]))
    <3>1. Parts(inner, texts[inner]) \in Seq(Seq(Given))
      BY <1>0, <1>2, <1>3, PartsTyped
    <3>2. << >> \in Seq(Given)
      OBVIOUS
    <3>3. FlattenSeq(Parts(inner, texts[inner])) \in Seq(Given)
      BY <3>1, <3>2, FlattenAppend
    <3>4. << >> \o FlattenSeq(Parts(inner, texts[inner])) = FlattenSeq(Parts(inner, texts[inner]))
      BY <3>3
    <3> QED
      BY <1>2, <1>3, <3>4 DEF Spelled
  <2>5. ASSUME NEW w, InText(texts[inner], w) PROVE MovedPart(w)' = Part(inner, w)
    <3>1. CASE w \in DOMAIN trees[inner]
      <4>1. w.kind # WordKind /\ w.kind # TweastKind
        BY <2>3, <2>5, <3>1
      <4>2. MovedPart(w)' = << trees[inner][w] >>
        BY <1>t, <3>1 DEF MovedPart
      <4> QED
        BY <4>1, <4>2 DEF Part
    <3>2. CASE w \notin DOMAIN trees[inner]
      <4>1. w.kind = WordKind
        BY <2>3, <2>5, <3>2
      <4> QED
        BY <1>t, <3>2, <4>1 DEF MovedPart, Part
    <3> QED
      BY <3>1, <3>2
  <2>6. [i \in DOMAIN tweast_input |-> MovedPart(tweast_input[i])]' = Parts(inner, texts[inner])
    <3>1. ASSUME NEW i \in DOMAIN texts[inner]
          PROVE  MovedPart(tweast_input[i])' = Part(inner, texts[inner][i])
      <4> DEFINE w == texts[inner][i]
      <4>1. MovedPart(w)' = Part(inner, w)
        BY <2>5, ItemOfText
      <4>2. tweast_input'[i] = w /\ texts'[inner][i] = w
        BY <1>t
      <4>3. MovedPart(tweast_input[i])' = MovedPart(w)'
        BY <4>2 DEF MovedPart, Part
      <4> QED
        BY <4>1, <4>3
    <3> QED
      BY <1>t, <3>1 DEF Parts
  <2>7. content'[inner] = FlattenSeq([i \in DOMAIN tweast_input |-> MovedPart(tweast_input[i])]')
    BY <2>4, <2>6
  <2>8. /\ flattening' # << >> /\ Top'.visit = {} /\ tweast_index' \in DOMAIN tweasts'[Top'.id]
        /\ Numbered(tweast_input, count_)'
        /\ move' \subseteq DOMAIN trees'[inner]
        /\ \A ref \in move' : InText(tweast_input', ref)
    BY <1>k, <1>t, <2>1, <2>2 DEF Numbered
  <2>9. \A i \in DOMAIN tweast_input' :
          ~ (tweast_input'[i].kind # WordKind /\ tweast_input'[i] \notin move')
    BY <1>t, <2>3, ItemOfText
  <2> QED
    BY <1>t, <2>7, <2>8, <2>9 DEF MovedText
<1> QED
  BY <1>0, <1>4, <1>5, <1>6, <1>7, <1>8, <1>9, <1>10 DEF TweastInv

\* Where the items of a text come from when one reference is replaced.
LEMMA ItemsAfterOne ==
  ASSUME NEW items \in Seq(TextItem), NEW i \in DOMAIN items,
         \A j \in DOMAIN items : items[j] = items[i] => j = i,
         NEW w \in TextItem, NEW r, r = ReplaceReference(items, items[i], << w >>)
  PROVE  /\ r \in Seq(TextItem) /\ DOMAIN r = DOMAIN items /\ InText(r, w)
         /\ \A j \in DOMAIN items : r[j] = IF j = i THEN w ELSE items[j]
         /\ \A v : v # items[i] /\ InText(items, v) => InText(r, v)
<1>1. /\ r \in Seq(TextItem) /\ DOMAIN r = DOMAIN items
      /\ \A j \in DOMAIN items : r[j] = IF j = i THEN w ELSE items[j]
  BY ReplaceOne
<1>2. InText(r, w)
  BY <1>1 DEF InText
<1>3. \A v : v # items[i] /\ InText(items, v) => InText(r, v)
  BY <1>1 DEF InText
<1> QED
  BY <1>1, <1>2, <1>3

\* A tree that moves takes a new number, in the text too.
LEMMA MoveMetavarKeeps ==
  ASSUME TweastInv, NEW ref, MoveMetavar(ref) PROVE TweastInv'
<1> USE DEF MoveMetavar
<1>0. TweastTypeOK /\ Owned /\ MovedText /\ moving = TRUE /\ ref \in move
  BY DEF TweastInv, TweastTypeOK
<1>1. PICK top, inner, new : top = Top.id /\ inner = Inner /\ new = NewNumber(ref)
  OBVIOUS
<1>2. /\ top \in TweastIds /\ inner \in TweastIds /\ inner # top /\ place[top] # "none"
      /\ inner = tweasts[top][tweast_index] /\ tweast_index \in DOMAIN tweasts[top]
      /\ Top.visit = {} /\ flattening # << >>
  BY <1>0, <1>1, InnerFacts DEF MovedText, Inner
<1>3. /\ ref \in [kind : Kinds, key : Nat] /\ ref \in TextItem /\ ref.kind \in Kinds
      /\ ref.kind # WordKind /\ ref.kind # TweastKind
      /\ ref \in DOMAIN trees[inner] /\ InText(tweast_input, ref)
      /\ trees[inner][ref] \in Trees /\ count_ \in Nat
  <2>1. ref \in [kind : Kinds, key : Nat] /\ count_ \in Nat
    BY <1>0 DEF TweastTypeOK
  <2>2. ref \in DOMAIN trees[inner] /\ InText(tweast_input, ref)
    BY <1>0, <1>1 DEF MovedText
  <2>3. trees[inner][ref] \in Trees
    BY <1>0, <1>2, <2>2 DEF TweastTypeOK, IsMapOf
  <2> QED
    BY <2>1, <2>2, <2>3, TreeReference
<1>4. /\ new \in [kind : Kinds, key : Nat] /\ new \in TextItem /\ new.key = count_
      /\ new.kind # WordKind /\ new.kind # TweastKind /\ new.kind = ref.kind
  BY <1>1, <1>3, ShowIs DEF NewNumber
<1>5. tweast_input \in Seq(TextItem) /\ Numbered(tweast_input, count_)
  BY <1>0 DEF TweastTypeOK, MovedText
<1>6. PICK i \in DOMAIN tweast_input : tweast_input[i] = ref
  BY <1>3 DEF InText
<1>7. \A j \in DOMAIN tweast_input : tweast_input[j] = tweast_input[i] => j = i
  BY <1>3, <1>5, <1>6 DEF Numbered
<1>t. /\ Top' = Top /\ Inner' = inner /\ tweast_index' = tweast_index /\ moving'
      /\ tweast_input' = ReplaceReference(tweast_input, tweast_input[i], << new >>)
      /\ move' = move \ {ref} /\ count_' = count_ + 1 /\ texts' = texts /\ tweasts' = tweasts
      /\ content' = content /\ flattening' = flattening /\ place' = place /\ taken' = taken
      /\ trees' = [trees EXCEPT ![top] = With(trees[top], new, trees[inner][ref])]
  BY <1>0, <1>1, <1>6 DEF Inner, Top
<1>w. /\ trees'[top] = With(trees[top], new, trees[inner][ref])
      /\ \A c \in TweastIds : c # top => trees'[c] = trees[c]
      /\ trees'[inner] = trees[inner] /\ DOMAIN trees' = TweastIds
  BY <1>0, <1>2, <1>t DEF TweastTypeOK
<1>d. /\ DOMAIN trees'[top] = DOMAIN trees[top] \cup {new} /\ trees'[top][new] = trees[inner][ref]
      /\ \A v \in DOMAIN trees[top] : v # new => trees'[top][v] = trees[top][v]
  BY <1>w DEF With
<1>i. /\ tweast_input' \in Seq(TextItem) /\ DOMAIN tweast_input' = DOMAIN tweast_input
      /\ InText(tweast_input', new)
      /\ \A j \in DOMAIN tweast_input : tweast_input'[j] = IF j = i THEN new ELSE tweast_input[j]
      /\ \A v : v # ref /\ InText(tweast_input, v) => InText(tweast_input', v)
  <2>1. PICK s, r : s = tweast_input /\ r = tweast_input'
    OBVIOUS
  <2>2. /\ s \in Seq(TextItem) /\ i \in DOMAIN s /\ \A j \in DOMAIN s : s[j] = s[i] => j = i
        /\ r = ReplaceReference(s, s[i], << new >>) /\ new \in TextItem
    BY <1>4, <1>5, <1>7, <1>t, <2>1
  <2>3. /\ r \in Seq(TextItem) /\ DOMAIN r = DOMAIN s /\ InText(r, new)
        /\ \A j \in DOMAIN s : r[j] = IF j = i THEN new ELSE s[j]
        /\ \A v : v # s[i] /\ InText(s, v) => InText(r, v)
    BY <2>2, ItemsAfterOne
  <2> QED
    BY <1>6, <2>1, <2>3
<1>8. Numbered(tweast_input', count_')
  BY <1>3, <1>4, <1>5, <1>6, <1>t, NumberedReplaceOne
<1>m. /\ move \subseteq DOMAIN trees[inner] /\ \A r \in move : InText(tweast_input, r)
      /\ \A j \in DOMAIN tweast_input :
           tweast_input[j].kind # WordKind /\ tweast_input[j] \notin move =>
             tweast_input[j] \in DOMAIN trees[top] /\ ~ InText(texts[top], tweast_input[j])
      /\ content[inner] = FlattenSeq([j \in DOMAIN tweast_input |-> MovedPart(tweast_input[j])])
  BY <1>0, <1>1 DEF MovedText
<1>r. References(top) /\ texts[top] \in Seq(TextItem) /\ texts \in [TweastIds -> Seq(TextItem)]
  BY <1>0, <1>2 DEF TweastInv, TweastTypeOK
\* The number is new.
<1>n. ~ InText(tweast_input, new) /\ ~ InText(texts[top], new) /\ new \notin DOMAIN trees[top] /\ new \notin move
  <2>1. ~ InText(tweast_input, new)
    BY <1>3, <1>4, <1>5 DEF Numbered, InText
  <2>2. ~ InText(texts[top], new)
    BY <1>3, <1>4, <1>r DEF References, Numbered, InText
  <2>3. new \notin DOMAIN trees[top]
    BY <1>r, <2>1, <2>2 DEF References, Arriving
  <2> QED
    BY <1>m, <2>1, <2>2, <2>3
<1>9. TweastTypeOK'
  <2>1. IsMapOf(trees'[top], [kind : Kinds, key : Nat], Trees)
    BY <1>0, <1>2, <1>3, <1>4, <1>d DEF TweastTypeOK, IsMapOf
  <2>2. \A c \in TweastIds : IsMapOf(trees'[c], [kind : Kinds, key : Nat], Trees)
    BY <1>0, <1>w, <2>1 DEF TweastTypeOK
  <2>3. move' \in SUBSET [kind : Kinds, key : Nat] /\ count_' \in Nat
    BY <1>0, <1>3, <1>t DEF TweastTypeOK
  <2> QED
    BY <1>0, <1>i, <1>t, <1>w, <2>2, <2>3 DEF TweastTypeOK
<1>10. ASSUME NEW c \in TweastIds PROVE References(c)'
  <2>1. References(c) /\ count_ <= count_' /\ count_' \in Nat
    BY <1>3, <1>t DEF TweastInv
  <2>2. CASE c # top
    <3>1. \A r : ~ Arriving(c, r)
      BY <1>1, <2>2 DEF Arriving
    <3> QED
      BY <1>0, <1>t, <1>w, <2>1, <2>2, <3>1, ReferencesSame
  <2>3. CASE c = top
    <3>1. Numbered(texts[top], count_')
      BY <1>3, <1>r, <1>t, <2>1, NumberedMore DEF References
    <3>2. ASSUME NEW r \in DOMAIN trees'[top] PROVE InText(texts[top], r) \/ Arriving(top, r)'
      <4>1. CASE r = new
        BY <1>1, <1>i, <1>n, <1>t, <4>1 DEF Arriving
      <4>2. CASE r \in DOMAIN trees[top]
        <5>1. CASE InText(texts[top], r)
          BY <5>1
        <5>2. CASE Arriving(top, r)
          <6>1. r \notin move /\ InText(tweast_input, r) /\ r # ref
            BY <1>0, <5>2 DEF Arriving
          <6> QED
            BY <1>1, <1>i, <1>t, <6>1 DEF Arriving
        <5> QED
          BY <1>r, <4>2, <5>1, <5>2 DEF References
      <4> QED
        BY <1>d, <4>1, <4>2
    <3>3. \A j \in DOMAIN texts[top] :
            /\ texts[top][j].kind \in Kinds => texts[top][j] \in DOMAIN trees'[top]
            /\ texts[top][j].kind = TweastKind => texts[top][j].key \in DOMAIN tweasts[top]
      BY <1>d, <1>r DEF References
    <3>4. \A k \in DOMAIN tweasts[top] : InText(texts[top], Show(TweastKind, k))
      BY <1>r DEF References
    <3> QED
      BY <1>t, <2>3, <3>1, <3>2, <3>3, <3>4 DEF References
  <2> QED
    BY <2>2, <2>3
<1>11. ASSUME NEW c \in TweastIds PROVE Spelled(c)'
  <2>1. Spelled(c) /\ References(c)
    BY DEF TweastInv
  <2>2. ASSUME NEW w, InText(texts[c], w) PROVE Part(c, w)' = Part(c, w)
    <3>1. w \in TextItem /\ (w.kind \in Kinds => w \in DOMAIN trees[c])
      BY <1>r, <2>1, <2>2, ItemsOfText
    <3>2. w.kind \in Kinds => trees'[c][w] = trees[c][w]
      BY <1>d, <1>n, <1>w, <3>1
    <3> QED
      BY <1>t, <3>1, <3>2, PartSame
  <2> QED
    BY <1>t, <2>1, <2>2, SpelledSame
<1>12. ASSUME NEW c \in TweastIds PROVE Kept(c)'
  <2>1. Kept(c) /\ (c # top => trees'[c] = trees[c])
    BY <1>w DEF TweastInv
  <2> QED
    BY <1>2, <1>t, <2>1 DEF Kept
<1>13. Owned'
  BY <1>0, <1>t DEF Owned
<1>14. \A j \in DOMAIN flattening' : CallIsFor(j)'
  BY <1>t DEF TweastInv, CallIsFor
<1>15. MovedText'
  <2>1. /\ flattening' # << >> /\ Top'.visit = {} /\ tweast_index' \in DOMAIN tweasts'[Top'.id]
        /\ Numbered(tweast_input, count_)' /\ move' \subseteq DOMAIN trees'[inner]
    BY <1>1, <1>2, <1>8, <1>m, <1>t, <1>w DEF Numbered
  <2>2. \A r \in move' : InText(tweast_input', r)
    BY <1>i, <1>m, <1>t
  <2>3. ASSUME NEW j \in DOMAIN tweast_input',
               tweast_input'[j].kind # WordKind, tweast_input'[j] \notin move'
        PROVE  /\ tweast_input'[j] \in DOMAIN trees'[top]
               /\ ~ InText(texts'[top], tweast_input'[j])
    <3>1. CASE j = i
      BY <1>d, <1>i, <1>n, <1>t, <3>1
    <3>2. CASE j # i
      <4>1. tweast_input'[j] = tweast_input[j] /\ tweast_input[j] # ref
        BY <1>6, <1>7, <1>i, <3>2
      <4> QED
        BY <1>d, <1>i, <1>m, <1>t, <2>3, <4>1
    <3> QED
      BY <3>1, <3>2
  <2>4. ASSUME NEW j \in DOMAIN tweast_input
        PROVE  MovedPart(tweast_input[j])' = MovedPart(tweast_input[j])
    <3>1. CASE j = i
      <4>1. MovedPart(tweast_input[j]) = << trees[inner][ref] >>
        BY <1>0, <1>1, <1>6, <3>1 DEF MovedPart
      <4>2. tweast_input'[j] = new /\ new \notin move'
        BY <1>i, <1>n, <1>t, <3>1
      <4>3. MovedPart(tweast_input[j])' = << trees'[top][new] >>
        BY <1>1, <1>4, <1>t, <4>2 DEF MovedPart, Part
      <4> QED
        BY <1>d, <4>1, <4>3
    <3>2. CASE j # i
      <4>1. PICK w : w = tweast_input[j]
        OBVIOUS
      <4>2. tweast_input'[j] = w /\ w # ref /\ w \in TextItem
        BY <1>5, <1>6, <1>7, <1>i, <3>2, <4>1
      <4>3. CASE w \in move
        <5>1. MovedPart(tweast_input[j])' = << trees'[inner][w] >>
          BY <1>t, <4>2, <4>3 DEF MovedPart
        <5>2. MovedPart(tweast_input[j]) = << trees[inner][w] >>
          BY <1>1, <4>1, <4>3 DEF MovedPart
        <5> QED
          BY <1>w, <5>1, <5>2
      <4>4. CASE w \notin move
        <5>1. MovedPart(tweast_input[j])' = Part(top, w)'
          BY <1>1, <1>t, <4>2, <4>4 DEF MovedPart, Part
        <5>2. MovedPart(tweast_input[j]) = Part(top, w)
          BY <1>1, <4>1, <4>4 DEF MovedPart
        <5>3. w.kind # WordKind => w \in DOMAIN trees[top] /\ w # new
          BY <1>m, <1>n, <4>1, <4>4
        <5>4. w.kind \in Kinds => trees'[top][w] = trees[top][w]
          BY <1>d, <5>3, KindsApart
        <5>5. Part(top, w)' = Part(top, w)
          BY <1>2, <1>t, <4>2, <5>4, PartSame
        <5> QED
          BY <5>1, <5>2, <5>5
      <4> QED
        BY <4>3, <4>4
    <3> QED
      BY <3>1, <3>2
  <2>5. [j \in DOMAIN tweast_input |-> MovedPart(tweast_input[j])]'
          = [j \in DOMAIN tweast_input |-> MovedPart(tweast_input[j])]
    BY <1>i, <2>4
  <2>6. content'[inner] = FlattenSeq([j \in DOMAIN tweast_input |-> MovedPart(tweast_input[j])]')
    BY <1>m, <1>t, <2>5
  <2> QED
    BY <1>1, <1>t, <2>1, <2>2, <2>3, <2>6 DEF MovedText
<1> QED
  BY <1>0, <1>9, <1>10, <1>11, <1>12, <1>13, <1>14, <1>15, <1>t DEF TweastInv

\* Which element of a spliced sequence is which.
LEMMA SplicedCases ==
  ASSUME NEW n \in Nat, NEW q \in Nat, NEW i \in 1 .. n, NEW j \in 1 .. (n + q) - 1
  PROVE  \/ j \in 1 .. i - 1
         \/ \E o \in 1 .. q : j = (i - 1) + o
         \/ \E o \in 1 .. n - i : j = ((i - 1) + q) + o
<1>1. CASE j < i
  BY <1>1
<1>2. CASE i <= j /\ j <= (i - 1) + q
  <2>1. (j - i) + 1 \in 1 .. q /\ j = (i - 1) + ((j - i) + 1)
    BY <1>2
  <2> QED
    BY <2>1
<1>3. CASE j > (i - 1) + q
  <2>1. j - ((i - 1) + q) \in 1 .. n - i /\ j = ((i - 1) + q) + (j - ((i - 1) + q))
    BY <1>3
  <2> QED
    BY <2>1
<1> QED
  BY <1>1, <1>2, <1>3

\* A text that spells what a reference in another stands for takes its place.
LEMMA SpelledSplice ==
  ASSUME TweastTypeOK, NEW id \in TweastIds, References(id), Spelled(id),
         NEW i \in DOMAIN texts[id], NEW new \in Seq(TextItem), NEW stand \in Seq(Seq(Given)),
         texts'[id] \in Seq(TextItem), SplicedAt(texts'[id], texts[id], i, new),
         Len(stand) = Len(new), FlattenSeq(stand) = Part(id, texts[id][i]),
         \A j \in 1 .. Len(new) : Part(id, new[j])' = stand[j],
         \A j \in DOMAIN texts[id] : j # i =>
           \A w : w = texts[id][j] => Part(id, w)' = Part(id, w),
         taken'[id] = taken[id], content'[id] = content[id]
  PROVE  Spelled(id)'
<1>0. PICK n, q : n = Len(texts[id]) /\ q = Len(new)
  OBVIOUS
<1> DEFINE P == Parts(id, texts[id])
           R == Spliced(P, i, stand)
           m == (n + q) - 1
<1>1. P \in Seq(Seq(Given)) /\ Len(P) = n /\ \A j \in 1 .. n : P[j] = Part(id, texts[id][j])
  BY <1>0, PartsTyped
<1>2. /\ n \in Nat /\ q \in Nat /\ i \in 1 .. n /\ DOMAIN texts[id] = 1 .. n
      /\ texts[id] \in Seq(TextItem)
  BY <1>0 DEF TweastTypeOK
<1> HIDE DEF P
<1>3. R \in Seq(Seq(Given)) /\ SplicedAt(R, P, i, stand)
  <2>1. i \in DOMAIN P
    BY <1>1, <1>2
  <2> QED
    BY <1>1, <2>1, SplicedFacts
<1> HIDE DEF R
<1>4. /\ Len(R) = m
      /\ \A j \in 1 .. i - 1 : R[j] = P[j]
      /\ \A j \in 1 .. q : R[(i - 1) + j] = stand[j]
      /\ \A j \in 1 .. n - i : R[((i - 1) + q) + j] = P[i + j]
  BY <1>0, <1>1, <1>3 DEF SplicedAt
<1>5. /\ Len(texts'[id]) = m
      /\ \A j \in 1 .. i - 1 : texts'[id][j] = texts[id][j]
      /\ \A j \in 1 .. q : texts'[id][(i - 1) + j] = new[j]
      /\ \A j \in 1 .. n - i : texts'[id][((i - 1) + q) + j] = texts[id][i + j]
  BY <1>0 DEF SplicedAt
<1>6. ASSUME NEW w, NEW j, texts'[id][j] = w PROVE Part(id, texts[id][j])' = Part(id, w)'
  BY <1>6 DEF Part
<1>7. ASSUME NEW o \in 1 .. n, o # i, NEW j, texts'[id][j] = texts[id][o]
      PROVE  Part(id, texts[id][j])' = P[o]
  <2>1. PICK w : w = texts[id][o]
    OBVIOUS
  <2>2. Part(id, w)' = Part(id, w)
    BY <1>2, <1>7, <2>1
  <2>3. Part(id, texts[id][j])' = Part(id, w)'
    BY <1>6, <1>7, <2>1
  <2> QED
    BY <1>1, <2>1, <2>2, <2>3
<1>8. ASSUME NEW j \in 1 .. m PROVE Part(id, texts[id][j])' = R[j]
  <2>1. CASE j \in 1 .. i - 1
    <3>1. j \in 1 .. n /\ j # i
      BY <1>2, <2>1
    <3> QED
      BY <1>4, <1>5, <1>7, <2>1, <3>1
  <2>2. ASSUME NEW o \in 1 .. q, j = (i - 1) + o PROVE Part(id, texts[id][j])' = R[j]
    <3>1. PICK w : w = new[o]
      OBVIOUS
    <3>2. texts'[id][j] = w
      BY <1>5, <2>2, <3>1
    <3>3. Part(id, texts[id][j])' = Part(id, w)'
      BY <1>6, <3>2
    <3>4. Part(id, w)' = stand[o]
      BY <1>0, <3>1
    <3> QED
      BY <1>4, <2>2, <3>3, <3>4
  <2>3. ASSUME NEW o \in 1 .. n - i, j = ((i - 1) + q) + o PROVE Part(id, texts[id][j])' = R[j]
    <3>1. i + o \in 1 .. n /\ i + o # i
      BY <1>2
    <3>2. texts'[id][j] = texts[id][i + o] /\ R[j] = P[i + o]
      BY <1>4, <1>5, <2>3
    <3> QED
      BY <1>7, <3>1, <3>2
  <2> QED
    BY <1>2, <2>1, <2>2, <2>3, SplicedCases
<1>9. Parts(id, texts[id])' = R
  <2>1. DOMAIN texts'[id] = 1 .. m
    BY <1>5
  <2>2. Parts(id, texts[id])' = [j \in 1 .. m |-> Part(id, texts[id][j])']
    BY <2>1 DEF Parts
  <2>3. DOMAIN R = 1 .. m
    BY <1>3, <1>4
  <2>4. R = [j \in 1 .. m |-> R[j]]
    BY <1>3, <2>3
  <2> QED
    BY <1>8, <2>2, <2>4
<1>10. FlattenSeq(R) = FlattenSeq(P)
  <2>1. i \in DOMAIN P /\ P[i] = Part(id, texts[id][i])
    BY <1>1, <1>2
  <2> QED
    BY <1>1, <2>1, SplicedFlatten DEF R
<1>11. content[id] = taken[id] \o FlattenSeq(P)
  BY DEF Spelled, P
<1>12. content'[id] = taken'[id] \o FlattenSeq(R)
  BY <1>10, <1>11
<1> QED
  BY <1>9, <1>12 DEF Spelled

\* The text that was moved takes the place of the reference.
LEMMA ReplaceInnerKeeps ==
  ASSUME TweastInv, ReplaceInner PROVE TweastInv'
<1> USE DEF ReplaceInner
<1>0. TweastTypeOK /\ Owned /\ MovedText /\ moving = TRUE /\ move = {}
  BY DEF TweastInv, TweastTypeOK
<1>1. PICK top, inner, new, k :
        top = Top.id /\ inner = Inner /\ new = tweast_input /\ k = tweast_index
  OBVIOUS
<1>2. /\ top \in TweastIds /\ inner \in TweastIds /\ inner # top /\ place[top] # "none"
      /\ inner = tweasts[top][k] /\ k \in DOMAIN tweasts[top] /\ k \in Nat
      /\ place[inner] = "tweast" /\ DOMAIN tweasts[inner] = {} /\ taken[inner] = << >>
      /\ Top.visit = {} /\ flattening # << >>
  BY <1>0, <1>1, InnerFacts DEF MovedText, Inner
<1>3. References(top) /\ Spelled(top) /\ texts[top] \in Seq(TextItem) /\ texts \in [TweastIds -> Seq(TextItem)]
  BY <1>0, <1>2 DEF TweastInv, TweastTypeOK
<1> DEFINE x == Show(TweastKind, k)
<1>x. x \in TextItem /\ x.kind = TweastKind /\ x.key = k /\ x.kind # WordKind /\ x.kind \notin Kinds
  BY <1>2, ShowIs, KindsApart
<1> HIDE DEF x
<1>4. PICK i \in DOMAIN texts[top] : texts[top][i] = x
  BY <1>2, <1>3 DEF References, InText, x
<1>5. Numbered(texts[top], count_) /\ \A j \in DOMAIN texts[top] : texts[top][j] = texts[top][i] => j = i
  BY <1>3, <1>4, <1>x DEF References, Numbered
<1>6. /\ new \in Seq(TextItem) /\ Numbered(new, count_) /\ count_ \in Nat
      /\ \A j \in DOMAIN new : new[j].kind # WordKind =>
           new[j] \in DOMAIN trees[top] /\ ~ InText(texts[top], new[j])
      /\ content[inner] = FlattenSeq([j \in DOMAIN new |-> MovedPart(new[j])])
  BY <1>0, <1>1 DEF TweastTypeOK, MovedText
<1>t. /\ texts'[top] = ReplaceReference(texts[top], texts[top][i], new) /\ texts'[inner] = << >>
      /\ trees'[inner] = << >> /\ tweasts'[top] = Without(tweasts[top], k)
      /\ place'[inner] = "none" /\ content'[inner] = << >>
      /\ \A c \in TweastIds : c # top /\ c # inner => texts'[c] = texts[c]
      /\ \A c \in TweastIds : c # top => tweasts'[c] = tweasts[c]
      /\ \A c \in TweastIds : c # inner =>
           trees'[c] = trees[c] /\ place'[c] = place[c] /\ content'[c] = content[c]
      /\ texts' = [texts EXCEPT ![top] = ReplaceReference(texts[top], texts[top][i], new),
                                ![inner] = << >>]
      /\ DOMAIN trees' = TweastIds /\ DOMAIN tweasts' = TweastIds
      /\ moving' = FALSE /\ tweast_index' = 0 /\ tweast_input' = << >>
      /\ UNCHANGED << count_, flattening, move, taken, broken >>
  BY <1>0, <1>1, <1>2, <1>4 DEF TweastTypeOK, x
<1>d. /\ DOMAIN tweasts'[top] = DOMAIN tweasts[top] \ {k}
      /\ \A l \in DOMAIN tweasts[top] \ {k} : tweasts'[top][l] = tweasts[top][l]
  <2>1. tweasts'[top] = Without(tweasts[top], k)
    BY <1>t
  <2> HIDE DEF ReplaceInner
  <2>2. PICK f, g : f = tweasts[top] /\ g = tweasts'[top]
    OBVIOUS
  <2>3. g = Without(f, k)
    BY <2>1, <2>2
  <2>4. DOMAIN g = DOMAIN f \ {k} /\ \A l \in DOMAIN f \ {k} : g[l] = f[l]
    BY <2>3, WithoutFacts
  <2> QED
    BY <2>2, <2>4
<1>s. \A c \in TweastIds :
        /\ DOMAIN tweasts'[c] \subseteq DOMAIN tweasts[c]
        /\ \A l \in DOMAIN tweasts'[c] : tweasts'[c][l] = tweasts[c][l]
  BY <1>d, <1>t
\* No other reference is to the Tweast that goes.
<1>o. \A c \in TweastIds : \A l \in DOMAIN tweasts[c] : (c # top \/ l # k) => tweasts[c][l] # inner
  BY <1>0, <1>2 DEF Owned
<1>r. /\ texts'[top] \in Seq(TextItem) /\ SplicedAt(texts'[top], texts[top], i, new)
      /\ Numbered(texts'[top], count_)
      /\ \A j \in DOMAIN texts'[top] :
           InText(new, texts'[top][j]) \/ (InText(texts[top], texts'[top][j]) /\ texts'[top][j] # x)
      /\ \A w : w # x /\ InText(texts[top], w) => InText(texts'[top], w)
      /\ \A w : InText(new, w) => InText(texts'[top], w)
  <2>1. PICK s, r : s = texts[top] /\ r = texts'[top]
    OBVIOUS
  <2>2. /\ s \in Seq(TextItem) /\ i \in DOMAIN s /\ \A j \in DOMAIN s : s[j] = s[i] => j = i
        /\ Numbered(s, count_) /\ s[i].kind # WordKind /\ s[i] = x
        /\ \A j \in DOMAIN new : new[j].kind # WordKind => ~ InText(s, new[j])
        /\ r = ReplaceReference(s, s[i], new)
    BY <1>3, <1>4, <1>5, <1>6, <1>t, <1>x, <2>1
  <2>3. r \in Seq(TextItem) /\ SplicedAt(r, s, i, new)
    BY <1>6, <2>2, ReplaceMany
  <2>4. /\ Numbered(r, count_)
        /\ \A j \in DOMAIN r : InText(new, r[j]) \/ (InText(s, r[j]) /\ r[j] # s[i])
    BY <1>6, <2>2, NumberedReplace
  <2>5. /\ \A w : w # s[i] /\ InText(s, w) => InText(r, w)
        /\ \A w : InText(new, w) => InText(r, w)
    BY <1>6, <2>2, ReplaceFrom
  <2> QED
    BY <2>1, <2>2, <2>3, <2>4, <2>5
<1>7. TweastTypeOK'
  <2>1. << >> \in Seq(TextItem) /\ << >> \in Seq(Given) /\ DOMAIN << >> = {}
    OBVIOUS
  <2>2. texts' \in [TweastIds -> Seq(TextItem)]
    BY <1>3, <1>r, <1>t, <2>1
  <2>3. \A c \in TweastIds : IsMapOf(trees'[c], [kind : Kinds, key : Nat], Trees)
    BY <1>0, <1>t, <2>1 DEF TweastTypeOK, IsMapOf
  <2>4. \A c \in TweastIds : IsMapOf(tweasts'[c], Nat, TweastIds)
    BY <1>0, <1>s DEF TweastTypeOK, IsMapOf
  <2>5. /\ content' \in [TweastIds -> Seq(Given)]
        /\ place' \in [TweastIds -> {"none", "program", "tweast", "parser"}]
    BY <1>0, <2>1 DEF TweastTypeOK
  <2>6. /\ count_' = count_ /\ flattening' = flattening /\ move' = move /\ taken' = taken
        /\ broken' = broken /\ moving' \in BOOLEAN /\ tweast_index' \in Nat
        /\ tweast_input' \in Seq(TextItem) /\ DOMAIN trees' = TweastIds /\ DOMAIN tweasts' = TweastIds
    <3> HIDE DEF ReplaceInner
    <3> QED
      BY <1>t, <2>1
  <2> QED
    BY <1>0, <2>2, <2>3, <2>4, <2>5, <2>6 DEF TweastTypeOK
<1>8. ASSUME NEW c \in TweastIds PROVE References(c)'
  <2>1. References(c)
    BY DEF TweastInv
  <2>2. CASE c = inner
    <3>1. DOMAIN texts'[inner] = {} /\ DOMAIN trees'[inner] = {} /\ DOMAIN tweasts'[inner] = {}
      BY <1>2, <1>t
    <3> QED
      BY <2>2, <3>1 DEF References, Numbered
  <2>3. CASE c # top /\ c # inner
    <3>1. \A ref : ~ Arriving(c, ref)
      BY <1>1, <2>3 DEF Arriving
    <3>2. count_' \in Nat /\ count_ <= count_'
      BY <1>6, <1>t
    <3>3. texts'[c] = texts[c] /\ DOMAIN trees'[c] = DOMAIN trees[c] /\ DOMAIN tweasts'[c] = DOMAIN tweasts[c]
      BY <1>t, <2>3
    <3> QED
      BY <1>0, <2>1, <3>1, <3>2, <3>3, ReferencesSame
  <2>4. CASE c = top
    <3>1. ASSUME NEW ref \in DOMAIN trees'[top] PROVE InText(texts'[top], ref)
      <4>0. ref \in DOMAIN trees[top]
        BY <1>2, <1>t
      <4>1. ref # x
        <5>1. ref \in [kind : Kinds, key : Nat]
          BY <1>0, <1>2, <4>0 DEF TweastTypeOK, IsMapOf
        <5> QED
          BY <1>x, <5>1, TreeReference
      <4>2. InText(texts[top], ref) \/ InText(new, ref)
        BY <1>1, <1>3, <4>0 DEF References, Arriving
      <4> QED
        BY <1>r, <4>1, <4>2
    <3>2. ASSUME NEW l \in DOMAIN tweasts'[top] PROVE InText(texts'[top], Show(TweastKind, l))
      <4>1. l \in DOMAIN tweasts[top] /\ l # k
        BY <1>d
      <4>2. InText(texts[top], Show(TweastKind, l))
        BY <1>3, <4>1 DEF References
      <4>3. Show(TweastKind, l) # x
        BY <1>x, <4>1 DEF Show
      <4> QED
        BY <1>r, <4>2, <4>3
    <3>3. ASSUME NEW j \in DOMAIN texts'[top]
          PROVE  /\ texts'[top][j].kind \in Kinds => texts'[top][j] \in DOMAIN trees'[top]
                 /\ texts'[top][j].kind = TweastKind => texts'[top][j].key \in DOMAIN tweasts'[top]
      <4>0. PICK w : w = texts'[top][j]
        OBVIOUS
      <4>1. CASE InText(new, w)
        <5>1. PICK l \in DOMAIN new : new[l] = w
          BY <4>1 DEF InText
        <5>2. w.kind # WordKind => w \in DOMAIN trees[top]
          BY <1>6, <5>1
        <5>3. w \in DOMAIN trees[top] => w.kind # TweastKind
          BY <1>0, <1>2, TreeReference DEF TweastTypeOK, IsMapOf
        <5> QED
          BY <1>2, <1>t, <4>0, <5>2, <5>3, KindsApart
      <4>2. CASE InText(texts[top], w) /\ w # x
        <5>1. /\ w \in TextItem
              /\ w.kind \in Kinds => w \in DOMAIN trees[top]
              /\ w.kind = TweastKind => w.key \in DOMAIN tweasts[top]
          BY <1>2, <1>3, <4>2, ItemsOfText
        <5>2. w.kind = TweastKind => w.key # k
          BY <4>2, <5>1, ItemKinds, KindsApart DEF x
        <5> QED
          BY <1>2, <1>d, <1>t, <4>0, <5>1, <5>2
      <4> QED
        BY <1>r, <4>0, <4>1, <4>2
    <3>4. Numbered(texts'[top], count_')
      BY <1>r, <1>t
    <3> QED
      BY <2>4, <3>1, <3>2, <3>3, <3>4 DEF References
  <2> QED
    BY <2>2, <2>3, <2>4
\* What stands in the text for anything else stands for what it stood for.
<1>9. ASSUME NEW c \in TweastIds, c # inner, NEW w \in TextItem,
             w.kind = TweastKind => w.key \in DOMAIN tweasts[c] /\ (c # top \/ w.key # k)
      PROVE  Part(c, w)' = Part(c, w)
  <2>1. w.kind \in Kinds => trees'[c][w] = trees[c][w]
    BY <1>9, <1>t
  <2>2. ASSUME w.kind = TweastKind
        PROVE  /\ tweasts'[c][w.key] = tweasts[c][w.key]
               /\ content'[tweasts[c][w.key]] = content[tweasts[c][w.key]]
    <3>1. tweasts[c][w.key] \in TweastIds /\ tweasts[c][w.key] # inner
      BY <1>0, <1>9, <1>o, <2>2 DEF TweastTypeOK, IsMapOf
    <3>2. tweasts'[c][w.key] = tweasts[c][w.key]
      BY <1>9, <1>d, <1>t, <2>2
    <3> QED
      BY <1>t, <3>1, <3>2
  <2> QED
    BY <2>1, <2>2, PartSame
<1>10. ASSUME NEW c \in TweastIds PROVE Spelled(c)'
  <2>1. References(c) /\ Spelled(c)
    BY DEF TweastInv
  <2>2. CASE c = inner
    <3>0. texts'[inner] = << >> /\ content'[inner] = << >> /\ taken'[inner] = << >>
      BY <1>2, <1>t
    <3> HIDE DEF ReplaceInner
    <3>1. Parts(inner, texts[inner])' = << >>
      BY <3>0 DEF Parts
    <3>2. << >> \o << >> = << >>
      OBVIOUS
    <3> QED
      BY <2>2, <3>0, <3>1, <3>2, FlattenNone DEF Spelled
  <2>3. CASE c # top /\ c # inner
    <3>1. ASSUME NEW w, InText(texts[c], w) PROVE Part(c, w)' = Part(c, w)
      <4>1. w \in TextItem /\ (w.kind = TweastKind => w.key \in DOMAIN tweasts[c])
        BY <1>3, <2>1, <3>1, ItemsOfText
      <4> QED
        BY <1>9, <2>3, <4>1
    <3> QED
      BY <1>t, <2>1, <2>3, <3>1, SpelledSame
  <2>4. CASE c = top
    <3>1. PICK stand : stand = [j \in DOMAIN new |-> MovedPart(new[j])]
      OBVIOUS
    <3>2. ASSUME NEW j \in 1 .. Len(new)
          PROVE  Part(top, new[j])' = stand[j] /\ stand[j] \in Seq(Given)
      <4>0. PICK w : w = new[j]
        OBVIOUS
      <4>1. w \in TextItem /\ (w.kind # WordKind => w \in DOMAIN trees[top])
        BY <1>6, <4>0
      <4>2. w.kind # TweastKind
        <5>1. w \in DOMAIN trees[top] => w.kind # TweastKind
          BY <1>0, <1>2, TreeReference DEF TweastTypeOK, IsMapOf
        <5> QED
          BY <4>1, <5>1, KindsApart
      <4>3. Part(top, w)' = Part(top, w)
        BY <1>2, <1>9, <4>1, <4>2
      <4>4. stand[j] = Part(top, w)
        BY <1>0, <1>1, <1>6, <3>1, <4>0 DEF MovedPart
      <4>5. Part(top, w) \in Seq(Given)
        BY <1>0, <1>2, <4>1, <4>2, PartTyped, KindsApart
      <4> QED
        BY <4>0, <4>3, <4>4, <4>5
    <3>3. stand \in Seq(Seq(Given)) /\ Len(stand) = Len(new)
      <4>1. Len(new) \in Nat /\ DOMAIN new = 1 .. Len(new)
        BY <1>6
      <4>2. stand = [j \in 1 .. Len(new) |-> stand[j]]
        BY <3>1, <4>1
      <4>3. [j \in 1 .. Len(new) |-> stand[j]] \in Seq(Seq(Given))
        BY <3>2, <4>1
      <4> QED
        BY <3>1, <4>1, <4>2, <4>3
    <3>4. FlattenSeq(stand) = Part(top, texts[top][i])
      <4>1. FlattenSeq(stand) = content[inner]
        BY <1>6, <3>1
      <4>2. Part(top, x) = content[inner]
        BY <1>2, <1>x DEF Part
      <4> QED
        BY <1>4, <4>1, <4>2
    <3>5. ASSUME NEW j \in DOMAIN texts[top], j # i, NEW w, w = texts[top][j]
          PROVE  Part(top, w)' = Part(top, w)
      <4>1. InText(texts[top], w)
        BY <3>5 DEF InText
      <4>2. w \in TextItem /\ (w.kind = TweastKind => w.key \in DOMAIN tweasts[top])
        BY <1>2, <1>3, <4>1, ItemsOfText
      <4>3. w # x
        BY <1>4, <1>5, <3>5
      <4>4. w.kind = TweastKind => w.key # k
        BY <4>2, <4>3, ItemKinds, KindsApart DEF x
      <4> QED
        BY <1>2, <1>9, <4>2, <4>4
    <3>6. taken'[top] = taken[top] /\ content'[top] = content[top]
      BY <1>2, <1>t
    <3>7. \A j \in 1 .. Len(new) : Part(top, new[j])' = stand[j]
      BY <3>2
    <3>8. \A j \in DOMAIN texts[top] : j # i => \A w : w = texts[top][j] => Part(top, w)' = Part(top, w)
      BY <3>5
    <3>9. TweastTypeOK /\ top \in TweastIds /\ References(top) /\ Spelled(top) /\ new \in Seq(TextItem)
      BY <1>0, <1>2, <1>3, <1>6
    <3>10. texts'[top] \in Seq(TextItem) /\ SplicedAt(texts'[top], texts[top], i, new)
      BY <1>r
    <3>11. Spelled(top)'
      BY <3>3, <3>4, <3>6, <3>7, <3>8, <3>9, <3>10, SpelledSplice
    <3> QED
      BY <2>4, <3>11
  <2> QED
    BY <2>2, <2>3, <2>4
<1>11. ASSUME NEW c \in TweastIds PROVE Kept(c)'
  <2>1. Kept(c)
    BY DEF TweastInv
  <2>2. CASE c = inner
    <3>1. /\ texts'[inner] = << >> /\ DOMAIN trees'[inner] = {} /\ DOMAIN tweasts'[inner] = {}
          /\ place'[inner] = "none" /\ taken'[inner] = << >>
      BY <1>2, <1>t
    <3> QED
      BY <2>2, <3>1 DEF Kept
  <2>3. CASE c = top
    <3>1. place'[top] = place[top] /\ taken' = taken /\ flattening' = flattening
      BY <1>2, <1>t
    <3> QED
      BY <1>2, <1>s, <2>1, <2>3, <3>1 DEF Kept
  <2>4. CASE c # top /\ c # inner
    <3>1. /\ texts'[c] = texts[c] /\ trees'[c] = trees[c] /\ tweasts'[c] = tweasts[c]
          /\ place'[c] = place[c] /\ taken' = taken /\ flattening' = flattening
      BY <1>t, <2>4
    <3> QED
      BY <2>1, <3>1 DEF Kept
  <2> QED
    BY <2>2, <2>3, <2>4
<1>12. Owned'
  <2>1. ASSUME NEW c \in TweastIds, NEW l \in DOMAIN tweasts'[c]
        PROVE  /\ l \in DOMAIN tweasts[c] /\ tweasts'[c][l] = tweasts[c][l]
               /\ tweasts[c][l] # inner /\ tweasts[c][l] \in TweastIds
    <3>1. l \in DOMAIN tweasts[c] /\ tweasts'[c][l] = tweasts[c][l] /\ (c # top \/ l # k)
      BY <1>d, <1>s
    <3> QED
      BY <1>0, <1>o, <3>1 DEF TweastTypeOK, IsMapOf
  <2>2. ASSUME NEW c \in TweastIds, NEW l \in DOMAIN tweasts'[c] PROVE place'[tweasts'[c][l]] = "tweast"
    BY <1>0, <1>t, <2>1 DEF Owned
  <2>3. ASSUME NEW c \in TweastIds, NEW l \in DOMAIN tweasts'[c],
               NEW b \in TweastIds, NEW j \in DOMAIN tweasts'[b], tweasts'[b][j] = tweasts'[c][l]
        PROVE  b = c /\ j = l
    BY <1>0, <2>1, <2>3 DEF Owned
  <2> QED
    BY <2>2, <2>3 DEF Owned
<1>13. ASSUME NEW j \in DOMAIN flattening' PROVE CallIsFor(j)'
  <2> DEFINE n == Len(flattening)
  <2>1. /\ n \in Nat \ {0} /\ DOMAIN flattening = 1 .. n /\ Top = flattening[n] /\ n \in 1 .. n
        /\ \A h \in 1 .. n : flattening[h].id \in TweastIds
    BY <1>2, TopFacts
  <2>2. flattening' = flattening /\ j \in 1 .. n
    BY <1>t, <2>1
  <2>3. CallIsFor(j) /\ CallIsFor(n)
    BY <2>1, <2>2 DEF TweastInv
  <2>4. flattening[j].id # inner
    BY <1>1, <1>2, <2>2, NewIsApart
  <2> DEFINE c == flattening[j]
  <2>5. c.id \in TweastIds
    BY <2>1, <2>2
  <2>6. /\ c.visit \subseteq DOMAIN tweasts[c.id]
        /\ j = 1 => place[c.id] = "parser"
        /\ j < n => c.key \in DOMAIN tweasts[c.id] \ c.visit
                    /\ tweasts[c.id][c.key] = flattening[j + 1].id
        /\ \A l \in DOMAIN tweasts[c.id] \ c.visit :
             (j < n /\ l = c.key) \/ DOMAIN tweasts[tweasts[c.id][l]] = {}
        /\ \A h \in DOMAIN flattening : flattening[h].id = c.id => h = j
    BY <2>3 DEF CallIsFor
  <2>7. place'[c.id] = place[c.id]
    BY <1>t, <2>4, <2>5
  <2>8. ASSUME NEW y \in TweastIds, DOMAIN tweasts[y] = {} PROVE DOMAIN tweasts'[y] = {}
    BY <1>s, <2>8
  <2>9. \A l \in DOMAIN tweasts[c.id] : tweasts[c.id][l] \in TweastIds
    BY <1>0, <2>5 DEF TweastTypeOK, IsMapOf
  <2>10. CASE j = n
    <3>1. c.visit = {}
      BY <1>2, <2>1, <2>10
    <3>2. /\ c.visit \subseteq DOMAIN tweasts'[c.id]
          /\ j = 1 => place'[c.id] = "parser"
          /\ ~ (j < n)
          /\ \A l \in DOMAIN tweasts'[c.id] \ c.visit : DOMAIN tweasts'[tweasts'[c.id][l]] = {}
      <4>1. ~ (j < n)
        BY <2>1, <2>10
      <4>2. ASSUME NEW l \in DOMAIN tweasts'[c.id] PROVE DOMAIN tweasts'[tweasts'[c.id][l]] = {}
        <5>1. l \in DOMAIN tweasts[c.id] /\ tweasts'[c.id][l] = tweasts[c.id][l]
          BY <1>s, <2>5
        <5>2. DOMAIN tweasts[tweasts[c.id][l]] = {}
          BY <2>6, <3>1, <4>1, <5>1
        <5> QED
          BY <2>8, <2>9, <5>1, <5>2
      <4> QED
        BY <2>6, <2>7, <3>1, <4>1, <4>2
    <3> QED
      BY <2>2, <2>6, <3>2 DEF CallIsFor
  <2>11. CASE j # n
    <3>1. c.id # top
      <4>1. \A h \in DOMAIN flattening : flattening[h].id = flattening[n].id => h = n
        BY <2>3 DEF CallIsFor
      <4> QED
        BY <1>1, <2>1, <2>2, <2>11, <4>1
    <3>2. tweasts'[c.id] = tweasts[c.id] /\ j < n
      BY <1>t, <2>1, <2>2, <2>5, <2>11, <3>1
    <3>3. /\ c.visit \subseteq DOMAIN tweasts'[c.id]
          /\ j = 1 => place'[c.id] = "parser"
          /\ c.key \in DOMAIN tweasts'[c.id] \ c.visit
          /\ tweasts'[c.id][c.key] = flattening[j + 1].id
          /\ \A l \in DOMAIN tweasts'[c.id] \ c.visit :
               l = c.key \/ DOMAIN tweasts'[tweasts'[c.id][l]] = {}
      BY <2>6, <2>7, <2>8, <2>9, <3>2
    <3> QED
      BY <2>2, <2>6, <3>2, <3>3 DEF CallIsFor
  <2> QED
    BY <2>10, <2>11
<1> QED
  BY <1>0, <1>7, <1>8, <1>10, <1>11, <1>12, <1>13, <1>t DEF TweastInv

-----------------------------------------------------------------------------
\* The inductive invariant, and what follows from it.
LEMMA TweastStart == TweastInit => TweastInv
<1> SUFFICES ASSUME TweastInit PROVE TweastInv
  OBVIOUS
<1> USE DEF TweastInit
<1>0. << >> \in Seq(TextItem) /\ << >> \in Seq(Given) /\ DOMAIN << >> = {} /\ << >> \o << >> = << >>
      /\ << >> \in Seq([id : TweastIds, visit : SUBSET Nat, key : Nat])
  OBVIOUS
<1>1. TweastTypeOK
  BY <1>0 DEF TweastTypeOK, IsMapOf
<1>2. ASSUME NEW id \in TweastIds PROVE References(id) /\ Spelled(id) /\ Kept(id)
  <2>1. References(id)
    BY <1>0 DEF References, Numbered
  <2>2. Parts(id, texts[id]) = << >>
    BY DEF Parts
  <2>3. Spelled(id)
    BY <1>0, <2>2, FlattenNone DEF Spelled
  <2>4. Kept(id)
    BY <1>0 DEF Kept
  <2> QED
    BY <2>1, <2>3, <2>4
<1>3. Owned
  BY <1>0 DEF Owned
<1>4. \A i \in DOMAIN flattening : CallIsFor(i)
  BY <1>0
<1> QED
  BY <1>1, <1>2, <1>3, <1>4 DEF TweastInv

LEMMA TweastStutters == ASSUME TweastInv, UNCHANGED tweastVars PROVE TweastInv'
<1> USE DEF tweastVars, innerVars
<1>1. TweastTypeOK'
  BY DEF TweastInv, TweastTypeOK
<1>2. ASSUME NEW id \in TweastIds PROVE References(id)' /\ Spelled(id)' /\ Kept(id)'
  <2>1. TweastTypeOK /\ References(id) /\ Spelled(id) /\ Kept(id)
    BY DEF TweastInv
  <2>2. count_' \in Nat /\ count_ <= count_'
    BY <2>1 DEF TweastTypeOK
  <2>3. \A ref : Arriving(id, ref) => Arriving(id, ref)'
    BY DEF Arriving, Top
  <2>4. References(id)'
    BY <2>1, <2>2, <2>3, ReferencesSame
  <2>5. \A w : Part(id, w)' = Part(id, w)
    BY DEF Part
  <2>6. Spelled(id)'
    BY <2>1, <2>5, SpelledSame
  <2> QED
    BY <2>1, <2>4, <2>6 DEF Kept
<1>3. Owned'
  BY DEF TweastInv, Owned
<1>4. \A i \in DOMAIN flattening' : CallIsFor(i)'
  BY DEF TweastInv, CallIsFor
<1>5. ASSUME moving PROVE MovedText'
  <2>1. MovedText
    BY <1>5 DEF TweastInv
  <2>2. \A w : MovedPart(w)' = MovedPart(w)
    BY DEF MovedPart, Part, Inner, Top
  <2>3. [i \in DOMAIN tweast_input |-> MovedPart(tweast_input[i])]'
          = [i \in DOMAIN tweast_input |-> MovedPart(tweast_input[i])]
    BY <2>2
  <2> QED
    BY <2>1, <2>3 DEF MovedText, Numbered, InText, Inner, Top
<1> QED
  BY <1>1, <1>2, <1>3, <1>4, <1>5 DEF TweastInv

LEMMA TweastStep == TweastInv /\ [TweastNext]_tweastVars => TweastInv'
<1> SUFFICES ASSUME TweastInv, [TweastNext]_tweastVars PROVE TweastInv'
  OBVIOUS
<1>1. CASE UNCHANGED tweastVars
  BY <1>1, TweastStutters
<1>2. ASSUME NEW id \in TweastIds, Make(id) PROVE TweastInv'
  BY <1>2, MakeKeeps
<1>3. ASSUME NEW id \in TweastIds, ParseInput(id) PROVE TweastInv'
  BY <1>3, ParseKeeps
<1>4. ASSUME NEW id \in TweastIds, ReadWord(id) PROVE TweastInv'
  BY <1>4, ReadWordKeeps
<1>5. ASSUME NEW id \in TweastIds, Take(id) PROVE TweastInv'
  BY <1>5, TakeKeeps
<1>6. ASSUME NEW id \in TweastIds, EndOfText(id) PROVE TweastInv'
  BY <1>6, EndOfTextKeeps
<1>7. ASSUME NEW id \in TweastIds, NEW w \in Words, AppendText(id, w) PROVE TweastInv'
  BY <1>7, AppendTextKeeps
<1>8. ASSUME NEW id \in TweastIds, NEW kind \in Kinds, NEW tree \in Trees, AppendTree(id, kind, tree)
      PROVE  TweastInv'
  BY <1>8, AppendTreeKeeps
<1>9. ASSUME NEW id \in TweastIds, NEW other \in TweastIds, AppendTweast(id, other) PROVE TweastInv'
  BY <1>9, AppendTweastKeeps
<1>10. ASSUME NEW k, FlattenInner(k) PROVE TweastInv'
  BY <1>10, FlattenInnerKeeps
<1>11. ASSUME NEW k, TakeInner(k) PROVE TweastInv'
  BY <1>11, TakeInnerKeeps
<1>12. ASSUME NEW ref, MoveMetavar(ref) PROVE TweastInv'
  BY <1>12, MoveMetavarKeeps
<1>13. CASE ReplaceInner
  BY <1>13, ReplaceInnerKeeps
<1>14. CASE EndFlatten
  BY <1>14, EndFlattenKeeps
<1> QED
  BY <1>1, <1>2, <1>3, <1>4, <1>5, <1>6, <1>7, <1>8, <1>9, <1>10, <1>11, <1>12, <1>13, <1>14
  DEF TweastNext

LEMMA TweastInvIs == TweastInv => TweastsKeepTheirData
<1> SUFFICES ASSUME TweastInv, NEW id \in TweastIds, BeingParsed(id), texts[id] = << >>
             PROVE  taken[id] = content[id] /\ DOMAIN trees[id] = {}
  BY DEF TweastInv, TweastsKeepTheirData
<1>1. References(id) /\ Spelled(id) /\ taken[id] \in Seq(Given) /\ moving = FALSE
  BY NothingMoves DEF TweastInv, TweastTypeOK, BeingParsed, AtRest
<1>2. DOMAIN trees[id] = {}
  BY <1>1 DEF References, InText, Arriving
<1>3. Parts(id, texts[id]) = << >>
  BY DEF Parts
<1>4. taken[id] \o << >> = taken[id]
  BY <1>1
<1>5. taken[id] = content[id]
  BY <1>1, <1>3, <1>4, FlattenNone DEF Spelled
<1> QED
  BY <1>2, <1>5

\* However many Tweasts are put into each other, and whatever stands in them:
\* the parser reads what they were given, each inner one in its place, misses
\* no tree and leaves none over (tweast.cc, tweast.hxx, metavar-map.hxx).
THEOREM TreesAreKept == TweastSpec => []TweastsKeepTheirData
<1>1. TweastInit => TweastInv
  BY TweastStart
<1>2. TweastInv /\ [TweastNext]_tweastVars => TweastInv'
  BY TweastStep
<1>3. TweastInv => TweastsKeepTheirData
  BY TweastInvIs
<1> QED
  BY <1>1, <1>2, <1>3, PTL DEF TweastSpec
=============================================================================
