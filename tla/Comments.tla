-------------------------------- MODULE Comments --------------------------------
(***************************************************************************)
(* A text is scanned on its own, and at the same time inside a comment     *)
(* (parse/scantiger.ll): what is put in a comment is what may be closed by *)
(* the end of it.                                                          *)
(***************************************************************************)
EXTENDS Scanner

CONSTANTS
  Lexemes,        \* what the text may be made of
  Extensions,     \* whether reserved identifiers and objects are enabled
  MaxLexemes      \* bound on the length of the text

ASSUME CommentsAssumption ==
  /\ Extensions \in BOOLEAN
  /\ Lexemes \subseteq [class : STRING, text : STRING, num : Nat]

VARIABLES
  alone,    \* the scanner of the text
  inside,   \* the scanner of a comment that holds it
  length,   \* how much of it is read
  last,     \* the class of what was read last
  marked    \* whether the text held a mark of a comment that is none in it

commentVars == << alone, inside, length, last, marked >>

ScanLexeme(lexer, m) == Rule(lexer, m, Extensions, Extensions)
Slash == Lexeme("slash", "/", 0)
Star == Lexeme("star", "*", 0)
Following == Lexeme("id", "x", 0)

CommentInit ==
  /\ alone = Scanning /\ inside = ScanLexeme(ScanLexeme(Scanning, Slash), Star)
  /\ length = 0 /\ last = "none"
  /\ marked = FALSE

(* "*" before "/" is a product and a quotient outside a comment, both signs*)
(* are text in a string literal, and both make a mark in a comment.        *)
MarkInComment(m) ==
  \/ alone.condition \in {"INITIAL", "SC_STRING"} /\ last = "star" /\ m.class = "slash"
  \/ alone.condition = "SC_STRING" /\ last = "slash" /\ m.class = "star"

ReadLexeme(m) ==
  /\ length < MaxLexemes
  /\ length' = length + 1
  /\ alone' = ScanLexeme(alone, m)
  /\ inside' = ScanLexeme(inside, m)
  /\ last' = m.class
  /\ marked' = (marked \/ MarkInComment(m))

CommentNext == \E m \in Lexemes : ReadLexeme(m)
CommentSpec == CommentInit /\ [][CommentNext]_commentVars

-----------------------------------------------------------------------------
(* The text so far, if it ends here, has no error, no mark that is not one *)
(* of its own comments, and no "/" at its end for the mark behind it.      *)
FitForComment ==
  /\ EndOfFile(alone).errors = 0
  /\ ~ marked
  /\ alone.held # "slash"

(* A text without an error in it can be put in a comment, comments and all,*)
(* unless "*" and "/" meet in an expression or in a string literal of it:  *)
(* nothing of it is left but what follows the comment (scantiger.ll,       *)
(* SC_COMMENT).                                                            *)
CommentsNest ==
  FitForComment =>
    LET after == EndOfFile(ScanLexeme(ScanLexeme(ScanLexeme(inside, Star), Slash), Following))
    IN after.errors = 0 /\ after.tokens = << << "id", "x" >> >>

-----------------------------------------------------------------------------
(* What every step keeps: as long as nothing in the text can make it unfit,*)
(* the scanner is in the comment and as many comments deep in it as it is  *)
(* in the text, and holds what it has to.                                  *)
TokenClass == {"INT", "id", "keyword", "metavar", "STRING"}
TokenText == {"/"} \cup STRING \cup Seq(STRING)
Token == TokenClass \X TokenText
Lexer ==
  [condition : {"INITIAL", "SC_COMMENT", "SC_STRING"}, held : {"none", "star", "slash"},
   nested : Nat, grown_string : Seq(STRING), tokens : Seq(Token), errors : Nat]

(* What a scanner holds in each start condition.                           *)
HoldsRight ==
  /\ alone.condition = "SC_COMMENT" => alone.nested > 0
  /\ alone.condition = "INITIAL" => alone.held # "star" /\ (alone.held = "slash" => last = "slash")
  /\ alone.condition = "SC_STRING" => alone.held = "none"

Depth == 1 + (IF alone.condition = "SC_COMMENT" THEN alone.nested ELSE 0)
HeldInside ==
  IF alone.condition = "SC_COMMENT" \/ (alone.condition = "INITIAL" /\ last = "slash")
  THEN alone.held
  ELSE IF last \in {"star", "slash"} THEN last ELSE "none"

Deep(held, depth) ==
  [condition |-> "SC_COMMENT", held |-> held, nested |-> depth, grown_string |-> << >>,
   tokens |-> << >>, errors |-> 0]
InTheComment == alone.errors = 0 /\ ~ marked => inside = Deep(HeldInside, Depth)

CommentInv ==
  /\ alone \in Lexer /\ length \in Nat /\ marked \in BOOLEAN
  /\ last \in {m.class : m \in Lexemes} \cup {"none"}
  /\ HoldsRight
  /\ InTheComment
=============================================================================
