-------------------------------- MODULE Scanner --------------------------------
(***************************************************************************)
(* parse::Lexer (parse/scantiger.ll): from the text of a file to tokens    *)
(* and lexical errors.  A text is a sequence of words, each with its class,*)
(* and of single characters: "*" and "/" are apart, as what they make      *)
(* together depends on the start condition.  Inside a string literal text  *)
(* is a sequence of bytes.  What misc::escape prints is what a string      *)
(* literal must be read back from.                                         *)
(***************************************************************************)
EXTENDS Integers, SequencesExt, FiniteSetsExt

Lexeme(class, text, num) == [class |-> class, text |-> text, num |-> num]

CONSTANTS MaxInteger        \* the largest integer literal (2^31 - 1)

-----------------------------------------------------------------------------
(* The three start conditions.  nested and grown_string are members of the *)
(* scanner and outlive the rule that sets them.  held is the character that*)
(* may begin a longer match: it is matched alone if the next one does not  *)
(* continue it.                                                            *)

Scanning == [condition |-> "INITIAL", held |-> "none", nested |-> 0, grown_string |-> << >>,
             tokens |-> << >>, errors |-> 0]

Error(lexer) == [lexer EXCEPT !.errors = @ + 1]
Emit(lexer, class, text) == [lexer EXCEPT !.tokens = Append(@, << class, text >>)]
Begin(lexer, condition) == [lexer EXCEPT !.condition = condition]

(* A reserved identifier is a token of its own whatever the extensions;    *)
(* another one needs them, and class, extends, method and new need objects.*)
(* Where they are disabled there is an error and no token.                 *)
OneMatch(lexer, m, extensions, objects) ==
  CASE m.class = "int" ->
         Emit(IF m.num > MaxInteger THEN Error(lexer) ELSE lexer, "INT", m.text)
    [] m.class \in {"keyword", "metavar", "id"} -> Emit(lexer, m.class, m.text)
    [] m.class = "rid" -> IF extensions THEN Emit(lexer, "id", m.text) ELSE Error(lexer)
    [] m.class = "object" -> IF objects THEN Emit(lexer, "keyword", m.text) ELSE Error(lexer)
    [] m.class = "quote" -> Begin([lexer EXCEPT !.grown_string = << >>], "SC_STRING")
    [] m.class = "star" -> Emit(lexer, "keyword", m.text)
    [] m.class = "slash" -> [lexer EXCEPT !.held = "slash"]
    [] m.class \in {"space", "endofline"} -> lexer
    [] OTHER -> Error(lexer)

Letting(lexer) == [lexer EXCEPT !.held = "none"]

(* A "/" that begins no comment is the token of the division.              *)
Released(lexer) == IF lexer.held = "slash" THEN Emit(Letting(lexer), "keyword", "/") ELSE lexer

InInitial(lexer, m, extensions, objects) ==
  IF lexer.held = "slash" /\ m.class = "star"
  THEN Begin([Letting(lexer) EXCEPT !.nested = 1], "SC_COMMENT")
  ELSE OneMatch(Released(lexer), m, extensions, objects)

\* Mutant: comments do not nest.
InCommentFlat(lexer, m) ==
  CASE lexer.held = "star" /\ m.class = "slash" ->
         Begin([Letting(lexer) EXCEPT !.nested = @ - 1], "INITIAL")
    [] OTHER -> [lexer EXCEPT !.held = IF m.class \in {"star", "slash"} THEN m.class ELSE "none"]

InComment(lexer, m) ==
  CASE lexer.held = "star" /\ m.class = "slash" ->
         Begin([Letting(lexer) EXCEPT !.nested = @ - 1],
               IF lexer.nested = 1 THEN "INITIAL" ELSE "SC_COMMENT")
    [] lexer.held = "slash" /\ m.class = "star" -> [Letting(lexer) EXCEPT !.nested = @ + 1]
    [] OTHER -> [lexer EXCEPT !.held = IF m.class \in {"star", "slash"} THEN m.class ELSE "none"]

(* The end of a line is in no rule of a string and is lost.                *)
InString(lexer, m) ==
  CASE m.class = "quote" -> Begin(Emit(lexer, "STRING", lexer.grown_string), "INITIAL")
    [] m.class = "endofline" -> lexer
    [] OTHER -> [lexer EXCEPT !.grown_string = Append(@, m.text)]

(* At the end of the text an open comment or string is an error.           *)
EndOfFile(lexer) ==
  IF lexer.condition = "INITIAL" THEN Released(lexer) ELSE Begin(Error(lexer), "INITIAL")

Rule(lexer, m, extensions, objects) ==
  CASE lexer.condition = "INITIAL" -> InInitial(lexer, m, extensions, objects)
    [] lexer.condition = "SC_COMMENT" -> InComment(lexer, m)
    [] lexer.condition = "SC_STRING" -> InString(lexer, m)

Scan(text, extensions, objects) ==
  EndOfFile(FoldLeft(LAMBDA lexer, m : Rule(lexer, m, extensions, objects), Scanning, text))

-----------------------------------------------------------------------------
(* The inside of a string literal, byte by byte.                           *)
Backslash == 92
Quote == 34
Newline == 10
DigitOf(c) == c - 48
IsDigit(c) == DigitOf(c) \in 0..9
HexOf(c) == CASE IsDigit(c) -> DigitOf(c)
              [] c \in 65..70 -> c - 55
              [] c \in 97..102 -> c - 87
              [] OTHER -> 16
Named ==
  [c \in {97, 98, 102, 110, 114, 116, 118, Backslash, Quote} |->
     CASE c = 97 -> 7 [] c = 98 -> 8 [] c = 102 -> 12 [] c = 110 -> 10 [] c = 114 -> 13
       [] c = 116 -> 9 [] c = 118 -> 11 [] OTHER -> c]

(* strtol stops at the first byte that is not a digit of the base.         *)
Octal(a, b, c) ==
  IF a > 7 THEN 0 ELSE IF b > 7 THEN a ELSE IF c > 7 THEN 8 * a + b
  ELSE 64 * a + 8 * b + c

(* The digits are compared with 377 as a decimal number.                   *)
OctalFits(a, b, c) == 100 * a + 10 * b + c <= 377

Reading(value, rest, errors) == [value |-> value, rest |-> rest, errors |-> errors]

(* One rule applied to a literal that is being read; none matches the end  *)
(* of a line.  The tests of errno are left out: only an integer that does  *)
(* not fit in 64 bits sets it, which is an error of its own.               *)
ReadEscape(r) ==
  LET c == r.rest[2]
      digit(i) == DigitOf(r.rest[i + 1])
      beyond(n) == SubSeq(r.rest, n + 1, Len(r.rest))
  IN IF c \in DOMAIN Named THEN Reading(Append(r.value, Named[c]), beyond(2), r.errors)
     ELSE IF Len(r.rest) >= 4 /\ \A i \in 2..4 : IsDigit(r.rest[i]) THEN
       Reading(Append(r.value, Octal(digit(1), digit(2), digit(3)) % 256), beyond(4),
               IF OctalFits(digit(1), digit(2), digit(3)) THEN r.errors ELSE r.errors + 1)
     ELSE IF c = 120 /\ Len(r.rest) >= 4 /\ \A i \in {3, 4} : HexOf(r.rest[i]) < 16 THEN
       Reading(Append(r.value, 16 * HexOf(r.rest[3]) + HexOf(r.rest[4])), beyond(4), r.errors)
     ELSE Reading(r.value, beyond(2), r.errors + 1)

ReadOne(r) ==
  IF r.rest[1] = Newline THEN Reading(r.value, Tail(r.rest), r.errors)
  ELSE IF r.rest[1] = Backslash /\ Len(r.rest) > 1 /\ r.rest[2] # Newline THEN ReadEscape(r)
  ELSE Reading(Append(r.value, r.rest[1]), Tail(r.rest), r.errors)

-----------------------------------------------------------------------------
(* misc::escape *)
Printable(c) == c \in 32..126
Letters ==
  [c \in {8, 9, 10, 11, 12, 13, Backslash, Quote} |->
     CASE c = 8 -> 98 [] c = 9 -> 116 [] c = 10 -> 110 [] c = 11 -> 118 [] c = 12 -> 102
       [] c = 13 -> 114 [] OTHER -> c]

\* Mutant: a byte is printed without leading zeros.
EscapeNarrow(c) ==
  IF c \in DOMAIN Letters THEN << Backslash, Letters[c] >>
  ELSE IF Printable(c) THEN << c >>
  ELSE << Backslash >> \o (IF c >= 64 THEN << 48 + (c \div 64) >> ELSE << >>)
       \o (IF c >= 8 THEN << 48 + ((c \div 8) % 8) >> ELSE << >>) \o << 48 + (c % 8) >>

Escape(c) ==
  IF c \in DOMAIN Letters THEN << Backslash, Letters[c] >>
  ELSE IF Printable(c) THEN << c >>
  ELSE << Backslash, 48 + (c \div 64), 48 + ((c \div 8) % 8), 48 + (c % 8) >>
=============================================================================
