-------------------------------- MODULE Literals --------------------------------
(***************************************************************************)
(* A string printed with misc::escape, as the pretty-printer prints it and *)
(* as desugaring and inlining read it back: byte by byte into a text, and  *)
(* rule by rule out of it (parse/scantiger.ll, SC_STRING).                 *)
(***************************************************************************)
EXTENDS Scanner

CONSTANTS
  LiteralBytes,  \* the bytes a string may hold
  MaxLength      \* bound on their number

ASSUME LiteralsAssumption == LiteralBytes \subseteq 0..255

VARIABLES
  string,   \* the string that is printed
  text,     \* what is printed of it
  reading,  \* the literal that is read back
  closed,   \* the closing quote is printed, and the literal read back
  ends      \* history: where the escape of each byte ends in the text

literalVars == << string, text, reading, closed, ends >>

LiteralInit ==
  /\ string = << >> /\ text = << >> /\ reading = Reading(<< >>, << >>, 0)
  /\ closed = FALSE /\ ends = << >>

PrintByte(c) ==
  /\ ~ closed /\ Len(string) < MaxLength
  /\ string' = Append(string, c)
  /\ text' = text \o Escape(c)
  /\ ends' = Append(ends, Len(text'))
  /\ UNCHANGED << reading, closed >>

(* The closing quote, and a digit that is none of the literal's.           *)
AfterLiteral == << Quote, 48 >>
CloseLiteral ==
  /\ ~ closed
  /\ closed' = TRUE
  /\ text' = text \o AfterLiteral
  /\ reading' = Reading(<< >>, text', 0)
  /\ UNCHANGED << string, ends >>

ApplyRule ==
  /\ closed /\ reading.rest # << >> /\ reading.rest[1] # Quote
  /\ reading' = ReadOne(reading)
  /\ UNCHANGED << string, text, closed, ends >>

LiteralNext == (\E c \in LiteralBytes : PrintByte(c)) \/ CloseLiteral \/ ApplyRule
LiteralSpec == LiteralInit /\ [][LiteralNext]_literalVars

-----------------------------------------------------------------------------
(* A string printed with misc::escape (pretty-printer.cc, StringExp) and   *)
(* put between quotes is read back as it was, without an error, up to the  *)
(* quote that closes it and no further.                                    *)
StringsReadBack ==
  closed =>
    /\ reading.rest # << >> /\ reading.errors = 0
    /\ reading.rest[1] = Quote => reading.value = string /\ reading.rest = AfterLiteral

-----------------------------------------------------------------------------
(* What every step keeps: the text is the escapes of the bytes, one after  *)
(* the other, and what is read of it is the escapes of the first of them.  *)
Ends(k) == IF k = 0 THEN 0 ELSE ends[k]
WhatIsPrinted ==
  /\ Len(ends) = Len(string)
  /\ \A k \in 1..Len(string) :
       /\ ends[k] = Ends(k - 1) + Len(Escape(string[k]))
       /\ ends[k] <= Ends(Len(string))
       /\ \A i \in 1..Len(Escape(string[k])) : text[Ends(k - 1) + i] = Escape(string[k])[i]
  /\ Len(text) = Ends(Len(string)) + (IF closed THEN 2 ELSE 0)
  /\ closed => text[Len(text) - 1] = Quote /\ text[Len(text)] = 48

ReadSoFar(k) ==
  reading = Reading(SubSeq(string, 1, k), SubSeq(text, Ends(k) + 1, Len(text)), 0)

LiteralInv ==
  /\ string \in Seq(LiteralBytes) /\ text \in Seq(0..255) /\ ends \in Seq(Nat)
  /\ closed \in BOOLEAN
  /\ WhatIsPrinted
  /\ closed => \E k \in 0..Len(string) : ReadSoFar(k)
=============================================================================
