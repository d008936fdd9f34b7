-------------------------------- MODULE Runtime --------------------------------
(***************************************************************************)
(* The strings of the Tiger runtime (llvmtranslate/tiger-runtime.c).  A    *)
(* string is the sequence of its bytes before the zero, each a signed char *)
(* as on the machines tc generates code for.  A call gives a string, ends  *)
(* the program with status 120, or does what C leaves undefined.           *)
(*                                                                         *)
(* The machine is a compiled program that makes any calls.  It holds one   *)
(* string; the other operand of a call is any string it may have made.     *)
(***************************************************************************)
EXTENDS Integers, SequencesExt, FiniteSetsExt

CONSTANTS MaxChar,     \* the largest signed char (127 in the code)
          MaxInt,      \* the largest int (2^31 - 1 in the code)
          MaxString    \* bound on the bytes of a string, which an int counts

ASSUME RuntimeAssumption ==
  MaxChar \in Nat \ {0} /\ MaxInt \in Nat \ {0} /\ MaxString \in 1..MaxInt

VARIABLES
  held,     \* the string the program holds
  answer,   \* the number the last call has returned, 0 if it gives none
  ending,   \* "ok", or how the program has ended
  spelled,  \* history: the bytes of the string as the language has it
  due,      \* history: the ending and the number the last call is to give
  negative  \* history: whether that call takes a byte above MaxChar for an int

runtimeVars == << held, answer, ending, spelled, due, negative >>

(* What is kept of a number in a type whose largest number is max.         *)
Signed(i, max) == ((i + max + 1) % (2 * max + 2)) - (max + 1)
Bytes == 2 * MaxChar + 2
Char(i) == Signed(i, MaxChar)
Ints == (- MaxInt - 1)..MaxInt

(* The strings there are, by their bytes, and as chars.                    *)
Texts == UNION {[1..n -> 1..(Bytes - 1)] : n \in 0..MaxString}
AsChars(t) == [i \in DOMAIN t |-> Char(t[i])]

Gives(s) == [st |-> "ok", string |-> s]
Fails(st) == [st |-> st, string |-> << >>]
RuntimeFailure == Fails("exit 120")
Undefined == Fails("undefined")

(* consts as main fills it: every char followed by a zero.                 *)
consts == [i \in 0..(2 * Bytes - 1) |-> IF i % 2 = 0 THEN Char(i \div 2) ELSE 0]

(* The string that begins at an index of consts.                           *)
ConstString(index) ==
  IF index \notin DOMAIN consts THEN Undefined
  ELSE Gives(IF consts[index] = 0 THEN << >> ELSE << consts[index] >>)

tc_chr(i) == IF i \in 0..(Bytes - 1) THEN ConstString(2 * i) ELSE RuntimeFailure

(* getc gives a byte, or the end of the input, which is no byte.           *)
EOF == -1
tc_getchar(i) == IF i = EOF THEN Gives(<< >>) ELSE ConstString(2 * i)

tc_ord(s) == IF s = << >> THEN -1 ELSE s[1]
tc_size(s) == Signed(Len(s), MaxInt)

(* The other operand is not copied, which cannot be seen as strings do not *)
(* change.                                                                 *)
tc_concat(a, b) == IF a = << >> THEN b ELSE IF b = << >> THEN a ELSE a \o b

(* first + n is an int, which wraps; compared with a size_t, which has     *)
(* twice the bits, it is never negative.                                   *)
SizeT(i) == i % ((2 * MaxInt + 2) * (2 * MaxInt + 2))

\* Mutant: the sum is compared as an int.
InBoundsSigned(len, first, n) == 0 <= first /\ 0 <= n /\ Signed(first + n, MaxInt) <= len

InBounds(len, first, n) ==
  0 <= first /\ 0 <= n /\ SizeT(Signed(first + n, MaxInt)) <= len

(* A substring of one char is one of consts, at twice that char.           *)
tc_substring(s, first, n) ==
  IF ~ InBounds(Len(s), first, n) THEN RuntimeFailure
  ELSE IF first + n > Len(s) THEN Undefined
  ELSE IF n = 1 THEN ConstString(2 * s[first + 1])
  ELSE Gives(SubSeq(s, first + 1, first + n))

(* strcmp orders by unsigned chars; only the sign is defined.              *)
Unsigned(c) == c % Bytes
ByteAt(s, i) == IF i > Len(s) THEN 0 ELSE Unsigned(s[i])
tc_strcmp(lhs, rhs) ==
  LET differ == {i \in 1..(Min({Len(lhs), Len(rhs)}) + 1) :
                   i > Len(lhs) \/ i > Len(rhs) \/ lhs[i] # rhs[i]}
      d == ByteAt(lhs, Min(differ)) - ByteAt(rhs, Min(differ))
  IN IF d < 0 THEN -1 ELSE IF d > 0 THEN 1 ELSE 0
tc_streq(lhs, rhs) == IF tc_strcmp(lhs, rhs) = 0 THEN 1 ELSE 0

-----------------------------------------------------------------------------
(* The calls.  The language has strings of bytes, and a call is to do with *)
(* the bytes what its comment says, and to end the program when they are   *)
(* not there.                                                              *)
RuntimeInit ==
  /\ held = << >> /\ answer = 0 /\ ending = "ok"
  /\ spelled = << >> /\ due = [ending |-> "ok", number |-> 0] /\ negative = FALSE

GivesString(outcome, bytes, wanted) ==
  /\ ending = "ok"
  /\ ending' = outcome.st /\ held' = outcome.string /\ answer' = 0
  /\ spelled' = bytes /\ due' = [ending |-> wanted, number |-> 0]

GivesNumber(number, wanted) ==
  /\ ending = "ok"
  /\ answer' = number /\ due' = [ending |-> "ok", number |-> wanted]
  /\ UNCHANGED << held, ending, spelled >>

OneByte(i) == IF i \in 1..(Bytes - 1) THEN << i >> ELSE << >>

Literal(t) == GivesString(Gives(AsChars(t)), t, "ok")
CallChr(i) ==
  GivesString(tc_chr(i), OneByte(i), IF i \in 0..(Bytes - 1) THEN "ok" ELSE "exit 120")
CallGetchar(i) == GivesString(tc_getchar(i), OneByte(i), "ok")
CallConcat(t) ==
  /\ Len(spelled) + Len(t) <= MaxString
  /\ GivesString(Gives(tc_concat(held, AsChars(t))), spelled \o t, "ok")

AreThere(first, n) == 0 <= first /\ 0 <= n /\ first + n <= Len(spelled)
CallSubstring(first, n) ==
  /\ negative' = (AreThere(first, n) /\ n = 1 /\ spelled[first + 1] > MaxChar)
  /\ GivesString(tc_substring(held, first, n),
                 IF AreThere(first, n) THEN SubSeq(spelled, first + 1, first + n) ELSE << >>,
                 IF AreThere(first, n) THEN "ok" ELSE "exit 120")

(* The empty string, which is what tc_chr makes of 0, has no byte.         *)
CallOrd ==
  /\ negative' = (spelled # << >> /\ spelled[1] > MaxChar)
  /\ GivesNumber(tc_ord(held), IF spelled = << >> THEN -1 ELSE spelled[1])
CallSize == GivesNumber(tc_size(held), Len(spelled))

(* The order of a dictionary.                                              *)
Precedes(a, b) ==
  \E k \in 0..Len(a) :
    /\ k < Len(b) /\ \A i \in 1..k : a[i] = b[i]
    /\ k = Len(a) \/ a[k + 1] < b[k + 1]
Order(a, b) == IF Precedes(a, b) THEN -1 ELSE IF a = b THEN 0 ELSE 1
CallStrcmp(t) == GivesNumber(tc_strcmp(held, AsChars(t)), Order(spelled, t))
CallStreq(t) == GivesNumber(tc_streq(held, AsChars(t)), IF spelled = t THEN 1 ELSE 0)

OtherCall ==
  \/ \E t \in Texts : Literal(t) \/ CallConcat(t) \/ CallStrcmp(t) \/ CallStreq(t)
  \/ \E i \in Ints : CallChr(i)
  \/ \E i \in 0..(Bytes - 1) \cup {EOF} : CallGetchar(i)
  \/ CallSize

RuntimeNext ==
  \/ OtherCall /\ negative' = FALSE
  \/ \E first, n \in Ints : CallSubstring(first, n)
  \/ CallOrd

RuntimeSpec == RuntimeInit /\ [][RuntimeNext]_runtimeVars

-----------------------------------------------------------------------------
(* A call does what it is to do, whatever calls made the string, unless it *)
(* takes a byte above MaxChar for an int: what is out of bounds ends the   *)
(* program, also when first + n is more than an int holds; every string has*)
(* the bytes it should have; strings are compared by them                  *)
(* (tiger-runtime.c: "one shall not go beyond the size").                  *)
StringsChecked ==
  /\ ending = "ok" => held = AsChars(spelled)
  /\ ~ negative => ending = due.ending /\ answer = due.number

(* Every call does what its comment says (tiger-runtime.c): tc_ord is the  *)
(* "inverse of tc_chr", and tc_substring gives "a part of the string" or   *)
(* exits with a runtime failure.                                           *)
CommentsHold == ending = due.ending /\ answer = due.number

-----------------------------------------------------------------------------
(* What every step keeps.                                                  *)
RuntimeInv ==
  /\ spelled \in Texts /\ due \in [ending : {"ok", "exit 120"}, number : Int]
  /\ negative \in BOOLEAN
  /\ StringsChecked
=============================================================================
