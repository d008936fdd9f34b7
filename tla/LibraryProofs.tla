----------------------------- MODULE LibraryProofs -----------------------------
(***************************************************************************)
(* Theorems about the library the compiler is written with (lib/misc), for *)
(* any messages of any number of passes, any tasks in each other for any   *)
(* time, and any names; and about the one its programs run with, for any   *)
(* strings and any widths of chars and ints.                               *)
(***************************************************************************)
EXTENDS ErrorHandler, Symbols, Timer, Runtime, SequenceLemmas, FiniteSetTheorems

-----------------------------------------------------------------------------
(* The error handler.                                                      *)

\* The least of the statuses, with one more of them.
LEMMA LeastOfMore ==
  ASSUME NEW set \in SUBSET (ErrorType \ {success}), NEW e \in ErrorType \ {success}
  PROVE  /\ Least(set) \in ErrorType
         /\ Least(set \cup {e}) = Mark(Least(set), e)
<1> DEFINE IsLeast(s, m) == m \in s /\ \A n \in s : m <= n
<1>1. \A n \in ErrorType \ {success} : n \in 1..5
  BY DEF ErrorType, success, type
<1>2. ASSUME NEW s \in SUBSET (ErrorType \ {success}), NEW m, IsLeast(s, m) PROVE Min(s) = m
  <2>1. ASSUME NEW n, IsLeast(s, n) PROVE n = m
    <3>1. n \in 1..5 /\ m \in 1..5
      BY <1>1, <1>2, <2>1
    <3> QED
      BY <1>2, <2>1, <3>1
  <2>2. Min(s) = CHOOSE n \in s : \A y \in s : n <= y
    BY DEF Min
  <2> QED
    BY <1>2, <2>1, <2>2
<1>3. CASE set = {}
  <2>1. IsLeast(set \cup {e}, e)
    BY <1>1, <1>3
  <2>2. Least(set \cup {e}) = e
    BY <1>2, <2>1, <1>3 DEF Least
  <2> QED
    BY <1>1, <1>3, <2>2 DEF Least, Mark, ErrorType, success, type
<1>4. CASE set # {}
  <2>1. PICK m : IsLeast(set, m)
    <3> DEFINE Below(n) == {k \in set : k <= n}
    <3> QED
      <4>1. PICK k \in set : TRUE
        BY <1>4
      <4>2. \A n \in set : n = 1 \/ n = 2 \/ n = 3 \/ n = 4 \/ n = 5
        BY <1>1
      <4>3. CASE 1 \in set
        BY <4>2, <4>3
      <4>4. CASE 1 \notin set /\ 2 \in set
        BY <4>2, <4>4
      <4>5. CASE 1 \notin set /\ 2 \notin set /\ 3 \in set
        BY <4>2, <4>5
      <4>6. CASE 1 \notin set /\ 2 \notin set /\ 3 \notin set /\ 4 \in set
        BY <4>2, <4>6
      <4>7. CASE 1 \notin set /\ 2 \notin set /\ 3 \notin set /\ 4 \notin set
        BY <4>1, <4>2, <4>7
      <4> QED
        BY <4>3, <4>4, <4>5, <4>6, <4>7
  <2>2. Least(set) = m /\ m \in 1..5 /\ e \in 1..5
    BY <1>1, <1>2, <1>4, <2>1 DEF Least
  <2>3. IsLeast(set \cup {e}, IF e < m THEN e ELSE m)
    <3>1. \A n \in set : n \in 1..5 /\ m <= n
      BY <1>1, <2>1
    <3>2. CASE e < m
      BY <2>2, <3>1, <3>2
    <3>3. CASE ~ (e < m)
      BY <2>1, <2>2, <3>1, <3>3
    <3> QED
      BY <3>2, <3>3
  <2>4. set \cup {e} \in SUBSET (ErrorType \ {success}) /\ set \cup {e} # {}
    OBVIOUS
  <2>5. Least(set \cup {e}) = IF e < m THEN e ELSE m
    BY <1>2, <2>3, <2>4 DEF Least
  <2> QED
    BY <2>2, <2>5 DEF Mark, ErrorType, success, type
<1> QED
  BY <1>3, <1>4

\* One status after the other, or their sum at once.
LEMMA MarkFacts ==
  ASSUME NEW a \in ErrorType, NEW b \in ErrorType, NEW c \in ErrorType
  PROVE  /\ Mark(a, b) \in ErrorType
         /\ Mark(a, Mark(b, c)) = Mark(Mark(a, b), c)
         /\ Mark(a, success) = a /\ Mark(success, a) = a
         /\ Mark(a, b) = success <=> a = success /\ b = success
BY DEF Mark, ErrorType, success, type

\* A text is written after what is there, and read as it is in a copy.
LEMMA SayFacts ==
  ASSUME NEW h \in Handler, NEW e \in ErrorType, NEW text \in Seq(STRING)
  PROVE  LET r == Say(SetStatus(h, e), text) IN
         /\ r \in Handler
         /\ r.status = Mark(h.status, e)
         /\ r.text = h.text \o text
<1> DEFINE n == h.put + Len(text)
           r == Say(SetStatus(h, e), text)
<1>1. h.status \in ErrorType /\ h.text \in Seq(STRING) /\ h.put = Len(h.text) /\ h.put \in Nat
      /\ h = [status |-> h.status, text |-> h.text, put |-> h.put]
  BY DEF Handler
<1>2. SetStatus(h, e) = [status |-> Mark(h.status, e), text |-> h.text, put |-> h.put]
  BY <1>1 DEF SetStatus
<1>3. r = [status |-> Mark(h.status, e),
           text |-> SubSeq(h.text, 1, h.put) \o text \o SubSeq(h.text, n + 1, Len(h.text)),
           put |-> n]
  <2> DEFINE s == Mark(h.status, e)
             t == h.text
             p == h.put
  <2> HIDE DEF s, t, p
  <2>1. Say([status |-> s, text |-> t, put |-> p], text) =
          [status |-> s,
           text |-> SubSeq(t, 1, p) \o text \o SubSeq(t, (p + Len(text)) + 1, Len(t)),
           put |-> p + Len(text)]
    <3> DEFINE g == [status |-> s, text |-> t, put |-> p]
               x == SubSeq(t, 1, p) \o text \o SubSeq(t, (p + Len(text)) + 1, Len(t))
               q == p + Len(text)
    <3>1. g.text = t /\ g.put = p
      OBVIOUS
    <3>2. Say(g, text) =
            [g EXCEPT !.text = SubSeq(@, 1, g.put) \o text
                                 \o SubSeq(@, (g.put + Len(text)) + 1, Len(@)),
                      !.put = @ + Len(text)]
      BY DEF Say
    <3> HIDE DEF g
    <3>3. Say(g, text) = [g EXCEPT !.text = x, !.put = q]
      BY <3>1, <3>2
    <3> HIDE DEF x, q
    <3>4. [g EXCEPT !.text = x, !.put = q] = [status |-> s, text |-> x, put |-> q]
      <4>1. [g EXCEPT !.text = x] = [status |-> s, text |-> x, put |-> p]
        BY DEF g
      <4>2. [[status |-> s, text |-> x, put |-> p] EXCEPT !.put = q] =
              [status |-> s, text |-> x, put |-> q]
        OBVIOUS
      <4>3. [g EXCEPT !.text = x, !.put = q] = [[g EXCEPT !.text = x] EXCEPT !.put = q]
        OBVIOUS
      <4> QED
        BY <4>1, <4>2, <4>3
    <3> QED
      BY <3>3, <3>4 DEF g, x, q
  <2>2. SetStatus(h, e) = [status |-> s, text |-> t, put |-> p]
    BY <1>2 DEF s, t, p
  <2> QED
    BY <2>1, <2>2 DEF s, t, p
<1>4. SubSeq(h.text, 1, h.put) = h.text
  BY <1>1
<1>5. SubSeq(h.text, n + 1, Len(h.text)) = << >>
  <2>1. n + 1 \in Int /\ Len(h.text) \in Int /\ Len(h.text) < n + 1
    BY <1>1
  <2> HIDE DEF n
  <2> QED
    BY <2>1, SubSeqEmpty
<1>6. h.text \o text \in Seq(STRING) /\ Len(h.text \o text) = n /\ n \in Nat
  BY <1>1, ConcatFacts
<1>7. h.text \o text \o << >> = h.text \o text
  BY <1>6
<1>8. r = [status |-> Mark(h.status, e), text |-> h.text \o text, put |-> n]
  BY <1>3, <1>4, <1>5, <1>7
<1>9. Mark(h.status, e) \in ErrorType
  BY <1>1, MarkFacts
<1> HIDE DEF n, r
<1>10. r \in Handler
  BY <1>6, <1>8, <1>9 DEF Handler
<1> QED
  BY <1>8, <1>10 DEF r

\* At first nothing is reported.
LEMMA HandlerInitInv == HandlerInit => HandlerInv
<1> SUFFICES ASSUME HandlerInit PROVE HandlerInv
  OBVIOUS
<1>1. << >> \in Seq(STRING) /\ Len(<< >>) = 0 /\ << >> \o << >> = << >>
  OBVIOUS
<1>2. NewHandler \in Handler
  BY <1>1 DEF NewHandler, Handler, ErrorType, success, type
<1>3. NewHandler.text = << >> /\ NewHandler.status = success
  BY DEF NewHandler
<1>4. Least({}) = Mark(success, success)
  BY DEF Least, Mark
<1> QED
  BY <1>1, <1>2, <1>3, <1>4 DEF HandlerInit, HandlerInv, AllIsHeld, MessagesArrive

\* A message is added to what the handlers hold.
LEMMA ReportErrorInv ==
  ASSUME HandlerInv, NEW message \in Messages, ReportError(message) PROVE HandlerInv'
<1> DEFINE e == message.status
           text == message.text
<1>1. e \in ErrorType \ {success} /\ text \in Seq(STRING)
  BY MessagesAssumption
<1>2. /\ ended = FALSE /\ pass_error' = Say(SetStatus(pass_error, e), text)
      /\ said' = said \o text /\ statuses' = statuses \cup {e}
      /\ task_error' = task_error /\ caught' = caught /\ ended' = FALSE
  BY DEF ReportError, HandlerInv
<1>3. /\ pass_error \in Handler /\ task_error \in Handler
      /\ said \in Seq(STRING) /\ statuses \subseteq ErrorType \ {success}
      /\ AllIsHeld
  BY <1>2 DEF HandlerInv
<1> HIDE DEF e, text
<1>4. pass_error' \in Handler /\ pass_error'.status = Mark(pass_error.status, e)
      /\ pass_error'.text = pass_error.text \o text
  BY <1>1, <1>2, <1>3, SayFacts
<1>5. /\ pass_error.status \in ErrorType /\ pass_error.text \in Seq(STRING)
      /\ task_error.status \in ErrorType /\ task_error.text \in Seq(STRING)
  BY <1>3 DEF Handler
<1>6. said' = task_error'.text \o pass_error'.text /\ said' \in Seq(STRING)
  <2>1. said = task_error.text \o pass_error.text
    BY <1>3 DEF AllIsHeld
  <2>2. (task_error.text \o pass_error.text) \o text = task_error.text \o (pass_error.text \o text)
    <3> DEFINE a == task_error.text
               b == pass_error.text
    <3>1. a \in Seq(STRING) /\ b \in Seq(STRING) /\ text \in Seq(STRING)
      BY <1>1, <1>5
    <3> HIDE DEF a, b
    <3>2. (a \o b) \o text = a \o (b \o text)
      BY <3>1, ConcatAssociative
    <3> QED
      BY <3>2 DEF a, b
  <2>3. said \o text \in Seq(STRING)
    BY <1>1, <1>3
  <2> QED
    BY <1>2, <1>4, <2>1, <2>2, <2>3
<1>7. Least(statuses') = Mark(task_error'.status, pass_error'.status)
  <2>1. Least(statuses') = Mark(Least(statuses), e)
    BY <1>1, <1>2, <1>3, LeastOfMore
  <2>2. Least(statuses) = Mark(task_error.status, pass_error.status)
    BY <1>3 DEF AllIsHeld
  <2> QED
    <3> DEFINE a == task_error.status
               b == pass_error.status
    <3>1. a \in ErrorType /\ b \in ErrorType /\ e \in ErrorType
      BY <1>1, <1>5
    <3> HIDE DEF a, b
    <3>2. Mark(a, Mark(b, e)) = Mark(Mark(a, b), e)
      BY <3>1, MarkFacts
    <3> QED
      BY <1>2, <1>4, <2>1, <2>2, <3>2 DEF a, b
<1>8. pass_error'.status # success
  BY <1>1, <1>4, <1>5, MarkFacts
<1>9. task_error'.status = success => task_error'.text = << >>
  BY <1>2, <1>3 DEF AllIsHeld
<1>10. AllIsHeld'
  BY <1>2, <1>3, <1>6, <1>7, <1>8, <1>9 DEF AllIsHeld
<1>11. statuses' \subseteq ErrorType \ {success}
  BY <1>1, <1>2, <1>3
<1> QED
  BY <1>2, <1>3, <1>4, <1>6, <1>10, <1>11 DEF HandlerInv, MessagesArrive

\* What the handler of a pass holds goes to tc's, and to main when it leaves.
LEMMA EndOfPassInv ==
  ASSUME HandlerInv, NEW mode, EndOfPass(mode) PROVE HandlerInv'
<1> DEFINE own == Copied(pass_error)
           all == Added(task_error, own)
<1>1. /\ ended = FALSE /\ pass_error' = NewHandler /\ task_error' = all
      /\ said' = said /\ statuses' = statuses
      /\ \/ caught' = Copied(all) /\ ended' = TRUE
         \/ caught' = caught /\ ended' = FALSE
  BY DEF EndOfPass, HandlerInv
<1>2. /\ pass_error \in Handler /\ task_error \in Handler
      /\ said \in Seq(STRING) /\ statuses \subseteq ErrorType \ {success}
      /\ AllIsHeld
  BY <1>1 DEF HandlerInv
<1>3. /\ pass_error.status \in ErrorType /\ pass_error.text \in Seq(STRING)
      /\ task_error.status \in ErrorType /\ task_error.text \in Seq(STRING)
  BY <1>2 DEF Handler
<1>4. own.status = pass_error.status /\ own.text = pass_error.text
  BY <1>2 DEF Copied, Handler
<1>5. /\ all \in Handler /\ all.status = Mark(task_error.status, pass_error.status)
      /\ all.text = task_error.text \o pass_error.text
  <2> DEFINE e == pass_error.status
             t == pass_error.text
  <2>1. all = Say(SetStatus(task_error, e), t)
    BY <1>4 DEF Added
  <2>2. e \in ErrorType /\ t \in Seq(STRING) /\ task_error \in Handler
    BY <1>2, <1>3
  <2> HIDE DEF e, t, all
  <2>3. all \in Handler /\ all.status = Mark(task_error.status, e)
        /\ all.text = task_error.text \o t
    BY <2>1, <2>2, SayFacts
  <2> QED
    BY <2>3 DEF e, t
<1> HIDE DEF own, all
<1>6. Copied(all).status = all.status /\ Copied(all).text = all.text
  BY <1>5 DEF Copied, Handler
<1>7. said = all.text /\ Least(statuses) = all.status
  BY <1>2, <1>5 DEF AllIsHeld
<1>8. NewHandler \in Handler /\ NewHandler.text = << >> /\ NewHandler.status = success
  <2>1. << >> \in Seq(STRING) /\ Len(<< >>) = 0
    OBVIOUS
  <2> QED
    BY <2>1 DEF NewHandler, Handler, ErrorType, success, type
<1>9. CASE ended'
  <2>1. caught'.text = said' /\ caught'.status = Least(statuses')
    BY <1>1, <1>6, <1>7, <1>9
  <2> QED
    BY <1>1, <1>2, <1>5, <1>8, <1>9, <2>1 DEF HandlerInv, MessagesArrive
<1>10. CASE ~ ended'
  <2>1. all.text \o << >> = all.text
    BY <1>2, <1>7
  <2>2. Mark(all.status, success) = all.status
    <3>1. all.status \in ErrorType
      BY <1>3, <1>5, MarkFacts
    <3> QED
      BY <3>1, MarkFacts
  <2>3. all.status = success => all.text = << >>
    <3>1. ASSUME all.status = success PROVE task_error.text = << >> /\ pass_error.text = << >>
      BY <1>2, <1>3, <1>5, <3>1, MarkFacts DEF AllIsHeld
    <3>2. << >> \o << >> = << >>
      OBVIOUS
    <3> QED
      BY <1>5, <3>1, <3>2
  <2>4. caught' = NewHandler
    BY <1>1, <1>2, <1>10 DEF AllIsHeld
  <2>5. AllIsHeld'
    BY <1>1, <1>7, <1>8, <2>1, <2>2, <2>3, <2>4 DEF AllIsHeld
  <2> QED
    BY <1>1, <1>2, <1>5, <1>8, <1>10, <2>5 DEF HandlerInv, MessagesArrive
<1> QED
  BY <1>9, <1>10

\* After the last pass main throws what tc's handler holds, if anything.
LEMMA EndOfMainInv ==
  ASSUME HandlerInv, EndOfMain PROVE HandlerInv'
<1>1. /\ ended = FALSE /\ ended' = TRUE /\ pass_error = NewHandler
      /\ caught' = IF task_error.status # success THEN Copied(task_error) ELSE caught
      /\ pass_error' = pass_error /\ task_error' = task_error
      /\ said' = said /\ statuses' = statuses
  BY DEF EndOfMain, HandlerInv
<1>2. /\ pass_error \in Handler /\ task_error \in Handler
      /\ said \in Seq(STRING) /\ statuses \subseteq ErrorType \ {success}
      /\ AllIsHeld
  BY <1>1 DEF HandlerInv
<1>3. NewHandler.text = << >> /\ NewHandler.status = success
  BY DEF NewHandler
<1>4. task_error.status \in ErrorType /\ task_error.text \in Seq(STRING)
  BY <1>2 DEF Handler
<1>5. said = task_error.text /\ Least(statuses) = task_error.status
  <2>1. /\ said = task_error.text \o << >>
        /\ Least(statuses) = Mark(task_error.status, success)
    BY <1>1, <1>2, <1>3 DEF AllIsHeld
  <2>2. task_error.text \o << >> = task_error.text
    BY <1>4
  <2>3. Mark(task_error.status, success) = task_error.status
    BY <1>4, MarkFacts
  <2> QED
    BY <2>1, <2>2, <2>3
<1>6. Copied(task_error).status = task_error.status /\ Copied(task_error).text = task_error.text
  BY <1>2 DEF Copied, Handler
<1>7. caught'.text = said' /\ caught'.status = Least(statuses')
  <2>1. CASE task_error.status # success
    BY <1>1, <1>5, <1>6, <2>1
  <2>2. CASE task_error.status = success
    BY <1>1, <1>2, <1>3, <1>5, <2>2 DEF AllIsHeld
  <2> QED
    BY <2>1, <2>2
<1> QED
  BY <1>1, <1>2, <1>7 DEF HandlerInv, MessagesArrive

\* However many passes report, and whatever they say, main prints all of it
\* in order, and returns the least of the statuses (error.cc, tc.cc).
THEOREM NothingIsLost == HandlerSpec => []MessagesArrive
<1>1. HandlerInv /\ [HandlerNext]_handlerVars => HandlerInv'
  <2> SUFFICES ASSUME HandlerInv, [HandlerNext]_handlerVars PROVE HandlerInv'
    OBVIOUS
  <2>1. ASSUME NEW message \in Messages, ReportError(message) PROVE HandlerInv'
    BY <2>1, ReportErrorInv
  <2>2. ASSUME NEW mode, EndOfPass(mode) PROVE HandlerInv'
    BY <2>2, EndOfPassInv
  <2>3. CASE EndOfMain
    BY <2>3, EndOfMainInv
  <2>4. CASE UNCHANGED handlerVars
    BY <2>4 DEF handlerVars, HandlerInv, AllIsHeld, MessagesArrive
  <2> QED
    BY <2>1, <2>2, <2>3, <2>4 DEF HandlerNext
<1>2. HandlerInv => MessagesArrive
  BY DEF HandlerInv
<1> QED
  BY <1>1, <1>2, HandlerInitInv, PTL DEF HandlerSpec

-----------------------------------------------------------------------------
(* The names bind::Renamer gives.                                          *)

DigitChar == {"0", "1", "2", "3", "4", "5", "6", "7", "8", "9"}

\* Ten digits, none of which is an underscore.
LEMMA DigitFacts ==
  /\ \A i \in 1..10 : Digit[i] \in DigitChar
  /\ \A i, j \in 1..10 : Digit[i] = Digit[j] => i = j
  /\ "_" \notin DigitChar
<1>1. /\ Digit[1] = "0" /\ Digit[2] = "1" /\ Digit[3] = "2" /\ Digit[4] = "3" /\ Digit[5] = "4"
      /\ Digit[6] = "5" /\ Digit[7] = "6" /\ Digit[8] = "7" /\ Digit[9] = "8" /\ Digit[10] = "9"
  BY DEF Digit
<1>2. \A i \in 1..10 : \/ i = 1 \/ i = 2 \/ i = 3 \/ i = 4 \/ i = 5
                       \/ i = 6 \/ i = 7 \/ i = 8 \/ i = 9 \/ i = 10
  OBVIOUS
<1>3. "_" \notin DigitChar
  BY DEF DigitChar
<1> QED
  BY <1>1, <1>2, <1>3 DEF DigitChar

\* Division by ten.
LEMMA TenFacts ==
  ASSUME NEW n \in Nat
  PROVE  /\ n \div 10 \in Nat /\ n % 10 \in 0..9 /\ n = 10 * (n \div 10) + (n % 10)
         /\ n >= 10 => n \div 10 < n
OBVIOUS

\* The recursive function that writes a number is what its definition says.
LEMMA ToDigitsDefined ==
  ToDigits = [n \in Nat |->
                IF n < 10 THEN << Digit[n + 1] >>
                ELSE Append(ToDigits[n \div 10], Digit[(n % 10) + 1])]
<1> DEFINE At(f, n) == IF n < 10 THEN << Digit[n + 1] >>
                       ELSE Append(f[n \div 10], Digit[(n % 10) + 1])
           UpTo(f, k) == f = [n \in 0 .. k |-> At(f, n)]
<1>1. ASSUME NEW f, NEW g, NEW k \in Nat, NEW l \in Nat, UpTo(f, k), UpTo(g, l),
             NEW n \in 0 .. k, n <= l
      PROVE  f[n] = g[n]
  <2> SUFFICES ASSUME f[n] # g[n] PROVE FALSE
    OBVIOUS
  <2> DEFINE T == {m \in 0 .. k : m <= l /\ f[m] # g[m]}
  <2>1. PICK m \in T : \A i \in T : m <= i
    <3>1. T \in SUBSET Nat /\ n \in T
      BY <1>1
    <3> HIDE DEF T
    <3> QED
      BY <3>1, LeastNumber
  <2>2. m \in Nat /\ m \in 0 .. k /\ m \in 0 .. l /\ f[m] # g[m]
    BY <2>1
  <2>3. f[m] = At(f, m) /\ g[m] = At(g, m)
    BY <1>1, <2>2
  <2>4. CASE m < 10
    BY <2>2, <2>3, <2>4
  <2>5. CASE ~ (m < 10)
    <3> DEFINE d == m \div 10
    <3>1. d \in Nat /\ d < m
      BY <2>2, <2>5, TenFacts
    <3>2. f[m] = Append(f[d], Digit[(m % 10) + 1]) /\ g[m] = Append(g[d], Digit[(m % 10) + 1])
      BY <2>3, <2>5
    <3> HIDE DEF d
    <3>3. d \in 0 .. k /\ d <= l
      BY <2>2, <3>1
    <3>4. d \notin T
      BY <2>1, <2>2, <3>1
    <3>5. f[d] = g[d]
      BY <3>3, <3>4
    <3> QED
      BY <2>2, <3>2, <3>5
  <2> QED
    BY <2>4, <2>5
<1>2. ASSUME NEW k \in Nat PROVE \E f : UpTo(f, k)
  <2> DEFINE T == {m \in Nat : ~ \E f : UpTo(f, m)}
  <2> SUFFICES ASSUME T # {} PROVE FALSE
    OBVIOUS
  <2>1. PICK m \in T : \A i \in T : m <= i
    <3>1. T \in SUBSET Nat
      OBVIOUS
    <3> HIDE DEF T
    <3> QED
      BY <3>1, LeastNumber
  <2>2. m \in Nat /\ ~ \E f : UpTo(f, m)
    BY <2>1
  <2>3. m # 0
    <3> DEFINE f == [n \in 0 .. 0 |-> << Digit[n + 1] >>]
    <3>1. f = [n \in 0 .. 0 |-> At(f, n)]
      OBVIOUS
    <3>2. UpTo(f, 0)
      BY <3>1
    <3> QED
      BY <2>2, <3>2
  <2>4. PICK g : UpTo(g, m - 1)
    <3> HIDE DEF T
    <3>1. m - 1 \in Nat /\ ~ (m <= m - 1)
      BY <2>2, <2>3
    <3>2. m - 1 \notin T
      BY <2>1, <3>1
    <3> QED
      BY <3>1, <3>2 DEF T
  <2> DEFINE f == [n \in 0 .. m |-> At(g, n)]
  <2>5. ASSUME NEW n \in 0 .. m PROVE At(g, n) = At(f, n)
    <3>1. CASE n < 10
      BY <3>1
    <3>2. CASE ~ (n < 10)
      <4> DEFINE d == n \div 10
      <4>1. n \in Nat /\ d \in Nat /\ d < n
        BY <3>2, TenFacts
      <4>2. At(g, n) = Append(g[d], Digit[(n % 10) + 1]) /\ At(f, n) = Append(f[d], Digit[(n % 10) + 1])
        BY <3>2
      <4>3. d \in 0 .. m /\ d \in 0 .. m - 1
        <5> HIDE DEF d
        <5> QED
          BY <2>2, <4>1
      <4> HIDE DEF d
      <4>4. f[d] = At(g, d)
        BY <4>3
      <4>5. g[d] = At(g, d)
        BY <2>4, <4>3
      <4> QED
        BY <4>2, <4>4, <4>5
    <3> QED
      BY <3>1, <3>2
  <2>6. UpTo(f, m)
    <3> HIDE DEF At
    <3>1. [n \in 0 .. m |-> At(g, n)] = [n \in 0 .. m |-> At(f, n)]
      BY <2>5
    <3> QED
      BY <3>1
  <2> QED
    BY <2>2, <2>6
<1> DEFINE Some(k) == CHOOSE f : UpTo(f, k)
           h == [n \in Nat |-> Some(n)[n]]
<1>3. ASSUME NEW k \in Nat PROVE UpTo(Some(k), k)
  <2> HIDE DEF UpTo
  <2> QED
    BY <1>2
<1>4. ASSUME NEW n \in Nat PROVE h[n] = At(h, n)
  <2>1. UpTo(Some(n), n)
    BY <1>3
  <2> DEFINE s == Some(n)
  <2> HIDE DEF Some
  <2>2. s[n] = At(s, n) /\ h[n] = s[n]
    <3>1. s = [m \in 0 .. n |-> At(s, m)]
      BY <2>1
    <3> HIDE DEF s
    <3> HIDE DEF At
    <3>2. n \in 0 .. n
      OBVIOUS
    <3>3. s[n] = At(s, n)
      BY <3>1, <3>2
    <3> QED
      BY <3>3 DEF s
  <2>3. CASE n < 10
    BY <2>2, <2>3
  <2>4. CASE ~ (n < 10)
    <3> DEFINE d == n \div 10
    <3>1. d \in Nat /\ d < n
      BY <2>4, TenFacts
    <3>2. At(s, n) = Append(s[d], Digit[(n % 10) + 1]) /\ At(h, n) = Append(h[d], Digit[(n % 10) + 1])
      BY <2>4
    <3> HIDE DEF d
    <3>3. UpTo(Some(d), d)
      BY <1>3, <3>1
    <3>4. h[d] = Some(d)[d]
      BY <3>1
    <3> DEFINE t == Some(d)
    <3>5. UpTo(t, d) /\ UpTo(s, n) /\ d \in 0 .. d /\ d <= n
      <4> HIDE DEF UpTo
      <4> QED
        BY <2>1, <3>1, <3>3 DEF s
    <3> HIDE DEF s, t, UpTo, At, h
    <3>6. t[d] = s[d]
      BY <1>1, <3>1, <3>5
    <3> QED
      BY <2>2, <3>2, <3>4, <3>6 DEF t
  <2> QED
    BY <2>3, <2>4
<1>5. h = [n \in Nat |-> At(h, n)]
  <2> HIDE DEF At
  <2> QED
    BY <1>4
<1>6. \E f : f = [n \in Nat |-> At(f, n)]
  <2> HIDE DEF h, At
  <2> QED
    BY <1>5
<1>7. ToDigits = CHOOSE f : f = [n \in Nat |-> At(f, n)]
  BY DEF ToDigits
<1> QED
  <2> DEFINE Is(f) == f = [n \in Nat |-> At(f, n)]
  <2>1. \E f : Is(f)
    BY <1>6
  <2>2. ToDigits = CHOOSE f : Is(f)
    BY <1>7
  <2> HIDE DEF Is
  <2>3. Is(ToDigits)
    BY <2>1, <2>2
  <2> QED
    BY <2>3 DEF Is

\* A number is written with digits alone, one at least.
LEMMA ToDigitsType ==
  ASSUME NEW n \in Nat
  PROVE  /\ ToDigits[n] \in Seq(DigitChar)
         /\ Len(ToDigits[n]) \in Nat \ {0}
         /\ n < 10 => ToDigits[n] = << Digit[n + 1] >>
         /\ n >= 10 => ToDigits[n] = Append(ToDigits[n \div 10], Digit[(n % 10) + 1])
<1>1. ASSUME NEW m \in Nat
      PROVE  ToDigits[m] = IF m < 10 THEN << Digit[m + 1] >>
                           ELSE Append(ToDigits[m \div 10], Digit[(m % 10) + 1])
  BY ToDigitsDefined
<1> DEFINE T == {m \in Nat : ToDigits[m] \notin Seq(DigitChar)}
<1>2. T = {}
  <2> SUFFICES ASSUME T # {} PROVE FALSE
    OBVIOUS
  <2>1. PICK m \in T : \A i \in T : m <= i
    <3>1. T \in SUBSET Nat
      OBVIOUS
    <3> HIDE DEF T
    <3> QED
      BY <3>1, LeastNumber
  <2>2. m \in Nat /\ ToDigits[m] \notin Seq(DigitChar)
    BY <2>1
  <2>3. CASE m < 10
    <3>1. m + 1 \in 1..10
      BY <2>2, <2>3
    <3>2. Digit[m + 1] \in DigitChar
      BY <3>1, DigitFacts
    <3>3. << Digit[m + 1] >> \in Seq(DigitChar)
      BY <3>2
    <3> QED
      BY <1>1, <2>2, <2>3, <3>3
  <2>4. CASE ~ (m < 10)
    <3> DEFINE d == m \div 10
    <3>1. d \in Nat /\ d < m /\ (m % 10) + 1 \in 1..10
      BY <2>2, <2>4, TenFacts
    <3>2. ToDigits[m] = Append(ToDigits[d], Digit[(m % 10) + 1])
      BY <1>1, <2>2, <2>4
    <3> HIDE DEF d
    <3>3. d \notin T
      BY <2>1, <2>2, <3>1
    <3>4. ToDigits[d] \in Seq(DigitChar)
      BY <3>1, <3>3
    <3>5. Digit[(m % 10) + 1] \in DigitChar
      BY <3>1, DigitFacts
    <3> QED
      BY <2>2, <3>2, <3>4, <3>5
  <2> QED
    BY <2>3, <2>4
<1>3. \A m \in Nat : ToDigits[m] \in Seq(DigitChar)
  BY <1>2
<1>4. n < 10 => ToDigits[n] = << Digit[n + 1] >>
  BY <1>1
<1>5. n >= 10 => ToDigits[n] = Append(ToDigits[n \div 10], Digit[(n % 10) + 1])
  <2> DEFINE z == Append(ToDigits[n \div 10], Digit[(n % 10) + 1])
             o == << Digit[n + 1] >>
  <2>1. ToDigits[n] = IF n < 10 THEN o ELSE z
    BY <1>1
  <2>2. n >= 10 => ~ (n < 10)
    OBVIOUS
  <2> HIDE DEF z, o
  <2> QED
    BY <2>1, <2>2 DEF z
<1>6. Len(ToDigits[n]) \in Nat \ {0}
  <2>1. CASE n < 10
    BY <1>4, <2>1
  <2>2. CASE ~ (n < 10)
    <3> DEFINE d == n \div 10
               c == Digit[(n % 10) + 1]
    <3>1. d \in Nat
      BY TenFacts
    <3>2. ToDigits[n] = Append(ToDigits[d], c)
      BY <1>5, <2>2
    <3> HIDE DEF d, c
    <3>3. ToDigits[d] \in Seq(DigitChar)
      BY <1>3, <3>1
    <3>4. Len(Append(ToDigits[d], c)) = Len(ToDigits[d]) + 1 /\ Len(ToDigits[d]) \in Nat
      BY <3>3
    <3> QED
      BY <3>2, <3>4
  <2> QED
    BY <2>1, <2>2
<1> QED
  BY <1>3, <1>4, <1>5, <1>6

\* Different numbers are written differently.
LEMMA ToDigitsDiffer ==
  ASSUME NEW n \in Nat, NEW m \in Nat, ToDigits[n] = ToDigits[m]
  PROVE  n = m
<1> SUFFICES ASSUME n # m PROVE FALSE
  OBVIOUS
<1> DEFINE T == {i \in Nat : \E j \in Nat : ToDigits[i] = ToDigits[j] /\ i # j}
<1>1. PICK i \in T : \A k \in T : i <= k
  <2>1. T \in SUBSET Nat /\ n \in T
    OBVIOUS
  <2> HIDE DEF T
  <2> QED
    BY <2>1, LeastNumber
<1>2. PICK j \in Nat : ToDigits[i] = ToDigits[j] /\ i # j
  BY <1>1
<1>3. i \in Nat
  BY <1>1
<1>4. j \in T
  BY <1>2, <1>3
<1>5. i < j
  <2> HIDE DEF T
  <2> QED
    BY <1>1, <1>2, <1>3, <1>4
<1>6. CASE j < 10
  <2>1. << Digit[i + 1] >> = << Digit[j + 1] >>
    BY <1>2, <1>3, <1>5, <1>6, ToDigitsType
  <2>2. Digit[i + 1] = Digit[j + 1] /\ i + 1 \in 1..10 /\ j + 1 \in 1..10
    BY <1>2, <1>3, <1>5, <1>6, <2>1
  <2>3. i + 1 = j + 1
    BY <2>2, DigitFacts
  <2> QED
    BY <1>2, <1>3, <2>3
<1>7. CASE ~ (j < 10)
  <2> DEFINE e == j \div 10
             y == Digit[(j % 10) + 1]
             d == i \div 10
             x == Digit[(i % 10) + 1]
  <2>1. e \in Nat /\ ToDigits[j] = Append(ToDigits[e], y)
    BY <1>2, <1>7, TenFacts, ToDigitsType
  <2>2. d \in Nat
    BY <1>3, TenFacts
  <2> HIDE DEF e, y, d, x
  <2>3. /\ ToDigits[e] \in Seq(DigitChar) /\ Len(ToDigits[e]) \in Nat \ {0}
        /\ ToDigits[d] \in Seq(DigitChar) /\ Len(ToDigits[d]) \in Nat \ {0}
    BY <2>1, <2>2, ToDigitsType
  <2>4. Len(ToDigits[j]) >= 2
    BY <2>1, <2>3
  <2>5. ~ (i < 10)
    <3> SUFFICES ASSUME i < 10 PROVE FALSE
      OBVIOUS
    <3>1. ToDigits[i] = << Digit[i + 1] >>
      BY <1>3, ToDigitsType
    <3> QED
      BY <1>2, <2>4, <3>1
  <2>6. ToDigits[i] = Append(ToDigits[d], x)
    BY <1>3, <2>5, ToDigitsType DEF d, x
  <2>7. ToDigits[d] = ToDigits[e] /\ x = y
    <3> DEFINE a == ToDigits[d]
               b == ToDigits[e]
    <3>1. Append(a, x) = Append(b, y)
      BY <1>2, <2>1, <2>6
    <3>2. a \in Seq(DigitChar) /\ b \in Seq(DigitChar)
      BY <2>3
    <3> HIDE DEF a, b
    <3>3. Len(a) + 1 = Len(b) + 1 /\ Len(a) \in Nat /\ Len(b) \in Nat
      BY <3>1, <3>2
    <3>4. Append(a, x)[Len(a) + 1] = x /\ Append(b, y)[Len(b) + 1] = y
      BY <3>2
    <3>5. \A k \in 1..Len(a) : a[k] = Append(a, x)[k]
      BY <3>2
    <3>6. \A k \in 1..Len(b) : b[k] = Append(b, y)[k]
      BY <3>2
    <3>7. Len(a) = Len(b)
      BY <3>3
    <3>8. a = b
      BY <3>1, <3>2, <3>5, <3>6, <3>7, SameElements
    <3>9. x = y
      BY <3>1, <3>4, <3>7
    <3> QED
      BY <3>8, <3>9 DEF a, b
  <2>8. d = e
    <3>1. d < i
      BY <1>3, <2>5, TenFacts DEF d
    <3>2. d \notin T
      <4> HIDE DEF T
      <4> QED
        BY <1>1, <1>3, <2>2, <3>1
    <3> QED
      BY <2>1, <2>2, <2>7, <3>2
  <2>9. i % 10 = j % 10
    <3> DEFINE p == i % 10
               q == j % 10
    <3>1. p \in 0..9 /\ q \in 0..9
      BY <1>2, <1>3, TenFacts
    <3>2. Digit[p + 1] = Digit[q + 1]
      BY <2>7 DEF x, y
    <3> HIDE DEF p, q
    <3>3. p + 1 \in 1..10 /\ q + 1 \in 1..10
      BY <3>1
    <3>4. p + 1 = q + 1
      BY <3>2, <3>3, DigitFacts
    <3>5. p = q
      BY <3>1, <3>4
    <3> QED
      BY <3>5 DEF p, q
  <2>10. i = 10 * d + (i % 10) /\ j = 10 * e + (j % 10)
    BY <1>2, <1>3, TenFacts DEF d, e
  <2> QED
    BY <1>2, <2>8, <2>9, <2>10
<1> QED
  BY <1>6, <1>7

\* Where two sequences have a mark in them, and no mark after it, they end
\* alike only if what is after the mark is the same.
LEMMA LastMark ==
  ASSUME NEW C, NEW mark \in C, NEW a \in Seq(C), NEW b \in Seq(C),
         NEW x \in Seq(C), NEW y \in Seq(C), Len(x) <= Len(y),
         \A i \in 1..Len(y) : y[i] # mark,
         (a \o << mark >>) \o x = (b \o << mark >>) \o y
  PROVE  x = y
<1> DEFINE c == a \o << mark >>
           d == b \o << mark >>
           s == c \o x
           t == d \o y
<1>1. /\ c \in Seq(C) /\ Len(c) = Len(a) + 1 /\ c[Len(c)] = mark
      /\ d \in Seq(C) /\ Len(d) = Len(b) + 1 /\ Len(a) \in Nat /\ Len(b) \in Nat
  OBVIOUS
<1>2. Len(x) \in Nat /\ Len(y) \in Nat /\ Len(x) <= Len(y)
  OBVIOUS
<1>3. s = t
  OBVIOUS
<1> HIDE DEF c, d
<1>4. /\ Len(s) = Len(c) + Len(x)
      /\ \A i \in 1..Len(c) : s[i] = c[i]
      /\ \A i \in 1..Len(x) : s[Len(c) + i] = x[i]
  <2>1. c \in Seq(C) /\ x \in Seq(C)
    BY <1>1
  <2>2. /\ Len(c \o x) = Len(c) + Len(x)
        /\ \A i \in 1..Len(c) : (c \o x)[i] = c[i]
        /\ \A i \in 1..Len(x) : (c \o x)[Len(c) + i] = x[i]
    BY ONLY <2>1, ConcatFacts
  <2> QED
    BY <2>2
<1>5. /\ Len(t) = Len(d) + Len(y)
      /\ \A i \in 1..Len(y) : t[Len(d) + i] = y[i]
  <2>1. d \in Seq(C) /\ y \in Seq(C)
    BY <1>1
  <2>2. /\ Len(d \o y) = Len(d) + Len(y)
        /\ \A i \in 1..Len(y) : (d \o y)[Len(d) + i] = y[i]
    BY ONLY <2>1, ConcatFacts
  <2> QED
    BY <2>2
<1> HIDE DEF s, t
<1>6. Len(x) = Len(y)
  <2> SUFFICES ASSUME Len(x) < Len(y) PROVE FALSE
    BY <1>2
  <2> DEFINE k == Len(c) - Len(d)
  <2>1. Len(c) + Len(x) = Len(d) + Len(y)
    BY <1>3, <1>4, <1>5
  <2>2. k \in 1..Len(y) /\ Len(d) + k = Len(c) /\ Len(c) \in 1..Len(c)
    BY <1>1, <1>2, <2>1
  <2> HIDE DEF k
  <2>3. s[Len(c)] = mark
    BY <1>1, <1>4, <2>2
  <2>4. s[Len(c)] = y[k]
    BY <1>3, <1>5, <2>2
  <2> QED
    BY <2>2, <2>3, <2>4
<1>7. Len(c) = Len(d)
  BY <1>1, <1>2, <1>3, <1>4, <1>5, <1>6
<1>8. \A i \in 1..Len(x) : x[i] = y[i]
  BY <1>3, <1>4, <1>5, <1>6, <1>7
<1> QED
  BY <1>6, <1>8, SameElements

\* A sequence over a set is one over a larger set.
LEMMA LargerAlphabet ==
  ASSUME NEW C, NEW D, C \subseteq D, NEW u \in Seq(C) PROVE u \in Seq(D)
<1>1. Len(u) \in Nat /\ u = [i \in 1..Len(u) |-> u[i]] /\ \A i \in 1..Len(u) : u[i] \in C
  OBVIOUS
<1>2. \A i \in 1..Len(u) : u[i] \in D
  BY <1>1
<1> QED
  BY <1>1, <1>2

\* Two names that end in an underscore and a number are one name only if the
\* numbers are: whatever the names are, the last underscore is where the
\* number begins.
LEMMA NewNamesDiffer ==
  ASSUME NEW S, NEW a \in Seq(S), NEW b \in Seq(S), NEW n \in Nat, NEW m \in Nat,
         NewName(a, n) = NewName(b, m)
  PROVE  n = m
<1> DEFINE Letter == S \union DigitChar \union {"_"}
           x == ToDigits[n]
           y == ToDigits[m]
<1>1. /\ x \in Seq(DigitChar) /\ y \in Seq(DigitChar)
      /\ Len(x) \in Nat /\ Len(y) \in Nat
  BY ToDigitsType
<1>2. S \subseteq Letter /\ DigitChar \subseteq Letter /\ "_" \in Letter
  OBVIOUS
<1>3. (a \o << "_" >>) \o x = (b \o << "_" >>) \o y
  BY DEF NewName
<1>4. /\ \A i \in 1..Len(x) : x[i] # "_"
      /\ \A i \in 1..Len(y) : y[i] # "_"
  <2>1. /\ \A i \in 1..Len(x) : x[i] \in DigitChar
        /\ \A i \in 1..Len(y) : y[i] \in DigitChar
    <3> HIDE DEF x, y
    <3> QED
      BY <1>1
  <2> QED
    BY <2>1, DigitFacts
<1> HIDE DEF x, y, Letter
<1>5. a \in Seq(Letter) /\ b \in Seq(Letter) /\ x \in Seq(Letter) /\ y \in Seq(Letter)
  BY <1>1, <1>2, LargerAlphabet
<1> DEFINE mark == "_"
<1>6. /\ mark \in Letter
      /\ (a \o << mark >>) \o x = (b \o << mark >>) \o y
      /\ \A i \in 1..Len(x) : x[i] # mark
      /\ \A i \in 1..Len(y) : y[i] # mark
  BY <1>2, <1>3, <1>4
<1> HIDE DEF mark
<1>7. ASSUME Len(x) <= Len(y) PROVE x = y
  BY <1>5, <1>6, <1>7, LastMark
<1>8. ASSUME Len(y) <= Len(x) PROVE x = y
  <2>1. (b \o << mark >>) \o y = (a \o << mark >>) \o x
    BY <1>6
  <2>2. y = x
    BY <1>5, <1>6, <1>8, <2>1, LastMark
  <2> QED
    BY <2>2
<1>9. x = y
  BY <1>1, <1>7, <1>8
<1> QED
  BY <1>9, ToDigitsDiffer DEF x, y

-----------------------------------------------------------------------------
(* Unique strings.                                                         *)

\* An insert leaves the other strings where they are.
LEMMA InsertFacts ==
  ASSUME OneAddressEach, NEW s
  PROVE  LET o == Insert(objects, s) IN
         /\ s \in DOMAIN o /\ DOMAIN objects \subseteq DOMAIN o
         /\ \A t \in DOMAIN objects : o[t] = objects[t]
         /\ IsFiniteSet(DOMAIN o)
         /\ o \in [DOMAIN o -> 0..Cardinality(DOMAIN o) - 1]
         /\ \A t, u \in DOMAIN o : o[t] = o[u] => t = u
<1> DEFINE D == DOMAIN objects
           n == Cardinality(D)
           o == Insert(objects, s)
<1>1. /\ IsFiniteSet(D) /\ n \in Nat /\ objects \in [D -> 0..n - 1]
      /\ \A t, u \in D : objects[t] = objects[u] => t = u
  BY FS_CardinalityType DEF OneAddressEach
<1>2. o = [t \in D \cup {s} |-> IF t \in D THEN objects[t] ELSE n]
  BY DEF Insert
<1>3. DOMAIN o = D \cup {s}
  BY <1>2
<1> HIDE DEF o, n
<1>4. CASE s \in D
  <2>1. D \cup {s} = D
    BY <1>4
  <2>2. o = objects
    BY <1>1, <1>2, <2>1
  <2> QED
    BY <1>1, <1>4, <2>2 DEF o, n
<1>5. CASE s \notin D
  <2>1. IsFiniteSet(D \cup {s}) /\ Cardinality(D \cup {s}) = n + 1
    BY <1>1, <1>5, FS_AddElement DEF n
  <2>2. \A t \in D : o[t] = objects[t] /\ objects[t] \in 0..n - 1
    BY <1>1, <1>2
  <2>3. o[s] = n
    BY <1>2, <1>5
  <2>4. \A t \in D \cup {s} : o[t] \in 0..(n + 1) - 1
    BY <1>1, <2>2, <2>3
  <2>5. \A t, u \in D \cup {s} : o[t] = o[u] => t = u
    <3>1. \A t \in D : o[t] # o[s]
      BY <1>1, <2>2, <2>3
    <3>2. \A t, u \in D : o[t] = o[u] => t = u
      BY <1>1, <2>2
    <3> QED
      BY <3>1, <3>2
  <2>6. o \in [D \cup {s} -> 0..Cardinality(D \cup {s}) - 1]
    BY <1>2, <2>1, <2>4
  <2> QED
    BY <1>3, <2>1, <2>2, <2>5, <2>6 DEF o
<1> QED
  BY <1>4, <1>5

\* A symbol is made of a string: the strings of the others stay theirs.
LEMMA UniqueInv ==
  ASSUME SymbolInv, NEW s, Unique(s)
  PROVE  /\ OneAddressEach'
         /\ \A p \in symbols' : p.string \in DOMAIN objects' /\ p.obj = objects'[p.string]
<1>1. /\ OneAddressEach
      /\ \A p \in symbols : p.string \in DOMAIN objects /\ p.obj = objects[p.string]
  BY DEF SymbolInv
<1>2. /\ objects' = Insert(objects, s)
      /\ symbols' = symbols \cup {[string |-> s, obj |-> objects'[s]]}
  BY DEF Unique
<1>3. /\ s \in DOMAIN objects' /\ DOMAIN objects \subseteq DOMAIN objects'
      /\ \A t \in DOMAIN objects : objects'[t] = objects[t]
      /\ IsFiniteSet(DOMAIN objects')
      /\ objects' \in [DOMAIN objects' -> 0..Cardinality(DOMAIN objects') - 1]
      /\ \A t, u \in DOMAIN objects' : objects'[t] = objects'[u] => t = u
  BY <1>1, <1>2, InsertFacts
<1>4. OneAddressEach'
  BY <1>3 DEF OneAddressEach
<1>5. ASSUME NEW p \in symbols' PROVE p.string \in DOMAIN objects' /\ p.obj = objects'[p.string]
  BY <1>1, <1>2, <1>3
<1> QED
  BY <1>4, <1>5

\* There is no name at first.
LEMMA SymbolInitInv == SymbolInit => SymbolInv
<1> SUFFICES ASSUME SymbolInit PROVE SymbolInv
  OBVIOUS
<1>1. objects = << >> /\ count = 0 /\ symbols = {} /\ given = << >>
  BY DEF SymbolInit
<1>2. DOMAIN objects = {}
  BY <1>1
<1>3. IsFiniteSet({}) /\ Cardinality({}) = 0
  BY FS_EmptySet
<1>4. objects = [s \in {} |-> 0]
  BY <1>1
<1>5. OneAddressEach
  BY <1>2, <1>3, <1>4 DEF OneAddressEach
<1>6. NumbersAreGiven
  BY <1>1 DEF NumbersAreGiven
<1> QED
  BY <1>1, <1>5, <1>6 DEF SymbolInv

\* A new name takes the next number.
LEMMA RenameInv ==
  ASSUME SymbolInv, NEW name \in SymbolNames, Rename(name) PROVE SymbolInv'
<1>1. /\ Unique(NewName(name, count)) /\ count' = count + 1
      /\ given' = Append(given, NewName(name, count))
  BY DEF Rename
<1>2. /\ count \in Nat /\ DOMAIN given = 1..count
      /\ \A i \in 1..count : \E m \in SymbolNames : given[i] = NewName(m, i - 1)
  BY DEF SymbolInv, NumbersAreGiven
<1>3. NumbersAreGiven'
  <2> QED
    BY <1>1, <1>2 DEF NumbersAreGiven
<1> QED
  BY <1>1, <1>3, UniqueInv DEF SymbolInv

\* The invariant says what NamesStayApart does.
LEMMA SymbolInvApart == SymbolInv => NamesStayApart
<1> SUFFICES ASSUME SymbolInv PROVE NamesStayApart
  OBVIOUS
<1>1. SymbolsAreStrings
  <2>1. /\ \A s, t \in DOMAIN objects : objects[s] = objects[t] => s = t
        /\ \A p \in symbols : p.string \in DOMAIN objects /\ p.obj = objects[p.string]
    BY DEF SymbolInv, OneAddressEach
  <2>2. ASSUME NEW p \in symbols, NEW q \in symbols
        PROVE  (p.obj = q.obj) = (p.string = q.string)
    BY <2>1
  <2>3. ASSUME NEW p \in symbols PROVE Get(p.obj) = {p.string}
    BY <2>1 DEF Get
  <2> QED
    BY <2>2, <2>3 DEF SymbolsAreStrings
<1>2. GivenNamesDiffer
  <2> SUFFICES ASSUME NEW i \in DOMAIN given, NEW j \in DOMAIN given, given[i] = given[j]
               PROVE  i = j
    BY DEF GivenNamesDiffer
  <2>1. /\ count \in Nat /\ i \in 1..count /\ j \in 1..count
        /\ \A k \in 1..count : \E m \in SymbolNames : given[k] = NewName(m, k - 1)
    BY DEF SymbolInv, NumbersAreGiven
  <2>2. PICK a \in SymbolNames : given[i] = NewName(a, i - 1)
    BY <2>1
  <2>3. PICK b \in SymbolNames : given[j] = NewName(b, j - 1)
    BY <2>1
  <2>4. a \in Seq(STRING) /\ b \in Seq(STRING) /\ i - 1 \in Nat /\ j - 1 \in Nat
    BY <2>1, SymbolsAssumption
  <2>5. i - 1 = j - 1
    <3> DEFINE n == i - 1
               m == j - 1
    <3>1. n \in Nat /\ m \in Nat /\ NewName(a, n) = NewName(b, m)
      BY <2>2, <2>3, <2>4
    <3> HIDE DEF n, m
    <3>2. n = m
      BY <2>4, <3>1, NewNamesDiffer
    <3> QED
      BY <3>2 DEF n, m
  <2> QED
    BY <2>1, <2>5
<1> QED
  BY <1>1, <1>2 DEF NamesStayApart

\* Symbols are equal when their strings are, and no name is given twice,
\* whatever names a program has and however many it is given (unique.hxx,
\* renamer.cc, symbol::fresh).
THEOREM NamesApart == SymbolSpec => []NamesStayApart
<1>1. SymbolInv /\ [SymbolNext]_symbolVars => SymbolInv'
  <2> SUFFICES ASSUME SymbolInv, [SymbolNext]_symbolVars PROVE SymbolInv'
    OBVIOUS
  <2>1. ASSUME NEW s \in SymbolNames, MakeSymbol(s) PROVE SymbolInv'
    <3>1. Unique(s) /\ count' = count /\ given' = given
      BY <2>1 DEF MakeSymbol
    <3>2. NumbersAreGiven'
      BY <3>1 DEF SymbolInv, NumbersAreGiven
    <3> QED
      BY <3>1, <3>2, UniqueInv DEF SymbolInv
  <2>2. ASSUME NEW s \in SymbolNames, Rename(s) PROVE SymbolInv'
    BY <2>2, RenameInv
  <2>3. CASE UNCHANGED symbolVars
    BY <2>3 DEF symbolVars, SymbolInv, OneAddressEach, NumbersAreGiven
  <2> QED
    BY <2>1, <2>2, <2>3 DEF SymbolNext
<1> QED
  BY <1>1, SymbolInitInv, SymbolInvApart, PTL DEF SymbolSpec

-----------------------------------------------------------------------------
(* The timer.                                                              *)

\* A time_var that was started, and one that was stopped.
LEMMA TimeVarFacts ==
  ASSUME NEW v \in TimeVars, NEW time \in Nat
  PROVE  /\ LET w == Started(v, time) IN
            /\ w \in TimeVars /\ w.begin = time /\ ~ w.initial
            /\ w.elapsed = v.elapsed /\ w.last = v.last
            /\ w.first = IF v.initial THEN time ELSE v.first
         /\ v.elapsed + time - v.begin \in Nat =>
              LET w == Stopped(v, time) IN
              /\ w \in TimeVars /\ w.last = time /\ w.initial = v.initial
              /\ w.elapsed = v.elapsed + time - v.begin
              /\ w.begin = v.begin /\ w.first = v.first
<1>1. /\ v.begin \in Nat /\ v.elapsed \in Nat /\ v.first \in Nat /\ v.last \in Nat
      /\ v.initial \in BOOLEAN
  BY DEF TimeVars
<1> DEFINE f == IF v.initial THEN time ELSE v.first
           e == v.elapsed + time - v.begin
<1>2. f \in Nat
  BY <1>1
<1>3. Started(v, time) = [v EXCEPT !.begin = time, !.initial = FALSE, !.first = f]
  <2>1. [v EXCEPT !.begin = time, !.initial = FALSE].first = v.first
    BY DEF TimeVars
  <2> QED
    BY <2>1 DEF Started
<1>4. Stopped(v, time) = [v EXCEPT !.last = time, !.elapsed = e]
  <2>1. [v EXCEPT !.last = time].elapsed = v.elapsed
    BY DEF TimeVars
  <2> QED
    BY <2>1 DEF Stopped
<1> HIDE DEF f, e
<1>5. LET w == [v EXCEPT !.begin = time, !.initial = FALSE, !.first = f] IN
      /\ w \in TimeVars /\ w.begin = time /\ ~ w.initial
      /\ w.elapsed = v.elapsed /\ w.last = v.last /\ w.first = f
  BY <1>2 DEF TimeVars
<1>6. e \in Nat =>
        LET w == [v EXCEPT !.last = time, !.elapsed = e] IN
        /\ w \in TimeVars /\ w.last = time /\ w.initial = v.initial
        /\ w.elapsed = e /\ w.begin = v.begin /\ w.first = v.first
  BY DEF TimeVars
<1> QED
  BY <1>3, <1>4, <1>5, <1>6 DEF f, e

\* Tasks that all stand still.
Still(m) ==
  \A name \in DOMAIN m :
    /\ m[name].last <= now
    /\ m[name].elapsed = spent[name]
    /\ m[name].initial => spent[name] = 0
    /\ ~ m[name].initial => spent[name] <= m[name].last - m[name].first

\* The innermost task is stopped.
LEMMA StopTask ==
  ASSUME NEW m, NEW s \in Seq(DOMAIN m), spent \in [Tasks -> Nat], now \in Nat,
         Known(m), Counted(m, s), s # << >>
  PROVE  LET r == [m EXCEPT ![Head(s)] = Stopped(@, now)] IN
         /\ DOMAIN r = DOMAIN m
         /\ Known(r)
         /\ Still(r)
         /\ \A name \in DOMAIN r : ~ r[name].initial
<1> DEFINE h == Head(s)
           v == m[h]
           w == Stopped(v, now)
           r == [m EXCEPT ![h] = w]
<1>1. h \in DOMAIN m /\ v \in TimeVars /\ h \in Tasks /\ spent[h] \in Nat
  BY HeadTailRange, TailFacts DEF Known
<1>2. /\ v.last <= now /\ ~ v.initial
      /\ v.elapsed + now - v.begin = spent[h] /\ spent[h] <= now - v.first
  BY <1>1 DEF Counted
<1> HIDE DEF h, v
<1>3. /\ w \in TimeVars
      /\ w.last = now /\ w.elapsed = spent[h] /\ w.first = v.first /\ ~ w.initial
  <2>1. v.elapsed + now - v.begin \in Nat
    BY <1>1, <1>2
  <2>2. /\ w \in TimeVars /\ w.last = now /\ w.initial = v.initial
        /\ w.elapsed = v.elapsed + now - v.begin /\ w.first = v.first
    BY <1>1, <2>1, TimeVarFacts
  <2> QED
    BY <1>2, <2>2
<1> HIDE DEF w
<1>4. m \in [DOMAIN m -> TimeVars]
  BY DEF Known
<1>5. /\ DOMAIN r = DOMAIN m /\ r \in [DOMAIN m -> TimeVars]
      /\ r[h] = w /\ \A name \in DOMAIN m : name # h => r[name] = m[name]
  BY <1>1, <1>3, <1>4
<1> HIDE DEF r
<1>6. Known(r)
  BY <1>5 DEF Known
<1>7. ASSUME NEW name \in DOMAIN r
      PROVE  /\ r[name].last <= now /\ r[name].elapsed = spent[name]
             /\ ~ r[name].initial /\ spent[name] <= r[name].last - r[name].first
  <2>1. CASE name = h
    BY <1>2, <1>3, <1>5, <2>1
  <2>2. CASE name # h
    <3>1. r[name] = m[name] /\ name \in DOMAIN m
      BY <1>5, <2>2
    <3>2. /\ m[name].last <= now /\ ~ m[name].initial
          /\ m[name].elapsed = spent[name] /\ spent[name] <= m[name].last - m[name].first
      BY <2>2, <3>1 DEF Counted, h
    <3> QED
      BY <3>1, <3>2
  <2> QED
    BY <2>1, <2>2
<1>8. Still(r)
  BY <1>7 DEF Still
<1> QED
  BY <1>5, <1>6, <1>7, <1>8 DEF r, w, v, h

\* A task is started, for the first now or again, while all stand still.
LEMMA StartTask ==
  ASSUME NEW m, NEW s \in Seq(DOMAIN m), spent \in [Tasks -> Nat], now \in Nat,
         Known(m), Still(m), s # << >>,
         \A name \in DOMAIN m : name # Head(s) => ~ m[name].initial
  PROVE  LET r == [m EXCEPT ![Head(s)] = Started(@, now)] IN
         /\ DOMAIN r = DOMAIN m
         /\ Known(r)
         /\ Counted(r, s)
<1> DEFINE h == Head(s)
           v == m[h]
           w == Started(v, now)
           r == [m EXCEPT ![h] = w]
<1>1. h \in DOMAIN m /\ v \in TimeVars /\ h \in Tasks /\ spent[h] \in Nat
  BY HeadTailRange, TailFacts DEF Known
<1>2. /\ v.last <= now /\ v.elapsed = spent[h]
      /\ v.initial => spent[h] = 0
      /\ ~ v.initial => spent[h] <= v.last - v.first
  BY <1>1 DEF Still
<1> HIDE DEF h, v
<1>3. v.last \in Nat /\ v.first \in Nat /\ v.initial \in BOOLEAN
  BY <1>1 DEF TimeVars
<1>4. /\ w \in TimeVars
      /\ w.last = v.last /\ w.elapsed = spent[h] /\ w.begin = now /\ ~ w.initial
      /\ w.first = IF v.initial THEN now ELSE v.first
  BY <1>1, <1>2, TimeVarFacts
<1> HIDE DEF w
<1>5. w.elapsed + now - w.begin = spent[h] /\ spent[h] <= now - w.first
  BY <1>1, <1>2, <1>3, <1>4
<1>6. m \in [DOMAIN m -> TimeVars]
  BY DEF Known
<1>7. /\ DOMAIN r = DOMAIN m /\ r \in [DOMAIN m -> TimeVars]
      /\ r[h] = w /\ \A name \in DOMAIN m : name # h => r[name] = m[name]
  BY <1>1, <1>4, <1>6
<1> HIDE DEF r
<1>8. Known(r)
  BY <1>7 DEF Known
<1>9. ASSUME NEW name \in DOMAIN r
      PROVE  /\ r[name].last <= now /\ ~ r[name].initial
             /\ IF s # << >> /\ Head(s) = name
                THEN /\ r[name].elapsed + now - r[name].begin = spent[name]
                     /\ spent[name] <= now - r[name].first
                ELSE /\ r[name].elapsed = spent[name]
                     /\ spent[name] <= r[name].last - r[name].first
  <2>1. CASE name = h
    BY <1>2, <1>4, <1>5, <1>7, <2>1 DEF h
  <2>2. CASE name # h
    <3>1. r[name] = m[name] /\ name \in DOMAIN m /\ Head(s) # name
      BY <1>7, <2>2 DEF h
    <3>2. /\ m[name].last <= now /\ ~ m[name].initial
          /\ m[name].elapsed = spent[name] /\ spent[name] <= m[name].last - m[name].first
      BY <3>1 DEF Still
    <3> QED
      BY <3>1, <3>2
  <2> QED
    BY <2>1, <2>2
<1>10. Counted(r, s)
  BY <1>9 DEF Counted
<1> QED
  BY <1>7, <1>8, <1>10 DEF r, w, v, h

\* A timer is made of its three members: what stopping and starting the
\* innermost task, and entering and leaving one, make of them.
LEMMA Parts ==
  ASSUME NEW m, NEW s, NEW o
  PROVE  /\ MadeOf(m, s, o).tasksmap = m /\ MadeOf(m, s, o).tasks = s
         /\ MadeOf(m, s, o).total = o
         /\ \A x : [MadeOf(m, s, o) EXCEPT !.tasksmap = x] = MadeOf(x, s, o)
         /\ \A x : [MadeOf(m, s, o) EXCEPT !.tasks = x] = MadeOf(m, x, o)
         /\ \A x : [MadeOf(m, s, o) EXCEPT !.total = x] = MadeOf(m, s, x)
BY DEF MadeOf

LEMMA StopTopParts ==
  ASSUME NEW m, NEW s, NEW o, NEW time, s # << >>
  PROVE  StopTop(MadeOf(m, s, o), time) =
           MadeOf([m EXCEPT ![Head(s)] = Stopped(@, time)], s, o)
<1> DEFINE t == MadeOf(m, s, o)
           r == [m EXCEPT ![Head(s)] = Stopped(@, time)]
<1>1. t.tasksmap = m /\ t.tasks = s
  BY Parts
<1>2. [t EXCEPT !.tasksmap = r] = MadeOf(r, s, o)
  <2> HIDE DEF r
  <2> QED
    BY Parts
<1> HIDE DEF t
<1>3. StopTop(t, time) = [t EXCEPT !.tasksmap = r]
  BY <1>1 DEF StopTop
<1> QED
  BY <1>2, <1>3 DEF t

LEMMA StartTopParts ==
  ASSUME NEW m, NEW s, NEW o, NEW time, s # << >>
  PROVE  StartTop(MadeOf(m, s, o), time) =
           MadeOf([m EXCEPT ![Head(s)] = Started(@, time)], s, o)
<1> DEFINE t == MadeOf(m, s, o)
           r == [m EXCEPT ![Head(s)] = Started(@, time)]
<1>1. t.tasksmap = m /\ t.tasks = s
  BY Parts
<1>2. [t EXCEPT !.tasksmap = r] = MadeOf(r, s, o)
  <2> HIDE DEF r
  <2> QED
    BY Parts
<1> HIDE DEF t
<1>3. StartTop(t, time) = [t EXCEPT !.tasksmap = r]
  BY <1>1 DEF StartTop
<1> QED
  BY <1>2, <1>3 DEF t

LEMMA NothingRuns ==
  ASSUME NEW m, NEW o, NEW time
  PROVE  /\ StopTop(MadeOf(m, << >>, o), time) = MadeOf(m, << >>, o)
         /\ StartTop(MadeOf(m, << >>, o), time) = MadeOf(m, << >>, o)
<1>1. MadeOf(m, << >>, o).tasks = << >>
  BY Parts
<1> QED
  BY <1>1 DEF StopTop, StartTop

LEMMA EnteredParts ==
  ASSUME NEW m, NEW s, NEW o, NEW name
  PROVE  Entered(MadeOf(m, s, o), name) =
           MadeOf([n \in DOMAIN m \cup {name} |-> IF n \in DOMAIN m THEN m[n] ELSE TimeVar],
                  << name >> \o s, o)
<1> DEFINE t == MadeOf(m, s, o)
           x == [n \in DOMAIN m \cup {name} |-> IF n \in DOMAIN m THEN m[n] ELSE TimeVar]
           y == << name >> \o s
<1>1. t.tasksmap = m /\ [t EXCEPT !.tasksmap = x] = MadeOf(x, s, o)
  <2> HIDE DEF x
  <2> QED
    BY Parts
<1>2. MadeOf(x, s, o).tasks = s /\ [MadeOf(x, s, o) EXCEPT !.tasks = y] = MadeOf(x, y, o)
  <2> HIDE DEF x, y
  <2> QED
    BY Parts
<1> HIDE DEF t
<1>3. Entered(t, name) = [[t EXCEPT !.tasksmap = x] EXCEPT !.tasks = y]
  BY <1>1, <1>2 DEF Entered
<1> HIDE DEF x, y
<1> QED
  BY <1>1, <1>2, <1>3 DEF t, x, y

\* A task begins: those around it stand still, and it runs.
LEMMA PushTask ==
  ASSUME NEW m, NEW s \in Seq(DOMAIN m), NEW o, spent \in [Tasks -> Nat], now \in Nat,
         Known(m), Counted(m, s), NEW name \in Tasks
  PROVE  \E r : /\ Push(MadeOf(m, s, o), name, now) = MadeOf(r, << name >> \o s, o)
                /\ << name >> \o s \in Seq(DOMAIN r)
                /\ Known(r) /\ Counted(r, << name >> \o s)
<1> DEFINE stopped == IF s = << >> THEN m ELSE [m EXCEPT ![Head(s)] = Stopped(@, now)]
           entered == [n \in DOMAIN stopped \cup {name} |->
                         IF n \in DOMAIN stopped THEN stopped[n] ELSE TimeVar]
           u == << name >> \o s
           started == [entered EXCEPT ![Head(u)] = Started(@, now)]
<1>1. /\ DOMAIN stopped = DOMAIN m /\ Known(stopped) /\ Still(stopped)
      /\ \A n \in DOMAIN stopped : ~ stopped[n].initial
  <2>1. CASE s = << >>
    BY <2>1 DEF Counted, Still
  <2>2. CASE s # << >>
    BY <2>2, StopTask
  <2> QED
    BY <2>1, <2>2
<1> HIDE DEF stopped
<1>2. /\ DOMAIN entered = DOMAIN m \cup {name}
      /\ \A n \in DOMAIN m : entered[n] = stopped[n]
      /\ name \notin DOMAIN m => entered[name] = TimeVar
  BY <1>1
<1> HIDE DEF entered
<1>3. TimeVar \in TimeVars /\ TimeVar.initial /\ TimeVar.last = 0 /\ TimeVar.elapsed = 0
  BY DEF TimeVar, TimeVars
<1>4. Known(entered)
  <2>1. entered \in [DOMAIN entered -> TimeVars]
    <3>1. entered = [n \in DOMAIN entered |-> entered[n]]
      BY DEF entered
    <3>2. ASSUME NEW n \in DOMAIN entered PROVE entered[n] \in TimeVars
      BY <1>1, <1>2, <1>3 DEF Known
    <3> QED
      BY <3>1, <3>2
  <2> QED
    BY <1>1, <1>2, <2>1 DEF Known
<1>5. Still(entered)
  <2>1. ASSUME NEW n \in DOMAIN entered
        PROVE  /\ entered[n].last <= now
               /\ entered[n].elapsed = spent[n]
               /\ entered[n].initial => spent[n] = 0
               /\ ~ entered[n].initial => spent[n] <= entered[n].last - entered[n].first
    <3>1. CASE n \in DOMAIN m
      BY <1>1, <1>2, <3>1 DEF Still
    <3>2. CASE n \notin DOMAIN m
      <4>1. n = name /\ entered[n] = TimeVar
        BY <1>2, <3>2
      <4>2. spent[n] = 0
        BY <3>2, <4>1 DEF Known
      <4> QED
        BY <1>3, <4>1, <4>2
    <3> QED
      BY <3>1, <3>2
  <2> QED
    BY <2>1 DEF Still
<1>6. u \in Seq(DOMAIN entered) /\ u # << >> /\ Head(u) = name
  <2> DEFINE D == DOMAIN entered
  <2>1. name \in D /\ DOMAIN m \subseteq D
    BY <1>2
  <2> HIDE DEF D
  <2>2. s \in Seq(D)
    BY <2>1, LargerAlphabet
  <2>3. << name >> \o s \in Seq(D) /\ << name >> \o s # << >> /\ (<< name >> \o s)[1] = name
    BY <2>1, <2>2, PrependFacts
  <2>4. Head(<< name >> \o s) = (<< name >> \o s)[1]
    OBVIOUS
  <2> QED
    BY <2>3, <2>4 DEF D
<1> HIDE DEF u
<1>7. \A n \in DOMAIN entered : n # Head(u) => ~ entered[n].initial
  BY <1>1, <1>2, <1>6
<1>8. /\ DOMAIN started = DOMAIN entered
      /\ Known(started) /\ Counted(started, u)
  BY <1>4, <1>5, <1>6, <1>7, StartTask
<1>9. Push(MadeOf(m, s, o), name, now) = MadeOf(started, u, o)
  <2>1. StopTop(MadeOf(m, s, o), now) = MadeOf(stopped, s, o)
    <3>1. CASE s = << >>
      BY <3>1, NothingRuns DEF stopped
    <3>2. CASE s # << >>
      BY <3>2, StopTopParts DEF stopped
    <3> QED
      BY <3>1, <3>2
  <2>2. Entered(MadeOf(stopped, s, o), name) = MadeOf(entered, u, o)
    BY EnteredParts DEF entered, u
  <2>3. StartTop(MadeOf(entered, u, o), now) = MadeOf(started, u, o)
    BY <1>6, StartTopParts DEF started
  <2> QED
    BY <2>1, <2>2, <2>3 DEF Push
<1> HIDE DEF started
<1> QED
  BY <1>6, <1>8, <1>9 DEF u

\* A task ends: it stands still, and the one around it runs again.
LEMMA PopTask ==
  ASSUME NEW m, NEW s \in Seq(DOMAIN m), NEW o, spent \in [Tasks -> Nat], now \in Nat,
         Known(m), Counted(m, s), s # << >>
  PROVE  \E r : /\ Pop(MadeOf(m, s, o), now) = MadeOf(r, Tail(s), o)
                /\ Tail(s) \in Seq(DOMAIN r)
                /\ Known(r) /\ Counted(r, Tail(s))
<1> DEFINE stopped == [m EXCEPT ![Head(s)] = Stopped(@, now)]
           u == Tail(s)
           started == [stopped EXCEPT ![Head(u)] = Started(@, now)]
<1>1. /\ DOMAIN stopped = DOMAIN m /\ Known(stopped) /\ Still(stopped)
      /\ \A n \in DOMAIN stopped : ~ stopped[n].initial
  BY StopTask
<1>2. StopTop(MadeOf(m, s, o), now) = MadeOf(stopped, s, o)
  BY StopTopParts DEF stopped
<1> HIDE DEF stopped
<1>3. MadeOf(stopped, s, o).tasks = s /\ [MadeOf(stopped, s, o) EXCEPT !.tasks = u] = MadeOf(stopped, u, o)
  <2> HIDE DEF u
  <2> QED
    BY Parts
<1>4. u \in Seq(DOMAIN stopped)
  BY <1>1, TailFacts
<1>5. Pop(MadeOf(m, s, o), now) = StartTop(MadeOf(stopped, u, o), now)
  <2> DEFINE g == MadeOf(stopped, s, o)
  <2>1. g = StopTop(MadeOf(m, s, o), now) /\ g.tasks = s
    BY <1>2, <1>3
  <2> HIDE DEF g
  <2>2. Pop(MadeOf(m, s, o), now) = StartTop([g EXCEPT !.tasks = Tail(g.tasks)], now)
    BY <2>1 DEF Pop
  <2>3. [g EXCEPT !.tasks = Tail(g.tasks)] = [g EXCEPT !.tasks = u]
    BY <2>1
  <2> QED
    BY <1>3, <2>2, <2>3 DEF g
<1> HIDE DEF u
<1>6. CASE u = << >>
  <2>1. Pop(MadeOf(m, s, o), now) = MadeOf(stopped, u, o)
    BY <1>5, <1>6, NothingRuns
  <2>2. Counted(stopped, u)
    BY <1>1, <1>6 DEF Counted, Still
  <2> QED
    BY <1>1, <1>4, <2>1, <2>2 DEF u
<1>7. CASE u # << >>
  <2>1. /\ DOMAIN started = DOMAIN stopped
        /\ Known(started) /\ Counted(started, u)
    BY <1>1, <1>4, <1>7, StartTask DEF started
  <2>2. Pop(MadeOf(m, s, o), now) = MadeOf(started, u, o)
    BY <1>5, <1>7, StartTopParts DEF started
  <2> HIDE DEF started
  <2> QED
    BY <1>4, <2>1, <2>2 DEF u
<1> QED
  BY <1>6, <1>7

\* What a timer leaves behind when it has one task left.
LEMMA EmptiedOfOne ==
  ASSUME NEW t, Len(t.tasks) = 1, NEW time PROVE Emptied(t, time) = Pop(t, time)
<1> DEFINE At(f, n) == IF n = 0 THEN t ELSE Pop(f[n - 1], time)
           Is(f) == f = [n \in 0..Len(t.tasks) |-> At(f, n)]
           left == CHOOSE f : Is(f)
           g == [n \in 0..1 |-> IF n = 0 THEN t ELSE Pop(t, time)]
<1>1. Is(g)
  <2>1. ASSUME NEW n \in 0..1 PROVE g[n] = At(g, n)
    <3>1. CASE n = 0
      BY <3>1
    <3>2. CASE n = 1
      <4>1. g[n - 1] = t
        BY <3>2
      <4> QED
        BY <3>2, <4>1
    <3> QED
      BY <3>1, <3>2
  <2> HIDE DEF At
  <2>2. g = [n \in 0..1 |-> At(g, n)]
    BY <2>1
  <2> QED
    BY <2>2
<1>2. Is(left)
  <2> HIDE DEF Is
  <2> QED
    BY <1>1
<1>3. Emptied(t, time) = left[1]
  BY DEF Emptied
<1> HIDE DEF left
<1>4. left[1] = At(left, 1) /\ left[0] = At(left, 0)
  <2>1. left = [n \in 0..1 |-> At(left, n)]
    BY <1>2
  <2> HIDE DEF At
  <2> QED
    BY <2>1
<1>5. left[0] = t /\ left[1] = Pop(left[1 - 1], time)
  BY <1>4
<1> QED
  BY <1>3, <1>5

\* main's timer has run since the beginning when the register's is made.
LEMMA TimerInitInv == TimerInit => TimerInv
<1> SUFFICES ASSUME TimerInit PROVE TimerInv
  OBVIOUS
<1>1. /\ timer_ = NewTimer /\ now = 0 /\ progress = "running" /\ completed = FALSE
      /\ spent = [n \in Tasks |-> 0]
      /\ task_timer = [Push(NewTimer, "rest", 0) EXCEPT !.total = Started(@, 0)]
  BY DEF TimerInit
<1>2. timer_.tasksmap = << >> /\ timer_.tasks = << >>
      /\ timer_ = MadeOf(timer_.tasksmap, timer_.tasks, timer_.total)
  BY <1>1, Parts DEF NewTimer
<1>3. DOMAIN timer_.tasksmap = {} /\ timer_.tasks \in Seq({})
      /\ timer_.tasksmap \in [{} -> TimeVars]
  BY <1>2
<1>4. RegisterTimes
  <2>1. \A name \in Tasks : spent[name] = 0
    BY <1>1
  <2> QED
    BY <1>3, <2>1 DEF RegisterTimes, Known, Counted
<1>5. Started(TimeVar, 0) = Running
  BY DEF Running
<1> DEFINE rest == [n \in {"rest"} |-> Running]
<1>6. Push(NewTimer, "rest", 0) = MadeOf(rest, << "rest" >>, TimeVar)
  <2> DEFINE entered == [n \in DOMAIN << >> \cup {"rest"} |->
                           IF n \in DOMAIN << >> THEN << >>[n] ELSE TimeVar]
             u == << "rest" >> \o << >>
  <2>1. StopTop(NewTimer, 0) = MadeOf(<< >>, << >>, TimeVar)
    BY NothingRuns DEF NewTimer
  <2>2. Entered(MadeOf(<< >>, << >>, TimeVar), "rest") = MadeOf(entered, u, TimeVar)
    BY EnteredParts DEF entered, u
  <2>3. u = << "rest" >> /\ entered = [n \in {"rest"} |-> TimeVar]
    <3>1. << "rest" >> \o << >> = << "rest" >>
      OBVIOUS
    <3>2. DOMAIN << >> = {}
      OBVIOUS
    <3> QED
      BY <3>1, <3>2
  <2> HIDE DEF entered, u
  <2>4. StartTop(MadeOf(entered, << "rest" >>, TimeVar), 0) =
          MadeOf([entered EXCEPT ![Head(<< "rest" >>)] = Started(@, 0)], << "rest" >>, TimeVar)
    <3>1. << "rest" >> # << >>
      OBVIOUS
    <3> QED
      BY <3>1, StartTopParts
  <2>5. [entered EXCEPT ![Head(<< "rest" >>)] = Started(@, 0)] = rest
    <3>1. Head(<< "rest" >>) = "rest" /\ entered["rest"] = TimeVar
      BY <2>3
    <3> QED
      BY <1>5, <2>3, <3>1
  <2> QED
    BY <2>1, <2>2, <2>3, <2>4, <2>5 DEF Push
<1>7. task_timer = MadeOf(rest, << "rest" >>, Running)
  <2> HIDE DEF rest
  <2> DEFINE g == MadeOf(rest, << "rest" >>, TimeVar)
  <2>1. g.total = TimeVar /\ [g EXCEPT !.total = Running] = MadeOf(rest, << "rest" >>, Running)
    BY Parts
  <2>2. task_timer = [g EXCEPT !.total = Started(g.total, 0)]
    BY <1>1, <1>6
  <2> HIDE DEF g
  <2> QED
    BY <1>5, <2>1, <2>2
<1>8. /\ task_timer.tasks = << "rest" >> /\ task_timer.total = Running /\ task_timer.tasksmap = rest
      /\ task_timer = MadeOf(task_timer.tasksmap, task_timer.tasks, task_timer.total)
  BY <1>7, Parts
<1>9. MainTimes
  BY <1>1, <1>8 DEF MainTimes
<1> QED
  BY <1>1, <1>2, <1>4, <1>8, <1>9 DEF TimerInv, ReportAddsUp

\* What holds while the register executes.
LEMMA WhileRunning ==
  ASSUME TimerInv, progress = "running"
  PROVE  /\ now \in Nat /\ spent \in [Tasks -> Nat] /\ completed = FALSE
         /\ RegisterTimes /\ MainTimes
         /\ timer_ = MadeOf(timer_.tasksmap, timer_.tasks, timer_.total)
         /\ task_timer = MadeOf(task_timer.tasksmap, task_timer.tasks, task_timer.total)
BY DEF TimerInv

\* Neither beginning a task nor ending one concerns main's timer.
LEMMA RegisterStepInv ==
  ASSUME TimerInv, progress = "running", RegisterTimes',
         timer_' = MadeOf(timer_'.tasksmap, timer_'.tasks, timer_'.total),
         UNCHANGED << task_timer, now, progress, spent, completed >>
  PROVE  TimerInv'
<1>1. /\ now \in Nat /\ spent \in [Tasks -> Nat] /\ completed = FALSE /\ MainTimes
      /\ task_timer = MadeOf(task_timer.tasksmap, task_timer.tasks, task_timer.total)
  BY WhileRunning
<1>2. MainTimes'
  BY <1>1 DEF MainTimes
<1> QED
  BY <1>1, <1>2 DEF TimerInv, ReportAddsUp

LEMMA BeginTaskInv ==
  ASSUME TimerInv, NEW name \in Tasks, BeginTask(name) PROVE TimerInv'
<1> DEFINE m == timer_.tasksmap
           s == timer_.tasks
           o == timer_.total
<1>1. /\ progress = "running" /\ timer_' = Push(timer_, name, now)
      /\ UNCHANGED << task_timer, now, progress, spent, completed >>
  BY DEF BeginTask
<1>2. /\ now \in Nat /\ spent \in [Tasks -> Nat] /\ timer_ = MadeOf(m, s, o)
      /\ s \in Seq(DOMAIN m) /\ Known(m) /\ Counted(m, s)
  BY <1>1, WhileRunning DEF RegisterTimes
<1> DEFINE u == << name >> \o s
<1>3. PICK r : /\ Push(MadeOf(m, s, o), name, now) = MadeOf(r, u, o)
               /\ u \in Seq(DOMAIN r) /\ Known(r) /\ Counted(r, u)
  <2> HIDE DEF m, s, o
  <2> QED
    BY <1>2, PushTask
<1> HIDE DEF u
<1>4. timer_' = MadeOf(r, u, o)
  BY <1>1, <1>2, <1>3
<1>5. timer_'.tasksmap = r /\ timer_'.tasks = u /\ timer_'.total = o
  BY <1>4, Parts
<1>6. RegisterTimes'
  <2>1. Known(timer_.tasksmap)'
    BY <1>1, <1>3, <1>5 DEF Known
  <2>2. Counted(timer_.tasksmap, timer_.tasks)'
    BY <1>1, <1>3, <1>5 DEF Counted
  <2> QED
    BY <1>3, <1>5, <2>1, <2>2 DEF RegisterTimes
<1> QED
  BY <1>1, <1>4, <1>5, <1>6, RegisterStepInv

LEMMA EndTaskInv ==
  ASSUME TimerInv, EndTask PROVE TimerInv'
<1> DEFINE m == timer_.tasksmap
           s == timer_.tasks
           o == timer_.total
<1>1. /\ progress = "running" /\ s # << >> /\ timer_' = Pop(timer_, now)
      /\ UNCHANGED << task_timer, now, progress, spent, completed >>
  BY DEF EndTask
<1>2. /\ now \in Nat /\ spent \in [Tasks -> Nat] /\ timer_ = MadeOf(m, s, o)
      /\ s \in Seq(DOMAIN m) /\ Known(m) /\ Counted(m, s)
  BY <1>1, WhileRunning DEF RegisterTimes
<1> DEFINE u == Tail(s)
<1>3. PICK r : /\ Pop(MadeOf(m, s, o), now) = MadeOf(r, u, o)
               /\ u \in Seq(DOMAIN r) /\ Known(r) /\ Counted(r, u)
  <2> HIDE DEF m, s, o
  <2> QED
    BY <1>1, <1>2, PopTask
<1> HIDE DEF u
<1>4. timer_' = MadeOf(r, u, o)
  BY <1>1, <1>2, <1>3
<1>5. timer_'.tasksmap = r /\ timer_'.tasks = u /\ timer_'.total = o
  BY <1>4, Parts
<1>6. RegisterTimes'
  <2>1. Known(timer_.tasksmap)'
    BY <1>1, <1>3, <1>5 DEF Known
  <2>2. Counted(timer_.tasksmap, timer_.tasks)'
    BY <1>1, <1>3, <1>5 DEF Counted
  <2> QED
    BY <1>3, <1>5, <2>1, <2>2 DEF RegisterTimes
<1> QED
  BY <1>1, <1>4, <1>5, <1>6, RegisterStepInv

\* The clock ticks for the innermost task alone.
LEMMA TickInv ==
  ASSUME TimerInv, Tick PROVE TimerInv'
<1> DEFINE m == timer_.tasksmap
           s == timer_.tasks
<1>1. /\ now \in Nat /\ spent \in [Tasks -> Nat] /\ completed \in BOOLEAN
      /\ progress # "reported" /\ now' = now + 1
      /\ UNCHANGED << task_timer, timer_, progress, completed >>
      /\ completed => s = << >> /\ progress = "executed"
      /\ MainTimes
  BY DEF TimerInv, Tick
<1>2. CASE progress = "running" /\ s # << >>
  <2> DEFINE h == Head(s)
  <2>1. s \in Seq(DOMAIN m) /\ Known(m) /\ Counted(m, s)
    BY <1>2, WhileRunning DEF RegisterTimes
  <2> HIDE DEF m, s
  <2>2. h \in DOMAIN m /\ h \in Tasks
    BY <1>2, <2>1, TailFacts DEF Known
  <2>3. spent' = [spent EXCEPT ![h] = @ + 1]
    BY <1>2 DEF Tick, s
  <2> HIDE DEF h
  <2>4. /\ spent' \in [Tasks -> Nat] /\ spent'[h] = spent[h] + 1
        /\ \A name \in Tasks : name # h => spent'[name] = spent[name]
    BY <1>1, <2>2, <2>3
  <2>5. Known(timer_.tasksmap)'
    <3>1. \A name \in Tasks \ DOMAIN m : spent'[name] = 0
      BY <2>1, <2>2, <2>4 DEF Known
    <3> QED
      BY <1>1, <2>1, <3>1 DEF Known, m
  <2>6. Counted(timer_.tasksmap, timer_.tasks)'
    <3>1. ASSUME NEW name \in DOMAIN m
          PROVE  /\ m[name].last <= now + 1 /\ ~ m[name].initial
                 /\ IF s # << >> /\ Head(s) = name
                    THEN /\ m[name].elapsed + (now + 1) - m[name].begin = spent'[name]
                         /\ spent'[name] <= (now + 1) - m[name].first
                    ELSE /\ m[name].elapsed = spent'[name]
                         /\ spent'[name] <= m[name].last - m[name].first
      <4>1. /\ m[name] \in TimeVars /\ name \in Tasks /\ spent[name] \in Nat
        BY <1>1, <2>1 DEF Known
      <4>2. /\ m[name].begin \in Nat /\ m[name].elapsed \in Nat /\ m[name].first \in Nat
            /\ m[name].last \in Nat
        BY <4>1 DEF TimeVars
      <4>3. m[name].last <= now /\ ~ m[name].initial
        BY <2>1 DEF Counted
      <4>4. CASE name = h
        <5>1. /\ m[name].elapsed + now - m[name].begin = spent[name]
              /\ spent[name] <= now - m[name].first
          BY <1>2, <2>1, <4>4 DEF Counted, h
        <5>2. m[name].last <= now + 1
          BY <1>1, <4>2, <4>3
        <5>3. spent'[name] = spent[name] + 1
          BY <2>4, <4>4
        <5>4. /\ m[name].elapsed + (now + 1) - m[name].begin = spent'[name]
              /\ spent'[name] <= (now + 1) - m[name].first
          <6> DEFINE b == m[name].begin
                     e == m[name].elapsed
                     f == m[name].first
                     x == spent[name]
                     y == spent'[name]
          <6>1. /\ now \in Nat /\ b \in Nat /\ e \in Nat /\ f \in Nat /\ x \in Nat /\ y = x + 1
                /\ e + now - b = x /\ x <= now - f
            BY <1>1, <4>1, <4>2, <5>1, <5>3
          <6> HIDE DEF b, e, f, x, y
          <6>2. e + (now + 1) - b = y /\ y <= (now + 1) - f
            BY <6>1
          <6> QED
            BY <6>2 DEF b, e, f, y
        <5> QED
          BY <1>2, <4>3, <4>4, <5>2, <5>4 DEF h
      <4>5. CASE name # h
        <5>1. m[name].elapsed = spent[name] /\ spent[name] <= m[name].last - m[name].first
          BY <2>1, <4>5 DEF Counted, h
        <5>2. m[name].last <= now + 1 /\ spent'[name] = spent[name]
          BY <1>1, <2>4, <4>1, <4>2, <4>3, <4>5
        <5> QED
          BY <4>3, <4>5, <5>1, <5>2 DEF h
      <4> QED
        BY <4>4, <4>5
    <3> QED
      BY <1>1, <3>1 DEF Counted, m, s
  <2>7. RegisterTimes'
    BY <1>1, <2>1, <2>5, <2>6 DEF RegisterTimes, m, s
  <2>8. MainTimes'
    BY <1>1 DEF MainTimes
  <2> QED
    BY <1>1, <1>2, <2>4, <2>7, <2>8 DEF TimerInv, ReportAddsUp
<1>3. CASE ~ (progress = "running" /\ s # << >>)
  <2>1. spent' = spent
    BY <1>3 DEF Tick
  <2>2. ASSUME progress = "running" \/ completed PROVE RegisterTimes'
    <3>1. s = << >> /\ RegisterTimes
      BY <1>1, <1>3, <2>2 DEF TimerInv
    <3>2. Known(timer_.tasksmap)'
      BY <1>1, <2>1, <3>1 DEF RegisterTimes, Known
    <3>3. Counted(timer_.tasksmap, timer_.tasks)'
      <4>1. ASSUME NEW name \in DOMAIN m
            PROVE  /\ m[name].last <= now + 1 /\ ~ m[name].initial
                   /\ m[name].elapsed = spent[name]
                   /\ spent[name] <= m[name].last - m[name].first
        <5>1. m[name].last \in Nat
          BY <3>1 DEF RegisterTimes, Known, TimeVars
        <5>2. /\ m[name].last <= now /\ ~ m[name].initial
              /\ m[name].elapsed = spent[name]
              /\ spent[name] <= m[name].last - m[name].first
          BY <3>1 DEF RegisterTimes, Counted
        <5> QED
          BY <1>1, <5>1, <5>2
      <4> QED
        BY <1>1, <2>1, <3>1, <4>1 DEF Counted
    <3> QED
      BY <1>1, <3>1, <3>2, <3>3 DEF RegisterTimes
  <2>3. MainTimes'
    BY <1>1 DEF MainTimes
  <2> QED
    BY <1>1, <2>1, <2>2, <2>3 DEF TimerInv, ReportAddsUp
<1> QED
  BY <1>2, <1>3

\* main's timer takes over the times of the register's, and "rest" with them.
LEMMA ImportTimesInv ==
  ASSUME TimerInv, ImportTimes PROVE TimerInv'
<1> DEFINE m == task_timer.tasksmap
           d == timer_.tasksmap
           all == [n \in DOMAIN m \cup DOMAIN d |-> IF n \in DOMAIN m THEN m[n] ELSE d[n]]
<1>1. /\ progress = "running" /\ timer_.tasks = << >>
      /\ task_timer' = Merged(task_timer, timer_)
      /\ progress' = "executed" /\ completed' = TRUE
      /\ UNCHANGED << timer_, now, spent >>
  BY DEF ImportTimes
<1>2. /\ now \in Nat /\ spent \in [Tasks -> Nat] /\ completed = FALSE /\ RegisterTimes
      /\ timer_ = MadeOf(timer_.tasksmap, timer_.tasks, timer_.total)
      /\ task_timer = MadeOf(m, task_timer.tasks, task_timer.total)
      /\ task_timer.tasks = << "rest" >> /\ task_timer.total = Running
      /\ m = [n \in {"rest"} |-> Running]
  BY <1>1, WhileRunning DEF MainTimes
<1>3. task_timer' = MadeOf(all, << "rest" >>, Running)
  <2>1. task_timer' = [task_timer EXCEPT !.tasksmap = all]
    BY <1>1 DEF Merged
  <2>2. task_timer = MadeOf(m, << "rest" >>, Running)
    BY <1>2
  <2> HIDE DEF all, m
  <2>3. [MadeOf(m, << "rest" >>, Running) EXCEPT !.tasksmap = all] =
          MadeOf(all, << "rest" >>, Running)
    BY Parts
  <2> QED
    BY <2>1, <2>2, <2>3
<1>4. all = [n \in {"rest"} \cup DOMAIN d |-> IF n = "rest" THEN Running ELSE d[n]]
  <2>1. DOMAIN m = {"rest"} /\ m["rest"] = Running
    BY <1>2
  <2> HIDE DEF m, d
  <2>2. \A n \in {"rest"} \cup DOMAIN d :
          (IF n \in DOMAIN m THEN m[n] ELSE d[n]) = IF n = "rest" THEN Running ELSE d[n]
    BY <2>1
  <2> QED
    BY <2>1, <2>2
<1> HIDE DEF all
<1>5. /\ task_timer'.tasksmap = all /\ task_timer'.tasks = << "rest" >>
      /\ task_timer'.total = Running
  BY <1>3, Parts
<1>6. MainTimes'
  BY <1>1, <1>4, <1>5 DEF MainTimes
<1>7. RegisterTimes'
  BY <1>1, <1>2 DEF RegisterTimes, Known, Counted
<1> QED
  BY <1>1, <1>2, <1>3, <1>5, <1>6, <1>7 DEF TimerInv, ReportAddsUp

\* After an error exit the times of the register are not looked at again.
LEMMA LeaveMainInv ==
  ASSUME TimerInv, LeaveMain PROVE TimerInv'
<1>1. /\ progress = "running" /\ progress' = "left"
      /\ UNCHANGED << task_timer, timer_, now, spent, completed >>
  BY DEF LeaveMain
<1>2. /\ now \in Nat /\ spent \in [Tasks -> Nat] /\ completed = FALSE /\ MainTimes
      /\ timer_ = MadeOf(timer_.tasksmap, timer_.tasks, timer_.total)
      /\ task_timer = MadeOf(task_timer.tasksmap, task_timer.tasks, task_timer.total)
  BY <1>1, WhileRunning
<1>3. MainTimes'
  BY <1>1, <1>2 DEF MainTimes
<1> QED
  BY <1>1, <1>2, <1>3 DEF TimerInv, ReportAddsUp

\* The destruction of main's timer stops "rest" and the total.
LEMMA ReportTimesInv ==
  ASSUME TimerInv, ReportTimes PROVE TimerInv'
<1> DEFINE d == IF completed THEN DOMAIN timer_.tasksmap ELSE {}
           m == task_timer.tasksmap
           w == Stopped(Running, now)
           r == [m EXCEPT !["rest"] = w]
<1>1. /\ progress \in {"executed", "left"} /\ progress' = "reported"
      /\ task_timer' = Destroyed(task_timer, now)
      /\ UNCHANGED << timer_, now, spent, completed >>
  BY DEF ReportTimes
<1>2. /\ now \in Nat /\ spent \in [Tasks -> Nat] /\ completed \in BOOLEAN
      /\ timer_ = MadeOf(timer_.tasksmap, timer_.tasks, timer_.total)
      /\ task_timer = MadeOf(m, task_timer.tasks, task_timer.total)
      /\ MainTimes /\ task_timer.tasks = << "rest" >> /\ task_timer.total = Running
      /\ completed => timer_.tasks = << >> /\ RegisterTimes
  BY <1>1 DEF TimerInv, MainTimes
<1>3. /\ DOMAIN m = {"rest"} \cup d /\ m["rest"] = Running
      /\ \A n \in d : n # "rest" => m[n] = timer_.tasksmap[n]
  BY <1>2 DEF MainTimes
<1>4. /\ d \subseteq Tasks /\ "rest" \notin d
      /\ \A n \in Tasks : completed /\ spent[n] # 0 => n \in d
      /\ \A n \in d : /\ completed
                      /\ timer_.tasksmap[n] \in TimeVars
                      /\ timer_.tasksmap[n].elapsed = spent[n]
                      /\ spent[n] <= timer_.tasksmap[n].last - timer_.tasksmap[n].first
  BY <1>2, TimerAssumption DEF RegisterTimes, Known, Counted
<1>5. w \in TimeVars /\ w.elapsed = now /\ w.last = now /\ w.first = 0
  <2>1. TimeVar \in TimeVars /\ TimeVar.initial /\ TimeVar.elapsed = 0
    BY DEF TimeVar, TimeVars
  <2>2. Running \in TimeVars /\ Running.begin = 0 /\ Running.elapsed = 0 /\ Running.first = 0
    BY <2>1, TimeVarFacts DEF Running
  <2>3. Running.elapsed + now - Running.begin = now
    BY <1>2, <2>2
  <2> QED
    <3>1. now \in Nat /\ Running.elapsed + now - Running.begin \in Nat
      BY <1>2, <2>3
    <3> HIDE DEF w
    <3>2. /\ w \in TimeVars /\ w.last = now
          /\ w.elapsed = Running.elapsed + now - Running.begin /\ w.first = Running.first
      <4> DEFINE v == Running
      <4>1. v \in TimeVars /\ v.elapsed + now - v.begin \in Nat
        BY <2>2, <3>1
      <4> HIDE DEF v
      <4>2. /\ Stopped(v, now) \in TimeVars /\ Stopped(v, now).last = now
            /\ Stopped(v, now).elapsed = v.elapsed + now - v.begin
            /\ Stopped(v, now).first = v.first
        BY <3>1, <4>1, TimeVarFacts
      <4> QED
        BY <4>2 DEF v, w
    <3> QED
      BY <2>2, <2>3, <3>2
<1>6. task_timer' = MadeOf(r, << >>, w)
  <2> DEFINE s == << "rest" >>
  <2>1. s # << >> /\ Len(s) = 1 /\ Head(s) = "rest" /\ Tail(s) = << >>
    OBVIOUS
  <2>2. task_timer = MadeOf(m, s, Running)
    BY <1>2
  <2>3. StopTop(MadeOf(m, s, Running), now) =
          MadeOf([m EXCEPT ![Head(s)] = Stopped(@, now)], s, Running)
    <3> HIDE DEF m, s
    <3> QED
      BY <2>1, StopTopParts
  <2>4. [m EXCEPT ![Head(s)] = Stopped(@, now)] = r
    BY <1>3, <2>1
  <2> HIDE DEF r, m, s
  <2> DEFINE g == MadeOf(r, s, Running)
  <2>5. g.tasks = s /\ [g EXCEPT !.tasks = << >>] = MadeOf(r, << >>, Running)
    BY Parts
  <2>6. StopTop(task_timer, now) = g
    BY <2>2, <2>3, <2>4
  <2> HIDE DEF g
  <2>7. Pop(task_timer, now) = StartTop([g EXCEPT !.tasks = Tail(g.tasks)], now)
    BY <2>6 DEF Pop
  <2>8. Pop(task_timer, now) = MadeOf(r, << >>, Running)
    <3>1. [g EXCEPT !.tasks = Tail(g.tasks)] = [g EXCEPT !.tasks = << >>]
      BY <2>1, <2>5
    <3> QED
      BY <2>5, <2>7, <3>1, NothingRuns
  <2>9. task_timer.tasks = s
    BY <1>2 DEF s
  <2>10. Emptied(task_timer, now) = Pop(task_timer, now)
    BY <2>1, <2>9, EmptiedOfOne
  <2> DEFINE f == MadeOf(r, << >>, Running)
  <2>11. f.total = Running /\ [f EXCEPT !.total = w] = MadeOf(r, << >>, w)
    <3> HIDE DEF w
    <3> QED
      BY Parts
  <2>12. Emptied(task_timer, now) = f
    BY <2>8, <2>10
  <2> HIDE DEF f
  <2>13. Destroyed(task_timer, now) = [f EXCEPT !.total = Stopped(f.total, now)]
    BY <2>1, <2>9, <2>12 DEF Destroyed
  <2> QED
    BY <1>1, <2>11, <2>13
<1>7. /\ task_timer'.tasksmap = r /\ task_timer'.tasks = << >> /\ task_timer'.total = w
  BY <1>6, Parts
<1>8. /\ DOMAIN r = {"rest"} \cup d /\ r["rest"] = w
      /\ \A n \in d : r[n] = timer_.tasksmap[n]
  <2> HIDE DEF w, m
  <2> QED
    BY <1>3, <1>4
<1> HIDE DEF d, m, w, r
<1> DEFINE listed == {n \in Tasks : completed /\ spent[n] # 0} \cup {n \in {"rest"} : now # 0}
           ran == {n \in DOMAIN r : r[n].elapsed # 0}
<1>9. ASSUME NEW n \in DOMAIN r
      PROVE  /\ r[n].elapsed = IF n = "rest" THEN now ELSE spent[n]
             /\ n = "rest" \/ (n \in Tasks /\ completed)
             /\ r[n].elapsed \in Nat /\ r[n].elapsed <= r[n].last - r[n].first
  <2>1. CASE n = "rest"
    BY <1>2, <1>5, <1>8, <2>1
  <2>2. CASE n \in d
    <3>1. r[n] = timer_.tasksmap[n] /\ n # "rest" /\ n \in Tasks /\ completed
      BY <1>4, <1>8, <2>2
    <3>2. r[n].elapsed = spent[n] /\ spent[n] <= r[n].last - r[n].first /\ spent[n] \in Nat
      BY <1>2, <1>4, <2>2, <3>1
    <3> QED
      BY <3>1, <3>2
  <2> QED
    BY <1>8, <2>1, <2>2
<1>10. ran = listed
  <2>1. ASSUME NEW n \in ran PROVE n \in listed
    BY <1>9, TimerAssumption
  <2>2. ASSUME NEW n \in listed PROVE n \in ran
    <3>1. n \in DOMAIN r
      BY <1>4, <1>8
    <3> QED
      BY <1>9, <3>1, TimerAssumption
  <2> QED
    BY <2>1, <2>2
<1>11. ReportAddsUp'
  <2>1. ExecutionTimes(task_timer)' = [n \in ran |-> r[n].elapsed]
    BY <1>7 DEF ExecutionTimes
  <2>2. \A n \in ran : r[n].elapsed = IF n = "rest" THEN now ELSE spent[n]
    BY <1>9
  <2>3. ExecutionTimes(task_timer)' = [n \in listed |-> IF n = "rest" THEN now ELSE spent[n]]
    <3> HIDE DEF ran, listed
    <3> QED
      BY <1>10, <2>1, <2>2
  <2>4. ASSUME NEW n \in listed
        PROVE  /\ n \in DOMAIN CumulatedTimes(task_timer)'
               /\ CumulatedTimes(task_timer)'[n] >= task_timer'.tasksmap[n].elapsed
    <3>1. n \in ran
      BY <1>10
    <3>2. n \in DOMAIN r /\ r[n].elapsed # 0
      BY <3>1
    <3>3. r[n].elapsed \in Nat /\ r[n].elapsed <= r[n].last - r[n].first
      BY <1>9, <3>2
    <3>4. r[n] \in TimeVars
      BY <1>4, <1>5, <1>8, <3>2
    <3>5. r[n].last - r[n].first # 0 /\ r[n].last - r[n].first >= r[n].elapsed
      BY <3>2, <3>3, <3>4 DEF TimeVars
    <3>6. CumulatedTimes(task_timer)' =
            [k \in {j \in DOMAIN r : r[j].last - r[j].first # 0} |-> r[k].last - r[k].first]
      BY <1>7 DEF CumulatedTimes
    <3>7. n \in {j \in DOMAIN r : r[j].last - r[j].first # 0}
      BY <3>2, <3>5
    <3> QED
      BY <1>7, <3>5, <3>6, <3>7
  <2>5. task_timer'.total.elapsed = now
    BY <1>5, <1>7
  <2> QED
    BY <1>1, <2>3, <2>4, <2>5 DEF ReportAddsUp
<1>12. RegisterTimes <=> RegisterTimes'
  BY <1>1 DEF RegisterTimes, Known, Counted
<1> HIDE DEF w
<1>13. /\ now' \in Nat /\ spent' \in [Tasks -> Nat] /\ completed' \in BOOLEAN
       /\ timer_' = MadeOf(timer_.tasksmap, timer_.tasks, timer_.total)'
  BY <1>1, <1>2
<1>14. task_timer' = MadeOf(task_timer.tasksmap, task_timer.tasks, task_timer.total)'
  BY <1>6, <1>7
<1>15. /\ completed' => timer_'.tasks = << >> /\ RegisterTimes'
       /\ progress' = "reported"
  BY <1>1, <1>2, <1>12
<1> QED
  BY <1>11, <1>13, <1>14, <1>15 DEF TimerInv

\* However long the tasks take and however deep they nest, every tick is
\* counted once, and the report adds up (timer.cc, tc.cc).
THEOREM TimesCountOnce == TimerSpec => []TimesAddUp
<1>1. TimerInv /\ [TimerNext]_timerVars => TimerInv'
  <2> SUFFICES ASSUME TimerInv, [TimerNext]_timerVars PROVE TimerInv'
    OBVIOUS
  <2>1. ASSUME NEW name \in Tasks, BeginTask(name) PROVE TimerInv'
    BY <2>1, BeginTaskInv
  <2>2. CASE Tick
    BY <2>2, TickInv
  <2>3. CASE EndTask
    BY <2>3, EndTaskInv
  <2>4. CASE ImportTimes
    BY <2>4, ImportTimesInv
  <2>5. CASE LeaveMain
    BY <2>5, LeaveMainInv
  <2>6. CASE ReportTimes
    BY <2>6, ReportTimesInv
  <2>7. CASE UNCHANGED timerVars
    <3>1. UNCHANGED << task_timer, timer_, now, progress, spent, completed >>
      BY <2>7 DEF timerVars
    <3>2. RegisterTimes => RegisterTimes'
      BY <3>1 DEF RegisterTimes, Known, Counted
    <3>3. MainTimes => MainTimes'
      BY <3>1 DEF MainTimes
    <3>4. ReportAddsUp => ReportAddsUp'
      BY <3>1 DEF ReportAddsUp, ExecutionTimes, CumulatedTimes
    <3> QED
      BY <3>1, <3>2, <3>3, <3>4 DEF TimerInv
  <2> QED
    BY <2>1, <2>2, <2>3, <2>4, <2>5, <2>6, <2>7 DEF TimerNext
<1>2. TimerInv => TimesAddUp
  <2> SUFFICES ASSUME TimerInv, progress = "running" \/ completed PROVE TicksCountOnce
    BY DEF TimesAddUp, TicksCountOnce, TimerInv
  <2>1. RegisterTimes
    BY DEF TimerInv
  <2> QED
    BY <2>1 DEF RegisterTimes, Counted, TicksCountOnce, Innermost
<1> QED
  BY <1>1, <1>2, TimerInitInv, PTL DEF TimerSpec

-----------------------------------------------------------------------------
(* The strings of the runtime.                                             *)

\* The remainder of a number that is not far from the divisor.
LEMMA ModFacts ==
  ASSUME NEW a \in Int, NEW b \in Nat \ {0}
  PROVE  /\ 0 <= a /\ a < b => a % b = a
         /\ - b <= a /\ a < 0 => a % b = a + b
         /\ b <= a /\ a < 2 * b => a % b = a - b
<1>1. a = b * (a \div b) + (a % b)
  OBVIOUS
<1>2. a % b \in 0 .. b - 1 /\ a \div b \in Int
  OBVIOUS
<1> QED
  BY <1>1, <1>2

\* A number that its type holds is kept, one above comes back from below.
LEMMA SignedFacts ==
  ASSUME NEW max \in Nat, NEW i \in Int
  PROVE  /\ - max - 1 <= i /\ i <= max => Signed(i, max) = i
         /\ max < i /\ i <= 3 * max + 2 => Signed(i, max) = i - (2 * max + 2)
<1> DEFINE a == i + max + 1
           b == 2 * max + 2
<1>1. a \in Int /\ b \in Nat \ {0}
  OBVIOUS
<1>2. Signed(i, max) = (a % b) - (max + 1)
  BY DEF Signed
<1> HIDE DEF a, b
<1>3. /\ 0 <= a /\ a < b => a % b = a
      /\ b <= a /\ a < 2 * b => a % b = a - b
  BY <1>1, ModFacts
<1> USE DEF a, b
<1>4. CASE - max - 1 <= i /\ i <= max
  BY <1>2, <1>3, <1>4
<1>5. CASE max < i /\ i <= 3 * max + 2
  BY <1>2, <1>3, <1>5
<1> QED
  BY <1>4, <1>5

\* A byte as a char, and back.
LEMMA CharFacts ==
  ASSUME NEW i \in 0 .. Bytes - 1
  PROVE  /\ Char(i) = IF i <= MaxChar THEN i ELSE i - Bytes
         /\ Char(i) \in - MaxChar - 1 .. MaxChar
         /\ Unsigned(Char(i)) = i
<1> USE RuntimeAssumption
<1>1. Char(i) = IF i <= MaxChar THEN i ELSE i - Bytes
  BY SignedFacts DEF Char, Bytes
<1>2. Char(i) \in - MaxChar - 1 .. MaxChar /\ Bytes \in Nat \ {0}
  BY <1>1 DEF Bytes
<1>3. Unsigned(Char(i)) = Char(i) % Bytes
  BY DEF Unsigned
<1>4. /\ 0 <= Char(i) /\ Char(i) < Bytes => Char(i) % Bytes = Char(i)
      /\ - Bytes <= Char(i) /\ Char(i) < 0 => Char(i) % Bytes = Char(i) + Bytes
  BY <1>2, ModFacts
<1> QED
  BY <1>1, <1>2, <1>3, <1>4 DEF Bytes

\* The bounds of a substring are checked as numbers, though they are ints.
LEMMA BoundsAreChecked ==
  ASSUME NEW len \in 0 .. MaxInt, NEW first \in Ints, NEW n \in Ints
  PROVE  InBounds(len, first, n) <=> 0 <= first /\ 0 <= n /\ first + n <= len
<1> USE RuntimeAssumption
<1> SUFFICES ASSUME 0 <= first, 0 <= n
             PROVE  SizeT(Signed(first + n, MaxInt)) <= len <=> first + n <= len
  BY DEF InBounds
<1>1. first \in 0 .. MaxInt /\ n \in 0 .. MaxInt
  BY DEF Ints
<1> DEFINE sum == Signed(first + n, MaxInt)
           all == (2 * MaxInt + 2) * (2 * MaxInt + 2)
<1>2. sum = IF first + n <= MaxInt THEN first + n ELSE first + n - (2 * MaxInt + 2)
  BY <1>1, SignedFacts
<1>3. all \in Nat \ {0} /\ all >= 4 * MaxInt + 4
  <2>1. MaxInt * MaxInt \in Nat
    OBVIOUS
  <2>2. all = 4 * (MaxInt * MaxInt) + 8 * MaxInt + 4
    OBVIOUS
  <2> QED
    BY <2>1, <2>2
<1>4. SizeT(sum) = sum % all
  BY DEF SizeT
<1> HIDE DEF all
<1>5. sum \in Int /\ - all <= sum /\ sum < all
  BY <1>1, <1>2, <1>3
<1> HIDE DEF sum
<1>6. /\ 0 <= sum => sum % all = sum
      /\ sum < 0 => sum % all = sum + all
  BY <1>3, <1>5, ModFacts
<1>7. SizeT(sum) <= len <=> first + n <= len
  <2>1. CASE first + n <= MaxInt
    BY <1>1, <1>2, <1>4, <1>6, <2>1
  <2>2. CASE first + n > MaxInt
    <3>1. sum < 0 /\ sum + all > len
      BY <1>1, <1>2, <1>3, <2>2
    <3> QED
      BY <1>1, <1>3, <1>4, <1>5, <1>6, <2>2, <3>1
  <2>3. first + n <= MaxInt \/ first + n > MaxInt
    BY <1>1
  <2> QED
    BY <2>1, <2>2, <2>3
<1> QED
  BY <1>7 DEF sum

\* The texts are sequences of bytes that are not zero.
LEMMA TextFacts ==
  ASSUME NEW t \in Texts
  PROVE  /\ t \in Seq(1 .. Bytes - 1)
         /\ Len(t) \in 0 .. MaxString /\ Len(t) \in 0 .. MaxInt
         /\ \A i \in 1 .. Len(t) : t[i] \in 1 .. Bytes - 1
         /\ t = << >> <=> Len(t) = 0
<1>1. PICK n \in 0 .. MaxString : t \in [1 .. n -> 1 .. Bytes - 1]
  BY DEF Texts
<1>2. n \in Nat
  BY RuntimeAssumption
<1> DEFINE S == 1 .. Bytes - 1
<1>3. t \in Seq(S) /\ Len(t) = n
  <2>1. t \in [1 .. n -> S]
    BY <1>1
  <2> HIDE DEF S
  <2> QED
    BY <1>2, <2>1
<1> QED
  BY <1>1, <1>3, RuntimeAssumption, EmptySeq

\* And no other sequences.
LEMMA SequencesAreTexts ==
  ASSUME NEW t \in Seq(1 .. Bytes - 1), Len(t) <= MaxString
  PROVE  t \in Texts
<1>1. Len(t) \in Nat /\ t \in [1 .. Len(t) -> 1 .. Bytes - 1]
  BY LenProperties
<1>2. Len(t) \in 0 .. MaxString
  BY <1>1, RuntimeAssumption
<1> QED
  BY <1>1, <1>2 DEF Texts

\* A text as chars, one for each byte.
LEMMA CharsOfText ==
  ASSUME NEW t \in Texts
  PROVE  /\ AsChars(t) \in Seq(Int) /\ Len(AsChars(t)) = Len(t)
         /\ DOMAIN AsChars(t) = 1 .. Len(t)
         /\ \A i \in 1 .. Len(t) : AsChars(t)[i] = Char(t[i])
         /\ AsChars(t) = << >> <=> t = << >>
<1>1. /\ t \in Seq(1 .. Bytes - 1) /\ DOMAIN t = 1 .. Len(t) /\ Len(t) \in Nat
      /\ \A i \in 1 .. Len(t) : t[i] \in 0 .. Bytes - 1
      /\ t = << >> <=> Len(t) = 0
  BY TextFacts, RuntimeAssumption DEF Bytes
<1>2. \A i \in 1 .. Len(t) : Char(t[i]) \in Int
  BY <1>1, CharFacts, RuntimeAssumption
<1>3. AsChars(t) = [i \in 1 .. Len(t) |-> Char(t[i])]
  BY <1>1 DEF AsChars
<1>4. AsChars(t) \in [1 .. Len(t) -> Int]
  BY <1>2, <1>3
<1>5. AsChars(t) \in Seq(Int) /\ Len(AsChars(t)) = Len(t)
  BY <1>1, <1>4
<1> QED
  BY <1>1, <1>3, <1>5, EmptySeq

\* The strings of main's table.
LEMMA TableFacts ==
  ASSUME NEW i \in - MaxChar - 1 .. Bytes - 1
  PROVE  ConstString(2 * i) =
           IF i < 0 THEN Undefined ELSE Gives(IF i = 0 THEN << >> ELSE << Char(i) >>)
<1> USE RuntimeAssumption
<1>1. i \in Int /\ Bytes \in Nat /\ DOMAIN consts = 0 .. 2 * Bytes - 1
  BY DEF Bytes, consts
<1>2. CASE i < 0
  BY <1>1, <1>2 DEF ConstString
<1>3. CASE i >= 0
  <2>1. i \in 0 .. Bytes - 1 /\ 2 * i \in 0 .. 2 * Bytes - 1
    BY <1>1, <1>3
  <2>2. (2 * i) % 2 = 0 /\ (2 * i) \div 2 = i
    BY <1>1
  <2>3. consts[2 * i] = Char(i)
    BY <2>1, <2>2 DEF consts
  <2>4. Char(i) = 0 <=> i = 0
    BY <2>1, CharFacts DEF Bytes
  <2> QED
    BY <1>1, <1>3, <2>1, <2>3, <2>4 DEF ConstString
<1> QED
  BY <1>1, <1>2, <1>3

\* The text of one byte, or of none for 0.
LEMMA OneByteFacts ==
  ASSUME NEW i \in Int
  PROVE  /\ OneByte(i) \in Texts
         /\ AsChars(OneByte(i)) = IF i \in 1 .. Bytes - 1 THEN << Char(i) >> ELSE << >>
<1>1. << >> \in Texts
  <2> DEFINE e == << >>
  <2>1. e \in Seq(1 .. Bytes - 1) /\ Len(e) = 0
    BY EmptySeq
  <2> HIDE DEF e
  <2>2. Len(e) <= MaxString
    BY <2>1, RuntimeAssumption
  <2>3. e \in Texts
    BY <2>1, <2>2, SequencesAreTexts
  <2> QED
    BY <2>3 DEF e
<1>2. CASE i \in 1 .. Bytes - 1
  <2>1. << i >> \in Texts
    <3> DEFINE e == << i >>
    <3>1. e \in Seq(1 .. Bytes - 1) /\ Len(e) = 1
      BY <1>2
    <3> HIDE DEF e
    <3>2. Len(e) <= MaxString
      BY <3>1, RuntimeAssumption
    <3>3. e \in Texts
      BY <3>1, <3>2, SequencesAreTexts
    <3> QED
      BY <3>3 DEF e
  <2>2. AsChars(<< i >>) = << Char(i) >>
    BY DEF AsChars
  <2> QED
    BY <1>2, <2>1, <2>2 DEF OneByte
<1>3. AsChars(<< >>) = << >>
  BY <1>1, CharsOfText
<1> QED
  BY <1>1, <1>2, <1>3 DEF OneByte

\* What strcmp reads, the zero at the end included.
LEMMA AtFacts ==
  ASSUME NEW t \in Texts, NEW i \in Nat \ {0}
  PROVE  ByteAt(AsChars(t), i) = IF i > Len(t) THEN 0 ELSE t[i]
<1>1. /\ Len(AsChars(t)) = Len(t) /\ Len(t) \in Nat
      /\ i <= Len(t) => AsChars(t)[i] = Char(t[i]) /\ t[i] \in 0 .. Bytes - 1
  BY CharsOfText, TextFacts DEF Bytes
<1> QED
  BY <1>1, CharFacts DEF ByteAt

\* strcmp finds the order of a dictionary, by the first byte that differs.
LEMMA StrcmpIsTheOrder ==
  ASSUME NEW s \in Texts, NEW t \in Texts
  PROVE  tc_strcmp(AsChars(s), AsChars(t)) = Order(s, t)
<1> DEFINE a == AsChars(s)
           b == AsChars(t)
           shorter == IF Len(s) <= Len(t) THEN Len(s) ELSE Len(t)
           differ == {i \in 1 .. (Min({Len(a), Len(b)}) + 1) :
                        i > Len(a) \/ i > Len(b) \/ a[i] # b[i]}
<1>1. /\ Len(a) = Len(s) /\ Len(b) = Len(t) /\ Len(s) \in Nat /\ Len(t) \in Nat
      /\ \A i \in 1 .. Len(s) : a[i] = Char(s[i]) /\ s[i] \in 1 .. Bytes - 1
      /\ \A i \in 1 .. Len(t) : b[i] = Char(t[i]) /\ t[i] \in 1 .. Bytes - 1
      /\ s \in Seq(1 .. Bytes - 1) /\ t \in Seq(1 .. Bytes - 1)
  BY CharsOfText, TextFacts
<1>2. Min({Len(a), Len(b)}) = shorter
  BY <1>1 DEF Min
<1>3. \A i, j \in 1 .. Bytes - 1 : Char(i) = Char(j) => i = j
  BY CharFacts, RuntimeAssumption DEF Bytes
<1>4. shorter \in Nat /\ shorter <= Len(s) /\ shorter <= Len(t)
      /\ (shorter = Len(s) \/ shorter = Len(t))
  BY <1>1
<1> DEFINE first(m) == /\ m \in 1 .. shorter + 1
                       /\ m > Len(s) \/ m > Len(t) \/ s[m] # t[m]
                       /\ \A i \in 1 .. m - 1 : i <= Len(s) /\ i <= Len(t) /\ s[i] = t[i]
<1>5. \E m : m = Min(differ) /\ first(m)
  <2>1. differ \subseteq Nat /\ shorter + 1 \in differ
    BY <1>1, <1>2, <1>4
  <2>2. PICK m \in differ : \A i \in differ : m <= i
    BY <2>1, LeastNumber
  <2>3. Min(differ) = m
    <3> HIDE DEF differ
    <3>1. \A k \in differ : (\A i \in differ : k <= i) => k = m
      BY <2>1, <2>2
    <3> QED
      BY <2>2, <3>1 DEF Min
  <2>4. m \in 1 .. shorter + 1 /\ (m > Len(s) \/ m > Len(t) \/ s[m] # t[m])
    BY <1>1, <1>2, <1>3, <1>4, <2>2
  <2>5. ASSUME NEW i \in 1 .. m - 1
        PROVE  i <= Len(s) /\ i <= Len(t) /\ s[i] = t[i]
    <3>1. i \in 1 .. shorter /\ i < m
      BY <1>4, <2>4
    <3>2. i \notin differ
      <4> HIDE DEF differ
      <4>1. m \in Nat /\ i \in Nat /\ i < m
        BY <2>1, <2>2, <3>1, <1>4
      <4> QED
        BY <2>2, <4>1
    <3>3. a[i] = b[i]
      BY <1>1, <1>2, <1>4, <3>1, <3>2
    <3> QED
      BY <1>1, <1>3, <1>4, <3>1, <3>3
  <2> QED
    BY <2>3, <2>4, <2>5
<1>6. PICK m : m = Min(differ) /\ first(m)
  BY <1>5
<1> DEFINE d == ByteAt(a, m) - ByteAt(b, m)
<1>7. tc_strcmp(a, b) = IF d < 0 THEN -1 ELSE IF d > 0 THEN 1 ELSE 0
  BY <1>6 DEF tc_strcmp
<1> HIDE DEF a, b, differ
<1>8. m \in Nat \ {0} /\ m <= shorter + 1
  BY <1>4, <1>6
<1>9. /\ ByteAt(a, m) = IF m > Len(s) THEN 0 ELSE s[m]
      /\ ByteAt(b, m) = IF m > Len(t) THEN 0 ELSE t[m]
  BY <1>8, AtFacts DEF a, b
<1> HIDE DEF d, shorter
<1>10. ASSUME ~ (m > Len(s)), m > Len(t) \/ (s[m] \in Int /\ t[m] \in Int /\ s[m] > t[m])
       PROVE  ~ Precedes(s, t) /\ s # t
  <2>1. ASSUME NEW k \in 0 .. Len(s), k < Len(t), \A i \in 1 .. k : s[i] = t[i],
               k = Len(s) \/ s[k + 1] < t[k + 1]
        PROVE  FALSE
    <3>1. k < m
      <4>1. CASE m > Len(t)
        BY <1>1, <1>8, <2>1, <4>1
      <4>2. CASE ~ (m > Len(t))
        <5>1. s[m] # t[m]
          BY <1>10, <4>2
        <5> QED
          BY <1>1, <1>8, <2>1, <5>1
      <4> QED
        BY <4>1, <4>2
    <3>2. k # Len(s) /\ k + 1 <= m
      BY <1>1, <1>8, <1>10, <3>1
    <3>3. CASE k + 1 = m
      BY <1>1, <1>8, <1>10, <2>1, <3>2, <3>3
    <3>4. CASE k + 1 < m
      <4>1. k + 1 \in 1 .. m - 1 /\ k + 1 \in 1 .. Len(s)
        BY <1>1, <1>8, <1>10, <3>4
      <4>2. s[k + 1] = t[k + 1]
        BY <1>6, <4>1
      <4> QED
        BY <1>1, <2>1, <3>2, <4>1, <4>2
    <3> QED
      BY <1>8, <3>2, <3>3, <3>4
  <2>2. ~ Precedes(s, t)
    BY <2>1 DEF Precedes
  <2>3. s # t
    BY <1>1, <1>8, <1>10
  <2> QED
    BY <2>2, <2>3
<1>11. ASSUME ~ (m > Len(t)), m > Len(s) \/ s[m] < t[m]
       PROVE  Precedes(s, t)
  <2>1. m - 1 \in 0 .. Len(s) /\ m - 1 < Len(t) /\ (m - 1) + 1 = m
    BY <1>1, <1>4, <1>8, <1>11
  <2>2. m > Len(s) => m - 1 = Len(s)
    BY <1>1, <1>4, <1>8
  <2>3. \A i \in 1 .. m - 1 : s[i] = t[i]
    BY <1>6
  <2> QED
    BY <1>11, <2>1, <2>2, <2>3 DEF Precedes
<1>12. CASE m > Len(s) /\ m > Len(t)
  <2>1. Len(s) = Len(t) /\ m = Len(s) + 1
    BY <1>1, <1>4, <1>8, <1>12
  <2>2. \A i \in 1 .. Len(s) : s[i] = t[i]
    BY <1>1, <1>6, <2>1
  <2>3. s = t
    BY <1>1, <2>1, <2>2, SeqEqual
  <2>4. ~ Precedes(s, t)
    BY <1>1, <2>3 DEF Precedes
  <2>5. d = 0
    BY <1>9, <1>12 DEF d
  <2> QED
    BY <1>7, <2>3, <2>4, <2>5 DEF Order, a, b
<1>13. CASE m > Len(s) /\ ~ (m > Len(t))
  <2>1. t[m] \in 1 .. Bytes - 1 /\ d = 0 - t[m]
    BY <1>1, <1>8, <1>9, <1>13 DEF d
  <2>2. d < 0
    BY <2>1, RuntimeAssumption DEF Bytes
  <2> QED
    BY <1>7, <1>11, <1>13, <2>2 DEF Order, a, b
<1>14. CASE ~ (m > Len(s)) /\ m > Len(t)
  <2>1. s[m] \in 1 .. Bytes - 1 /\ d = s[m] - 0
    BY <1>1, <1>8, <1>9, <1>14 DEF d
  <2>2. d > 0 /\ ~ (d < 0)
    BY <2>1, RuntimeAssumption DEF Bytes
  <2>3. ~ Precedes(s, t) /\ s # t
    BY <1>10, <1>14, Zenon
  <2>4. Order(s, t) = 1
    BY <2>3 DEF Order
  <2> QED
    BY <1>7, <2>2, <2>4 DEF a, b
<1>15. CASE ~ (m > Len(s)) /\ ~ (m > Len(t))
  <2>1. s[m] \in 1 .. Bytes - 1 /\ t[m] \in 1 .. Bytes - 1 /\ d = s[m] - t[m] /\ s[m] # t[m]
    BY <1>1, <1>6, <1>8, <1>9, <1>15 DEF d
  <2>2. s[m] \in Int /\ t[m] \in Int
    BY <2>1, RuntimeAssumption DEF Bytes
  <2>3. CASE s[m] < t[m]
    <3>1. d < 0
      BY <2>1, <2>2, <2>3
    <3> QED
      BY <1>7, <1>11, <1>15, <2>3, <3>1 DEF Order, a, b
  <2>4. CASE s[m] > t[m]
    <3>1. d > 0 /\ ~ (d < 0)
      BY <2>1, <2>2, <2>4
    <3> QED
      BY <1>7, <1>10, <1>15, <2>2, <2>4, <3>1 DEF Order, a, b
  <2> QED
    BY <2>1, <2>2, <2>3, <2>4
<1>16. (m > Len(s) \/ ~ (m > Len(s))) /\ (m > Len(t) \/ ~ (m > Len(t)))
  OBVIOUS
<1> QED
  BY <1>12, <1>13, <1>14, <1>15, <1>16, Zenon

\* Strings are equal when their texts are.
LEMMA StreqIsEquality ==
  ASSUME NEW s \in Texts, NEW t \in Texts
  PROVE  tc_streq(AsChars(s), AsChars(t)) = IF s = t THEN 1 ELSE 0
<1>1. tc_streq(AsChars(s), AsChars(t)) = IF Order(s, t) = 0 THEN 1 ELSE 0
  BY StrcmpIsTheOrder DEF tc_streq
<1>2. ~ Precedes(s, s)
  <2>1. /\ Len(s) \in Nat
        /\ \A i \in 1 .. Len(s) : s[i] \in Int
    BY TextFacts, RuntimeAssumption DEF Bytes
  <2> QED
    BY <2>1 DEF Precedes
<1> QED
  BY <1>1, <1>2 DEF Order

\* A part of a text, as chars.
LEMMA PartOfText ==
  ASSUME NEW t \in Texts, NEW first \in Nat, NEW n \in Nat, first + n <= Len(t)
  PROVE  LET part == SubSeq(t, first + 1, first + n) IN
         /\ part \in Texts
         /\ AsChars(part) = SubSeq(AsChars(t), first + 1, first + n)
         /\ n = 1 => AsChars(part) = << Char(t[first + 1]) >>
<1> DEFINE from == first + 1
           to == first + n
           part == SubSeq(t, from, to)
           chars == SubSeq(AsChars(t), from, to)
           many == IF from <= to THEN to - from + 1 ELSE 0
<1>1. /\ t \in Seq(1 .. Bytes - 1) /\ AsChars(t) \in Seq(Int)
      /\ Len(t) \in 0 .. MaxString /\ Len(t) \in Nat /\ Len(AsChars(t)) = Len(t)
      /\ \A i \in 1 .. Len(t) : t[i] \in 1 .. Bytes - 1 /\ AsChars(t)[i] = Char(t[i])
      /\ \A i \in 1 .. Len(t) : AsChars(t)[i] \in Int
  BY TextFacts, CharsOfText
<1>2. /\ from \in Nat \ {0} /\ to \in Nat /\ many = n
      /\ \A i \in 1 .. n : from + i - 1 \in 1 .. Len(t)
      /\ \A i \in from .. to : i \in 1 .. Len(t)
  BY <1>1
<1>3. /\ \A i \in from .. to : t[i] \in 1 .. Bytes - 1
      /\ \A i \in from .. to : AsChars(t)[i] \in Int
  BY <1>1, <1>2
<1> HIDE DEF from, to
<1>4. /\ part \in Seq(1 .. Bytes - 1) /\ Len(part) = many
      /\ \A i \in 1 .. many : part[i] = t[from + i - 1]
  BY <1>1, <1>2, <1>3, SubSeqProperties
<1>5. /\ chars \in Seq(Int) /\ Len(chars) = many
      /\ \A i \in 1 .. many : chars[i] = AsChars(t)[from + i - 1]
  BY <1>1, <1>2, <1>3, SubSeqProperties
<1> HIDE DEF part, chars, many
<1>6. part \in Texts
  <2>1. Len(part) <= MaxString
    BY <1>1, <1>2, <1>4, RuntimeAssumption DEF to
  <2> QED
    BY <1>4, <2>1, SequencesAreTexts
<1>7. AsChars(part) = chars
  <2>1. /\ AsChars(part) \in Seq(Int) /\ Len(AsChars(part)) = n
        /\ \A i \in 1 .. n : AsChars(part)[i] = Char(part[i])
    BY <1>2, <1>4, <1>6, CharsOfText
  <2>2. \A i \in 1 .. n : AsChars(part)[i] = chars[i]
    BY <1>1, <1>2, <1>4, <1>5, <2>1
  <2> QED
    BY <1>2, <1>5, <2>1, <2>2, SeqEqual
<1>8. n = 1 => chars = << Char(t[first + 1]) >>
  <2> SUFFICES ASSUME n = 1 PROVE chars = << Char(t[first + 1]) >>
    OBVIOUS
  <2>1. from + 1 - 1 = first + 1
    BY DEF from
  <2>2. chars[1] = Char(t[first + 1]) /\ Len(chars) = 1
    BY <1>1, <1>2, <1>5, <2>1
  <2> QED
    BY <1>5, <2>2
<1> QED
  BY <1>6, <1>7, <1>8 DEF part, chars, from, to

\* A substring is a part of the text, when the part is there.
LEMMA SubstringFacts ==
  ASSUME NEW t \in Texts, NEW first \in Ints, NEW n \in Ints
  PROVE  LET there == 0 <= first /\ 0 <= n /\ first + n <= Len(t) IN
         tc_substring(AsChars(t), first, n) =
           IF ~ there THEN RuntimeFailure
           ELSE IF n = 1 /\ t[first + 1] > MaxChar THEN Undefined
           ELSE Gives(AsChars(SubSeq(t, first + 1, first + n)))
<1> DEFINE there == 0 <= first /\ 0 <= n /\ first + n <= Len(t)
<1>1. /\ Len(AsChars(t)) = Len(t) /\ Len(t) \in 0 .. MaxInt
      /\ first \in Int /\ n \in Int
      /\ \A i \in 1 .. Len(t) : t[i] \in 1 .. Bytes - 1 /\ AsChars(t)[i] = Char(t[i])
  BY TextFacts, CharsOfText, RuntimeAssumption DEF Ints
<1>2. InBounds(Len(AsChars(t)), first, n) <=> there
  BY <1>1, BoundsAreChecked
<1>3. CASE ~ there
  BY <1>2, <1>3 DEF tc_substring
<1>4. CASE there
  <2>1. first \in Nat /\ n \in Nat /\ ~ (first + n > Len(t))
    BY <1>1, <1>4
  <2>2. /\ AsChars(SubSeq(t, first + 1, first + n)) = SubSeq(AsChars(t), first + 1, first + n)
        /\ n = 1 => AsChars(SubSeq(t, first + 1, first + n)) = << Char(t[first + 1]) >>
    BY <1>4, <2>1, PartOfText
  <2>3. CASE n = 1
    <3> DEFINE byte == t[first + 1]
    <3>1. first + 1 \in 1 .. Len(t)
      BY <1>1, <1>4, <2>3
    <3>2. byte \in 1 .. Bytes - 1 /\ AsChars(t)[first + 1] = Char(byte)
      BY <1>1, <3>1
    <3> HIDE DEF byte
    <3>3. /\ Char(byte) = IF byte <= MaxChar THEN byte ELSE byte - Bytes
          /\ Char(byte) \in - MaxChar - 1 .. MaxChar
      BY <3>2, CharFacts, RuntimeAssumption DEF Bytes
    <3>4. ConstString(2 * Char(byte)) =
            IF Char(byte) < 0 THEN Undefined
            ELSE Gives(IF Char(byte) = 0 THEN << >> ELSE << Char(Char(byte)) >>)
      BY <3>3, TableFacts, RuntimeAssumption DEF Bytes
    <3>5. CASE byte > MaxChar
      <4>1. Char(byte) < 0
        BY <3>2, <3>3, <3>5, RuntimeAssumption DEF Bytes
      <4>2. tc_substring(AsChars(t), first, n) = Undefined
        BY <1>1, <1>2, <1>4, <2>1, <2>3, <3>2, <3>4, <4>1 DEF tc_substring
      <4> QED
        BY <1>4, <2>3, <3>5, <4>2 DEF byte
    <3>6. CASE ~ (byte > MaxChar)
      <4>1. Char(byte) = byte /\ ~ (Char(byte) < 0) /\ Char(byte) # 0
        BY <3>2, <3>3, <3>6, RuntimeAssumption DEF Bytes
      <4>2. ConstString(2 * Char(byte)) = Gives(<< Char(byte) >>)
        BY <3>4, <4>1
      <4>3. tc_substring(AsChars(t), first, n) = Gives(<< Char(byte) >>)
        BY <1>1, <1>2, <1>4, <2>1, <2>3, <3>2, <4>2 DEF tc_substring
      <4> QED
        BY <1>4, <2>2, <2>3, <3>6, <4>3 DEF byte
    <3> QED
      BY <3>5, <3>6
  <2>4. CASE n # 1
    BY <1>1, <1>2, <1>4, <2>1, <2>2, <2>4 DEF tc_substring
  <2> QED
    BY <2>3, <2>4
<1> QED
  BY <1>3, <1>4

\* Chars put one after the other are those of the texts.
LEMMA ConcatOfTexts ==
  ASSUME NEW t \in Texts, NEW u \in Texts, Len(t) + Len(u) <= MaxString
  PROVE  t \o u \in Texts /\ tc_concat(AsChars(t), AsChars(u)) = AsChars(t \o u)
<1> DEFINE S == 1 .. Bytes - 1
<1>1. /\ t \in Seq(S) /\ u \in Seq(S) /\ AsChars(t) \in Seq(Int) /\ AsChars(u) \in Seq(Int)
      /\ Len(AsChars(t)) = Len(t) /\ Len(AsChars(u)) = Len(u)
      /\ \A i \in 1 .. Len(t) : AsChars(t)[i] = Char(t[i])
      /\ \A i \in 1 .. Len(u) : AsChars(u)[i] = Char(u[i])
      /\ AsChars(t) = << >> <=> t = << >>
      /\ AsChars(u) = << >> <=> u = << >>
  BY TextFacts, CharsOfText
<1> HIDE DEF S
<1>2. /\ t \o u \in Seq(S) /\ Len(t) \in Nat /\ Len(u) \in Nat
      /\ Len(t \o u) = Len(t) + Len(u)
      /\ \A i \in 1 .. Len(t) : (t \o u)[i] = t[i]
      /\ \A i \in 1 .. Len(u) : (t \o u)[Len(t) + i] = u[i]
  BY <1>1, ConcatFacts
<1>3. t \o u \in Texts
  <2> DEFINE w == t \o u
  <2>1. w \in Seq(1 .. Bytes - 1) /\ Len(w) <= MaxString
    BY <1>2 DEF S
  <2> HIDE DEF w
  <2>2. w \in Texts
    BY <2>1, SequencesAreTexts
  <2> QED
    BY <2>2 DEF w
<1>4. AsChars(t) \o AsChars(u) = AsChars(t \o u)
  <2> DEFINE a == AsChars(t)
             b == AsChars(u)
             c == AsChars(t \o u)
  <2>1. /\ a \o b \in Seq(Int) /\ Len(a \o b) = Len(t) + Len(u)
        /\ \A i \in 1 .. Len(t) : (a \o b)[i] = Char(t[i])
        /\ \A i \in 1 .. Len(u) : (a \o b)[Len(t) + i] = Char(u[i])
    <3>2. a \in Seq(Int) /\ b \in Seq(Int)
      BY <1>1
    <3> HIDE DEF a, b
    <3>1. /\ a \o b \in Seq(Int) /\ Len(a \o b) = Len(a) + Len(b)
          /\ \A i \in 1 .. Len(a) : (a \o b)[i] = a[i]
          /\ \A i \in 1 .. Len(b) : (a \o b)[Len(a) + i] = b[i]
      BY <3>2, ConcatFacts
    <3> QED
      BY <1>1, <3>1 DEF a, b
  <2>2. /\ c \in Seq(Int) /\ Len(c) = Len(t) + Len(u)
        /\ \A i \in 1 .. Len(t) + Len(u) : c[i] = Char((t \o u)[i])
    BY <1>2, <1>3, CharsOfText
  <2> HIDE DEF a, b, c
  <2>3. ASSUME NEW i \in 1 .. Len(t) + Len(u) PROVE (a \o b)[i] = c[i]
    <3>1. CASE i <= Len(t)
      BY <1>2, <2>1, <2>2, <3>1
    <3>2. CASE i > Len(t)
      <4> DEFINE j == i - Len(t)
      <4>1. j \in 1 .. Len(u) /\ i = Len(t) + j
        BY <1>2, <3>2
      <4>2. c[i] = Char((t \o u)[i])
        BY <2>2
      <4> HIDE DEF j
      <4>3. (a \o b)[Len(t) + j] = Char(u[j]) /\ (t \o u)[Len(t) + j] = u[j]
        BY <1>2, <2>1, <4>1
      <4> QED
        BY <4>1, <4>2, <4>3
    <3>3. i <= Len(t) \/ i > Len(t)
      BY <1>2
    <3> QED
      BY <3>1, <3>2, <3>3
  <2>4. a \o b = c
    BY <2>1, <2>2, <2>3, SeqEqual
  <2> QED
    BY <2>4 DEF a, b, c
<1>5. (t = << >> => t \o u = u) /\ (u = << >> => t \o u = t)
  BY <1>1, ConcatEmptySeq
<1> QED
  BY <1>1, <1>3, <1>4, <1>5 DEF tc_concat

\* A call gives the string that it is to give.
LEMMA StringGiven ==
  ASSUME RuntimeInv, NEW bytes \in Texts, negative' = FALSE,
         GivesString(Gives(AsChars(bytes)), bytes, "ok")
  PROVE  RuntimeInv'
<1>1. /\ spelled' \in Texts /\ due' \in [ending : {"ok", "exit 120"}, number : Int]
      /\ held' = AsChars(spelled') /\ ending' = due'.ending /\ answer' = due'.number
  BY DEF GivesString, Gives
<1>2. negative' \in BOOLEAN
  OBVIOUS
<1> QED
  BY <1>1, <1>2 DEF RuntimeInv, StringsChecked

\* To fail is an outcome that may be due.
LEMMA FailureIsDue ==
  [ending |-> "exit 120", number |-> 0] \in [ending : {"ok", "exit 120"}, number : Int]
OBVIOUS

\* A call ends the program as it is to.
LEMMA ProgramEnded ==
  ASSUME RuntimeInv, NEW bytes \in Texts, negative' = FALSE,
         GivesString(RuntimeFailure, bytes, "exit 120")
  PROVE  RuntimeInv'
<1>1. /\ spelled' \in Texts /\ due' \in [ending : {"ok", "exit 120"}, number : Int]
      /\ ending' # "ok" /\ ending' = due'.ending /\ answer' = due'.number
  <2>1. RuntimeFailure.st = "exit 120"
    BY DEF RuntimeFailure, Fails
  <2>2. /\ spelled' = bytes /\ due' = [ending |-> "exit 120", number |-> 0]
        /\ ending' = "exit 120" /\ answer' = 0
    BY <2>1 DEF GivesString
  <2>3. due'.ending = "exit 120" /\ due'.number = 0
    BY <2>2
  <2>4. due' \in [ending : {"ok", "exit 120"}, number : Int]
    BY <2>2, FailureIsDue
  <2>5. ending' # "ok"
    BY <2>2
  <2>6. spelled' \in Texts
    BY <2>2
  <2> QED
    BY <2>2, <2>3, <2>4, <2>5, <2>6
<1>2. negative' \in BOOLEAN
  OBVIOUS
<1> QED
  BY <1>1, <1>2 DEF RuntimeInv, StringsChecked

\* A call ends the program by taking a negative char for an int.
LEMMA ProgramUndefined ==
  ASSUME RuntimeInv, NEW bytes \in Texts, negative' = TRUE, GivesString(Undefined, bytes, "ok")
  PROVE  RuntimeInv'
<1>1. /\ spelled' \in Texts /\ due' \in [ending : {"ok", "exit 120"}, number : Int]
      /\ ending' # "ok"
  BY DEF GivesString, Undefined, Fails
<1>2. negative' \in BOOLEAN
  OBVIOUS
<1> QED
  BY <1>1, <1>2 DEF RuntimeInv, StringsChecked

\* A call gives the number that it is to give, or takes a negative char for it.
LEMMA NumberGiven ==
  ASSUME RuntimeInv, NEW number, NEW wanted \in Int, GivesNumber(number, wanted),
         negative' \in BOOLEAN, number = wanted \/ negative'
  PROVE  RuntimeInv'
BY DEF RuntimeInv, StringsChecked, GivesNumber

\* Each call keeps the invariant.
LEMMA RuntimeStep == RuntimeInv /\ [RuntimeNext]_runtimeVars => RuntimeInv'
<1> SUFFICES ASSUME RuntimeInv, [RuntimeNext]_runtimeVars PROVE RuntimeInv'
  OBVIOUS
<1> USE RuntimeAssumption
<1>1. /\ spelled \in Texts /\ Len(spelled) \in Nat /\ Len(spelled) <= MaxInt /\ Bytes \in Nat
      /\ Len(spelled) <= MaxString
      /\ \A i \in 1 .. Len(spelled) : spelled[i] \in 1 .. Bytes - 1
      /\ spelled = << >> <=> Len(spelled) = 0
  <2>1. spelled \in Texts
    BY DEF RuntimeInv
  <2> QED
    BY <2>1, TextFacts DEF Bytes
<1>2. ending = "ok" => held = AsChars(spelled)
  BY DEF RuntimeInv, StringsChecked
<1>3. << >> \in Texts /\ AsChars(<< >>) = << >>
  <2>1. OneByte(0) = << >>
    BY DEF OneByte
  <2> QED
    BY <2>1, OneByteFacts
<1>6. ASSUME NEW t \in Texts, Literal(t), negative' = FALSE PROVE RuntimeInv'
  BY <1>6, StringGiven DEF Literal
<1>7. ASSUME NEW t \in Texts, CallConcat(t), negative' = FALSE PROVE RuntimeInv'
  <2>1. ending = "ok" /\ Len(spelled) + Len(t) <= MaxString
    BY <1>7 DEF CallConcat, GivesString
  <2>2. spelled \o t \in Texts /\ tc_concat(held, AsChars(t)) = AsChars(spelled \o t)
    BY <1>1, <1>2, <2>1, ConcatOfTexts
  <2> DEFINE bytes == spelled \o t
  <2>3. bytes \in Texts /\ GivesString(Gives(AsChars(bytes)), bytes, "ok")
    BY <1>7, <2>2 DEF CallConcat
  <2> HIDE DEF bytes
  <2> QED
    BY <1>7, <2>3, StringGiven
<1>8. ASSUME NEW t \in Texts, CallStrcmp(t), negative' = FALSE PROVE RuntimeInv'
  <2>1. ending = "ok"
    BY <1>8 DEF CallStrcmp, GivesNumber
  <2>2. tc_strcmp(held, AsChars(t)) = Order(spelled, t) /\ Order(spelled, t) \in Int
    BY <1>1, <1>2, <2>1, StrcmpIsTheOrder DEF Order
  <2> QED
    BY <1>8, <2>2, NumberGiven DEF CallStrcmp
<1>9. ASSUME NEW t \in Texts, CallStreq(t), negative' = FALSE PROVE RuntimeInv'
  <2>1. ending = "ok"
    BY <1>9 DEF CallStreq, GivesNumber
  <2>2. tc_streq(held, AsChars(t)) = IF spelled = t THEN 1 ELSE 0
    BY <1>1, <1>2, <2>1, StreqIsEquality
  <2> DEFINE w == IF spelled = t THEN 1 ELSE 0
  <2>3. GivesNumber(w, w) /\ w \in Int
    BY <1>9, <2>2 DEF CallStreq
  <2>4. negative' \in BOOLEAN
    BY <1>9
  <2> HIDE DEF w
  <2> QED
    BY <2>3, <2>4, NumberGiven
<1>10. ASSUME NEW i \in 0 .. Bytes - 1
       PROVE  ConstString(2 * i) = Gives(AsChars(OneByte(i))) /\ OneByte(i) \in Texts
  <2>1. ConstString(2 * i) = Gives(IF i = 0 THEN << >> ELSE << Char(i) >>)
    BY <1>1, TableFacts
  <2>2. /\ OneByte(i) \in Texts
        /\ AsChars(OneByte(i)) = IF i \in 1 .. Bytes - 1 THEN << Char(i) >> ELSE << >>
    BY <1>1, OneByteFacts
  <2>3. i = 0 <=> i \notin 1 .. Bytes - 1
    BY <1>1
  <2> QED
    BY <2>1, <2>2, <2>3
<1>11. ASSUME NEW i \in Ints, CallChr(i), negative' = FALSE PROVE RuntimeInv'
  <2>1. CASE i \in 0 .. Bytes - 1
    <3>1. GivesString(Gives(AsChars(OneByte(i))), OneByte(i), "ok") /\ OneByte(i) \in Texts
      BY <1>10, <1>11, <2>1 DEF CallChr, tc_chr
    <3> QED
      BY <1>11, <3>1, StringGiven
  <2>2. CASE i \notin 0 .. Bytes - 1
    <3>1. OneByte(i) = << >>
      BY <1>1, <2>2 DEF OneByte
    <3>2. GivesString(RuntimeFailure, << >>, "exit 120")
      BY <1>11, <2>2, <3>1 DEF CallChr, tc_chr
    <3> QED
      BY <1>3, <1>11, <3>2, ProgramEnded
  <2> QED
    BY <2>1, <2>2
<1>12. ASSUME NEW i \in 0 .. Bytes - 1 \cup {EOF}, CallGetchar(i), negative' = FALSE
       PROVE  RuntimeInv'
  <2>1. CASE i = EOF
    <3>1. OneByte(i) = << >>
      BY <2>1 DEF OneByte, EOF
    <3>2. GivesString(Gives(AsChars(<< >>)), << >>, "ok")
      BY <1>3, <1>12, <2>1, <3>1 DEF CallGetchar, tc_getchar
    <3> QED
      BY <1>3, <1>12, <3>2, StringGiven
  <2>2. CASE i # EOF
    <3>1. GivesString(Gives(AsChars(OneByte(i))), OneByte(i), "ok") /\ OneByte(i) \in Texts
      BY <1>10, <1>12, <2>2 DEF CallGetchar, tc_getchar
    <3> QED
      BY <1>12, <3>1, StringGiven
  <2> QED
    BY <2>1, <2>2
<1>13. ASSUME NEW first \in Ints, NEW n \in Ints, CallSubstring(first, n) PROVE RuntimeInv'
  <2> DEFINE part == SubSeq(spelled, first + 1, first + n)
  <2>1. ending = "ok"
    BY <1>13 DEF CallSubstring, GivesString
  <2>2. tc_substring(held, first, n) =
          IF ~ AreThere(first, n) THEN RuntimeFailure
          ELSE IF n = 1 /\ spelled[first + 1] > MaxChar THEN Undefined
          ELSE Gives(AsChars(part))
    BY <1>1, <1>2, <2>1, SubstringFacts DEF AreThere
  <2>3. AreThere(first, n) => part \in Texts
    <3> SUFFICES ASSUME AreThere(first, n) PROVE part \in Texts
      OBVIOUS
    <3>1. first \in Nat /\ n \in Nat /\ first + n <= Len(spelled)
      BY DEF AreThere, Ints
    <3> QED
      BY <1>1, <3>1, PartOfText
  <2> HIDE DEF part
  <2>4. CASE ~ AreThere(first, n)
    <3>1. GivesString(RuntimeFailure, << >>, "exit 120")
      BY <1>13, <2>2, <2>4 DEF CallSubstring
    <3>2. negative' = FALSE
      BY <1>13, <2>4 DEF CallSubstring
    <3> QED
      BY <1>3, <3>1, <3>2, ProgramEnded
  <2>5. CASE AreThere(first, n) /\ n = 1 /\ spelled[first + 1] > MaxChar
    <3>1. GivesString(Undefined, part, "ok")
      BY <1>13, <2>2, <2>5 DEF CallSubstring, part
    <3>2. negative' = TRUE
      BY <1>13, <2>5 DEF CallSubstring
    <3> QED
      BY <2>3, <2>5, <3>1, <3>2, ProgramUndefined
  <2>6. CASE AreThere(first, n) /\ ~ (n = 1 /\ spelled[first + 1] > MaxChar)
    <3>1. GivesString(Gives(AsChars(part)), part, "ok")
      BY <1>13, <2>2, <2>6 DEF CallSubstring, part
    <3>2. negative' = FALSE
      BY <1>13, <2>6 DEF CallSubstring
    <3> QED
      BY <2>3, <2>6, <3>1, <3>2, StringGiven
  <2> QED
    BY <2>4, <2>5, <2>6
<1>14. ASSUME CallOrd PROVE RuntimeInv'
  <2>1. ending = "ok"
    BY <1>14 DEF CallOrd, GivesNumber
  <2>2. CASE spelled = << >>
    <3>1. held = << >>
      BY <1>2, <1>3, <2>1, <2>2
    <3>2. GivesNumber(-1, -1) /\ negative' \in BOOLEAN
      BY <1>14, <2>2, <3>1 DEF CallOrd, tc_ord
    <3> QED
      BY <3>2, NumberGiven
  <2>3. CASE spelled # << >>
    <3> DEFINE byte == spelled[1]
    <3>1. byte \in 1 .. Bytes - 1 /\ held # << >> /\ held[1] = Char(byte)
      <4>1. 1 \in 1 .. Len(spelled)
        BY <1>1, <2>3
      <4> QED
        BY <1>1, <1>2, <2>1, <2>3, <4>1, CharsOfText
    <3> HIDE DEF byte
    <3>2. Char(byte) = IF byte <= MaxChar THEN byte ELSE byte - Bytes
      BY <1>1, <3>1, CharFacts
    <3>3. GivesNumber(Char(byte), byte) /\ negative' = (byte > MaxChar)
      BY <1>14, <2>3, <3>1 DEF CallOrd, tc_ord, byte
    <3>4. byte \in Int /\ MaxChar \in Int
      BY <1>1, <3>1
    <3>5. Char(byte) = byte \/ negative'
      <4>1. CASE byte > MaxChar
        BY <3>3, <4>1
      <4>2. CASE ~ (byte > MaxChar)
        BY <3>2, <3>4, <4>2
      <4> QED
        BY <4>1, <4>2
    <3>6. negative' \in BOOLEAN
      BY <3>3
    <3> QED
      BY <3>3, <3>4, <3>5, <3>6, NumberGiven
  <2> QED
    BY <2>2, <2>3
<1>15. ASSUME CallSize, negative' = FALSE PROVE RuntimeInv'
  <2>1. ending = "ok"
    BY <1>15 DEF CallSize, GivesNumber
  <2>2. Len(held) = Len(spelled)
    BY <1>1, <1>2, <2>1, CharsOfText
  <2>3. Signed(Len(spelled), MaxInt) = Len(spelled)
    BY <1>1, SignedFacts
  <2>4. GivesNumber(Len(spelled), Len(spelled)) /\ Len(spelled) \in Int
    BY <1>1, <1>15, <2>2, <2>3 DEF CallSize, tc_size
  <2>5. negative' \in BOOLEAN
    BY <1>15
  <2> QED
    BY <2>4, <2>5, NumberGiven
<1>16. CASE UNCHANGED runtimeVars
  BY <1>16 DEF RuntimeInv, StringsChecked, runtimeVars
<1> QED
  BY <1>6, <1>7, <1>8, <1>9, <1>11, <1>12, <1>13, <1>14, <1>15, <1>16 DEF RuntimeNext, OtherCall

\* The calls of the runtime give what they are to give, whatever calls made the
\* string: bounds are checked although their sum may be more than an int, the
\* table of strings of one char is read where that char is, and strings are
\* compared by their bytes although a char is negative from the middle on.
\* ord of such a byte, and it alone as a substring, are left out
\* (tc_chr, tc_substring, tc_concat, tc_strcmp, tc_ord in tiger-runtime.c).
THEOREM StringsAreRight == RuntimeSpec => []StringsChecked
<1>1. RuntimeInit => RuntimeInv
  <2> SUFFICES ASSUME RuntimeInit PROVE RuntimeInv
    OBVIOUS
  <2>1. OneByte(0) = << >>
    BY DEF OneByte
  <2>2. << >> \in Texts /\ AsChars(<< >>) = << >>
    BY <2>1, OneByteFacts
  <2>3. spelled \in Texts /\ held = AsChars(spelled)
    BY <2>2 DEF RuntimeInit
  <2>4. negative \in BOOLEAN
    BY DEF RuntimeInit
  <2>5. /\ due \in [ending : {"ok", "exit 120"}, number : Int]
        /\ ending = due.ending /\ answer = due.number
    BY DEF RuntimeInit
  <2> QED
    BY <2>3, <2>4, <2>5 DEF RuntimeInv, StringsChecked
<1>2. RuntimeInv => StringsChecked
  BY DEF RuntimeInv
<1> QED
  BY <1>1, <1>2, RuntimeStep, PTL DEF RuntimeSpec
=============================================================================
