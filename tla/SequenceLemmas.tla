--------------------------- MODULE SequenceLemmas ---------------------------
(***************************************************************************)
(* What the sequence operators of the models return, for any elements.     *)
(***************************************************************************)
EXTENDS Integers, SequencesExt, SequenceTheorems, WellFoundedInduction, TLAPS

\* A non-empty sequence is its front and its last element.
LEMMA FrontLast ==
  ASSUME NEW S, NEW s \in Seq(S), s # << >>
  PROVE  /\ Front(s) \in Seq(S)
         /\ Len(Front(s)) = Len(s) - 1
         /\ \A i \in 1 .. Len(s) - 1 : Front(s)[i] = s[i]
         /\ Last(s) \in S
         /\ Last(s) = s[Len(s)]
         /\ Len(s) \in Nat \ {0}
<1>1. Len(s) \in Nat \ {0}
  BY EmptySeq
<1>2. \A i \in 1 .. Len(s) : s[i] \in S
  BY ElementOfSeq
<1>3. \A i \in 1 .. Len(s) - 1 : s[i] \in S
  BY <1>1, <1>2
<1> DEFINE front == SubSeq(s, 1, Len(s) - 1)
           n     == Len(s) - 1
<1>4. /\ front \in Seq(S)
      /\ Len(front) = IF 1 <= n THEN n - 1 + 1 ELSE 0
      /\ \A i \in 1 .. n - 1 + 1 : front[i] = s[1 + i - 1]
  BY <1>1, <1>3, SubSeqProperties
<1>5. n \in Nat
  BY <1>1
<1>6. front = Front(s)
  BY DEF Front
<1>7. /\ Front(s) \in Seq(S)
      /\ Len(Front(s)) = n
      /\ \A i \in 1 .. n : Front(s)[i] = s[i]
  <2> HIDE DEF front, n
  <2>1. Len(front) = n /\ n - 1 + 1 = n
    BY <1>4, <1>5
  <2>2. \A i \in 1 .. n : 1 + i - 1 = i
    BY <1>5
  <2>3. \A i \in 1 .. n : front[i] = s[i]
    BY <1>4, <2>1, <2>2
  <2> QED
    BY <1>4, <1>6, <2>1, <2>3
<1> QED
  BY <1>1, <1>2, <1>7 DEF Last

\* What a sequence holds is its head and what its tail holds.
LEMMA HeadTailRange ==
  ASSUME NEW S, NEW s \in Seq(S), s # << >>
  PROVE  /\ Range(s) = {Head(s)} \union Range(Tail(s))
         /\ Tail(s) \in Seq(S)
<1>1. /\ Len(s) \in Nat \ {0}
      /\ DOMAIN s = 1 .. Len(s)
      /\ Head(s) = s[1]
      /\ Tail(s) \in Seq(S)
      /\ DOMAIN Tail(s) = 1 .. Len(s) - 1
      /\ \A i \in 1 .. Len(s) - 1 : Tail(s)[i] = s[i + 1]
  BY HeadTailProperties, EmptySeq
<1>2. ASSUME NEW i \in DOMAIN s PROVE s[i] \in {Head(s)} \union Range(Tail(s))
  <2>1. CASE i = 1
    BY <1>1, <2>1
  <2>2. CASE i # 1
    <3>1. i - 1 \in DOMAIN Tail(s) /\ i - 1 + 1 = i
      BY <1>1, <2>2
    <3>2. Tail(s)[i - 1] = s[i]
      BY <1>1, <3>1
    <3> QED
      BY <3>1, <3>2 DEF Range
  <2> QED
    BY <2>1, <2>2
<1>3. ASSUME NEW i \in DOMAIN Tail(s) PROVE Tail(s)[i] \in Range(s)
  <2>1. i + 1 \in DOMAIN s /\ Tail(s)[i] = s[i + 1]
    BY <1>1
  <2> QED
    BY <2>1 DEF Range
<1>4. 1 \in DOMAIN s
  BY <1>1
<1> QED
  BY <1>1, <1>2, <1>3, <1>4 DEF Range

\* The front of a sequence of one element, or of none, is empty.
LEMMA FrontOfOne ==
  ASSUME NEW S, NEW s \in Seq(S), Len(s) = 1 PROVE Front(s) = << >>
<1>1. s # << >>
  OBVIOUS
<1>2. Front(s) \in Seq(S) /\ Len(Front(s)) = Len(s) - 1
  BY <1>1, FrontLast
<1> QED
  BY <1>2, EmptySeq

LEMMA FrontEmpty == ASSUME NEW s, s = << >> PROVE Front(s) = << >>
BY DEF Front

\* Append keeps what was there and adds the element at the end.
LEMMA AppendFacts ==
  ASSUME NEW S, NEW s \in Seq(S), NEW e \in S
  PROVE  /\ Append(s, e) \in Seq(S)
         /\ Len(s) \in Nat
         /\ DOMAIN s = 1 .. Len(s)
         /\ DOMAIN Append(s, e) = 1 .. Len(s) + 1
         /\ Len(Append(s, e)) = Len(s) + 1
         /\ \A i \in 1 .. Len(s) : Append(s, e)[i] = s[i]
         /\ Append(s, e)[Len(s) + 1] = e
BY AppendProperties

\* Replacing the last element leaves the others.
LEMMA ReplaceLast ==
  ASSUME NEW S, NEW s \in Seq(S), NEW e \in S, s # << >>
  PROVE  LET r == [s EXCEPT ![Len(s)] = e] IN
         /\ r \in Seq(S)
         /\ Len(r) = Len(s)
         /\ \A i \in 1 .. Len(s) - 1 : r[i] = s[i]
         /\ r[Len(s)] = e
BY EmptySeq, ExceptSeq

\* An element in front of a sequence.
LEMMA PrependFacts ==
  ASSUME NEW S, NEW s \in Seq(S), NEW e \in S
  PROVE  LET r == << e >> \o s IN
         /\ r \in Seq(S)
         /\ Len(s) \in Nat
         /\ Len(r) = Len(s) + 1
         /\ r # << >>
         /\ r[1] = e
         /\ \A i \in 1 .. Len(s) : r[i + 1] = s[i]
<1> DEFINE r == << e >> \o s
<1>1. << e >> \in Seq(S) /\ Len(<< e >>) = 1 /\ << e >>[1] = e
  OBVIOUS
<1>2. Len(s) \in Nat
  OBVIOUS
<1>3. /\ r \in Seq(S)
      /\ Len(r) = Len(<< e >>) + Len(s)
      /\ \A i \in 1 .. Len(<< e >>) + Len(s) :
           r[i] = IF i <= Len(<< e >>) THEN << e >>[i] ELSE s[i - Len(<< e >>)]
  BY <1>1, ConcatProperties
<1> HIDE DEF r
<1>4. Len(r) = Len(s) + 1 /\ r # << >>
  BY <1>1, <1>2, <1>3
<1>5. r[1] = e
  BY <1>1, <1>2, <1>3
<1>6. ASSUME NEW i \in 1 .. Len(s) PROVE r[i + 1] = s[i]
  BY <1>1, <1>2, <1>3
<1> QED
  BY <1>2, <1>3, <1>4, <1>5, <1>6 DEF r

\* A sequence without its first element.
LEMMA TailFacts ==
  ASSUME NEW S, NEW s \in Seq(S), s # << >>
  PROVE  /\ Tail(s) \in Seq(S)
         /\ Len(s) \in Nat \ {0}
         /\ Len(Tail(s)) = Len(s) - 1
         /\ \A i \in 1 .. Len(s) - 1 : Tail(s)[i] = s[i + 1]
         /\ Head(s) = s[1] /\ s[1] \in S
OBVIOUS

\* What is left of a sequence after its first e elements.
LEMMA SuffixFacts ==
  ASSUME NEW S, NEW s \in Seq(S), NEW e \in 0 .. Len(s)
  PROVE  LET t == SubSeq(s, e + 1, Len(s)) IN
         /\ t \in Seq(S)
         /\ Len(t) = Len(s) - e
         /\ \A i \in 1 .. Len(s) - e : t[i] = s[e + i]
<1> DEFINE n == Len(s)
           from == e + 1
<1>1. n \in Nat /\ e \in Nat /\ e <= n /\ from \in Nat
  OBVIOUS
<1>2. \A i \in from .. n : s[i] \in S
  BY <1>1
<1> HIDE DEF n, from
<1>3. /\ SubSeq(s, from, n) \in Seq(S)
      /\ Len(SubSeq(s, from, n)) = IF from <= n THEN n - from + 1 ELSE 0
      /\ \A i \in 1 .. n - from + 1 : SubSeq(s, from, n)[i] = s[from + i - 1]
  <2>1. from \in Int /\ n \in Int
    BY <1>1
  <2> QED
    BY <1>2, <2>1, SubSeqProperties
<1>4. n - from + 1 = n - e /\ (~ (from <= n) => n - e = 0)
  BY <1>1 DEF from
<1>5. \A i \in 1 .. n - e : from + i - 1 = e + i
  BY <1>1 DEF from
<1>6. Len(SubSeq(s, from, n)) = n - e
  BY <1>3, <1>4
<1>7. \A i \in 1 .. n - e : SubSeq(s, from, n)[i] = s[e + i]
  BY <1>3, <1>4, <1>5
<1> QED
  BY <1>3, <1>6, <1>7 DEF n, from

\* Two sequences with the same elements are one.
LEMMA SameElements ==
  ASSUME NEW S, NEW s \in Seq(S), NEW t \in Seq(S), Len(s) = Len(t),
         \A i \in 1 .. Len(s) : s[i] = t[i]
  PROVE  s = t
OBVIOUS

\* What is left of what is left.
LEMMA SuffixOfSuffix ==
  ASSUME NEW S, NEW s \in Seq(S), NEW e \in 0 .. Len(s), NEW l \in 0 .. Len(s) - e
  PROVE  LET t == SubSeq(s, e + 1, Len(s)) IN
         SubSeq(t, l + 1, Len(t)) = SubSeq(s, (e + l) + 1, Len(s))
<1> DEFINE t == SubSeq(s, e + 1, Len(s))
           u == SubSeq(t, l + 1, Len(t))
           v == SubSeq(s, (e + l) + 1, Len(s))
           n == Len(s)
<1>1. n \in Nat /\ e \in Nat /\ l \in Nat /\ e <= n /\ e + l <= n
  OBVIOUS
<1>2. /\ t \in Seq(S) /\ Len(t) = n - e
      /\ \A i \in 1 .. n - e : t[i] = s[e + i]
  BY SuffixFacts
<1>3. l \in 0 .. Len(t)
  BY <1>1, <1>2
<1> HIDE DEF t
<1>4. u \in Seq(S) /\ Len(u) = Len(t) - l /\ \A i \in 1 .. Len(t) - l : u[i] = t[l + i]
  BY <1>2, <1>3, SuffixFacts
<1>5. e + l \in 0 .. Len(s)
  BY <1>1
<1>6. v \in Seq(S) /\ Len(v) = n - (e + l) /\ \A i \in 1 .. n - (e + l) : v[i] = s[(e + l) + i]
  BY <1>5, SuffixFacts
<1> HIDE DEF u, v, n
<1>7. Len(u) = Len(v)
  BY <1>1, <1>2, <1>4, <1>6
<1>8. ASSUME NEW i \in 1 .. Len(u) PROVE u[i] = v[i]
  <2>1. i \in 1 .. Len(t) - l /\ i \in 1 .. n - (e + l) /\ l + i \in 1 .. n - e
        /\ e + (l + i) = (e + l) + i
    BY <1>1, <1>2, <1>4, <1>6, <1>7
  <2> QED
    BY <1>2, <1>4, <1>6, <2>1
<1>9. u = v
  BY <1>4, <1>6, <1>7, <1>8, SameElements
<1> QED
  BY <1>9 DEF t, u, v

\* One sequence after another.
LEMMA ConcatFacts ==
  ASSUME NEW S, NEW s \in Seq(S), NEW t \in Seq(S)
  PROVE  /\ s \o t \in Seq(S)
         /\ Len(s) \in Nat /\ Len(t) \in Nat
         /\ Len(s \o t) = Len(s) + Len(t)
         /\ \A i \in 1 .. Len(s) : (s \o t)[i] = s[i]
         /\ \A i \in 1 .. Len(t) : (s \o t)[Len(s) + i] = t[i]
OBVIOUS

-----------------------------------------------------------------------------
\* A set of numbers has a least one: what every number has is shown by looking
\* at the least without it.
LEMMA LeastNumber ==
  ASSUME NEW T \in SUBSET Nat, T # {}
  PROVE  \E n \in T : \A m \in T : n <= m
<1> DEFINE R == OpToRel(<, Nat)
<1>1. IsWellFoundedOn(R, Nat)
  BY NatLessThanWellFounded
<1>2. \A a, b \in Nat : <<a, b>> \in R <=> a < b
  BY DEF OpToRel
<1> HIDE DEF R
<1>3. PICK n \in T : \A m \in T : ~ (<<m, n>> \in R)
  BY <1>1, WFMin
<1>4. \A m \in T : ~ (m < n)
  BY <1>2, <1>3, T \subseteq Nat
<1> QED
  BY <1>4, T \subseteq Nat

\* A sequence with one element more, and one in two parts.
LEMMA AppendIs ==
  ASSUME NEW S, NEW s \in Seq(S), NEW v \in S PROVE Append(s, v) = s \o << v >>
OBVIOUS

LEMMA HeadAndTail ==
  ASSUME NEW S, NEW s \in Seq(S), s # << >> PROVE s = << s[1] >> \o Tail(s)
<1>1. /\ Tail(s) \in Seq(S) /\ Len(s) \in Nat \ {0} /\ Len(Tail(s)) = Len(s) - 1
      /\ \A i \in 1 .. Len(s) - 1 : Tail(s)[i] = s[i + 1]
      /\ s[1] \in S
  BY TailFacts
<1> DEFINE t == Tail(s)
           r == << s[1] >> \o t
<1> HIDE DEF t
<1>2. /\ r \in Seq(S) /\ Len(r) = Len(t) + 1 /\ r[1] = s[1]
      /\ \A i \in 1 .. Len(t) : r[i + 1] = t[i]
  <2>1. t \in Seq(S) /\ s[1] \in S
    BY <1>1 DEF t
  <2> QED
    BY <2>1, PrependFacts
<1> HIDE DEF r
<1>3. ASSUME NEW i \in 1 .. Len(s) PROVE s[i] = r[i]
  <2>1. CASE i = 1
    BY <1>2, <2>1
  <2>2. CASE i # 1
    <3>1. i - 1 \in 1 .. Len(t) /\ (i - 1) + 1 = i /\ i - 1 \in 1 .. Len(s) - 1
      BY <1>1, <2>2 DEF t
    <3> QED
      BY <1>1, <1>2, <3>1 DEF t
  <2> QED
    BY <2>1, <2>2
<1>4. Len(s) = Len(r)
  BY <1>1, <1>2 DEF t
<1>5. s = r
  BY <1>2, <1>3, <1>4, SameElements
<1> QED
  BY <1>5 DEF r, t

-----------------------------------------------------------------------------
\* The recursion by which FlattenSeq goes through a sequence of sequences.
Flattens(f, s, n) ==
  \A i \in 1 .. n : f[i] = IF i = 1 THEN s[i] ELSE f[i - 1] \o s[i]

\* Two functions that follow it are one.
LEMMA FlattensOnce ==
  ASSUME NEW s, NEW f, NEW g, NEW n \in Nat, Flattens(f, s, n), Flattens(g, s, n)
  PROVE  \A i \in 1 .. n : f[i] = g[i]
<1> DEFINE T == {i \in 1 .. n : f[i] # g[i]}
<1> SUFFICES ASSUME T # {} PROVE FALSE
  OBVIOUS
<1>1. T \in SUBSET Nat
  OBVIOUS
<1>2. PICK i \in T : \A j \in T : i <= j
  BY <1>1, LeastNumber
<1>3. i \in 1 .. n /\ f[i] # g[i]
  OBVIOUS
<1>4. /\ f[i] = IF i = 1 THEN s[i] ELSE f[i - 1] \o s[i]
      /\ g[i] = IF i = 1 THEN s[i] ELSE g[i - 1] \o s[i]
  BY <1>3 DEF Flattens
<1>5. i # 1 => i - 1 \in 1 .. n /\ i - 1 \notin T
  BY <1>2, <1>3
<1>6. i # 1 => f[i - 1] = g[i - 1]
  BY <1>5
<1> QED
  BY <1>3, <1>4, <1>6

\* There is one.
LEMMA FlattensExists ==
  ASSUME NEW S, NEW s \in Seq(Seq(S))
  PROVE  \A n \in 0 .. Len(s) : \E f \in [1 .. n -> Seq(S)] : Flattens(f, s, n)
<1> DEFINE Has(n) == \E f \in [1 .. n -> Seq(S)] : Flattens(f, s, n)
           T == {n \in 0 .. Len(s) : ~ Has(n)}
<1>0. Len(s) \in Nat /\ \A i \in 1 .. Len(s) : s[i] \in Seq(S)
  OBVIOUS
<1> SUFFICES ASSUME T # {} PROVE FALSE
  OBVIOUS
<1>1. T \in SUBSET Nat
  BY <1>0
<1> HIDE DEF Has
<1>2. PICK n \in T : \A m \in T : n <= m
  BY <1>1, LeastNumber
<1>3. n \in 0 .. Len(s) /\ ~ Has(n)
  OBVIOUS
<1>4. CASE n = 0
  <2>1. [i \in 1 .. 0 |-> << >>] \in [1 .. 0 -> Seq(S)]
    OBVIOUS
  <2>2. Flattens([i \in 1 .. 0 |-> << >>], s, 0)
    BY DEF Flattens
  <2> QED
    BY <1>3, <1>4, <2>1, <2>2 DEF Has
<1>5. CASE n # 0
  <2>1. n - 1 \in 0 .. Len(s) /\ n - 1 \notin T /\ n \in 1 .. Len(s)
    BY <1>0, <1>2, <1>3, <1>5
  <2>2. PICK f \in [1 .. n - 1 -> Seq(S)] : Flattens(f, s, n - 1)
    BY <2>1 DEF Has
  <2> DEFINE next == IF n = 1 THEN s[n] ELSE f[n - 1] \o s[n]
             g == [i \in 1 .. n |-> IF i = n THEN next ELSE f[i]]
  <2>3. s[n] \in Seq(S)
    BY <1>0, <2>1
  <2>4. n # 1 => f[n - 1] \in Seq(S)
    BY <2>1, <2>2
  <2>5. next \in Seq(S)
    BY <2>3, <2>4
  <2> HIDE DEF next
  <2>6. g \in [1 .. n -> Seq(S)]
    BY <2>1, <2>2, <2>5
  <2>7. Flattens(g, s, n)
    <3> SUFFICES ASSUME NEW i \in 1 .. n
                 PROVE  g[i] = IF i = 1 THEN s[i] ELSE g[i - 1] \o s[i]
      BY DEF Flattens
    <3>1. i # 1 => i - 1 \in 1 .. n - 1 /\ g[i - 1] = f[i - 1]
      BY <2>1
    <3>2. CASE i = n
      BY <3>1, <3>2 DEF next
    <3>3. CASE i # n
      <4>1. i \in 1 .. n - 1 /\ g[i] = f[i]
        BY <2>1, <3>3
      <4>2. f[i] = IF i = 1 THEN s[i] ELSE f[i - 1] \o s[i]
        BY <2>2, <4>1 DEF Flattens
      <4> QED
        BY <3>1, <4>1, <4>2
    <3> QED
      BY <3>2, <3>3
  <2> HIDE DEF g
  <2> QED
    BY <1>3, <2>6, <2>7 DEF Has
<1> QED
  BY <1>4, <1>5

\* FlattenSeq is the last value of such a function.
LEMMA FlattenIs ==
  ASSUME NEW S, NEW s \in Seq(Seq(S)), s # << >>,
         NEW f \in [1 .. Len(s) -> Seq(S)], Flattens(f, s, Len(s))
  PROVE  FlattenSeq(s) = f[Len(s)]
<1> DEFINE Step(g) == [i \in 1 .. Len(s) |-> IF i = 1 THEN s[i] ELSE g[i - 1] \o s[i]]
           flatten == CHOOSE g : g = Step(g)
<1>1. Len(s) \in Nat \ {0}
  BY EmptySeq
<1>2. f = Step(f)
  BY DEF Flattens
<1>3. flatten = Step(flatten)
  BY <1>2
<1>4. Flattens(flatten, s, Len(s))
  <2> SUFFICES ASSUME NEW i \in 1 .. Len(s)
               PROVE  flatten[i] = IF i = 1 THEN s[i] ELSE flatten[i - 1] \o s[i]
    BY DEF Flattens
  <2>1. Step(flatten)[i] = IF i = 1 THEN s[i] ELSE flatten[i - 1] \o s[i]
    OBVIOUS
  <2> HIDE DEF flatten
  <2> QED
    BY <1>3, <2>1
<1>5. FlattenSeq(s) = flatten[Len(s)]
  BY <1>1 DEF FlattenSeq
<1> HIDE DEF flatten
<1>6. flatten[Len(s)] = f[Len(s)]
  BY <1>1, <1>4, FlattensOnce
<1> QED
  BY <1>5, <1>6

LEMMA FlattenNone == FlattenSeq(<< >>) = << >>
<1>1. Len(<< >>) = 0
  OBVIOUS
<1> QED
  BY <1>1 DEF FlattenSeq

\* Flattening one sequence more puts it at the end.
LEMMA FlattenAppend ==
  ASSUME NEW S, NEW s \in Seq(Seq(S)), NEW x \in Seq(S)
  PROVE  /\ FlattenSeq(s) \in Seq(S)
         /\ FlattenSeq(Append(s, x)) = FlattenSeq(s) \o x
<1> DEFINE n == Len(s)
           r == Append(s, x)
<1>1. /\ r \in Seq(Seq(S)) /\ n \in Nat /\ Len(r) = n + 1
      /\ \A i \in 1 .. n : r[i] = s[i]
      /\ r[n + 1] = x
  BY AppendFacts
<1> HIDE DEF r
<1>2. n + 1 \in 0 .. Len(r) /\ r # << >>
  BY <1>1
<1>3. PICK f \in [1 .. n + 1 -> Seq(S)] : Flattens(f, r, n + 1)
  BY <1>1, <1>2, FlattensExists
<1>4. FlattenSeq(r) = f[n + 1]
  BY <1>1, <1>2, <1>3, FlattenIs
<1>5. f[n + 1] = IF n + 1 = 1 THEN r[n + 1] ELSE f[(n + 1) - 1] \o r[n + 1]
  <2>1. n + 1 \in 1 .. n + 1
    BY <1>1
  <2> HIDE DEF n
  <2> QED
    BY <1>3, <2>1 DEF Flattens
<1>6. CASE n = 0
  <2>1. s = << >>
    BY <1>6, EmptySeq
  <2>2. FlattenSeq(s) = << >>
    BY <2>1, FlattenNone
  <2>3. FlattenSeq(r) = x
    BY <1>1, <1>4, <1>5, <1>6
  <2> QED
    BY <2>2, <2>3 DEF r
<1>7. CASE n # 0
  <2> DEFINE g == [i \in 1 .. n |-> f[i]]
  <2>1. g \in [1 .. n -> Seq(S)]
    BY <1>1, <1>3
  <2>2. Flattens(g, s, n)
    <3> SUFFICES ASSUME NEW i \in 1 .. n
                 PROVE  g[i] = IF i = 1 THEN s[i] ELSE g[i - 1] \o s[i]
      BY DEF Flattens
    <3>1. i \in 1 .. n + 1 /\ r[i] = s[i] /\ g[i] = f[i]
      BY <1>1
    <3>2. i # 1 => i - 1 \in 1 .. n
      BY <1>1
    <3>3. f[i] = IF i = 1 THEN r[i] ELSE f[i - 1] \o r[i]
      BY <1>3, <3>1 DEF Flattens
    <3> QED
      BY <3>1, <3>2, <3>3
  <2>3. s # << >>
    BY <1>7
  <2> HIDE DEF g
  <2>4. FlattenSeq(s) = g[n]
    BY <2>1, <2>2, <2>3, FlattenIs
  <2>5. n \in 1 .. n
    BY <1>1, <1>7
  <2>6. g[n] = f[n] /\ g[n] \in Seq(S)
    BY <2>1, <2>5 DEF g
  <2>7. (n + 1) - 1 = n /\ n + 1 # 1
    BY <1>1, <1>7
  <2> QED
    BY <1>1, <1>4, <1>5, <2>4, <2>6, <2>7 DEF r
<1> QED
  BY <1>6, <1>7

LEMMA ConcatOfThree ==
  ASSUME NEW S, NEW a \in Seq(S), NEW b \in Seq(S), NEW c \in Seq(S)
  PROVE  (a \o b) \o c = a \o (b \o c)
<1> DEFINE l == (a \o b) \o c
           r == a \o (b \o c)
<1>1. /\ a \o b \in Seq(S) /\ Len(a \o b) = Len(a) + Len(b)
      /\ b \o c \in Seq(S) /\ Len(b \o c) = Len(b) + Len(c)
      /\ Len(a) \in Nat /\ Len(b) \in Nat /\ Len(c) \in Nat
  OBVIOUS
<1>2. l \in Seq(S) /\ Len(l) = (Len(a) + Len(b)) + Len(c)
  BY <1>1, ConcatFacts
<1>3. r \in Seq(S) /\ Len(r) = Len(a) + (Len(b) + Len(c))
  BY <1>1, ConcatFacts
<1>4. ASSUME NEW i \in 1 .. Len(l) PROVE l[i] = r[i]
  OBVIOUS
<1> HIDE DEF l, r
<1>5. Len(l) = Len(r)
  BY <1>1, <1>2, <1>3
<1>6. l = r
  BY <1>2, <1>3, <1>4, <1>5, SameElements
<1> QED
  BY <1>6 DEF l, r

\* One sequence of sequences after another.
LEMMA FlattenConcat ==
  ASSUME NEW S, NEW s \in Seq(Seq(S)), NEW t \in Seq(Seq(S))
  PROVE  FlattenSeq(s \o t) = FlattenSeq(s) \o FlattenSeq(t)
<1> DEFINE First(k) == SubSeq(t, 1, k)
           T == {k \in 0 .. Len(t) : FlattenSeq(s \o First(k)) # FlattenSeq(s) \o FlattenSeq(First(k))}
<1>0. Len(t) \in Nat /\ \A i \in 1 .. Len(t) : t[i] \in Seq(S)
  OBVIOUS
<1>1. ASSUME NEW k \in 0 .. Len(t)
      PROVE  First(k) \in Seq(Seq(S)) /\ Len(First(k)) = k /\ \A i \in 1 .. k : First(k)[i] = t[i]
  BY <1>0, <1>1
<1>2. T = {}
  <2> SUFFICES ASSUME T # {} PROVE FALSE
    OBVIOUS
  <2>1. T \in SUBSET Nat
    BY <1>0
  <2>2. PICK k \in T : \A j \in T : k <= j
    BY <2>1, LeastNumber
  <2>3. k \in 0 .. Len(t) /\ FlattenSeq(s \o First(k)) # FlattenSeq(s) \o FlattenSeq(First(k))
    OBVIOUS
  <2>4. CASE k = 0
    <3>1. First(k) = << >>
      BY <1>1, <2>3, <2>4, EmptySeq
    <3>2. s \o << >> = s
      OBVIOUS
    <3>3. FlattenSeq(s) \in Seq(S)
      BY FlattenAppend, EmptySeq
    <3>4. FlattenSeq(s) \o << >> = FlattenSeq(s)
      BY <3>3
    <3> QED
      BY <2>3, <3>1, <3>2, <3>4, FlattenNone
  <2>5. CASE k # 0
    <3> DEFINE u == First(k - 1)
    <3>1. k - 1 \in 0 .. Len(t) /\ k - 1 \notin T /\ k \in 1 .. Len(t)
      <4>1. k \in Nat /\ k \in 0 .. Len(t)
        BY <1>0, <2>3
      <4> HIDE DEF T
      <4>2. k - 1 \notin T
        BY <2>2, <4>1
      <4> QED
        BY <1>0, <2>5, <4>1, <4>2
    <3>2. u \in Seq(Seq(S)) /\ Len(u) = k - 1 /\ \A i \in 1 .. k - 1 : u[i] = t[i]
      BY <1>1, <3>1
    <3>3. FlattenSeq(s \o u) = FlattenSeq(s) \o FlattenSeq(u)
      BY <3>1
    <3>4. t[k] \in Seq(S)
      BY <1>0, <3>1
    <3>5. First(k) \in Seq(Seq(S)) /\ Len(First(k)) = k /\ \A i \in 1 .. k : First(k)[i] = t[i]
      BY <1>1, <2>3
    <3> HIDE DEF T, First, u
    <3>6. /\ Append(u, t[k]) \in Seq(Seq(S)) /\ Len(Append(u, t[k])) = k
          /\ \A i \in 1 .. k - 1 : Append(u, t[k])[i] = t[i]
          /\ Append(u, t[k])[k] = t[k]
      BY <3>1, <3>2, <3>4, AppendFacts
    <3>7. First(k) = Append(u, t[k])
      <4>1. \A i \in 1 .. k : First(k)[i] = Append(u, t[k])[i]
        <5> SUFFICES ASSUME NEW i \in 1 .. k PROVE First(k)[i] = Append(u, t[k])[i]
          OBVIOUS
        <5>1. CASE i = k
          BY <3>5, <3>6, <5>1
        <5>2. CASE i # k
          <6>1. i \in 1 .. k - 1
            BY <3>1, <5>2
          <6> QED
            BY <3>5, <3>6, <6>1
        <5> QED
          BY <5>1, <5>2
      <4> QED
        BY <3>5, <3>6, <4>1, SameElements
    <3>8. s \o Append(u, t[k]) = Append(s \o u, t[k])
      BY <3>2, <3>4
    <3>9. s \o u \in Seq(Seq(S))
      BY <3>2
    <3>10. /\ FlattenSeq(s) \in Seq(S) /\ FlattenSeq(u) \in Seq(S)
           /\ FlattenSeq(Append(u, t[k])) = FlattenSeq(u) \o t[k]
           /\ FlattenSeq(Append(s \o u, t[k])) = FlattenSeq(s \o u) \o t[k]
      BY <3>2, <3>4, <3>9, FlattenAppend
    <3>11. (FlattenSeq(s) \o FlattenSeq(u)) \o t[k] = FlattenSeq(s) \o (FlattenSeq(u) \o t[k])
      <4>1. ASSUME NEW a \in Seq(S), NEW b \in Seq(S), NEW c \in Seq(S)
            PROVE  (a \o b) \o c = a \o (b \o c)
        BY <4>1, ConcatOfThree
      <4> QED
        BY <3>4, <3>10, <4>1, Zenon
    <3> QED
      BY <2>3, <3>3, <3>7, <3>8, <3>10, <3>11
  <2> QED
    BY <2>4, <2>5
<1>3. First(Len(t)) = t
  <2>1. Len(t) \in 0 .. Len(t)
    BY <1>0
  <2>2. First(Len(t)) \in Seq(Seq(S)) /\ Len(First(Len(t))) = Len(t)
        /\ \A i \in 1 .. Len(t) : First(Len(t))[i] = t[i]
    BY <1>1, <2>1
  <2> HIDE DEF First
  <2> QED
    BY <2>2, SameElements
<1>4. Len(t) \in 0 .. Len(t) /\ Len(t) \notin T
  <2> HIDE DEF T
  <2> QED
    BY <1>0, <1>2
<1>5. FlattenSeq(s \o First(Len(t))) = FlattenSeq(s) \o FlattenSeq(First(Len(t)))
  BY <1>4
<1> HIDE DEF First
<1> QED
  BY <1>3, <1>5

\* A sequence of one sequence.
LEMMA FlattenOne ==
  ASSUME NEW S, NEW x \in Seq(S) PROVE FlattenSeq(<< x >>) = x
<1>1. << >> \in Seq(Seq(S)) /\ Append(<< >>, x) = << x >>
  OBVIOUS
<1>2. FlattenSeq(<< x >>) = FlattenSeq(<< >>) \o x
  BY <1>1, FlattenAppend
<1>3. << >> \o x = x
  OBVIOUS
<1> QED
  BY <1>2, <1>3, FlattenNone

\* A sequence in two parts.
JoinedAt(c, l, b, n, i) ==
  /\ Len(c) = n
  /\ \A j \in 1 .. i : c[j] = l[j]
  /\ \A j \in 1 .. n - i : c[i + j] = b[j]

LEMMA TwoParts ==
  ASSUME NEW S, NEW l \in Seq(S), NEW b \in Seq(S), NEW n \in Nat, NEW i \in 0 .. n,
         Len(l) = i, Len(b) = n - i
  PROVE  l \o b \in Seq(S) /\ JoinedAt(l \o b, l, b, n, i)
<1>1. /\ l \o b \in Seq(S) /\ Len(l \o b) = Len(l) + Len(b)
      /\ \A j \in 1 .. Len(l) : (l \o b)[j] = l[j]
      /\ \A j \in 1 .. Len(b) : (l \o b)[Len(l) + j] = b[j]
  BY ConcatFacts
<1>2. i + (n - i) = n
  OBVIOUS
<1> DEFINE c == l \o b
<1> HIDE DEF c
<1>3. c \in Seq(S) /\ Len(c) = i + (n - i)
  BY <1>1 DEF c
<1>4. (\A j \in 1 .. i : c[j] = l[j]) /\ \A j \in 1 .. n - i : c[i + j] = b[j]
  BY <1>1 DEF c
<1> QED
  BY <1>2, <1>3, <1>4 DEF c, JoinedAt


\* A sequence in which others have taken the place of an element.
Spliced(s, i, new) == (SubSeq(s, 1, i - 1) \o new) \o SubSeq(s, i + 1, Len(s))

SplicedAt(r, s, i, new) ==
  /\ Len(r) = (Len(s) + Len(new)) - 1
  /\ \A j \in 1 .. i - 1 : r[j] = s[j]
  /\ \A j \in 1 .. Len(new) : r[(i - 1) + j] = new[j]
  /\ \A j \in 1 .. Len(s) - i : r[((i - 1) + Len(new)) + j] = s[i + j]

LEMMA SplicedFacts ==
  ASSUME NEW S, NEW s \in Seq(S), NEW i \in DOMAIN s, NEW new \in Seq(S)
  PROVE  Spliced(s, i, new) \in Seq(S) /\ SplicedAt(Spliced(s, i, new), s, i, new)
<1> DEFINE n == Len(s)
           q == Len(new)
           m == (n + q) - 1
           a == SubSeq(s, 1, i - 1)
           b == SubSeq(s, i + 1, n)
<1>2. n \in Nat /\ i \in 1 .. n /\ q \in Nat
  OBVIOUS
<1>0. a \in Seq(S) /\ Len(a) = i - 1 /\ \A j \in 1 .. i - 1 : a[j] = s[j]
  BY <1>2
<1>1. b \in Seq(S) /\ Len(b) = n - i /\ \A j \in 1 .. n - i : b[j] = s[i + j]
  <2>1. i \in 0 .. Len(s)
    BY <1>2
  <2> QED
    BY <2>1, SuffixFacts
<1> HIDE DEF a, b
<1> DEFINE l == a \o new
           k == (i - 1) + q
<1>3. l \in Seq(S) /\ JoinedAt(l, a, new, k, i - 1)
  <2>1. k \in Nat /\ i - 1 \in 0 .. k /\ Len(new) = k - (i - 1)
    BY <1>2
  <2> HIDE DEF k
  <2> QED
    BY <1>0, <2>1, TwoParts
<1>4. k \in Nat /\ m \in Nat /\ k \in 0 .. m /\ m - k = n - i
  BY <1>2
<1> DEFINE c == l \o b
<1>5. c \in Seq(S) /\ JoinedAt(c, l, b, m, k)
  <2>1. Len(l) = k
    BY <1>3 DEF JoinedAt
  <2> HIDE DEF k, l, m, n
  <2>2. Len(b) = m - k
    BY <1>1, <1>4
  <2> QED
    BY <1>1, <1>3, <1>4, <2>1, <2>2, TwoParts
<1> HIDE DEF l
<1>6. Spliced(s, i, new) = c
  BY DEF Spliced, a, b, l
<1> HIDE DEF c
<1>7. \A j \in 1 .. i - 1 : c[j] = s[j]
  <2> SUFFICES ASSUME NEW j \in 1 .. i - 1 PROVE c[j] = s[j]
    OBVIOUS
  <2>1. j \in 1 .. k
    BY <1>2
  <2>2. c[j] = l[j]
    BY <1>5, <2>1 DEF JoinedAt
  <2>3. l[j] = a[j]
    BY <1>3 DEF JoinedAt
  <2> QED
    BY <1>0, <2>2, <2>3
<1>8. \A j \in 1 .. q : c[(i - 1) + j] = new[j]
  <2> SUFFICES ASSUME NEW j \in 1 .. q PROVE c[(i - 1) + j] = new[j]
    OBVIOUS
  <2>1. (i - 1) + j \in 1 .. k /\ k - (i - 1) = q
    BY <1>2
  <2>2. c[(i - 1) + j] = l[(i - 1) + j]
    BY <1>5, <2>1 DEF JoinedAt
  <2>3. l[(i - 1) + j] = new[j]
    BY <1>3, <2>1 DEF JoinedAt
  <2> QED
    BY <2>2, <2>3
<1>9. \A j \in 1 .. n - i : c[k + j] = s[i + j]
  <2> SUFFICES ASSUME NEW j \in 1 .. n - i PROVE c[k + j] = s[i + j]
    OBVIOUS
  <2> HIDE DEF k, m, n
  <2>1. c[k + j] = b[j]
    BY <1>4, <1>5 DEF JoinedAt
  <2> QED
    BY <1>1, <2>1
<1>10. Len(c) = m
  BY <1>5 DEF JoinedAt
<1> QED
  BY <1>5, <1>6, <1>7, <1>8, <1>9, <1>10 DEF SplicedAt

\* One element for another.
ChangedAt(r, s, i, e) ==
  DOMAIN r = DOMAIN s /\ \A j \in DOMAIN s : r[j] = IF j = i THEN e ELSE s[j]

LEMMA SplicedOne ==
  ASSUME NEW S, NEW s \in Seq(S), NEW i \in DOMAIN s, NEW e \in S
  PROVE  /\ Spliced(s, i, << e >>) \in Seq(S)
         /\ ChangedAt(Spliced(s, i, << e >>), s, i, e)
<1> DEFINE n == Len(s)
           r == Spliced(s, i, << e >>)
<1>1. << e >> \in Seq(S) /\ Len(<< e >>) = 1 /\ << e >>[1] = e
  OBVIOUS
<1>2. n \in Nat /\ i \in 1 .. n /\ DOMAIN s = 1 .. n
  OBVIOUS
<1>3. r \in Seq(S) /\ SplicedAt(r, s, i, << e >>)
  BY <1>1, SplicedFacts
<1> HIDE DEF r, n
<1>4. /\ Len(r) = (n + 1) - 1
      /\ \A j \in 1 .. i - 1 : r[j] = s[j]
      /\ \A j \in 1 .. 1 : r[(i - 1) + j] = << e >>[j]
      /\ \A j \in 1 .. n - i : r[((i - 1) + 1) + j] = s[i + j]
  BY <1>1, <1>3 DEF SplicedAt, n
<1>5. Len(r) = n /\ DOMAIN r = 1 .. n
  BY <1>2, <1>3, <1>4
<1>6. ASSUME NEW j \in 1 .. n PROVE r[j] = IF j = i THEN e ELSE s[j]
  <2>1. CASE j < i
    <3>1. j \in 1 .. i - 1
      BY <1>2, <2>1
    <3> QED
      BY <1>2, <1>4, <2>1, <3>1
  <2>2. CASE j = i
    <3>1. 1 \in 1 .. 1 /\ (i - 1) + 1 = j
      BY <1>2, <2>2
    <3> QED
      BY <1>1, <1>4, <2>2, <3>1
  <2>3. CASE j > i
    <3>1. j - i \in 1 .. n - i /\ ((i - 1) + 1) + (j - i) = j /\ i + (j - i) = j /\ j # i
      BY <1>2, <2>3
    <3> QED
      BY <1>4, <3>1
  <2> QED
    BY <1>2, <2>1, <2>2, <2>3
<1> QED
  BY <1>2, <1>3, <1>5, <1>6 DEF r, ChangedAt

\* Sequences that make up what they replace.
LEMMA SplicedFlatten ==
  ASSUME NEW S, NEW s \in Seq(Seq(S)), NEW i \in DOMAIN s, NEW new \in Seq(Seq(S)),
         FlattenSeq(new) = s[i]
  PROVE  FlattenSeq(Spliced(s, i, new)) = FlattenSeq(s)
<1> DEFINE n == Len(s)
           a == SubSeq(s, 1, i - 1)
           b == SubSeq(s, i + 1, n)
           one == << s[i] >>
<1>1. n \in Nat /\ i \in 1 .. n /\ DOMAIN s = 1 .. n /\ s[i] \in Seq(S) /\ one \in Seq(Seq(S))
  OBVIOUS
<1>2. a \in Seq(Seq(S))
  BY <1>1
<1>3. b \in Seq(Seq(S))
  <2>1. i \in 0 .. Len(s)
    BY <1>1
  <2> QED
    BY <2>1, SuffixFacts
<1>4. Spliced(s, i, one) = s
  <2>1. /\ Spliced(s, i, one) \in Seq(Seq(S)) /\ DOMAIN Spliced(s, i, one) = DOMAIN s
        /\ \A j \in DOMAIN s : Spliced(s, i, one)[j] = IF j = i THEN s[i] ELSE s[j]
    <3>1. PICK e \in Seq(S) : e = s[i]
      BY <1>1
    <3>2. /\ Spliced(s, i, << e >>) \in Seq(Seq(S))
          /\ ChangedAt(Spliced(s, i, << e >>), s, i, e)
      BY SplicedOne
    <3> QED
      BY <3>1, <3>2 DEF ChangedAt
  <2> DEFINE r == Spliced(s, i, one)
  <2> HIDE DEF r
  <2>2. r \in Seq(Seq(S)) /\ DOMAIN r = 1 .. n /\ \A j \in 1 .. n : r[j] = s[j]
    BY <1>1, <2>1 DEF r
  <2>3. Len(r) = Len(s) /\ \A j \in 1 .. Len(s) : r[j] = s[j]
    BY <1>1, <2>2
  <2> QED
    BY <2>2, <2>3, SameElements DEF r
<1>5. Spliced(s, i, one) = (a \o one) \o b /\ Spliced(s, i, new) = (a \o new) \o b
  BY DEF Spliced
<1> HIDE DEF a, b, one
<1>6. a \o one \in Seq(Seq(S)) /\ a \o new \in Seq(Seq(S))
  BY <1>1, <1>2
<1>7. /\ FlattenSeq((a \o one) \o b) = FlattenSeq(a \o one) \o FlattenSeq(b)
      /\ FlattenSeq((a \o new) \o b) = FlattenSeq(a \o new) \o FlattenSeq(b)
      /\ FlattenSeq(a \o one) = FlattenSeq(a) \o FlattenSeq(one)
      /\ FlattenSeq(a \o new) = FlattenSeq(a) \o FlattenSeq(new)
  BY <1>1, <1>2, <1>3, <1>6, FlattenConcat
<1>8. FlattenSeq(one) = s[i]
  BY <1>1, FlattenOne DEF one
<1> QED
  BY <1>4, <1>5, <1>7, <1>8
=============================================================================
