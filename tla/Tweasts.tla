-------------------------------- MODULE Tweasts --------------------------------
(***************************************************************************)
(* parse::Tweast: a text in which trees stand under numbered references    *)
(* (metavariables), like _exp(0).  A Tweast may hold other Tweasts, whose  *)
(* references are numbered anew when they are flattened into it, and the   *)
(* parser takes each tree out of it once.                                  *)
(*                                                                         *)
(* A text is a sequence of words and references; a tree is any value.  The *)
(* numbers come from Tweast::count_, which all Tweasts share.  flatten     *)
(* calls itself: its calls in progress are the stack flattening.  Another  *)
(* Tweast may be built and parsed while one is read, as the actions of the *)
(* grammar do.                                                             *)
(***************************************************************************)
EXTENDS Integers, SequencesExt, FiniteSetsExt

CONSTANTS
  TweastIds,      \* the objects there may be at once
  Words,          \* what a text may hold besides references
  Trees,          \* what a reference may stand for
  TreeKinds,      \* how many kinds of trees: exp, lvalue, namety, chunks
  MaxReferences,  \* bound on the numbers given to what is put into a Tweast
  MaxItems        \* bound on the items of a text while it is built

ASSUME TweastAssumption == TreeKinds \in Nat \ {0}

VARIABLES
  count_,        \* Tweast::count_, the next number
  texts,         \* input_ of each Tweast
  trees,         \* its maps of trees, as one: the kind is part of the reference
  tweasts,       \* its map of Tweasts
  place,         \* who has it: "none", the "program", a "tweast", the "parser"
  flattening,    \* the calls of flatten in progress, the innermost last
  moving,        \* is the innermost one moving the trees of an inner Tweast?
  tweast_index,  \* the number of that Tweast,
  tweast_input,  \* its text
  move,          \* and those of its references that still have their old number
  taken,         \* what the parser has read of each Tweast
  broken,        \* has tc been ended by a missing tree, or by one left over?
  content        \* history: what each Tweast was given, inner ones in their place

innerVars == << moving, tweast_index, tweast_input, move >>
tweastVars ==
  << count_, texts, trees, tweasts, place, flattening, innerVars, taken, broken, content >>

(* The kinds, in the order in which they are moved.                        *)
Kinds == 1..TreeKinds
TweastKind == 0
WordKind == -1

(* An item of a text; show() gives a reference for each kind and number.   *)
Word(w) == [kind |-> WordKind, key |-> w]
Show(kind, key) == [kind |-> kind, key |-> key]

With(f, key, value) == [k \in DOMAIN f \cup {key} |-> IF k = key THEN value ELSE f[k]]
Without(f, key) == [k \in DOMAIN f \ {key} |-> f[k]]

(* boost's replace_first: nothing happens to a text without the reference. *)
Places(text, ref) == {i \in DOMAIN text : text[i] = ref}
ReplaceReference(text, ref, new) ==
  LET i == Min(Places(text, ref))
  IN IF Places(text, ref) = {} THEN text
     ELSE SubSeq(text, 1, i - 1) \o new \o SubSeq(text, i + 1, Len(text))

-----------------------------------------------------------------------------
TweastInit ==
  /\ count_ = 0 /\ texts = [id \in TweastIds |-> << >>]
  /\ trees = [id \in TweastIds |-> << >>] /\ tweasts = [id \in TweastIds |-> << >>]
  /\ place = [id \in TweastIds |-> "none"] /\ flattening = << >>
  /\ moving = FALSE /\ tweast_index = 0 /\ tweast_input = << >> /\ move = {}
  /\ taken = [id \in TweastIds |-> << >>] /\ broken = FALSE
  /\ content = [id \in TweastIds |-> << >>]

AtRest == ~ broken /\ flattening = << >>

Make(id) ==
  /\ AtRest /\ place[id] = "none"
  /\ place' = [place EXCEPT ![id] = "program"]
  /\ UNCHANGED << count_, texts, trees, tweasts, flattening, innerVars, taken, broken, content >>

(* operator<<: text is appended as it is, data becomes a reference.        *)
Building(id) == AtRest /\ place[id] = "program" /\ Len(texts[id]) < MaxItems

AppendText(id, w) ==
  /\ Building(id)
  /\ texts' = [texts EXCEPT ![id] = Append(@, Word(w))]
  /\ content' = [content EXCEPT ![id] = Append(@, w)]
  /\ UNCHANGED << count_, trees, tweasts, place, flattening, innerVars, taken, broken >>

AppendTree(id, kind, tree) ==
  /\ Building(id) /\ count_ < MaxReferences
  /\ texts' = [texts EXCEPT ![id] = Append(@, Show(kind, count_))]
  /\ trees' = [trees EXCEPT ![id] = With(@, Show(kind, count_), tree)]
  /\ count_' = count_ + 1
  /\ content' = [content EXCEPT ![id] = Append(@, tree)]
  /\ UNCHANGED << tweasts, place, flattening, innerVars, taken, broken >>

AppendTweast(id, other) ==
  /\ Building(id) /\ count_ < MaxReferences /\ place[other] = "program" /\ other # id
  /\ texts' = [texts EXCEPT ![id] = Append(@, Show(TweastKind, count_))]
  /\ tweasts' = [tweasts EXCEPT ![id] = With(@, count_, other)]
  /\ count_' = count_ + 1
  /\ place' = [place EXCEPT ![other] = "tweast"]
  /\ content' = [content EXCEPT ![id] = @ \o content[other]]
  /\ UNCHANGED << trees, flattening, innerVars, taken, broken >>

(* A call of flatten: visit are the inner Tweasts it has still to flatten, *)
(* and key is the one it is flattening.                                    *)
Call(id) == [id |-> id, visit |-> DOMAIN tweasts[id], key |-> 0]

(* parse_input flattens what it parses first.                              *)
ParseInput(id) ==
  /\ AtRest /\ place[id] = "program"
  /\ place' = [place EXCEPT ![id] = "parser"] /\ flattening' = << Call(id) >>
  /\ UNCHANGED << count_, texts, trees, tweasts, innerVars, taken, broken, content >>

Top == Last(flattening)
FirstKey(keys, k) == k \in keys /\ \A l \in keys : k <= l

FlattenInner(k) ==
  /\ flattening # << >> /\ FirstKey(Top.visit, k)
  /\ flattening' = Append(Append(Front(flattening), [Top EXCEPT !.visit = @ \ {k}, !.key = k]),
                          Call(tweasts[Top.id][k]))
  /\ UNCHANGED << count_, texts, trees, tweasts, place, innerVars, taken, broken, content >>

(* Then the inner Tweasts are taken in, one after the other.               *)
TakeInner(k) ==
  /\ flattening # << >> /\ Top.visit = {} /\ ~ moving /\ FirstKey(DOMAIN tweasts[Top.id], k)
  /\ moving' = TRUE /\ tweast_index' = k
  /\ tweast_input' = texts[tweasts[Top.id][k]] /\ move' = DOMAIN trees[tweasts[Top.id][k]]
  /\ UNCHANGED << count_, texts, trees, tweasts, place, flattening, taken, broken, content >>

Inner == tweasts[Top.id][tweast_index]

(* move_metavars_, one turn of its loop: the next tree, by kind and        *)
(* number, takes the next number.                                          *)
Before(r, o) == r.kind < o.kind \/ (r.kind = o.kind /\ r.key <= o.key)
NewNumber(ref) == Show(ref.kind, count_)

\* Mutant: the number is not used up.
MoveMetavarStill(ref) ==
  /\ moving /\ ref \in move /\ \A o \in move : Before(ref, o)
  /\ trees' = [trees EXCEPT ![Top.id] = With(@, NewNumber(ref), trees[Inner][ref])]
  /\ tweast_input' = ReplaceReference(tweast_input, ref, << NewNumber(ref) >>)
  /\ move' = move \ {ref}
  /\ UNCHANGED << count_, texts, tweasts, place, flattening, moving, tweast_index, taken, broken,
                  content >>

MoveMetavar(ref) ==
  /\ moving /\ ref \in move /\ \A o \in move : Before(ref, o)
  /\ trees' = [trees EXCEPT ![Top.id] = With(@, NewNumber(ref), trees[Inner][ref])]
  /\ tweast_input' = ReplaceReference(tweast_input, ref, << NewNumber(ref) >>)
  /\ move' = move \ {ref} /\ count_' = count_ + 1
  /\ UNCHANGED << texts, tweasts, place, flattening, moving, tweast_index, taken, broken, content >>

(* The text takes the place of the reference.  The inner Tweast is deleted *)
(* at once instead of with the others at the end of the call, as nothing   *)
(* looks at it again.                                                      *)
ReplaceInner ==
  /\ moving /\ move = {}
  /\ texts' = [texts EXCEPT
                 ![Top.id] = ReplaceReference(@, Show(TweastKind, tweast_index), tweast_input),
                 ![Inner] = << >>]
  /\ trees' = [trees EXCEPT ![Inner] = << >>]
  /\ tweasts' = [tweasts EXCEPT ![Top.id] = Without(@, tweast_index)]
  /\ place' = [place EXCEPT ![Inner] = "none"]
  /\ content' = [content EXCEPT ![Inner] = << >>]
  /\ moving' = FALSE /\ tweast_index' = 0 /\ tweast_input' = << >>
  /\ UNCHANGED << count_, flattening, move, taken, broken >>

EndFlatten ==
  /\ flattening # << >> /\ Top.visit = {} /\ ~ moving /\ DOMAIN tweasts[Top.id] = {}
  /\ flattening' = Front(flattening)
  /\ UNCHANGED << count_, texts, trees, tweasts, place, innerVars, taken, broken, content >>

(* The parser reads a word, or takes a tree.  A reference to nothing ends  *)
(* tc (take), and so does a tree that is left over (~MetavarMap).          *)
BeingParsed(id) == AtRest /\ place[id] = "parser"

ReadWord(id) ==
  /\ BeingParsed(id) /\ texts[id] # << >> /\ Head(texts[id]).kind = WordKind
  /\ taken' = [taken EXCEPT ![id] = Append(@, Head(texts[id]).key)]
  /\ texts' = [texts EXCEPT ![id] = Tail(@)]
  /\ UNCHANGED << count_, trees, tweasts, place, flattening, innerVars, broken, content >>

Take(id) ==
  /\ BeingParsed(id) /\ texts[id] # << >> /\ Head(texts[id]).kind # WordKind
  /\ LET ref == Head(texts[id])
     IN \/ /\ ref \in DOMAIN trees[id]
           /\ taken' = [taken EXCEPT ![id] = Append(@, trees[id][ref])]
           /\ texts' = [texts EXCEPT ![id] = Tail(@)]
           /\ trees' = [trees EXCEPT ![id] = Without(@, ref)]
           /\ UNCHANGED broken
        \/ /\ ref \notin DOMAIN trees[id] /\ broken' = TRUE
           /\ UNCHANGED << taken, texts, trees >>
  /\ UNCHANGED << count_, tweasts, place, flattening, innerVars, content >>

EndOfText(id) ==
  /\ BeingParsed(id) /\ texts[id] = << >>
  /\ broken' = (DOMAIN trees[id] # {})
  /\ trees' = [trees EXCEPT ![id] = << >>] /\ place' = [place EXCEPT ![id] = "none"]
  /\ taken' = [taken EXCEPT ![id] = << >>] /\ content' = [content EXCEPT ![id] = << >>]
  /\ UNCHANGED << count_, texts, tweasts, flattening, innerVars >>

TweastNext ==
  \/ \E id \in TweastIds :
       \/ Make(id) \/ ParseInput(id) \/ ReadWord(id) \/ Take(id) \/ EndOfText(id)
       \/ \E w \in Words : AppendText(id, w)
       \/ \E kind \in Kinds, tree \in Trees : AppendTree(id, kind, tree)
       \/ \E other \in TweastIds : AppendTweast(id, other)
  \/ \E k \in 0..count_ : FlattenInner(k) \/ TakeInner(k)
  \/ \E ref \in move : MoveMetavar(ref)
  \/ ReplaceInner \/ EndFlatten

TweastSpec == TweastInit /\ [][TweastNext]_tweastVars

-----------------------------------------------------------------------------
(* However Tweasts are put into each other, every reference keeps the tree *)
(* it stood for: the parser reads what they were given, each inner one in  *)
(* its place, and nothing is missing or left over (tweast.cc, tweast.hxx,  *)
(* ~MetavarMap).                                                           *)
TweastsKeepTheirData ==
  /\ ~ broken
  /\ \A id \in TweastIds :
       BeingParsed(id) /\ texts[id] = << >> => taken[id] = content[id] /\ DOMAIN trees[id] = {}

-----------------------------------------------------------------------------
(* What every step keeps.                                                  *)
Reference == [kind : Kinds \cup {TweastKind}, key : Nat]
TextItem == [kind : {WordKind}, key : Words] \cup Reference
Given == Words \cup Trees

CallType(c) == c.id \in TweastIds /\ c.visit \in SUBSET Nat /\ c.key \in Nat
IsMapOf(f, K, V) == DOMAIN f \in SUBSET K /\ \A k \in DOMAIN f : f[k] \in V

TweastTypeOK ==
  /\ count_ \in Nat /\ moving \in BOOLEAN /\ broken \in BOOLEAN
  /\ texts \in [TweastIds -> Seq(TextItem)] /\ content \in [TweastIds -> Seq(Given)]
  /\ taken \in [TweastIds -> Seq(Given)]
  /\ place \in [TweastIds -> {"none", "program", "tweast", "parser"}]
  /\ DOMAIN trees = TweastIds /\ DOMAIN tweasts = TweastIds
  /\ \A id \in TweastIds : IsMapOf(trees[id], [kind : Kinds, key : Nat], Trees)
  /\ \A id \in TweastIds : IsMapOf(tweasts[id], Nat, TweastIds)
  /\ flattening \in Seq([id : TweastIds, visit : SUBSET Nat, key : Nat])
  /\ tweast_index \in Nat /\ tweast_input \in Seq(TextItem)
  /\ move \in SUBSET [kind : Kinds, key : Nat]

(* A text holds each of its references once, with a number below the next. *)
InText(text, ref) == \E i \in DOMAIN text : text[i] = ref
Numbered(text, next) ==
  \A i \in DOMAIN text : text[i].kind # WordKind =>
    /\ text[i].key < next
    /\ \A j \in DOMAIN text : text[j] = text[i] => j = i

(* There is a tree for each reference to one, a Tweast for each reference  *)
(* to one, and no others.  Trees arrive before their references do.        *)
Arriving(id, ref) ==
  moving /\ Top.id = id /\ ref \notin move /\ InText(tweast_input, ref)
References(id) ==
  /\ Numbered(texts[id], count_)
  /\ \A ref \in DOMAIN trees[id] : InText(texts[id], ref) \/ Arriving(id, ref)
  /\ \A k \in DOMAIN tweasts[id] : InText(texts[id], Show(TweastKind, k))
  /\ \A i \in DOMAIN texts[id] :
       /\ texts[id][i].kind \in Kinds => texts[id][i] \in DOMAIN trees[id]
       /\ texts[id][i].kind = TweastKind => texts[id][i].key \in DOMAIN tweasts[id]

(* What an item stands for; a text spells what was given.                  *)
Part(id, w) ==
  IF w.kind = WordKind THEN << w.key >>
  ELSE IF w.kind = TweastKind THEN content[tweasts[id][w.key]]
  ELSE << trees[id][w] >>
Parts(id, text) == [i \in DOMAIN text |-> Part(id, text[i])]
Spelled(id) == content[id] = taken[id] \o FlattenSeq(Parts(id, texts[id]))

(* Each inner Tweast is held by one other, once.  What is not there holds  *)
(* nothing, and only the parser takes anything out.                        *)
Owned ==
  \A id \in TweastIds : \A k \in DOMAIN tweasts[id] :
    /\ place[tweasts[id][k]] = "tweast"
    /\ \A b \in TweastIds : \A l \in DOMAIN tweasts[b] :
         tweasts[b][l] = tweasts[id][k] => b = id /\ l = k
Kept(id) ==
  /\ place[id] = "none" => texts[id] = << >> /\ DOMAIN trees[id] = {} /\ DOMAIN tweasts[id] = {}
  /\ place[id] # "parser" \/ (flattening # << >> /\ flattening[1].id = id) => taken[id] = << >>
  /\ place[id] = "parser" =>
       DOMAIN tweasts[id] = {} \/ (flattening # << >> /\ flattening[1].id = id)

(* The calls are different; each is of the inner Tweast that the one below *)
(* it is flattening, and the Tweasts that have been flattened hold none.   *)
CallIsFor(i) ==
  LET c == flattening[i]
      inner == tweasts[c.id]
  IN /\ c.visit \subseteq DOMAIN inner
     /\ i = 1 => place[c.id] = "parser"
     /\ i < Len(flattening) =>
          /\ c.key \in DOMAIN inner \ c.visit
          /\ inner[c.key] = flattening[i + 1].id
     /\ \A k \in DOMAIN inner \ c.visit :
          (i < Len(flattening) /\ k = c.key) \/ DOMAIN tweasts[inner[k]] = {}
     /\ \A j \in DOMAIN flattening : flattening[j].id = c.id => j = i

(* The text being moved has the references that are left, and new ones for *)
(* the others, which stand for what they stood for.                        *)
MovedPart(w) == IF w \in move THEN << trees[Inner][w] >> ELSE Part(Top.id, w)
MovedText ==
  /\ flattening # << >> /\ Top.visit = {} /\ tweast_index \in DOMAIN tweasts[Top.id]
  /\ Numbered(tweast_input, count_) /\ move \subseteq DOMAIN trees[Inner]
  /\ \A ref \in move : InText(tweast_input, ref)
  /\ \A i \in DOMAIN tweast_input :
       LET w == tweast_input[i]
       IN w.kind # WordKind /\ w \notin move =>
            w \in DOMAIN trees[Top.id] /\ ~ InText(texts[Top.id], w)
  /\ content[Inner] = FlattenSeq([i \in DOMAIN tweast_input |-> MovedPart(tweast_input[i])])

TweastInv ==
  /\ TweastTypeOK /\ ~ broken
  /\ \A id \in TweastIds : References(id) /\ Spelled(id) /\ Kept(id)
  /\ Owned
  /\ \A i \in DOMAIN flattening : CallIsFor(i)
  /\ moving => MovedText
=============================================================================
