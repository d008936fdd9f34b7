---------------------------- MODULE GoodFilesProofs ----------------------------
(***************************************************************************)
(* That files are parsed as they say: the theorems about GoodFiles, for    *)
(* every tree of files.                                                    *)
(***************************************************************************)
EXTENDS FilesProofs, FiniteSetTheorems

-----------------------------------------------------------------------------
(* The definitions of what files say, by levels.                           *)

\* Good(tree) is what its definition says.
LEMMA GoodDefined ==
  ASSUME NEW tree
  PROVE  Good(tree) =
           [n \in 0 .. MaxOpen |->
              {file \in Path :
                 /\ n > 0 /\ Readable(tree, file) /\ IsList(tree, file)
                 /\ \A name \in ImportsOf(tree, file) : Here(file, name) \in Good(tree)[n - 1]}]
<1> DEFINE At(f, n) ==
             {file \in Path :
                /\ n > 0 /\ Readable(tree, file) /\ IsList(tree, file)
                /\ \A name \in ImportsOf(tree, file) : Here(file, name) \in f[n - 1]}
           UpTo(f, k) == f = [n \in 0 .. k |-> At(f, n)]
           T == {k \in 0 .. MaxOpen : ~ \E f : UpTo(f, k)}
<1>0. MaxOpen \in Nat
  BY FilesAssumption
<1>1. \E f : UpTo(f, MaxOpen)
  <2>0. SUFFICES ASSUME T # {} PROVE FALSE
    <3> HIDE DEF UpTo
    <3> QED
      BY <1>0
  <2>1. PICK k \in T : \A m \in T : k <= m
    <3> HIDE DEF UpTo
    <3>1. T \in SUBSET Nat
      BY DEF T
    <3> HIDE DEF T
    <3> QED
      BY <2>0, <3>1, LeastNumber
  <2>2. k # 0
    <3>1. \A f : At(f, 0) = {}
      OBVIOUS
    <3> HIDE DEF At
    <3>2. UpTo([n \in 0 .. 0 |-> {}], 0)
      BY <3>1
    <3> QED
      BY <3>2
  <2>3. PICK g : UpTo(g, k - 1)
    <3> HIDE DEF UpTo
    <3>1. k - 1 \in 0 .. MaxOpen /\ k - 1 \notin T
      BY <1>0, <2>1, <2>2
    <3> QED
      BY <3>1
  <2> DEFINE f == [n \in 0 .. k |-> IF n = k THEN At(g, k) ELSE g[n]]
  <2>4. UpTo(f, k)
    <3>1. ASSUME NEW n \in 0 .. k PROVE f[n] = At(f, n)
      <4>1. CASE n = k
        <5>1. f[k - 1] = g[k - 1]
          BY <2>2
        <5>2. At(f, k) = At(g, k)
          BY <5>1
        <5> QED
          BY <4>1, <5>2
      <4>2. CASE n # k
        <5>1. n \in 0 .. k - 1
          BY <4>2
        <5>2. g[n] = At(g, n)
          BY <5>1, <2>3
        <5>3. n # 0 => f[n - 1] = g[n - 1]
          BY <5>1
        <5>4. At(f, n) = At(g, n)
          <6>1. CASE n = 0
            BY <6>1
          <6>2. CASE n # 0
            BY <5>3, <6>2
          <6> QED
            BY <6>1, <6>2
        <5> QED
          BY <4>2, <5>1, <5>2, <5>4
      <4> QED
        BY <4>1, <4>2
    <3> QED
      BY <3>1
  <2> QED
    BY <2>1, <2>4
<1>2. Good(tree) = CHOOSE f : UpTo(f, MaxOpen)
  BY DEF Good
<1> QED
  BY <1>1, <1>2

\* What the last items of a list stand for is what the definition says.
Prepends(list, k, piece) == list[k] = piece \o list[k - 1]
Empty(list) == list = << >>

LEMMA IncludedLevel ==
  ASSUME NEW tree, NEW file, NEW inclusion, NEW items, NEW top \in Nat,
         items = ItemsOf(tree, file), top = Len(items)
  PROVE  /\ Empty(Included(tree, file, inclusion)[0])
         /\ \A k \in 1 .. top :
              Prepends(Included(tree, file, inclusion), k,
                       StandsFor(file, items[top - k + 1], inclusion))
<1> DEFINE Piece(n) == StandsFor(file, items[top - n + 1], inclusion)
<1>0. top \in Nat
  OBVIOUS
<1> HIDE DEF Piece
<1> DEFINE At(f, n) == 
             IF n = 0 THEN << >>
             ELSE Piece(n)
                  \o f[n - 1]
           UpTo(f, k) == f = [n \in 0 .. k |-> At(f, n)]
           T == {k \in 0 .. top : ~ \E f : UpTo(f, k)}
<1>1. \E f : UpTo(f, top)
  <2>0. SUFFICES ASSUME T # {} PROVE FALSE
    <3> HIDE DEF UpTo
    <3> QED
      BY <1>0
  <2>1. PICK k \in T : \A m \in T : k <= m
    <3> HIDE DEF UpTo
    <3>1. T \in SUBSET Nat
      BY DEF T
    <3> HIDE DEF T
    <3> QED
      BY <2>0, <3>1, LeastNumber
  <2>2. k # 0
    <3>1. \A f : At(f, 0) = << >>
      OBVIOUS
    <3> HIDE DEF At
    <3>2. UpTo([n \in 0 .. 0 |-> << >>], 0)
      BY <3>1
    <3> QED
      BY <3>2
  <2>3. PICK g : UpTo(g, k - 1)
    <3> HIDE DEF UpTo
    <3>1. k - 1 \in 0 .. top /\ k - 1 \notin T
      BY <1>0, <2>1, <2>2
    <3> QED
      BY <3>1
  <2> DEFINE f == [n \in 0 .. k |-> IF n = k THEN At(g, k) ELSE g[n]]
  <2>4. UpTo(f, k)
    <3>1. ASSUME NEW n \in 0 .. k PROVE f[n] = At(f, n)
      <4>1. CASE n = k
        <5>1. f[k - 1] = g[k - 1]
          BY <2>2
        <5>2. At(f, k) = At(g, k)
          BY <2>2, <5>1
        <5> QED
          BY <4>1, <5>2
      <4>2. CASE n # k
        <5>1. n \in 0 .. k - 1
          BY <4>2
        <5>2. g[n] = At(g, n)
          BY <5>1, <2>3
        <5>3. n # 0 => f[n - 1] = g[n - 1]
          BY <5>1
        <5>4. At(f, n) = At(g, n)
          <6>1. CASE n = 0
            BY <6>1
          <6>2. CASE n # 0
            BY <5>3, <6>2
          <6> QED
            BY <6>1, <6>2
        <5> QED
          BY <4>2, <5>1, <5>2, <5>4
      <4> QED
        BY <4>1, <4>2
    <3> QED
      BY <3>1
  <2> QED
    BY <2>1, <2>4
<1>2. Included(tree, file, inclusion) = CHOOSE f : UpTo(f, top)
  BY DEF Included, Piece
<1> DEFINE inc == Included(tree, file, inclusion)
<1>3. UpTo(inc, top)
  BY <1>1, <1>2
<1> HIDE DEF inc
<1>4. 0 \in 0 .. top /\ \A k \in 1 .. top : k \in 0 .. top /\ k # 0
  BY <1>0
<1>5. inc[0] = << >> /\ \A k \in 1 .. top : inc[k] = Piece(k) \o inc[k - 1]
  BY <1>3, <1>4
<1> QED
  BY <1>5 DEF Piece, inc, Prepends, Empty

\* What files stand for is what the definition says.
LEMMA InclusionDefined ==
  ASSUME NEW tree
  PROVE  Inclusion(tree) =
           [n \in 0 .. MaxOpen |-> 
              [file \in Path |->
                 IF n = 0 THEN << >>
                 ELSE Included(tree, file, Inclusion(tree)[n - 1])[Len(ItemsOf(tree, file))]]]
<1> DEFINE At(f, n) == 
              [file \in Path |->
                 IF n = 0 THEN << >>
                 ELSE Included(tree, file, f[n - 1])[Len(ItemsOf(tree, file))]]
           UpTo(f, k) == f = [n \in 0 .. k |-> At(f, n)]
           T == {k \in 0 .. MaxOpen : ~ \E f : UpTo(f, k)}
<1>0. MaxOpen \in Nat
  BY FilesAssumption
<1>1. \E f : UpTo(f, MaxOpen)
  <2>0. SUFFICES ASSUME T # {} PROVE FALSE
    <3> HIDE DEF UpTo
    <3> QED
      BY <1>0
  <2>1. PICK k \in T : \A m \in T : k <= m
    <3> HIDE DEF UpTo
    <3>1. T \in SUBSET Nat
      BY DEF T
    <3> HIDE DEF T
    <3> QED
      BY <2>0, <3>1, LeastNumber
  <2>2. k # 0
    <3>1. \A f : At(f, 0) = [file \in Path |-> << >>]
      OBVIOUS
    <3> HIDE DEF At
    <3>2. UpTo([n \in 0 .. 0 |-> [file \in Path |-> << >>]], 0)
      BY <3>1
    <3> QED
      BY <3>2
  <2>3. PICK g : UpTo(g, k - 1)
    <3> HIDE DEF UpTo
    <3>1. k - 1 \in 0 .. MaxOpen /\ k - 1 \notin T
      BY <1>0, <2>1, <2>2
    <3> QED
      BY <3>1
  <2> DEFINE f == [n \in 0 .. k |-> IF n = k THEN At(g, k) ELSE g[n]]
  <2>4. UpTo(f, k)
    <3>1. ASSUME NEW n \in 0 .. k PROVE f[n] = At(f, n)
      <4>1. CASE n = k
        <5>1. f[k - 1] = g[k - 1]
          BY <2>2
        <5>2. At(f, k) = At(g, k)
          BY <2>2, <5>1
        <5> QED
          BY <4>1, <5>2
      <4>2. CASE n # k
        <5>1. n \in 0 .. k - 1
          BY <4>2
        <5>2. g[n] = At(g, n)
          BY <5>1, <2>3
        <5>3. n # 0 => f[n - 1] = g[n - 1]
          BY <5>1
        <5>4. At(f, n) = At(g, n)
          <6>1. CASE n = 0
            BY <6>1
          <6>2. CASE n # 0
            BY <5>3, <6>2
          <6> QED
            BY <6>1, <6>2
        <5> QED
          BY <4>2, <5>1, <5>2, <5>4
      <4> QED
        BY <4>1, <4>2
    <3> QED
      BY <3>1
  <2> QED
    BY <2>1, <2>4
<1>2. Inclusion(tree) = CHOOSE f : UpTo(f, MaxOpen)
  BY DEF Inclusion
<1> QED
  BY <1>1, <1>2

LEMMA GoodLevel ==
  ASSUME NEW tree, NEW n \in 0 .. MaxOpen, NEW file \in Path
  PROVE  file \in Good(tree)[n] <=>
           /\ n > 0 /\ Readable(tree, file) /\ IsList(tree, file)
           /\ \A name \in ImportsOf(tree, file) : Here(file, name) \in Good(tree)[n - 1]
<1> DEFINE good == Good(tree)
<1>1. good = [m \in 0 .. MaxOpen |->
                {f \in Path :
                   /\ m > 0 /\ Readable(tree, f) /\ IsList(tree, f)
                   /\ \A name \in ImportsOf(tree, f) : Here(f, name) \in good[m - 1]}]
  BY GoodDefined
<1> HIDE DEF good
<1>2. good[n] = {f \in Path :
                   /\ n > 0 /\ Readable(tree, f) /\ IsList(tree, f)
                   /\ \A name \in ImportsOf(tree, f) : Here(f, name) \in good[n - 1]}
  BY <1>1
<1> QED
  BY <1>2 DEF good

LEMMA InclusionLevel ==
  ASSUME NEW tree, NEW n \in 1 .. MaxOpen, NEW file \in Path
  PROVE  Inclusion(tree)[n][file] =
           Included(tree, file, Inclusion(tree)[n - 1])[Len(ItemsOf(tree, file))]
<1>1. n \in 0 .. MaxOpen /\ n # 0
  BY FilesAssumption
<1> DEFINE inc == Inclusion(tree)
<1>2. inc = [m \in 0 .. MaxOpen |->
               [f \in Path |->
                  IF m = 0 THEN << >>
                  ELSE Included(tree, f, inc[m - 1])[Len(ItemsOf(tree, f))]]]
  BY InclusionDefined
<1> HIDE DEF inc
<1>3. inc[n] = [f \in Path |->
                  IF n = 0 THEN << >>
                  ELSE Included(tree, f, inc[n - 1])[Len(ItemsOf(tree, f))]]
  BY <1>1, <1>2
<1> QED
  BY <1>1, <1>3 DEF inc

-----------------------------------------------------------------------------
(* The frames, when a file is opened, an item reduced, or an import over.  *)

FrameShape ==
  /\ Len(frames) \in Nat /\ DOMAIN frames = 1 .. Len(frames)
  /\ files \in FileSystems
  /\ frames \in Seq(FrameType)
  /\ \A i \in 1 .. Len(frames) :
       /\ frames[i].path \in Path /\ frames[i].items \in Seq(Item) /\ Left(i) \in Nat
       /\ frames[i].role \in Role
       /\ frames[i].role \in {"import", "prelude"} <=> i < Len(frames)
  /\ ProgramDone <=> /\ Len(frames) > 0
                     /\ frames[Len(frames)].role = "program"
                     /\ frames[Len(frames)].items = << >>

LEMMA FrameFacts == FilesInv => FrameShape
<1> SUFFICES ASSUME FilesInv PROVE FrameShape
  OBVIOUS
<1>1. FilesTypeOK /\ BegunBelow
  BY DEF FilesInv
<1>2. frames \in Seq(FrameType) /\ files \in FileSystems
  BY <1>1 DEF FilesTypeOK
<1>3. Len(frames) \in Nat /\ DOMAIN frames = 1 .. Len(frames)
  BY <1>2
<1>4. \A i \in 1 .. Len(frames) : frames[i] \in FrameType
  BY <1>2
<1>5. \A i \in 1 .. Len(frames) :
        frames[i].path \in Path /\ frames[i].items \in Seq(Item) /\ frames[i].role \in Role
  BY <1>4 DEF FrameType
<1>6. \A i \in 1 .. Len(frames) : Left(i) \in Nat
  BY <1>5 DEF Left
<1>7. frames # << >> => Last(frames) = frames[Len(frames)] /\ Len(frames) > 0
  <2>1. frames # << >> => Last(frames) = frames[Len(frames)] /\ Len(frames) \in Nat \ {0}
    BY <1>2, FrontLast
  <2> QED
    BY <2>1
<1>8. Len(frames) > 0 => frames # << >>
  OBVIOUS
<1> QED
  BY <1>1, <1>2, <1>3, <1>5, <1>6, <1>7, <1>8 DEF BegunBelow, ProgramDone, FrameShape

\* The names a file imports are the names of its items.
LEMMA ItemsFacts ==
  ASSUME files \in FileSystems, NEW file, Real(file) \in DOMAIN files
  PROVE  /\ ItemsOf(files, file) \in Seq(Item) /\ Len(ItemsOf(files, file)) \in Nat
         /\ \A k \in 1 .. Len(ItemsOf(files, file)) :
              ItemsOf(files, file)[k].import =>
                /\ ItemsOf(files, file)[k].name \in Names
                /\ ItemsOf(files, file)[k].name \in ImportsOf(files, file)
         /\ \A name \in ImportsOf(files, file) :
              \E k \in 1 .. Len(ItemsOf(files, file)) :
                ItemsOf(files, file)[k].import /\ name = ItemsOf(files, file)[k].name
<1>1. ItemsOf(files, file) \in Seq(Item)
  BY FilesAssumption DEF ItemsOf, Text
<1> DEFINE items == ItemsOf(files, file)
<1>2. items \in Seq(Item) /\ Len(items) \in Nat /\ DOMAIN items = 1 .. Len(items)
  BY <1>1
<1>3. ImportsOf(files, file) = {items[k].name : k \in {l \in DOMAIN items : items[l].import}}
  BY DEF ImportsOf
<1> HIDE DEF items
<1>4. \A k \in 1 .. Len(items) : items[k] \in Item
  BY <1>2
<1>5. \A k \in 1 .. Len(items) : items[k].import => items[k].name \in Names
  BY <1>4 DEF Item
<1> QED
  BY <1>2, <1>3, <1>5 DEF items

\* A frame at the same height as before is what it was, or what it was without
\* its last item.
SameTree == UNCHANGED << files, filename, prelude >>
Moved(i, j) ==
  /\ i \in 1 .. Len(frames) /\ j \in 1 .. Len(frames') /\ Len(frames') - j = Len(frames) - i
  /\ frames'[j].role = frames[i].role /\ frames'[j].path = frames[i].path
  /\ frames'[j].fault = frames[i].fault
  /\ \/ frames'[j].items = frames[i].items
     \/ frames[i].items # << >> /\ frames'[j].items = Front(frames[i].items)
  /\ i < Len(frames) => frames'[j + 1] = frames[i + 1] /\ frames'[Len(frames')] = frames[Len(frames)]

LEMMA MovedDone ==
  ASSUME FilesInv, FilesInv', NEW i, NEW j, Moved(i, j)
  PROVE  /\ i < Len(frames) => (ProgramDone' <=> ProgramDone)
         /\ MoreOpen(j)' = MoreOpen(i)
         /\ j = Len(frames') <=> i = Len(frames)
<1>a. FrameShape /\ FrameShape'
  BY FrameFacts, PTL
<1>1. /\ Len(frames) \in Nat /\ Len(frames') \in Nat
      /\ ProgramDone <=> /\ Len(frames) > 0
                         /\ frames[Len(frames)].role = "program"
                         /\ frames[Len(frames)].items = << >>
  BY <1>a DEF FrameShape
<1>2. ProgramDone' <=> /\ Len(frames') > 0
                       /\ frames'[Len(frames')].role = "program"
                       /\ frames'[Len(frames')].items = << >>
  BY <1>a DEF FrameShape
<1>3. i \in Int /\ j \in Int /\ (j = Len(frames') <=> i = Len(frames))
  BY <1>1 DEF Moved
<1>4. i < Len(frames) => (ProgramDone' <=> ProgramDone)
  BY <1>1, <1>2, <1>3 DEF Moved
<1>5. i <= Len(frames) /\ MaxOpen \in Nat
  BY <1>1, FilesAssumption DEF Moved
<1> DEFINE done == IF ProgramDone' THEN 1 ELSE 0
<1>6. MoreOpen(j)' = IF j = Len(frames') THEN MaxOpen - 1 ELSE MaxOpen - (Len(frames') - j + 1) + done
  BY DEF MoreOpen
<1>7. i < Len(frames) => done = IF ProgramDone THEN 1 ELSE 0
  BY <1>4
<1>8. Len(frames') - j = Len(frames) - i /\ (i # Len(frames) => i < Len(frames))
  BY <1>1, <1>3, <1>5 DEF Moved
<1> HIDE DEF done
<1>9. MoreOpen(j)' = MoreOpen(i)
  <2>1. CASE i = Len(frames)
    BY <1>3, <1>6, <2>1 DEF MoreOpen
  <2>2. CASE i # Len(frames)
    BY <1>3, <1>6, <1>7, <1>8, <2>2 DEF MoreOpen
  <2> QED
    BY <2>1, <2>2
<1> QED
  BY <1>3, <1>4, <1>9

LEMMA SameMain ==
  ASSUME SameTree
  PROVE  /\ MainFile' = MainFile /\ PreludeFile' = PreludeFile
         /\ MainIsProgram' <=> MainIsProgram
         /\ BuiltinPrelude' <=> BuiltinPrelude
         /\ GoodMain' <=> GoodMain
         /\ GoodPrelude' <=> GoodPrelude
         /\ Expected' = Expected
<1>1. MainFile' = MainFile /\ PreludeFile' = PreludeFile /\ (BuiltinPrelude' <=> BuiltinPrelude)
  BY DEF SameTree, MainFile, PreludeFile, BuiltinPrelude
<1>2. MainIsProgram' <=> MainIsProgram
  BY <1>1 DEF SameTree, MainIsProgram
<1>3. (GoodMain' <=> GoodMain) /\ (GoodPrelude' <=> GoodPrelude)
  BY <1>1, <1>2 DEF SameTree, GoodMain, GoodPrelude
<1>4. Expected' = Expected
  BY <1>1, <1>2 DEF SameTree, Expected
<1> QED
  BY <1>1, <1>2, <1>3, <1>4

LEMMA MovedReads ==
  ASSUME FilesInv, FilesInv', SameTree, NEW i, NEW j, Moved(i, j), FrameReads(i)
  PROVE  FrameReads(j)'
<1>a. FrameShape /\ FrameShape'
  BY FrameFacts, PTL
<1> DEFINE n == Len(frames)
           m == Len(frames')
           file == frames[i].path
<1>1. /\ n \in Nat /\ m \in Nat /\ i \in 1 .. n /\ j \in 1 .. m /\ m - j = n - i
      /\ frames'[j].path = file /\ frames'[j].role = frames[i].role
      /\ frames'[j].fault = frames[i].fault
      /\ i < n => frames'[j + 1] = frames[i + 1]
      /\ frames[i].items \in Seq(Item) /\ Left(i) \in Nat
      /\ frames[i].role \in {"import", "prelude"} <=> i < n
  BY <1>a DEF FrameShape, Moved
<1>2. /\ i < n => (ProgramDone' <=> ProgramDone)
      /\ MoreOpen(j)' = MoreOpen(i)
      /\ j = m <=> i = n
  BY MovedDone
<1>3. /\ MainFile' = MainFile /\ files' = files
      /\ MainIsProgram' <=> MainIsProgram
      /\ BuiltinPrelude' <=> BuiltinPrelude
  BY SameMain DEF SameTree
<1>4. ItemsOf(files, file) \in Seq(Item) /\ Whole(i) \in Nat /\ Whole(j)' = Whole(i)
  <2>1. ItemsOf(files, file) \in Seq(Item) /\ Len(ItemsOf(files, file)) \in Nat
    BY <1>a, ItemsFacts DEF FrameShape, FrameReads
  <2> QED
    BY <1>1, <1>3, <2>1 DEF Whole
<1>5. /\ Left(j)' \in Nat /\ Left(j)' <= Left(i)
      /\ \A k \in 1 .. Left(j)' : frames'[j].items[k] = frames[i].items[k]
  <2>1. CASE frames'[j].items = frames[i].items
    BY <1>1, <2>1 DEF Left
  <2>2. CASE frames[i].items # << >> /\ frames'[j].items = Front(frames[i].items)
    <3>1. /\ Len(Front(frames[i].items)) = Len(frames[i].items) - 1
          /\ Len(frames[i].items) \in Nat \ {0}
          /\ \A k \in 1 .. Len(frames[i].items) - 1 : Front(frames[i].items)[k] = frames[i].items[k]
      BY <1>1, <2>2, FrontLast
    <3> QED
      BY <2>2, <3>1 DEF Left
  <2> QED
    BY <2>1, <2>2 DEF Moved
<1>6. ASSUME frames[i].fault = "none"
      PROVE  /\ Left(j)' <= Whole(j)'
             /\ \A k \in 1 .. Left(j)' : frames'[j].items[k] = ItemsOf(files, file)[k]
  <2>1. Left(i) <= Whole(i) /\ \A k \in 1 .. Left(i) : frames[i].items[k] = ItemsOf(files, file)[k]
    BY <1>6 DEF FrameReads
  <2>2. \A k \in 1 .. Left(j)' : k \in 1 .. Left(i)
    BY <1>1, <1>5
  <2> QED
    BY <1>1, <1>4, <1>5, <2>1, <2>2
<1>7. /\ frames'[j].role = "import" =>
           frames'[j + 1].items # << >> /\ Last(frames'[j + 1].items).import
      /\ frames'[j].role = "prelude" => j + 1 = m /\ ProgramDone' /\ ~ BuiltinPrelude'
      /\ ProgramDone' /\ j + 1 = m => frames'[j].role = "prelude"
  <2>1. /\ frames[i].role = "import" =>
             frames[i + 1].items # << >> /\ Last(frames[i + 1].items).import
        /\ frames[i].role = "prelude" => i + 1 = n /\ ProgramDone /\ ~ BuiltinPrelude
        /\ ProgramDone /\ i + 1 = n => frames[i].role = "prelude"
    BY DEF FrameReads
  <2>2. (j + 1 = m <=> i + 1 = n) /\ (j + 1 = m => i < n)
    BY <1>1
  <2> QED
    BY <1>1, <1>2, <1>3, <2>1, <2>2
<1>8. /\ ExistsIn(files, file) /\ Real(file) \in DOMAIN files
      /\ frames[i].fault = "none" =>
           IF frames[i].role = "program" THEN MainIsProgram ELSE IsList(files, file)
      /\ frames[i].role = "program" => frames[i].fault = "none"
      /\ i = n => file = MainFile
      /\ MoreOpen(i) \in Nat
  BY DEF FrameReads
<1> HIDE DEF n, m, file
<1>9. /\ ExistsIn(files', frames'[j].path) /\ Real(frames'[j].path) \in DOMAIN files'
      /\ frames'[j].fault = "none" =>
           IF frames'[j].role = "program" THEN MainIsProgram' ELSE IsList(files', frames'[j].path)
      /\ frames'[j].role = "program" => frames'[j].fault = "none"
      /\ j = m => frames'[j].path = MainFile'
      /\ MoreOpen(j)' \in Nat
      /\ frames'[j].fault = "none" =>
           /\ Left(j)' <= Whole(j)'
           /\ \A k \in 1 .. Left(j)' : frames'[j].items[k] = ItemsOf(files', frames'[j].path)[k]
  BY <1>1, <1>2, <1>3, <1>6, <1>8
<1> QED
  BY <1>7, <1>9 DEF FrameReads, m

\* What is good of a frame stays good, when what is reduced of it was good.
GoodPiece(i, item, chunks) ==
  /\ item.import => Here(frames[i].path, item.name) \in Good(files)[MoreOpen(i)]
  /\ chunks = StandsFor(frames[i].path, item, Inclusion(files)[MoreOpen(i)])

LEMMA MovedGood ==
  ASSUME FilesInv, FilesInv', SameTree, NEW i, NEW j, Moved(i, j), FrameReads(i), FrameGood(i),
         \/ frames'[j].items = frames[i].items /\ frames'[j].chunks = frames[i].chunks
         \/ /\ frames[i].items # << >> /\ frames'[j].items = Front(frames[i].items)
            /\ \E chunks : /\ frames'[j].chunks = chunks \o frames[i].chunks
                           /\ GoodPiece(i, Last(frames[i].items), chunks)
  PROVE  FrameGood(j)'
<1>a. FrameShape /\ FrameShape'
  BY FrameFacts, PTL
<1> DEFINE n == Len(frames)
           file == frames[i].path
           items == ItemsOf(files, file)
           g == Good(files)[MoreOpen(i)]
           inc == Included(files, file, Inclusion(files)[MoreOpen(i)])
           l == Left(i)
           w == Whole(i)
<1>1. /\ n \in Nat /\ i \in 1 .. n
      /\ frames'[j].path = file /\ frames'[j].role = frames[i].role
      /\ frames'[j].fault = frames[i].fault
      /\ i < n => frames'[j + 1] = frames[i + 1]
      /\ frames[i].items \in Seq(Item) /\ l \in Nat
      /\ frames[i].role \in {"import", "prelude"} <=> i < n
  BY <1>a DEF FrameShape, Moved
<1>2. /\ MoreOpen(j)' = MoreOpen(i) /\ files' = files
      /\ PreludeFile' = PreludeFile /\ MainFile' = MainFile
  BY MovedDone, SameMain DEF SameTree
<1>3. items \in Seq(Item) /\ w \in Nat /\ w = Len(items)
  BY <1>a, ItemsFacts DEF FrameShape, FrameReads, Whole
<1>8. /\ frames[i].role # "program" /\ frames[i].fault = "none" =>
           ~ LexicalErrors(Text(files, file))
      /\ frames[i].role = "import" => file = Here(frames[i + 1].path, Last(frames[i + 1].items).name)
      /\ frames[i].role = "prelude" => file = PreludeFile /\ ~ LexicalErrors(Text(files, MainFile))
  BY DEF FrameGood
<1>4. ASSUME frames[i].fault = "none"
      PROVE  /\ \A k \in l + 1 .. w : items[k].import => Here(file, items[k].name) \in g
             /\ frames[i].chunks = inc[w - l]
             /\ l <= w /\ \A k \in 1 .. l : frames[i].items[k] = items[k]
  BY <1>4 DEF FrameGood, FrameReads
<1> HIDE DEF items, g, inc, l, w
<1>5. ASSUME frames[i].fault = "none"
      PROVE  /\ \A k \in Left(j)' + 1 .. w : items[k].import => Here(file, items[k].name) \in g
             /\ frames'[j].chunks = inc[w - Left(j)']
  <2>1. CASE frames'[j].items = frames[i].items /\ frames'[j].chunks = frames[i].chunks
    <3>1. Left(j)' = l
      BY <2>1 DEF Left, l
    <3> QED
      BY <1>4, <1>5, <2>1, <3>1
  <2>2. CASE /\ frames[i].items # << >> /\ frames'[j].items = Front(frames[i].items)
             /\ \E chunks : /\ frames'[j].chunks = chunks \o frames[i].chunks
                            /\ GoodPiece(i, Last(frames[i].items), chunks)
    <3>1. /\ Left(j)' = l - 1 /\ l > 0
          /\ Last(frames[i].items) = frames[i].items[l]
      <4>1. /\ Len(Front(frames[i].items)) = Len(frames[i].items) - 1
            /\ Len(frames[i].items) \in Nat \ {0}
            /\ Last(frames[i].items) = frames[i].items[Len(frames[i].items)]
        BY <1>1, <2>2, FrontLast
      <4> QED
        BY <2>2, <4>1 DEF Left, l
    <3>2. l \in 1 .. l /\ l \in 1 .. w /\ w - l + 1 \in 1 .. w /\ w - (w - l + 1) + 1 = l
      BY <1>1, <1>3, <1>4, <1>5, <3>1
    <3>3. Last(frames[i].items) = items[l]
      BY <1>4, <1>5, <3>1, <3>2
    <3>4. PICK chunks : /\ frames'[j].chunks = chunks \o frames[i].chunks
                        /\ GoodPiece(i, items[l], chunks)
      BY <2>2, <3>3
    <3>5. items[l].import => Here(file, items[l].name) \in g
      BY <3>4 DEF GoodPiece, g
    <3>6. inc[w - l + 1] = chunks \o inc[w - l]
      <4>1. inc[w - l + 1] =
              StandsFor(file, items[l], Inclusion(files)[MoreOpen(i)]) \o inc[(w - l + 1) - 1]
        <5>1. \A k \in 1 .. w :
                inc[k] = StandsFor(file, items[w - k + 1], Inclusion(files)[MoreOpen(i)])
                         \o inc[k - 1]
          <6> DEFINE inclusion == Inclusion(files)[MoreOpen(i)]
          <6>1. w \in Nat /\ w = Len(items) /\ items = ItemsOf(files, file)
            BY <1>3 DEF items
          <6>2. inc = Included(files, file, inclusion)
            BY DEF inc
          <6> HIDE DEF inclusion, file
          <6>3. \A k \in 1 .. w : Prepends(inc, k, StandsFor(file, items[w - k + 1], inclusion))
            BY ONLY <6>1, <6>2, IncludedLevel
          <6> QED
            BY <6>3, Zenon DEF inclusion, Prepends
        <5> DEFINE k == w - l + 1
        <5>2. k \in 1 .. w /\ w - k + 1 = l
          BY <1>3, <3>2
        <5> HIDE DEF k
        <5> QED
          BY <5>1, <5>2 DEF k
      <4>2. (w - l + 1) - 1 = w - l
        BY <1>1, <1>3
      <4> QED
        BY <3>4, <4>1, <4>2 DEF GoodPiece
    <3>7. w - Left(j)' = w - l + 1 /\ \A k \in Left(j)' + 1 .. w : k = l \/ k \in l + 1 .. w
      BY <1>1, <1>3, <3>1
    <3> QED
      BY <1>4, <1>5, <3>4, <3>5, <3>6, <3>7
  <2> QED
    BY <2>1, <2>2
<1>6. Whole(j)' = w
  BY <1>1, <1>2, <1>3 DEF Whole, items
<1>7. frames[i].role = "import" => frames'[j + 1] = frames[i + 1]
  BY <1>1
<1> HIDE DEF file
<1> QED
  BY <1>1, <1>2, <1>5, <1>6, <1>7, <1>8 DEF FrameGood, items, g, inc

LEMMA MovedImports ==
  ASSUME FilesInv, FilesInv', SameTree, NEW i, NEW j, Moved(i, j), ImportsGood(i)
  PROVE  ImportsGood(j)'
<1>1. /\ MoreOpen(j)' = MoreOpen(i) /\ files' = files
      /\ frames'[j].path = frames[i].path /\ frames'[j].fault = frames[i].fault
  BY MovedDone DEF SameTree, Moved
<1> QED
  BY <1>1 DEF ImportsGood

-----------------------------------------------------------------------------
(* The levels of the frames, and what a completely reduced file is.        *)

\* A file that is imported has one level less than the one that imports it.
LEMMA LevelFacts ==
  ASSUME FilesInv, Reads, NEW i \in 1 .. Len(frames)
  PROVE  /\ MoreOpen(i) \in 0 .. MaxOpen - 1
         /\ MoreOpen(i) \in 0 .. MaxOpen /\ MoreOpen(i) + 1 \in 1 .. MaxOpen
         /\ i = Len(frames) => MoreOpen(i) = MaxOpen - 1
         /\ frames[i].role = "import" =>
              i + 1 \in 1 .. Len(frames) /\ MoreOpen(i + 1) = MoreOpen(i) + 1
         /\ frames[i].role = "prelude" => i + 1 = Len(frames) /\ MoreOpen(i) = MaxOpen - 1
<1> DEFINE n == Len(frames)
           role == frames[i].role
           done == IF ProgramDone THEN 1 ELSE 0
<1>1. /\ n \in Nat /\ i \in 1 .. n /\ FrameReads(i)
      /\ role \in {"import", "prelude"} <=> i < n
      /\ ProgramDone <=> /\ n > 0 /\ frames[n].role = "program" /\ frames[n].items = << >>
  BY FrameFacts DEF FrameShape, Reads
<1>2. MaxOpen \in Nat \ {0} /\ done \in {0, 1}
  BY FilesAssumption
<1>3. /\ MoreOpen(i) \in Nat
      /\ role = "import" => frames[i + 1].items # << >>
      /\ role = "prelude" => i + 1 = n /\ ProgramDone
  BY <1>1 DEF FrameReads
<1>4. MoreOpen(i) = IF i = n THEN MaxOpen - 1 ELSE MaxOpen - (n - i + 1) + done
  BY DEF MoreOpen
<1>5. MoreOpen(i + 1) = IF i + 1 = n THEN MaxOpen - 1 ELSE MaxOpen - (n - (i + 1) + 1) + done
  BY DEF MoreOpen
<1>6. i + 1 = n /\ role = "import" => done = 0
  BY <1>1, <1>3
<1>7. role = "prelude" => done = 1
  BY <1>3
<1> HIDE DEF n, role, done
<1>8. MoreOpen(i) \in 0 .. MaxOpen - 1
  BY <1>1, <1>2, <1>3, <1>4
<1>9. ASSUME role = "import" PROVE i + 1 \in 1 .. n /\ MoreOpen(i + 1) = MoreOpen(i) + 1
  <2>1. i < n
    BY <1>1, <1>9
  <2>2. i + 1 \in 1 .. n /\ i # n /\ n - (i + 1) + 1 = (n - i + 1) - 1
    BY <1>1, <2>1
  <2>3. CASE i + 1 = n
    BY <1>1, <1>2, <1>4, <1>5, <1>6, <1>9, <2>2, <2>3
  <2>4. CASE i + 1 # n
    <3>1. MoreOpen(i + 1) = MaxOpen - ((n - i + 1) - 1) + done
      BY <1>5, <2>2, <2>4
    <3>2. MoreOpen(i) = MaxOpen - (n - i + 1) + done
      BY <1>4, <2>2
    <3> QED
      BY <1>1, <1>2, <2>2, <3>1, <3>2
  <2> QED
    BY <2>2, <2>3, <2>4
<1>10. role = "prelude" => i + 1 = n /\ MoreOpen(i) = MaxOpen - 1
  BY <1>1, <1>2, <1>3, <1>4, <1>7
<1> QED
  BY <1>2, <1>4, <1>8, <1>9, <1>10 DEF n, role

\* The files that are open are those that are read, but a program that is
\* completely reduced.
LEMMA StreamsFacts ==
  ASSUME FilesInv
  PROVE  StreamsOpen = IF ProgramDone THEN Len(frames) - 1 ELSE Len(frames)
<1> DEFINE n == Len(frames)
           open == {i \in DOMAIN frames : ~ (frames[i].role = "program" /\ frames[i].items = << >>)}
<1>1. /\ n \in Nat /\ DOMAIN frames = 1 .. n
      /\ \A i \in 1 .. n : frames[i].role \in {"import", "prelude"} <=> i < n
      /\ ProgramDone <=> /\ n > 0 /\ frames[n].role = "program" /\ frames[n].items = << >>
  BY FrameFacts DEF FrameShape
<1>3. StreamsOpen = Cardinality(open)
  BY DEF StreamsOpen
<1> HIDE DEF n
<1>2. \A i \in 1 .. n : frames[i].role = "program" => i = n
  BY <1>1
<1>4. CASE ProgramDone
  <2>1. open = 1 .. n - 1
    BY <1>1, <1>2, <1>4
  <2>2. Cardinality(1 .. n - 1) = n - 1
    <3>1. n - 1 \in Int /\ 1 <= n /\ n - 1 - 1 + 1 = n - 1
      BY <1>1, <1>4
    <3> QED
      BY <1>1, <3>1, FS_Interval
  <2> QED
    BY <1>3, <1>4, <2>1, <2>2 DEF n
<1>5. CASE ~ ProgramDone
  <2>1. open = 1 .. n
    BY <1>1, <1>2, <1>5
  <2>2. Cardinality(1 .. n) = n
    <3>1. n - 1 + 1 = n
      BY <1>1
    <3> QED
      BY <1>1, <3>1, FS_Interval
  <2> QED
    BY <1>3, <1>5, <2>1, <2>2 DEF n
<1> QED
  BY <1>4, <1>5

\* A file whose items have all been reduced was good, and its list is what it
\* stands for.
LEMMA WholeGood ==
  ASSUME FilesInv, Reads, NEW i \in 1 .. Len(frames), FrameGood(i),
         frames[i].items = << >>, frames[i].fault = "none",
         frames[i].role = "program" => ~ LexicalErrors(Text(files, frames[i].path))
  PROVE  /\ frames[i].path \in Path
         /\ Readable(files, frames[i].path)
         /\ frames[i].chunks = Inclusion(files)[MoreOpen(i) + 1][frames[i].path]
         /\ \A name \in ImportsOf(files, frames[i].path) :
              Here(frames[i].path, name) \in Good(files)[MoreOpen(i)]
         /\ frames[i].role # "program" => frames[i].path \in Good(files)[MoreOpen(i) + 1]
<1> DEFINE file == frames[i].path
           items == ItemsOf(files, file)
           level == MoreOpen(i)
<1>1. FrameReads(i) /\ file \in Path /\ files \in FileSystems
  BY FrameFacts DEF FrameShape, Reads
<1>2. level \in 0 .. MaxOpen - 1 /\ level + 1 \in 1 .. MaxOpen /\ level + 1 \in 0 .. MaxOpen
      /\ level + 1 > 0 /\ (level + 1) - 1 = level
  BY LevelFacts, FilesAssumption
<1>3. Real(file) \in DOMAIN files
  BY <1>1 DEF FrameReads
<1>4. /\ items \in Seq(Item) /\ Len(items) \in Nat /\ Len(items) = Whole(i)
      /\ \A name \in ImportsOf(files, file) :
           \E k \in 1 .. Len(items) : items[k].import /\ name = items[k].name
  BY <1>1, <1>3, ItemsFacts DEF Whole
<1>5. Left(i) = 0
  BY DEF Left
<1>6. \A k \in 1 .. Len(items) : items[k].import => Here(file, items[k].name) \in Good(files)[level]
  BY <1>4, <1>5 DEF FrameGood
<1>7. frames[i].chunks = Included(files, file, Inclusion(files)[level])[Len(items)]
  <2>1. Len(items) - 0 = Len(items)
    BY <1>4
  <2> QED
    BY <1>4, <1>5, <2>1 DEF FrameGood
<1> HIDE DEF level, file
<1>8. Inclusion(files)[level + 1][file] = Included(files, file, Inclusion(files)[level])[Len(items)]
  <2>1. Inclusion(files)[level + 1][file] =
          Included(files, file, Inclusion(files)[(level + 1) - 1])[Len(items)]
    BY <1>1, <1>2, InclusionLevel
  <2> QED
    BY <1>2, <2>1
<1>9. Readable(files, file)
  BY <1>1 DEF FrameReads, FrameGood, Readable, file
<1> HIDE DEF items
<1>10. \A name \in ImportsOf(files, file) : Here(file, name) \in Good(files)[level]
  BY <1>4, <1>6
<1>11. frames[i].role # "program" => file \in Good(files)[level + 1]
  <2>1. frames[i].role # "program" => IsList(files, file)
    BY <1>1 DEF FrameReads, file
  <2> QED
    BY <1>1, <1>2, <1>9, <1>10, <2>1, GoodLevel
<1> QED
  BY <1>1, <1>7, <1>8, <1>9, <1>10, <1>11 DEF file, level

-----------------------------------------------------------------------------
(* Opening a file, and finding it.                                         *)

\* What is known of a file that is read once it is open.
IsMain(role, path) == role = "main" /\ IsProgram(Tokens(Text(files, path)))
NoErrors(path) == ~ LexicalErrors(Text(files, path))
OpenedFrame(f, role, path) ==
  /\ f.path = path /\ f.chunks = << >>
  /\ f.role = IF ~ IsList(files, path) /\ IsMain(role, path) THEN "program" ELSE role
  /\ f.fault = "none" <=> IsList(files, path) \/ IsMain(role, path)
  /\ f.fault = "none" => f.items = ItemsOf(files, path)
Opened(role, path) ==
  /\ ExistsIn(files, path) /\ Real(path) \in DOMAIN files /\ StreamsOpen < MaxOpen
  /\ error_' = success /\ IsList(files, path) => NoErrors(path)
  /\ \E f : frames' = << f >> \o frames /\ OpenedFrame(f, role, path)

LEMMA OpenFileReads ==
  ASSUME NEW role, NEW path, NEW dir, NEW status \in ErrorType,
         OpenFile(role, path, dir, status)
  PROVE  /\ error_' = success => status = success
         /\ \/ stage' = "exited" /\ UNCHANGED frames
            \/ stage' = "reducing" /\ Opened(role, path)
<1> DEFINE text == files[Real(path)]
           tokens == Tokens(text)
           Opens == Exists(path) /\ Real(path) \in DOMAIN files /\ StreamsOpen < MaxOpen
           main == IsProgram(tokens) /\ role = "main"
           Begun(kind, items, fault, errors) ==
             /\ frames' = << Frame(kind, path, items, fault, input_) >> \o frames
             /\ stage' = "reducing" /\ error_' = Scanned(status, errors)
<1>1. \/ stage' = "exited" /\ error_' = Mark(status, failure) /\ UNCHANGED frames
      \/ Opens /\ IsChunks(tokens) /\ Begun(role, Items(tokens), "none", LexicalErrors(text))
      \/ /\ Opens /\ ~ IsChunks(tokens) /\ main
         /\ Begun("program", Items(tokens), "none", ErrorsAhead(text))
      \/ /\ Opens /\ ~ IsChunks(tokens) /\ ~ main
         /\ Begun(role, BeforeFault(tokens), Fault(tokens), ErrorsAhead(text))
  BY DEF OpenFile, End
<1>2. /\ Mark(status, failure) # success
      /\ \A errors : Scanned(status, errors) = success => status = success /\ ~ errors
  <2>1. ErrorType = 0 .. 5 /\ success = 0 /\ failure = 1 /\ scan = 2
    BY DEF ErrorType, success, failure, scan, type
  <2>2. \A e \in {failure, scan} : Mark(status, e) # success
    BY <2>1 DEF Mark
  <2> QED
    BY <2>2 DEF Scanned
<1>3. /\ Text(files, path) = text
      /\ ItemsOf(files, path) = Items(tokens)
      /\ IsList(files, path) <=> IsChunks(tokens)
      /\ IsMain(role, path) <=> main
      /\ NoErrors(path) <=> ~ LexicalErrors(text)
      /\ Exists(path) <=> ExistsIn(files, path)
  BY DEF Text, ItemsOf, IsList, IsMain, NoErrors, Exists
<1>4. Fault(tokens) # "none"
  BY DEF Fault
<1> HIDE DEF text, tokens, main
<1>5. ASSUME NEW kind, NEW items, NEW fault, NEW errors, Opens, Begun(kind, items, fault, errors),
             kind = IF ~ IsChunks(tokens) /\ main THEN "program" ELSE role,
             fault = "none" <=> IsChunks(tokens) \/ main,
             fault = "none" => items = Items(tokens),
             IsChunks(tokens) => (errors <=> LexicalErrors(text))
      PROVE  stage' = "reducing" /\ Opened(role, path) /\ (error_' = success => status = success)
  <2> DEFINE f == Frame(kind, path, items, fault, input_)
  <2>1. f.path = path /\ f.chunks = << >> /\ f.role = kind /\ f.fault = fault /\ f.items = items
    BY DEF Frame
  <2>2. /\ frames' = << f >> \o frames /\ stage' = "reducing"
        /\ error_' = success => status = success /\ ~ errors
    BY <1>2, <1>5
  <2> HIDE DEF f, Begun
  <2>3. OpenedFrame(f, role, path)
    BY <1>3, <1>5, <2>1 DEF OpenedFrame
  <2>4. error_' = success /\ IsList(files, path) => NoErrors(path)
    BY <1>3, <1>5, <2>2 DEF text
  <2> QED
    BY <1>3, <1>5, <2>2, <2>3, <2>4 DEF Opened
<1> HIDE DEF Begun, Opens
<1>6. CASE Opens /\ IsChunks(tokens) /\ Begun(role, Items(tokens), "none", LexicalErrors(text))
  BY <1>5, <1>6
<1>7. CASE /\ Opens /\ ~ IsChunks(tokens) /\ main
           /\ Begun("program", Items(tokens), "none", ErrorsAhead(text))
  BY <1>5, <1>7
<1>8. CASE /\ Opens /\ ~ IsChunks(tokens) /\ ~ main
           /\ Begun(role, BeforeFault(tokens), Fault(tokens), ErrorsAhead(text))
  BY <1>4, <1>5, <1>8
<1> QED
  BY <1>1, <1>2, <1>6, <1>7, <1>8

\* A good file is opened and read.
LEMMA OpenFileGood ==
  ASSUME NEW role, NEW path, NEW dir, NEW status,
         OpenFile(role, path, dir, status), Readable(files, path), StreamsOpen < MaxOpen,
         IsList(files, path) \/ IsMain(role, path)
  PROVE  stage' = "reducing" /\ error_' = status
<1> DEFINE text == files[Real(path)]
           tokens == Tokens(text)
<1>1. /\ Exists(path) /\ Real(path) \in DOMAIN files /\ StreamsOpen < MaxOpen
      /\ ~ LexicalErrors(text)
      /\ IsChunks(tokens) \/ (IsProgram(tokens) /\ role = "main")
  BY DEF Readable, Exists, Text, IsList, IsMain
<1>2. Scanned(status, LexicalErrors(text)) = status /\ Scanned(status, ErrorsAhead(text)) = status
  BY <1>1 DEF Scanned, ErrorsAhead
<1> QED
  BY <1>1, <1>2 DEF OpenFile, End

\* What is found in the directory that is read is the file of that name there.
LEMMA HereFound ==
  ASSUME FilesInv, frames # << >>, NEW name \in Names
  PROVE  /\ Head(current_directory_) = ParentPath(frames[1].path)
         /\ FoundHere(name) <=> ExistsIn(files, Here(frames[1].path, name))
         /\ FoundHere(name) =>
              /\ Found(name)
              /\ FindFile(name) = ParentPath(Here(frames[1].path, name))
              /\ AbsolutePath(name) = Here(frames[1].path, name)
<1> DEFINE dir == ParentPath(frames[1].path)
           path == Here(frames[1].path, name)
<1>1. FilesTypeOK /\ OneDirectoryEach /\ Len(frames) \in Nat \ {0} /\ 1 \in DOMAIN frames
  BY FrameFacts DEF FilesInv, FrameShape
<1>2. Head(current_directory_) = dir
  <2>1. current_directory_ \in Seq(Path) /\ current_directory_ # << >>
    BY <1>1, StackFacts DEF FilesTypeOK
  <2>2. Head(current_directory_) = current_directory_[1]
    BY <2>1
  <2> QED
    BY <1>1, <2>2 DEF OneDirectoryEach
<1>3. dir \in Path
  <2>1. frames[1].path \in Path
    BY <1>1, FrameFacts DEF FrameShape
  <2> QED
    BY <2>1, ParentType
<1>4. path = Join(dir, name)
  BY DEF Here
<1>5. FoundHere(name) <=> ExistsIn(files, path)
  BY <1>2, <1>4 DEF FoundHere, FindInDirectory, Exists
<1>6. ASSUME FoundHere(name) PROVE Found(name) /\ FindFile(name) = ParentPath(path)
  BY <1>2, <1>4, <1>6 DEF Found, FindFile
<1> HIDE DEF dir, path
<1>7. /\ path \in Seq(STRING) /\ path # << >> /\ Last(path) = Last(name.path)
  <2>1. /\ dir \in Seq(STRING) /\ name.path \in Seq(STRING) /\ name.path # << >>
    BY <1>3 DEF Path, Names
  <2>2. CASE name.absolute
    BY <1>4, <2>1, <2>2 DEF Join
  <2>3. CASE ~ name.absolute
    <3> DEFINE both == dir \o name.path
    <3>1. /\ both \in Seq(STRING) /\ Len(both) = Len(dir) + Len(name.path)
          /\ \A i \in 1 .. Len(dir) + Len(name.path) :
               both[i] = IF i <= Len(dir) THEN dir[i] ELSE name.path[i - Len(dir)]
      BY <2>1, ConcatProperties
    <3>2. Len(dir) \in Nat /\ Len(name.path) \in Nat \ {0}
          /\ Last(name.path) = name.path[Len(name.path)]
      <4> DEFINE rest == name.path
      <4>1. dir \in Seq(STRING) /\ rest \in Seq(STRING) /\ rest # << >>
        BY <2>1
      <4> HIDE DEF rest
      <4>2. Len(rest) \in Nat \ {0} /\ Last(rest) = rest[Len(rest)]
        BY ONLY <4>1, FrontLast
      <4>3. Len(dir) \in Nat
        BY ONLY <4>1
      <4> QED
        BY <4>2, <4>3 DEF rest
    <3> HIDE DEF both
    <3>3. both # << >>
      BY <3>1, <3>2
    <3>4. Last(both) = both[Len(both)]
      BY <3>1, <3>3, FrontLast
    <3>5. both[Len(both)] = name.path[Len(name.path)]
      BY <3>1, <3>2
    <3> QED
      BY <1>4, <2>3, <3>1, <3>2, <3>3, <3>4, <3>5 DEF Join, both
  <2> QED
    BY <2>2, <2>3
<1>8. Front(path) \o << Last(path) >> = path
  <2>1. /\ Front(path) \in Seq(STRING) /\ Len(Front(path)) = Len(path) - 1
        /\ Len(path) \in Nat \ {0} /\ Last(path) = path[Len(path)]
        /\ \A i \in 1 .. Len(path) - 1 : Front(path)[i] = path[i]
    BY <1>7, FrontLast
  <2> DEFINE front == Front(path)
             one == << Last(path) >>
  <2>2. one \in Seq(STRING) /\ Len(one) = 1 /\ one[1] = path[Len(path)]
    <3>1. path[Len(path)] \in STRING
      BY <1>7, <2>1
    <3> QED
      BY <2>1, <3>1
  <2> HIDE DEF front, one
  <2>3. /\ front \o one \in Seq(STRING) /\ Len(front \o one) = Len(front) + Len(one)
        /\ \A i \in 1 .. Len(front) + Len(one) :
             (front \o one)[i] = IF i <= Len(front) THEN front[i] ELSE one[i - Len(front)]
    BY <2>1, <2>2, ConcatProperties DEF front
  <2>4. front \in Seq(STRING) /\ Len(front) = Len(path) - 1
        /\ \A i \in 1 .. Len(path) - 1 : front[i] = path[i]
    BY <2>1 DEF front
  <2> DEFINE both == front \o one
  <2>5. both \in Seq(STRING) /\ Len(both) = Len(path) /\ \A i \in 1 .. Len(path) : both[i] = path[i]
    BY <2>1, <2>2, <2>3, <2>4
  <2> HIDE DEF both
  <2>6. both = path
    BY <1>7, <2>5
  <2> QED
    BY <2>6 DEF both, front, one
<1>9. FoundHere(name) => AbsolutePath(name) = path
  BY <1>6, <1>7, <1>8 DEF AbsolutePath, Filename, ParentPath
<1> QED
  BY <1>2, <1>5, <1>6, <1>9 DEF dir, path

LEMMA HereType ==
  ASSUME NEW file \in Path, NEW name \in Names
  PROVE  Here(file, name) \in Path
BY ParentType, JoinType DEF Here

\* Where nothing is found in the search path, or the file is beside the one that
\* imports it, it is the file beside it that is found.
LEMMA FindsBeside ==
  ASSUME FilesInv, frames # << >>, NEW name \in Names, Found(name),
         search_path_ = << >> \/ ExistsIn(files, Here(frames[1].path, name))
  PROVE  AbsolutePath(name) = Here(frames[1].path, name)
<1>1. search_path_ = << >> => FoundHere(name)
  BY DEF Found, FoundInSearchPath
<1> QED
  BY <1>1, HereFound

\* The import that is reduced next is one of the file's.
LEMMA LastImports ==
  ASSUME FilesInv, Reads, NEW i \in 1 .. Len(frames), frames[i].items # << >>,
         Last(frames[i].items).import
  PROVE  /\ Last(frames[i].items).name \in Names
         /\ frames[i].fault = "none" =>
              Last(frames[i].items).name \in ImportsOf(files, frames[i].path)
         /\ Here(frames[i].path, Last(frames[i].items).name) \in Path
<1> DEFINE file == frames[i].path
           items == ItemsOf(files, file)
           l == Left(i)
<1>1. FrameReads(i) /\ file \in Path /\ files \in FileSystems /\ frames[i].items \in Seq(Item)
  BY FrameFacts DEF FrameShape, Reads
<1>2. l \in Nat \ {0} /\ Last(frames[i].items) = frames[i].items[l]
  BY <1>1, FrontLast DEF Left
<1>3. Last(frames[i].items) \in Item
  <2>1. l \in 1 .. l
    BY <1>2
  <2> QED
    BY <1>1, <1>2, <2>1 DEF Left
<1>4. Last(frames[i].items).name \in Names
  BY <1>3 DEF Item
<1>5. Here(file, Last(frames[i].items).name) \in Path
  BY <1>1, <1>4, HereType
<1>6. ASSUME frames[i].fault = "none"
      PROVE  Last(frames[i].items).name \in ImportsOf(files, file)
  <2>1. /\ Real(file) \in DOMAIN files /\ l <= Len(items)
        /\ \A k \in 1 .. l : frames[i].items[k] = items[k]
    BY <1>1, <1>6 DEF FrameReads, Whole
  <2>2. /\ Len(items) \in Nat
        /\ \A k \in 1 .. Len(items) : items[k].import => items[k].name \in ImportsOf(files, file)
    BY <1>1, <2>1, ItemsFacts
  <2> HIDE DEF l, items, file
  <2>3. l \in 1 .. l /\ l \in 1 .. Len(items)
    BY <1>2, <2>1, <2>2
  <2> QED
    BY <1>2, <2>1, <2>2, <2>3
<1> QED
  BY <1>4, <1>5, <1>6

\* A good file is not being imported already: if it were, the files that lead
\* from it to itself would lie at ever lower levels.
LEMMA NotRefused ==
  ASSUME FilesInv, Reads, stage = "reducing", frames[1].items # << >>, NextItem.import,
         \A i \in DOMAIN frames : ImportsGood(i) /\ FrameGood(i)
  PROVE  ~ Refused(Here(frames[1].path, NextItem.name))
<1> DEFINE n == Len(frames)
           path == Here(frames[1].path, NextItem.name)
           Levels == {m \in 0 .. MaxOpen : path \in Good(files)[m]}
<1>1. /\ n \in Nat /\ n > 0 /\ DOMAIN frames = 1 .. n
      /\ \A i \in 1 .. n : frames[i].role \in {"import", "prelude"} <=> i < n
      /\ open_files_ = {frames[i].path : i \in 1 .. n - 1}
  <2>1. frames # << >>
    BY DEF FilesInv, BegunBelow
  <2> QED
    BY <2>1, FrameFacts DEF FilesInv, FrameShape, ImportedOnce, Importing
<1>2. MaxOpen \in Nat \ {0}
  BY FilesAssumption
<1> HIDE DEF n
<1>3. \A i \in 1 .. n : frames[i].items # << >> /\ Last(frames[i].items).import =>
        /\ Last(frames[i].items).name \in ImportsOf(files, frames[i].path)
        /\ Here(frames[i].path, Last(frames[i].items).name) \in Path
  BY <1>1, LastImports DEF n, ImportsGood
<1>4. path \in Path /\ NextItem.name \in ImportsOf(files, frames[1].path)
  <2>1. 1 \in 1 .. n
    BY <1>1
  <2> QED
    BY <1>3, <2>1 DEF NextItem
<1>5. \A m \in 0 .. MaxOpen, file \in Path :
        file \in Good(files)[m] =>
          m > 0 /\ \A name \in ImportsOf(files, file) : Here(file, name) \in Good(files)[m - 1]
  BY GoodLevel
<1>6. Levels # {}
  <2>1. ImportsGood(1) /\ MoreOpen(1) \in 0 .. MaxOpen
    <3>1. 1 \in 1 .. n /\ 1 \in DOMAIN frames
      BY <1>1
    <3> QED
      BY <3>1, LevelFacts DEF n
  <2> QED
    BY <1>4, <2>1 DEF ImportsGood
<1> HIDE DEF path
<1> SUFFICES ASSUME NEW i \in 1 .. n - 1, path = frames[i].path PROVE FALSE
  BY <1>1 DEF Refused, path
<1>7. PICK m \in Levels : \A k \in Levels : m <= k
  <2>1. Levels \in SUBSET Nat
    BY <1>2
  <2> HIDE DEF Levels
  <2> QED
    BY <1>6, <2>1, LeastNumber
<1>8. m \in 0 .. MaxOpen /\ path \in Good(files)[m]
  OBVIOUS
<1>9. \A k \in 0 .. MaxOpen : path \in Good(files)[k] => m <= k
  BY <1>7
<1> HIDE DEF Levels
<1>10. \A j \in 1 .. n : frames[j].path \in Path
  BY FrameFacts DEF FrameShape, n
<1>11. ASSUME NEW j \in 1 .. n - 1, j + 1 \in 1 .. n - 1
       PROVE  /\ frames[j].path = Here(frames[j + 1].path, Last(frames[j + 1].items).name)
              /\ Last(frames[j + 1].items).name \in ImportsOf(files, frames[j + 1].path)
  <2>1. j \in 1 .. n /\ j + 1 \in 1 .. n /\ j < n /\ j + 1 # n /\ j \in DOMAIN frames
    BY <1>1, <1>11
  <2>2. frames[j].role = "import"
    <3>1. frames[j].role = "prelude" => j + 1 = n
      BY <2>1 DEF Reads, FrameReads, n
    <3> QED
      BY <1>1, <2>1, <3>1
  <2>3. FrameReads(j) /\ FrameGood(j)
    BY <2>1 DEF Reads
  <2>4. /\ frames[j].path = Here(frames[j + 1].path, Last(frames[j + 1].items).name)
        /\ frames[j + 1].items # << >> /\ Last(frames[j + 1].items).import
    BY <2>2, <2>3 DEF FrameReads, FrameGood
  <2> QED
    BY <1>3, <2>1, <2>4
<1> DEFINE Below(d) == m - d \in 0 .. MaxOpen /\ frames[i - d].path \in Good(files)[m - d]
           D == {d \in 0 .. i - 1 : ~ Below(d)}
<1>12. D = {}
  <2> SUFFICES ASSUME D # {} PROVE FALSE
    OBVIOUS
  <2>1. PICK d \in D : \A k \in D : d <= k
    <3>1. D \in SUBSET Nat
      BY <1>1
    <3> HIDE DEF D
    <3> QED
      BY <3>1, LeastNumber
  <2>2. d \in 0 .. i - 1 /\ ~ Below(d)
    OBVIOUS
  <2>3. d # 0
    <3>1. Below(0)
      BY <1>1, <1>8
    <3> HIDE DEF Below
    <3> QED
      BY <2>2, <3>1
  <2>4. d - 1 \in 0 .. i - 1 /\ Below(d - 1)
    <3> HIDE DEF Below
    <3>1. d - 1 \in 0 .. i - 1
      BY <1>1, <2>2, <2>3
    <3>2. d - 1 \notin D
      BY <2>1, <2>2
    <3> QED
      BY <3>1, <3>2
  <2> HIDE DEF D
  <2> DEFINE j == i - d
             k == m - d
  <2>5. /\ j \in 1 .. n - 1 /\ j + 1 \in 1 .. n - 1 /\ j + 1 \in 1 .. n
        /\ i - (d - 1) = j + 1 /\ m - (d - 1) = k + 1 /\ (k + 1) - 1 = k
    BY <1>1, <1>8, <2>2, <2>3
  <2>6. k + 1 \in 0 .. MaxOpen /\ frames[j + 1].path \in Good(files)[k + 1]
    BY <2>4, <2>5
  <2>7. k \in Int
    BY <1>8, <2>2
  <2> HIDE DEF j, k, Below
  <2>8. k + 1 > 0 /\ frames[j].path \in Good(files)[k]
    <3>1. /\ k + 1 > 0
          /\ \A name \in ImportsOf(files, frames[j + 1].path) :
               Here(frames[j + 1].path, name) \in Good(files)[(k + 1) - 1]
      BY <1>5, <1>10, <2>5, <2>6
    <3> QED
      BY <1>11, <2>5, <3>1
  <2>9. k \in 0 .. MaxOpen
    BY <1>2, <2>6, <2>7, <2>8
  <2> QED
    BY <2>2, <2>8, <2>9 DEF Below, j, k
<1>13. Below(i - 1)
  <2>1. i - 1 \in 0 .. i - 1
    BY <1>1
  <2> HIDE DEF Below
  <2> QED
    BY <1>12, <2>1
<1> HIDE DEF D
<1> DEFINE k == m - i + 1
<1>14. k \in 0 .. MaxOpen /\ frames[1].path \in Good(files)[k]
  <2>1. m - (i - 1) = k /\ i - (i - 1) = 1
    BY <1>1, <1>8
  <2> QED
    BY <1>13, <2>1
<1>15. k > 0 /\ path \in Good(files)[k - 1]
  <2>1. 1 \in 1 .. n
    BY <1>1
  <2>2. k > 0 /\ \A name \in ImportsOf(files, frames[1].path) :
                   Here(frames[1].path, name) \in Good(files)[k - 1]
    <3> HIDE DEF k
    <3> QED
      BY <1>5, <1>10, <1>14, <2>1
  <2> QED
    BY <1>4, <2>2 DEF path
<1>16. k - 1 \in 0 .. MaxOpen /\ k - 1 < m
  BY <1>1, <1>2, <1>8, <1>14, <1>15
<1> HIDE DEF k
<1> QED
  BY <1>1, <1>8, <1>9, <1>14, <1>15, <1>16

-----------------------------------------------------------------------------
(* The steps.                                                              *)

\* The list of a frame is what it was, or what was reduced goes in front of it
\* and was good.
Kept(i, j) ==
  \/ frames'[j].items = frames[i].items /\ frames'[j].chunks = frames[i].chunks
  \/ /\ frames[i].items # << >> /\ frames'[j].items = Front(frames[i].items)
     /\ \E chunks : /\ frames'[j].chunks = chunks \o frames[i].chunks
                    /\ GoodPiece(i, Last(frames[i].items), chunks)

LEMMA KeptFrames ==
  ASSUME FilesInv, FilesInv', SameTree, Reads, NEW d \in Int, NEW from \in Nat,
         \A j \in from .. Len(frames') : Moved(j + d, j)
  PROVE  /\ \A j \in from .. Len(frames') : FrameReads(j)'
         /\ (\A i \in DOMAIN frames : ImportsGood(i)) =>
              \A j \in from .. Len(frames') : ImportsGood(j)'
         /\ (\A i \in DOMAIN frames : FrameGood(i)) =>
              \A j \in from .. Len(frames') : Kept(j + d, j) => FrameGood(j)'
<1>1. DOMAIN frames = 1 .. Len(frames) /\ \A i \in DOMAIN frames : FrameReads(i)
  BY FrameFacts DEF FrameShape, Reads
<1>2. SUFFICES ASSUME NEW j \in from .. Len(frames')
               PROVE  /\ FrameReads(j)'
                      /\ (\A i \in DOMAIN frames : ImportsGood(i)) => ImportsGood(j)'
                      /\ (\A i \in DOMAIN frames : FrameGood(i)) => (Kept(j + d, j) => FrameGood(j)')
  OBVIOUS
<1> DEFINE i == j + d
<1>3. Moved(i, j)
  BY <1>2
<1> HIDE DEF i
<1>4. i \in DOMAIN frames
  BY <1>1, <1>3 DEF Moved
<1>5. FrameReads(i)
  BY <1>1, <1>4
<1>6. FrameReads(j)'
  BY <1>3, <1>5, MovedReads
<1>7. ImportsGood(i) => ImportsGood(j)'
  BY <1>3, MovedImports
<1>8. FrameGood(i) /\ Kept(i, j) => FrameGood(j)'
  BY <1>3, <1>5, MovedGood DEF Kept
<1> QED
  BY <1>4, <1>6, <1>7, <1>8 DEF i

\* What makes the invariant hold after a step.
LEMMA Assembled ==
  ASSUME FilesInv', SameTree,
         \A j \in 1 .. Len(frames') : FrameReads(j)',
         FoundBeside' => /\ \A j \in 1 .. Len(frames') : FrameGood(j)'
                         /\ stage' = "parsed" => GoodMain /\ GoodPrelude /\ result' = Expected,
         GoodMain /\ GoodPrelude =>
           /\ error_' = success /\ stage' \in {"options", "reducing", "parsed"}
           /\ \A j \in 1 .. Len(frames') : ImportsGood(j)'
  PROVE  GoodFilesInv'
<1>1. DOMAIN frames' = 1 .. Len(frames')
  <2>1. FrameShape'
    BY FrameFacts, PTL
  <2> QED
    BY <2>1 DEF FrameShape
<1>2. (GoodMain' <=> GoodMain) /\ (GoodPrelude' <=> GoodPrelude) /\ Expected' = Expected
  BY SameMain
<1>3. Reads'
  BY <1>1 DEF Reads
<1>4. ReadsGood'
  BY <1>1, <1>2 DEF ReadsGood
<1>5. NothingFails'
  BY <1>1, <1>2 DEF NothingFails
<1> QED
  BY <1>3, <1>4, <1>5 DEF GoodFilesInv

\* A file that fails to be read leaves the frames as they are.
LEMMA SameFrames ==
  ASSUME FilesInv, FilesInv', SameTree, Reads, UNCHANGED frames
  PROVE  /\ \A j \in 1 .. Len(frames') : FrameReads(j)'
         /\ (\A i \in DOMAIN frames : ImportsGood(i)) =>
              \A j \in 1 .. Len(frames') : ImportsGood(j)'
         /\ (\A i \in DOMAIN frames : FrameGood(i)) =>
              \A j \in 1 .. Len(frames') : FrameGood(j)'
<1>1. \A j \in 1 .. Len(frames') : Moved(j + 0, j) /\ Kept(j + 0, j)
  <2>1. Len(frames) \in Nat /\ Len(frames') = Len(frames)
    BY FrameFacts DEF FrameShape
  <2> SUFFICES ASSUME NEW j \in 1 .. Len(frames') PROVE Moved(j, j) /\ Kept(j, j)
    BY <2>1
  <2> QED
    BY <2>1 DEF Moved, Kept
<1> QED
  BY <1>1, KeptFrames, 0 \in Int, 1 \in Nat

\* The file that is opened: the program, what the item reduced next imports, or
\* the prelude.
Begins(role, path) ==
  \/ role = "main" /\ frames = << >> /\ path = MainFile
  \/ /\ role = "import" /\ frames # << >> /\ frames[1].items # << >>
     /\ Last(frames[1].items).import
     /\ FoundBeside => path = Here(frames[1].path, Last(frames[1].items).name)
  \/ /\ role = "prelude" /\ Len(frames) = 1 /\ ProgramDone /\ ~ BuiltinPrelude
     /\ FoundBeside => path = PreludeFile

\* Of good files, the next one is good as deep as files may be opened.
LEMMA GoodNext ==
  ASSUME FilesInv, Reads, NothingFails, GoodMain, GoodPrelude,
         NEW role, NEW path \in Path, Begins(role, path)
  PROVE  /\ Readable(files, path) /\ StreamsOpen \in Nat /\ StreamsOpen < MaxOpen
         /\ IsList(files, path) \/ IsMain(role, path)
         /\ \A name \in ImportsOf(files, path) :
              Here(path, name) \in Good(files)[MaxOpen - 1 - StreamsOpen]
<1> DEFINE n == Len(frames)
<1>1. /\ n \in Nat /\ DOMAIN frames = 1 .. n
      /\ ProgramDone <=> /\ n > 0 /\ frames[n].role = "program" /\ frames[n].items = << >>
      /\ frames = << >> <=> n = 0
      /\ MaxOpen \in Nat \ {0}
  BY FrameFacts, FilesAssumption DEF FrameShape
<1>2. StreamsOpen = IF ProgramDone THEN n - 1 ELSE n
  BY StreamsFacts
<1>3. FoundBeside
  BY DEF FoundBeside
<1> HIDE DEF n
<1>4. \A m \in 0 .. MaxOpen :
        path \in Good(files)[m] =>
          /\ m > 0 /\ Readable(files, path) /\ IsList(files, path)
          /\ \A name \in ImportsOf(files, path) : Here(path, name) \in Good(files)[m - 1]
  BY GoodLevel
<1>5. CASE role = "main" /\ frames = << >> /\ path = MainFile
  <2>1. StreamsOpen = 0 /\ MaxOpen - 1 - StreamsOpen = MaxOpen - 1
    BY <1>1, <1>2, <1>5
  <2>2. /\ Readable(files, path)
        /\ IsList(files, path) \/ IsProgram(Tokens(Text(files, path)))
        /\ \A name \in ImportsOf(files, path) : Here(path, name) \in Good(files)[MaxOpen - 1]
    BY <1>5 DEF GoodMain, MainIsProgram
  <2> QED
    BY <1>1, <1>5, <2>1, <2>2 DEF IsMain
<1>6. ASSUME role # "main", path \in Good(files)[MaxOpen - StreamsOpen],
             StreamsOpen \in Nat, MaxOpen - StreamsOpen \in 0 .. MaxOpen
      PROVE  /\ Readable(files, path) /\ StreamsOpen < MaxOpen /\ IsList(files, path)
             /\ \A name \in ImportsOf(files, path) :
                  Here(path, name) \in Good(files)[MaxOpen - 1 - StreamsOpen]
  <2> DEFINE m == MaxOpen - StreamsOpen
  <2>1. m \in 0 .. MaxOpen /\ path \in Good(files)[m]
    BY <1>6
  <2>2. m - 1 = MaxOpen - 1 - StreamsOpen /\ (m > 0 => StreamsOpen < MaxOpen)
    BY <1>1, <1>6
  <2> HIDE DEF m
  <2>3. /\ m > 0 /\ Readable(files, path) /\ IsList(files, path)
        /\ \A name \in ImportsOf(files, path) : Here(path, name) \in Good(files)[m - 1]
    BY <1>4, <2>1
  <2> QED
    BY <2>2, <2>3
<1>7. CASE /\ role = "import" /\ frames # << >> /\ frames[1].items # << >>
           /\ Last(frames[1].items).import
           /\ path = Here(frames[1].path, Last(frames[1].items).name)
  <2>1. n > 0 /\ 1 \in 1 .. n /\ 1 \in DOMAIN frames
    BY <1>1, <1>7
  <2>2. MoreOpen(1) \in 0 .. MaxOpen /\ path \in Good(files)[MoreOpen(1)]
    <3>1. ImportsGood(1)
      BY <2>1 DEF NothingFails
    <3>2. Last(frames[1].items).name \in ImportsOf(files, frames[1].path)
      BY <1>7, <2>1, <3>1, LastImports DEF n, ImportsGood
    <3>3. MoreOpen(1) \in 0 .. MaxOpen
      BY <2>1, LevelFacts DEF n
    <3> QED
      BY <1>7, <3>1, <3>2, <3>3 DEF ImportsGood
  <2>3. MoreOpen(1) = MaxOpen - StreamsOpen
    <3>1. MoreOpen(1) = IF 1 = n THEN MaxOpen - 1
                        ELSE MaxOpen - (n - 1 + 1) + (IF ProgramDone THEN 1 ELSE 0)
      BY DEF MoreOpen, n
    <3>2. n = 1 => ~ ProgramDone
      BY <1>1, <1>7
    <3> QED
      BY <1>1, <1>2, <2>1, <3>1, <3>2
  <2>4. StreamsOpen \in Nat
    BY <1>1, <1>2, <2>1
  <2> QED
    BY <1>6, <1>7, <2>2, <2>3, <2>4
<1>8. CASE role = "prelude" /\ Len(frames) = 1 /\ ProgramDone /\ ~ BuiltinPrelude /\ path = PreludeFile
  <2>1. n = 1 /\ StreamsOpen = 0 /\ MaxOpen - StreamsOpen = MaxOpen
    BY <1>1, <1>2, <1>8 DEF n
  <2>2. MainIsProgram
    <3>1. FrameReads(1)
      BY <1>1, <2>1 DEF Reads
    <3>2. frames[1].role = "program"
      BY <1>1, <1>8, <2>1
    <3> QED
      BY <3>1, <3>2 DEF FrameReads
  <2>3. path \in Good(files)[MaxOpen]
    BY <1>8, <2>2 DEF GoodPrelude
  <2> QED
    BY <1>1, <1>6, <1>8, <2>1, <2>3
<1> QED
  BY <1>3, <1>5, <1>7, <1>8 DEF Begins

\* The frame of a file that was opened, above those that were there.
LEMMA OpenedReads ==
  ASSUME FilesInv, FilesInv', SameTree, Reads,
         NEW role, NEW path \in Path, Begins(role, path), Opened(role, path)
  PROVE  /\ Len(frames') \in Nat
         /\ \A j \in 2 .. Len(frames') : Moved(j - 1, j) /\ Kept(j - 1, j)
         /\ FrameReads(1)'
         /\ MoreOpen(1)' = MaxOpen - 1 - StreamsOpen
         /\ OpenedFrame(frames'[1], role, path)
         /\ role # "main" => frames'[2] = frames[1]
<1> DEFINE n == Len(frames)
<1>1. /\ n \in Nat /\ DOMAIN frames = 1 .. n /\ frames \in Seq(FrameType)
      /\ ProgramDone <=> /\ n > 0 /\ frames[n].role = "program" /\ frames[n].items = << >>
      /\ frames = << >> <=> n = 0
      /\ files \in FileSystems /\ MaxOpen \in Nat \ {0}
  BY FrameFacts, FilesAssumption DEF FrameShape
<1>2. /\ Len(frames') \in Nat /\ frames' \in Seq(FrameType)
      /\ ProgramDone' <=> /\ Len(frames') > 0
                          /\ frames'[Len(frames')].role = "program"
                          /\ frames'[Len(frames')].items = << >>
  <2>1. FrameShape'
    BY FrameFacts, PTL
  <2> QED
    BY <2>1 DEF FrameShape
<1>3. PICK f : frames' = << f >> \o frames /\ OpenedFrame(f, role, path)
  BY DEF Opened
<1> DEFINE kind == f.role
<1>4. /\ f.path = path
      /\ kind = IF ~ IsList(files, path) /\ IsMain(role, path) THEN "program" ELSE role
      /\ f.fault = "none" <=> IsList(files, path) \/ IsMain(role, path)
      /\ f.fault = "none" => f.items = ItemsOf(files, path)
  BY <1>3 DEF OpenedFrame
<1> HIDE DEF n, kind
<1>5. Len(frames') = n + 1 /\ frames'[1] = f /\ \A i \in 1 .. n : frames'[i + 1] = frames[i]
  <2> DEFINE S == FrameType \cup {f}
             one == << f >>
  <2>1. one \in Seq(S) /\ frames \in Seq(S) /\ Len(one) = 1 /\ one[1] = f
    BY <1>1
  <2>2. frames' = one \o frames
    BY <1>3
  <2> HIDE DEF S, one
  <2>3. /\ Len(one \o frames) = Len(one) + Len(frames)
        /\ \A i \in 1 .. Len(one) + Len(frames) :
             (one \o frames)[i] = IF i <= Len(one) THEN one[i] ELSE frames[i - Len(one)]
    BY <2>1, ConcatProperties
  <2>4. Len(frames') = n + 1 /\ \A i \in 1 .. n + 1 : frames'[i] = IF i <= 1 THEN f ELSE frames[i - 1]
    BY <1>1, <2>1, <2>2, <2>3 DEF n
  <2> QED
    BY <1>1, <2>4
<1>6. role \in {"main", "import", "prelude"} /\ (role = "main" <=> n = 0)
  BY <1>1 DEF Begins, n
<1>7. \A j \in 2 .. n + 1 : frames'[j] = frames[j - 1] /\ j - 1 \in 1 .. n
  BY <1>1, <1>5
<1>8. \A j \in 2 .. n + 1 : Moved(j - 1, j) /\ Kept(j - 1, j)
  <2> SUFFICES ASSUME NEW j \in 2 .. n + 1 PROVE Moved(j - 1, j) /\ Kept(j - 1, j)
    OBVIOUS
  <2>1. /\ frames'[j] = frames[j - 1] /\ j - 1 \in 1 .. n /\ j \in 1 .. Len(frames')
        /\ Len(frames') - j = n - (j - 1)
    BY <1>1, <1>5, <1>7
  <2>2. j - 1 < n => frames'[j + 1] = frames[(j - 1) + 1] /\ frames'[Len(frames')] = frames[n]
    BY <1>1, <1>5, <1>7, <2>1
  <2> QED
    BY <2>1, <2>2 DEF Moved, Kept, n
<1>9. n > 0 => frames'[Len(frames')] = frames[n] /\ (ProgramDone' <=> ProgramDone)
  BY <1>1, <1>2, <1>5
<1>10. StreamsOpen = (IF ProgramDone THEN n - 1 ELSE n) /\ StreamsOpen < MaxOpen
  BY StreamsFacts DEF Opened, n
<1>11. MoreOpen(1)' = MaxOpen - 1 - StreamsOpen
  <2> DEFINE done == IF ProgramDone' THEN 1 ELSE 0
  <2>1. MoreOpen(1)' = IF 1 = Len(frames') THEN MaxOpen - 1 ELSE MaxOpen - (Len(frames') - 1 + 1) + done
    BY DEF MoreOpen
  <2>2. n > 0 => done = IF ProgramDone THEN 1 ELSE 0
    BY <1>9
  <2>3. n = 0 => ~ ProgramDone
    BY <1>1
  <2>4. done \in {0, 1}
    OBVIOUS
  <2> HIDE DEF done
  <2>5. CASE n = 0
    BY <1>1, <1>5, <1>10, <2>1, <2>3, <2>5
  <2>6. CASE n > 0
    <3>1. MoreOpen(1)' = MaxOpen - (n + 1) + done
      BY <1>1, <1>5, <2>1, <2>4, <2>6
    <3> QED
      BY <1>1, <1>10, <2>2, <2>6, <3>1
  <2> QED
    BY <1>1, <2>5, <2>6
<1>12. MoreOpen(1)' \in Nat
  BY <1>1, <1>10, <1>11
<1>13. /\ MainFile' = MainFile /\ (MainIsProgram' <=> MainIsProgram) /\ files' = files
       /\ (BuiltinPrelude' <=> BuiltinPrelude)
  BY SameMain DEF SameTree
<1>14. ExistsIn(files, path) /\ Real(path) \in DOMAIN files
  BY DEF Opened
<1>15. f.fault = "none" => Left(1)' = Whole(1)' /\ Whole(1)' \in Nat
  <2>1. Len(ItemsOf(files, path)) \in Nat
    BY <1>1, <1>14, ItemsFacts
  <2> QED
    BY <1>4, <1>5, <1>13, <2>1 DEF Left, Whole
<1>16. /\ f.fault = "none" => IF kind = "program" THEN MainIsProgram ELSE IsList(files, path)
       /\ kind = "program" => f.fault = "none"
  <2>1. role = "main" => path = MainFile
    BY DEF Begins
  <2> QED
    BY <1>4, <1>6, <2>1 DEF MainIsProgram, IsMain
<1>17. /\ 1 = n + 1 => path = MainFile
       /\ kind = "import" => frames'[1 + 1].items # << >> /\ Last(frames'[1 + 1].items).import
       /\ kind = "prelude" => 1 + 1 = n + 1 /\ ProgramDone' /\ ~ BuiltinPrelude
       /\ ProgramDone' /\ 1 + 1 = n + 1 => kind = "prelude"
  <2>1. CASE role = "main"
    <3>1. n = 0 /\ path = MainFile /\ kind \notin {"import", "prelude"}
      BY <1>4, <1>6, <2>1 DEF Begins
    <3> QED
      BY <3>1
  <2>2. CASE role # "main"
    <3>1. n > 0 /\ kind = role /\ frames'[1 + 1] = frames[1] /\ 1 + 1 = 2
      BY <1>1, <1>4, <1>5, <1>6, <2>2 DEF IsMain
    <3>2. role = "import" => frames[1].items # << >> /\ Last(frames[1].items).import
      BY DEF Begins
    <3>3. role = "prelude" => n = 1 /\ ProgramDone /\ ~ BuiltinPrelude
      BY DEF Begins, n
    <3>4. n = 1 /\ ProgramDone => role = "prelude"
      <4>1. n = 1 /\ ProgramDone => frames[1].items = << >>
        BY <1>1
      <4> QED
        BY <1>6, <2>2, <3>2, <4>1
    <3> QED
      BY <1>1, <1>6, <1>9, <2>2, <3>1, <3>2, <3>3, <3>4
  <2> QED
    BY <2>1, <2>2
<1>18. FrameReads(1)'
  <2>1. /\ frames'[1].path = path /\ frames'[1].role = kind /\ frames'[1].fault = f.fault
        /\ f.fault = "none" => frames'[1].items = ItemsOf(files, path)
    BY <1>4, <1>5 DEF kind
  <2>2. f.fault = "none" => Left(1)' <= Whole(1)'
    BY <1>15
  <2> QED
    BY <1>5, <1>12, <1>13, <1>14, <1>16, <1>17, <2>1, <2>2 DEF FrameReads
<1>19. role # "main" => frames'[2] = frames[1]
  <2>1. role # "main" => 1 \in 1 .. n
    BY <1>1, <1>6
  <2>2. 1 + 1 = 2
    OBVIOUS
  <2> QED
    BY <1>5, <2>1, <2>2
<1> QED
  <2>1. \A j \in 2 .. Len(frames') : Moved(j - 1, j) /\ Kept(j - 1, j)
    BY <1>5, <1>8
  <2> QED
    BY <1>2, <1>3, <1>5, <1>11, <1>18, <1>19, <2>1

LEMMA OpenedGood ==
  ASSUME FilesInv, FilesInv', SameTree, UNCHANGED search_path_, GoodFilesInv,
         NEW role, NEW path \in Path, NEW dir, NEW status \in ErrorType,
         status = success => error_ = success,
         GoodMain /\ GoodPrelude => status = success,
         role = "prelude" /\ status = success => NoErrors(MainFile),
         Begins(role, path), OpenFile(role, path, dir, status)
  PROVE  GoodFilesInv'
<1>1. Reads /\ ReadsGood /\ NothingFails
  BY GoodFilesInv DEF GoodFilesInv
<1>2. /\ error_' = success => status = success
      /\ \/ stage' = "exited" /\ UNCHANGED frames
         \/ stage' = "reducing" /\ Opened(role, path)
  BY OpenFileReads
<1>3. ASSUME GoodMain, GoodPrelude
      PROVE  /\ stage' = "reducing" /\ error_' = success
             /\ IsList(files, path) \/ IsMain(role, path)
             /\ \A name \in ImportsOf(files, path) :
                  Here(path, name) \in Good(files)[MaxOpen - 1 - StreamsOpen]
  <2>1. /\ Readable(files, path) /\ StreamsOpen < MaxOpen
        /\ IsList(files, path) \/ IsMain(role, path)
        /\ \A name \in ImportsOf(files, path) :
             Here(path, name) \in Good(files)[MaxOpen - 1 - StreamsOpen]
    BY <1>1, <1>3, GoodNext
  <2>2. status = success
    BY <1>3
  <2> QED
    BY <2>1, <2>2, OpenFileGood
<1>4. (GoodMain' <=> GoodMain) /\ (GoodPrelude' <=> GoodPrelude) /\ PreludeFile' = PreludeFile
      /\ files' = files /\ MainFile' = MainFile
  BY SameMain DEF SameTree
<1>5. FoundBeside' => FoundBeside /\ error_' = success /\ status = success
  BY <1>2, <1>3, <1>4 DEF FoundBeside
<1>6. FoundBeside => \A i \in DOMAIN frames : FrameGood(i)
  BY <1>1 DEF ReadsGood
<1>7. GoodMain /\ GoodPrelude => \A i \in DOMAIN frames : ImportsGood(i)
  BY <1>1 DEF NothingFails
<1>8. CASE stage' = "exited" /\ UNCHANGED frames
  <2>1. stage' # "parsed" /\ ~ (GoodMain /\ GoodPrelude)
    BY <1>3, <1>8
  <2>2. /\ \A j \in 1 .. Len(frames') : FrameReads(j)'
        /\ (\A i \in DOMAIN frames : FrameGood(i)) => \A j \in 1 .. Len(frames') : FrameGood(j)'
    BY <1>1, <1>8, SameFrames
  <2>3. FoundBeside' => \A j \in 1 .. Len(frames') : FrameGood(j)'
    BY <1>5, <1>6, <2>2
  <2> QED
    BY <2>1, <2>2, <2>3, Assembled
<1>9. CASE stage' = "reducing" /\ Opened(role, path)
  <2>1. /\ Len(frames') \in Nat
        /\ \A j \in 2 .. Len(frames') : Moved(j - 1, j) /\ Kept(j - 1, j)
        /\ FrameReads(1)'
        /\ MoreOpen(1)' = MaxOpen - 1 - StreamsOpen
        /\ OpenedFrame(frames'[1], role, path)
        /\ role # "main" => frames'[2] = frames[1]
    BY <1>1, <1>9, OpenedReads
  <2>1a. /\ frames'[1].path = path /\ frames'[1].chunks = << >>
         /\ frames'[1].role = IF ~ IsList(files, path) /\ IsMain(role, path) THEN "program" ELSE role
         /\ frames'[1].fault = "none" <=> IsList(files, path) \/ IsMain(role, path)
         /\ frames'[1].fault = "none" => frames'[1].items = ItemsOf(files, path)
    BY <2>1 DEF OpenedFrame
  <2>2. /\ \A j \in 2 .. Len(frames') : FrameReads(j)'
        /\ (\A i \in DOMAIN frames : ImportsGood(i)) => \A j \in 2 .. Len(frames') : ImportsGood(j)'
        /\ (\A i \in DOMAIN frames : FrameGood(i)) => \A j \in 2 .. Len(frames') : FrameGood(j)'
    <3>1. \A j \in 2 .. Len(frames') : Moved(j + (-1), j) /\ Kept(j + (-1), j)
      <4>1. \A j \in 2 .. Len(frames') : j + (-1) = j - 1
        BY <2>1
      <4> QED
        BY <2>1, <4>1
    <3> QED
      BY <1>1, <3>1, KeptFrames, -1 \in Int, 2 \in Nat
  <2>3. \A j \in 1 .. Len(frames') : j = 1 \/ j \in 2 .. Len(frames')
    BY <2>1
  <2>4. GoodMain /\ GoodPrelude => ImportsGood(1)'
    BY <1>3, <1>4, <2>1, <2>1a DEF ImportsGood
  <2>5. ASSUME FoundBeside' PROVE FrameGood(1)'
    <3>1. /\ FoundBeside /\ status = success
          /\ frames'[1].role # "program" /\ frames'[1].fault = "none" =>
               ~ LexicalErrors(Text(files, path))
      BY <1>5, <1>9, <2>5, <2>1a DEF Opened, NoErrors
    <3>2. /\ frames'[1].role = "import" =>
               path = Here(frames'[1 + 1].path, Last(frames'[1 + 1].items).name)
          /\ frames'[1].role = "prelude" =>
               path = PreludeFile /\ ~ LexicalErrors(Text(files, MainFile))
      <4>1. 1 + 1 = 2 /\ (frames'[1].role \in {"import", "prelude"} => frames'[1].role = role)
        BY <2>1a
      <4> QED
        BY <2>1, <3>1, <4>1 DEF Begins, NoErrors
    <3> DEFINE inclusion == Inclusion(files)[MaxOpen - 1 - StreamsOpen]
               items == ItemsOf(files, path)
    <3>3. /\ Len(items) \in Nat /\ Whole(1)' = Len(items)
          /\ frames'[1].fault = "none" => Left(1)' = Len(items)
      <4>1. files \in FileSystems /\ Real(path) \in DOMAIN files
        BY <1>9 DEF FilesInv, FilesTypeOK, Opened
      <4> QED
        BY <1>4, <2>1a, <4>1, ItemsFacts DEF Left, Whole
    <3> HIDE DEF inclusion
    <3>4. Included(files, path, inclusion)[0] = << >>
      <4>1. Empty(Included(files, path, inclusion)[0])
        BY <3>3, IncludedLevel
      <4> QED
        BY <4>1 DEF Empty
    <3>5. ASSUME frames'[1].fault = "none"
          PROVE  /\ frames'[1].chunks = Included(files, path, inclusion)[Whole(1)' - Left(1)']
                 /\ \A k \in Left(1)' + 1 .. Whole(1)' : FALSE
      <4>1. Len(items) - Len(items) = 0 /\ \A k \in Len(items) + 1 .. Len(items) : FALSE
        BY <3>3
      <4> QED
        BY <2>1a, <3>3, <3>4, <3>5, <4>1
    <3> HIDE DEF items
    <3> QED
      BY <1>4, <2>1, <2>1a, <3>1, <3>2, <3>5 DEF FrameGood, inclusion
  <2>6. \A j \in 1 .. Len(frames') : FrameReads(j)'
    BY <2>1, <2>2, <2>3
  <2>7. FoundBeside' => \A j \in 1 .. Len(frames') : FrameGood(j)'
    BY <1>5, <1>6, <2>2, <2>3, <2>5
  <2>8. GoodMain /\ GoodPrelude => \A j \in 1 .. Len(frames') : ImportsGood(j)'
    BY <1>7, <2>2, <2>3, <2>4
  <2> QED
    BY <1>3, <1>9, <2>6, <2>7, <2>8, Assembled
<1> QED
  BY <1>2, <1>8, <1>9

\* An item of a good file has been reduced, and what it stands for put in front
\* of what follows it.
LEMMA ReducedGood ==
  ASSUME FilesInv, FilesInv', SameTree, GoodFilesInv, UNCHANGED << search_path_, error_, stage >>,
         stage = "reducing", NEW d \in {0, 1}, NEW chunks,
         d + 1 \in 1 .. Len(frames), Len(frames') = Len(frames) - d,
         \A j \in 2 .. Len(frames') : frames'[j] = frames[j + d],
         frames[d + 1].items # << >>,
         frames'[1].role = frames[d + 1].role, frames'[1].path = frames[d + 1].path,
         frames'[1].fault = frames[d + 1].fault,
         frames'[1].items = Front(frames[d + 1].items),
         frames'[1].chunks = chunks \o frames[d + 1].chunks,
         FoundBeside => GoodPiece(d + 1, Last(frames[d + 1].items), chunks)
  PROVE  GoodFilesInv'
<1> DEFINE n == Len(frames)
           m == Len(frames')
<1>1. Reads /\ ReadsGood /\ NothingFails
  BY DEF GoodFilesInv
<1>2. n \in Nat /\ m \in Nat /\ m = n - d /\ d \in Int /\ 1 \in 1 .. m /\ 1 + d = d + 1
  <2>1. n \in Nat
    BY FrameFacts DEF FrameShape
  <2> QED
    BY <2>1
<1>3. /\ GoodMain' <=> GoodMain
      /\ GoodPrelude' <=> GoodPrelude
      /\ FoundBeside' <=> FoundBeside
  BY SameMain DEF FoundBeside
<1> HIDE DEF n, m
<1>4. \A j \in 2 .. m : frames'[j] = frames[j + d]
  BY DEF m
<1>5. \A j \in 1 .. m : Moved(j + d, j) /\ (j # 1 => Kept(j + d, j))
  <2> SUFFICES ASSUME NEW j \in 1 .. m PROVE Moved(j + d, j) /\ (j # 1 => Kept(j + d, j))
    OBVIOUS
  <2>1. j + d \in 1 .. n /\ m - j = n - (j + d)
    BY <1>2
  <2>2. j + d < n => frames'[j + 1] = frames[(j + d) + 1] /\ frames'[m] = frames[n]
    <3> SUFFICES ASSUME j + d < n PROVE frames'[j + 1] = frames[(j + d) + 1] /\ frames'[m] = frames[n]
      OBVIOUS
    <3>1. j + 1 \in 2 .. m /\ m \in 2 .. m /\ (j + 1) + d = (j + d) + 1 /\ m + d = n
      BY <1>2
    <3> QED
      BY <1>4, <3>1
  <2>3. CASE j = 1
    BY <1>2, <2>1, <2>2, <2>3 DEF Moved, n, m
  <2>4. CASE j # 1
    <3>1. j \in 2 .. m
      BY <1>2, <2>4
    <3>2. frames'[j] = frames[j + d]
      BY <1>4, <3>1
    <3> QED
      BY <2>1, <2>2, <3>2 DEF Moved, Kept, n, m
  <2> QED
    BY <2>3, <2>4
<1>6. FoundBeside => \A j \in 1 .. m : Kept(j + d, j)
  <2> SUFFICES ASSUME FoundBeside, NEW j \in 1 .. m PROVE Kept(j + d, j)
    OBVIOUS
  <2>1. Kept(1 + d, 1)
    BY <1>2 DEF Kept
  <2> QED
    BY <1>5, <2>1
<1>7. /\ \A j \in 1 .. m : FrameReads(j)'
      /\ (\A i \in DOMAIN frames : ImportsGood(i)) => \A j \in 1 .. m : ImportsGood(j)'
      /\ (\A i \in DOMAIN frames : FrameGood(i)) =>
           \A j \in 1 .. m : Kept(j + d, j) => FrameGood(j)'
  BY <1>1, <1>2, <1>5, KeptFrames, 1 \in Nat DEF m
<1>8. FoundBeside' => \A j \in 1 .. m : FrameGood(j)'
  BY <1>1, <1>3, <1>6, <1>7 DEF ReadsGood
<1>9. GoodMain /\ GoodPrelude => /\ error_' = success /\ stage' = "reducing"
                                 /\ \A j \in 1 .. m : ImportsGood(j)'
  BY <1>1, <1>7 DEF NothingFails
<1>10. stage' = "reducing"
  OBVIOUS
<1> QED
  BY <1>7, <1>8, <1>9, <1>10, Assembled DEF m

LEMMA PushFrontGood == ASSUME FilesInv, FilesInv', GoodFilesInv, PushFront PROVE GoodFilesInv'
<1> DEFINE n == Len(frames)
           chunks == << NextItem.decl >>
<1>1. /\ stage = "reducing" /\ frames[1].items # << >> /\ ~ NextItem.import
      /\ frames' = Reduced(chunks)
      /\ UNCHANGED library /\ UNCHANGED << error_, stage >>
  BY DEF PushFront, Reducing
<1>2. SameTree /\ UNCHANGED << search_path_, error_, stage >>
  BY <1>1 DEF SameTree, library
<1>3. n \in Nat \ {0} /\ frames \in Seq(FrameType) /\ frames # << >>
  <2>1. frames # << >> /\ frames \in Seq(FrameType)
    BY <1>1 DEF FilesInv, FilesTypeOK, BegunBelow
  <2> QED
    BY <2>1, TailFacts
<1>4. /\ Tail(frames) \in Seq(FrameType) /\ Len(Tail(frames)) = n - 1
      /\ \A i \in 1 .. n - 1 : Tail(frames)[i] = frames[i + 1]
      /\ frames[1] \in FrameType
  BY <1>3, TailFacts
<1> HIDE DEF chunks
<1> DEFINE f == [frames[1] EXCEPT !.items = Front(@), !.chunks = chunks \o @]
<1>5. /\ f.role = frames[1].role /\ f.path = frames[1].path /\ f.items = Front(frames[1].items)
      /\ f.fault = frames[1].fault /\ f.chunks = chunks \o frames[1].chunks
  BY <1>4 DEF FrameType
<1>6. frames' = << f >> \o Tail(frames)
  BY <1>1 DEF Reduced
<1> HIDE DEF f
<1>7. /\ Len(frames') = n /\ frames'[1] = f
      /\ \A i \in 1 .. n - 1 : frames'[i + 1] = frames[i + 1]
  <2> DEFINE S == FrameType \cup {f}
  <2>1. f \in S /\ Tail(frames) \in Seq(S)
    BY <1>4
  <2> HIDE DEF S
  <2> QED
    BY <1>3, <1>4, <1>6, <2>1, PrependFacts
<1> HIDE DEF n
<1>8. \A j \in 2 .. n : frames'[j] = frames[j + 0]
  <2> SUFFICES ASSUME NEW j \in 2 .. n PROVE frames'[j] = frames[j]
    BY <1>3
  <2>1. j - 1 \in 1 .. n - 1 /\ (j - 1) + 1 = j
    BY <1>3
  <2> QED
    BY <1>7, <2>1
<1>9. GoodPiece(1, Last(frames[1].items), chunks)
  BY <1>1 DEF GoodPiece, StandsFor, chunks, NextItem
<1>10. 0 \in {0, 1} /\ 0 + 1 = 1 /\ 1 \in 1 .. n /\ n = n - 0
  BY <1>3
<1>11. /\ 0 + 1 \in 1 .. Len(frames) /\ Len(frames') = Len(frames) - 0
       /\ \A j \in 2 .. Len(frames') : frames'[j] = frames[j + 0]
       /\ frames[0 + 1].items # << >>
       /\ frames'[1].role = frames[0 + 1].role /\ frames'[1].path = frames[0 + 1].path
       /\ frames'[1].fault = frames[0 + 1].fault
       /\ frames'[1].items = Front(frames[0 + 1].items)
       /\ frames'[1].chunks = chunks \o frames[0 + 1].chunks
       /\ GoodPiece(0 + 1, Last(frames[0 + 1].items), chunks)
  BY <1>1, <1>5, <1>7, <1>8, <1>9, <1>10 DEF n
<1> QED
  BY <1>1, <1>2, <1>10, <1>11, ReducedGood

LEMMA EndOfImportGood == ASSUME FilesInv, FilesInv', GoodFilesInv, EndOfImport PROVE GoodFilesInv'
<1> DEFINE n == Len(frames)
           chunks == frames[1].chunks
<1>1. /\ stage = "reducing" /\ frames[1].items = << >> /\ frames[1].role = "import"
      /\ frames[1].fault = "none" /\ UNCHANGED library /\ UNCHANGED << error_, stage >>
  BY DEF EndOfImport, Completed, AllReduced
<1>2. SameTree /\ UNCHANGED << search_path_, error_, stage >>
  BY <1>1 DEF SameTree, library
<1>3. n \in Nat \ {0} /\ frames \in Seq(FrameType) /\ frames # << >>
  <2>1. frames # << >> /\ frames \in Seq(FrameType)
    BY <1>1 DEF FilesInv, FilesTypeOK, BegunBelow
  <2> QED
    BY <2>1, TailFacts
<1>4. Reads /\ ReadsGood
  BY DEF GoodFilesInv
<1>5. 1 \in 1 .. n /\ 2 \in 1 .. n /\ frames[2] \in FrameType /\ DOMAIN frames = 1 .. n
  <2>1. \A i \in 1 .. n : frames[i].role \in {"import", "prelude"} <=> i < n
    BY FrameFacts DEF FrameShape
  <2>2. 1 \in 1 .. n
    BY <1>3
  <2>3. 1 < n
    BY <1>1, <2>1, <2>2
  <2> QED
    BY <1>3, <2>2, <2>3
<1>6. FrameReads(1) /\ (FoundBeside => FrameGood(1))
  BY <1>4, <1>5 DEF Reads, ReadsGood
<1>7. frames[2].items # << >> /\ Last(frames[2].items).import
  <2>1. 1 + 1 = 2
    OBVIOUS
  <2> QED
    BY <1>1, <1>6, <2>1 DEF FrameReads
<1>8. ASSUME FoundBeside PROVE GoodPiece(2, Last(frames[2].items), chunks)
  <2>1. FrameGood(1)
    BY <1>6, <1>8
  <2>2. MoreOpen(2) = MoreOpen(1) + 1
    <3>1. 1 + 1 = 2
      OBVIOUS
    <3> QED
      BY <1>1, <1>4, <1>5, <3>1, LevelFacts
  <2>3. /\ frames[1].chunks = Inclusion(files)[MoreOpen(2)][frames[1].path]
        /\ frames[1].path \in Good(files)[MoreOpen(2)]
    BY <1>1, <1>4, <1>5, <2>1, <2>2, WholeGood
  <2>4. frames[1].path = Here(frames[2].path, Last(frames[2].items).name)
    <3>1. 1 + 1 = 2
      OBVIOUS
    <3> QED
      BY <1>1, <2>1, <3>1 DEF FrameGood
  <2> QED
    BY <1>7, <2>3, <2>4 DEF GoodPiece, StandsFor
<1> HIDE DEF chunks
<1> DEFINE f == [frames[2] EXCEPT !.items = Front(@), !.chunks = Imported(chunks, @)]
<1>9. /\ f.role = frames[2].role /\ f.path = frames[2].path /\ f.items = Front(frames[2].items)
      /\ f.fault = frames[2].fault /\ f.chunks = chunks \o frames[2].chunks
  BY <1>5 DEF FrameType, Imported
<1>10. frames' = << f >> \o SubSeq(frames, 3, n)
  BY DEF EndOfImport, chunks
<1> HIDE DEF f
<1>11. /\ SubSeq(frames, 3, n) \in Seq(FrameType) /\ Len(SubSeq(frames, 3, n)) = n - 2
       /\ \A i \in 1 .. n - 2 : SubSeq(frames, 3, n)[i] = frames[i + 2]
  BY <1>3, <1>5
<1>12. /\ Len(frames') = n - 1 /\ frames'[1] = f
       /\ \A i \in 1 .. n - 2 : frames'[i + 1] = frames[i + 2]
  <2> DEFINE S == FrameType \cup {f}
             rest == SubSeq(frames, 3, n)
  <2>1. f \in S /\ rest \in Seq(S) /\ Len(rest) + 1 = n - 1
    BY <1>3, <1>11
  <2>2. frames' = << f >> \o rest /\ Len(rest) = n - 2 /\ \A i \in 1 .. n - 2 : rest[i] = frames[i + 2]
    BY <1>10, <1>11
  <2> HIDE DEF S, rest, n
  <2> QED
    BY <2>1, <2>2, PrependFacts
<1> HIDE DEF n
<1>13. \A j \in 2 .. n - 1 : frames'[j] = frames[j + 1]
  <2> SUFFICES ASSUME NEW j \in 2 .. n - 1 PROVE frames'[j] = frames[j + 1]
    OBVIOUS
  <2>1. j - 1 \in 1 .. n - 2 /\ (j - 1) + 1 = j /\ (j - 1) + 2 = j + 1
    BY <1>3
  <2> QED
    BY <1>12, <2>1
<1>14. 1 \in {0, 1} /\ 1 + 1 = 2
  OBVIOUS
<1>15. /\ 1 + 1 \in 1 .. Len(frames) /\ Len(frames') = Len(frames) - 1
       /\ \A j \in 2 .. Len(frames') : frames'[j] = frames[j + 1]
       /\ frames[1 + 1].items # << >>
       /\ frames'[1].role = frames[1 + 1].role /\ frames'[1].path = frames[1 + 1].path
       /\ frames'[1].fault = frames[1 + 1].fault
       /\ frames'[1].items = Front(frames[1 + 1].items)
       /\ frames'[1].chunks = chunks \o frames[1 + 1].chunks
       /\ FoundBeside => GoodPiece(1 + 1, Last(frames[1 + 1].items), chunks)
  BY <1>5, <1>7, <1>8, <1>9, <1>12, <1>13, <1>14 DEF n
<1> QED
  BY <1>1, <1>2, <1>14, <1>15, ReducedGood

\* Of good files, what is imported is found, in the place where it is written.
LEMMA ImportHere ==
  ASSUME FilesInv, frames # << >>, NEW name \in Names,
         GoodMain /\ GoodPrelude =>
           \E m \in 0 .. MaxOpen : Here(frames[1].path, name) \in Good(files)[m]
  PROVE  /\ FoundBeside /\ Found(name) => AbsolutePath(name) = Here(frames[1].path, name)
         /\ GoodMain /\ GoodPrelude =>
              Found(name) /\ AbsolutePath(name) = Here(frames[1].path, name)
<1> DEFINE path == Here(frames[1].path, name)
<1>1. path \in Path
  <2>1. Len(frames) \in Nat /\ Len(frames) # 0
    BY FrameFacts DEF FrameShape
  <2>2. frames[1].path \in Path
    BY <2>1, FrameFacts DEF FrameShape
  <2> QED
    BY <2>2, HereType
<1> HIDE DEF path
<1>2. GoodMain /\ GoodPrelude => ExistsIn(files, path)
  <2> SUFFICES ASSUME GoodMain, GoodPrelude PROVE ExistsIn(files, path)
    OBVIOUS
  <2>1. PICK m \in 0 .. MaxOpen : path \in Good(files)[m]
    BY DEF path
  <2>2. Readable(files, path)
    BY <1>1, <2>1, GoodLevel
  <2> QED
    BY <2>2 DEF Readable
<1>3. GoodMain /\ GoodPrelude => Found(name) /\ AbsolutePath(name) = path
  BY <1>2, HereFound DEF path
<1>4. search_path_ = << >> /\ Found(name) => AbsolutePath(name) = path
  BY FindsBeside DEF path
<1> QED
  BY <1>3, <1>4 DEF FoundBeside, path

\* The list the program is, or the declarations around it, when they are
\* completely reduced.
LEMMA MainWhole ==
  ASSUME FilesInv, Reads, frames # << >>, frames[Len(frames)].items = << >>,
         frames[Len(frames)].fault = "none"
  PROVE  /\ MainIsProgram <=> frames[Len(frames)].role = "program"
         /\ FrameGood(Len(frames)) /\ (MainIsProgram => NoErrors(MainFile)) =>
              GoodMain /\ frames[Len(frames)].chunks = Inclusion(files)[MaxOpen][MainFile]
<1> DEFINE n == Len(frames)
<1>1. n \in Nat /\ n \in 1 .. n /\ n \in DOMAIN frames
  <2>1. n \in Nat /\ n # 0 /\ DOMAIN frames = 1 .. n
    BY FrameFacts DEF FrameShape
  <2> QED
    BY <2>1
<1>2. FrameReads(n) /\ frames[n].path = MainFile
  <2>1. FrameReads(n)
    BY <1>1 DEF Reads
  <2> QED
    BY <2>1 DEF FrameReads
<1>3. MainIsProgram <=> frames[n].role = "program"
  BY <1>2 DEF FrameReads, MainIsProgram
<1>4. ASSUME FrameGood(n), MainIsProgram => NoErrors(MainFile)
      PROVE  GoodMain /\ frames[n].chunks = Inclusion(files)[MaxOpen][MainFile]
  <2>1. MoreOpen(n) = MaxOpen - 1 /\ (MaxOpen - 1) + 1 = MaxOpen
    BY <1>1, LevelFacts, FilesAssumption
  <2>2. /\ Readable(files, MainFile)
        /\ frames[n].chunks = Inclusion(files)[MoreOpen(n) + 1][MainFile]
        /\ \A name \in ImportsOf(files, MainFile) :
             Here(MainFile, name) \in Good(files)[MoreOpen(n)]
    BY <1>1, <1>2, <1>3, <1>4, WholeGood DEF NoErrors
  <2>3. IsList(files, MainFile) \/ MainIsProgram
    BY <1>2 DEF FrameReads
  <2> QED
    BY <2>1, <2>2, <2>3 DEF GoodMain
<1> QED
  BY <1>3, <1>4

LEMMA FinishedGood ==
  ASSUME FilesInv', SameTree, UNCHANGED search_path_, frames' = << >>, stage' = "parsed",
         FoundBeside' => GoodMain /\ GoodPrelude /\ result' = Expected,
         GoodMain /\ GoodPrelude => error_' = success
  PROVE  GoodFilesInv'
<1>1. \A j \in 1 .. Len(frames') : FALSE
  OBVIOUS
<1> QED
  BY <1>1, Assembled

LEMMA ImportGood == ASSUME FilesInv, FilesInv', GoodFilesInv, Import PROVE GoodFilesInv'
<1> DEFINE name == NextItem.name
           here == Here(frames[1].path, name)
<1>1. /\ stage = "reducing" /\ frames[1].items # << >> /\ NextItem.import
      /\ UNCHANGED library
      /\ IF NoList(name) THEN End("crashed", Recorded(error_)) /\ UNCHANGED frames
         ELSE ParseImport("import", name, error_)
  BY DEF Import, Reducing
<1>2. SameTree /\ UNCHANGED search_path_
  BY <1>1 DEF SameTree, library
<1>3. Reads /\ ReadsGood /\ NothingFails
  BY DEF GoodFilesInv
<1>4. frames # << >> /\ 1 \in 1 .. Len(frames) /\ DOMAIN frames = 1 .. Len(frames)
      /\ current_directory_ # << >> /\ FilesTypeOK
  <2>1. frames # << >> /\ FilesTypeOK
    BY <1>1 DEF FilesInv, BegunBelow
  <2>2. Len(frames) \in Nat /\ Len(frames) # 0 /\ DOMAIN frames = 1 .. Len(frames)
    BY <2>1, FrameFacts DEF FrameShape
  <2>3. current_directory_ # << >>
    BY <2>1, StackFacts DEF FilesInv
  <2> QED
    BY <2>1, <2>2, <2>3
<1>5. name \in Names /\ (ImportsGood(1) => name \in ImportsOf(files, frames[1].path))
  BY <1>1, <1>3, <1>4, LastImports DEF NextItem, ImportsGood
<1>6. name = Last(frames[1].items).name /\ Last(frames[1].items).import
  BY <1>1 DEF NextItem
<1> HIDE DEF name, here
<1>7. GoodMain /\ GoodPrelude =>
        \E m \in 0 .. MaxOpen : Here(frames[1].path, name) \in Good(files)[m]
  <2> SUFFICES ASSUME GoodMain, GoodPrelude PROVE Here(frames[1].path, name) \in Good(files)[MoreOpen(1)]
    BY <1>3, <1>4, LevelFacts
  <2>1. ImportsGood(1)
    BY <1>3, <1>4 DEF NothingFails
  <2> QED
    BY <1>5, <2>1 DEF ImportsGood
<1>8. /\ FoundBeside /\ Found(name) => AbsolutePath(name) = here
      /\ GoodMain /\ GoodPrelude => Found(name) /\ AbsolutePath(name) = here
  BY <1>4, <1>5, <1>7, ImportHere DEF here
<1>9. CASE NoList(name)
  <2>1. stage' = "crashed" /\ error_' = Recorded(error_) /\ UNCHANGED frames
    BY <1>1, <1>9 DEF End
  <2>2. ~ (GoodMain /\ GoodPrelude)
    <3> SUFFICES ASSUME GoodMain, GoodPrelude PROVE FALSE
      OBVIOUS
    <3>1. \A i \in DOMAIN frames : ImportsGood(i) /\ FrameGood(i)
      BY <1>3 DEF NothingFails, ReadsGood, FoundBeside
    <3>2. ~ Refused(here)
      BY <1>1, <1>3, <3>1, NotRefused DEF here, name
    <3> QED
      BY <1>8, <1>9, <3>2 DEF NoList
  <2>3. error_' # success
    <3>1. error_ \in 0 .. 5
      BY <1>4 DEF FilesTypeOK, ErrorType, success, type
    <3> QED
      BY <2>1, <3>1 DEF Recorded, Mark, success, failure
  <2>4. ~ FoundBeside'
    <3>1. (GoodMain' <=> GoodMain) /\ (GoodPrelude' <=> GoodPrelude)
      BY <1>2, SameMain
    <3> QED
      BY <2>2, <2>3, <3>1 DEF FoundBeside
  <2>5. \A j \in 1 .. Len(frames') : FrameReads(j)'
    BY <1>2, <1>3, <2>1, SameFrames
  <2> QED
    BY <1>2, <2>2, <2>4, <2>5, Assembled
<1>10. CASE ~ NoList(name)
  <2>1. OpenFile("import", AbsolutePath(name), FindFile(name), error_)
    BY <1>1, <1>10 DEF ParseImport
  <2>2. Found(name)
    BY <1>10 DEF NoList
  <2>3. AbsolutePath(name) \in Path
    BY <1>4, <1>5, <2>2, FoundThere
  <2>4. Begins("import", AbsolutePath(name))
    BY <1>1, <1>4, <1>6, <1>8, <2>2 DEF Begins, here
  <2>5. error_ \in ErrorType /\ (GoodMain /\ GoodPrelude => error_ = success)
    BY <1>3, <1>4 DEF NothingFails, FilesTypeOK
  <2> QED
    BY <1>2, <2>1, <2>3, <2>4, <2>5, OpenedGood
<1> QED
  BY <1>9, <1>10

LEMMA ParseGood == ASSUME FilesInv, FilesInv', GoodFilesInv, Parse PROVE GoodFilesInv'
<1>1. /\ stage = "options" /\ UNCHANGED library
      /\ OpenFile("main", MainFile, ParentPath(MainFile), error_)
  BY DEF Parse, MainFile
<1>2. SameTree /\ UNCHANGED search_path_
  BY <1>1 DEF SameTree, library
<1>3. frames = << >> /\ filename \in Names
  BY <1>1 DEF FilesInv, FilesTypeOK, BegunBelow
<1>4. MainFile \in Path
  BY <1>3, FilesAssumption, JoinType DEF MainFile
<1>5. Begins("main", MainFile)
  BY <1>3 DEF Begins
<1>6. error_ \in ErrorType /\ (GoodMain /\ GoodPrelude => error_ = success)
  BY DEF GoodFilesInv, NothingFails, FilesInv, FilesTypeOK
<1> QED
  BY <1>1, <1>2, <1>4, <1>5, <1>6, OpenedGood

LEMMA EndOfListGood == ASSUME FilesInv, FilesInv', GoodFilesInv, EndOfList PROVE GoodFilesInv'
<1> DEFINE n == Len(frames)
<1>1. /\ stage = "reducing" /\ frames[1].items = << >> /\ frames[1].role = "main"
      /\ frames[1].fault = "none"
      /\ result' = [prelude |-> << >>, decls |-> frames[1].chunks, program |-> FALSE]
      /\ stage' = "parsed" /\ frames' = << >>
      /\ UNCHANGED library /\ UNCHANGED error_
  BY DEF EndOfList, Completed, AllReduced, Finish
<1>2. SameTree /\ UNCHANGED search_path_
  BY <1>1 DEF SameTree, library
<1>3. Reads /\ ReadsGood /\ NothingFails
  BY DEF GoodFilesInv
<1>4. frames # << >> /\ n = 1 /\ 1 \in DOMAIN frames
  <2>1. frames # << >>
    BY <1>1 DEF FilesInv, BegunBelow
  <2>2. /\ n \in Nat /\ n # 0 /\ DOMAIN frames = 1 .. n
        /\ \A i \in 1 .. n : frames[i].role \in {"import", "prelude"} <=> i < n
    BY <2>1, FrameFacts DEF FrameShape
  <2> HIDE DEF n
  <2>3. 1 \in 1 .. n
    BY <2>2
  <2>4. ~ (1 < n)
    BY <1>1, <2>2, <2>3
  <2> QED
    BY <2>1, <2>2, <2>4
<1>5. ~ MainIsProgram
  BY <1>1, <1>3, <1>4, MainWhole
<1>6. FoundBeside' <=> FoundBeside
  BY <1>1, <1>2, SameMain DEF FoundBeside
<1>7. ASSUME FoundBeside PROVE GoodMain /\ GoodPrelude /\ result' = Expected
  <2>1. FrameGood(1)
    BY <1>3, <1>4, <1>7 DEF ReadsGood
  <2>2. GoodMain /\ frames[1].chunks = Inclusion(files)[MaxOpen][MainFile]
    BY <1>1, <1>3, <1>4, <1>5, <2>1, MainWhole
  <2> DEFINE decls == Inclusion(files)[MaxOpen][MainFile]
  <2>3. frames[1].chunks = decls
    BY <2>2
  <2> HIDE DEF decls
  <2>4. Expected = [prelude |-> << >>, decls |-> decls, program |-> FALSE]
    <3> DEFINE first == IF ~ MainIsProgram THEN << >>
                        ELSE IF BuiltinPrelude THEN prelude.path
                        ELSE Inclusion(files)[MaxOpen][PreludeFile]
    <3>1. first = << >>
      BY <1>5
    <3>2. Expected = [prelude |-> first, decls |-> decls, program |-> MainIsProgram]
      BY Zenon DEF Expected, decls
    <3>3. MainIsProgram = FALSE
      BY <1>5 DEF MainIsProgram
    <3> HIDE DEF first
    <3> QED
      BY <3>1, <3>2, <3>3, Zenon
  <2> QED
    BY <1>1, <1>5, <2>2, <2>3, <2>4 DEF GoodPrelude
<1>8. GoodMain /\ GoodPrelude => error_' = success
  BY <1>1, <1>3 DEF NothingFails
<1> QED
  BY <1>1, <1>2, <1>6, <1>7, <1>8, FinishedGood

LEMMA EndOfProgramGood == ASSUME FilesInv, FilesInv', GoodFilesInv, EndOfProgram PROVE GoodFilesInv'
<1> DEFINE n == Len(frames)
           decls == Inclusion(files)[MaxOpen][MainFile]
<1>1. /\ stage = "reducing" /\ frames[1].items = << >> /\ frames[1].role = "program"
      /\ frames[1].fault = "none" /\ UNCHANGED library
  BY DEF EndOfProgram, Completed, AllReduced, library
<1>2. SameTree /\ UNCHANGED search_path_
  BY <1>1 DEF SameTree, library
<1>3. Reads /\ ReadsGood /\ NothingFails
  BY DEF GoodFilesInv
<1>4. frames # << >> /\ n = 1 /\ 1 \in DOMAIN frames /\ ProgramDone /\ FilesTypeOK
  <2>1. frames # << >> /\ FilesTypeOK
    BY <1>1 DEF FilesInv, BegunBelow
  <2>2. /\ n \in Nat /\ n # 0 /\ DOMAIN frames = 1 .. n
        /\ \A i \in 1 .. n : frames[i].role \in {"import", "prelude"} <=> i < n
        /\ ProgramDone <=> /\ n > 0 /\ frames[n].role = "program" /\ frames[n].items = << >>
    BY <2>1, FrameFacts DEF FrameShape
  <2> HIDE DEF n
  <2>3. 1 \in 1 .. n
    BY <2>2
  <2>4. ~ (1 < n)
    BY <1>1, <2>2, <2>3
  <2>5. n = 1
    BY <2>2, <2>4
  <2> QED
    BY <1>1, <2>1, <2>2, <2>3, <2>5
<1>5. MainIsProgram
  BY <1>1, <1>3, <1>4, MainWhole
<1>6. frames[1].path = MainFile
  <2>1. FrameReads(1)
    BY <1>3, <1>4 DEF Reads
  <2> QED
    BY <1>4, <2>1 DEF FrameReads
<1> DEFINE read == Scanned(error_, LexicalErrors(files[Real(frames[1].path)]))
<1>12. /\ read \in ErrorType
       /\ read = success => error_ = success /\ NoErrors(MainFile)
       /\ GoodMain /\ GoodPrelude => read = success
  <2>1. error_ \in ErrorType /\ ErrorType = 0 .. 5 /\ success = 0 /\ scan = 2
    BY <1>4 DEF FilesTypeOK, ErrorType, success, scan, type
  <2>2. Mark(error_, scan) \in ErrorType /\ Mark(error_, scan) # success
    BY <2>1 DEF Mark
  <2>3. NoErrors(MainFile) <=> ~ LexicalErrors(files[Real(frames[1].path)])
    BY <1>6 DEF NoErrors, Text
  <2>4. GoodMain /\ GoodPrelude => error_ = success /\ NoErrors(MainFile)
    BY <1>3 DEF NothingFails, GoodMain, Readable, NoErrors
  <2> QED
    BY <2>1, <2>2, <2>3, <2>4 DEF Scanned
<1>13. FoundBeside /\ read = success => GoodMain /\ frames[1].chunks = decls
  <2> SUFFICES ASSUME FoundBeside, read = success PROVE GoodMain /\ frames[1].chunks = decls
    OBVIOUS
  <2>1. FrameGood(1)
    BY <1>3, <1>4 DEF ReadsGood
  <2> QED
    BY <1>1, <1>3, <1>4, <1>12, <2>1, MainWhole
<1>14. IF BuiltinPrelude
       THEN /\ result' = WithPrelude(prelude.path, frames[1].chunks)
            /\ stage' = "parsed" /\ frames' = << >> /\ error_' = read
       ELSE IF NoList(prelude) THEN error_' = Recorded(read) /\ stage' = "parsed" /\ frames' = << >>
       ELSE OpenFile("prelude", AbsolutePath(prelude), FindFile(prelude), read)
  BY DEF EndOfProgram, Finish, BuiltinPrelude, ParseImport
<1> HIDE DEF read
<1>7. (GoodMain' <=> GoodMain) /\ (GoodPrelude' <=> GoodPrelude)
  BY <1>2, SameMain
<1>8. CASE BuiltinPrelude
  <2>1. /\ result' = WithPrelude(prelude.path, frames[1].chunks)
        /\ stage' = "parsed" /\ frames' = << >> /\ error_' = read
    BY <1>8, <1>14
  <2>2. FoundBeside' => FoundBeside /\ read = success
    BY <1>2, <1>7, <1>12, <2>1 DEF FoundBeside
  <2>3. FoundBeside /\ read = success => GoodMain /\ GoodPrelude /\ result' = Expected
    <3> HIDE DEF decls
    <3>1. Expected = [prelude |-> prelude.path, decls |-> decls, program |-> TRUE]
      BY <1>5, <1>8 DEF Expected, decls
    <3> QED
      BY <1>8, <1>13, <2>1, <3>1 DEF GoodPrelude, WithPrelude
  <2>4. GoodMain /\ GoodPrelude => error_' = success
    BY <1>12, <2>1
  <2> QED
    BY <1>2, <2>1, <2>2, <2>3, <2>4, FinishedGood
<1> DEFINE here == Here(frames[1].path, prelude)
<1>9. ASSUME ~ BuiltinPrelude
      PROVE  /\ prelude \in Names /\ here = PreludeFile
             /\ FoundBeside /\ Found(prelude) => AbsolutePath(prelude) = here
             /\ GoodMain /\ GoodPrelude => Found(prelude) /\ AbsolutePath(prelude) = here
  <2>1. prelude \in Names
    BY <1>4, <1>9 DEF FilesTypeOK, BuiltinPrelude, Name
  <2>2. here = PreludeFile
    BY <1>6 DEF PreludeFile
  <2>3. GoodMain /\ GoodPrelude => \E m \in 0 .. MaxOpen : here \in Good(files)[m]
    <3>1. MaxOpen \in 0 .. MaxOpen
      BY FilesAssumption
    <3> QED
      BY <1>5, <1>9, <2>2, <3>1 DEF GoodPrelude
  <2> QED
    BY <1>4, <2>1, <2>2, <2>3, ImportHere
<1> HIDE DEF here
<1>10. CASE ~ BuiltinPrelude /\ NoList(prelude)
  <2>1. error_' = Recorded(read) /\ stage' = "parsed" /\ frames' = << >>
    BY <1>10, <1>14
  <2>2. ~ (GoodMain /\ GoodPrelude)
    <3>1. open_files_ = {}
      <4>1. Importing = {}
        BY <1>4 DEF Importing
      <4> QED
        BY <1>1, <4>1 DEF FilesInv, ImportedOnce
    <3> QED
      BY <1>9, <1>10, <3>1 DEF NoList, Refused
  <2>3. error_' # success
    <3>1. read \in 0 .. 5
      BY <1>12 DEF ErrorType, success, type
    <3> QED
      BY <2>1, <3>1 DEF Recorded, Mark, success, failure
  <2>4. ~ FoundBeside'
    BY <1>7, <2>2, <2>3 DEF FoundBeside
  <2> QED
    BY <1>2, <2>1, <2>2, <2>4, FinishedGood
<1>11. CASE ~ BuiltinPrelude /\ ~ NoList(prelude)
  <2>1. OpenFile("prelude", AbsolutePath(prelude), FindFile(prelude), read)
    BY <1>11, <1>14
  <2>2. Found(prelude)
    BY <1>11 DEF NoList
  <2>3. AbsolutePath(prelude) \in Path
    <3>1. current_directory_ # << >>
      BY StackFacts DEF FilesInv
    <3> QED
      BY <1>4, <1>9, <1>11, <2>2, <3>1, FoundThere
  <2>4. Begins("prelude", AbsolutePath(prelude))
    BY <1>4, <1>9, <1>11, <2>2 DEF Begins
  <2> QED
    BY <1>2, <1>12, <2>1, <2>3, <2>4, OpenedGood
<1> QED
  BY <1>8, <1>10, <1>11

LEMMA EndOfPreludeGood == ASSUME FilesInv, FilesInv', GoodFilesInv, EndOfPrelude PROVE GoodFilesInv'
<1> DEFINE n == Len(frames)
           decls == Inclusion(files)[MaxOpen][MainFile]
           first == Inclusion(files)[MaxOpen][PreludeFile]
<1>1. /\ stage = "reducing" /\ frames[1].items = << >> /\ frames[1].role = "prelude"
      /\ frames[1].fault = "none"
      /\ result' = WithPrelude(frames[1].chunks, frames[2].chunks)
      /\ stage' = "parsed" /\ frames' = << >>
      /\ UNCHANGED library /\ UNCHANGED error_
  BY DEF EndOfPrelude, Completed, AllReduced, Finish
<1>2. SameTree /\ UNCHANGED search_path_
  BY <1>1 DEF SameTree, library
<1>3. Reads /\ ReadsGood /\ NothingFails
  BY DEF GoodFilesInv
<1>4. frames # << >> /\ 1 \in 1 .. n /\ n \in Nat /\ n # 0 /\ DOMAIN frames = 1 .. n
  <2>1. frames # << >>
    BY <1>1 DEF FilesInv, BegunBelow
  <2>2. n \in Nat /\ n # 0 /\ DOMAIN frames = 1 .. n
    BY <2>1, FrameFacts DEF FrameShape
  <2> QED
    BY <2>1, <2>2
<1>5. /\ 1 + 1 = n /\ MoreOpen(1) = MaxOpen - 1 /\ n = 2 /\ 2 \in DOMAIN frames
  <2>1. 1 + 1 = n /\ MoreOpen(1) = MaxOpen - 1
    BY <1>1, <1>3, <1>4, LevelFacts
  <2> HIDE DEF n
  <2>2. n = 2 /\ 2 \in 1 .. n
    BY <1>4, <2>1
  <2> QED
    BY <1>4, <2>1, <2>2
<1>6. FrameReads(1) /\ ProgramDone /\ ~ BuiltinPrelude
  <2>1. FrameReads(1)
    BY <1>3, <1>4 DEF Reads
  <2> QED
    BY <1>1, <2>1 DEF FrameReads
<1>7. frames[n].items = << >> /\ frames[n].role = "program" /\ frames[n].fault = "none"
  <2>1. frames[n].items = << >> /\ frames[n].role = "program"
    BY <1>6, FrameFacts DEF FrameShape
  <2>2. FrameReads(n)
    BY <1>3, <1>5 DEF Reads
  <2> QED
    BY <2>1, <2>2 DEF FrameReads
<1>8. MainIsProgram
  BY <1>3, <1>4, <1>7, MainWhole
<1>9. ASSUME FoundBeside
      PROVE  /\ GoodMain /\ frames[2].chunks = decls
             /\ PreludeFile \in Good(files)[MaxOpen] /\ frames[1].chunks = first
  <2>1. FrameGood(1) /\ FrameGood(2)
    BY <1>3, <1>4, <1>5, <1>9 DEF ReadsGood
  <2>2. GoodMain /\ frames[2].chunks = decls
    <3>1. NoErrors(MainFile)
      BY <1>1, <2>1 DEF FrameGood, NoErrors
    <3> QED
      BY <1>3, <1>4, <1>5, <1>7, <2>1, <3>1, MainWhole
  <2>3. (MaxOpen - 1) + 1 = MaxOpen
    BY FilesAssumption
  <2>4. frames[1].path = PreludeFile
    BY <1>1, <2>1 DEF FrameGood
  <2>5. PreludeFile \in Good(files)[MaxOpen] /\ frames[1].chunks = first
    BY <1>1, <1>3, <1>4, <1>5, <2>1, <2>3, <2>4, WholeGood
  <2> QED
    BY <2>2, <2>5
<1>10. FoundBeside' <=> FoundBeside
  BY <1>1, <1>2, SameMain DEF FoundBeside
<1>11. FoundBeside => GoodMain /\ GoodPrelude /\ result' = Expected
  <2> HIDE DEF decls, first
  <2>1. Expected = [prelude |-> first, decls |-> decls, program |-> TRUE]
    BY <1>6, <1>8 DEF Expected, decls, first
  <2> QED
    BY <1>1, <1>9, <2>1 DEF GoodPrelude, WithPrelude
<1>12. GoodMain /\ GoodPrelude => error_' = success
  BY <1>1, <1>3 DEF NothingFails
<1> QED
  BY <1>1, <1>2, <1>10, <1>11, <1>12, FinishedGood

\* A text that is no list ends the process: no good file does.
LEMMA EndWithErrorGood == ASSUME FilesInv, FilesInv', GoodFilesInv, EndWithError PROVE GoodFilesInv'
<1>1. /\ stage = "reducing" /\ frames[1].fault # "none"
      /\ stage' \in {"aborted", "exited"} /\ error_' \in {error_, Mark(error_, parse)}
      /\ UNCHANGED library /\ UNCHANGED frames
  BY DEF EndWithError, AllReduced, End
<1>2. SameTree /\ UNCHANGED search_path_
  BY <1>1 DEF SameTree, library
<1>3. Reads /\ ReadsGood /\ NothingFails
  BY DEF GoodFilesInv
<1>4. 1 \in DOMAIN frames /\ error_ \in ErrorType
  <2>1. frames # << >> /\ error_ \in ErrorType
    BY <1>1 DEF FilesInv, FilesTypeOK, BegunBelow
  <2>2. Len(frames) \in Nat /\ Len(frames) # 0 /\ DOMAIN frames = 1 .. Len(frames)
    BY <2>1, FrameFacts DEF FrameShape
  <2> QED
    BY <2>1, <2>2
<1>5. ~ (GoodMain /\ GoodPrelude)
  BY <1>1, <1>3, <1>4 DEF NothingFails, ImportsGood
<1>6. error_' = success => error_ = success
  BY <1>1, <1>4 DEF Mark, parse, success, type, ErrorType
<1>7. FoundBeside' => FoundBeside
  BY <1>2, <1>5, <1>6, SameMain DEF FoundBeside
<1>8. /\ \A j \in 1 .. Len(frames') : FrameReads(j)'
      /\ FoundBeside => \A j \in 1 .. Len(frames') : FrameGood(j)'
  BY <1>1, <1>2, <1>3, SameFrames DEF ReadsGood
<1> QED
  BY <1>1, <1>2, <1>5, <1>7, <1>8, Assembled

LEMMA GoodFilesInit == Init => GoodFilesInv
<1> SUFFICES ASSUME Init PROVE GoodFilesInv
  OBVIOUS
<1>1. frames = << >> /\ stage = "options" /\ error_ = success
  BY DEF Init
<1>2. DOMAIN frames = {}
  BY <1>1
<1> QED
  BY <1>1, <1>2 DEF GoodFilesInv, Reads, ReadsGood, NothingFails

LEMMA GoodFilesNext == FilesInv /\ FilesInv' /\ GoodFilesInv /\ [Next]_vars => GoodFilesInv'
<1> SUFFICES ASSUME FilesInv, FilesInv', GoodFilesInv, [Next]_vars PROVE GoodFilesInv'
  OBVIOUS
<1>0. Reads /\ ReadsGood /\ NothingFails
  BY DEF GoodFilesInv
<1>1. CASE AddDirectory
  <2>1. stage = "options" /\ UNCHANGED << files, filename, prelude, frames, error_, stage >>
    BY <1>1 DEF AddDirectory
  <2>2. frames = << >> /\ SameTree
    BY <2>1 DEF FilesInv, BegunBelow, SameTree
  <2>3. \A j \in 1 .. Len(frames') : FALSE
    BY <2>1, <2>2
  <2>4. GoodMain /\ GoodPrelude => error_' = success /\ stage' \in {"options", "reducing", "parsed"}
    BY <1>0, <2>1 DEF NothingFails
  <2> QED
    BY <2>1, <2>2, <2>3, <2>4, Assembled
<1>2. CASE UNCHANGED vars
  <2>1. SameTree /\ UNCHANGED << frames, search_path_, error_, stage, result >>
    BY <1>2 DEF vars, SameTree
  <2>2. FoundBeside' <=> FoundBeside
    BY <2>1, SameMain DEF FoundBeside
  <2>3. FoundBeside => (\A i \in DOMAIN frames : FrameGood(i))
                       /\ (stage = "parsed" => GoodMain /\ GoodPrelude /\ result = Expected)
    BY <1>0 DEF ReadsGood
  <2>4. GoodMain /\ GoodPrelude => /\ error_ = success /\ stage \in {"options", "reducing", "parsed"}
                                   /\ \A i \in DOMAIN frames : ImportsGood(i)
    BY <1>0 DEF NothingFails
  <2>5. /\ \A j \in 1 .. Len(frames') : FrameReads(j)'
        /\ (\A i \in DOMAIN frames : ImportsGood(i)) =>
             \A j \in 1 .. Len(frames') : ImportsGood(j)'
        /\ (\A i \in DOMAIN frames : FrameGood(i)) =>
             \A j \in 1 .. Len(frames') : FrameGood(j)'
    BY <1>0, <2>1, SameFrames
  <2>6. FoundBeside' => /\ \A j \in 1 .. Len(frames') : FrameGood(j)'
                        /\ stage' = "parsed" => GoodMain /\ GoodPrelude /\ result' = Expected
    BY <2>1, <2>2, <2>3, <2>5
  <2>7. GoodMain /\ GoodPrelude =>
          /\ error_' = success /\ stage' \in {"options", "reducing", "parsed"}
          /\ \A j \in 1 .. Len(frames') : ImportsGood(j)'
    BY <2>1, <2>4, <2>5
  <2> QED
    BY <2>1, <2>5, <2>6, <2>7, Assembled
<1> QED
  BY <1>1, <1>2, ParseGood, PushFrontGood, ImportGood, EndWithErrorGood, EndOfImportGood,
     EndOfListGood, EndOfProgramGood, EndOfPreludeGood DEF Next

LEMMA GoodFilesInvariant == Spec => []GoodFilesInv
<1>1. Init => GoodFilesInv
  BY GoodFilesInit
<1>2. FilesInv /\ FilesInv' /\ GoodFilesInv /\ [Next]_vars => GoodFilesInv'
  BY GoodFilesNext
<1> QED
  BY <1>1, <1>2, FilesInvariant, PTL DEF Spec

\* Whatever the files are, and however deep they import each other: good files
\* are parsed without an error, with what they import in place of the imports
\* (parse.cc, parse; tiger-driver.cc, parse_import; parsetiger.yy, import and
\* chunks).
THEOREM GoodFilesAreParsed == Spec => []GoodFilesParse
<1>1. GoodFilesInv => GoodFilesParse
  <2> SUFFICES ASSUME GoodFilesInv, stage \in {"parsed", "exited", "crashed", "aborted"},
                      GoodMain, GoodPrelude
               PROVE  stage = "parsed" /\ error_ = success /\ result = Expected
    BY DEF GoodFilesParse
  <2>1. error_ = success /\ stage \in {"options", "reducing", "parsed"}
    BY DEF GoodFilesInv, NothingFails
  <2> QED
    BY <2>1 DEF GoodFilesInv, ReadsGood, FoundBeside
<1> QED
  BY <1>1, GoodFilesInvariant, PTL

\* Where no directory is searched, a parse that ends with the status of success
\* has read files that were all there, all good, and says what they say
\* (parse.cc, parse; tiger-driver.cc, parse_import).
THEOREM SuccessIsDeserved == Spec => []SuccessMeansGood
<1>1. GoodFilesInv => SuccessMeansGood
  <2> SUFFICES ASSUME GoodFilesInv, stage = "parsed", error_ = success, search_path_ = << >>
               PROVE  GoodMain /\ GoodPrelude /\ result = Expected
    BY DEF SuccessMeansGood
  <2> QED
    BY DEF GoodFilesInv, ReadsGood, FoundBeside
<1> QED
  BY <1>1, GoodFilesInvariant, PTL
==============================================================================
