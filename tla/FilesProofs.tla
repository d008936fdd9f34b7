------------------------------ MODULE FilesProofs ------------------------------
(***************************************************************************)
(* Theorems about the files a program is put together from, for every tree *)
(* of files, search path, program and prelude.                             *)
(***************************************************************************)
EXTENDS GoodFiles, SequenceLemmas

-----------------------------------------------------------------------------
(* Recursion over a path.  A set of numbers has a least one: a property of *)
(* every prefix is shown by looking at the shortest prefix without it.     *)

\* The recursive function that walks a path is what its definition says.
LEMMA WalkedDefined ==
  ASSUME NEW S, NEW path \in Seq(S)
  PROVE  Walked(path) =
           [n \in 0 .. Len(path) |->
              IF n = 0 THEN << >> ELSE Enter(Walked(path)[n - 1], path[n])]
<1> DEFINE At(f, n) == IF n = 0 THEN << >> ELSE Enter(f[n - 1], path[n])
           UpTo(f, k) == f = [n \in 0 .. k |-> At(f, n)]
           T == {k \in 0 .. Len(path) : ~ \E f : UpTo(f, k)}
<1>1. \E f : UpTo(f, Len(path))
  <2> SUFFICES ASSUME T # {} PROVE FALSE
    OBVIOUS
  <2>1. PICK k \in T : \A m \in T : k <= m
    <3>1. T \in SUBSET Nat
      BY DEF T
    <3> HIDE DEF T
    <3> QED
      BY <3>1, LeastNumber
  <2>2. k # 0
    <3>1. UpTo([n \in 0 .. 0 |-> << >>], 0)
      OBVIOUS
    <3> QED
      BY <3>1
  <2>3. PICK g : UpTo(g, k - 1)
    <3>1. k - 1 \in 0 .. Len(path) /\ k - 1 \notin T
      BY <2>1, <2>2
    <3> QED
      BY <3>1
  <2> DEFINE f == [n \in 0 .. k |-> IF n = k THEN Enter(g[k - 1], path[k]) ELSE g[n]]
  <2>4. UpTo(f, k)
    <3>1. ASSUME NEW n \in 0 .. k PROVE f[n] = At(f, n)
      <4>1. CASE n = k
        BY <4>1, <2>2
      <4>2. CASE n # k
        <5>1. n \in 0 .. k - 1
          BY <4>2
        <5>2. g[n] = At(g, n)
          BY <5>1, <2>3
        <5>3. n # 0 => f[n - 1] = g[n - 1]
          BY <5>1
        <5> QED
          BY <4>2, <5>1, <5>2, <5>3
      <4> QED
        BY <4>1, <4>2
    <3> QED
      BY <3>1
  <2> QED
    BY <2>1, <2>4
<1>2. Walked(path) = CHOOSE f : UpTo(f, Len(path))
  BY DEF Walked
<1> QED
  BY <1>1, <1>2

\* A path that never leads up is where it leads.
LEMMA RealWhereNothingLeadsUp ==
  ASSUME NEW S, NEW path \in Seq(S), ".." \notin Range(path)
  PROVE  Real(path) = path
<1> DEFINE n == Len(path)
           prefix(k) == SubSeq(path, 1, k)
           T == {k \in 0 .. n : Walked(path)[k] # prefix(k)}
<1>1. T = {}
  <2> SUFFICES ASSUME T # {} PROVE FALSE
    OBVIOUS
  <2>1. PICK k \in T : \A m \in T : k <= m
    <3>1. T \in SUBSET Nat
      BY DEF T
    <3> HIDE DEF T
    <3> QED
      BY <3>1, LeastNumber
  <2>2. k \in 0 .. n /\ Walked(path)[k] # prefix(k)
    OBVIOUS
  <2>3. k # 0
    <3>1. Walked(path)[0] = << >>
      BY WalkedDefined
    <3>2. prefix(0) = << >>
      OBVIOUS
    <3> QED
      BY <2>2, <3>1, <3>2
  <2>4. Walked(path)[k - 1] = prefix(k - 1)
    <3>1. k - 1 \in 0 .. n /\ k - 1 \notin T
      BY <2>1, <2>3
    <3> QED
      BY <3>1
  <2>5. Walked(path)[k] = Enter(prefix(k - 1), path[k])
    <3> HIDE DEF T, prefix
    <3>1. Walked(path)[k] = Enter(Walked(path)[k - 1], path[k])
      BY <2>2, <2>3, WalkedDefined
    <3> QED
      BY <2>4, <3>1
  <2>6. path[k] # ".."
    BY <2>2, <2>3 DEF Range
  <2>7. Append(prefix(k - 1), path[k]) = prefix(k)
    BY <2>2, <2>3
  <2> QED
    BY <2>2, <2>5, <2>6, <2>7 DEF Enter
<1>2. Walked(path)[n] = prefix(n)
  BY <1>1
<1> QED
  BY <1>2 DEF Real
-----------------------------------------------------------------------------
(* Paths and names.                                                        *)

LEMMA JoinType ==
  ASSUME NEW dir \in Path, NEW name \in Names
  PROVE  Join(dir, name) \in Path
<1>1. dir \in Seq(STRING) /\ name.path \in Seq(STRING)
  BY DEF Path, Names
<1>2. dir \o name.path \in Seq(STRING)
  BY <1>1, ConcatProperties
<1> QED
  BY <1>1, <1>2 DEF Join, Path

LEMMA ParentType == ASSUME NEW path \in Path PROVE ParentPath(path) \in Path
<1>1. CASE path = << >>
  BY <1>1, FrontEmpty DEF ParentPath, Path
<1>2. CASE path # << >>
  BY <1>2, FrontLast DEF ParentPath, Path
<1> QED
  BY <1>1, <1>2

LEMMA FilenameType ==
  ASSUME NEW name \in Names
  PROVE  Filename(name.path) \in Path /\ Len(Filename(name.path)) = 1
<1>1. name.path \in Seq(STRING) /\ name.path # << >>
  BY DEF Names, Path
<1>2. Last(name.path) \in STRING
  BY <1>1, FrontLast
<1> QED
  BY <1>2 DEF Filename, Path

\* Where a file is looked for, and what it is called there, is a path.
LEMMA FoundType ==
  ASSUME FilesTypeOK, current_directory_ # << >>, NEW name \in Names, Found(name)
  PROVE  FindFile(name) \in Path
<1>1. Head(current_directory_) \in Path
  BY DEF FilesTypeOK
<1>2. ParentPath(Join(Head(current_directory_), name)) \in Path
  BY <1>1, JoinType, ParentType
<1> DEFINE directory == Filename(name.path)
           found == FoundInSearchPath(directory, directory)
<1>3. directory \in Path
  BY FilenameType
<1>4. ASSUME found # {} PROVE search_path_[Min(found)] \o directory \in Path
  <2>1. found \subseteq DOMAIN search_path_
    BY DEF FoundInSearchPath
  <2> HIDE DEF found
  <2>2. found \subseteq Nat
    BY <2>1 DEF FilesTypeOK
  <2>3. PICK n \in found : \A m \in found : n <= m
    BY <1>4, <2>2, LeastNumber
  <2>4. Min(found) \in found
    BY <2>3 DEF Min
  <2>5. search_path_[Min(found)] \in Path
    BY <2>1, <2>4 DEF FilesTypeOK
  <2> HIDE DEF directory
  <2> QED
    BY <1>3, <2>5 DEF Path
<1>5. found # {} => FindInSearchPath(directory, directory) \in Path
  BY <1>4 DEF FindInSearchPath, CheckedDir
<1> QED
  BY <1>2, <1>5 DEF FindFile, FoundHere, Found

\* A file that is found is in the directory it is found in.
LEMMA FoundThere ==
  ASSUME FilesTypeOK, current_directory_ # << >>, NEW name \in Names, Found(name)
  PROVE  /\ AbsolutePath(name) \in Path
         /\ ParentPath(AbsolutePath(name)) = FindFile(name)
<1> DEFINE dir == FindFile(name)
           base == Filename(name.path)
<1>1. dir \in Path
  BY FoundType
<1>2. base \in Path /\ Len(base) = 1
  BY FilenameType
<1>3. AbsolutePath(name) = dir \o base
  BY DEF AbsolutePath
<1> HIDE DEF dir, base
<1>4. /\ dir \in Seq(STRING)
      /\ dir \o base \in Seq(STRING)
      /\ Len(dir \o base) = Len(dir) + 1
      /\ \A i \in 1 .. Len(dir) : (dir \o base)[i] = dir[i]
  <2>1. dir \in Seq(STRING) /\ base \in Seq(STRING) /\ Len(base) = 1
    BY <1>1, <1>2 DEF Path
  <2>2. /\ dir \o base \in Seq(STRING)
        /\ Len(dir \o base) = Len(dir) + Len(base)
        /\ \A i \in 1 .. Len(dir) + Len(base) :
             (dir \o base)[i] = IF i <= Len(dir) THEN dir[i] ELSE base[i - Len(dir)]
    BY <2>1, ConcatProperties
  <2> QED
    BY <2>1, <2>2
<1>5. dir \o base # << >>
  BY <1>4
<1> DEFINE both == dir \o base
<1>6. /\ Front(both) \in Seq(STRING)
      /\ Len(Front(both)) = Len(dir)
      /\ \A i \in 1 .. Len(dir) : Front(both)[i] = both[i]
  <2>1. both \in Seq(STRING) /\ both # << >> /\ Len(both) = Len(dir) + 1
    BY <1>4, <1>5
  <2> HIDE DEF both
  <2>2. Len(dir) \in Nat
    BY <1>4
  <2> QED
    BY <2>1, <2>2, FrontLast
<1>7. Front(dir \o base) = dir
  BY <1>4, <1>6
<1> QED
  BY <1>3, <1>4, <1>7, dir = FindFile(name) DEF ParentPath, Path, dir
-----------------------------------------------------------------------------
(* What the steps do to the frames.                                        *)

\* A file that is opened is read next, above those that are being read; one
\* that cannot be ends the process.
FaultType == {"none", "syntax", "metavar"}

LEMMA OpenFileEnds ==
  ASSUME NEW role \in Role \ {"program"}, NEW path, NEW dir, NEW status \in ErrorType,
         OpenFile(role, path, dir, status)
  PROVE  /\ error_' \in ErrorType
         /\ \/ /\ stage' = "exited"
               /\ UNCHANGED << current_directory_, input_, frames >>
            \/ /\ stage' = "reducing"
               /\ current_directory_' = << dir >> \o current_directory_
               /\ input_' = path
               /\ \E kind \in {role, "program"}, fault \in FaultType,
                     items \in {Items(Tokens(files[Real(path)])),
                               BeforeFault(Tokens(files[Real(path)]))} :
                    /\ kind = "program" => role = "main"
                    /\ frames' = << Frame(kind, path, items, fault, input_) >> \o frames
               /\ Real(path) \in DOMAIN files
<1> DEFINE text == files[Real(path)]
           tokens == Tokens(text)
<1>1. ErrorType = 0 .. 5 /\ {failure, scan, parse} \subseteq ErrorType
  BY DEF ErrorType, success, failure, scan, parse, type
<1>2. ASSUME NEW old \in ErrorType, NEW e \in ErrorType PROVE Mark(old, e) \in ErrorType
  BY DEF Mark
<1>3. \A errors : Scanned(status, errors) \in ErrorType
  BY <1>1, <1>2 DEF Scanned
<1> DEFINE Begins(kind, items, fault) == frames' = << Frame(kind, path, items, fault, input_) >> \o frames
           Begun(kind, items, fault, errors) ==
             /\ current_directory_' = << dir >> \o current_directory_
             /\ input_' = path
             /\ Begins(kind, items, fault)
             /\ stage' = "reducing"
             /\ error_' = Scanned(status, errors)
             /\ Real(path) \in DOMAIN files
           Failed ==
             /\ stage' = "exited"
             /\ error_' = Mark(status, failure)
             /\ UNCHANGED << current_directory_, input_, frames >>
<1>4. \/ Failed
      \/ Begun(role, Items(tokens), "none", LexicalErrors(text))
      \/ role = "main" /\ Begun("program", Items(tokens), "none", ErrorsAhead(text))
      \/ Begun(role, BeforeFault(tokens), Fault(tokens), ErrorsAhead(text))
  BY DEF OpenFile, End
<1>5. Fault(tokens) \in FaultType /\ "none" \in FaultType
  BY DEF Fault, FaultType
<1> HIDE DEF Begins, tokens
<1>6. CASE Failed
  BY <1>1, <1>2, <1>6
<1>7. ASSUME NEW kind \in {role, "program"}, NEW fault \in FaultType, NEW errors,
             NEW items \in {Items(tokens), BeforeFault(tokens)},
             kind = "program" => role = "main", Begun(kind, items, fault, errors)
      PROVE  /\ error_' \in ErrorType
             /\ stage' = "reducing"
             /\ current_directory_' = << dir >> \o current_directory_
             /\ input_' = path
             /\ \E k \in {role, "program"}, f \in FaultType,
                  i \in {Items(tokens), BeforeFault(tokens)} :
                    (k = "program" => role = "main") /\ Begins(k, i, f)
             /\ Real(path) \in DOMAIN files
  <2>1. error_' \in ErrorType
    BY <1>3, <1>7
  <2> QED
    BY <1>7, <2>1
<1> HIDE DEF Begun
<1>8. CASE Begun(role, Items(tokens), "none", LexicalErrors(text))
  BY <1>5, <1>7, <1>8 DEF Begins, tokens
<1>9. CASE role = "main" /\ Begun("program", Items(tokens), "none", ErrorsAhead(text))
  BY <1>5, <1>7, <1>9 DEF Begins, tokens
<1>10. CASE Begun(role, BeforeFault(tokens), Fault(tokens), ErrorsAhead(text))
  BY <1>5, <1>7, <1>10 DEF Begins, tokens
<1> QED
  BY <1>4, <1>6, <1>8, <1>9, <1>10

Shape == OneDirectoryEach /\ BegunBelow /\ ImportedOnce

\* The stack of directories has an element for each frame, and one more.
LEMMA StackFacts ==
  ASSUME FilesTypeOK, OneDirectoryEach
  PROVE  /\ Len(frames) \in Nat /\ DOMAIN frames = 1 .. Len(frames)
         /\ current_directory_ # << >>
         /\ current_directory_[Len(frames) + 1] = Cwd
<1>1. current_directory_ \in Seq(Path) /\ frames \in Seq(FrameType)
  BY DEF FilesTypeOK
<1>2. Len(frames) \in Nat /\ DOMAIN frames = 1 .. Len(frames)
  BY <1>1
<1>3. current_directory_ # << >>
  BY <1>1, <1>2 DEF OneDirectoryEach
<1> QED
  BY <1>1, <1>2, <1>3, FrontLast DEF OneDirectoryEach

\* A file that is begun above the one that is read.
LEMMA ShapeBegun ==
  ASSUME FilesInv, stage \in {"options", "reducing"}, stage' = "reducing",
         NEW role \in Role, NEW path \in Path, NEW items \in Seq(Item),
         NEW fault \in FaultType,
         current_directory_' = << ParentPath(path) >> \o current_directory_,
         input_' = path,
         frames' = << Frame(role, path, items, fault, input_) >> \o frames,
         role \in {"import", "prelude"} <=> frames # << >>,
         IF frames = << >> THEN UNCHANGED open_files_
         ELSE path \notin open_files_ /\ open_files_' = open_files_ \cup {path}
  PROVE  /\ frames' \in Seq(FrameType) /\ current_directory_' \in Seq(Path)
         /\ open_files_' \subseteq Path
         /\ Shape'
<1> DEFINE f == Frame(role, path, items, fault, input_)
           n == Len(frames)
<1>1. f \in FrameType /\ f.role = role /\ f.path = path /\ f.saved = input_
  BY DEF Frame, FrameType, FaultType, FilesInv, FilesTypeOK
<1>2. /\ n \in Nat /\ DOMAIN frames = 1 .. n
      /\ frames \in Seq(FrameType)
      /\ current_directory_ \in Seq(Path) /\ Len(current_directory_) = n + 1
      /\ current_directory_[n + 1] = Cwd
      /\ \A i \in 1 .. n : current_directory_[i] = ParentPath(frames[i].path)
  BY StackFacts DEF FilesInv, FilesTypeOK, OneDirectoryEach
<1> HIDE DEF f
<1>3. /\ frames' \in Seq(FrameType) /\ Len(frames') = n + 1 /\ frames' # << >>
      /\ frames'[1] = f /\ \A i \in 1 .. n : frames'[i + 1] = frames[i]
  <2>1. frames' = << f >> \o frames
    BY DEF f
  <2> QED
    BY <1>1, <1>2, <2>1, PrependFacts
<1>4. /\ current_directory_' \in Seq(Path) /\ Len(current_directory_') = n + 2
      /\ current_directory_' # << >>
      /\ current_directory_'[1] = ParentPath(path)
      /\ \A i \in 1 .. n + 1 : current_directory_'[i + 1] = current_directory_[i]
  BY <1>2, ParentType, PrependFacts
<1>5. DOMAIN frames' = 1 .. n + 1
  BY <1>2, <1>3
<1>6. ASSUME NEW i \in 1 .. n + 1
      PROVE  \/ i = 1
             \/ i - 1 \in 1 .. n /\ frames'[i] = frames[i - 1]
                 /\ current_directory_'[i] = current_directory_[i - 1]
  <2>1. CASE i = 1
    BY <2>1
  <2>2. CASE i # 1
    <3>1. i - 1 \in 1 .. n /\ i - 1 \in 1 .. n + 1 /\ (i - 1) + 1 = i
      BY <1>2, <2>2
    <3> QED
      BY <1>3, <1>4, <3>1
  <2> QED
    BY <2>1, <2>2
<1>7. OneDirectoryEach'
  <2>1. current_directory_'[n + 2] = Cwd
    <3>1. n + 1 \in 1 .. n + 1 /\ (n + 1) + 1 = n + 2
      BY <1>2
    <3> QED
      BY <1>2, <1>4, <3>1
  <2>2. Last(current_directory_') = Cwd
    BY <1>4, <2>1, FrontLast
  <2>3. ASSUME NEW i \in 1 .. n + 1 PROVE current_directory_'[i] = ParentPath(frames'[i].path)
    <3>1. CASE i = 1
      BY <1>1, <1>3, <1>4, <3>1
    <3>2. CASE i # 1
      BY <1>2, <1>6, <3>2
    <3> QED
      BY <3>1, <3>2
  <2> QED
    BY <1>2, <1>3, <1>4, <1>5, <2>2, <2>3 DEF OneDirectoryEach
<1>8. BegunBelow'
  <2>1. frames = << >> <=> n = 0
    BY <1>2
  <2>2. ASSUME NEW i \in 1 .. n + 1
        PROVE  /\ frames'[i].role \in {"import", "prelude"} <=> i < n + 1
               /\ i < n + 1 => frames'[i].saved = frames'[i + 1].path
    <3>1. CASE i = 1
      <4>1. frames'[i].role \in {"import", "prelude"} <=> i < n + 1
        BY <1>1, <1>2, <1>3, <2>1, <3>1
      <4>2. ASSUME i < n + 1 PROVE frames'[i].saved = frames'[i + 1].path
        <5>1. n # 0 /\ 1 \in 1 .. n
          BY <1>2, <3>1, <4>2
        <5>2. input_ = frames[1].path
          BY <2>1, <5>1 DEF FilesInv, BegunBelow
        <5>3. frames'[2] = frames[1]
          BY <1>3, <5>1
        <5>4. i = 1 /\ i + 1 = 2
          BY <3>1
        <5> QED
          BY <1>1, <1>3, <5>2, <5>3, <5>4
      <4> QED
        BY <4>1, <4>2
    <3>2. CASE i # 1
      <4>1. i - 1 \in 1 .. n /\ frames'[i] = frames[i - 1]
        BY <1>6, <3>2
      <4>2. /\ frames[i - 1].role \in {"import", "prelude"} <=> i - 1 < n
            /\ i - 1 < n => frames[i - 1].saved = frames[i].path
        <5>1. (i - 1) + 1 = i
          OBVIOUS
        <5> QED
          BY <1>2, <4>1, <5>1 DEF FilesInv, BegunBelow
      <4>3. i < n + 1 => frames'[i + 1] = frames[i]
        BY <1>2, <1>3, <3>2
      <4> QED
        BY <1>2, <4>1, <4>2, <4>3
    <3> QED
      BY <3>1, <3>2
  <2>3. input_' = frames'[1].path
    BY <1>1, <1>3
  <2>4. stage' # "options" /\ Len(frames') = n + 1
    BY <1>3
  <2> QED
    BY <1>3, <1>5, <2>2, <2>3, <2>4 DEF BegunBelow
<1>9. ImportedOnce' /\ open_files_' \subseteq Path
  <2>1. Importing' = 1 .. n
    BY <1>2, <1>3 DEF Importing
  <2>2. /\ open_files_ = {frames[i].path : i \in 1 .. n - 1}
        /\ \A i, j \in 1 .. n - 1 : i # j => frames[i].path # frames[j].path
        /\ open_files_ \subseteq Path
    BY DEF FilesInv, ImportedOnce, Importing, FilesTypeOK
  <2>3. CASE n = 0
    BY <1>2, <2>1, <2>2, <2>3 DEF ImportedOnce
  <2>4. CASE n # 0
    <3>1. path \notin open_files_ /\ open_files_' = open_files_ \cup {path}
      BY <1>2, <2>4
    <3>2. frames'[1].path = path /\ \A i \in 1 .. n - 1 : frames'[i + 1].path = frames[i].path
      BY <1>1, <1>2, <1>3
    <3>3. {frames'[i].path : i \in 1 .. n} = open_files_'
      <4>1. ASSUME NEW i \in 1 .. n PROVE frames'[i].path \in open_files_'
        <5>1. i = 1 \/ (i - 1 \in 1 .. n - 1 /\ frames'[i].path = frames[i - 1].path)
          BY <1>2, <1>6
        <5> QED
          BY <2>2, <3>1, <3>2, <5>1
      <4>2. ASSUME NEW p \in open_files_' PROVE \E i \in 1 .. n : frames'[i].path = p
        <5>1. CASE p = path
          <6>1. 1 \in 1 .. n
            BY <1>2, <2>4
          <6> QED
            BY <3>2, <5>1, <6>1
        <5>2. CASE p # path
          <6>1. PICK i \in 1 .. n - 1 : p = frames[i].path
            BY <2>2, <3>1, <5>2
          <6>2. i + 1 \in 1 .. n /\ frames'[i + 1].path = p
            BY <1>2, <3>2, <6>1
          <6> QED
            BY <6>2
        <5> QED
          BY <5>1, <5>2
      <4> QED
        BY <4>1, <4>2
    <3>4. ASSUME NEW i \in 1 .. n, NEW j \in 1 .. n, i # j
          PROVE  frames'[i].path # frames'[j].path
      <4>1. \A k \in 1 .. n : k = 1 \/ (k - 1 \in 1 .. n - 1 /\ frames'[k].path = frames[k - 1].path)
        BY <1>2, <1>6
      <4>2. \A k \in 1 .. n - 1 : frames[k].path # path
        BY <2>2, <3>1
      <4> QED
        BY <2>2, <3>2, <3>4, <4>1, <4>2
    <3> QED
      BY <2>1, <2>2, <3>1, <3>3, <3>4 DEF ImportedOnce
  <2> QED
    BY <2>3, <2>4
<1> QED
  BY <1>3, <1>4, <1>7, <1>8, <1>9 DEF Shape

\* Where the process stops, nothing is read any more.
LEMMA ShapeStops ==
  ASSUME FilesInv, stage' \notin {"options", "reducing"},
         UNCHANGED << current_directory_, input_, frames >>
  PROVE  Shape'
<1>1. OneDirectoryEach' /\ BegunBelow'
  BY DEF FilesInv, OneDirectoryEach, BegunBelow
<1>2. ImportedOnce'
  BY DEF FilesInv, ImportedOnce, Importing
<1> QED
  BY <1>1, <1>2 DEF Shape

LEMMA ShapeFinished ==
  ASSUME NEW res, Finish(res)
  PROVE  /\ Shape' /\ frames' = << >> /\ current_directory_' = << Cwd >>
         /\ stage' = "parsed"
<1>1. frames' = << >> /\ current_directory_' = << Cwd >> /\ stage' = "parsed"
  BY DEF Finish
<1>2. Cwd \in Path /\ << Cwd >> \in Seq(Path) /\ << Cwd >> # << >> /\ Len(<< Cwd >>) = 1
  BY FilesAssumption
<1>3. Last(<< Cwd >>) = Cwd
  BY <1>2, FrontLast
<1>4. OneDirectoryEach'
  BY <1>1, <1>2, <1>3 DEF OneDirectoryEach
<1>5. BegunBelow' /\ ImportedOnce'
  BY <1>1 DEF BegunBelow, ImportedOnce, Importing
<1> QED
  BY <1>1, <1>4, <1>5 DEF Shape

\* The frame of the file that is read, with less to reduce.
LEMMA ShapeReduced ==
  ASSUME FilesInv, stage = "reducing", stage' = "reducing", NEW f \in FrameType,
         f.role = frames[1].role, f.path = frames[1].path, f.saved = frames[1].saved,
         frames' = << f >> \o Tail(frames),
         UNCHANGED << current_directory_, input_, open_files_ >>
  PROVE  frames' \in Seq(FrameType) /\ Shape'
<1> DEFINE n == Len(frames)
<1>1. /\ frames \in Seq(FrameType) /\ frames # << >>
      /\ n \in Nat \ {0} /\ DOMAIN frames = 1 .. n
  <2>1. frames \in Seq(FrameType) /\ frames # << >>
    BY DEF FilesInv, FilesTypeOK, BegunBelow
  <2> QED
    BY <2>1, TailFacts
<1>2. /\ Tail(frames) \in Seq(FrameType) /\ Len(Tail(frames)) = n - 1
      /\ \A i \in 1 .. n - 1 : Tail(frames)[i] = frames[i + 1]
  BY <1>1, TailFacts
<1>3. /\ frames' \in Seq(FrameType) /\ Len(frames') = n /\ frames' # << >>
      /\ frames'[1] = f /\ \A i \in 1 .. n - 1 : frames'[i + 1] = frames[i + 1]
  BY <1>1, <1>2, PrependFacts
<1>4. DOMAIN frames' = 1 .. n
  BY <1>3
<1>5. \A i \in 1 .. n : /\ frames'[i].role = frames[i].role
                        /\ frames'[i].path = frames[i].path
                        /\ frames'[i].saved = frames[i].saved
  <2> SUFFICES ASSUME NEW i \in 1 .. n, i # 1 PROVE frames'[i] = frames[i]
    BY <1>1, <1>3
  <2>1. i - 1 \in 1 .. n - 1 /\ (i - 1) + 1 = i
    BY <1>1
  <2> QED
    BY <1>3, <2>1
<1>6. OneDirectoryEach'
  BY <1>1, <1>3, <1>4, <1>5 DEF FilesInv, OneDirectoryEach
<1>7. BegunBelow'
  <2>1. \A i \in 1 .. n : i < n => i + 1 \in 1 .. n
    BY <1>1
  <2>2. /\ frames # << >> /\ input_ = frames[1].path /\ 1 \in 1 .. n
        /\ \A i \in 1 .. n : /\ frames[i].role \in {"import", "prelude"} <=> i < n
                             /\ i < n => frames[i].saved = frames[i + 1].path
    BY <1>1 DEF FilesInv, BegunBelow
  <2>3. \A i \in 1 .. n : /\ frames'[i].role \in {"import", "prelude"} <=> i < n
                          /\ i < n => frames'[i].saved = frames'[i + 1].path
    BY <1>5, <2>1, <2>2
  <2>4. input_' = frames'[1].path
    BY <1>5, <2>2
  <2>5. stage' # "options"
    OBVIOUS
  <2> QED
    BY <1>3, <1>4, <2>3, <2>4, <2>5 DEF BegunBelow
<1>8. ImportedOnce'
  <2>1. Importing' = Importing /\ Importing \subseteq 1 .. n
    BY <1>1, <1>3 DEF Importing
  <2>2. \A i \in Importing : frames'[i].path = frames[i].path
    BY <1>5, <2>1
  <2> QED
    BY <2>1, <2>2 DEF FilesInv, ImportedOnce
<1> QED
  BY <1>3, <1>6, <1>7, <1>8 DEF Shape

\* Back in the file that imports, with the frame of the imported one gone.
LEMMA ShapeReturned ==
  ASSUME FilesInv, stage = "reducing", stage' = "reducing",
         frames[1].role \in {"import", "prelude"}, Return, NEW f \in FrameType,
         f.role = frames[2].role, f.path = frames[2].path, f.saved = frames[2].saved,
         frames' = << f >> \o SubSeq(frames, 3, Len(frames))
  PROVE  /\ frames' \in Seq(FrameType) /\ current_directory_' \in Seq(Path)
         /\ open_files_' \subseteq Path
         /\ Shape'
<1> DEFINE n == Len(frames)
<1>1. /\ frames \in Seq(FrameType) /\ frames # << >>
      /\ n \in Nat \ {0} /\ DOMAIN frames = 1 .. n
  <2>1. frames \in Seq(FrameType) /\ frames # << >>
    BY DEF FilesInv, FilesTypeOK, BegunBelow
  <2> QED
    BY <2>1, TailFacts
<1>2. n > 1
  BY <1>1 DEF FilesInv, BegunBelow
<1>3. /\ SubSeq(frames, 3, n) \in Seq(FrameType) /\ Len(SubSeq(frames, 3, n)) = n - 2
      /\ \A i \in 1 .. n - 2 : SubSeq(frames, 3, n)[i] = frames[i + 2]
  BY <1>1, <1>2
<1>4. /\ frames' \in Seq(FrameType) /\ Len(frames') = n - 1 /\ frames' # << >>
      /\ frames'[1] = f /\ \A i \in 1 .. n - 2 : frames'[i + 1] = frames[i + 2]
  <2>1. (n - 2) + 1 = n - 1
    BY <1>1
  <2> QED
    BY <1>3, <2>1, PrependFacts
<1>5. DOMAIN frames' = 1 .. n - 1
  BY <1>1, <1>4
<1>6. \A i \in 1 .. n - 1 : /\ frames'[i].role = frames[i + 1].role
                            /\ frames'[i].path = frames[i + 1].path
                            /\ frames'[i].saved = frames[i + 1].saved
  <2> SUFFICES ASSUME NEW i \in 1 .. n - 1, i # 1 PROVE frames'[i] = frames[i + 1]
    BY <1>1, <1>4
  <2>1. i - 1 \in 1 .. n - 2 /\ (i - 1) + 1 = i /\ (i - 1) + 2 = i + 1
    BY <1>1
  <2> QED
    BY <1>4, <2>1
<1>7. /\ current_directory_ \in Seq(Path) /\ Len(current_directory_) = n + 1
      /\ current_directory_ # << >> /\ current_directory_[n + 1] = Cwd
      /\ \A i \in 1 .. n : current_directory_[i] = ParentPath(frames[i].path)
  BY <1>1, StackFacts DEF FilesInv, FilesTypeOK, OneDirectoryEach
<1>8. /\ current_directory_' \in Seq(Path) /\ Len(current_directory_') = n
      /\ \A i \in 1 .. n : current_directory_'[i] = current_directory_[i + 1]
  BY <1>1, <1>7, TailFacts DEF Return
<1>9. OneDirectoryEach'
  <2>1. current_directory_' # << >> /\ current_directory_'[n] = Cwd
    <3>1. n \in 1 .. n /\ n # 0
      BY <1>1
    <3>2. current_directory_'[n] = Cwd
      BY <1>7, <1>8, <3>1
    <3>3. current_directory_' # << >>
      BY <1>8, <3>1
    <3> QED
      BY <3>2, <3>3
  <2>2. Last(current_directory_') = Cwd
    BY <1>8, <2>1, FrontLast
  <2>3. ASSUME NEW i \in 1 .. n - 1 PROVE current_directory_'[i] = ParentPath(frames'[i].path)
    <3>1. i \in 1 .. n /\ i + 1 \in 1 .. n
      BY <1>1
    <3> QED
      BY <1>6, <1>7, <1>8, <3>1
  <2>4. Len(current_directory_') = Len(frames') + 1
    BY <1>1, <1>4, <1>8
  <2> QED
    BY <1>5, <2>2, <2>3, <2>4 DEF OneDirectoryEach
<1>10. BegunBelow'
  <2>1. \A i \in 1 .. n : /\ frames[i].role \in {"import", "prelude"} <=> i < n
                          /\ i < n => frames[i].saved = frames[i + 1].path
    BY <1>1 DEF FilesInv, BegunBelow
  <2>2. ASSUME NEW i \in 1 .. n - 1
        PROVE  /\ frames'[i].role \in {"import", "prelude"} <=> i < n - 1
               /\ i < n - 1 => frames'[i].saved = frames'[i + 1].path
    <3>1. i + 1 \in 1 .. n /\ (i + 1 < n <=> i < n - 1) /\ (i < n - 1 => i + 1 \in 1 .. n - 1)
      BY <1>1
    <3> QED
      BY <1>6, <2>1, <3>1
  <2>3. input_' = frames'[1].path
    <3>1. 1 \in 1 .. n - 1 /\ 1 \in 1 .. n /\ 1 < n /\ 1 + 1 = 2
      BY <1>1, <1>2
    <3> QED
      BY <1>6, <2>1, <3>1 DEF Return
  <2>4. stage' # "options"
    OBVIOUS
  <2> QED
    BY <1>4, <1>5, <2>2, <2>3, <2>4 DEF BegunBelow
<1>11. ImportedOnce' /\ open_files_' \subseteq Path
  <2>1. Importing' = 1 .. n - 2 /\ Importing = 1 .. n - 1
    BY <1>1, <1>4 DEF Importing
  <2>2. /\ open_files_ = {frames[i].path : i \in 1 .. n - 1}
        /\ \A i, j \in 1 .. n - 1 : i # j => frames[i].path # frames[j].path
        /\ open_files_ \subseteq Path
    BY <2>1 DEF FilesInv, ImportedOnce, FilesTypeOK
  <2>3. \A i \in 1 .. n - 2 : i + 1 \in 1 .. n - 1 /\ i \in 1 .. n - 1 /\ i + 1 # 1
    BY <1>1
  <2>4. 1 \in 1 .. n - 1 /\ \A i \in 1 .. n - 1 : i # 1 => i - 1 \in 1 .. n - 2 /\ (i - 1) + 1 = i
    BY <1>1, <1>2
  <2>5. \A i \in 1 .. n - 2 : frames'[i].path = frames[i + 1].path
    BY <1>6, <2>3
  <2>6. open_files_' = {frames'[i].path : i \in 1 .. n - 2}
    <3>1. ASSUME NEW i \in 1 .. n - 2 PROVE frames'[i].path \in open_files_'
      BY <2>2, <2>3, <2>4, <2>5 DEF Return
    <3>2. ASSUME NEW p \in open_files_' PROVE \E i \in 1 .. n - 2 : frames'[i].path = p
      <4>1. PICK i \in 1 .. n - 1 : p = frames[i].path /\ i # 1
        BY <2>2 DEF Return
      <4>2. i - 1 \in 1 .. n - 2 /\ frames'[i - 1].path = p
        BY <2>4, <2>5, <4>1
      <4> QED
        BY <4>2
    <3> QED
      BY <3>1, <3>2
  <2>7. ASSUME NEW i \in 1 .. n - 2, NEW j \in 1 .. n - 2, i # j
        PROVE  frames'[i].path # frames'[j].path
    <3>1. i + 1 # j + 1
      BY <2>7
    <3> QED
      BY <2>2, <2>3, <2>5, <3>1
  <2> QED
    BY <2>1, <2>2, <2>6, <2>7 DEF ImportedOnce, Return
<1> QED
  BY <1>4, <1>8, <1>9, <1>10, <1>11 DEF Shape

-----------------------------------------------------------------------------
(* The steps.                                                              *)

\* The preludes that are not read from a file.
BuiltinNames == {Name(FALSE, << "builtin" >>), Name(FALSE, << >>)}

\* The parts of the state that have to do with reading.
Typed ==
  /\ current_directory_ \in Seq(Path) /\ open_files_ \subseteq Path /\ input_ \in Path
  /\ frames \in Seq(FrameType) /\ error_ \in ErrorType
  /\ stage \in {"options", "reducing", "parsed", "exited", "crashed", "aborted"}

LEMMA Together ==
  ASSUME FilesTypeOK, UNCHANGED library, Typed', Shape' PROVE FilesInv'
<1>1. /\ files' \in FileSystems /\ search_path_' \in Seq(Path)
      /\ filename' \in Names /\ prelude' \in Names \cup BuiltinNames
  BY DEF library, FilesTypeOK, BuiltinNames
<1>2. FilesTypeOK'
  BY <1>1 DEF FilesTypeOK, Typed, BuiltinNames
<1> QED
  BY <1>2 DEF FilesInv, Shape

LEMMA Separately == ASSUME FilesInv PROVE FilesTypeOK /\ Typed /\ Shape
BY DEF FilesInv, FilesTypeOK, Typed, Shape

LEMMA FilesInvInit == Init => FilesInv
<1> SUFFICES ASSUME Init PROVE FilesInv
  OBVIOUS
<1>1. /\ frames = << >> /\ current_directory_ = << Cwd >> /\ stage = "options"
      /\ open_files_ = {} /\ input_ = << >> /\ search_path_ = << >>
  BY DEF Init
<1>2. Cwd \in Path /\ << Cwd >> \in Seq(Path) /\ << Cwd >> # << >> /\ Len(<< Cwd >>) = 1
  BY FilesAssumption
<1>3. Last(<< Cwd >>) = Cwd
  BY <1>2, FrontLast
<1>4. << >> \in Path
  BY DEF Path
<1>5. filename \in Names /\ prelude \in Names \cup BuiltinNames
  BY FilesAssumption DEF Init, BuiltinNames
<1>6. error_ \in ErrorType /\ files \in FileSystems
  BY DEF Init, ErrorType, success, type
<1>7. FilesTypeOK
  <2>1. search_path_ \in Seq(Path) /\ frames \in Seq(FrameType)
    BY <1>1
  <2> QED
    BY <1>1, <1>2, <1>4, <1>5, <1>6, <2>1 DEF FilesTypeOK, BuiltinNames
<1>8. OneDirectoryEach
  BY <1>1, <1>2, <1>3 DEF OneDirectoryEach
<1>9. BegunBelow /\ ImportedOnce
  BY <1>1 DEF BegunBelow, ImportedOnce, Importing
<1> QED
  BY <1>7, <1>8, <1>9 DEF FilesInv

\* The frames keep their shape when a file is opened from where the parser is.
LEMMA OpenedInv ==
  ASSUME FilesInv, stage \in {"options", "reducing"}, NEW role \in {"main", "import", "prelude"},
         NEW path \in Path, NEW status \in ErrorType,
         OpenFile(role, path, ParentPath(path), status), UNCHANGED library,
         role \in {"import", "prelude"} <=> frames # << >>,
         IF frames = << >> THEN UNCHANGED open_files_
         ELSE path \notin open_files_ /\ open_files_' = open_files_ \cup {path}
  PROVE  FilesInv'
<1> DEFINE text == files[Real(path)]
<1>1. FilesTypeOK /\ Typed /\ open_files_' \subseteq Path
  BY Separately DEF Typed
<1>2. role \in Role \ {"program"}
  BY DEF Role
<1>3. /\ error_' \in ErrorType
      /\ \/ /\ stage' = "exited"
            /\ UNCHANGED << current_directory_, input_, frames >>
         \/ /\ stage' = "reducing"
            /\ current_directory_' = << ParentPath(path) >> \o current_directory_
            /\ input_' = path
            /\ \E kind \in {role, "program"}, fault \in FaultType,
                  items \in {Items(Tokens(text)), BeforeFault(Tokens(text))} :
                 /\ kind = "program" => role = "main"
                 /\ frames' = << Frame(kind, path, items, fault, input_) >> \o frames
            /\ Real(path) \in DOMAIN files
  BY <1>2, OpenFileEnds
<1>4. CASE /\ stage' = "exited"
           /\ UNCHANGED << current_directory_, input_, frames >>
  <2>1. Shape'
    BY <1>4, ShapeStops
  <2>2. Typed'
    BY <1>1, <1>3, <1>4 DEF Typed
  <2> QED
    BY <1>1, <2>1, <2>2, Together
<1>5. CASE stage' = "reducing"
  <2>1. PICK kind \in {role, "program"}, fault \in FaultType,
             items \in {Items(Tokens(text)), BeforeFault(Tokens(text))} :
          /\ kind = "program" => role = "main"
          /\ frames' = << Frame(kind, path, items, fault, input_) >> \o frames
    BY <1>3, <1>5
  <2>2. items \in Seq(Item)
    BY <1>1, <1>3, <1>5, FilesAssumption DEF FilesTypeOK
  <2>3. kind \in Role /\ (kind \in {"import", "prelude"} <=> frames # << >>)
    BY <2>1 DEF Role
  <2>4. input_' = path /\ current_directory_' = << ParentPath(path) >> \o current_directory_
    BY <1>3, <1>5
  <2>5. /\ frames' \in Seq(FrameType) /\ current_directory_' \in Seq(Path)
        /\ open_files_' \subseteq Path
        /\ Shape'
    BY <1>5, <2>1, <2>2, <2>3, <2>4, ShapeBegun
  <2>6. Typed'
    BY <1>3, <1>5, <2>4, <2>5 DEF Typed
  <2> QED
    BY <1>1, <2>5, <2>6, Together
<1> QED
  BY <1>3, <1>4, <1>5

LEMMA ParseImportInv ==
  ASSUME FilesInv, stage = "reducing", NEW role \in {"import", "prelude"}, NEW name \in Names,
         NEW status \in ErrorType, ~ NoList(name), ParseImport(role, name, status),
         UNCHANGED library
  PROVE  FilesInv'
<1>1. FilesTypeOK /\ frames # << >> /\ current_directory_ # << >>
  BY StackFacts DEF FilesInv, BegunBelow
<1>2. AbsolutePath(name) \in Path /\ ParentPath(AbsolutePath(name)) = FindFile(name)
  BY <1>1, FoundThere DEF NoList
<1>3. AbsolutePath(name) \notin open_files_
  BY DEF NoList, Refused
<1>4. /\ OpenFile(role, AbsolutePath(name), ParentPath(AbsolutePath(name)), status)
      /\ open_files_' = open_files_ \cup {AbsolutePath(name)}
  BY <1>2 DEF ParseImport
<1> QED
  BY <1>1, <1>2, <1>3, <1>4, OpenedInv

LEMMA FinishInv ==
  ASSUME FilesInv, NEW res, Finish(res), UNCHANGED library, error_' \in ErrorType,
         open_files_' \subseteq open_files_, input_' \in Path
  PROVE  FilesInv'
<1>1. FilesTypeOK /\ Typed
  BY Separately
<1>2. Shape' /\ frames' = << >> /\ current_directory_' = << Cwd >> /\ stage' = "parsed"
  BY ShapeFinished
<1>3. << Cwd >> \in Seq(Path)
  BY FilesAssumption
<1>4. Typed'
  BY <1>1, <1>2, <1>3 DEF Typed
<1> QED
  BY <1>1, <1>2, <1>4, Together

LEMMA RecordedType ==
  ASSUME NEW status \in ErrorType
  PROVE  /\ Recorded(status) \in ErrorType /\ Mark(status, parse) \in ErrorType
         /\ \A errors : Scanned(status, errors) \in ErrorType
BY DEF Recorded, Scanned, Mark, ErrorType, success, failure, scan, parse, type

LEMMA FilesInvNext == FilesInv /\ [Next]_vars => FilesInv'
<1> SUFFICES ASSUME FilesInv, [Next]_vars PROVE FilesInv'
  OBVIOUS
<1>0. FilesTypeOK /\ Typed /\ Shape
  BY Separately
<1>1. CASE AddDirectory
  <2>1. SearchDirs \subseteq Path
    BY FilesAssumption
  <2>2. PICK dir \in SearchDirs : AppendDir(dir) \/ PrependDir(dir)
    BY <1>1 DEF AddDirectory
  <2>3. search_path_' \in Seq(Path)
    <3>1. search_path_ \in Seq(Path) /\ dir \in Path
      BY <1>0, <2>1 DEF FilesTypeOK
    <3>2. Append(search_path_, dir) \in Seq(Path)
      BY <3>1, AppendFacts
    <3>3. << dir >> \o search_path_ \in Seq(Path)
      BY <3>1, PrependFacts
    <3> QED
      BY <2>2, <3>2, <3>3 DEF AppendDir, PrependDir
  <2>4. UNCHANGED << files, current_directory_, open_files_, input_, frames, error_, filename,
                     prelude, stage >>
    BY <1>1 DEF AddDirectory
  <2>5. FilesTypeOK'
    BY <1>0, <2>3, <2>4 DEF FilesTypeOK
  <2>6. OneDirectoryEach' /\ BegunBelow' /\ ImportedOnce'
    BY <1>0, <2>4 DEF Shape, OneDirectoryEach, BegunBelow, ImportedOnce, Importing
  <2> QED
    BY <2>5, <2>6 DEF FilesInv
<1>2. CASE Parse
  <2> DEFINE path == Join(Cwd, filename)
  <2>1. path \in Path
    BY <1>0, FilesAssumption, JoinType DEF FilesTypeOK
  <2>2. /\ stage = "options" /\ OpenFile("main", path, ParentPath(path), error_)
        /\ UNCHANGED library /\ UNCHANGED open_files_
    BY <1>2 DEF Parse
  <2>3. frames = << >>
    BY <2>2 DEF FilesInv, BegunBelow
  <2>4. error_ \in ErrorType
    BY <1>0 DEF Typed
  <2> HIDE DEF path
  <2> QED
    BY <2>1, <2>2, <2>3, <2>4, OpenedInv
<1>3. CASE PushFront
  <2>1. /\ frames \in Seq(FrameType) /\ frames # << >> /\ frames[1] \in FrameType
        /\ stage = "reducing"
    BY <1>0, <1>3, TailFacts DEF PushFront, Reducing, Typed, Shape, BegunBelow
  <2> DEFINE f == [frames[1] EXCEPT !.items = Front(@), !.chunks = << NextItem.decl >> \o @]
  <2>2. frames[1].items \in Seq(Item) /\ frames[1].items # << >>
    BY <1>3, <2>1 DEF PushFront, Reducing, FrameType
  <2>3. Front(frames[1].items) \in Seq(Item) /\ NextItem \in Item
    BY <2>2, FrontLast DEF NextItem
  <2>4. << NextItem.decl >> \o frames[1].chunks \in Seq(STRING)
    <3>1. NextItem.decl \in STRING /\ frames[1].chunks \in Seq(STRING)
      BY <2>1, <2>3 DEF Item, FrameType
    <3> QED
      BY <3>1, PrependFacts
  <2>5. /\ f \in FrameType /\ f.role = frames[1].role /\ f.path = frames[1].path
        /\ f.saved = frames[1].saved
    BY <2>1, <2>3, <2>4 DEF FrameType
  <2>6. /\ frames' = << f >> \o Tail(frames) /\ stage' = "reducing"
        /\ UNCHANGED << library, current_directory_, input_, open_files_, error_, stage >>
    BY <1>3, <2>1 DEF PushFront, Reduced
  <2> HIDE DEF f
  <2>7. frames' \in Seq(FrameType) /\ Shape'
    BY <2>1, <2>5, <2>6, ShapeReduced
  <2>8. Typed'
    BY <1>0, <2>6, <2>7 DEF Typed
  <2> QED
    BY <1>0, <2>6, <2>7, <2>8, Together
<1>4. CASE Import
  <2>1. stage = "reducing" /\ UNCHANGED library /\ NextItem.import
    BY <1>4 DEF Import, Reducing
  <2>2. NextItem.name \in Names
    <3>1. frames \in Seq(FrameType) /\ frames # << >> /\ frames[1] \in FrameType
      BY <1>0, <2>1, TailFacts DEF Typed, Shape, BegunBelow
    <3>2. frames[1].items \in Seq(Item) /\ frames[1].items # << >>
      BY <1>4, <3>1 DEF Import, Reducing, FrameType
    <3>3. NextItem \in Item
      BY <3>2, FrontLast DEF NextItem
    <3> QED
      BY <2>1, <3>3 DEF Item
  <2>3. CASE NoList(NextItem.name)
    <3>1. /\ stage' = "crashed" /\ error_' = Recorded(error_)
          /\ UNCHANGED << current_directory_, open_files_, input_, frames >>
      BY <1>4, <2>3 DEF Import, End
    <3>2. Shape'
      BY <3>1, ShapeStops
    <3>3. Typed'
      BY <1>0, <3>1, RecordedType DEF Typed
    <3> QED
      BY <1>0, <2>1, <3>2, <3>3, Together
  <2>4. CASE ~ NoList(NextItem.name)
    <3>1. ParseImport("import", NextItem.name, error_) /\ error_ \in ErrorType
      BY <1>0, <1>4, <2>4 DEF Import, Typed
    <3> QED
      BY <2>1, <2>2, <2>4, <3>1, ParseImportInv
  <2> QED
    BY <2>3, <2>4
<1>5. CASE EndOfImport
  <2>1. /\ stage = "reducing" /\ frames[1].role = "import" /\ Return
        /\ frames \in Seq(FrameType) /\ frames # << >>
        /\ UNCHANGED << library, error_, stage >>
    BY <1>0, <1>5 DEF EndOfImport, Completed, AllReduced, Typed, Shape, BegunBelow
  <2>2. Len(frames) \in Nat /\ 1 \in DOMAIN frames /\ DOMAIN frames = 1 .. Len(frames)
    BY <2>1, TailFacts
  <2>3. 1 < Len(frames)
    BY <1>0, <2>1, <2>2 DEF Shape, BegunBelow
  <2>4. frames[1] \in FrameType /\ frames[2] \in FrameType /\ 2 \in DOMAIN frames
    BY <2>1, <2>2, <2>3
  <2> DEFINE f == [frames[2] EXCEPT !.items = Front(@), !.chunks = Imported(frames[1].chunks, @)]
  <2>5. Front(frames[2].items) \in Seq(Item)
    <3>1. frames[2].items \in Seq(Item)
      BY <2>4 DEF FrameType
    <3>2. << >> \in Seq(Item)
      OBVIOUS
    <3> QED
      BY <3>1, <3>2, FrontLast, FrontEmpty
  <2>6. Imported(frames[1].chunks, frames[2].chunks) \in Seq(STRING)
    <3>1. frames[1].chunks \in Seq(STRING) /\ frames[2].chunks \in Seq(STRING)
      BY <2>4 DEF FrameType
    <3> QED
      BY <3>1, ConcatProperties DEF Imported
  <2>7. /\ f \in FrameType /\ f.role = frames[2].role /\ f.path = frames[2].path
        /\ f.saved = frames[2].saved
    BY <2>4, <2>5, <2>6 DEF FrameType
  <2>8. frames' = << f >> \o SubSeq(frames, 3, Len(frames))
    BY <1>5 DEF EndOfImport
  <2> HIDE DEF f
  <2>9. /\ frames' \in Seq(FrameType) /\ current_directory_' \in Seq(Path)
        /\ open_files_' \subseteq Path
        /\ Shape'
    BY <2>1, <2>7, <2>8, ShapeReturned
  <2>10. input_' \in Path
    BY <2>1, <2>4 DEF Return, FrameType
  <2>11. Typed'
    BY <1>0, <2>1, <2>9, <2>10 DEF Typed
  <2> QED
    BY <1>0, <2>1, <2>9, <2>11, Together
<1>6. CASE EndOfList
  <2>1. /\ \E res : Finish(res)
        /\ UNCHANGED << library, open_files_, input_, error_ >>
    BY <1>6 DEF EndOfList
  <2> QED
    BY <1>0, <2>1, FinishInv DEF Typed
<1>7. CASE EndOfProgram
  <2> DEFINE read == Scanned(error_, LexicalErrors(files[Real(frames[1].path)]))
  <2>1. stage = "reducing" /\ read \in ErrorType
    BY <1>0, <1>7, RecordedType DEF EndOfProgram, Completed, AllReduced, Typed
  <2>5. Recorded(read) \in ErrorType
    BY <2>1, RecordedType
  <2>2. CASE prelude.path \in {<< >>, << "builtin" >>}
    <3>1. /\ \E res : Finish(res)
          /\ UNCHANGED << library, open_files_, input_ >> /\ error_' = read
      BY <1>7, <2>2 DEF EndOfProgram
    <3> QED
      BY <1>0, <2>1, <3>1, FinishInv DEF Typed
  <2>3. CASE prelude.path \notin {<< >>, << "builtin" >>} /\ NoList(prelude)
    <3>1. /\ \E res : Finish(res)
          /\ UNCHANGED << library, open_files_, input_ >> /\ error_' = Recorded(read)
      BY <1>7, <2>3 DEF EndOfProgram
    <3> QED
      BY <1>0, <2>5, <3>1, FinishInv DEF Typed
  <2>4. CASE prelude.path \notin {<< >>, << "builtin" >>} /\ ~ NoList(prelude)
    <3>1. ParseImport("prelude", prelude, read) /\ UNCHANGED library
      BY <1>7, <2>4 DEF EndOfProgram
    <3>2. prelude \in Names
      BY <1>0, <2>4 DEF FilesTypeOK, Name
    <3> QED
      BY <2>1, <2>4, <3>1, <3>2, ParseImportInv
  <2> QED
    BY <2>2, <2>3, <2>4
<1>8. CASE EndOfPrelude
  <2>1. /\ \E res : Finish(res)
        /\ open_files_' \subseteq open_files_ /\ input_' = frames[1].saved
        /\ UNCHANGED << library, error_ >> /\ stage = "reducing"
    BY <1>8 DEF EndOfPrelude, Completed, AllReduced
  <2>2. input_' \in Path
    <3>1. frames \in Seq(FrameType) /\ frames # << >> /\ frames[1] \in FrameType
      BY <1>0, <2>1, TailFacts DEF Typed, Shape, BegunBelow
    <3> QED
      BY <2>1, <3>1 DEF FrameType
  <2> QED
    BY <1>0, <2>1, <2>2, FinishInv DEF Typed
<1>10. CASE EndWithError
  <2>1. /\ stage' \in {"exited", "aborted"} /\ error_' \in {error_, Mark(error_, parse)}
        /\ UNCHANGED << library, current_directory_, open_files_, input_, frames >>
    BY <1>10 DEF EndWithError, End
  <2>2. Shape'
    BY <2>1, ShapeStops
  <2>3. Typed'
    BY <1>0, <2>1, RecordedType DEF Typed
  <2> QED
    BY <1>0, <2>1, <2>2, <2>3, Together
<1>9. CASE UNCHANGED vars
  <2>1. UNCHANGED library /\ Typed'
    BY <1>0, <1>9 DEF vars, library, Typed
  <2>2. OneDirectoryEach' /\ BegunBelow' /\ ImportedOnce'
    BY <1>0, <1>9 DEF vars, Shape, OneDirectoryEach, BegunBelow, ImportedOnce, Importing
  <2> QED
    BY <1>0, <2>1, <2>2, Together DEF Shape
<1> QED
  BY <1>1, <1>2, <1>3, <1>4, <1>5, <1>6, <1>7, <1>8, <1>9, <1>10 DEF Next

LEMMA FilesInvariant == Spec => []FilesInv
<1>1. Init => FilesInv
  BY FilesInvInit
<1>2. FilesInv /\ [Next]_vars => FilesInv'
  BY FilesInvNext
<1> QED
  BY <1>1, <1>2, PTL DEF Spec

-----------------------------------------------------------------------------
(* The theorems.                                                           *)

\* While files are read, the directories on the stack are those of the files
\* that import each other, and the parser's input is the file it reads, however
\* deep the imports and whatever they find (file-library.cc, push_current_directory
\* and pop_current_directory; tiger-driver.cc, parse_import).
THEOREM FollowsFiles == Spec => []FollowsTheFile
<1>1. FilesInv => FollowsTheFile
  <2> SUFFICES ASSUME FilesInv PROVE FollowsTheFile
    OBVIOUS
  <2> DEFINE n == Len(frames)
             directories == [i \in DOMAIN frames |-> ParentPath(frames[i].path)]
  <2>1. FilesTypeOK /\ OneDirectoryEach
    BY DEF FilesInv
  <2>2. /\ n \in Nat /\ DOMAIN frames = 1 .. n /\ frames \in Seq(FrameType)
        /\ current_directory_ \in Seq(Path) /\ Len(current_directory_) = n + 1
        /\ current_directory_[n + 1] = Cwd
        /\ \A i \in 1 .. n : current_directory_[i] = ParentPath(frames[i].path)
    BY <2>1, StackFacts DEF FilesTypeOK, OneDirectoryEach
  <2>3. \A i \in 1 .. n : ParentPath(frames[i].path) \in Path
    <3>1. \A i \in 1 .. n : frames[i] \in FrameType
      BY <2>2
    <3>2. \A i \in 1 .. n : frames[i].path \in Path
      BY <3>1 DEF FrameType
    <3> QED
      BY <3>2, ParentType
  <2>4. directories \in Seq(Path) /\ Len(directories) = n
    BY <2>2, <2>3
  <2>5. \A i \in 1 .. n : directories[i] = current_directory_[i]
    BY <2>2
  <2> HIDE DEF directories
  <2>6. Append(directories, Cwd) = current_directory_
    <3>1. /\ Append(directories, Cwd) \in Seq(Path)
          /\ Len(Append(directories, Cwd)) = n + 1
          /\ \A i \in 1 .. n : Append(directories, Cwd)[i] = directories[i]
          /\ Append(directories, Cwd)[n + 1] = Cwd
      BY <2>4, FilesAssumption, AppendFacts
    <3>2. \A i \in 1 .. n + 1 : Append(directories, Cwd)[i] = current_directory_[i]
      <4>1. \A i \in 1 .. n + 1 : i \in 1 .. n \/ i = n + 1
        BY <2>2
      <4> QED
        BY <2>2, <2>5, <3>1, <4>1
    <3> QED
      BY <2>2, <3>1, <3>2
  <2> QED
    BY <2>6 DEF FollowsTheFile, FilesInv, BegunBelow, directories
<1> QED
  BY <1>1, FilesInvariant, PTL

\* No file is imported while it is being imported unless a name on the way
\* leads up, and open_files_ holds exactly the files being imported
\* (tiger-driver.cc, parse_import).
THEOREM ImportsDiffer == Spec => []NoFileTwice
<1>1. FilesInv => NoFileTwice
  <2> SUFFICES ASSUME FilesInv PROVE NoFileTwice
    OBVIOUS
  <2> DEFINE n == Len(frames)
             importing == {i \in DOMAIN frames : frames[i].role \in {"import", "prelude"}}
  <2>1. n \in Nat /\ DOMAIN frames = 1 .. n /\ frames \in Seq(FrameType)
    BY StackFacts DEF FilesInv, FilesTypeOK
  <2>2. importing = Importing
    BY <2>1 DEF FilesInv, BegunBelow, Importing
  <2>3. \A i \in importing : frames[i].path \in Seq(STRING)
    <3>1. \A i \in importing : frames[i] \in FrameType
      BY <2>1
    <3> HIDE DEF importing
    <3> QED
      BY <3>1 DEF FrameType, Path
  <2> HIDE DEF importing
  <2>4. stage = "reducing" => open_files_ = {frames[i].path : i \in importing}
    BY <2>2 DEF FilesInv, ImportedOnce
  <2>5. ASSUME NEW i \in importing, NEW j \in importing, i # j,
               Real(frames[i].path) = Real(frames[j].path)
        PROVE  \E k \in importing : ".." \in Range(frames[k].path)
    <3>1. frames[i].path # frames[j].path
      BY <2>2, <2>5 DEF FilesInv, ImportedOnce
    <3> QED
      BY <2>3, <2>5, <3>1, RealWhereNothingLeadsUp
  <2> QED
    BY <2>4, <2>5 DEF NoFileTwice, importing
<1> QED
  BY <1>1, FilesInvariant, PTL
=============================================================================
