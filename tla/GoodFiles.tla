-------------------------------- MODULE GoodFiles --------------------------------
(***************************************************************************)
(* What the files of a tree say, apart from how Files reads them, and that *)
(* it reads them as they say.                                              *)
(***************************************************************************)
EXTENDS Files

Here(file, name) == Join(ParentPath(file), name)
Text(tree, file) == tree[Real(file)]
ItemsOf(tree, file) == Items(Tokens(Text(tree, file)))
IsList(tree, file) == IsChunks(Tokens(Text(tree, file)))
ImportsOf(tree, file) ==
  LET items == ItemsOf(tree, file)
  IN {items[k].name : k \in {l \in DOMAIN items : items[l].import}}

(* A file that is there and has no error in it but what it may import.     *)
Readable(tree, file) ==
  /\ ExistsIn(tree, file) /\ Real(file) \in DOMAIN tree
  /\ ~ LexicalErrors(Text(tree, file))

(* Good(tree)[n] are the lists of declarations that can be read with n     *)
(* files open: all they import are there, beside the file that imports     *)
(* them, and good.  A file that imports itself, however far away, is in    *)
(* none of them.                                                           *)
Good(tree) ==
  LET good[n \in 0..MaxOpen] ==
        {file \in Path :
           /\ n > 0 /\ Readable(tree, file) /\ IsList(tree, file)
           /\ \A name \in ImportsOf(tree, file) : Here(file, name) \in good[n - 1]}
  IN good

(* An item stands for a declaration, or for what the file it names does;   *)
(* what the last n items of a list stand for.                              *)
StandsFor(file, item, inclusion) ==
  IF item.import THEN inclusion[Here(file, item.name)] ELSE << item.decl >>
Included(tree, file, inclusion) ==
  LET items == ItemsOf(tree, file)
      last[n \in 0..Len(items)] ==
        IF n = 0 THEN << >>
        ELSE StandsFor(file, items[Len(items) - n + 1], inclusion) \o last[n - 1]
  IN last

(* The declarations of a file, those of the files it imports in their      *)
(* place, n files deep.                                                    *)
Inclusion(tree) ==
  LET inclusion[n \in 0..MaxOpen] ==
        [file \in Path |->
           IF n = 0 THEN << >>
           ELSE Included(tree, file, inclusion[n - 1])[Len(ItemsOf(tree, file))]]
  IN inclusion

MainFile == Join(Cwd, filename)
MainIsProgram == ~ IsList(files, MainFile) /\ IsProgram(Tokens(Text(files, MainFile)))
GoodMain ==
  /\ Readable(files, MainFile) /\ (IsList(files, MainFile) \/ MainIsProgram)
  /\ \A name \in ImportsOf(files, MainFile) : Here(MainFile, name) \in Good(files)[MaxOpen - 1]
PreludeFile == Here(MainFile, prelude)
BuiltinPrelude == prelude.path \in {<< >>, << "builtin" >>}
GoodPrelude == BuiltinPrelude \/ ~ MainIsProgram \/ PreludeFile \in Good(files)[MaxOpen]

(* What parse makes of good files.                                         *)
Expected ==
  [prelude |-> IF ~ MainIsProgram THEN << >>
               ELSE IF BuiltinPrelude THEN prelude.path
               ELSE Inclusion(files)[MaxOpen][PreludeFile],
   decls |-> Inclusion(files)[MaxOpen][MainFile], program |-> MainIsProgram]

(* Good files are parsed without an error, every import replaced by what   *)
(* it imports, in order, and the prelude before the program (parse.cc,     *)
(* parse_import).                                                          *)
GoodFilesParse ==
  stage \in {"parsed", "exited", "crashed", "aborted"} /\ GoodMain /\ GoodPrelude
    => stage = "parsed" /\ error_ = success /\ result = Expected

(* A parse that ends with the status of success has read good files, when  *)
(* there is no search path for some to be found in.                        *)
SuccessMeansGood ==
  stage = "parsed" /\ error_ = success /\ search_path_ = << >>
    => GoodMain /\ GoodPrelude /\ result = Expected

-----------------------------------------------------------------------------
(* What every step keeps.  A frame is part of what it was begun with, and  *)
(* all that was reduced of it was good.                                    *)
ProgramDone ==
  frames # << >> /\ Last(frames).role = "program" /\ Last(frames).items = << >>

(* How many files may be opened while the file of a frame is read.         *)
MoreOpen(i) ==
  IF i = Len(frames) THEN MaxOpen - 1
  ELSE MaxOpen - (Len(frames) - i + 1) + (IF ProgramDone THEN 1 ELSE 0)

Left(i) == Len(frames[i].items)
Whole(i) == Len(ItemsOf(files, frames[i].path))

(* Whatever the files are.                                                 *)
FrameReads(i) ==
  LET file == frames[i].path
  IN /\ ExistsIn(files, file) /\ Real(file) \in DOMAIN files
     /\ frames[i].fault = "none" =>
          /\ IF frames[i].role = "program" THEN MainIsProgram ELSE IsList(files, file)
          /\ Left(i) <= Whole(i)
          /\ \A k \in 1..Left(i) : frames[i].items[k] = ItemsOf(files, file)[k]
     /\ frames[i].role = "program" => frames[i].fault = "none"
     /\ i = Len(frames) => file = MainFile
     /\ frames[i].role = "import" => frames[i + 1].items # << >> /\ Last(frames[i + 1].items).import
     /\ frames[i].role = "prelude" =>
          i + 1 = Len(frames) /\ ProgramDone /\ ~ BuiltinPrelude
     /\ ProgramDone /\ i + 1 = Len(frames) => frames[i].role = "prelude"
     /\ MoreOpen(i) \in Nat

Reads == \A i \in DOMAIN frames : FrameReads(i)

(* Every file that is read is found beside the one that imports it.        *)
FoundBeside == (search_path_ = << >> /\ error_ = success) \/ (GoodMain /\ GoodPrelude)

FrameGood(i) ==
  LET file == frames[i].path
      items == ItemsOf(files, file)
  IN /\ frames[i].role # "program" /\ frames[i].fault = "none" =>
          ~ LexicalErrors(Text(files, file))
     /\ frames[i].role = "import" =>
          file = Here(frames[i + 1].path, Last(frames[i + 1].items).name)
     /\ frames[i].role = "prelude" =>
          file = PreludeFile /\ ~ LexicalErrors(Text(files, MainFile))
     /\ frames[i].fault = "none" =>
          /\ \A k \in Left(i) + 1 .. Whole(i) :
               items[k].import => Here(file, items[k].name) \in Good(files)[MoreOpen(i)]
          /\ frames[i].chunks =
               Included(files, file, Inclusion(files)[MoreOpen(i)])[Whole(i) - Left(i)]

ReadsGood ==
  FoundBeside =>
    /\ \A i \in DOMAIN frames : FrameGood(i)
    /\ stage = "parsed" => GoodMain /\ GoodPrelude /\ result = Expected

(* What is left of good files is good, and nothing ends their reading.     *)
ImportsGood(i) ==
  /\ frames[i].fault = "none"
  /\ \A name \in ImportsOf(files, frames[i].path) :
       Here(frames[i].path, name) \in Good(files)[MoreOpen(i)]
NothingFails ==
  GoodMain /\ GoodPrelude =>
    /\ error_ = success /\ stage \in {"options", "reducing", "parsed"}
    /\ \A i \in DOMAIN frames : ImportsGood(i)

GoodFilesInv == Reads /\ ReadsGood /\ NothingFails
=============================================================================
