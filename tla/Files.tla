--------------------------------- MODULE Files ---------------------------------
(***************************************************************************)
(* From the name of a program to its declarations: the search path and the *)
(* directory stack of misc::file_library, the files that import each other *)
(* (parse::TigerDriver), the prelude and the program put together (parse). *)
(*                                                                         *)
(* A path is the sequence of its components from the root; ".." is one, as *)
(* no code simplifies a path.  A name in a program is relative to the      *)
(* directory of the file it is written in, or absolute.  A declaration is  *)
(* one word of a file, and so is an expression that makes a file a program.*)
(***************************************************************************)
EXTENDS Scanner, ErrorStatus, Functions

CONSTANTS
  FileSystems,   \* the trees of files: functions from paths to texts
  Directories,   \* the paths of their directories
  Cwd,           \* the working directory
  SearchDirs,    \* the directories the user may add to the search path
  MaxDirs,       \* how many of them
  Mains,         \* the names the program may have on the command line
  Preludes,      \* the names the prelude may have; "builtin" and "" are others
  Declarations,  \* the words that stand for a declaration
  MaxOpen        \* how many files a process may hold open

VARIABLES
  files,               \* the files there are
  search_path_,        \* file_library's
  current_directory_,  \* file_library's stack, the top first
  open_files_,         \* the paths of the files being imported
  input_,              \* the file the parser believes it reads
  frames,              \* the parses in progress, the last begun first
  error_,              \* the status of the driver's error handler
  filename, prelude,   \* the names of the program and of the prelude
  stage, result

vars == << files, search_path_, current_directory_, open_files_, input_, frames, error_,
           filename, prelude, stage, result >>
library == << files, search_path_, filename, prelude >>

Name(absolute, path) == [absolute |-> absolute, path |-> path]
Relative(path) == Name(FALSE, path)

(* path operator/: a name that is absolute replaces what is before it.     *)
Join(dir, name) == IF name.absolute THEN name.path ELSE dir \o name.path
Filename(path) == << Last(path) >>
ParentPath(path) == Front(path)

-----------------------------------------------------------------------------
(* A name, and a path, that a file may have.                               *)
Path == Seq(STRING)
Names == [absolute : BOOLEAN, path : Path \ {<< >>}]

(* What the system makes of a path: ".." leads up, and every directory on  *)
(* the way must be there.                                                  *)
Enter(dir, c) ==
  IF c # ".." THEN Append(dir, c) ELSE IF dir = << >> THEN dir ELSE Front(dir)
(* Where the first n components lead, for each n.                          *)
Walked(path) ==
  LET at[n \in 0..Len(path)] == IF n = 0 THEN << >> ELSE Enter(at[n - 1], path[n])
  IN at
Real(path) == Walked(path)[Len(path)]
ExistsIn(tree, path) ==
  /\ \A n \in 0..(Len(path) - 1) : Real(SubSeq(path, 1, n)) \in Directories
  /\ Real(path) \in DOMAIN tree \cup Directories
Exists(path) == ExistsIn(files, path)

-----------------------------------------------------------------------------
(* misc::file_library *)

FindInDirectory(dir, name) == Exists(Join(dir, name))

(* Directories of the search path are absolute when they are added.        *)
CheckedDir(dir, relative_path) == dir \o relative_path
FoundInSearchPath(relative_path, base) ==
  {i \in DOMAIN search_path_ :
     FindInDirectory(CheckedDir(search_path_[i], relative_path), Relative(base))}
FindInSearchPath(relative_path, base) ==
  CheckedDir(search_path_[Min(FoundInSearchPath(relative_path, base))], relative_path)

(* The directory of a file that is found.  What is looked up in the search *)
(* path is the file's name in a directory of the same name, as the variable*)
(* for the directory of the name holds the name itself.                    *)
FoundHere(name) == FindInDirectory(Head(current_directory_), name)
Found(name) ==
  FoundHere(name) \/ FoundInSearchPath(Filename(name.path), Filename(name.path)) # {}
FindFile(name) ==
  IF FoundHere(name) THEN ParentPath(Join(Head(current_directory_), name))
  ELSE FindInSearchPath(Filename(name.path), Filename(name.path))

AppendDir(dir) == search_path_' = Append(search_path_, dir)
PrependDir(dir) == search_path_' = << dir >> \o search_path_

-----------------------------------------------------------------------------
(* The text of a file.  A file the parser accepts is an expression or a    *)
(* list of declarations and imports.                                       *)
Tokens(text) == Scan(text, FALSE, FALSE).tokens
LexicalErrors(text) == Scan(text, FALSE, FALSE).errors > 0

IsImport(tokens, i) ==
  tokens[i] = << "keyword", "import" >> /\ i < Len(tokens) /\ tokens[i + 1][1] = "STRING"
IsDeclaration(tokens, i) == tokens[i][1] = "id" /\ tokens[i][2] \in Declarations
IsChunks(tokens) ==
  \A i \in DOMAIN tokens :
    IsDeclaration(tokens, i) \/ IsImport(tokens, i) \/ (i > 1 /\ IsImport(tokens, i - 1))
(* `let chunks in exp end', written as the chunks and a word for exp.       *)
IsProgram(tokens) ==
  /\ tokens # << >> /\ Last(tokens)[1] \in {"id", "INT"} /\ Last(tokens)[2] \notin Declarations
  /\ IsChunks(Front(tokens))
IsMetavar(tokens, i) == tokens[i][1] = "metavar"

(* The name a string literal holds: a leading "/" makes it absolute.       *)
NameOf(string) == IF Head(string) = "/" THEN Name(TRUE, Tail(string)) ELSE Relative(string)

(* The declarations and imports of a list, in order.                       *)
Items(tokens) ==
  LET starts == SelectSeq([i \in DOMAIN tokens |-> i],
                          LAMBDA i : IsDeclaration(tokens, i) \/ IsImport(tokens, i))
  IN [k \in DOMAIN starts |->
        IF IsImport(tokens, starts[k])
        THEN [import |-> TRUE, decl |-> "", name |-> NameOf(tokens[starts[k] + 1][2])]
        ELSE [import |-> FALSE, decl |-> tokens[starts[k]][2], name |-> Relative(<< >>)]]

(* A list is reduced from its end once the token that cannot be part of it *)
(* has been read: its imports come before the error in what follows it.  A *)
(* metavariable ends the parse when it is reduced, what is behind it first;*)
(* an import without a name ends it at once.                               *)
Unexpected(tokens) ==
  Min({Len(tokens) + 1} \cup
      {i \in DOMAIN tokens : ~ IsMetavar(tokens, i) /\ ~ IsDeclaration(tokens, i) /\
                             ~ IsImport(tokens, i) /\ ~ (i > 1 /\ IsImport(tokens, i - 1))})
Nameless(tokens) ==
  LET i == Unexpected(tokens) IN i <= Len(tokens) /\ tokens[i] = << "keyword", "import" >>
LastMetavar(tokens) ==
  Max({0} \cup {i \in 1..(Unexpected(tokens) - 1) : IsMetavar(tokens, i)})
Fault(tokens) ==
  IF ~ Nameless(tokens) /\ LastMetavar(tokens) > 0 THEN "metavar" ELSE "syntax"
BeforeFault(tokens) ==
  IF Nameless(tokens) THEN << >>
  ELSE Items(SubSeq(tokens, LastMetavar(tokens) + 1, Unexpected(tokens) - 1))

(* The lexical errors before that token: what is behind it is read later.  *)
Lookahead(tokens) == IF Nameless(tokens) THEN Unexpected(tokens) + 1 ELSE Unexpected(tokens)
ReadUpTo(text, n) ==
  FoldLeft(LAMBDA lexer, m : IF Len(lexer.tokens) < n THEN Rule(lexer, m, FALSE, FALSE) ELSE lexer,
           Scanning, text)
ErrorsAhead(text) ==
  LET n == Lookahead(Tokens(text))
  IN LexicalErrors(text) /\ (n <= Len(Tokens(text)) => ReadUpTo(text, n).errors > 0)

Item ==
  {item \in [import : BOOLEAN, decl : STRING, name : [absolute : BOOLEAN, path : Path]] :
     item.import => item.name \in Names}

(* What the scanner makes of a file is a list of declarations and of names *)
(* of files, if not always in the order of a program.                      *)
ASSUME FilesAssumption ==
  /\ Cwd \in Path /\ SearchDirs \subseteq Path /\ MaxOpen \in Nat \ {0}
  /\ Mains \subseteq Names /\ Preludes \subseteq Names
  /\ \A fs \in FileSystems : \A path \in DOMAIN fs :
       Items(Tokens(fs[path])) \in Seq(Item) /\ BeforeFault(Tokens(fs[path])) \in Seq(Item)

-----------------------------------------------------------------------------
(* A parse in progress: the file, what is left of it to reduce, the list   *)
(* built so far, the error then met, the input it was begun from, and who  *)
(* asked for it.                                                           *)
Frame(role, path, items, fault, saved) ==
  [role |-> role, path |-> path, items |-> items, chunks |-> << >>, fault |-> fault,
   saved |-> saved]

NoResult == [prelude |-> << >>, decls |-> << >>, program |-> FALSE]

(* A program that is completely reduced is no longer open.                 *)
StreamsOpen ==
  Cardinality({i \in DOMAIN frames : ~ (frames[i].role = "program" /\ frames[i].items = << >>)})

Init ==
  /\ files \in FileSystems
  /\ search_path_ = << >>
  /\ current_directory_ = << Cwd >>
  /\ open_files_ = {}
  /\ input_ = << >>
  /\ frames = << >>
  /\ error_ = success
  /\ filename \in Mains
  /\ prelude \in Preludes \cup {Name(FALSE, << "builtin" >>), Name(FALSE, << >>)}
  /\ stage = "options"
  /\ result = NoResult

End(how, status) == stage' = how /\ error_' = status

(* --library-append and --library-prepend, before the program is parsed.   *)
AddDirectory ==
  /\ stage = "options" /\ Len(search_path_) < MaxDirs
  /\ \E dir \in SearchDirs : AppendDir(dir) \/ PrependDir(dir)
  /\ UNCHANGED << files, current_directory_, open_files_, input_, frames, error_, filename,
                  prelude, stage, result >>

\* Mutant: the parser does not record the errors of the scanner.
ScannedForgotten(status, errors) == status
Scanned(status, errors) == IF errors THEN Mark(status, scan) ELSE status

(* parse_ on a file, with the status of the driver: it is opened, and read *)
(* until its list can be reduced, which is what the frame is left with.    *)
OpenFile(role, path, dir, status) ==
  LET text == files[Real(path)]
      tokens == Tokens(text)
      Opens == Exists(path) /\ Real(path) \in DOMAIN files /\ StreamsOpen < MaxOpen
      isProgram == IsProgram(tokens) /\ role = "main"
      Begun(kind, items, fault, errors) ==
        /\ current_directory_' = << dir >> \o current_directory_
        /\ input_' = path
        /\ frames' = << Frame(kind, path, items, fault, input_) >> \o frames
        /\ End("reducing", Scanned(status, errors))
  IN \/ /\ ~ Opens
        /\ End("exited", Mark(status, failure))
        /\ UNCHANGED << current_directory_, input_, frames >>
     \/ /\ Opens
        /\ \/ IsChunks(tokens) /\ Begun(role, Items(tokens), "none", LexicalErrors(text))
           \/ /\ ~ IsChunks(tokens) /\ isProgram
              /\ Begun("program", Items(tokens), "none", ErrorsAhead(text))
           \* an error, or an expression where a list is expected
           \/ /\ ~ IsChunks(tokens) /\ ~ isProgram
              /\ Begun(role, BeforeFault(tokens), Fault(tokens), ErrorsAhead(text))

(* parse::parse *)
Parse ==
  /\ stage = "options"
  /\ LET path == Join(Cwd, filename) IN OpenFile("main", path, ParentPath(path), error_)
  /\ UNCHANGED << library, open_files_, result >>

-----------------------------------------------------------------------------
Reducing == stage = "reducing" /\ frames[1].items # << >>
NextItem == Last(frames[1].items)

(* The frame without the item just reduced, the chunks in front of the list*)
Reduced(chunks) ==
  << [frames[1] EXCEPT !.items = Front(@), !.chunks = chunks \o @] >> \o Tail(frames)

PushFront ==
  /\ Reducing /\ ~ NextItem.import
  /\ frames' = Reduced(<< NextItem.decl >>)
  /\ UNCHANGED << library, current_directory_, open_files_, input_, error_, stage, result >>

\* Mutant: a file that is being imported is imported again.
RefusedNever(path) == FALSE
(* Inclusion is recursive: the file is being imported, under this path.    *)
Refused(path) == path \in open_files_

AbsolutePath(name) == FindFile(name) \o Filename(name.path)

(* parse_import.  Where the file is not found, or is refused, the error is *)
(* recorded and there is no list.                                          *)
NoList(name) == ~ Found(name) \/ Refused(AbsolutePath(name))
Recorded(status) == Mark(status, failure)
ParseImport(role, name, status) ==
  /\ OpenFile(role, AbsolutePath(name), FindFile(name), status)
  /\ open_files_' = open_files_ \cup {AbsolutePath(name)}
  /\ UNCHANGED result

(* The parser takes the list it is given without asking whether there is   *)
(* one.                                                                    *)
Import ==
  /\ Reducing /\ NextItem.import
  /\ IF NoList(NextItem.name)
     THEN /\ End("crashed", Recorded(error_))
          /\ UNCHANGED << current_directory_, open_files_, input_, frames, result >>
     ELSE ParseImport("import", NextItem.name, error_)
  /\ UNCHANGED library

-----------------------------------------------------------------------------
AllReduced == stage = "reducing" /\ frames[1].items = << >>
Completed(role) == AllReduced /\ frames[1].fault = "none" /\ frames[1].role = role

(* The driver's input is a file and has no metavariables; what that throws *)
(* is caught where a file is imported.                                     *)
EndWithError ==
  /\ AllReduced /\ frames[1].fault # "none"
  /\ IF frames[1].fault = "metavar" /\ Len(frames) = 1 THEN End("aborted", error_)
     ELSE End("exited", Mark(error_, parse))
  /\ UNCHANGED << library, current_directory_, open_files_, input_, frames, result >>

\* Mutant: an imported list goes behind what follows it.
ImportedBehind(chunks, rest) == rest \o chunks
(* Back from parse_import, a list goes in front of what follows it.        *)
Imported(chunks, rest) == chunks \o rest

\* Mutant: the directory of the file stays on the stack.
ReturnThere ==
  /\ open_files_' = open_files_ \ {frames[1].path}
  /\ current_directory_' = current_directory_
  /\ input_' = frames[1].saved

Return ==
  /\ open_files_' = open_files_ \ {frames[1].path}
  /\ current_directory_' = Tail(current_directory_)
  /\ input_' = frames[1].saved

EndOfImport ==
  /\ Completed("import")
  /\ Return
  /\ frames' = << [frames[2] EXCEPT !.items = Front(@),
                                   !.chunks = Imported(frames[1].chunks, @)] >>
               \o SubSeq(frames, 3, Len(frames))
  /\ UNCHANGED << library, error_, stage, result >>

(* The program is a list of declarations: it is the result.                *)
Finish(res) ==
  /\ result' = res
  /\ stage' = "parsed"
  /\ frames' = << >>
  /\ current_directory_' = << Cwd >>

EndOfList ==
  /\ Completed("main")
  /\ Finish([prelude |-> << >>, decls |-> frames[1].chunks, program |-> FALSE])
  /\ UNCHANGED << library, open_files_, input_, error_ >>

(* The program is an expression, which goes into _main after the prelude.  *)
WithPrelude(chunks, program) == [prelude |-> chunks, decls |-> program, program |-> TRUE]

EndOfProgram ==
  /\ Completed("program")
  /\ LET read == Scanned(error_, LexicalErrors(files[Real(frames[1].path)]))
     IN IF prelude.path \in {<< >>, << "builtin" >>}
        THEN /\ Finish(WithPrelude(prelude.path, frames[1].chunks))
             /\ error_' = read
             /\ UNCHANGED << open_files_, input_ >>
        ELSE IF NoList(prelude)
        THEN /\ Finish(WithPrelude(<< >>, frames[1].chunks))
             /\ error_' = Recorded(read)
             /\ UNCHANGED << open_files_, input_ >>
        ELSE ParseImport("prelude", prelude, read)
  /\ UNCHANGED library

EndOfPrelude ==
  /\ Completed("prelude")
  /\ open_files_' = open_files_ \ {frames[1].path}
  /\ input_' = frames[1].saved
  /\ Finish(WithPrelude(frames[1].chunks, frames[2].chunks))
  /\ UNCHANGED << library, error_ >>

Next ==
  \/ AddDirectory \/ Parse \/ PushFront \/ Import \/ EndWithError
  \/ EndOfImport \/ EndOfList \/ EndOfProgram \/ EndOfPrelude

Spec == Init /\ [][Next]_vars

(* While a file is read, the current directory is the one it is in, and    *)
(* below it on the stack those of the files that import it; the driver's   *)
(* input is the file it reads.                                             *)
FollowsTheFile ==
  LET Directory(f) == ParentPath(f.path)
  IN /\ current_directory_ = Append([i \in DOMAIN frames |-> Directory(frames[i])], Cwd)
     /\ frames # << >> => input_ = frames[1].path

(* A file is not imported while it is being imported, when no name leads   *)
(* up in the tree, so that reading ends; open_files_ is what is imported.  *)
NoFileTwice ==
  LET importing == {i \in DOMAIN frames : frames[i].role \in {"import", "prelude"}}
  IN /\ stage = "reducing" => open_files_ = {frames[i].path : i \in importing}
     /\ \A i, j \in importing :
          i # j /\ Real(frames[i].path) = Real(frames[j].path)
            => \E k \in importing : ".." \in Range(frames[k].path)

-----------------------------------------------------------------------------
(* What every step keeps, and the two properties follow from.              *)
Role == {"main", "program", "import", "prelude"}
FrameType ==
  [role : Role, path : Path, items : Seq(Item), chunks : Seq(STRING),
   fault : {"none", "syntax", "metavar"}, saved : Path]

FilesTypeOK ==
  /\ files \in FileSystems
  /\ search_path_ \in Seq(Path)
  /\ current_directory_ \in Seq(Path)
  /\ open_files_ \subseteq Path
  /\ input_ \in Path
  /\ frames \in Seq(FrameType)
  /\ error_ \in ErrorType
  /\ filename \in Names
  /\ prelude \in Names \cup {Name(FALSE, << "builtin" >>), Name(FALSE, << >>)}
  /\ stage \in {"options", "reducing", "parsed", "exited", "crashed", "aborted"}

(* The directory of each frame, and of the process below them.             *)
OneDirectoryEach ==
  /\ Len(current_directory_) = Len(frames) + 1
  /\ \A i \in DOMAIN frames : current_directory_[i] = ParentPath(frames[i].path)
  /\ Last(current_directory_) = Cwd

(* A frame was begun by the one below it, whose file was the input then.   *)
BegunBelow ==
  /\ stage = "options" => frames = << >>
  /\ stage = "reducing" => frames # << >>
  /\ \A i \in DOMAIN frames :
       /\ frames[i].role \in {"import", "prelude"} <=> i < Len(frames)
       /\ i < Len(frames) => frames[i].saved = frames[i + 1].path
  /\ frames # << >> => input_ = frames[1].path

Importing == 1 .. Len(frames) - 1
ImportedOnce ==
  /\ stage \in {"options", "reducing"} => open_files_ = {frames[i].path : i \in Importing}
  /\ \A i, j \in Importing : i # j => frames[i].path # frames[j].path

FilesInv == FilesTypeOK /\ OneDirectoryEach /\ BegunBelow /\ ImportedOnce

(* A file in a directory of the search path is found (file-library.hh).    *)
SearchFinds ==
  stage = "crashed" => \A i \in DOMAIN search_path_ : ~ Exists(Join(search_path_[i], NextItem.name))
=============================================================================
