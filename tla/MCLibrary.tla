------------------------------- MODULE MCLibrary -------------------------------
(* The files of MCFiles and the machines that are small enough to stand    *)
(* beside them: in each behaviour one of them runs, and the others stay    *)
(* where they began.                                                       *)
EXTENDS MCFiles, Comments, Literals, ErrorHandler, Symbols, Timer, Runtime, Tweasts

VARIABLE machine   \* the one that runs

(* The longest texts hold a comment in a comment: each mark has two signs. *)
MCLexemes == {Star, Slash, Lexeme("quote", "quote", 0), Lexeme("endofline", "endofline", 0)}

(* Messages of different lengths, so that one cannot hide another.         *)
MCMessages ==
  {[status |-> scan, text |-> << "s" >>], [status |-> parse, text |-> << "p", "q", "r" >>],
   [status |-> type, text |-> << "t", "u" >>]}

(* A name that ends like a number.                                         *)
MCSymbolNames == {<< "a" >>, << "a", "1" >>}

(* The Tweasts there may be, and the trees, are alike.                     *)
Alike == Permutations(TweastIds) \cup Permutations(Trees)

(* While another machine runs the files are those of one initial state.    *)
Elsewhere ==
  /\ machine # "files"
  /\ files = CHOOSE f \in FileSystems : f[<< "w", "m" >>] = I("d1")
  /\ filename = Relative(<< "z" >>) /\ prelude = Relative(<< "p" >>)

LibraryInit ==
  /\ machine \in {"files", "comments", "literals", "errors", "symbols", "timer", "strings",
                  "tweasts"}
  /\ machine = "files" \/ Elsewhere
  /\ Init
  /\ CommentInit /\ LiteralInit /\ HandlerInit /\ SymbolInit /\ TimerInit
  /\ RuntimeInit /\ TweastInit

ReadFiles == machine = "files" /\ Next
         /\ UNCHANGED << commentVars, literalVars, handlerVars, symbolVars, timerVars,
                       runtimeVars, tweastVars >>
ScanComments == machine = "comments" /\ CommentNext
         /\ UNCHANGED << vars, literalVars, handlerVars, symbolVars, timerVars,
                       runtimeVars, tweastVars >>
PrintLiterals == machine = "literals" /\ LiteralNext
         /\ UNCHANGED << vars, commentVars, handlerVars, symbolVars, timerVars,
                       runtimeVars, tweastVars >>
HandleErrors == machine = "errors" /\ HandlerNext
         /\ UNCHANGED << vars, commentVars, literalVars, symbolVars, timerVars,
                       runtimeVars, tweastVars >>
MakeSymbols == machine = "symbols" /\ SymbolNext
         /\ UNCHANGED << vars, commentVars, literalVars, handlerVars, timerVars,
                       runtimeVars, tweastVars >>
TimeTasks == machine = "timer" /\ TimerNext
         /\ UNCHANGED << vars, commentVars, literalVars, handlerVars, symbolVars,
                       runtimeVars, tweastVars >>
CallRuntime == machine = "strings" /\ RuntimeNext
         /\ UNCHANGED << vars, commentVars, literalVars, handlerVars, symbolVars,
                       timerVars, tweastVars >>
PutTweasts == machine = "tweasts" /\ TweastNext
         /\ UNCHANGED << vars, commentVars, literalVars, handlerVars, symbolVars,
                       timerVars, runtimeVars >>

LibraryNext ==
  /\ UNCHANGED machine
  /\ ReadFiles \/ ScanComments \/ PrintLiterals \/ HandleErrors \/ MakeSymbols \/ TimeTasks
     \/ CallRuntime \/ PutTweasts

libraryVars ==
  << vars, commentVars, literalVars, handlerVars, symbolVars, timerVars, runtimeVars, tweastVars,
     machine >>
LibrarySpec == LibraryInit /\ [][LibraryNext]_libraryVars
=============================================================================
