------------------------------ MODULE ErrorHandler ------------------------------
(***************************************************************************)
(* misc::error with its messages, and how they travel in tc: each pass has *)
(* a handler of its own, which is copied out of it and imported into that  *)
(* of tc, and thrown, as a copy, to main.                                  *)
(*                                                                         *)
(* A stream is its text, a sequence of characters, and the place the next  *)
(* character is written to.                                                *)
(***************************************************************************)
EXTENDS ErrorStatus, Sequences, FiniteSetsExt

CONSTANTS
  Messages,  \* what a pass may report: a status and a text
  MaxText    \* bound on the characters reported

ASSUME MessagesAssumption ==
  Messages \subseteq [status : ErrorType \ {success}, text : Seq(STRING)]

VARIABLES
  pass_error,  \* the handler of the pass that runs
  task_error,  \* tc's
  caught,      \* what main catches and prints
  ended,       \* main has caught it, or nothing was thrown
  said,        \* history: every text reported, one after the other
  statuses     \* history: every status reported

handlerVars == << pass_error, task_error, caught, ended, said, statuses >>

NewHandler == [status |-> success, text |-> << >>, put |-> 0]

(* operator<<: what is in the way of the text is overwritten.              *)
Say(h, text) ==
  [h EXCEPT !.text = SubSeq(@, 1, h.put) \o text \o SubSeq(@, h.put + Len(text) + 1, Len(@)),
            !.put = @ + Len(text)]
SetStatus(h, e) == [h EXCEPT !.status = Mark(@, e)]

(* operator=, and the constructor that copies: str(text) leaves the place  *)
(* to write to at the beginning.                                           *)
Copied(h) == [h EXCEPT !.put = 0]

\* Mutant: the first errors are copied, not imported.
AddedByCopy(h, rhs) ==
  IF h.status = success THEN Copied(rhs) ELSE Say(SetStatus(h, rhs.status), rhs.text)

(* operator<< of a handler: its status and its text.                       *)
Added(h, rhs) == Say(SetStatus(h, rhs.status), rhs.text)

-----------------------------------------------------------------------------
HandlerInit ==
  /\ pass_error = NewHandler
  /\ task_error = NewHandler
  /\ caught = NewHandler
  /\ ended = FALSE
  /\ said = << >>
  /\ statuses = {}

(* A pass reports an error to its handler.                                 *)
ReportError(message) ==
  /\ ~ ended /\ Len(said) + Len(message.text) <= MaxText
  /\ pass_error' = Say(SetStatus(pass_error, message.status), message.text)
  /\ said' = said \o message.text
  /\ statuses' = statuses \cup {message.status}
  /\ UNCHANGED << task_error, caught, ended >>

(* A task leaves for main when its own pass has failed, when any has, when *)
(* it has no tree to give, or never.                                       *)
Leaves(mode, own, all) ==
  CASE mode = "exit" -> TRUE
    [] mode = "exit_if_result" -> own.status # success
    [] mode = "exit_on_error" -> all.status # success
    [] mode = "go_on" -> FALSE

(* The end of a pass: its handler is copied out of it and imported into    *)
(* that of tc, which is thrown as a copy.                                  *)
EndOfPass(mode) ==
  LET own == Copied(pass_error)
      all == Added(task_error, own)
  IN /\ ~ ended
     /\ pass_error' = NewHandler
     /\ task_error' = all
     /\ IF Leaves(mode, own, all)
        THEN caught' = Copied(all) /\ ended' = TRUE
        ELSE UNCHANGED << caught, ended >>
     /\ UNCHANGED << said, statuses >>

(* main, after the last pass: exit_on_error.                               *)
EndOfMain ==
  /\ ~ ended /\ pass_error = NewHandler
  /\ ended' = TRUE
  /\ caught' = IF task_error.status # success THEN Copied(task_error) ELSE caught
  /\ UNCHANGED << pass_error, task_error, said, statuses >>

HandlerNext ==
  \/ \E message \in Messages : ReportError(message)
  \/ \E mode \in {"exit", "exit_if_result", "exit_on_error", "go_on"} : EndOfPass(mode)
  \/ EndOfMain
HandlerSpec == HandlerInit /\ [][HandlerNext]_handlerVars

-----------------------------------------------------------------------------
Least(set) == IF set = {} THEN success ELSE Min(set)

(* main prints every message of every pass that ran, whole and in order,   *)
(* however the handlers were copied on the way, and returns the least of   *)
(* their statuses (error.cc, tc.cc).                                       *)
MessagesArrive == ended => caught.text = said /\ caught.status = Least(statuses)

-----------------------------------------------------------------------------
(* What every step keeps: a handler that is written to is written to at    *)
(* its end, and until it ends the handlers of tc and of the pass hold,     *)
(* between them, all that was reported.                                    *)
Handler == {h \in [status : ErrorType, text : Seq(STRING), put : Nat] : h.put = Len(h.text)}
AllIsHeld ==
  /\ said = task_error.text \o pass_error.text
  /\ Least(statuses) = Mark(task_error.status, pass_error.status)
  /\ pass_error.status = success => pass_error.text = << >>
  /\ task_error.status = success => task_error.text = << >>
  /\ caught = NewHandler

HandlerInv ==
  /\ pass_error \in Handler /\ task_error \in Handler
  /\ said \in Seq(STRING) /\ statuses \subseteq ErrorType \ {success}
  /\ ended \in BOOLEAN
  /\ ~ ended => AllIsHeld
  /\ MessagesArrive
=============================================================================
