----------------------------- MODULE ScopedMap -----------------------------
(***************************************************************************)
(* misc::scoped_map: a stack of maps in which every scope is a copy of the *)
(* one around it, so that a look up is made in the top map alone.  A key   *)
(* that a map has not is bound to Absent; get throws for it.               *)
(***************************************************************************)
EXTENDS SequencesExt

CONSTANTS
  Key,    \* the keys
  Absent  \* what a key is bound to where nothing was put

\* The constructor pushes one scope.
Empty == << [k \in Key |-> Absent] >>

Get(stack, k) == IF stack = << >> THEN Absent ELSE Last(stack)[k]

\* Mutant: a scope begins empty.
ScopeBeginEmpty(stack) == stack \o Empty

ScopeBegin(stack) ==
  IF stack = << >> THEN Empty ELSE Append(stack, Last(stack))

ScopeEnd(stack) == IF stack = << >> THEN stack ELSE Front(stack)

Put(stack, k, data) ==
  IF stack = << >> THEN stack
  ELSE [stack EXCEPT ![Len(stack)] = [@ EXCEPT ![k] = data]]
=============================================================================
