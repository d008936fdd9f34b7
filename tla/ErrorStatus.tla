---------------------------- MODULE ErrorStatus ----------------------------
(***************************************************************************)
(* The exit statuses of the compiler and the rule by which the handler     *)
(* misc::error keeps one of them (lib/misc/error.hh, lib/misc/error.cc).   *)
(* Every component reports through such a handler; the modules that report *)
(* an error use these operators on a status of their own.                  *)
(***************************************************************************)
EXTENDS Naturals

\* misc::error::error_type, in the order of the enumeration.
success == 0
failure == 1
scan    == 2
parse   == 3
bind    == 4
type    == 5

ErrorType == success .. type

\* Mutant: the statuses add up.
MarkSum(status, e) == status + e

\* error::operator<<(error_type): the most severe (smallest non null) status
\* stays; success never replaces a recorded error.
Mark(status, e) ==
  IF status = success \/ (e # success /\ e < status) THEN e ELSE status
=============================================================================
