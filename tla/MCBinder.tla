------------------------------ MODULE MCBinder ------------------------------
(***************************************************************************)
(* Programs of a few nodes over one or two names.                          *)
(***************************************************************************)
EXTENDS Binder, TLC

CONSTANTS a, b

OneId == {a}
TwoIds == {a, b}
Names == Permutations({a, b})
=============================================================================
