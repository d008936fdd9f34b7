---------------------------- MODULE TaskSchedule ----------------------------
(***************************************************************************)
(* What the task system promises, whatever search builds the list: once    *)
(* the tasks and their needs are known, a list is planned that only grows, *)
(* by one task whose needs are met by the tasks before it; then a prefix   *)
(* of that list is executed, in its order, each task at most once per      *)
(* place.  A need is a set of tasks one of which must come first: an       *)
(* ordinary task has one singleton need per dependency, a disjunctive one  *)
(* a single need.                                                          *)
(***************************************************************************)
EXTENDS Integers, Sequences, Functions

CONSTANT Task

VARIABLES
  needs,  \* for each task, the sets one member of which must come first
  plan,   \* the tasks to execute
  done,   \* how many of them were started
  stage   \* "declaring", "planning", "running" or "stopped"

vars == <<needs, plan, done, stage>>

Init ==
  /\ needs \in [Task -> SUBSET SUBSET Task]
  /\ plan = << >>
  /\ done = 0
  /\ stage = "declaring"

Met(t, before) == \A need \in needs[t] : need \intersect before # {}

\* The tasks make themselves known, in any order.
Declare ==
  /\ stage = "declaring"
  /\ needs' \in [Task -> SUBSET SUBSET Task]
  /\ stage' \in {"declaring", "planning"}
  /\ UNCHANGED <<plan, done>>

Plan(t) ==
  /\ stage = "planning"
  /\ Met(t, Range(plan))
  /\ plan' = Append(plan, t)
  /\ UNCHANGED <<needs, done, stage>>

Start ==
  /\ stage = "planning"
  /\ stage' = "running"
  /\ UNCHANGED <<needs, plan, done>>

Run ==
  /\ stage = "running"
  /\ done < Len(plan)
  /\ done' = done + 1
  /\ UNCHANGED <<needs, plan, stage>>

\* Anything may stop the whole at any time after the declarations.
Stop ==
  /\ stage \in {"planning", "running"}
  /\ stage' = "stopped"
  /\ UNCHANGED <<needs, plan, done>>

Next == Declare \/ (\E t \in Task : Plan(t)) \/ Start \/ Run \/ Stop

Spec == Init /\ [][Next]_vars
=============================================================================
