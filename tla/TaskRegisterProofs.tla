------------------------- MODULE TaskRegisterProofs -------------------------
(***************************************************************************)
(* Theorems about TaskRegister, for every set of declarations, any number  *)
(* of options and any depth of the call stack.                             *)
(***************************************************************************)
EXTENDS TaskRegister, SequenceLemmas, FiniteSetTheorems

-----------------------------------------------------------------------------
(* The operators the model is built from.                                  *)

\* misc::error keeps a status of the enumeration, and never forgets an error.
LEMMA MarkType ==
  ASSUME NEW status \in ErrorType, NEW e \in ErrorType
  PROVE  /\ Mark(status, e) \in ErrorType
         /\ Mark(status, e) = success => status = success
BY DEF Mark, ErrorType, success, type

\* The dependencies a task asks for are names.
LEMMA WantedType ==
  ASSUME TypeOK, NEW o \in Object
  PROVE  Wanted(o) \in Seq(Name)
<1>1. decl[o].deps \in Seq(Name)
  BY DEF TypeOK, DeclarationType
<1> QED
  BY <1>1 DEF Wanted

\* Entering a task adds a well-formed activation record.
LEMMA EnterType ==
  ASSUME TypeOK, NEW o \in Object, Enter(o)
  PROVE  /\ calls' = Append(calls, [task |-> o, rest |-> Wanted(o)])
         /\ calls' \in Seq(Frame)
         /\ error' \in ErrorType
<1>1. [task |-> o, rest |-> Wanted(o)] \in Frame
  BY WantedType DEF Frame
<1>2. failure \in ErrorType
  BY DEF failure, ErrorType, success, type
<1>3. error' \in ErrorType
  BY <1>2, MarkType DEF Enter, TypeOK
<1> QED
  BY <1>1, <1>3 DEF Enter, TypeOK

\* A registered name denotes an object.
LEMMA RegisteredType ==
  ASSUME TypeOK, NEW n \in Name, Registered(n)
  PROVE  task_list[n] \in Object
BY DEF TypeOK, Registered

-----------------------------------------------------------------------------
(* Type correctness.                                                       *)

LEMMA TypeInit == Init => TypeOK
BY DeclarationAssumption
   DEF Init, TypeOK, Phase, ErrorType, success, type, DeclarationType

LEMMA TypeNext == TypeOK /\ [Next]_vars => TypeOK'
<1> SUFFICES ASSUME TypeOK, [Next]_vars PROVE TypeOK'
  OBVIOUS
<1> USE DEF static, options, running
<1>a. ErrorType \subseteq ErrorType \union {64, None}
  OBVIOUS
<1>b. success \in ErrorType /\ failure \in ErrorType
  BY DEF ErrorType, success, failure, type
<1>1. ASSUME NEW o \in Object, Register(o) PROVE TypeOK'
  <2>1. decl[o].name \in Name
    BY DEF TypeOK, DeclarationType
  <2>2. task_list' \in [Name -> Object \union {None}]
    BY <1>1, <2>1 DEF Register, TypeOK
  <2>3. error' \in ErrorType
    BY <1>1, <1>b, MarkType DEF Register, TypeOK
  <2> QED
    BY <1>1, <2>2, <2>3 DEF Register, TypeOK
<1>2. CASE EnterMain
  BY <1>2 DEF EnterMain, TypeOK, Phase
<1>3. CASE BadUsage
  BY <1>3 DEF BadUsage, Exit, TypeOK, Phase
<1>4. CASE Help
  BY <1>4, <1>a DEF Help, Exit, TypeOK, Phase
<1>5. ASSUME NEW o \in Object, NEW a \in Argument \union {None}, Option(o, a)
      PROVE  TypeOK'
  <2>1. Enter(o)
    BY <1>5 DEF Option
  <2>2. calls' \in Seq(Frame) /\ error' \in ErrorType
    BY <2>1, EnterType
  <2>3. asked' \in Seq(Object \X (Argument \union {None}))
    BY <1>5 DEF Option, TypeOK
  <2>4. arg' \in [Object -> Argument \union {None}]
    BY <1>5 DEF Option, TypeOK
  <2> QED
    BY <1>5, <2>2, <2>3, <2>4 DEF Option, TypeOK
<1>6. ASSUME NEW hasFile \in BOOLEAN, EndOptions(hasFile) PROVE TypeOK'
  BY <1>6, <1>a DEF EndOptions, Exit, TypeOK, Phase
<1>7. CASE CallDependency
  <2>1. PICK d \in Name : AtDependency(d) /\ NeedsCall(d) /\ Enter(task_list[d])
    BY <1>7 DEF CallDependency
  <2>2. task_list[d] \in Object
    BY <2>1, RegisteredType DEF NeedsCall
  <2>3. calls' \in Seq(Frame) /\ error' \in ErrorType
    BY <2>1, <2>2, EnterType
  <2> QED
    BY <1>7, <2>3 DEF CallDependency, TypeOK
<1>8. CASE OverflowStack
  BY <1>8 DEF OverflowStack, TypeOK, Phase
<1>9. CASE NextDependency
  <2>1. PICK d \in Name :
          /\ AtDependency(d)
          /\ calls' = [calls EXCEPT ![Len(calls)].rest = Tail(@)]
    BY <1>9 DEF NextDependency
  <2>2. calls \in Seq(Frame) /\ calls # << >> /\ Last(calls).rest # << >>
    BY <2>1 DEF AtDependency, TypeOK
  <2>3. Len(calls) \in 1 .. Len(calls) /\ calls[Len(calls)] \in Frame
        /\ calls[Len(calls)].rest # << >>
    <3>1. Last(calls) \in Frame /\ Last(calls) = calls[Len(calls)]
      BY <2>2, FrontLast
    <3>2. Len(calls) \in Nat \ {0}
      BY <2>2, FrontLast
    <3> QED
      BY <2>2, <3>1, <3>2
  <2>4. Tail(calls[Len(calls)].rest) \in Seq(Name)
    BY <2>3 DEF Frame
  <2>5. [calls[Len(calls)] EXCEPT !.rest = Tail(@)] \in Frame
    BY <2>3, <2>4 DEF Frame
  <2>6. calls' = [calls EXCEPT ![Len(calls)] =
                    [calls[Len(calls)] EXCEPT !.rest = Tail(@)]]
    BY <2>1, <2>2, <2>3
  <2>7. calls' \in Seq(Frame)
    BY <2>2, <2>3, <2>5, <2>6, ExceptSeq
  <2> QED
    BY <1>9, <2>7 DEF NextDependency, TypeOK
<1>10. CASE Schedule
  <2>1. calls \in Seq(Frame) /\ calls # << >>
    BY <1>10 DEF Schedule, TypeOK
  <2>2. Front(calls) \in Seq(Frame) /\ Last(calls) \in Frame
    BY <2>1, FrontLast
  <2>3. Last(calls).task \in Object
    BY <2>2 DEF Frame
  <2> QED
    BY <1>10, <2>2, <2>3 DEF Schedule, TypeOK
<1>11. CASE EnableDefault
  <2>1. task_list[Default] \in Object
    BY <1>11, RegisteredType, DeclarationAssumption DEF EnableDefault
  <2>2. calls' \in Seq(Frame) /\ error' \in ErrorType
    BY <1>11, <2>1, EnterType DEF EnableDefault
  <2> QED
    BY <1>11, <2>2 DEF EnableDefault, TypeOK
<1>12. CASE StartExecution
  <2>1. error' \in ErrorType
    BY <1>12, <1>b, MarkType DEF StartExecution, TypeOK
  <2> QED
    BY <1>12, <2>1 DEF StartExecution, TypeOK, Phase
<1>13. CASE StartTask
  <2>1. task_order[next] \in Object
    BY <1>13 DEF StartTask, TypeOK
  <2> QED
    BY <1>13, <2>1 DEF StartTask, TypeOK
<1>14. ASSUME NEW e \in ErrorType, TaskReturns(e) PROVE TypeOK'
  <2>1. error' \in ErrorType
    BY <1>14, MarkType DEF TaskReturns, TypeOK
  <2>2. timer' \in Seq(Object)
    BY <1>14, FrontLast DEF TaskReturns, TypeOK
  <2> QED
    BY <1>14, <2>1, <2>2 DEF TaskReturns, TypeOK
<1>15. ASSUME NEW e \in ErrorType, NEW exception \in Exception,
              TaskThrows(e, exception)
       PROVE  TypeOK'
  <2>1. error' \in ErrorType
    BY <1>15, MarkType DEF TaskThrows, TypeOK
  <2>2. exit' \in ErrorType \union {64, None}
    BY <1>15, <2>1, <1>a, <1>b DEF TaskThrows, Exit, Exception
  <2> QED
    BY <1>15, <2>1, <2>2 DEF TaskThrows, Exit, TypeOK, Phase
<1>16. CASE TaskAborts
  BY <1>16 DEF TaskAborts, TypeOK, Phase
<1>17. CASE EndExecution
  BY <1>17, <1>a DEF EndExecution, Exit, TypeOK, Phase
<1>18. CASE UNCHANGED vars
  BY <1>18 DEF vars, TypeOK
<1> QED
  BY <1>1, <1>2, <1>3, <1>4, <1>5, <1>6, <1>7, <1>8, <1>9, <1>10, <1>11,
     <1>12, <1>13, <1>14, <1>15, <1>16, <1>17, <1>18
     DEF Next, StaticNext, OptionsNext, ResolveNext, MainNext, Ended

\* Every variable of the register keeps its type.
THEOREM TypeCorrect == Spec => []TypeOK
BY TypeInit, TypeNext, PTL DEF Spec

-----------------------------------------------------------------------------
(* Dependencies come first.                                                *)

LEMMA ScheduledRange ==
  ASSUME TypeOK, NEW o
  PROVE  Scheduled(o) <=> o \in Range(task_order)
<1>1. DOMAIN task_order = 1 .. Len(task_order)
  BY DEF TypeOK
<1> QED
  BY <1>1 DEF Scheduled, Contains, Range

\* The loop of a new activation record visits what the task still needs.
LEMMA EnterResolving ==
  ASSUME TypeOK, NEW o \in Object
  PROVE  Resolving([task |-> o, rest |-> Wanted(o)], Range(task_order))
<1> DEFINE deps == decl[o].deps
           f == [task |-> o, rest |-> Wanted(o)]
<1>1. deps \in Seq(Name) /\ f.task = o /\ f.rest = Wanted(o)
  BY DEF TypeOK, DeclarationType
<1>2. CASE decl[o].kind # "disjunctive"
  <2>1. Wanted(o) = deps
    BY <1>2 DEF Wanted
  <2> QED
    BY <1>1, <1>2, <2>1 DEF Resolving
<1>3. CASE decl[o].kind = "disjunctive"
  <2>1. CASE deps = << >>
    BY <1>1, <1>3, <2>1 DEF Resolving
  <2>2. CASE \E d \in Dependencies(o) : Registered(d) /\ Scheduled(task_list[d])
    BY <1>1, <1>3, <2>2, ScheduledRange DEF Resolving, Dependencies
  <2>3. CASE /\ deps # << >>
             /\ ~ \E d \in Dependencies(o) : Registered(d) /\ Scheduled(task_list[d])
    <3>1. Wanted(o) = <<Head(deps)>>
      BY <1>3, <2>3 DEF Wanted
    <3>2. Head(deps) \in Range(<<Head(deps)>>)
      BY DEF Range
    <3> QED
      BY <1>1, <1>3, <3>1, <3>2 DEF Resolving
  <2> QED
    BY <2>1, <2>2, <2>3
<1> QED
  BY <1>2, <1>3

\* The places of a list that only grows keep what they had before them.
LEMMA GrowingList ==
  ASSUME TypeOK, NEW o \in Object, task_order' = Append(task_order, o)
  PROVE  /\ Range(task_order') = Range(task_order) \union {o}
         /\ DOMAIN task_order' = 1 .. Len(task_order) + 1
         /\ \A i \in 1 .. Len(task_order) : task_order'[i] = task_order[i]
         /\ task_order'[Len(task_order) + 1] = o
         /\ DOMAIN task_order = 1 .. Len(task_order)
         /\ Len(task_order) \in Nat
<1> DEFINE n == Len(task_order)
<1>1. task_order \in Seq(Object) /\ n \in Nat /\ DOMAIN task_order = 1 .. n
  BY DEF TypeOK
<1>2. /\ DOMAIN task_order' = 1 .. n + 1
      /\ \A i \in 1 .. n : task_order'[i] = task_order[i]
      /\ task_order'[n + 1] = o
  BY <1>1, AppendProperties
<1>3. Range(task_order') = Range(task_order) \union {o}
  <2> HIDE DEF n
  <2>1. \A i \in 1 .. n + 1 : i = n + 1 \/ i \in 1 .. n
    BY <1>1
  <2>2. \A i \in 1 .. n : i \in 1 .. n + 1
    BY <1>1
  <2>3. n + 1 \in 1 .. n + 1
    BY <1>1
  <2> QED
    BY <1>1, <1>2, <2>1, <2>2, <2>3 DEF Range
<1> QED
  BY <1>1, <1>2, <1>3

\* A step that changes neither the list nor the activation records.
LEMMA ScheduleInvUnchanged ==
  ASSUME ScheduleInv, UNCHANGED <<decl, task_list, task_order, calls>>,
         phase' # "static"
  PROVE  ScheduleInv'
BY DEF ScheduleInv, QuietStart, CallsResolving, Resolving, DependenciesFirst,
       Satisfied, Registered

\* A step that enters a task.
LEMMA ScheduleInvEnter ==
  ASSUME TypeOK, ScheduleInv, NEW o \in Object, Enter(o),
         UNCHANGED <<decl, task_list, task_order>>, phase' # "static"
  PROVE  ScheduleInv'
<1> DEFINE f == [task |-> o, rest |-> Wanted(o)]
<1>1. calls' = Append(calls, f) /\ f \in Frame /\ calls \in Seq(Frame)
  BY EnterType, WantedType DEF TypeOK, Frame
<1>2. Resolving(f, Range(task_order))
  BY EnterResolving
<1>3. ASSUME NEW k \in DOMAIN calls'
      PROVE  Resolving(calls'[k], Range(task_order))
  <2>1. (k \in DOMAIN calls /\ calls'[k] = calls[k]) \/ calls'[k] = f
    <3> HIDE DEF f
    <3> QED  BY <1>1
  <2> QED
    BY <1>2, <2>1 DEF ScheduleInv, CallsResolving
<1>4. CallsResolving'
  BY <1>3 DEF CallsResolving, Resolving, Registered
<1>5. DependenciesFirst'
  BY DEF ScheduleInv, DependenciesFirst, Satisfied, Registered
<1> QED
  BY <1>4, <1>5 DEF ScheduleInv, QuietStart

LEMMA ScheduleInvNextDependency ==
  TypeOK /\ ScheduleInv /\ NextDependency => ScheduleInv'
<1> SUFFICES ASSUME TypeOK, ScheduleInv, NextDependency PROVE ScheduleInv'
  OBVIOUS
<1> USE DEF static, options, running
<1>1. PICK d \in Name :
        /\ AtDependency(d)
        /\ ~NeedsCall(d)
        /\ calls' = [calls EXCEPT ![Len(calls)].rest = Tail(@)]
        /\ UNCHANGED <<decl, task_list, task_order, phase>>
  BY DEF NextDependency
<1> DEFINE n == Len(calls)
           f == calls[n]
           g == [f EXCEPT !.rest = Tail(@)]
<1>2. /\ calls \in Seq(Frame) /\ n \in DOMAIN calls /\ f \in Frame
      /\ f.rest # << >> /\ d = Head(f.rest)
  <2>1. calls \in Seq(Frame) /\ calls # << >>
    BY <1>1 DEF AtDependency, TypeOK
  <2>2. Last(calls) \in Frame /\ Last(calls) = f /\ n \in Nat \ {0}
    BY <2>1, FrontLast
  <2>3. n \in DOMAIN calls
    BY <2>1, <2>2
  <2> QED
    BY <1>1, <2>1, <2>2, <2>3 DEF AtDependency
<1>3. g.task = f.task /\ g.rest = Tail(f.rest) /\ f.rest \in Seq(Name)
  BY <1>2 DEF Frame
<1>4. Range(f.rest) = {d} \union Range(g.rest)
  BY <1>2, <1>3, HeadTailRange
<1>5. ~Registered(d) \/ task_list[d] \in Range(task_order)
  BY <1>1, ScheduledRange DEF NeedsCall
<1>6. Resolving(f, Range(task_order))
  BY <1>2 DEF ScheduleInv, CallsResolving
<1>7. decl[f.task].deps \in Seq(Name)
  BY <1>2 DEF Frame, TypeOK, DeclarationType
<1>8. decl[f.task].deps # << >> =>
        Head(decl[f.task].deps) \in Range(decl[f.task].deps)
  BY <1>7 DEF Range
<1>9. Resolving(g, Range(task_order))
  <2> HIDE DEF f, g
  <2> QED
    BY <1>3, <1>4, <1>5, <1>6, <1>8 DEF Resolving
<1>10. \A k \in DOMAIN calls' : k \in DOMAIN calls
                               /\ (calls'[k] = calls[k] \/ calls'[k] = g)
  BY <1>1, <1>2
<1>11. \A k \in DOMAIN calls' : Resolving(calls'[k], Range(task_order))
  <2> HIDE DEF g
  <2> QED
    BY <1>9, <1>10 DEF ScheduleInv, CallsResolving
<1>12. CallsResolving'
  BY <1>1, <1>11 DEF CallsResolving, Resolving, Registered
<1>13. DependenciesFirst'
  BY <1>1 DEF ScheduleInv, DependenciesFirst, Satisfied, Registered
<1> QED
  BY <1>1, <1>12, <1>13 DEF ScheduleInv, QuietStart, AtDependency

LEMMA ScheduleInvSchedule == TypeOK /\ ScheduleInv /\ Schedule => ScheduleInv'
<1> SUFFICES ASSUME TypeOK, ScheduleInv, Schedule PROVE ScheduleInv'
  OBVIOUS
<1> USE DEF static, options, running
<1> DEFINE o == Last(calls).task
           n == Len(task_order)
<1>1. /\ calls \in Seq(Frame) /\ calls # << >> /\ Last(calls).rest = << >>
      /\ task_order' = Append(task_order, o) /\ calls' = Front(calls)
      /\ UNCHANGED <<decl, task_list, phase>> /\ phase # "static"
  BY DEF Schedule, TypeOK
<1>2. Last(calls) \in Frame /\ Last(calls) = calls[Len(calls)]
      /\ Len(calls) \in DOMAIN calls
      /\ \A k \in DOMAIN calls' : k \in DOMAIN calls /\ calls'[k] = calls[k]
  <2>1. /\ calls' \in Seq(Frame)
        /\ Len(calls') = Len(calls) - 1
        /\ \A k \in 1 .. Len(calls) - 1 : calls'[k] = calls[k]
        /\ Last(calls) \in Frame
        /\ Last(calls) = calls[Len(calls)]
        /\ Len(calls) \in Nat \ {0}
    BY <1>1, FrontLast
  <2>2. DOMAIN calls = 1 .. Len(calls) /\ DOMAIN calls' = 1 .. Len(calls) - 1
    BY <1>1, <2>1
  <2> QED
    BY <2>1, <2>2
<1>3. o \in Object
  BY <1>2 DEF Frame
<1> HIDE DEF o
<1>4. /\ Range(task_order') = Range(task_order) \union {o}
      /\ DOMAIN task_order' = 1 .. n + 1
      /\ \A i \in 1 .. n : task_order'[i] = task_order[i]
      /\ task_order'[n + 1] = o
      /\ DOMAIN task_order = 1 .. n
      /\ n \in Nat
  BY <1>1, <1>3, GrowingList
<1>5. CallsResolving'
  <2>1. ASSUME NEW k \in DOMAIN calls'
        PROVE  Resolving(calls[k], Range(task_order))
    BY <1>2 DEF ScheduleInv, CallsResolving
  <2>2. ASSUME NEW k \in DOMAIN calls' PROVE Resolving(calls[k], Range(task_order'))
    BY <1>4, <2>1 DEF Resolving
  <2> QED
    BY <1>1, <1>2, <2>2 DEF CallsResolving, Resolving, Registered
<1>6. Satisfied(o, Range(task_order))
  <2>1. Resolving(Last(calls), Range(task_order))
    BY <1>2 DEF ScheduleInv, CallsResolving
  <2>2. Range(Last(calls).rest) = {}
    BY <1>1 DEF Range
  <2> QED
    BY <2>1, <2>2 DEF Resolving, Satisfied, o
<1>7. Range(task_order) = {task_order'[j] : j \in 1 .. n + 1 - 1}
  <2> HIDE DEF n
  <2>1. 1 .. n + 1 - 1 = 1 .. n
    BY <1>4
  <2> QED
    BY <1>4, <2>1 DEF Range
<1>8. ASSUME NEW i \in DOMAIN task_order'
      PROVE  Satisfied(task_order'[i], {task_order'[j] : j \in 1 .. i - 1})
  <2> HIDE DEF n
  <2>1. CASE i = n + 1
    BY <1>4, <1>6, <1>7, <2>1
  <2>2. CASE i # n + 1
    <3>1. i \in 1 .. n /\ i \in DOMAIN task_order
      BY <1>4, <1>8, <2>2
    <3>2. \A j \in 1 .. i - 1 : task_order'[j] = task_order[j]
      BY <1>4, <3>1
    <3>3. {task_order'[j] : j \in 1 .. i - 1} = {task_order[j] : j \in 1 .. i - 1}
      BY <3>2
    <3> QED
      BY <1>4, <3>1, <3>3 DEF ScheduleInv, DependenciesFirst
  <2> QED
    BY <2>1, <2>2
<1>9. DependenciesFirst'
  BY <1>1, <1>8 DEF DependenciesFirst, Satisfied, Registered
<1> QED
  BY <1>1, <1>5, <1>9 DEF ScheduleInv, QuietStart

LEMMA ScheduleInvInit == Init => ScheduleInv
BY DEF Init, ScheduleInv, QuietStart, CallsResolving, DependenciesFirst

LEMMA ScheduleInvNext == TypeOK /\ ScheduleInv /\ [Next]_vars => ScheduleInv'
<1> SUFFICES ASSUME TypeOK, ScheduleInv, [Next]_vars PROVE ScheduleInv'
  OBVIOUS
<1> USE DEF static, options, running
<1>1. ASSUME NEW o \in Object, Register(o) PROVE ScheduleInv'
  <2>1. calls' = << >> /\ task_order' = << >> /\ ran' = << >>
    BY <1>1 DEF Register, ScheduleInv, QuietStart
  <2> QED
    BY <2>1 DEF ScheduleInv, QuietStart, CallsResolving, DependenciesFirst
<1>2. CASE EnterMain
  BY <1>2, ScheduleInvUnchanged DEF EnterMain
<1>3. CASE BadUsage \/ Help
  BY <1>3, ScheduleInvUnchanged DEF BadUsage, Help, Exit
<1>4. ASSUME NEW o \in Object, NEW a \in Argument \union {None}, Option(o, a)
      PROVE  ScheduleInv'
  BY <1>4, ScheduleInvEnter DEF Option
<1>5. ASSUME NEW hasFile \in BOOLEAN, EndOptions(hasFile) PROVE ScheduleInv'
  BY <1>5, ScheduleInvUnchanged DEF EndOptions, Exit
<1>6. CASE CallDependency
  <2>1. PICK d \in Name : AtDependency(d) /\ NeedsCall(d) /\ Enter(task_list[d])
    BY <1>6 DEF CallDependency
  <2>2. task_list[d] \in Object /\ phase' # "static"
        /\ UNCHANGED <<decl, task_list, task_order>>
    BY <1>6, <2>1, RegisteredType DEF NeedsCall, AtDependency, CallDependency
  <2> QED
    BY <2>1, <2>2, ScheduleInvEnter
<1>7. CASE OverflowStack
  BY <1>7, ScheduleInvUnchanged DEF OverflowStack
<1>8. CASE NextDependency
  BY <1>8, ScheduleInvNextDependency
<1>9. CASE Schedule
  BY <1>9, ScheduleInvSchedule
<1>10. CASE EnableDefault
  <2>1. task_list[Default] \in Object /\ phase' # "static"
    BY <1>10, RegisteredType, DeclarationAssumption DEF EnableDefault
  <2> QED
    BY <1>10, <2>1, ScheduleInvEnter DEF EnableDefault
<1>11. CASE StartExecution
  BY <1>11, ScheduleInvUnchanged DEF StartExecution
<1>12. CASE StartTask
  BY <1>12, ScheduleInvUnchanged DEF StartTask
<1>13. ASSUME NEW e \in ErrorType, TaskReturns(e) PROVE ScheduleInv'
  BY <1>13, ScheduleInvUnchanged DEF TaskReturns
<1>14. ASSUME NEW e \in ErrorType, NEW exception \in Exception,
              TaskThrows(e, exception)
       PROVE  ScheduleInv'
  BY <1>14, ScheduleInvUnchanged DEF TaskThrows, Exit
<1>15. CASE TaskAborts \/ EndExecution
  BY <1>15, ScheduleInvUnchanged DEF TaskAborts, EndExecution, Exit
<1>16. CASE UNCHANGED vars
  BY <1>16 DEF vars, ScheduleInv, QuietStart, CallsResolving, Resolving,
               DependenciesFirst, Satisfied, Registered
<1> QED
  BY <1>1, <1>2, <1>3, <1>4, <1>5, <1>6, <1>7, <1>8, <1>9, <1>10, <1>11,
     <1>12, <1>13, <1>14, <1>15, <1>16
     DEF Next, StaticNext, OptionsNext, ResolveNext, MainNext, Ended

\* Whatever the declarations and the command line, cycles included, no task is
\* in the list before what it needs.
THEOREM ScheduleCorrect == Spec => []DependenciesFirst
<1>1. Spec => []ScheduleInv
  BY TypeCorrect, ScheduleInvInit, ScheduleInvNext, PTL DEF Spec
<1>2. ScheduleInv => DependenciesFirst
  BY DEF ScheduleInv
<1> QED
  BY <1>1, <1>2, PTL

-----------------------------------------------------------------------------
(* Tasks run in the order of the list.                                     *)

LEMMA RunInvInit == Init => RunInv
BY DEF Init, RunInv, Progress, RunsInOrder

LEMMA RunInvUnchanged ==
  ASSUME RunInv, UNCHANGED <<task_order, running>>,
         phase' \in {"static", "options", "ready"} =>
           phase \in {"static", "options", "ready"}
  PROVE  RunInv'
BY DEF RunInv, Progress, RunsInOrder, running

LEMMA RunInvNext == TypeOK /\ RunInv /\ [Next]_vars => RunInv'
<1> SUFFICES ASSUME TypeOK, RunInv, [Next]_vars PROVE RunInv'
  OBVIOUS
<1> USE DEF static, options
<1>1. ASSUME NEW o \in Object, Register(o) PROVE RunInv'
  BY <1>1, RunInvUnchanged DEF Register
<1>2. CASE EnterMain
  BY <1>2, RunInvUnchanged DEF EnterMain
<1>3. CASE BadUsage \/ Help
  BY <1>3, RunInvUnchanged DEF BadUsage, Help, Exit
<1>4. ASSUME NEW o \in Object, NEW a \in Argument \union {None}, Option(o, a)
      PROVE  RunInv'
  BY <1>4, RunInvUnchanged DEF Option
<1>5. ASSUME NEW hasFile \in BOOLEAN, EndOptions(hasFile) PROVE RunInv'
  BY <1>5, RunInvUnchanged DEF EndOptions, Exit
<1>6. CASE CallDependency \/ OverflowStack \/ NextDependency
  BY <1>6, RunInvUnchanged DEF CallDependency, OverflowStack, NextDependency
<1>7. CASE Schedule
  <2>1. ran = << >> /\ ran' = << >> /\ next' = 1 /\ timer' = << >>
    BY <1>7 DEF Schedule, RunInv, Progress, running
  <2> QED
    BY <2>1 DEF RunInv, Progress, RunsInOrder
<1>8. CASE EnableDefault \/ StartExecution
  BY <1>8, RunInvUnchanged DEF EnableDefault, StartExecution
<1>9. CASE StartTask
  <2> DEFINE entry == <<task_order[next], arg[task_order[next]]>>
  <2>1. /\ ran' = Append(ran, entry) /\ timer' = Append(timer, task_order[next])
        /\ timer = << >> /\ next <= Len(task_order)
        /\ UNCHANGED <<task_order, next, phase>> /\ phase = "execute"
    BY <1>9 DEF StartTask
  <2>2. entry \in Object \X (Argument \union {None}) /\ task_order[next] \in Object
    BY <2>1 DEF TypeOK
  <2>3. /\ Len(ran) = next - 1 /\ Len(ran') = next
        /\ \A i \in 1 .. next - 1 : ran'[i] = ran[i]
        /\ ran'[next] = entry
        /\ DOMAIN ran' = 1 .. next /\ DOMAIN ran = 1 .. next - 1
    <3> HIDE DEF entry
    <3> QED
      BY <2>1, <2>2, AppendProperties DEF RunInv, Progress, TypeOK
  <2>4. \A i \in DOMAIN ran' : i <= Len(task_order) /\ ran'[i][1] = task_order[i]
    <3>1. entry[1] = task_order[next]
      OBVIOUS
    <3> HIDE DEF entry
    <3>2. ASSUME NEW i \in 1 .. next
          PROVE  i <= Len(task_order) /\ ran'[i][1] = task_order[i]
      <4>1. CASE i = next
        BY <2>1, <2>3, <3>1, <4>1
      <4>2. CASE i # next
        <5>1. i \in 1 .. next - 1
          BY <4>2 DEF TypeOK
        <5> QED
          BY <2>3, <5>1 DEF RunInv, RunsInOrder
      <4> QED
        BY <4>1, <4>2
    <3> QED
      BY <2>3, <3>2
  <2>5. timer' = <<task_order[next]>>
    BY <2>1, <2>2
  <2> HIDE DEF entry
  <2> QED
    BY <2>1, <2>3, <2>4, <2>5 DEF RunInv, Progress, RunsInOrder
<1>10. ASSUME NEW e \in ErrorType, TaskReturns(e) PROVE RunInv'
  <2>1. timer \in Seq(Object) /\ timer # << >> /\ Len(timer) = 1
    <3>1. timer \in Seq(Object) /\ timer # << >> /\ Len(timer) <= 1
      BY <1>10 DEF TaskReturns, TypeOK, RunInv, Progress
    <3>2. Len(timer) \in Nat \ {0}
      BY <3>1, FrontLast
    <3>3. \A n \in Nat \ {0} : n <= 1 => n = 1
      OBVIOUS
    <3>4. Len(timer) = 1
      BY <3>1, <3>2, <3>3, Zenon
    <3> QED
      BY <3>1, <3>4, Zenon
  <2>2. timer' = << >>
    BY <1>10, <2>1, FrontLast DEF TaskReturns
  <2>3. next' = next + 1 /\ UNCHANGED <<task_order, ran, phase>>
        /\ Len(ran) = next /\ next \in Nat /\ phase = "execute"
    BY <1>10, <2>1 DEF TaskReturns, RunInv, Progress, TypeOK
  <2> QED
    BY <2>2, <2>3 DEF RunInv, Progress, RunsInOrder
<1>11. ASSUME NEW e \in ErrorType, NEW exception \in Exception,
              TaskThrows(e, exception)
       PROVE  RunInv'
  BY <1>11, RunInvUnchanged DEF TaskThrows, Exit
<1>12. CASE TaskAborts \/ EndExecution
  BY <1>12, RunInvUnchanged DEF TaskAborts, EndExecution, Exit
<1>13. CASE UNCHANGED vars
  BY <1>13, RunInvUnchanged DEF vars, running
<1> QED
  BY <1>1, <1>2, <1>3, <1>4, <1>5, <1>6, <1>7, <1>8, <1>9, <1>10, <1>11,
     <1>12, <1>13
     DEF Next, StaticNext, OptionsNext, ResolveNext, MainNext, Ended

\* What has been executed is always a prefix of the list, in its order.
THEOREM ExecutionInOrder == Spec => []RunsInOrder
<1>1. Spec => []RunInv
  BY TypeCorrect, RunInvInit, RunInvNext, PTL DEF Spec
<1>2. RunInv => RunsInOrder
  BY DEF RunInv
<1> QED
  BY <1>1, <1>2, PTL

-----------------------------------------------------------------------------
(* The register implements the abstract schedule.                          *)

PromiseNeeds == [o \in Object |-> Needs(o)]

LEMMA NeedsType ==
  TypeOK => PromiseNeeds \in [Object -> SUBSET SUBSET Object]
<1> SUFFICES ASSUME TypeOK, NEW o \in Object
             PROVE  Needs(o) \in SUBSET SUBSET Object
  BY DEF PromiseNeeds
<1>1. decl[o].deps \in Seq(Name)
  BY DEF TypeOK, DeclarationType
<1>2. Range(decl[o].deps) \subseteq Name
  BY <1>1 DEF Range
<1>3. \A ns \in SUBSET Name : Objects(ns) \subseteq Object
  BY RegisteredType DEF Objects
<1> QED
  BY <1>2, <1>3 DEF Needs

LEMMA NeedsTypeNext ==
  TypeOK' => (PromiseNeeds \in [Object -> SUBSET SUBSET Object])'
BY NeedsType, PTL

\* A task whose needs are met by a list may be planned after it.
LEMMA SatisfiedMet ==
  ASSUME TypeOK, NEW o \in Object, NEW before, Satisfied(o, before)
  PROVE  \A need \in Needs(o) : need \intersect before # {}
BY DEF Satisfied, Needs, Objects

LEMMA PromiseInit == Init => Promise!Init
<1> SUFFICES ASSUME Init PROVE Promise!Init
  OBVIOUS
<1>1. PromiseNeeds \in [Object -> SUBSET SUBSET Object]
  BY TypeInit, NeedsType
<1> QED
  BY <1>1 DEF Init, Promise!Init, PromiseNeeds, Stage

LEMMA NeedsUnchanged ==
  ASSUME UNCHANGED <<decl, task_list>> PROVE UNCHANGED PromiseNeeds
BY DEF PromiseNeeds, Needs, Objects, Registered

\* A step the promise does not see.
LEMMA PromiseStutter ==
  ASSUME UNCHANGED <<decl, task_list, task_order, ran>>, Stage' = Stage
  PROVE  UNCHANGED Promise!vars
BY NeedsUnchanged DEF PromiseNeeds, Promise!vars

\* A step that ends the process.
LEMMA PromiseStop ==
  ASSUME UNCHANGED <<decl, task_list, task_order, ran>>,
         phase \in {"options", "ready", "execute"}, phase' \in {"exited", "crashed"}
  PROVE  Promise!Next
BY NeedsUnchanged DEF PromiseNeeds, Promise!Next, Promise!Stop, Stage

LEMMA PromiseNext ==
  TypeOK /\ TypeOK' /\ ScheduleInv /\ RunInv /\ [Next]_vars
    => [Promise!Next]_Promise!vars
<1> SUFFICES ASSUME TypeOK, TypeOK', ScheduleInv, RunInv, [Next]_vars
             PROVE  Promise!Next \/ UNCHANGED Promise!vars
  OBVIOUS
<1> USE DEF static, options, running
<1>a. PromiseNeeds' \in [Object -> SUBSET SUBSET Object]
  BY NeedsTypeNext
<1>1. ASSUME NEW o \in Object, Register(o) PROVE Promise!Next
  <2>1. UNCHANGED <<task_order, ran, phase>> /\ phase = "static"
    BY <1>1 DEF Register
  <2> QED
    BY <1>a, <2>1 DEF Promise!Next, Promise!Declare, PromiseNeeds, Stage
<1>2. CASE EnterMain
  <2>1. UNCHANGED <<task_order, ran>> /\ phase = "static" /\ phase' = "options"
    BY <1>2 DEF EnterMain
  <2> QED
    BY <1>a, <2>1 DEF Promise!Next, Promise!Declare, PromiseNeeds, Stage
<1>3. CASE BadUsage \/ Help
  BY <1>3, PromiseStop DEF BadUsage, Help, Exit
<1>4. ASSUME NEW o \in Object, NEW a \in Argument \union {None}, Option(o, a)
      PROVE  UNCHANGED Promise!vars
  BY <1>4, PromiseStutter DEF Option, Stage
<1>5. ASSUME NEW hasFile \in BOOLEAN, EndOptions(hasFile)
      PROVE  Promise!Next \/ UNCHANGED Promise!vars
  <2>1. CASE phase' = "exited"
    BY <1>5, <2>1, PromiseStop DEF EndOptions
  <2>2. CASE phase' = "ready"
    BY <1>5, <2>2, PromiseStutter DEF EndOptions, Stage
  <2> QED
    BY <1>5, <2>1, <2>2 DEF EndOptions, Exit
<1>6. CASE CallDependency \/ NextDependency
  BY <1>6, PromiseStutter DEF CallDependency, NextDependency, Stage
<1>7. CASE OverflowStack
  BY <1>7, PromiseStop DEF OverflowStack, AtDependency
<1>8. CASE Schedule
  <2> DEFINE o == Last(calls).task
  <2>1. calls \in Seq(Frame) /\ calls # << >> /\ Last(calls).rest = << >>
        /\ task_order' = Append(task_order, o)
        /\ UNCHANGED <<decl, task_list, phase, ran>>
        /\ phase \in {"options", "ready"}
    BY <1>8 DEF Schedule, TypeOK
  <2>2. Last(calls) \in Frame /\ Last(calls) = calls[Len(calls)]
        /\ Len(calls) \in DOMAIN calls
    <3>1. Last(calls) \in Frame /\ Last(calls) = calls[Len(calls)]
      BY <2>1, FrontLast
    <3>2. Len(calls) \in Nat \ {0}
      BY <2>1, FrontLast
    <3> QED
      BY <2>1, <3>1, <3>2
  <2>3. o \in Object
    BY <2>2 DEF Frame
  <2>4. Satisfied(o, Range(task_order))
    <3>1. Resolving(Last(calls), Range(task_order))
      BY <2>2 DEF ScheduleInv, CallsResolving
    <3>2. Range(Last(calls).rest) = {}
      BY <2>1 DEF Range
    <3> QED
      BY <3>1, <3>2 DEF Resolving, Satisfied
  <2> HIDE DEF o
  <2>5. \A need \in Needs(o) : need \intersect Range(task_order) # {}
    BY <2>3, <2>4, SatisfiedMet
  <2>6. UNCHANGED PromiseNeeds /\ Stage = "planning" /\ Stage' = Stage
    BY <2>1, NeedsUnchanged DEF Stage
  <2>7. Promise!Plan(o)
    BY <2>1, <2>3, <2>5, <2>6
       DEF Promise!Plan, Promise!Met, PromiseNeeds, Range, Promise!Range
  <2> QED
    BY <2>3, <2>7 DEF Promise!Next
<1>9. CASE EnableDefault
  BY <1>9, PromiseStutter DEF EnableDefault, Stage
<1>10. CASE StartExecution
  <2>1. UNCHANGED PromiseNeeds
    BY <1>10, NeedsUnchanged DEF StartExecution
  <2> QED
    BY <1>10, <2>1
       DEF StartExecution, Promise!Next, Promise!Start, PromiseNeeds, Stage
<1>11. CASE StartTask
  <2>1. UNCHANGED PromiseNeeds
    BY <1>11, NeedsUnchanged DEF StartTask
  <2>2. phase = "execute" /\ UNCHANGED <<task_order, phase>>
        /\ Len(ran') = Len(ran) + 1
    BY <1>11 DEF StartTask, TypeOK
  <2>3. Len(ran) < Len(task_order)
    BY <1>11 DEF StartTask, RunInv, Progress, TypeOK
  <2> QED
    BY <2>1, <2>2, <2>3 DEF Promise!Next, Promise!Run, PromiseNeeds, Stage
<1>12. ASSUME NEW e \in ErrorType, TaskReturns(e) PROVE UNCHANGED Promise!vars
  BY <1>12, PromiseStutter DEF TaskReturns, Stage
<1>13. ASSUME NEW e \in ErrorType, NEW exception \in Exception,
              TaskThrows(e, exception)
       PROVE  Promise!Next
  BY <1>13, PromiseStop DEF TaskThrows, Exit
<1>14. CASE TaskAborts \/ EndExecution
  BY <1>14, PromiseStop DEF TaskAborts, EndExecution, Exit
<1>15. CASE UNCHANGED vars
  BY <1>15, PromiseStutter DEF vars, Stage
<1> QED
  BY <1>1, <1>2, <1>3, <1>4, <1>5, <1>6, <1>7, <1>8, <1>9, <1>10, <1>11,
     <1>12, <1>13, <1>14, <1>15
     DEF Next, StaticNext, OptionsNext, ResolveNext, MainNext, Ended

\* The depth-first search of the register keeps the promise of TaskSchedule.
THEOREM RegisterImplementsSchedule == Spec => KeepsPromise
<1>1. Spec => []TypeOK /\ []ScheduleInv /\ []RunInv
  BY TypeCorrect, ScheduleInvInit, ScheduleInvNext, RunInvInit, RunInvNext, PTL
     DEF Spec
<1>2. Spec => Promise!Init /\ [][Promise!Next]_Promise!vars
  BY <1>1, PromiseInit, PromiseNext, PTL DEF Spec
<1> QED
  BY <1>2 DEF KeepsPromise, Promise!Spec

-----------------------------------------------------------------------------
(***************************************************************************)
(* From the options of a command line to the exit status: what was asked,  *)
(* what is in the list, what was executed and how the process ends.        *)
(***************************************************************************)
(* What the steps of the search do to the activation records.              *)

\* enable_task adds one record, on top.
LEMMA EnterFacts ==
  ASSUME TypeOK, NEW o \in Object, Enter(o)
  PROVE  /\ Len(calls) \in Nat
         /\ DOMAIN calls = 1 .. Len(calls)
         /\ DOMAIN calls' = 1 .. Len(calls) + 1
         /\ Len(calls') = Len(calls) + 1
         /\ \A i \in 1 .. Len(calls) : calls'[i] = calls[i]
         /\ calls'[Len(calls) + 1].task = o
         /\ calls'[Len(calls) + 1].rest = Wanted(o)
         /\ calls' # << >>
<1> DEFINE f == [task |-> o, rest |-> Wanted(o)]
<1>1. calls' = Append(calls, f) /\ f \in Frame /\ calls \in Seq(Frame)
  BY EnterType, WantedType DEF TypeOK, Frame
<1>2. f.task = o /\ f.rest = Wanted(o)
  OBVIOUS
<1> HIDE DEF f
<1>3. Append(calls, f) # << >>
  BY <1>1
<1> QED
  BY <1>1, <1>2, <1>3, AppendFacts

\* The loop over the dependencies keeps the tasks of the records.
LEMMA NextDependencyFacts ==
  ASSUME TypeOK, NextDependency
  PROVE  /\ Len(calls) \in Nat \ {0}
         /\ DOMAIN calls = 1 .. Len(calls)
         /\ DOMAIN calls' = DOMAIN calls
         /\ Len(calls') = Len(calls)
         /\ \A i \in DOMAIN calls :
              /\ calls'[i].task = calls[i].task
              /\ Range(calls'[i].rest) \subseteq Range(calls[i].rest)
         /\ calls # << >> /\ calls' # << >>
<1>1. PICK d \in Name :
        /\ AtDependency(d)
        /\ calls' = [calls EXCEPT ![Len(calls)].rest = Tail(@)]
  BY DEF NextDependency
<1> DEFINE n == Len(calls)
           f == calls[n]
           g == [f EXCEPT !.rest = Tail(@)]
<1>2. calls \in Seq(Frame) /\ calls # << >> /\ Last(calls).rest # << >>
  BY <1>1 DEF AtDependency, TypeOK
<1>3. n \in Nat \ {0} /\ f \in Frame /\ f = Last(calls) /\ n \in DOMAIN calls
      /\ DOMAIN calls = 1 .. n
  <2>1. Last(calls) \in Frame /\ Last(calls) = f /\ n \in Nat \ {0}
    BY <1>2, FrontLast
  <2> QED
    BY <1>2, <2>1
<1>4. f.rest \in Seq(Name) /\ f.rest # << >>
  BY <1>2, <1>3 DEF Frame
<1>5. g.task = f.task /\ g.rest = Tail(f.rest) /\ g \in Frame
  <2>1. Tail(f.rest) \in Seq(Name)
    BY <1>4
  <2> HIDE DEF f
  <2> QED
    BY <1>3, <2>1 DEF Frame
<1>6. Range(g.rest) \subseteq Range(f.rest)
  BY <1>4, <1>5, HeadTailRange
<1>7. calls' = [calls EXCEPT ![n] = g]
  BY <1>1, <1>3
<1>a. g \in Frame /\ f = calls[n]
  BY <1>5
<1> HIDE DEF f, g
<1>8. /\ calls' \in Seq(Frame) /\ Len(calls') = n
      /\ \A i \in 1 .. n - 1 : calls'[i] = calls[i]
      /\ calls'[n] = g
  BY <1>2, <1>7, <1>a, ReplaceLast
<1>9. DOMAIN calls' = 1 .. n /\ calls' # << >>
  BY <1>3, <1>8
<1> HIDE DEF n
<1>10. ASSUME NEW i \in 1 .. n
       PROVE  calls'[i].task = calls[i].task
              /\ Range(calls'[i].rest) \subseteq Range(calls[i].rest)
  <2>1. CASE i = n
    BY <1>5, <1>6, <1>8, <1>a, <2>1
  <2>2. CASE i # n
    <3>1. i \in 1 .. n - 1
      BY <1>3, <2>2
    <3> QED
      BY <1>8, <3>1
  <2> QED
    BY <2>1, <2>2
<1> QED
  BY <1>2, <1>3, <1>8, <1>9, <1>10 DEF n

\* A call that returns leaves its task at the end of the list.
LEMMA ScheduleFacts ==
  ASSUME TypeOK, Schedule
  PROVE  /\ Len(calls) \in Nat \ {0}
         /\ DOMAIN calls = 1 .. Len(calls)
         /\ calls[Len(calls)].task \in Object
         /\ calls[Len(calls)].task = Last(calls).task
         /\ task_order' = Append(task_order, calls[Len(calls)].task)
         /\ task_order' # << >>
         /\ Last(task_order') = calls[Len(calls)].task
         /\ Range(task_order') = Range(task_order) \union {calls[Len(calls)].task}
         /\ DOMAIN calls' = 1 .. Len(calls) - 1
         /\ Len(calls') = Len(calls) - 1
         /\ \A i \in 1 .. Len(calls) - 1 : calls'[i] = calls[i]
<1> DEFINE n == Len(calls)
           o == calls[n].task
<1>1. calls \in Seq(Frame) /\ calls # << >> /\ task_order \in Seq(Object)
      /\ task_order' = Append(task_order, Last(calls).task)
      /\ calls' = Front(calls)
  BY DEF Schedule, TypeOK
<1>2. /\ Last(calls) \in Frame /\ Last(calls) = calls[n] /\ n \in Nat \ {0}
      /\ Front(calls) \in Seq(Frame) /\ Len(Front(calls)) = n - 1
      /\ \A i \in 1 .. n - 1 : Front(calls)[i] = calls[i]
  BY <1>1, FrontLast
<1>3. o \in Object /\ o = Last(calls).task
  BY <1>2 DEF Frame
<1>4. DOMAIN calls = 1 .. n /\ DOMAIN calls' = 1 .. n - 1
  BY <1>1, <1>2
<1> HIDE DEF o
<1>5. task_order' = Append(task_order, o)
  BY <1>1, <1>3
<1>6. /\ Range(task_order') = Range(task_order) \union {o}
      /\ task_order'[Len(task_order) + 1] = o
  BY <1>3, <1>5, GrowingList
<1>7. Len(task_order') = Len(task_order) + 1 /\ task_order' # << >>
  BY <1>1, <1>3, <1>5
<1>8. Last(task_order') = o
  BY <1>6, <1>7 DEF Last
<1> QED
  BY <1>1, <1>2, <1>3, <1>4, <1>5, <1>6, <1>7, <1>8 DEF o

\* An option is remembered behind those before it.
LEMMA OptionFacts ==
  ASSUME TypeOK, NEW o \in Object, NEW a \in Argument \union {None}, Option(o, a)
  PROVE  /\ Len(asked) \in Nat
         /\ DOMAIN asked = 1 .. Len(asked)
         /\ DOMAIN asked' = 1 .. Len(asked) + 1
         /\ \A i \in 1 .. Len(asked) : asked'[i] = asked[i]
         /\ asked'[Len(asked) + 1] = <<o, a>>
         /\ asked' # << >> /\ Last(asked') = <<o, a>>
<1> DEFINE q == <<o, a>>
           Q == Object \X (Argument \union {None})
<1>1. asked' = Append(asked, q) /\ q \in Q /\ asked \in Seq(Q)
  BY DEF Option, TypeOK
<1> HIDE DEF q, Q
<1>2. Len(asked') = Len(asked) + 1 /\ asked' # << >>
  BY <1>1
<1>3. /\ Len(asked) \in Nat
      /\ DOMAIN asked = 1 .. Len(asked)
      /\ DOMAIN asked' = 1 .. Len(asked) + 1
      /\ \A i \in 1 .. Len(asked) : asked'[i] = asked[i]
      /\ asked'[Len(asked) + 1] = q
  BY <1>1, AppendFacts
<1>4. Last(asked') = q
  BY <1>2, <1>3 DEF Last
<1> QED
  BY <1>2, <1>3, <1>4 DEF q

-----------------------------------------------------------------------------
(* The status of the process.                                              *)

\* A step that goes on leaves the status alone.
LEMMA ExitInvGoesOn ==
  ASSUME TypeOK, ExitInv, phase # "exited", exit' = exit, OptionsProgress',
         phase' # "exited"
  PROVE  ExitInv'
BY DeclarationAssumption DEF ExitInv, CleanExit, ErrorType, success, type

\* A step that changes neither the options nor the list.
LEMMA OptionsProgressUnchanged ==
  ASSUME OptionsProgress, UNCHANGED <<task_order, calls, asked>>,
         phase' # "static", phase' = "options" => phase = "options"
  PROVE  OptionsProgress'
BY DEF OptionsProgress

LEMMA ExitInvInit == Init => ExitInv
BY DeclarationAssumption
   DEF Init, ExitInv, OptionsProgress, CleanExit, ErrorType, success, type

LEMMA ExitInvNext ==
  TypeOK /\ QuietStart /\ RunInv /\ ExitInv /\ [Next]_vars => ExitInv'
<1> SUFFICES ASSUME TypeOK, QuietStart, RunInv, ExitInv, [Next]_vars
             PROVE  ExitInv'
  OBVIOUS
<1> USE DEF static, options, running
<1>a. OptionsProgress /\ (phase # "exited" => exit = None) /\ CleanExit
  BY DEF ExitInv
<1>1. ASSUME NEW o \in Object, Register(o) PROVE ExitInv'
  <2>1. OptionsProgress'
    BY <1>1, <1>a DEF Register, OptionsProgress
  <2> QED
    BY <1>1, <2>1, ExitInvGoesOn DEF Register
<1>2. CASE EnterMain
  <2>1. OptionsProgress'
    BY <1>2, <1>a DEF EnterMain, OptionsProgress, QuietStart
  <2> QED
    BY <1>2, <2>1, ExitInvGoesOn DEF EnterMain
<1>3. CASE BadUsage \/ Help
  <2>1. OptionsProgress'
    BY <1>3, <1>a, OptionsProgressUnchanged DEF BadUsage, Help, Exit
  <2>2. task_order = << >> /\ ran = << >> /\ timer = << >>
    BY <1>3, <1>a DEF BadUsage, Help, OptionsProgress, RunInv, Progress
  <2>3. CleanExit'
    BY <1>3, <2>2 DEF BadUsage, Help, Exit, CleanExit, success
  <2> QED
    BY <1>3, <2>1, <2>3 DEF BadUsage, Help, Exit, ExitInv
<1>4. ASSUME NEW o \in Object, NEW a \in Argument \union {None}, Option(o, a)
      PROVE  ExitInv'
  <2>1. calls' # << >>
    BY <1>4, EnterFacts DEF Option
  <2>2. asked' # << >>
    BY <1>4, OptionFacts
  <2>3. OptionsProgress'
    BY <1>4, <2>1, <2>2 DEF Option, OptionsProgress
  <2> QED
    BY <1>4, <2>3, ExitInvGoesOn DEF Option
<1>5. ASSUME NEW hasFile \in BOOLEAN, EndOptions(hasFile) PROVE ExitInv'
  <2>1. OptionsProgress'
    BY <1>5, <1>a, OptionsProgressUnchanged DEF EndOptions, Exit
  <2>2. CASE phase' = "ready"
    BY <1>5, <2>1, <2>2, ExitInvGoesOn DEF EndOptions, Exit
  <2>3. CASE phase' # "ready"
    <3>1. phase' = "exited" /\ exit' # success
      BY <1>5, <2>3 DEF EndOptions, Exit, success
    <3> QED
      BY <2>1, <3>1 DEF ExitInv, CleanExit
  <2> QED
    BY <2>2, <2>3
<1>6. CASE CallDependency
  <2>1. PICK d \in Name : /\ AtDependency(d) /\ NeedsCall(d)
                          /\ Enter(task_list[d])
                          /\ UNCHANGED <<task_order, options, phase, exit>>
    BY <1>6 DEF CallDependency
  <2>2. task_list[d] \in Object
    BY <2>1, RegisteredType DEF NeedsCall
  <2>3. calls # << >> /\ calls' # << >>
    BY <2>1, <2>2, EnterFacts DEF AtDependency
  <2>4. OptionsProgress'
    BY <1>a, <2>1, <2>3 DEF OptionsProgress, AtDependency
  <2> QED
    BY <2>1, <2>4, ExitInvGoesOn DEF AtDependency
<1>7. CASE OverflowStack
  <2>1. OptionsProgress'
    BY <1>7, <1>a, OptionsProgressUnchanged DEF OverflowStack
  <2> QED
    BY <1>7, <2>1, ExitInvGoesOn DEF OverflowStack, AtDependency
<1>8. CASE NextDependency
  <2>1. OptionsProgress'
    BY <1>8, <1>a, NextDependencyFacts
       DEF NextDependency, AtDependency, OptionsProgress
  <2> QED
    BY <1>8, <2>1, ExitInvGoesOn DEF NextDependency, AtDependency
<1>9. CASE Schedule
  <2>1. OptionsProgress'
    BY <1>9, <1>a, ScheduleFacts DEF Schedule, OptionsProgress
  <2> QED
    BY <1>9, <2>1, ExitInvGoesOn DEF Schedule
<1>10. CASE EnableDefault
  <2>1. task_list[Default] \in Object
    BY <1>10, RegisteredType, DeclarationAssumption DEF EnableDefault
  <2>2. calls' # << >>
    BY <1>10, <2>1, EnterFacts DEF EnableDefault
  <2>3. OptionsProgress'
    BY <1>10, <2>2 DEF EnableDefault, OptionsProgress
  <2> QED
    BY <1>10, <2>3, ExitInvGoesOn DEF EnableDefault
<1>11. CASE StartExecution \/ StartTask
  <2>1. OptionsProgress'
    BY <1>11, <1>a, OptionsProgressUnchanged DEF StartExecution, StartTask
  <2> QED
    BY <1>11, <2>1, ExitInvGoesOn DEF StartExecution, StartTask
<1>12. ASSUME NEW e \in ErrorType, TaskReturns(e) PROVE ExitInv'
  <2>1. OptionsProgress'
    BY <1>12, <1>a, OptionsProgressUnchanged DEF TaskReturns
  <2> QED
    BY <1>12, <2>1, ExitInvGoesOn DEF TaskReturns
<1>13. ASSUME NEW e \in ErrorType, NEW exception \in Exception,
              TaskThrows(e, exception)
       PROVE  ExitInv'
  <2>1. OptionsProgress'
    BY <1>13, <1>a, OptionsProgressUnchanged DEF TaskThrows, Exit
  <2> QED
    BY <1>13, <2>1 DEF TaskThrows, Exit, ExitInv, CleanExit
<1>14. CASE TaskAborts
  <2>1. OptionsProgress'
    BY <1>14, <1>a, OptionsProgressUnchanged DEF TaskAborts
  <2> QED
    BY <1>14, <2>1, ExitInvGoesOn DEF TaskAborts
<1>15. CASE EndExecution
  <2>1. OptionsProgress'
    BY <1>15, <1>a, OptionsProgressUnchanged DEF EndExecution, Exit
  <2>2. Len(ran) = Len(task_order)
    <3>1. Len(ran) = next - 1 /\ next > Len(task_order)
          /\ Len(ran) \in Nat /\ Len(task_order) \in Nat
          /\ DOMAIN ran = 1 .. Len(ran)
      BY <1>15 DEF EndExecution, RunInv, Progress, TypeOK
    <3>2. Len(ran) > 0 => Len(ran) <= Len(task_order)
      BY <3>1 DEF RunInv, RunsInOrder
    <3> QED
      BY <3>1, <3>2 DEF TypeOK
  <2> QED
    BY <1>15, <2>1, <2>2 DEF EndExecution, Exit, ExitInv, CleanExit
<1>16. CASE UNCHANGED vars
  BY <1>16 DEF vars, ExitInv, OptionsProgress, CleanExit
<1> QED
  BY <1>1, <1>2, <1>3, <1>4, <1>5, <1>6, <1>7, <1>8, <1>9, <1>10, <1>11,
     <1>12, <1>13, <1>14, <1>15, <1>16
     DEF Next, StaticNext, OptionsNext, ResolveNext, MainNext, Ended

\* Status 0 is only given when nothing was recorded and all was executed, or
\* on the exception that claims success, for every table and command line.
THEOREM StatusClean == Spec => []CleanExit
<1>1. Spec => []TypeOK /\ []ScheduleInv /\ []RunInv
  BY TypeCorrect, ScheduleInvInit, ScheduleInvNext, RunInvInit, RunInvNext, PTL
     DEF Spec
<1>2. ScheduleInv => QuietStart
  BY DEF ScheduleInv
<1>3. Spec => []ExitInv
  BY <1>1, <1>2, ExitInvInit, ExitInvNext, PTL DEF Spec
<1>4. ExitInv => CleanExit
  BY DEF ExitInv
<1> QED
  BY <1>3, <1>4, PTL

-----------------------------------------------------------------------------
(* The arguments the tasks use.                                            *)

\* A step that leaves the options and what was executed.
LEMMA ArgumentInvUnchanged ==
  ASSUME ArgumentInv, UNCHANGED <<options, ran>> PROVE ArgumentInv'
BY DEF ArgumentInv, Requests, options

LEMMA ArgumentInvInit == Init => ArgumentInv
BY DEF Init, ArgumentInv, Requests

LEMMA ArgumentInvOption ==
  ASSUME TypeOK, RunInv, ArgumentInv,
         NEW o \in Object, NEW a \in Argument \union {None}, Option(o, a)
  PROVE  ArgumentInv'
<1> USE DEF static, options, running
<1> DEFINE n == Len(asked)
<1>1. /\ n \in Nat
      /\ DOMAIN asked = 1 .. n /\ DOMAIN asked' = 1 .. n + 1
      /\ \A i \in 1 .. n : asked'[i] = asked[i]
      /\ asked'[n + 1] = <<o, a>>
  BY OptionFacts
<1>2. arg' = [arg EXCEPT ![o] = a] /\ arg \in [Object -> Argument \union {None}]
  BY DEF Option, TypeOK
<1>3. ran = << >> /\ ran' = << >>
  BY DEF Option, RunInv, Progress
<1> HIDE DEF n
<1>4. ASSUME NEW p \in Object
      PROVE  IF Requests(p)' = {} THEN arg'[p] = None
             ELSE \E k \in Requests(p)' :
                    asked'[k] = <<p, arg'[p]>> /\ \A j \in Requests(p)' : j <= k
  <2>1. CASE p = o
    <3>1. n + 1 \in Requests(p)'
      BY <1>1, <2>1 DEF Requests
    <3>2. asked'[n + 1] = <<p, arg'[p]>>
      BY <1>1, <1>2, <2>1
    <3>3. \A j \in Requests(p)' : j <= n + 1
      BY <1>1 DEF Requests
    <3> QED
      BY <3>1, <3>2, <3>3
  <2>2. CASE p # o
    <3>1. Requests(p)' = Requests(p)
      <4>1. asked'[n + 1][1] # p
        BY <1>1, <2>2
      <4>2. \A i \in 1 .. n + 1 : i # n + 1 => i \in 1 .. n
        BY <1>1
      <4>3. \A i \in 1 .. n : i \in 1 .. n + 1
        BY <1>1
      <4> QED
        BY <1>1, <4>1, <4>2, <4>3 DEF Requests
    <3>2. arg'[p] = arg[p]
      BY <1>2, <2>2
    <3>3. \A k \in Requests(p) : asked'[k] = asked[k]
      BY <1>1 DEF Requests
    <3> QED
      BY <3>1, <3>2, <3>3 DEF ArgumentInv
  <2> QED
    BY <2>1, <2>2
<1>5. DOMAIN ran' = {}
  BY <1>3
<1> QED
  BY <1>4, <1>5 DEF ArgumentInv

LEMMA ArgumentInvNext ==
  TypeOK /\ RunInv /\ ArgumentInv /\ [Next]_vars => ArgumentInv'
<1> SUFFICES ASSUME TypeOK, RunInv, ArgumentInv, [Next]_vars PROVE ArgumentInv'
  OBVIOUS
<1> USE DEF static, running
<1>1. ASSUME NEW o \in Object, Register(o) PROVE ArgumentInv'
  BY <1>1, ArgumentInvUnchanged DEF Register
<1>2. CASE EnterMain \/ BadUsage \/ Help
  BY <1>2, ArgumentInvUnchanged DEF EnterMain, BadUsage, Help
<1>3. ASSUME NEW o \in Object, NEW a \in Argument \union {None}, Option(o, a)
      PROVE  ArgumentInv'
  BY <1>3, ArgumentInvOption
<1>4. ASSUME NEW hasFile \in BOOLEAN, EndOptions(hasFile) PROVE ArgumentInv'
  BY <1>4, ArgumentInvUnchanged DEF EndOptions
<1>5. CASE ResolveNext
  BY <1>5, ArgumentInvUnchanged
     DEF ResolveNext, CallDependency, OverflowStack, NextDependency, Schedule
<1>6. CASE EnableDefault \/ StartExecution
  BY <1>6, ArgumentInvUnchanged DEF EnableDefault, StartExecution
<1>7. CASE StartTask
  <2> DEFINE t == task_order[next]
             n == Len(ran)
             entry == <<t, arg[t]>>
  <2>1. /\ ran' = Append(ran, entry)
        /\ UNCHANGED <<arg, asked>>
        /\ t \in Object
    BY <1>7 DEF StartTask, TypeOK, options
  <2>2. entry \in Object \X (Argument \union {None})
        /\ ran \in Seq(Object \X (Argument \union {None}))
    BY <2>1 DEF TypeOK
  <2>3. entry[1] = t /\ entry[2] = arg[t]
    OBVIOUS
  <2> HIDE DEF entry
  <2>4. /\ n \in Nat /\ DOMAIN ran = 1 .. n /\ DOMAIN ran' = 1 .. n + 1
        /\ \A i \in 1 .. n : ran'[i] = ran[i]
        /\ ran'[n + 1] = entry
    BY <2>1, <2>2, AppendFacts
  <2> HIDE DEF n, t
  <2>5. \A i \in 1 .. n + 1 : i # n + 1 => i \in 1 .. n
    BY <2>4
  <2>6. \A i \in DOMAIN ran' : ran'[i][2] = arg'[ran'[i][1]]
    BY <2>1, <2>3, <2>4, <2>5 DEF ArgumentInv
  <2>7. UNCHANGED <<arg, asked>>
    BY <2>1
  <2> QED
    BY <2>6, <2>7 DEF ArgumentInv, Requests
<1>8. ASSUME NEW e \in ErrorType, TaskReturns(e) PROVE ArgumentInv'
  BY <1>8, ArgumentInvUnchanged DEF TaskReturns
<1>9. ASSUME NEW e \in ErrorType, NEW exception \in Exception,
             TaskThrows(e, exception)
      PROVE  ArgumentInv'
  BY <1>9, ArgumentInvUnchanged DEF TaskThrows
<1>10. CASE TaskAborts \/ EndExecution
  BY <1>10, ArgumentInvUnchanged DEF TaskAborts, EndExecution
<1>11. CASE UNCHANGED vars
  BY <1>11, ArgumentInvUnchanged DEF vars, options
<1> QED
  BY <1>1, <1>2, <1>3, <1>4, <1>5, <1>6, <1>7, <1>8, <1>9, <1>10, <1>11
     DEF Next, StaticNext, OptionsNext, MainNext, Ended

\* A task one option names runs with the argument of that option, for any
\* number of options and of arguments.
THEOREM ArgumentsCorrect == Spec => []OwnArgument
<1>1. Spec => []ArgumentInv
  BY TypeCorrect, RunInvInit, RunInvNext, ArgumentInvInit, ArgumentInvNext, PTL
     DEF Spec
<1>2. TypeOK /\ ArgumentInv => OwnArgument
  <2> SUFFICES ASSUME TypeOK, ArgumentInv, NEW i \in DOMAIN ran,
                      NEW k \in Requests(ran[i][1]), Requests(ran[i][1]) = {k}
               PROVE  ran[i] = asked[k]
    BY DEF OwnArgument
  <2>1. ran[i] \in Object \X (Argument \union {None})
    BY DEF TypeOK
  <2>2. ran[i] = <<ran[i][1], arg[ran[i][1]]>> /\ ran[i][1] \in Object
    BY <2>1 DEF ArgumentInv
  <2>3. \E j \in Requests(ran[i][1]) : asked[j] = <<ran[i][1], arg[ran[i][1]]>>
    BY <2>2 DEF ArgumentInv
  <2> QED
    BY <2>2, <2>3
<1> QED
  BY <1>1, <1>2, TypeCorrect, PTL

-----------------------------------------------------------------------------
(* What runs was checked.                                                  *)

\* When every object is registered under its name the table holds them all.
LEMMA RegisteredRange ==
  ASSUME TypeOK, AllRegistered, pending = {}
  PROVE  Range(task_list) \ {None} = Object
<1>1. Range(task_list) \subseteq Object \union {None}
  BY DEF TypeOK, Range
<1>2. ASSUME NEW o \in Object PROVE o \in Range(task_list) \ {None}
  <2>1. decl[o].name \in DOMAIN task_list
    BY DEF TypeOK, DeclarationType
  <2>2. task_list[decl[o].name] = o
    BY DEF AllRegistered
  <2> QED
    BY <2>1, <2>2, DeclarationAssumption DEF Range
<1> QED
  BY <1>1, <1>2

\* A step that does not touch the table, the list, the records or the options.
LEMMA SoundInvUnchanged ==
  ASSUME SoundInv,
         UNCHANGED <<decl, pending, task_list, task_order, calls, asked, ran>>,
         phase # "static", phase' # "static",
         phase' = "options" => phase = "options" /\ error' = error,
         phase' \in {"ready", "execute"} => phase \in {"ready", "execute"}
  PROVE  SoundInv'
<1>1. UNCHANGED <<AllRegistered, AllKnown, RunsOnlyWhenSound>>
  BY DEF AllRegistered, AllKnown, KnownDependencies, Dependencies, Registered,
         RunsOnlyWhenSound
<1> QED
  BY <1>1 DEF SoundInv

\* Entering a task records an error when a dependency of it is unknown.
LEMMA AllKnownEnter ==
  ASSUME TypeOK, AllKnown, NEW o \in Object, Enter(o),
         UNCHANGED <<decl, task_list, task_order>>, error' = success
  PROVE  AllKnown' /\ error = success
<1>1. KnownDependencies(o)
  BY DEF Enter, KnownDependencies, Mark, success, failure
<1>2. error = success
  BY DEF Enter, Mark, success, failure
<1>3. /\ DOMAIN calls' = 1 .. Len(calls) + 1 /\ DOMAIN calls = 1 .. Len(calls)
      /\ \A i \in 1 .. Len(calls) : calls'[i] = calls[i]
      /\ calls'[Len(calls) + 1].task = o
      /\ Len(calls) \in Nat
  BY EnterFacts
<1>4. ASSUME NEW k \in DOMAIN calls' PROVE KnownDependencies(calls'[k].task)
  <2>1. CASE k = Len(calls) + 1
    BY <1>1, <1>3, <2>1
  <2>2. CASE k # Len(calls) + 1
    <3>1. k \in DOMAIN calls /\ calls'[k] = calls[k]
      BY <1>3, <2>2
    <3> QED
      BY <3>1 DEF AllKnown
  <2> QED
    BY <2>1, <2>2
<1> QED
  BY <1>2, <1>4 DEF AllKnown, KnownDependencies, Dependencies, Registered

LEMMA SoundInvInit == Init => SoundInv
<1> SUFFICES ASSUME Init PROVE SoundInv
  OBVIOUS
<1>1. DOMAIN calls = {} /\ Range(task_order) = {} /\ ran = << >>
  BY DEF Init, Range
<1>2. Object \ pending = {} /\ phase = "static"
  BY DEF Init
<1> QED
  BY <1>1, <1>2 DEF SoundInv, AllRegistered, AllKnown, RunsOnlyWhenSound

LEMMA SoundInvNext ==
  TypeOK /\ QuietStart /\ RunInv /\ OptionsProgress /\ SoundInv /\ [Next]_vars
    => SoundInv'
<1> SUFFICES ASSUME TypeOK, QuietStart, RunInv, OptionsProgress, SoundInv,
                    [Next]_vars
             PROVE  SoundInv'
  OBVIOUS
<1> USE DEF static, options, running
<1>a. phase \in {"static", "options", "ready"} => ran = << >>
  BY DEF RunInv, Progress
<1>1. ASSUME NEW o \in Object, Register(o) PROVE SoundInv'
  <2>1. phase = "static" /\ phase' = "static"
        /\ UNCHANGED <<decl, task_order, calls, asked, ran>>
        /\ pending' = pending \ {o}
    BY <1>1 DEF Register
  <2>2. DOMAIN calls' = {} /\ Range(task_order') = {} /\ ran' = << >>
    BY <2>1 DEF QuietStart, Range
  <2>3. ASSUME error' = success PROVE AllRegistered'
    <3>1. ~Registered(decl[o].name)
          /\ task_list' = [task_list EXCEPT ![decl[o].name] = o]
      BY <1>1, <2>3 DEF Register, Mark, success, failure
    <3>2. AllRegistered
      BY <1>1, <2>1, <2>3, <3>1 DEF Register, SoundInv
    <3>3. ASSUME NEW p \in Object, p \notin pending PROVE task_list'[decl[p].name] = p
      <4>1. task_list[decl[p].name] = p /\ p # None
        BY <3>2, <3>3, DeclarationAssumption DEF AllRegistered
      <4>2. decl[p].name # decl[o].name
        BY <3>1, <4>1 DEF Registered
      <4>3. decl[p].name \in Name
        BY DEF TypeOK, DeclarationType
      <4> QED
        BY <3>1, <4>1, <4>2, <4>3 DEF TypeOK
    <3>4. task_list'[decl[o].name] = o
      <4>1. decl[o].name \in DOMAIN task_list
        BY DEF TypeOK, DeclarationType
      <4> QED
        BY <3>1, <4>1
    <3> QED
      BY <2>1, <3>3, <3>4 DEF AllRegistered
  <2>4. AllKnown' /\ RunsOnlyWhenSound'
    BY <2>2 DEF AllKnown, RunsOnlyWhenSound
  <2> QED
    BY <2>1, <2>3, <2>4 DEF SoundInv
<1>2. CASE EnterMain
  <2>1. UNCHANGED <<AllRegistered, AllKnown, RunsOnlyWhenSound>>
    BY <1>2 DEF EnterMain, AllRegistered, AllKnown, KnownDependencies,
                Dependencies, Registered, RunsOnlyWhenSound
  <2> QED
    BY <1>2, <2>1 DEF EnterMain, SoundInv
<1>3. CASE BadUsage \/ Help
  BY <1>3, SoundInvUnchanged DEF BadUsage, Help, Exit
<1>4. ASSUME NEW o \in Object, NEW a \in Argument \union {None}, Option(o, a)
      PROVE  SoundInv'
  <2>1. /\ Enter(o) /\ phase = "options" /\ phase' = "options" /\ ran' = << >>
        /\ UNCHANGED <<decl, pending, task_list, task_order>>
    BY <1>4, <1>a DEF Option
  <2>2. ASSUME error' = success PROVE AllRegistered' /\ AllKnown'
    <3>1. error = success
      BY <2>1, <2>2 DEF Enter, Mark, success, failure
    <3>2. AllRegistered /\ AllKnown
      BY <2>1, <3>1 DEF SoundInv
    <3>3. AllKnown'
      BY <2>1, <2>2, <3>2, AllKnownEnter
    <3> QED
      BY <2>1, <3>2, <3>3 DEF AllRegistered
  <2> QED
    BY <2>1, <2>2 DEF SoundInv, RunsOnlyWhenSound
<1>5. ASSUME NEW hasFile \in BOOLEAN, EndOptions(hasFile) PROVE SoundInv'
  <2>1. CASE phase' = "exited"
    BY <1>5, <2>1, SoundInvUnchanged DEF EndOptions
  <2>2. CASE phase' # "exited"
    <3>1. /\ phase = "options" /\ phase' = "ready" /\ error = success
          /\ calls = << >>
          /\ UNCHANGED <<decl, pending, task_list, task_order, calls, asked, ran>>
      BY <1>5, <2>2 DEF EndOptions, Exit
    <3>2. UNCHANGED <<AllRegistered, AllKnown, RunsOnlyWhenSound>>
      BY <3>1 DEF AllRegistered, AllKnown, KnownDependencies, Dependencies,
                  Registered, RunsOnlyWhenSound
    <3> QED
      BY <3>1, <3>2 DEF SoundInv
  <2> QED
    BY <2>1, <2>2
<1>6. CASE CallDependency
  <2>1. PICK d \in Name : /\ AtDependency(d) /\ NeedsCall(d)
                          /\ Enter(task_list[d])
                          /\ UNCHANGED <<static, task_order, asked, phase, ran>>
    BY <1>6 DEF CallDependency
  <2>2. task_list[d] \in Object /\ calls # << >>
        /\ phase \in {"options", "ready"} /\ ran' = << >>
    BY <1>a, <2>1, RegisteredType DEF NeedsCall, AtDependency
  <2>3. CASE phase = "ready"
    BY <2>1, <2>2, <2>3 DEF SoundInv, RunsOnlyWhenSound
  <2>4. CASE phase = "options"
    <3>1. ASSUME error' = success PROVE AllRegistered' /\ AllKnown'
      <4>1. error = success
        BY <2>1, <3>1 DEF Enter, Mark, success, failure
      <4>2. AllRegistered /\ AllKnown
        BY <2>4, <4>1 DEF SoundInv
      <4>3. AllKnown'
        BY <2>1, <2>2, <3>1, <4>2, AllKnownEnter
      <4> QED
        BY <2>1, <4>2, <4>3 DEF AllRegistered
    <3> QED
      BY <2>1, <2>2, <2>4, <3>1 DEF SoundInv, RunsOnlyWhenSound
  <2> QED
    BY <2>2, <2>3, <2>4
<1>7. CASE OverflowStack
  BY <1>7, SoundInvUnchanged DEF OverflowStack, AtDependency
<1>8. CASE NextDependency
  <2>1. /\ phase \in {"options", "ready"} /\ calls # << >> /\ ran' = << >>
        /\ UNCHANGED <<decl, pending, task_list, task_order, asked, phase, error>>
    BY <1>8, <1>a DEF NextDependency, AtDependency
  <2>2. AllKnown => AllKnown'
    BY <1>8, <2>1, NextDependencyFacts
       DEF AllKnown, KnownDependencies, Dependencies, Registered
  <2>3. AllRegistered => AllRegistered'
    BY <2>1 DEF AllRegistered
  <2> QED
    BY <2>1, <2>2, <2>3 DEF SoundInv, RunsOnlyWhenSound
<1>9. CASE Schedule
  <2>1. /\ phase \in {"options", "ready"} /\ calls # << >> /\ ran' = << >>
        /\ UNCHANGED <<decl, pending, task_list, asked, phase, error>>
    BY <1>9, <1>a DEF Schedule
  <2>2. ASSUME AllKnown PROVE AllKnown'
    <3> DEFINE n == Len(calls)
    <3>1. /\ n \in Nat \ {0} /\ DOMAIN calls = 1 .. n /\ DOMAIN calls' = 1 .. n - 1
          /\ Range(task_order') = Range(task_order) \union {calls[n].task}
          /\ \A i \in 1 .. n - 1 : calls'[i] = calls[i]
      BY <1>9, ScheduleFacts
    <3> HIDE DEF n
    <3>2. \A i \in 1 .. n - 1 : i \in 1 .. n
      BY <3>1
    <3>3. KnownDependencies(calls[n].task)
      BY <2>2, <3>1 DEF AllKnown
    <3>4. /\ \A o \in Range(task_order') : KnownDependencies(o)
          /\ \A k \in DOMAIN calls' : KnownDependencies(calls'[k].task)
      BY <2>2, <3>1, <3>2, <3>3 DEF AllKnown
    <3> QED
      BY <2>1, <3>4 DEF AllKnown, KnownDependencies, Dependencies, Registered
  <2>3. AllRegistered => AllRegistered'
    BY <2>1 DEF AllRegistered
  <2> QED
    BY <2>1, <2>2, <2>3 DEF SoundInv, RunsOnlyWhenSound
<1>10. CASE EnableDefault
  <2>1. asked = << >> /\ asked' = << >> /\ phase' = "ready"
        /\ pending' = pending /\ phase = "ready"
    BY <1>10 DEF EnableDefault, OptionsProgress
  <2> QED
    BY <2>1 DEF SoundInv, RunsOnlyWhenSound
<1>11. CASE StartExecution
  BY <1>11, SoundInvUnchanged DEF StartExecution
<1>12. CASE StartTask
  <2>1. /\ phase = "execute" /\ phase' = "execute"
        /\ UNCHANGED <<decl, pending, task_list, task_order, calls, asked>>
    BY <1>12 DEF StartTask
  <2>2. UNCHANGED <<AllRegistered, AllKnown>>
    BY <2>1 DEF AllRegistered, AllKnown, KnownDependencies, Dependencies, Registered
  <2>3. ASSUME asked # << >>
        PROVE  /\ Range(task_list) \ {None} = Object
               /\ \A o \in Range(task_order) : \A d \in Dependencies(o) : Registered(d)
    <3>1. AllRegistered /\ AllKnown /\ pending = {}
      BY <2>1, <2>3 DEF SoundInv
    <3> QED
      BY <3>1, RegisteredRange DEF AllKnown, KnownDependencies
  <2>4. RunsOnlyWhenSound'
    BY <2>1, <2>3 DEF RunsOnlyWhenSound, Dependencies, Registered
  <2> QED
    BY <2>1, <2>2, <2>4 DEF SoundInv
<1>13. ASSUME NEW e \in ErrorType, TaskReturns(e) PROVE SoundInv'
  BY <1>13, SoundInvUnchanged DEF TaskReturns
<1>14. ASSUME NEW e \in ErrorType, NEW exception \in Exception,
              TaskThrows(e, exception)
       PROVE  SoundInv'
  BY <1>14, SoundInvUnchanged DEF TaskThrows, Exit
<1>15. CASE TaskAborts \/ EndExecution
  BY <1>15, SoundInvUnchanged DEF TaskAborts, EndExecution, Exit
<1>16. CASE UNCHANGED vars
  <2>1. UNCHANGED <<AllRegistered, AllKnown, RunsOnlyWhenSound>>
    BY <1>16 DEF vars, AllRegistered, AllKnown, KnownDependencies, Dependencies,
                 Registered, RunsOnlyWhenSound
  <2> QED
    BY <1>16, <2>1 DEF vars, SoundInv
<1> QED
  BY <1>1, <1>2, <1>3, <1>4, <1>5, <1>6, <1>7, <1>8, <1>9, <1>10, <1>11,
     <1>12, <1>13, <1>14, <1>15, <1>16
     DEF Next, StaticNext, OptionsNext, ResolveNext, MainNext, Ended

\* No task selected by the user runs when an object was registered twice or
\* depends on a name nobody has, for every table.
THEOREM OnlySoundRuns == Spec => []RunsOnlyWhenSound
<1>1. Spec => []TypeOK /\ []ScheduleInv /\ []RunInv
  BY TypeCorrect, ScheduleInvInit, ScheduleInvNext, RunInvInit, RunInvNext, PTL
     DEF Spec
<1>2. ScheduleInv => QuietStart
  BY DEF ScheduleInv
<1>3. Spec => []ExitInv
  BY <1>1, <1>2, ExitInvInit, ExitInvNext, PTL DEF Spec
<1>4. ExitInv => OptionsProgress
  BY DEF ExitInv
<1>5. Spec => []SoundInv
  BY <1>1, <1>2, <1>3, <1>4, SoundInvInit, SoundInvNext, PTL DEF Spec
<1>6. SoundInv => RunsOnlyWhenSound
  BY DEF SoundInv
<1> QED
  BY <1>5, <1>6, PTL

-----------------------------------------------------------------------------
(* The depth-first search of resolve_dependencies, for every set of        *)
(* declarations without a cycle.                                           *)

(* Where the search is.                                                    *)

\* The loop of a new activation record visits dependencies of its task.
LEMMA WantedRange ==
  ASSUME TypeOK, NEW o \in Object
  PROVE  Range(Wanted(o)) \subseteq Dependencies(o)
<1> DEFINE deps == decl[o].deps
<1>1. deps \in Seq(Name)
  BY DEF TypeOK, DeclarationType
<1>2. Range(<< >>) = {}
  BY DEF Range
<1>3. deps # << >> => Range(<<Head(deps)>>) \subseteq Range(deps)
  <2>1. deps # << >> => Range(deps) = {Head(deps)} \union Range(Tail(deps))
    BY <1>1, HeadTailRange
  <2>2. Range(<<Head(deps)>>) = {Head(deps)}
    BY DEF Range
  <2> QED
    BY <2>1, <2>2
<1> QED
  BY <1>2, <1>3 DEF Wanted, Dependencies

\* The name of a task that is being resolved is a name.
LEMMA NamedType ==
  ASSUME TypeOK, NEW k \in DOMAIN calls
  PROVE  calls[k].task \in Object /\ Named(k) \in Name
<1>1. calls[k] \in Frame
  BY DEF TypeOK
<1>2. calls[k].task \in Object
  BY <1>1 DEF Frame
<1> QED
  BY <1>2 DEF Named, TypeOK, DeclarationType

\* A table without a cycle has ranks.
LEMMA AcyclicRanks ==
  ASSUME decl \in Acyclic
  PROVE  \E rank \in [Name -> Nat] : RankedBy(rank, decl)
BY DeclarationAssumption DEF Acyclic

\* A step that changes neither the table, the list nor the records.
LEMMA SearchInvUnchanged ==
  ASSUME SearchInv, UNCHANGED <<decl, task_list, task_order, calls>>
  PROVE  SearchInv'
BY DEF SearchInv, Registered, Dependencies, Named

\* A step that enters a task, from the outside or from the task above it.
LEMMA SearchInvEnter ==
  ASSUME TypeOK, SearchInv, NEW o \in Object, Enter(o),
         UNCHANGED <<decl, task_list, task_order>>,
         \/ calls = << >>
         \/ /\ calls # << >> /\ o \notin Range(task_order)
            /\ \E d \in Dependencies(Last(calls).task) : Registered(d) /\ o = task_list[d]
  PROVE  SearchInv'
<1> DEFINE n == Len(calls)
<1>1. /\ n \in Nat
      /\ DOMAIN calls = 1 .. n
      /\ DOMAIN calls' = 1 .. n + 1
      /\ \A i \in 1 .. n : calls'[i] = calls[i]
      /\ calls'[n + 1].task = o
      /\ calls'[n + 1].rest = Wanted(o)
  BY EnterFacts
<1>2. n = 0 \/ (n \in 1 .. n /\ Last(calls) = calls[n])
  <2>1. calls # << >> => Last(calls) = calls[n] /\ n \in Nat \ {0}
    BY FrontLast DEF TypeOK
  <2>2. calls = << >> => n = 0
    OBVIOUS
  <2> QED
    BY <2>1, <2>2
<1>3. n # 0 => /\ o \notin Range(task_order)
               /\ decl[o].name \in Dependencies(calls[n].task)
  <2> SUFFICES ASSUME n # 0
               PROVE  o \notin Range(task_order)
                      /\ decl[o].name \in Dependencies(calls[n].task)
    OBVIOUS
  <2>0. calls # << >>
    OBVIOUS
  <2>1. PICK d \in Dependencies(Last(calls).task) : Registered(d) /\ o = task_list[d]
    BY <2>0
  <2>2. calls[n].task \in Object
    BY <1>1, <1>2, NamedType
  <2>3. d \in Name
    BY <1>2, <2>1, <2>2 DEF Dependencies, TypeOK, DeclarationType, Range
  <2>4. decl[o].name = d
    BY <2>1, <2>3 DEF SearchInv
  <2> QED
    BY <1>2, <2>0, <2>1, <2>4
<1> HIDE DEF n
<1>a. \A k \in 1 .. n + 1 : k = n + 1 \/ k \in 1 .. n
  BY <1>1
<1>4. \A m \in Name : Registered(m)' => decl'[task_list'[m]].name = m
  BY DEF SearchInv, Registered
<1>5. ASSUME NEW k \in DOMAIN calls'
      PROVE  Range(calls'[k].rest) \subseteq Dependencies(calls'[k].task)
  <2>1. CASE k = n + 1
    BY <1>1, <2>1, WantedRange
  <2>2. CASE k # n + 1
    BY <1>1, <1>a, <2>2 DEF SearchInv
  <2> QED
    BY <2>1, <2>2
<1>6. ASSUME decl \in Acyclic, NEW k \in DOMAIN calls', k > 1
      PROVE  calls'[k].task \notin Range(task_order)
  <2>1. CASE k = n + 1
    BY <1>1, <1>3, <1>6, <2>1
  <2>2. CASE k # n + 1
    BY <1>1, <1>6, <1>a, <2>2 DEF SearchInv
  <2> QED
    BY <2>1, <2>2
<1>7. ASSUME NEW rank \in [Name -> Nat], RankedBy(rank, decl),
             NEW j \in DOMAIN calls', NEW k \in DOMAIN calls', j < k
      PROVE  rank[Named(k)'] < rank[Named(j)']
  <2>1. j \in 1 .. n /\ Named(j)' = Named(j) /\ Named(j) \in Name
    BY <1>1, <1>7, <1>a, NamedType DEF Named
  <2>2. CASE k # n + 1
    BY <1>1, <1>7, <1>a, <2>1, <2>2 DEF SearchInv, Named
  <2>3. CASE k = n + 1
    <3>1. Named(k)' = decl[o].name /\ decl[o].name \in Name
      BY <1>1, <2>3 DEF Named, TypeOK, DeclarationType
    <3>2. n \in 1 .. n /\ calls[n].task \in Object /\ Named(n) \in Name
      BY <1>1, <1>2, <2>1, NamedType
    <3>3. rank[decl[o].name] < rank[Named(n)]
      <4>1. decl[o].name \in Range(decl[calls[n].task].deps)
        BY <1>3, <1>1, <2>1 DEF Dependencies
      <4>2. DOMAIN decl = Object
        BY DEF TypeOK, DeclarationType
      <4> QED
        BY <1>7, <3>2, <4>1, <4>2 DEF RankedBy, Named
    <3>4. j = n \/ rank[Named(n)] < rank[Named(j)]
      <4>1. j # n => j < n
        BY <1>1, <2>1
      <4> QED
        BY <1>1, <1>7, <2>1, <3>2, <4>1 DEF SearchInv
    <3>5. /\ rank[decl[o].name] \in Nat /\ rank[Named(n)] \in Nat
          /\ rank[Named(j)] \in Nat
      BY <2>1, <3>1, <3>2
    <3>6. \A a, b, c \in Nat : a < b /\ b < c => a < c
      OBVIOUS
    <3>7. rank[decl[o].name] < rank[Named(j)]
      BY <3>3, <3>4, <3>5, <3>6
    <3> QED
      BY <2>1, <3>1, <3>7
  <2> QED
    BY <2>2, <2>3
<1>8. decl' \in Declaration
  BY DEF SearchInv
<1>9. \A k \in DOMAIN calls' : (Range(calls[k].rest) \subseteq Dependencies(calls[k].task))'
  BY <1>5 DEF Dependencies
<1> QED
  BY <1>4, <1>6, <1>7, <1>8, <1>9 DEF SearchInv

LEMMA SearchInvInit == Init => SearchInv
<1> SUFFICES ASSUME Init PROVE SearchInv
  OBVIOUS
<1>1. DOMAIN calls = {} /\ \A n \in Name : ~Registered(n)
  BY DEF Init, Registered
<1> QED
  BY <1>1 DEF Init, SearchInv

LEMMA SearchInvNext ==
  TypeOK /\ QuietStart /\ SearchInv /\ [Next]_vars => SearchInv'
<1> SUFFICES ASSUME TypeOK, QuietStart, SearchInv, [Next]_vars PROVE SearchInv'
  OBVIOUS
<1> USE DEF static, options, running
<1>1. ASSUME NEW o \in Object, Register(o) PROVE SearchInv'
  <2>1. DOMAIN calls' = {} /\ decl' = decl
    BY <1>1 DEF Register, QuietStart
  <2>2. ASSUME NEW n \in Name, task_list'[n] # None
        PROVE  decl[task_list'[n]].name = n
    <3>1. CASE task_list' = task_list
      BY <2>2, <3>1 DEF SearchInv, Registered
    <3>2. CASE task_list' = [task_list EXCEPT ![decl[o].name] = o]
      BY <2>2, <3>2 DEF SearchInv, Registered, TypeOK
    <3> QED
      BY <1>1, <3>1, <3>2 DEF Register
  <2> QED
    BY <2>1, <2>2 DEF SearchInv, Registered
<1>2. CASE EnterMain \/ BadUsage \/ Help
  BY <1>2, SearchInvUnchanged DEF EnterMain, BadUsage, Help
<1>3. ASSUME NEW o \in Object, NEW a \in Argument \union {None}, Option(o, a)
      PROVE  SearchInv'
  BY <1>3, SearchInvEnter DEF Option
<1>4. ASSUME NEW hasFile \in BOOLEAN, EndOptions(hasFile) PROVE SearchInv'
  BY <1>4, SearchInvUnchanged DEF EndOptions
<1>5. CASE CallDependency
  <2>1. PICK d \in Name : /\ AtDependency(d) /\ NeedsCall(d)
                          /\ Enter(task_list[d])
                          /\ UNCHANGED <<static, task_order>>
    BY <1>5 DEF CallDependency
  <2>2. task_list[d] \in Object /\ Registered(d)
        /\ task_list[d] \notin Range(task_order)
    BY <2>1, RegisteredType, ScheduledRange DEF NeedsCall
  <2>3. calls \in Seq(Frame) /\ calls # << >> /\ Last(calls).rest # << >>
        /\ d = Head(Last(calls).rest)
    BY <2>1 DEF AtDependency, TypeOK
  <2>4. Last(calls) = calls[Len(calls)] /\ Last(calls) \in Frame
        /\ Len(calls) \in Nat \ {0} /\ DOMAIN calls = 1 .. Len(calls)
    BY <2>3, FrontLast
  <2>5. d \in Range(Last(calls).rest)
    BY <2>3, <2>4, HeadTailRange DEF Frame
  <2>6. d \in Dependencies(Last(calls).task)
    BY <2>4, <2>5 DEF SearchInv
  <2> QED
    BY <2>1, <2>2, <2>3, <2>6, SearchInvEnter
<1>6. CASE OverflowStack
  BY <1>6, SearchInvUnchanged DEF OverflowStack
<1>7. CASE NextDependency
  <2>1. UNCHANGED <<decl, task_list, task_order>>
    BY <1>7 DEF NextDependency
  <2>2. /\ DOMAIN calls' = DOMAIN calls
        /\ \A i \in DOMAIN calls :
             /\ calls'[i].task = calls[i].task
             /\ Range(calls'[i].rest) \subseteq Range(calls[i].rest)
    BY <1>7, NextDependencyFacts
  <2>3. \A k \in DOMAIN calls' : (Range(calls[k].rest) \subseteq Dependencies(calls[k].task))'
    BY <2>1, <2>2 DEF SearchInv, Dependencies
  <2>4. \A k \in DOMAIN calls' : Named(k)' = Named(k)
    BY <2>1, <2>2 DEF Named
  <2> QED
    BY <2>1, <2>2, <2>3, <2>4 DEF SearchInv, Registered
<1>8. CASE Schedule
  <2> DEFINE n == Len(calls)
             t == calls[n].task
  <2>1. /\ n \in Nat \ {0} /\ DOMAIN calls = 1 .. n /\ DOMAIN calls' = 1 .. n - 1
        /\ Range(task_order') = Range(task_order) \union {t}
        /\ \A i \in 1 .. n - 1 : calls'[i] = calls[i]
    BY <1>8, ScheduleFacts
  <2>2. UNCHANGED <<decl, task_list>>
    BY <1>8 DEF Schedule
  <2> HIDE DEF n
  <2>3. ASSUME NEW k \in 1 .. n - 1 PROVE k \in 1 .. n
    BY <2>1
  <2>4. ASSUME decl \in Acyclic, NEW k \in 1 .. n - 1 PROVE calls[k].task # t
    <3>0. PICK rank \in [Name -> Nat] : RankedBy(rank, decl)
      BY <2>4, AcyclicRanks
    <3>1. k \in DOMAIN calls /\ n \in DOMAIN calls /\ k < n
      BY <2>1
    <3>2. rank[Named(n)] < rank[Named(k)]
      BY <3>0, <3>1 DEF SearchInv
    <3>3. rank[Named(n)] \in Nat
      BY <3>1, NamedType
    <3>4. \A i \in Nat : ~(i < i)
      OBVIOUS
    <3>5. Named(n) # Named(k)
      BY <3>2, <3>3, <3>4, Zenon
    <3> QED
      BY <2>1, <3>1, <3>5 DEF Named
  <2> HIDE DEF t
  <2>5. \A k \in DOMAIN calls' : k \in DOMAIN calls /\ calls'[k] = calls[k]
    BY <2>1, <2>3
  <2>6. decl \in Acyclic =>
          \A k \in DOMAIN calls' : k > 1 => calls'[k].task \notin Range(task_order')
    BY <2>1, <2>3, <2>4, <2>5 DEF SearchInv
  <2>7. \A k \in DOMAIN calls' : (Range(calls[k].rest) \subseteq Dependencies(calls[k].task))'
    BY <2>2, <2>5 DEF SearchInv, Dependencies
  <2>8. \A k \in DOMAIN calls' : Named(k)' = Named(k)
    BY <2>2, <2>5 DEF Named
  <2> QED
    BY <2>2, <2>5, <2>6, <2>7, <2>8 DEF SearchInv, Registered
<1>9. CASE EnableDefault
  <2>1. task_list[Default] \in Object
    BY <1>9, RegisteredType, DeclarationAssumption DEF EnableDefault
  <2> QED
    BY <1>9, <2>1, SearchInvEnter DEF EnableDefault
<1>10. CASE StartExecution \/ StartTask
  BY <1>10, SearchInvUnchanged DEF StartExecution, StartTask
<1>11. ASSUME NEW e \in ErrorType, TaskReturns(e) PROVE SearchInv'
  BY <1>11, SearchInvUnchanged DEF TaskReturns
<1>12. ASSUME NEW e \in ErrorType, NEW exception \in Exception,
              TaskThrows(e, exception)
       PROVE  SearchInv'
  BY <1>12, SearchInvUnchanged DEF TaskThrows
<1>13. CASE TaskAborts \/ EndExecution
  BY <1>13, SearchInvUnchanged DEF TaskAborts, EndExecution
<1>14. CASE UNCHANGED vars
  BY <1>14, SearchInvUnchanged DEF vars
<1> QED
  BY <1>1, <1>2, <1>3, <1>4, <1>5, <1>6, <1>7, <1>8, <1>9, <1>10, <1>11,
     <1>12, <1>13, <1>14
     DEF Next, StaticNext, OptionsNext, ResolveNext, MainNext, Ended

LEMMA SearchInvariant == Spec => []SearchInv
<1>1. Spec => []TypeOK /\ []ScheduleInv
  BY TypeCorrect, ScheduleInvInit, ScheduleInvNext, PTL DEF Spec
<1>2. ScheduleInv => QuietStart
  BY DEF ScheduleInv
<1>3. TypeOK /\ QuietStart /\ SearchInv /\ [Next]_vars => SearchInv'
  BY SearchInvNext
<1> QED
  BY <1>1, <1>2, <1>3, SearchInvInit, PTL DEF Spec

-----------------------------------------------------------------------------
(* Dependencies are scheduled once.                                        *)

\* Only the return of enable_task changes the list.
LEMMA OnlyScheduleAppends ==
  ASSUME [Next]_vars, task_order' # task_order PROVE Schedule
BY DEF Next, StaticNext, OptionsNext, ResolveNext, MainNext, Ended, vars,
       Register, EnterMain, BadUsage, Help, Option, EndOptions, CallDependency,
       OverflowStack, NextDependency, EnableDefault, StartExecution, StartTask,
       TaskReturns, TaskThrows, TaskAborts, EndExecution

\* For declarations without a cycle, resolving dependencies never schedules a
\* task a second time.
THEOREM SearchSchedulesOnce == Spec => DependenciesOnce
<1>1. TypeOK /\ SearchInv /\ [Next]_vars
        => (task_order' # task_order /\ decl \in Acyclic
              /\ Scheduled(Last(task_order')) => Len(calls) = 1)
  <2> SUFFICES ASSUME TypeOK, SearchInv, [Next]_vars, task_order' # task_order,
                      decl \in Acyclic, Scheduled(Last(task_order'))
               PROVE  Len(calls) = 1
    OBVIOUS
  <2>1. Schedule
    BY OnlyScheduleAppends
  <2> DEFINE n == Len(calls)
  <2>2. /\ n \in Nat \ {0} /\ DOMAIN calls = 1 .. n
        /\ Last(task_order') = calls[n].task
    BY <2>1, ScheduleFacts
  <2>3. calls[n].task \in Range(task_order)
    BY <2>2, ScheduledRange
  <2> HIDE DEF n
  <2>4. ~(n > 1)
    BY <2>2, <2>3 DEF SearchInv
  <2> QED
    BY <2>2, <2>4 DEF n
<1> QED
  BY <1>1, TypeCorrect, SearchInvariant, PTL DEF DependenciesOnce, Spec

-----------------------------------------------------------------------------
(* The list holds what was asked.                                          *)

\* The places of a sequence that hold an element of Q.
Places(s, Q) == {i \in DOMAIN s : s[i] \in Q}

\* Appending an element of Q makes one place more.
LEMMA PlacesAppend ==
  ASSUME NEW S, NEW s \in Seq(S), NEW e \in S, NEW Q
  PROVE  /\ Cardinality(Places(s, Q)) \in Nat
         /\ Cardinality(Places(Append(s, e), Q))
              = Cardinality(Places(s, Q)) + (IF e \in Q THEN 1 ELSE 0)
<1> DEFINE n == Len(s)
           r == Append(s, e)
<1>1. /\ n \in Nat /\ DOMAIN s = 1 .. n /\ DOMAIN r = 1 .. n + 1
      /\ \A i \in 1 .. n : r[i] = s[i]
      /\ r[n + 1] = e
  BY AppendFacts
<1> HIDE DEF n, r
<1>2. IsFiniteSet(1 .. n)
  BY <1>1, FS_Interval
<1>3. IsFiniteSet(Places(s, Q)) /\ Cardinality(Places(s, Q)) \in Nat
  <2>1. Places(s, Q) \in SUBSET (1 .. n)
    BY <1>1 DEF Places
  <2> QED
    BY <1>2, <2>1, FS_Subset, FS_CardinalityType
<1>4. \A i \in 1 .. n + 1 : i = n + 1 \/ i \in 1 .. n
  BY <1>1
<1>5. \A i \in 1 .. n : i \in 1 .. n + 1
  BY <1>1
<1>6. n + 1 \in 1 .. n + 1 /\ n + 1 \notin Places(s, Q)
  BY <1>1 DEF Places
<1>7. CASE e \in Q
  <2>1. Places(r, Q) = Places(s, Q) \union {n + 1}
    BY <1>1, <1>4, <1>5, <1>6, <1>7 DEF Places
  <2>2. Cardinality(Places(s, Q) \union {n + 1}) = Cardinality(Places(s, Q)) + 1
    BY <1>3, <1>6, FS_AddElement
  <2> QED
    BY <1>3, <1>7, <2>1, <2>2 DEF r
<1>8. CASE e \notin Q
  <2>1. Places(r, Q) = Places(s, Q)
    BY <1>1, <1>4, <1>5, <1>6, <1>8 DEF Places
  <2> QED
    BY <1>3, <1>8, <2>1 DEF r
<1> QED
  BY <1>7, <1>8

\* One more place in the list for the task that is scheduled.
LEMMA CopiesSchedule ==
  ASSUME TypeOK, Schedule, NEW o \in Object
  PROVE  /\ Cardinality(Copies(o)) \in Nat
         /\ Cardinality(Copies(o)') = Cardinality(Copies(o))
              + (IF calls[Len(calls)].task = o THEN 1 ELSE 0)
<1> DEFINE t == calls[Len(calls)].task
<1>1. task_order \in Seq(Object) /\ t \in Object /\ task_order' = Append(task_order, t)
  BY ScheduleFacts DEF TypeOK
<1>2. Copies(o) = Places(task_order, {o}) /\ Copies(o)' = Places(task_order', {o})
  BY DEF Copies, Places
<1> HIDE DEF t
<1>3. /\ Cardinality(Places(task_order, {o})) \in Nat
      /\ Cardinality(Places(Append(task_order, t), {o}))
           = Cardinality(Places(task_order, {o})) + (IF t \in {o} THEN 1 ELSE 0)
  BY <1>1, PlacesAppend
<1> QED
  BY <1>1, <1>2, <1>3 DEF t

\* One more request for the task an option names.
LEMMA RequestsOption ==
  ASSUME TypeOK, NEW p \in Object, NEW a \in Argument \union {None},
         Option(p, a), NEW o \in Object
  PROVE  /\ Cardinality(Requests(o)) \in Nat
         /\ Cardinality(Requests(o)') = Cardinality(Requests(o))
              + (IF p = o THEN 1 ELSE 0)
<1> DEFINE Q == Object \X (Argument \union {None})
           q == <<p, a>>
           R == {x \in Q : x[1] = o}
<1>1. asked \in Seq(Q) /\ q \in Q /\ asked' = Append(asked, q) /\ asked' \in Seq(Q)
  BY DEF TypeOK, Option
<1>2. Requests(o) = Places(asked, R) /\ Requests(o)' = Places(asked', R)
  <2> HIDE DEF Q
  <2> QED
    BY <1>1 DEF Requests, Places
<1>3. q \in R <=> p = o
  BY <1>1
<1> HIDE DEF q, Q, R
<1>4. /\ Cardinality(Places(asked, R)) \in Nat
      /\ Cardinality(Places(Append(asked, q), R))
           = Cardinality(Places(asked, R)) + (IF q \in R THEN 1 ELSE 0)
  BY <1>1, PlacesAppend
<1> QED
  BY <1>1, <1>2, <1>3, <1>4

\* How far the list is ahead of the requests.
Ahead(o) ==
  Cardinality(Copies(o)) + (IF Outermost(o) THEN 1 ELSE 0) - Cardinality(Requests(o))

\* The cardinalities are numbers.
LEMMA AheadType ==
  ASSUME TypeOK, NEW o \in Object
  PROVE  Cardinality(Copies(o)) \in Nat /\ Cardinality(Requests(o)) \in Nat
<1>1. /\ DOMAIN task_order = 1 .. Len(task_order) /\ Len(task_order) \in Nat
      /\ DOMAIN asked = 1 .. Len(asked) /\ Len(asked) \in Nat
  BY DEF TypeOK
<1>2. IsFiniteSet(DOMAIN task_order) /\ IsFiniteSet(DOMAIN asked)
  BY <1>1, FS_Interval
<1>3. Copies(o) \in SUBSET DOMAIN task_order /\ Requests(o) \in SUBSET DOMAIN asked
  BY DEF Copies, Requests
<1> QED
  BY <1>2, <1>3, FS_Subset, FS_CardinalityType

\* A step that changes neither the options, the list nor the outermost call.
LEMMA CountInvUnchanged ==
  ASSUME CountInv, UNCHANGED <<decl, task_order, calls, asked>>,
         phase' = "options" => phase = "options"
  PROVE  CountInv'
BY DEF CountInv, Outermost, Copies, Requests

LEMMA CountInvOption ==
  ASSUME TypeOK, OptionsProgress, CountInv,
         NEW p \in Object, NEW a \in Argument \union {None}, Option(p, a)
  PROVE  CountInv'
<1>1. Enter(p) /\ calls = << >> /\ phase = "options" /\ task_order' = task_order
  BY DEF Option
<1>2. /\ asked' # << >> /\ Last(asked') = <<p, a>> /\ calls' # << >>
      /\ calls'[1].task = p
  <2>1. Len(calls) = 0
    BY <1>1
  <2> QED
    BY <1>1, <2>1, EnterFacts, OptionFacts
<1>0. decl' = decl
  BY DEF Option, static
<1>3. ASSUME decl \in Acyclic, NEW o \in Object PROVE Ahead(o) \in {0, 1}
  <2>1. CASE asked # << >>
    BY <1>1, <1>3, <2>1 DEF CountInv, Ahead
  <2>2. CASE asked = << >>
    <3>1. Copies(o) = {} /\ Requests(o) = {} /\ ~Outermost(o)
      BY <1>1, <2>2 DEF OptionsProgress, Copies, Requests, Outermost
    <3>2. Ahead(o) = 0 + 0 - 0
      BY <3>1, FS_EmptySet DEF Ahead
    <3> QED
      BY <3>2
  <2> QED
    BY <2>1, <2>2
<1>4. ASSUME decl \in Acyclic, NEW o \in Object PROVE Ahead(o)' \in {0, 1}
  <2>1. Ahead(o) \in {0, 1} /\ ~Outermost(o) /\ (Outermost(o)' <=> p = o)
    BY <1>1, <1>2, <1>3, <1>4 DEF Outermost
  <2>2. Copies(o)' = Copies(o) /\ Cardinality(Copies(o)) \in Nat
    BY <1>1, AheadType DEF Copies
  <2>3. /\ Cardinality(Requests(o)) \in Nat
        /\ Cardinality(Requests(o)') = Cardinality(Requests(o))
             + (IF p = o THEN 1 ELSE 0)
    BY RequestsOption
  <2>4. Ahead(o) = Cardinality(Copies(o)) - Cardinality(Requests(o))
    BY <2>1, <2>2, <2>3 DEF Ahead
  <2>5. Ahead(o)' = Cardinality(Copies(o)) + (IF p = o THEN 1 ELSE 0)
                      - (Cardinality(Requests(o)) + (IF p = o THEN 1 ELSE 0))
    BY <2>1, <2>2, <2>3 DEF Ahead
  <2> QED
    BY <2>1, <2>2, <2>3, <2>4, <2>5
<1> QED
  BY <1>0, <1>2, <1>4 DEF CountInv, Ahead

\* Between the first and the last call of a search, the outermost one stays.
LEMMA CountInvInside ==
  ASSUME CountInv, UNCHANGED <<decl, task_order, asked, phase>>,
         calls # << >>, calls' # << >>, calls'[1].task = calls[1].task
  PROVE  CountInv'
BY DEF CountInv, Outermost, Copies, Requests

\* A task scheduled by the outermost call is the one that was asked; a task
\* scheduled by an inner call was in nobody's list and is not the outermost.
LEMMA CountInvSchedule ==
  ASSUME TypeOK, SearchInv, CountInv, Schedule
  PROVE  CountInv'
<1> SUFFICES ASSUME decl \in Acyclic, phase' = "options", asked' # << >>
             PROVE  CountInv'
  BY DEF CountInv, Schedule, static
<1> DEFINE n == Len(calls)
           t == calls[n].task
<1>1. /\ n \in Nat \ {0} /\ DOMAIN calls = 1 .. n /\ t \in Object
      /\ Last(task_order') = t
      /\ Len(calls') = n - 1
      /\ \A i \in 1 .. n - 1 : calls'[i] = calls[i]
      /\ calls \in Seq(Frame) /\ calls # << >> /\ calls' \in Seq(Frame)
  BY ScheduleFacts, FrontLast DEF Schedule, TypeOK
<1>2. phase = "options" /\ asked # << >> /\ asked' = asked
  BY DEF Schedule, options
<1>3. Last(asked)[1] = calls[1].task
  BY <1>1, <1>2 DEF CountInv
<1>4. calls' = << >> <=> n = 1
  BY <1>1
<1>5. Last(asked')[1] = IF calls' = << >> THEN Last(task_order') ELSE calls'[1].task
  <2>1. CASE n = 1
    BY <1>1, <1>2, <1>3, <1>4, <2>1
  <2>2. CASE n # 1
    <3>1. 1 \in 1 .. n - 1
      BY <1>1, <2>2
    <3> QED
      BY <1>1, <1>2, <1>3, <1>4, <2>2, <3>1
  <2> QED
    BY <2>1, <2>2
<1>6. ASSUME NEW o \in Object PROVE Ahead(o)' \in {0, 1}
  <2>1. Ahead(o) \in {0, 1}
    BY <1>2 DEF CountInv, Ahead
  <2>2. /\ Cardinality(Copies(o)) \in Nat
        /\ Cardinality(Copies(o)') = Cardinality(Copies(o))
             + (IF t = o THEN 1 ELSE 0)
    BY CopiesSchedule
  <2>3. Requests(o)' = Requests(o) /\ Cardinality(Requests(o)) \in Nat
    BY <1>2, AheadType DEF Requests
  <2> DEFINE c == Cardinality(Copies(o))
             r == Cardinality(Requests(o))
             out  == IF Outermost(o) THEN 1 ELSE 0
             out2 == IF Outermost(o)' THEN 1 ELSE 0
  <2>4. /\ Ahead(o) = c + out - r
        /\ Ahead(o)' = c + (IF t = o THEN 1 ELSE 0) + out2 - r
    BY <2>2, <2>3 DEF Ahead
  <2>5. CASE n = 1
    <3>1. (Outermost(o) <=> t = o) /\ ~Outermost(o)'
      BY <1>1, <1>4, <2>5 DEF Outermost
    <3>2. Ahead(o)' = Ahead(o)
      <4> HIDE DEF t
      <4>1. CASE t = o
        BY <2>2, <2>3, <2>4, <3>1, <4>1
      <4>2. CASE t # o
        BY <2>2, <2>3, <2>4, <3>1, <4>2
      <4> QED
        BY <4>1, <4>2
    <3> QED
      BY <2>1, <3>2
  <2>6. CASE n # 1
    <3>1. 1 \in 1 .. n - 1 /\ n \in DOMAIN calls /\ 1 \in DOMAIN calls
          /\ n > 1 /\ 1 < n
      BY <1>1, <2>6
    <3>2. Outermost(o)' <=> Outermost(o)
      BY <1>1, <1>4, <2>6, <3>1 DEF Outermost
    <3>3. CASE t # o
      BY <2>1, <2>2, <2>3, <2>4, <3>2, <3>3
    <3>4. CASE t = o
      <4>1. o \notin Range(task_order)
        BY <3>1, <3>4 DEF SearchInv
      <4>2. Copies(o) = {}
        BY <4>1 DEF Copies, Range
      <4>3. c = 0
        BY <4>2, FS_EmptySet
      <4>4. PICK rank \in [Name -> Nat] : RankedBy(rank, decl)
        BY AcyclicRanks
      <4>5. rank[Named(n)] < rank[Named(1)]
        BY <3>1, <4>4 DEF SearchInv
      <4>6. rank[Named(n)] \in Nat
        BY <3>1, NamedType
      <4>7. \A i \in Nat : ~(i < i)
        OBVIOUS
      <4>8. Named(n) # Named(1)
        BY <4>5, <4>6, <4>7, Zenon
      <4>9. ~Outermost(o)
        BY <3>4, <4>8 DEF Outermost, Named
      <4> QED
        BY <2>1, <2>2, <2>3, <2>4, <3>2, <3>4, <4>3, <4>9
    <3> QED
      BY <3>3, <3>4
  <2> QED
    BY <2>5, <2>6
<1> QED
  BY <1>5, <1>6 DEF CountInv, Ahead

LEMMA CountInvNext ==
  TypeOK /\ QuietStart /\ OptionsProgress /\ SearchInv /\ CountInv
    /\ [Next]_vars => CountInv'
<1> SUFFICES ASSUME TypeOK, QuietStart, OptionsProgress, SearchInv, CountInv,
                    [Next]_vars
             PROVE  CountInv'
  OBVIOUS
<1> USE DEF static, options, running
<1>1. ASSUME NEW o \in Object, Register(o) PROVE CountInv'
  BY <1>1, CountInvUnchanged DEF Register
<1>2. CASE EnterMain
  BY <1>2 DEF EnterMain, OptionsProgress, CountInv
<1>3. CASE BadUsage \/ Help
  BY <1>3, CountInvUnchanged DEF BadUsage, Help
<1>4. ASSUME NEW o \in Object, NEW a \in Argument \union {None}, Option(o, a)
      PROVE  CountInv'
  BY <1>4, CountInvOption
<1>5. ASSUME NEW hasFile \in BOOLEAN, EndOptions(hasFile) PROVE CountInv'
  BY <1>5, CountInvUnchanged DEF EndOptions, Exit
<1>6. CASE CallDependency
  <2>1. PICK d \in Name : /\ AtDependency(d) /\ NeedsCall(d)
                          /\ Enter(task_list[d])
                          /\ UNCHANGED <<decl, task_order, asked, phase>>
    BY <1>6 DEF CallDependency
  <2>2. task_list[d] \in Object /\ calls # << >> /\ calls \in Seq(Frame)
    BY <2>1, RegisteredType DEF NeedsCall, AtDependency, TypeOK
  <2>3. 1 \in 1 .. Len(calls)
    BY <2>2, FrontLast
  <2>4. calls' # << >> /\ calls'[1] = calls[1]
    BY <2>1, <2>2, <2>3, EnterFacts
  <2> QED
    BY <2>1, <2>2, <2>4, CountInvInside
<1>7. CASE OverflowStack
  BY <1>7, CountInvUnchanged DEF OverflowStack
<1>8. CASE NextDependency
  <2>1. UNCHANGED <<decl, task_order, asked, phase>>
    BY <1>8 DEF NextDependency
  <2>2. 1 \in DOMAIN calls /\ calls # << >> /\ calls' # << >>
        /\ calls'[1].task = calls[1].task
    BY <1>8, NextDependencyFacts
  <2> QED
    BY <2>1, <2>2, CountInvInside
<1>9. CASE Schedule
  BY <1>9, CountInvSchedule
<1>10. CASE EnableDefault
  BY <1>10 DEF EnableDefault, CountInv
<1>11. CASE StartExecution \/ StartTask
  BY <1>11, CountInvUnchanged DEF StartExecution, StartTask
<1>12. ASSUME NEW e \in ErrorType, TaskReturns(e) PROVE CountInv'
  BY <1>12, CountInvUnchanged DEF TaskReturns
<1>13. ASSUME NEW e \in ErrorType, NEW exception \in Exception,
              TaskThrows(e, exception)
       PROVE  CountInv'
  BY <1>13, CountInvUnchanged DEF TaskThrows, Exit
<1>14. CASE TaskAborts \/ EndExecution
  BY <1>14, CountInvUnchanged DEF TaskAborts, EndExecution, Exit
<1>15. CASE UNCHANGED vars
  BY <1>15, CountInvUnchanged DEF vars
<1> QED
  BY <1>1, <1>2, <1>3, <1>4, <1>5, <1>6, <1>7, <1>8, <1>9, <1>10, <1>11,
     <1>12, <1>13, <1>14, <1>15
     DEF Next, StaticNext, OptionsNext, ResolveNext, MainNext, Ended

\* For declarations without a cycle, between two options the list holds every
\* task as often as it was asked for, or once more, and the last one at its end.
THEOREM ListHoldsWhatWasAsked == Spec => []AsOftenAsAsked
<1>1. Spec => []TypeOK /\ []ScheduleInv /\ []RunInv /\ []SearchInv
  BY TypeCorrect, ScheduleInvInit, ScheduleInvNext, RunInvInit, RunInvNext,
     SearchInvariant, PTL DEF Spec
<1>2. ScheduleInv => QuietStart
  BY DEF ScheduleInv
<1>3. Spec => []ExitInv
  BY <1>1, <1>2, ExitInvInit, ExitInvNext, PTL DEF Spec
<1>4. ExitInv => OptionsProgress
  BY DEF ExitInv
<1>5. Init => CountInv
  BY DEF Init, CountInv
<1>6. TypeOK /\ QuietStart /\ OptionsProgress /\ SearchInv /\ CountInv
        /\ [Next]_vars => CountInv'
  BY CountInvNext
<1>7. Spec => []CountInv
  BY <1>1, <1>2, <1>3, <1>4, <1>5, <1>6, PTL DEF Spec
<1>8. TypeOK /\ CountInv => AsOftenAsAsked
  <2> SUFFICES ASSUME TypeOK, CountInv, decl \in Acyclic, phase = "options",
                      calls = << >>, asked # << >>
               PROVE  /\ Last(task_order) = Last(asked)[1]
                      /\ \A o \in Object :
                           Cardinality(Copies(o)) - Cardinality(Requests(o)) \in {0, 1}
    BY DEF AsOftenAsAsked
  <2>1. ASSUME NEW o \in Object
        PROVE  Cardinality(Copies(o)) - Cardinality(Requests(o)) \in {0, 1}
    <3>1. /\ Cardinality(Copies(o)) \in Nat /\ Cardinality(Requests(o)) \in Nat
          /\ ~Outermost(o)
      BY AheadType DEF Outermost
    <3> QED
      BY <3>1 DEF CountInv
  <2> QED
    BY <2>1 DEF CountInv
<1> QED
  BY <1>1, <1>7, <1>8, PTL
=============================================================================
