--------------------------- MODULE PipelineProofs ---------------------------
(***************************************************************************)
(* Theorems about the compiler behind the task register.  Its steps are    *)
(* steps of the register, so what TaskRegisterProofs shows of a step holds *)
(* here too; the rest is about the statuses the tasks record.              *)
(***************************************************************************)
EXTENDS Pipeline, TaskRegisterProofs

-----------------------------------------------------------------------------
(* The compiler's steps are the register's.                                *)

\* The status task t records when it ends, on a tree without an error of its own.
Effect(t) ==
  IF t \in Detectors(source.fault) THEN StatusOf[source.fault] ELSE success

\* A running task returns or throws, with the status of its verdict on the
\* program unless its tree has an error of its own, or crashes; it never
\* changes the program.
LEMMA TaskEnds ==
  ASSUME source \in SourceType, error \in ErrorType, RunningTask
  PROVE  /\ source' = source
         /\ phase = "execute"
         /\ \E t : timer = <<t>>
         /\ \E e \in ErrorType :
              /\ Passes(tree) => e = Effect(timer[1])
              /\ TaskReturns(e) \/ TaskThrows(e, "error") \/ TaskAborts
<1> DEFINE Ends == \E e \in ErrorType :
                     /\ Passes(tree) => e = Effect(timer[1])
                     /\ TaskReturns(e) \/ TaskThrows(e, "error") \/ TaskAborts
           Goal == source' = source /\ phase = "execute" /\ (\E t : timer = <<t>>) /\ Ends
           Finders == {"parse", "bindings-compute", "object-bindings-compute",
                       "types-compute", "overfun-types-compute"}
<1> USE DEF Executing, Returns, Throws, Crashes, compiler
<1>0. source.fault \in Fault
  BY DEF SourceType
<1>e. {success, failure, scan, parse, bind, type} \subseteq ErrorType
  BY DEF ErrorType, success, failure, scan, parse, bind, type
<1>b. Passes(tree) => "unbound" \notin tree.perils /\ "untyped" \notin tree.perils
  BY DEF Passes, Broken
<1>t. ASSUME NEW e \in ErrorType, Passes(tree) => e = Effect(timer[1]),
             TaskReturns(e) \/ TaskThrows(e, "error") \/ TaskAborts
      PROVE  Ends
  BY <1>t
\* Most tasks find nothing.
<1> DEFINE Quietly ==
             /\ source' = source /\ phase = "execute"
             /\ \E t : timer = <<t>> /\ t \notin Finders
             /\ TaskReturns(success) \/ TaskThrows(success, "error") \/ TaskAborts
<1>r. ASSUME Quietly PROVE Goal
  <2>1. Effect(timer[1]) = success
    BY <1>r DEF Effect, Detectors
  <2> QED
    BY <1>r, <1>e, <2>1
<1> HIDE DEF Ends
<1>1. CASE Parse
  <2>1. source' = source /\ phase = "execute" /\ timer = <<"parse">>
    BY <1>1 DEF Parse
  <2>2. PICK e \in {success, scan, parse, failure} :
          /\ TaskReturns(e) \/ TaskThrows(e, "error")
          /\ e = IF source.fault \in {"missing", "syntax", "lexical"}
                 THEN StatusOf[source.fault] ELSE success
    BY <1>1 DEF Parse, StatusOf
  <2>3. e = Effect(timer[1])
    BY <1>0, <2>1, <2>2 DEF Effect, Detectors, Fault, StatusOf
  <2> QED
    BY <1>e, <1>t, <2>1, <2>2, <2>3
<1>2. CASE Bind \/ ObjectBind
  <2>1. source' = source /\ phase = "execute"
        /\ timer \in {<<"bindings-compute">>, <<"object-bindings-compute">>}
    BY <1>2 DEF Bind, ObjectBind
  <2>2. PICK e \in {bind, success} :
          /\ TaskReturns(e) \/ TaskThrows(e, "error")
          /\ e = IF BindFails THEN bind ELSE success
    BY <1>2 DEF Bind, ObjectBind
  <2>3. Passes(tree) => e = Effect(timer[1])
    BY <1>0, <1>b, <2>1, <2>2 DEF BindFails, Effect, Detectors, Fault, StatusOf
  <2> QED
    BY <1>e, <1>t, <2>1, <2>2, <2>3
<1>3. CASE CheckTypes
  <2>1. PICK t \in {"types-compute", "overfun-types-compute"} :
          phase = "execute" /\ timer = <<t>>
    BY <1>3 DEF CheckTypes
  <2> DEFINE e == IF source.fault = "type" \/ "untyped" \in tree.perils
                  THEN type ELSE success
  <2>2. Passes(tree) => e = Effect(timer[1])
    BY <1>0, <1>b, <2>1 DEF Effect, Detectors, Fault, StatusOf
  <2>3. e \in ErrorType
    BY <1>e
  <2>4. source' = source /\ (TaskReturns(e) \/ TaskThrows(e, "error") \/ TaskAborts)
    <3>1. Mark(error, e) = success => e = success
      BY <2>3 DEF Mark, ErrorType, success, type
    <3> QED
      BY <1>3, <3>1 DEF CheckTypes
  <2> HIDE DEF e
  <2> QED
    BY <1>t, <2>1, <2>2, <2>3, <2>4
<1>4. Rename \/ ObjectCheckTypes \/ ComputeEscapes \/ SetFlag \/ SetPrelude => Quietly
  BY DEF Rename, ObjectCheckTypes, ComputeEscapes, SetFlag, SetPrelude
<1>5. Desugar \/ RawDesugar \/ Inline \/ Rebuild \/ Clone => Quietly
  BY DEF Desugar, RawDesugar, Inline, Rebuild, Clone, Replace
<1>6. Translate \/ CombineBind \/ OverloadBind \/ PassiveTask => Quietly
  BY DEF Translate, CombineBind, OverloadBind, PassiveTask, Passive
<1>7. ASSUME NEW g \in Graph PROVE ComputeGraph(g) \/ DumpGraph(g) => Quietly
  BY DEF ComputeGraph, DumpGraph, ComputeTask, DumpTask, Graph
<1> HIDE DEF Quietly
<1>8. Quietly \/ Parse \/ Bind \/ ObjectBind \/ CheckTypes
  BY <1>4, <1>5, <1>6, <1>7 DEF RunningTask
<1> QED
  BY <1>1, <1>2, <1>3, <1>8, <1>r DEF Ends

\* A step of the compiler is a step of the register.
LEMMA StepsOfTheRegister ==
  TypeOK /\ source \in SourceType /\ [PipelineNext]_allVars => [Next]_vars
<1> SUFFICES ASSUME TypeOK, source \in SourceType, [PipelineNext]_allVars
             PROVE  [Next]_vars
  OBVIOUS
<1>1. CASE Driver
  BY <1>1, TableAssumption DEF Driver, Next, OptionsNext, MainNext
<1>2. CASE RunningTask
  <2>1. error \in ErrorType
    BY DEF TypeOK
  <2>2. PICK e \in ErrorType :
          TaskReturns(e) \/ TaskThrows(e, "error") \/ TaskAborts
    BY <1>2, <2>1, TaskEnds
  <2> QED
    BY <2>2 DEF Next, MainNext, Exception
<1> QED
  BY <1>1, <1>2 DEF PipelineNext, allVars

\* Every name is registered when main starts.
LEMMA PipelineTypeInit == PipelineInit => TypeOK /\ \A n \in Name : Registered(n)
<1> SUFFICES ASSUME PipelineInit PROVE TypeOK /\ \A n \in Name : Registered(n)
  OBVIOUS
<1>1. \A n \in Name : task_list[n] \in Object
  BY TableAssumption DEF PipelineInit
<1>2. decl \in DeclarationType
  BY DeclarationAssumption DEF PipelineInit
<1>3. task_list \in [Name -> Object \union {None}]
  BY <1>1 DEF PipelineInit
<1> QED
  BY <1>1, <1>2, <1>3, DeclarationAssumption
     DEF PipelineInit, TypeOK, Phase, ErrorType, success, type, Registered

-----------------------------------------------------------------------------
(* The exit status tells the error of the program.                         *)

LEMMA StatusInvInit == PipelineInit => StatusInv /\ TreeInv
<1> SUFFICES ASSUME PipelineInit PROVE StatusInv /\ TreeInv
  OBVIOUS
<1>1. ~Found /\ ~Misread
  BY DEF PipelineInit, Found, Ending, Misread, HasRun
<1>2. source \in SourceType
  BY SourceAssumption DEF PipelineInit
<1>3. StatusInv
  BY <1>1, <1>2, PipelineTypeInit DEF PipelineInit, StatusInv
<1>4. NoTree \in TreeType /\ NoTree.perils = {} /\ NoTree.compares = FALSE
  BY DEF NoTree, TreeType
<1>5. TreeInv
  BY <1>4 DEF PipelineInit, TreeInv, Passes
<1> QED
  BY <1>3, <1>5

\* What --raw-desugar may have spoilt stays so.
LEMMA MisreadStays ==
  ASSUME ran' = ran, source' = source
  PROVE  Misread' <=> Misread
BY DEF Misread, HasRun

\* A step that neither executes anything nor records or reports an error.
LEMMA StatusInvUnchanged ==
  ASSUME StatusInv,
         UNCHANGED <<source, task_list, ran, timer, error, exit>>,
         phase \notin {"crashed", "exited"},
         \/ phase' \in {phase, "crashed"}
         \/ timer = << >> /\ phase' # "exited"
  PROVE  StatusInv'
BY MisreadStays DEF StatusInv, Found, Ending, Registered, Detectors

\* A running task comes to its end, with its verdict recorded.
LEMMA FoundWhenEnded ==
  ASSUME TypeOK, StatusInv, ~Misread, phase = "execute", timer # << >>, ran # << >>,
         UNCHANGED <<source, ran>>,
         timer' = << >> \/ phase' = "exited",
         error' = Mark(error, Effect(timer[1]))
  PROVE  error' = IF Found' THEN StatusOf[source.fault] ELSE success
<1> DEFINE n == Len(ran)
<1>1. n \in Nat \ {0} /\ timer[1] = ran[n][1]
  BY DEF TypeOK, StatusInv
<1>2. Ending = n - 1 /\ Ending' = n
  BY DEF Ending
<1>3. Found' <=> Found \/ timer[1] \in Detectors(source.fault)
  BY <1>1, <1>2 DEF Found, Detectors
<1>4. error = IF Found THEN StatusOf[source.fault] ELSE success
  BY DEF StatusInv
<1>5. StatusOf[source.fault] \in ErrorType
  BY DEF StatusInv, StatusOf, SourceType, Fault, ErrorType, success,
         failure, scan, parse, bind, type
<1> QED
  BY <1>3, <1>4, <1>5 DEF Mark, Effect, ErrorType, success, type

\* Entering a task records nothing, its dependencies are known.
LEMMA StatusInvEnter ==
  ASSUME TypeOK, StatusInv, NEW o \in Object, Enter(o),
         UNCHANGED <<source, task_list, ran, timer, exit, phase>>,
         phase \in {"options", "ready"}
  PROVE  StatusInv'
<1>1. Dependencies(o) \subseteq Name
  BY DEF TypeOK, DeclarationType, Dependencies, Range
<1>2. error' = error
  BY <1>1 DEF Enter, StatusInv
<1> QED
  BY <1>2, StatusInvUnchanged

LEMMA StatusInvNext ==
  TypeOK /\ RunInv /\ StatusInv /\ TreeInv /\ [PipelineNext]_allVars => StatusInv'
<1> SUFFICES ASSUME TypeOK, RunInv, StatusInv, TreeInv, [PipelineNext]_allVars
             PROVE  StatusInv'
  OBVIOUS
<1> USE DEF static, options, running
<1>1. CASE Driver
  <2>0. source' = source
    BY <1>1 DEF Driver, compiler
  <2>1. ASSUME NEW o \in Object, NEW a \in Argument \union {None}, Option(o, a)
        PROVE  StatusInv'
    BY <2>0, <2>1, StatusInvEnter DEF Option
  <2>2. CASE EndOptions(TRUE)
    <3>1. Found' = Found
      BY <2>0, <2>2 DEF EndOptions, Exit, Found, Ending, Detectors
    <3> QED
      BY <2>0, <2>2, <3>1, MisreadStays DEF EndOptions, Exit, StatusInv, Registered
  <2>3. CASE CallDependency
    <3>1. PICK d \in Name : AtDependency(d) /\ Enter(task_list[d])
      BY <2>3 DEF CallDependency
    <3>2. task_list[d] \in Object
      BY RegisteredType DEF StatusInv
    <3> QED
      BY <2>0, <2>3, <3>1, <3>2, StatusInvEnter DEF CallDependency, AtDependency
  <2>4. CASE OverflowStack \/ NextDependency \/ Schedule
    BY <2>0, <2>4, StatusInvUnchanged
       DEF OverflowStack, NextDependency, Schedule, AtDependency
  <2>5. CASE EnableDefault
    BY <2>0, <2>5, StatusInvEnter, RegisteredType, DeclarationAssumption
       DEF EnableDefault
  <2>6. CASE StartExecution
    <3>1. error' = error /\ timer = << >> /\ phase' = "execute" /\ phase = "ready"
      BY <2>6, DeclarationAssumption
         DEF StartExecution, StatusInv, RunInv, Progress
    <3> QED
      BY <2>0, <2>6, <3>1, StatusInvUnchanged DEF StartExecution
  <2>7. CASE StartTask
    <3> DEFINE t == task_order[next]
               n == Len(ran)
    <3>1. t \in Object /\ n \in Nat /\ arg[t] \in Argument \union {None}
      BY <2>7 DEF StartTask, TypeOK
    <3>2. timer' = <<t>> /\ ran' = Append(ran, <<t, arg[t]>>)
      BY <2>7 DEF StartTask
    <3>3. /\ Len(ran') = n + 1 /\ ran'[n + 1] = <<t, arg[t]>>
          /\ \A i \in 1 .. n : ran'[i] = ran[i]
      BY <3>1, <3>2, AppendFacts DEF TypeOK
    <3>4. Ending = n /\ Ending' = n
      BY <2>7, <3>2, <3>3, <3>1 DEF StartTask, Ending
    <3>5. Found' = Found
      BY <2>0, <3>3, <3>4 DEF Found, Detectors
    <3>6. timer' = <<ran'[Len(ran')][1]>>
      BY <3>2, <3>3
    <3>7. Misread => Misread'
      <4>1. DOMAIN ran = 1 .. n /\ DOMAIN ran' = 1 .. n + 1
        BY <3>1, <3>2, <3>3 DEF TypeOK
      <4>2. HasRun("raw-desugar") => HasRun("raw-desugar")'
        BY <3>1, <3>3, <4>1 DEF HasRun
      <4> QED
        BY <2>0, <4>2 DEF Misread
    <3> QED
      BY <2>0, <2>7, <3>5, <3>6, <3>7 DEF StartTask, StatusInv, Registered
  <2>8. CASE EndExecution
    <3>1. Found' = Found
      BY <2>0, <2>8 DEF EndExecution, Exit, Found, Ending, Detectors
    <3> QED
      BY <2>0, <2>8, <3>1, MisreadStays DEF EndExecution, Exit, StatusInv, Registered
  <2>9. CASE Ended
    BY <2>0, <2>9, MisreadStays
       DEF Ended, vars, StatusInv, Found, Ending, Registered, Detectors
  <2> QED
    BY <1>1, <2>1, <2>2, <2>3, <2>4, <2>5, <2>6, <2>7, <2>8, <2>9, TableAssumption
       DEF Driver, ResolveNext
<1>2. CASE RunningTask
  <2>1. error \in ErrorType /\ source \in SourceType
    BY DEF TypeOK, StatusInv
  <2>2. source' = source /\ phase = "execute"
    BY <1>2, <2>1, TaskEnds
  <2>3. PICK e \in ErrorType :
          /\ Passes(tree) => e = Effect(timer[1])
          /\ TaskReturns(e) \/ TaskThrows(e, "error") \/ TaskAborts
    BY <1>2, <2>1, TaskEnds
  <2>4. timer # << >> /\ ran # << >>
    <3>1. \E t : timer = <<t>>
      BY <1>2, <2>1, TaskEnds
    <3> QED
      BY <3>1 DEF RunInv, Progress, TypeOK
  <2>l. timer \in Seq(Object) /\ Len(timer) = 1
    <3>1. \E t : timer = <<t>>
      BY <1>2, <2>1, TaskEnds
    <3> QED
      BY <3>1 DEF TypeOK
  <2>v. ~Misread => e = Effect(timer[1])
    BY <2>3 DEF TreeInv
  <2>5. CASE TaskReturns(e)
    <3>1. timer' = << >> /\ ran' = ran /\ error' = Mark(error, e)
      BY <2>l, <2>5, FrontOfOne DEF TaskReturns
    <3>2. Misread' <=> Misread
      BY <2>2, <3>1, MisreadStays
    <3>3. ~Misread => error' = IF Found' THEN StatusOf[source.fault] ELSE success
      BY <2>2, <2>4, <2>v, <3>1, FoundWhenEnded
    <3> QED
      BY <2>2, <2>5, <3>1, <3>2, <3>3 DEF TaskReturns, StatusInv, Registered
  <2>6. CASE TaskThrows(e, "error")
    <3>1. error' = Mark(error, e) /\ ran' = ran /\ phase' = "exited" /\ exit' = error'
      BY <2>6 DEF TaskThrows, Exit
    <3>2. Misread' <=> Misread
      BY <2>2, <3>1, MisreadStays
    <3>3. ~Misread => error' = IF Found' THEN StatusOf[source.fault] ELSE success
      BY <2>2, <2>4, <2>v, <3>1, FoundWhenEnded
    <3> QED
      BY <2>2, <2>6, <3>1, <3>2, <3>3 DEF TaskThrows, StatusInv, Registered
  <2>7. CASE TaskAborts
    BY <2>2, <2>7, StatusInvUnchanged DEF TaskAborts, StatusInv
  <2> QED
    BY <2>3, <2>5, <2>6, <2>7
<1>3. CASE UNCHANGED allVars
  BY <1>3, MisreadStays
     DEF allVars, vars, compiler, StatusInv, Found, Ending, Registered, Detectors
<1> QED
  BY <1>1, <1>2, <1>3 DEF PipelineNext

\* What the transformations of a tree keep.
LEMMA TreeFacts ==
  ASSUME NEW t \in TreeType, NEW p \in SUBSET Peril
  PROVE  /\ Copy(t) \in TreeType
         /\ Copy(t).perils = t.perils /\ Copy(t).loops = t.loops
         /\ Copy(t).compares = t.compares
         /\ Rechecked(Copy(t)) \in TreeType
         /\ Rechecked(Copy(t)).bound /\ Rechecked(Copy(t)).typed
         /\ Rechecked(Copy(t)).prelude = t.prelude
         /\ Rechecked(Copy(t)).compares = t.compares
         /\ Rechecked(Copy(t)).loops = t.loops
         /\ Rechecked(Copy(t)).perils = t.perils
         /\ Rechecked(Inlined(t, p)) \in TreeType
         /\ Rechecked(Inlined(t, p)).bound /\ Rechecked(Inlined(t, p)).typed
         /\ Rechecked(Inlined(t, p)).prelude = t.prelude
         /\ Rechecked(Inlined(t, p)).compares = t.compares
         /\ Rechecked(Inlined(t, p)).loops = t.loops
         /\ Rechecked(Inlined(t, p)).perils = p
BY DEF TreeType, Rechecked, Copy, Inlined

\* What desugaring adds to a tree, and what it leaves.
LEMMA DesugaredFacts ==
  ASSUME NEW t \in TreeType, NEW lost \in BOOLEAN
  PROVE  LET u == Desugared(t, lost) IN
         /\ u \in TreeType
         /\ u.prelude = t.prelude /\ u.loops \in {"none", t.loops}
         /\ u.compares => t.compares
         /\ u.perils \subseteq t.perils \union Broken
         /\ t.perils \subseteq u.perils
         /\ "unbound" \in u.perils =>
              "unbound" \in t.perils \/ (t.compares /\ ~t.prelude)
         /\ "untyped" \in u.perils =>
              \/ "untyped" \in t.perils
              \/ "lossy" \in t.perils /\ "desugar-for" \in flags /\ t.loops # "none"
<1> DEFINE for == "desugar-for" \in flags /\ t.loops # "none"
           compare == "desugar-string-cmp" \in flags /\ t.compares
           unbound == IF compare /\ ~t.prelude THEN {"unbound"} ELSE {}
           untyped == IF for /\ lost /\ "lossy" \in t.perils THEN {"untyped"} ELSE {}
           c == Copy(t)
           u == Desugared(t, lost)
<1>1. c \in TreeType /\ c.perils = t.perils /\ c.loops = t.loops
      /\ c.compares = t.compares /\ c.prelude = t.prelude
  BY DEF TreeType, Copy
<1>2. u = [c EXCEPT !.unique = @ /\ ~for,
                    !.loops = IF for THEN "none" ELSE @,
                    !.compares = @ /\ "desugar-string-cmp" \notin flags,
                    !.perils = @ \union unbound \union untyped]
  BY DEF Desugared
<1>3. unbound \subseteq Broken /\ untyped \subseteq Broken
  BY DEF Broken
<1> HIDE DEF for, unbound, untyped, u, c
<1>4. /\ u \in TreeType
      /\ u.prelude = c.prelude /\ u.loops \in {"none", c.loops}
      /\ u.compares => c.compares
      /\ u.perils = c.perils \union unbound \union untyped
  BY <1>1, <1>2, <1>3 DEF TreeType
<1>5. /\ "unbound" \in unbound => t.compares /\ ~t.prelude
      /\ "unbound" \notin untyped /\ "untyped" \notin unbound
      /\ "untyped" \in untyped =>
           "lossy" \in t.perils /\ "desugar-for" \in flags /\ t.loops # "none"
  BY DEF unbound, untyped, for
<1> QED
  BY <1>1, <1>3, <1>4, <1>5 DEF u

\* Binding and checking a tree, or restoring its escapes, changes nothing else.
LEMMA RecheckedFacts ==
  ASSUME NEW t \in TreeType
  PROVE  LET u == Rechecked(t)
             w == [u EXCEPT !.escapes = "computed"] IN
         /\ u \in TreeType /\ u.bound /\ u.typed /\ u.prelude = t.prelude
         /\ u.loops = t.loops /\ u.compares = t.compares /\ u.perils = t.perils
         /\ w \in TreeType /\ w.bound /\ w.typed /\ w.prelude = t.prelude
         /\ w.loops = t.loops /\ w.compares = t.compares /\ w.perils = t.perils
         /\ w.escapes = "computed"
BY DEF TreeType, Rechecked

LEMMA TreeInvNext ==
  TypeOK /\ RunInv /\ StatusInv /\ TreeInv /\ [PipelineNext]_allVars => TreeInv'
<1> SUFFICES ASSUME TypeOK, RunInv, StatusInv, TreeInv, [PipelineNext]_allVars PROVE TreeInv'
  OBVIOUS
<1> USE DEF Executing, Returns, Throws, Crashes
<1>0. source \in SourceType /\ source.perils \in SUBSET Peril
      /\ source.inlined \in SUBSET Peril
  BY DEF StatusInv, SourceType
<1>b. Peril \intersect Broken = {}
  BY DEF Peril, Broken
\* The tree may keep its perils, lose them, or come by those of the program.
<1>k. ASSUME tree' \in TreeType, tree'.compares => source.compares,
             tree'.perils \subseteq source.perils \union source.inlined \union Broken,
             Passes(tree') \/ tree'.perils = tree.perils,
             source' = source, ran' = ran
      PROVE  TreeInv'
  <2>1. Misread' <=> Misread
    BY <1>k, MisreadStays
  <2> QED
    BY <1>k, <2>1 DEF TreeInv, Passes
<1>m. ASSUME tree' = tree, source' = source, Misread => Misread' PROVE TreeInv'
  BY <1>m DEF TreeInv, Passes
<1>r. ASSUME NEW e, TaskReturns(e) PROVE ran' = ran
  BY <1>r DEF TaskReturns
<1>1. CASE Driver
  <2>1. tree' = tree /\ source' = source
    BY <1>1 DEF Driver, compiler
  <2>2. CASE StartTask
    <3>1. HasRun("raw-desugar") => HasRun("raw-desugar")'
      <4> DEFINE entry == <<task_order[next], arg[task_order[next]]>>
      <4>1. ran' = Append(ran, entry) /\ entry \in Object \X (Argument \union {None})
        BY <2>2 DEF StartTask, TypeOK
      <4>2. Len(ran') = Len(ran) + 1 /\ \A i \in 1 .. Len(ran) : ran'[i] = ran[i]
        BY <4>1, AppendFacts DEF TypeOK
      <4>3. /\ DOMAIN ran = 1 .. Len(ran) /\ DOMAIN ran' = 1 .. Len(ran')
            /\ Len(ran) \in Nat
        BY <4>1 DEF TypeOK
      <4> QED
        BY <4>2, <4>3 DEF HasRun
    <3> QED
      BY <1>m, <2>1, <3>1 DEF Misread
  <2>3. CASE ~StartTask
    <3>1. ran' = ran
      BY <1>1, <2>3
         DEF Driver, Option, EndOptions, ResolveNext, CallDependency, OverflowStack,
             NextDependency, Schedule, EnableDefault, StartExecution, EndExecution,
             Ended, vars, static, options, running
    <3> QED
      BY <1>m, <2>1, <3>1, MisreadStays
  <2> QED
    BY <2>2, <2>3
<1>2. CASE RunningTask
  <2>0. source' = source /\ ran' = ran
    <3>1. error \in ErrorType
      BY DEF TypeOK
    <3>2. source' = source
          /\ \E e \in ErrorType : TaskReturns(e) \/ TaskThrows(e, "error") \/ TaskAborts
      BY <1>0, <1>2, <3>1, TaskEnds
    <3> QED
      BY <3>2 DEF TaskReturns, TaskThrows, TaskAborts, running
  <2>u. tree' = tree => TreeInv'
    BY <1>m, <2>0, MisreadStays
  <2>t. /\ tree \in TreeType /\ (tree.compares => source.compares)
        /\ tree.perils \subseteq source.perils \union source.inlined \union Broken
    BY DEF TreeInv
  <2>a. ASSUME tree' \in {[tree EXCEPT !.bound = TRUE], [tree EXCEPT !.typed = TRUE],
                          [tree EXCEPT !.unique = TRUE],
                          [tree EXCEPT !.escapes = "computed"]}
        PROVE  TreeInv'
    <3>1. tree' \in TreeType /\ tree'.compares = tree.compares
          /\ tree'.perils = tree.perils
      BY <2>a, <2>t DEF TreeType
    <3> QED
      BY <1>k, <2>0, <2>t, <3>1
  <2>1. CASE Parse
    <3>1. ASSUME tree' = ParsedTree PROVE TreeInv'
      <4>1. ParsedTree \in TreeType /\ ParsedTree.compares = source.compares
            /\ ParsedTree.perils = source.perils
        BY <1>0 DEF ParsedTree, TreeType, SourceType
      <4> QED
        BY <1>0, <1>b, <1>k, <2>0, <3>1, <4>1 DEF Passes
    <3> QED
      BY <2>1, <2>u, <3>1 DEF Parse, Replace, compiler
  <2>2. CASE Bind \/ Rename \/ CheckTypes \/ ComputeEscapes
    BY <2>2, <2>a, <2>u DEF Bind, Rename, CheckTypes, ComputeEscapes, compiler
  <2>3. CASE \/ ObjectBind \/ ObjectCheckTypes \/ SetFlag \/ SetPrelude \/ Translate
             \/ CombineBind \/ OverloadBind \/ PassiveTask
    BY <2>3, <2>u
       DEF ObjectBind, ObjectCheckTypes, SetFlag, SetPrelude, Translate, CombineBind,
           OverloadBind, PassiveTask, compiler
  <2>4. CASE Desugar
    <3>1. PICK lost \in BOOLEAN :
            \/ tree' = tree
            \/ LET u == Rechecked(Desugared(tree, lost)) IN
                 /\ Passes(Desugared(tree, lost))
                 /\ tree' \in {u, [u EXCEPT !.escapes = "computed"]}
      BY <2>4 DEF Desugar, Replace, compiler
    <3> DEFINE d == Desugared(tree, lost)
    <3>2. /\ d \in TreeType /\ (d.compares => tree.compares)
          /\ d.perils \subseteq tree.perils \union Broken
      BY <2>t, DesugaredFacts
    <3>3. ASSUME Passes(d), tree' \in {Rechecked(d), [Rechecked(d) EXCEPT !.escapes = "computed"]}
          PROVE  TreeInv'
      <4>1. tree' \in TreeType /\ tree'.compares = d.compares /\ tree'.perils = d.perils
        BY <3>2, <3>3, RecheckedFacts
      <4> QED
        BY <1>k, <2>0, <2>t, <3>2, <3>3, <4>1 DEF Passes
    <3> QED
      BY <2>u, <3>1, <3>3
  <2>5. CASE RawDesugar
    <3>1. PICK lost \in BOOLEAN : tree' \in {tree, Desugared(tree, lost)}
      BY <2>5 DEF RawDesugar, Replace, compiler
    <3> DEFINE d == Desugared(tree, lost)
    <3>2. /\ d \in TreeType /\ (d.compares => tree.compares)
          /\ d.perils \subseteq tree.perils \union Broken
          /\ "unbound" \in d.perils => "unbound" \in tree.perils \/ tree.compares
          /\ "untyped" \in d.perils => "untyped" \in tree.perils \/ "lossy" \in tree.perils
      BY <2>t, DesugaredFacts
    <3>3. HasRun("raw-desugar")
      <4>1. timer = <<"raw-desugar">> /\ phase = "execute"
        BY <2>5 DEF RawDesugar
      <4>2. ran[Len(ran)][1] = "raw-desugar" /\ Len(ran) \in DOMAIN ran
        BY <4>1 DEF StatusInv, RunInv, Progress, TypeOK
      <4> QED
        BY <4>2 DEF HasRun
    <3>4. ~Misread => ~source.compares /\ "lossy" \notin source.perils \union source.inlined
      BY <3>3 DEF Misread
    <3>5. ~Misread => Passes(d)
      <4>1. "lossy" \notin Broken
        BY DEF Broken
      <4>2. ~Misread => "unbound" \notin d.perils /\ "untyped" \notin d.perils
        BY <2>t, <3>2, <3>4, <4>1 DEF TreeInv, Passes, Broken
      <4> QED
        BY <4>2 DEF Passes, Broken
    <3>6. tree' = d => TreeInv'
      BY <2>0, <2>t, <3>2, <3>5, MisreadStays DEF TreeInv
    <3> QED
      BY <2>u, <3>1, <3>6
  <2>6. CASE Inline
    <3>1. tree' = tree \/ \E p \in SUBSET source.inlined : tree' = Rechecked(Inlined(tree, p))
      BY <2>6 DEF Inline, Replace, compiler
    <3>2. ASSUME NEW p \in SUBSET source.inlined, tree' = Rechecked(Inlined(tree, p))
          PROVE  TreeInv'
      <4>1. tree' \in TreeType /\ tree'.compares = tree.compares /\ tree'.perils = p
        BY <1>0, <2>t, <3>2, TreeFacts
      <4> QED
        BY <1>0, <1>b, <1>k, <2>0, <2>t, <4>1 DEF Passes
    <3> QED
      BY <2>u, <3>1, <3>2
  <2>7. CASE Rebuild \/ Clone
    <3>1. tree' \in {tree, Copy(tree), Rechecked(Copy(tree))}
      BY <2>7 DEF Rebuild, Clone, Replace, compiler
    <3>2. ASSUME tree' \in {Copy(tree), Rechecked(Copy(tree))} PROVE TreeInv'
      <4>1. tree' \in TreeType /\ tree'.compares = tree.compares
            /\ tree'.perils = tree.perils
        BY <2>t, <3>2, TreeFacts
      <4> QED
        BY <1>k, <2>0, <2>t, <4>1
    <3> QED
      BY <2>u, <3>1, <3>2
  <2>8. ASSUME NEW g \in Graph, ComputeGraph(g) \/ DumpGraph(g) PROVE TreeInv'
    BY <2>8, <2>u DEF ComputeGraph, DumpGraph, compiler
  <2> QED
    BY <1>2, <2>1, <2>2, <2>3, <2>4, <2>5, <2>6, <2>7, <2>8 DEF RunningTask
<1>3. CASE UNCHANGED allVars
  BY <1>3, <1>m, MisreadStays DEF allVars, vars, compiler
<1> QED
  BY <1>1, <1>2, <1>3 DEF PipelineNext

\* The exit status of the compiler names the error of the program if and only
\* if a task that looks for it was executed, for every table that leaves no
\* name without a task, whatever the user selects, as long as --raw-desugar
\* puts no error into it (error_type in error.hh; the tasks' execute functions
\* and exit_on_error).
THEOREM StatusesTell == PipelineSpec => []StatusTells
<1> DEFINE Inv == TypeOK /\ RunInv /\ StatusInv /\ TreeInv
<1>1. PipelineInit => Inv
  <2>1. PipelineInit => RunInv
    BY DEF PipelineInit, RunInv, Progress, RunsInOrder
  <2> QED
    BY <2>1, PipelineTypeInit, StatusInvInit
<1>2. Inv /\ [PipelineNext]_allVars => Inv'
  <2>1. StatusInv => source \in SourceType
    BY DEF StatusInv
  <2> QED
    BY <2>1, StepsOfTheRegister, TypeNext, RunInvNext, StatusInvNext, TreeInvNext
<1>3. Inv => StatusTells
  <2> SUFFICES ASSUME TypeOK, StatusInv, exit \notin {None, 64}, ~Misread PROVE
        exit = IF \E t \in Detectors(source.fault) : HasRun(t)
               THEN StatusOf[source.fault] ELSE success
    BY DEF StatusTells
  <2>1. phase = "exited" /\ exit = error
        /\ error = IF Found THEN StatusOf[source.fault] ELSE success
    BY DEF StatusInv
  <2>2. Ending = Len(ran) /\ DOMAIN ran = 1 .. Len(ran)
    BY <2>1 DEF Ending, TypeOK
  <2>3. Found <=> \E t \in Detectors(source.fault) : HasRun(t)
    BY <2>2 DEF Found, HasRun
  <2> QED
    BY <2>1, <2>3
<1> QED
  BY <1>1, <1>2, <1>3, PTL DEF PipelineSpec

-----------------------------------------------------------------------------
(* The list of a careful selection.                                        *)

LEMMA ShallowRanks ==
  ASSUME Shallow, SearchInv
  PROVE  /\ decl \in Acyclic
         /\ \E rank \in [Name -> Nat] : RankedBy(rank, decl) /\ Within(rank)
BY DeclarationAssumption DEF Shallow, SearchInv, Acyclic

LEMMA PipelineSearchInit == PipelineInit => SearchInv
<1> SUFFICES ASSUME PipelineInit PROVE SearchInv
  OBVIOUS
<1>1. \A n \in Name : decl[task_list[n]].name = n
  BY TableAssumption DEF PipelineInit
<1>2. DOMAIN calls = {} /\ decl \in Declaration
  BY DEF PipelineInit
<1> QED
  BY <1>1, <1>2 DEF SearchInv

\* Each name stands for the task of that name.
LEMMA NamedObject ==
  ASSUME TypeOK, SearchInv, Annotating(decl), NEW n \in Name, Registered(n)
  PROVE  task_list[n] = n /\ n \in Object
BY RegisteredType DEF SearchInv, Annotating

\* A task of the list asks for no bare task.
LEMMA WantedCareful ==
  ASSUME TypeOK, Annotating(decl), NEW o \in Object \ Bare
  PROVE  Range(Wanted(o)) \intersect Bare = {}
<1> DEFINE deps == decl[o].deps
           first == <<Head(deps)>>
<1>1. deps \in Seq(Name)
  BY DEF TypeOK, DeclarationType
<1>2. CASE decl[o].kind # "disjunctive"
  BY <1>2 DEF Wanted, Annotating
<1>3. CASE decl[o].kind = "disjunctive"
  <2>1. Wanted(o) = << >> \/ (Wanted(o) = first /\ deps # << >>)
    BY <1>3 DEF Wanted
  <2>2. deps # << >> => Head(deps) \notin Bare
    BY <1>3 DEF Annotating
  <2>3. Range(<< >>) = {} /\ Range(first) = {Head(deps)}
    BY DEF Range
  <2> QED
    BY <2>1, <2>2, <2>3
<1> QED
  BY <1>2, <1>3

LEMMA ListInvInit == PipelineInit => ListInv
<1> SUFFICES ASSUME PipelineInit PROVE ListInv
  OBVIOUS
<1>1. DOMAIN calls = {} /\ DOMAIN task_order = {} /\ Range(task_order) = {}
  BY DEF PipelineInit, Range
<1> QED
  BY <1>1 DEF ListInv, PipelineInit

LEMMA ListInvUnchanged ==
  ASSUME ListInv, UNCHANGED <<decl, task_order, calls>> PROVE ListInv'
BY DEF ListInv, Named

\* A step that enters a task which is not bare: from the outside, or as a
\* dependency of the task above it.
LEMMA ListInvEnter ==
  ASSUME TypeOK, ListInv, Annotating(decl), NEW o \in Object \ Bare, Enter(o),
         UNCHANGED <<decl, task_order>>,
         \/ calls = << >> /\ (o = "parse" => task_order = << >>)
         \/ calls # << >> /\ o \in Dependencies(calls[Len(calls)].task)
  PROVE  ListInv'
<1> DEFINE n == Len(calls)
<1>1. /\ n \in Nat
      /\ DOMAIN calls = 1 .. n
      /\ DOMAIN calls' = 1 .. n + 1
      /\ \A i \in 1 .. n : calls'[i] = calls[i]
      /\ calls'[n + 1].task = o
      /\ calls'[n + 1].rest = Wanted(o)
      /\ calls' # << >>
  BY EnterFacts
<1>2. calls = << >> <=> n = 0
  BY DEF TypeOK
<1> HIDE DEF n
<1>3. Range(Wanted(o)) \intersect Bare = {}
  BY WantedCareful
<1>4. \A k \in DOMAIN calls' :
        calls'[k].task \notin Bare /\ Range(calls'[k].rest) \intersect Bare = {}
  BY <1>1, <1>3 DEF ListInv
<1>5. calls'[1].task = "parse" => "parse" \notin Range(task_order)
  <2>1. CASE n = 0
    <3>1. Range(<< >>) = {}
      BY DEF Range
    <3> QED
      BY <1>1, <1>2, <2>1, <3>1
  <2>2. CASE n # 0
    BY <1>1, <1>2, <2>2 DEF ListInv
  <2> QED
    BY <2>1, <2>2
<1>6. ASSUME NEW rank \in [Name -> Nat], RankedBy(rank, decl), Within(rank),
             NEW k \in DOMAIN calls'
      PROVE  rank[Named(k)'] + k <= StackLimit
  <2>0. decl \in DeclarationType /\ \A p \in Object : decl[p].name \in Name
    BY DEF TypeOK, DeclarationType
  <2>1. CASE k \in 1 .. n
    BY <1>1, <1>6, <2>1 DEF ListInv, Named
  <2>2. CASE k = n + 1 /\ n = 0
    <3>1. rank[decl[o].name] < StackLimit /\ rank[decl[o].name] \in Nat
      BY <1>6, <2>0 DEF Within
    <3> QED
      BY <1>1, <2>2, <3>1, DeclarationAssumption DEF Named
  <2>3. CASE k = n + 1 /\ n # 0
    <3>1. n \in DOMAIN calls /\ rank[Named(n)] + n <= StackLimit
      BY <1>1, <1>6, <2>3 DEF ListInv
    <3>2. calls[n].task \in Object /\ Named(n) \in Name
      BY <3>1, NamedType
    <3>3. decl[o].name = o /\ o \in Name
      BY <2>0 DEF Annotating
    <3>4. rank[o] < rank[Named(n)] /\ rank[o] \in Nat /\ rank[Named(n)] \in Nat
      <4>1. o \in Range(decl[calls[n].task].deps)
        BY <1>2, <2>3 DEF Dependencies, n
      <4>2. DOMAIN decl = Object
        BY <2>0 DEF DeclarationType
      <4> QED
        BY <1>6, <3>2, <3>3, <4>1, <4>2 DEF RankedBy, Named
    <3> QED
      BY <1>1, <2>3, <3>1, <3>3, <3>4, DeclarationAssumption DEF Named
  <2> QED
    BY <1>1, <2>1, <2>2, <2>3
<1> QED
  BY <1>4, <1>5, <1>6 DEF ListInv

LEMMA ListInvNextDependency ==
  TypeOK /\ ListInv /\ NextDependency => ListInv'
<1> SUFFICES ASSUME TypeOK, ListInv, NextDependency PROVE ListInv'
  OBVIOUS
<1>1. task_order' = task_order /\ decl' = decl
  BY DEF NextDependency, static
<1>2. /\ DOMAIN calls' = DOMAIN calls /\ 1 \in DOMAIN calls
      /\ \A i \in DOMAIN calls :
           /\ calls'[i].task = calls[i].task
           /\ Range(calls'[i].rest) \subseteq Range(calls[i].rest)
      /\ calls # << >>
  BY NextDependencyFacts
<1> QED
  BY <1>1, <1>2 DEF ListInv, Named

\* A call that returns appends the parser for the first time only.
LEMMA ListInvSchedule ==
  ASSUME Shallow
  PROVE  TypeOK /\ SearchInv /\ ListInv /\ Schedule => ListInv'
<1> SUFFICES ASSUME TypeOK, SearchInv, ListInv, Schedule PROVE ListInv'
  OBVIOUS
<1> DEFINE n == Len(calls)
           t == calls[n].task
           m == Len(task_order)
<1>1. /\ n \in Nat \ {0}
      /\ DOMAIN calls = 1 .. n
      /\ t \in Object
      /\ task_order' = Append(task_order, t)
      /\ Range(task_order') = Range(task_order) \union {t}
      /\ DOMAIN calls' = 1 .. n - 1
      /\ Len(calls') = n - 1
      /\ \A i \in 1 .. n - 1 : calls'[i] = calls[i]
      /\ decl' = decl
  BY ScheduleFacts DEF Schedule, static
<1>2. /\ DOMAIN task_order' = 1 .. m + 1
      /\ \A i \in 1 .. m : task_order'[i] = task_order[i]
      /\ task_order'[m + 1] = t
      /\ DOMAIN task_order = 1 .. m /\ m \in Nat
  BY <1>1, GrowingList DEF TypeOK
<1>3. calls # << >> /\ (calls' # << >> => n > 1)
  BY <1>1 DEF Schedule
<1> HIDE DEF n, m
<1>4. t \notin Bare
  BY <1>1 DEF ListInv
<1>5. t = "parse" => "parse" \notin Range(task_order)
  <2>1. CASE n = 1
    BY <1>3, <2>1 DEF ListInv
  <2>2. CASE n > 1
    <3>1. decl \in Acyclic
      BY ShallowRanks
    <3>2. n \in DOMAIN calls
      BY <1>1
    <3>3. calls[n].task \notin Range(task_order)
      BY <2>2, <3>1, <3>2 DEF SearchInv
    <3> QED
      BY <3>3
  <2> QED
    BY <1>1, <2>1, <2>2
<1>6. ASSUME NEW i \in DOMAIN task_order', NEW j \in DOMAIN task_order',
             task_order'[i] = "parse", task_order'[j] = "parse"
      PROVE  i = j
  <2>1. \A k \in 1 .. m : task_order[k] \in Range(task_order)
    BY <1>2 DEF Range
  <2>2. CASE i \in 1 .. m /\ j \in 1 .. m
    BY <1>2, <1>6, <2>2 DEF ListInv
  <2>3. CASE i = m + 1 \/ j = m + 1
    BY <1>2, <1>5, <1>6, <2>1, <2>3
  <2> QED
    BY <1>2, <2>2, <2>3
<1>7. calls' # << >> /\ calls'[1].task = "parse" => "parse" \notin Range(task_order')
  <2> SUFFICES ASSUME calls' # << >>, calls'[1].task = "parse"
               PROVE  "parse" \notin Range(task_order')
    OBVIOUS
  <2>1. n > 1 /\ calls[1].task = "parse" /\ "parse" \notin Range(task_order)
    BY <1>1, <1>3 DEF ListInv
  <2>2. PICK rank \in [Name -> Nat] : RankedBy(rank, decl)
    BY ShallowRanks
  <2>3. rank[Named(n)] < rank[Named(1)]
    <3>1. n \in DOMAIN calls /\ 1 \in DOMAIN calls /\ 1 < n
      BY <1>1, <2>1
    <3> QED
      BY <2>2, <3>1 DEF SearchInv
  <2>4. rank[Named(1)] \in Nat /\ Named(n) # Named(1)
    <3>1. Named(1) \in Name
      BY <1>1, <2>1, NamedType
    <3> QED
      BY <2>2, <2>3, <3>1
  <2>5. t # "parse"
    BY <2>1, <2>4 DEF Named
  <2> QED
    BY <1>1, <2>1, <2>5
<1>8. \A k \in DOMAIN calls' :
        calls'[k].task \notin Bare /\ Range(calls'[k].rest) \intersect Bare = {}
  BY <1>1 DEF ListInv
<1>9. \A rank \in [Name -> Nat] : RankedBy(rank, decl) /\ Within(rank) =>
        \A k \in DOMAIN calls' : rank[Named(k)'] + k <= StackLimit
  BY <1>1 DEF ListInv, Named
<1> QED
  BY <1>1, <1>4, <1>6, <1>7, <1>8, <1>9 DEF ListInv

\* The dependency the loop is at is one of the task's.
LEMMA AtDependencyFacts ==
  ASSUME TypeOK, SearchInv, NEW d \in Name, AtDependency(d)
  PROVE  /\ calls # << >> /\ Len(calls) \in DOMAIN calls
         /\ d \in Range(calls[Len(calls)].rest)
         /\ d \in Dependencies(calls[Len(calls)].task)
<1> DEFINE n == Len(calls)
           rest == calls[n].rest
<1>1. calls \in Seq(Frame) /\ calls # << >> /\ Last(calls).rest # << >>
      /\ d = Head(Last(calls).rest)
  BY DEF AtDependency, TypeOK
<1>2. calls[n] \in Frame /\ calls[n] = Last(calls) /\ n \in DOMAIN calls
  <2>1. /\ n \in Nat \ {0} /\ Last(calls) \in Frame
        /\ Last(calls) = calls[n]
    BY <1>1, FrontLast
  <2> QED
    BY <1>1, <2>1
<1>3. rest \in Seq(Name) /\ rest # << >> /\ d = Head(rest)
  BY <1>1, <1>2 DEF Frame
<1> HIDE DEF rest
<1>4. d \in Range(rest)
  BY <1>3 DEF Range
<1> QED
  BY <1>1, <1>2, <1>4 DEF SearchInv, rest

\* The search never needs more activation records than there is room for.
LEMMA NeverOverflows ==
  ASSUME Shallow
  PROVE  TypeOK /\ SearchInv /\ ListInv => ~OverflowStack
<1> SUFFICES ASSUME TypeOK, SearchInv, ListInv, OverflowStack PROVE FALSE
  OBVIOUS
<1> DEFINE n == Len(calls)
<1>1. PICK d \in Name : AtDependency(d) /\ n = StackLimit
  BY DEF OverflowStack
<1>2. n \in DOMAIN calls /\ d \in Dependencies(calls[n].task)
  BY <1>1, AtDependencyFacts
<1>5. PICK rank \in [Name -> Nat] : RankedBy(rank, decl) /\ Within(rank)
  BY ShallowRanks
<1>6. calls[n].task \in Object /\ Named(n) \in Name
  BY <1>2, NamedType
<1>7. rank[d] < rank[Named(n)]
  <2>1. DOMAIN decl = Object
    BY DEF TypeOK, DeclarationType
  <2> QED
    BY <1>2, <1>5, <1>6, <2>1 DEF RankedBy, Named, Dependencies
<1>8. rank[Named(n)] + n <= StackLimit
  BY <1>2, <1>5 DEF ListInv
<1>9. rank[d] \in Nat /\ rank[Named(n)] \in Nat
  BY <1>6
<1> QED
  BY <1>1, <1>7, <1>8, <1>9, DeclarationAssumption

LEMMA ListInvNext ==
  ASSUME Careful
  PROVE  /\ TypeOK /\ RunInv /\ StatusInv /\ SearchInv /\ ListInv
         /\ [PipelineNext]_allVars
         => ListInv'
<1> SUFFICES ASSUME TypeOK, RunInv, StatusInv, SearchInv, ListInv,
                    [PipelineNext]_allVars
             PROVE  ListInv'
  OBVIOUS
<1> USE DEF static, options, running
<1>0. Annotating(decl) /\ Shallow
  BY DEF Careful, SearchInv
<1>1. CASE Driver
  <2>1. ASSUME NEW o \in Offered, NEW a \in Argument \union {None}, Option(o, a)
        PROVE  ListInv'
    <3>1. o \in Object \ Bare /\ o # "parse"
      BY TableAssumption DEF Careful
    <3> QED
      BY <1>0, <2>1, <3>1, ListInvEnter DEF Option
  <2>2. CASE CallDependency
    <3>1. PICK d \in Name : AtDependency(d) /\ Enter(task_list[d])
      BY <2>2 DEF CallDependency
    <3> DEFINE n == Len(calls)
    <3>2. /\ calls # << >> /\ n \in DOMAIN calls
          /\ d \in Range(calls[n].rest) /\ d \in Dependencies(calls[n].task)
      BY <3>1, AtDependencyFacts
    <3>4. d \notin Bare
      BY <3>2 DEF ListInv
    <3>5. task_list[d] = d /\ d \in Object
      BY <1>0, NamedObject DEF StatusInv
    <3> QED
      BY <1>0, <2>2, <3>1, <3>2, <3>4, <3>5, ListInvEnter DEF CallDependency
  <2>3. CASE EnableDefault
    <3>1. task_list[Default] = "parse" /\ "parse" \in Object \ Bare
      BY <1>0, NamedObject, DeclarationAssumption DEF Careful, StatusInv, Bare
    <3> QED
      BY <1>0, <2>3, <3>1, ListInvEnter DEF EnableDefault
  <2>4. CASE OverflowStack
    BY <1>0, <2>4, NeverOverflows
  <2>5. CASE NextDependency
    BY <2>5, ListInvNextDependency
  <2>6. CASE Schedule
    BY <1>0, <2>6, ListInvSchedule
  <2>7. CASE EndOptions(TRUE) \/ StartExecution \/ StartTask \/ EndExecution \/ Ended
    BY <2>7, ListInvUnchanged
       DEF EndOptions, StartExecution, StartTask, EndExecution, Ended, vars
  <2> QED
    BY <1>1, <2>1, <2>2, <2>3, <2>4, <2>5, <2>6, <2>7 DEF Driver, ResolveNext
<1>2. CASE RunningTask
  <2>1. error \in ErrorType /\ source \in SourceType
    BY DEF TypeOK, StatusInv
  <2>2. PICK e \in ErrorType :
          TaskReturns(e) \/ TaskThrows(e, "error") \/ TaskAborts
    BY <1>2, <2>1, TaskEnds
  <2> QED
    BY <2>2, ListInvUnchanged DEF TaskReturns, TaskThrows, TaskAborts
<1>3. CASE UNCHANGED allVars
  BY <1>3, ListInvUnchanged DEF allVars, vars
<1> QED
  BY <1>1, <1>2, <1>3 DEF PipelineNext

-----------------------------------------------------------------------------
(* The annotations of the tree.                                            *)

\* The part of the invariant that is about the list.
CarefulList ==
  /\ TypeOK /\ RunInv /\ StatusInv /\ SearchInv /\ ListInv
  /\ DependenciesFirst /\ Annotating(decl)

\* The link of a chain is scheduled before the task that asks for it.
LEMMA ChainRuns ==
  ASSUME CarefulList, NEW i \in DOMAIN task_order, NEW d, <<task_order[i], d>> \in Chain
  PROVE  \E j \in 1 .. i - 1 : task_order[j] = d
<1> DEFINE o == task_order[i]
           before == {task_order[j] : j \in 1 .. i - 1}
           deps == decl[o].deps
<1> USE DEF CarefulList
<1>1. o \in Object /\ deps \in Seq(Name) /\ i \in 1 .. Len(task_order)
  BY DEF TypeOK, DeclarationType
<1>2. /\ d \in Range(deps)
      /\ decl[o].kind = "disjunctive" => Range(deps) \subseteq Bare \union {d}
  <2> DEFINE link == <<o, d>>
  <2>1. link[1] = o /\ link[2] = d /\ link \in Chain
    OBVIOUS
  <2> HIDE DEF link, o
  <2> QED
    BY <2>1 DEF Annotating
<1>3. Satisfied(o, before)
  BY DEF DependenciesFirst
<1>4. \A e \in Range(deps) : e \in Name /\ task_list[e] = e
  <2>1. Range(deps) \subseteq Name
    BY <1>1 DEF Range
  <2> QED
    BY <2>1, NamedObject DEF StatusInv
<1>5. before \subseteq Range(task_order)
  BY <1>1 DEF Range, TypeOK
<1> HIDE DEF before
<1>6. d \in before
  <2>1. CASE decl[o].kind # "disjunctive"
    BY <1>2, <1>3, <1>4, <2>1 DEF Satisfied, StatusInv
  <2>2. CASE decl[o].kind = "disjunctive"
    <3>1. deps # << >>
      BY <1>2 DEF Range
    <3>2. Head(deps) \in Name
      BY <1>1, <3>1
    <3>3. PICK e \in Range(deps) : task_list[e] \in before
      BY <1>3, <2>2, <3>1, <3>2 DEF Satisfied, StatusInv
    <3>4. e \in before /\ e \notin Bare
      BY <1>4, <1>5, <3>3 DEF ListInv
    <3> QED
      BY <1>2, <2>2, <3>3, <3>4
  <2> QED
    BY <2>1, <2>2
<1> QED
  BY <1>6 DEF before

\* So a task that runs, or has run, finds the links below it completed.
LEMMA LinkCompleted ==
  ASSUME CarefulList, NEW t, NEW d, <<t, d>> \in Chain,
         \/ Completed(t)
         \/ next \in DOMAIN task_order /\ t = task_order[next]
  PROVE  Completed(d)
<1>1. next \in Nat \ {0} /\ DOMAIN task_order = 1 .. Len(task_order)
      /\ Len(task_order) \in Nat
  BY DEF CarefulList, TypeOK
<1>2. PICK i \in 1 .. next : i \in DOMAIN task_order /\ task_order[i] = t
  BY <1>1 DEF Completed
<1>3. PICK j \in 1 .. i - 1 : task_order[j] = d
  BY <1>2, ChainRuns
<1> QED
  BY <1>1, <1>2, <1>3 DEF Completed

\* The task that runs is not bare, and while the parser runs nothing has run
\* that needs it.
LEMMA RunningFacts ==
  ASSUME CarefulList, AnnotationInv, NEW t, timer = <<t>>
  PROVE  /\ t \notin Bare /\ next \in DOMAIN task_order /\ t = task_order[next]
         /\ t \in Binding => Completed("bindings-compute")
         /\ t \in Transforming \union {"llvm-compute"} =>
              Completed("bindings-compute") /\ Completed("types-compute")
         /\ t \in Transforming => Completed("parse")
         /\ t = "parse" => ~Completed("bindings-compute") /\ ~Completed("types-compute")
<1>1. next \in DOMAIN task_order /\ t = task_order[next]
  BY DEF AnnotationInv, CarefulList, TypeOK
<1>2. t \notin Bare
  BY <1>1 DEF CarefulList, ListInv, Range
<1>3. t \in Binding \ {"rename", "escapes-compute"} => Completed("bindings-compute")
  BY <1>1, LinkCompleted DEF Chain, Binding
<1>4. t \in {"rename", "escapes-compute"} => Completed("bindings-compute")
  <2> SUFFICES ASSUME t \in {"rename", "escapes-compute"}
               PROVE  Completed("bindings-compute")
    OBVIOUS
  <2>1. <<t, "bound">> \in Chain /\ <<"bound", "bindings-compute">> \in Chain
    BY DEF Chain
  <2> QED
    BY <1>1, <2>1, LinkCompleted
<1>5. Completed("types-compute") => Completed("bindings-compute")
  BY LinkCompleted DEF Chain
<1>6. t \in Transforming \union {"llvm-compute"} => Completed("types-compute")
  <2>1. CASE t = "llvm-compute"
    <3>1. <<t, "typed">> \in Chain /\ <<"typed", "types-compute">> \in Chain
      BY <2>1 DEF Chain
    <3> QED
      BY <1>1, <3>1, LinkCompleted
  <2>2. CASE t \in Transforming
    <3>1. <<t, "types-compute">> \in Chain
      BY <1>2, <2>2 DEF Chain, Transforming, Bare
    <3> QED
      BY <1>1, <3>1, LinkCompleted
  <2> QED
    BY <2>1, <2>2
<1>7. Completed("bindings-compute") => Completed("parse")
  BY LinkCompleted DEF Chain
<1>8. t = "parse" => ~Completed("parse")
  <2> SUFFICES ASSUME t = "parse", NEW i \in 1 .. next - 1,
                      i <= Len(task_order), task_order[i] = "parse"
               PROVE  FALSE
    BY DEF Completed
  <2>1. i \in DOMAIN task_order /\ i # next
    BY <1>1 DEF CarefulList, TypeOK
  <2> QED
    BY <1>1, <2>1 DEF CarefulList, ListInv
<1>9. t \in Binding => Completed("bindings-compute")
  BY <1>3, <1>4
<1> QED
  BY <1>1, <1>2, <1>5, <1>6, <1>7, <1>8, <1>9

\* Hence the annotations are there.
LEMMA AnnotationsThere ==
  CarefulList /\ AnnotationInv => FindsAnnotations
BY RunningFacts DEF FindsAnnotations, Running, AnnotationInv, Binding, Transforming

\* The tree of a careful selection has no error of its own.
LEMMA NothingBroken ==
  CarefulList /\ AnnotationInv => Passes(tree)
<1>1. CarefulList => source.perils \subseteq Peril /\ source.inlined \subseteq Peril
  BY DEF CarefulList, StatusInv, SourceType
<1> QED
  BY <1>1 DEF AnnotationInv, Perils, Passes, Peril, Broken

\* A task that returns leaves the invariant if its tree has the annotations
\* the tasks before it computed, and its own.
LEMMA AnnotationReturns ==
  ASSUME CarefulList, AnnotationInv, NEW t, timer = <<t>>, NEW e, TaskReturns(e),
         tree' \in TreeType, "no-prelude" \notin flags',
         Completed("bindings-compute") \/ t = "bindings-compute" => tree'.bound,
         Completed("types-compute") \/ t = "types-compute" => tree'.typed,
         Completed("parse") \/ t = "parse" => tree'.prelude,
         source' = source, tree'.loops \in {"none", source.loops},
         tree'.perils \subseteq IF t = "inline" THEN source.inlined ELSE Perils
  PROVE  AnnotationInv'
<1>1. next \in DOMAIN task_order /\ t = task_order[next]
  BY RunningFacts
<1>2. /\ next' = next + 1 /\ task_order' = task_order
      /\ timer' = << >> /\ phase' = "execute"
  <2>1. timer \in Seq(Object) /\ Len(timer) = 1
    BY DEF CarefulList, TypeOK
  <2> QED
    BY <2>1, FrontOfOne DEF TaskReturns
<1>3. next \in Nat \ {0}
  BY DEF CarefulList, TypeOK
<1>4. ASSUME NEW x PROVE Completed(x)' <=> Completed(x) \/ x = t
  <2>1. DOMAIN task_order = 1 .. Len(task_order) /\ Len(task_order) \in Nat
    BY DEF CarefulList, TypeOK
  <2> QED
    BY <1>1, <1>2, <1>3, <2>1 DEF Completed
<1>5. Perils' = IF t = "inline" THEN source.inlined ELSE Perils
  BY <1>4 DEF Perils
<1>6. /\ Completed("bindings-compute")' => tree'.bound
      /\ Completed("types-compute")' => tree'.typed
      /\ Completed("parse")' => tree'.prelude
  BY <1>4
<1> QED
  BY <1>2, <1>5, <1>6 DEF AnnotationInv

\* A task that throws changes nothing.
LEMMA AnnotationThrows ==
  ASSUME AnnotationInv, NEW e, TaskThrows(e, "error"), UNCHANGED compiler
  PROVE  AnnotationInv'
<1>1. UNCHANGED <<task_order, timer, next, tree, flags, graphs, source>>
      /\ phase' = "exited"
  BY DEF TaskThrows, Exit, running, compiler
<1> QED
  BY <1>1 DEF AnnotationInv, Completed, Perils

\* A task only crashes in the cases that are left.
LEMMA AnnotationCrashes ==
  ASSUME AnnotationInv, TaskAborts, UNCHANGED compiler, NamedCrash
  PROVE  AnnotationInv'
<1>1. UNCHANGED <<task_order, timer, next, tree, flags, graphs, source>>
  BY DEF TaskAborts, running, compiler
<1>2. NamedCrash'
  BY <1>1 DEF NamedCrash, Running, Perils, Completed
<1> QED
  BY <1>1, <1>2 DEF AnnotationInv, Completed, Perils

LEMMA AnnotationTask ==
  ASSUME CarefulList, AnnotationInv, source.fault = "none", error = success,
         source' = source, NEW t, timer = <<t>>, RunningTask
  PROVE  AnnotationInv'
<1> USE DEF Executing, Returns, Throws, Crashes
<1>0. /\ t \notin Bare
      /\ t \in Binding => Completed("bindings-compute")
      /\ t \in Transforming \union {"llvm-compute"} =>
           Completed("bindings-compute") /\ Completed("types-compute")
      /\ t \in Transforming => Completed("parse")
      /\ t = "parse" => ~Completed("bindings-compute") /\ ~Completed("types-compute")
  BY RunningFacts
<1>i. /\ Completed("bindings-compute") => tree.bound
      /\ Completed("types-compute") => tree.typed
      /\ Completed("parse") => tree.prelude
      /\ tree \in TreeType
      /\ "no-prelude" \notin flags
      /\ tree.loops \in {"none", source.loops}
      /\ tree.perils \subseteq Perils
  BY DEF AnnotationInv
<1>b. "unbound" \notin tree.perils /\ "untyped" \notin tree.perils
  BY NothingBroken DEF Passes, Broken
<1>1. CASE Parse
  <2>1. t = "parse" /\ (\E e : TaskReturns(e)) /\ tree' = ParsedTree /\ flags' = flags
    BY <1>1 DEF Parse, Replace
  <2>2. ParsedTree \in TreeType /\ ParsedTree.prelude
        /\ ParsedTree.loops = source.loops /\ ParsedTree.perils = source.perils
    BY <1>i DEF ParsedTree, TreeType, CarefulList, StatusInv, SourceType
  <2>3. Perils = source.perils
    <3>1. Completed("inline") => Completed("types-compute")
      BY LinkCompleted DEF Chain
    <3> QED
      BY <1>0, <2>1, <3>1 DEF Perils
  <2> QED
    BY <1>0, <1>i, <2>1, <2>2, <2>3, AnnotationReturns
<1>2. CASE Bind
  <2>1. t = "bindings-compute" /\ (\E e : TaskReturns(e))
        /\ tree' = [tree EXCEPT !.bound = TRUE] /\ flags' = flags
    BY <1>2, <1>b DEF Bind, BindFails
  <2>2. tree' \in TreeType /\ tree'.bound /\ (tree.typed => tree'.typed)
        /\ (tree.prelude => tree'.prelude)
        /\ tree'.loops = tree.loops /\ tree'.perils = tree.perils
    BY <1>i, <2>1 DEF TreeType
  <2>3. t \notin {"types-compute", "parse", "inline"}
    BY <2>1
  <2> QED
    BY <1>i, <2>1, <2>2, <2>3, AnnotationReturns
<1>3. CASE ObjectBind \/ ObjectCheckTypes \/ CombineBind \/ OverloadBind \/ RawDesugar
           \/ Clone
  BY <1>0, <1>3 DEF ObjectBind, ObjectCheckTypes, CombineBind, OverloadBind,
                    RawDesugar, Clone, Bare
<1>4. CASE Rename
  <2>1. t = "rename" /\ tree.bound
    BY <1>0, <1>4, <1>i DEF Rename, Binding
  <2>2. (\E e : TaskReturns(e)) /\ tree' = [tree EXCEPT !.unique = TRUE] /\ flags' = flags
    BY <1>4, <2>1 DEF Rename
  <2>3. tree' \in TreeType /\ tree'.bound /\ (tree.typed => tree'.typed)
        /\ (tree.prelude => tree'.prelude)
        /\ tree'.loops = tree.loops /\ tree'.perils = tree.perils
    BY <1>i, <2>1, <2>2 DEF TreeType
  <2>4. t \notin {"types-compute", "parse", "inline"}
    BY <2>1
  <2> QED
    BY <1>i, <2>1, <2>2, <2>3, <2>4, AnnotationReturns
<1>5. CASE CheckTypes
  <2>1. t = "types-compute" /\ tree.bound
    BY <1>0, <1>5, <1>i DEF CheckTypes, Binding, Bare
  <2>2. (\E e : TaskReturns(e)) /\ tree' = [tree EXCEPT !.typed = TRUE] /\ flags' = flags
    BY <1>5, <1>b, <2>1 DEF CheckTypes, Mark
  <2>3. tree' \in TreeType /\ tree'.bound /\ tree'.typed
        /\ (tree.prelude => tree'.prelude)
        /\ tree'.loops = tree.loops /\ tree'.perils = tree.perils
    BY <1>i, <2>1, <2>2 DEF TreeType
  <2>4. t \notin {"parse", "inline"}
    BY <2>1
  <2> QED
    BY <1>i, <2>1, <2>2, <2>3, <2>4, AnnotationReturns
<1>6. CASE ComputeEscapes
  <2>1. t = "escapes-compute" /\ tree.bound
    BY <1>0, <1>6, <1>i DEF ComputeEscapes, Binding
  <2>2. (\E e : TaskReturns(e)) /\ tree' = [tree EXCEPT !.escapes = "computed"]
        /\ flags' = flags
    BY <1>6, <2>1 DEF ComputeEscapes
  <2>3. tree' \in TreeType /\ tree'.bound /\ (tree.typed => tree'.typed)
        /\ (tree.prelude => tree'.prelude)
        /\ tree'.loops = tree.loops /\ tree'.perils = tree.perils
    BY <1>i, <2>1, <2>2 DEF TreeType
  <2>4. t \notin {"bindings-compute", "types-compute", "parse", "inline"}
    BY <2>1
  <2> QED
    BY <1>i, <2>1, <2>2, <2>3, <2>4, AnnotationReturns
<1>7. CASE SetFlag \/ SetPrelude \/ PassiveTask
  <2>1. (\E e : TaskReturns(e)) /\ tree' = tree
        /\ t \notin {"bindings-compute", "types-compute", "parse", "inline"}
    BY <1>7 DEF SetFlag, SetPrelude, PassiveTask, Passive, compiler
  <2>2. "no-prelude" \notin flags'
    <3>1. Range(timer) = {t}
      BY DEF Range
    <3> QED
      BY <1>0, <1>7, <1>i, <3>1 DEF SetFlag, SetPrelude, PassiveTask, compiler, Bare
  <2> QED
    BY <1>i, <2>1, <2>2, AnnotationReturns
<1>8. CASE Desugar
  <2>1. t = "desugar" /\ tree.bound /\ tree.typed /\ tree.prelude
    BY <1>0, <1>8, <1>i DEF Desugar, Transforming
  <2>2. PICK lost \in BOOLEAN :
          LET d == Desugared(tree, lost) IN
          IF VisitFails \/ ~Passes(d) THEN TaskAborts /\ UNCHANGED compiler
          ELSE /\ \E e : TaskReturns(e)
               /\ tree' \in {Rechecked(d), [Rechecked(d) EXCEPT !.escapes = "computed"]}
               /\ flags' = flags
    BY <1>8 DEF Desugar, Replace
  <2> DEFINE d == Desugared(tree, lost)
  <2>3. /\ d \in TreeType /\ d.prelude = tree.prelude
        /\ d.loops \in {"none", tree.loops} /\ d.perils \subseteq tree.perils \union Broken
        /\ "unbound" \notin d.perils
        /\ "untyped" \in d.perils =>
             "lossy" \in tree.perils /\ "desugar-for" \in flags /\ tree.loops # "none"
    BY <1>i, <1>b, <2>1, DesugaredFacts
  <2> HIDE DEF d
  <2>4. CASE VisitFails \/ ~Passes(d)
    <3>1. Running("desugar") /\ "desugar-for" \in flags /\
            (source.loops = "computed" \/ (source.loops # "none" /\ "lossy" \in Perils))
      <4>1. CASE VisitFails
        BY <1>i, <2>1, <4>1 DEF VisitFails, Running
      <4>2. CASE ~Passes(d)
        BY <1>i, <2>1, <2>3, <4>2 DEF Passes, Broken, Running
      <4> QED
        BY <2>4, <4>1, <4>2
    <3>2. NamedCrash
      BY <3>1 DEF NamedCrash
    <3> QED
      BY <2>2, <2>4, <3>2, AnnotationCrashes DEF d
  <2>5. CASE ~(VisitFails \/ ~Passes(d))
    <3>1. /\ \E e : TaskReturns(e)
          /\ flags' = flags
          /\ tree' \in {Rechecked(d), [Rechecked(d) EXCEPT !.escapes = "computed"]}
      BY <2>2, <2>5 DEF d
    <3>2. tree' \in TreeType /\ tree'.bound /\ tree'.typed /\ tree'.prelude
          /\ tree'.loops = d.loops /\ tree'.perils = d.perils
      BY <2>1, <2>3, <3>1, RecheckedFacts
    <3>3. d.perils \subseteq tree.perils
      BY <2>3, <2>5 DEF Passes
    <3> QED
      BY <1>i, <2>1, <2>3, <3>1, <3>2, <3>3, AnnotationReturns
  <2> QED
    BY <2>4, <2>5
<1>9. CASE Inline
  <2>1. t = "inline" /\ tree.bound /\ tree.prelude
    BY <1>0, <1>9, <1>i DEF Inline, Transforming
  <2>2. CASE InlineFails
    <3>1. "hidden" \in Perils
      BY <1>i, <2>1, <2>2, NothingBroken DEF InlineFails
    <3>2. NamedCrash
      BY <2>1, <3>1 DEF NamedCrash, Running
    <3> QED
      BY <1>9, <2>2, <3>2, AnnotationCrashes DEF Inline
  <2>3. CASE ~InlineFails
    <3>1. PICK p \in SUBSET source.inlined :
            (\E e : TaskReturns(e)) /\ tree' = Rechecked(Inlined(tree, p)) /\ flags' = flags
      BY <1>9, <2>3 DEF Inline, Replace
    <3>2. p \in SUBSET Peril
      BY DEF CarefulList, StatusInv, SourceType
    <3> QED
      BY <1>i, <2>1, <3>1, <3>2, TreeFacts, AnnotationReturns
  <2> QED
    BY <2>2, <2>3
<1>10. CASE Rebuild
  <2>1. t \in Transforming \ {"inline"} /\ t # "parse" /\ tree.prelude
    BY <1>0, <1>10, <1>i DEF Rebuild, Transforming
  <2>2. (\E e : TaskReturns(e)) /\ tree' = Rechecked(Copy(tree)) /\ flags' = flags
    BY <1>10, NothingBroken DEF Rebuild, Replace
  <2> QED
    BY <1>i, <2>1, <2>2, TreeFacts, AnnotationReturns
<1>11. CASE Translate
  <2>1. t = "llvm-compute" /\ tree.bound /\ tree.typed
    BY <1>0, <1>11, <1>i DEF Translate
  <2>2. CASE "untranslatable" \in tree.perils
    <3>1. NamedCrash
      BY <1>i, <2>1, <2>2 DEF NamedCrash, Running
    <3> QED
      BY <1>11, <2>2, <3>1, AnnotationCrashes DEF Translate
  <2>3. CASE "untranslatable" \notin tree.perils
    <3>1. (\E e : TaskReturns(e)) /\ tree' = tree /\ flags' = flags
      BY <1>11, <2>1, <2>3 DEF Translate
    <3> QED
      BY <1>i, <2>1, <3>1, AnnotationReturns
  <2> QED
    BY <2>2, <2>3
<1>12. ASSUME NEW g \in Graph, ComputeGraph(g) PROVE AnnotationInv'
  <2>1. t \notin {"bindings-compute", "types-compute", "parse", "inline"}
        /\ (\E e : TaskReturns(e)) /\ tree' = tree /\ flags' = flags
    BY <1>12 DEF ComputeGraph, ComputeTask
  <2> QED
    BY <1>i, <2>1, AnnotationReturns
<1>13. ASSUME NEW g \in Graph, DumpGraph(g) PROVE AnnotationInv'
  <2>1. t = DumpTask(g) /\ t \notin {"bindings-compute", "types-compute", "parse", "inline"}
        /\ UNCHANGED compiler
    BY <1>13 DEF DumpGraph, DumpTask
  <2>2. CASE \E e : TaskReturns(e)
    BY <1>i, <2>1, <2>2, AnnotationReturns DEF compiler
  <2>3. CASE graphs[g] = "dangling" /\ TaskAborts
    <3>1. NamedCrash
      BY <2>1, <2>3 DEF NamedCrash, Running
    <3> QED
      BY <2>1, <2>3, <3>1, AnnotationCrashes
  <2> QED
    BY <1>13, <2>2, <2>3 DEF DumpGraph
<1> QED
  BY <1>1, <1>2, <1>3, <1>4, <1>5, <1>6, <1>7, <1>8, <1>9, <1>10, <1>11, <1>12, <1>13
     DEF RunningTask

\* The program is correct, and stays so.
NoFault == source.fault = "none"

LEMMA NoFaultInvariant ==
  ASSUME Careful
  PROVE  /\ PipelineInit => NoFault
         /\ TypeOK /\ StatusInv /\ NoFault /\ [PipelineNext]_allVars => NoFault'
<1>1. PipelineInit => NoFault
  BY DEF PipelineInit, NoFault, Careful
<1>2. ASSUME TypeOK, StatusInv, NoFault, [PipelineNext]_allVars PROVE NoFault'
  <2>1. error \in ErrorType /\ source \in SourceType
    BY <1>2 DEF TypeOK, StatusInv
  <2>2. RunningTask => source' = source
    BY <2>1, TaskEnds
  <2> QED
    BY <1>2, <2>2 DEF PipelineNext, Driver, allVars, compiler, NoFault
<1> QED
  BY <1>1, <1>2

LEMMA AnnotationInvInit == PipelineInit => AnnotationInv
<1> SUFFICES ASSUME PipelineInit PROVE AnnotationInv
  OBVIOUS
<1>1. \A t : ~Completed(t)
  BY DEF PipelineInit, Completed
<1>2. NoTree \in TreeType
  BY DEF NoTree, TreeType
<1> QED
  BY <1>1, <1>2 DEF PipelineInit, AnnotationInv, NoTree

\* A step of the driver that leaves what is being executed alone.
LEMMA AnnotationInvUnchanged ==
  ASSUME AnnotationInv, UNCHANGED <<next, timer, task_order, compiler>>,
         phase' # "crashed" \/ phase' = phase
  PROVE  AnnotationInv'
BY DEF AnnotationInv, Completed, NamedCrash, Running, Perils, compiler

LEMMA AnnotationInvNext ==
  ASSUME Careful
  PROVE  CarefulList /\ NoFault /\ AnnotationInv /\ [PipelineNext]_allVars
           => AnnotationInv'
<1> SUFFICES ASSUME CarefulList, NoFault, AnnotationInv, [PipelineNext]_allVars
             PROVE  AnnotationInv'
  OBVIOUS
<1> USE DEF static, options, running
<1>1. CASE Driver
  <2>0. UNCHANGED compiler
    BY <1>1 DEF Driver
  <2>1. ASSUME NEW o \in Offered, NEW a \in Argument \union {None}, Option(o, a)
        PROVE  AnnotationInv'
    BY <2>0, <2>1, AnnotationInvUnchanged DEF Option
  <2>2. CASE EndOptions(TRUE)
    BY <2>0, <2>2, AnnotationInvUnchanged DEF EndOptions, Exit
  <2>3. CASE CallDependency \/ NextDependency
    BY <2>0, <2>3, AnnotationInvUnchanged DEF CallDependency, NextDependency, AtDependency
  <2>4. CASE OverflowStack
    BY <2>4, NeverOverflows DEF Careful, CarefulList
  <2>5. CASE Schedule
    <3>1. /\ phase \in {"options", "ready"} /\ phase' = phase
          /\ next' = next /\ timer' = timer
      BY <2>5 DEF Schedule
    <3>2. next = 1 /\ timer = << >>
      BY <3>1 DEF CarefulList, RunInv, Progress
    <3>3. \A t : ~Completed(t)'
      BY <3>1, <3>2 DEF Completed
    <3>4. ~Completed("inline")
      BY <3>2 DEF Completed
    <3> QED
      BY <2>0, <3>1, <3>2, <3>3, <3>4 DEF AnnotationInv, Perils, compiler
  <2>6. CASE EnableDefault \/ StartExecution \/ EndExecution
    BY <2>0, <2>6, AnnotationInvUnchanged DEF EnableDefault, StartExecution, EndExecution, Exit
  <2>7. CASE StartTask
    <3>1. /\ timer' = <<task_order[next]>> /\ next <= Len(task_order)
          /\ UNCHANGED <<next, task_order, phase>> /\ phase = "execute"
      BY <2>7 DEF StartTask
    <3> QED
      BY <2>0, <3>1 DEF AnnotationInv, Completed, Perils, compiler
  <2>8. CASE Ended
    BY <2>0, <2>8, AnnotationInvUnchanged DEF Ended, vars
  <2> QED
    BY <1>1, <2>1, <2>2, <2>3, <2>4, <2>5, <2>6, <2>7, <2>8 DEF Driver, ResolveNext
<1>2. CASE RunningTask
  <2>1. error \in ErrorType /\ source \in SourceType
    BY DEF CarefulList, TypeOK, StatusInv
  <2>2. PICK t : timer = <<t>> /\ phase = "execute" /\ source' = source
    BY <1>2, <2>1, TaskEnds
  <2>3. ~Misread
    <3>1. \A i \in DOMAIN ran : ran[i][1] \in Range(task_order)
      BY DEF CarefulList, RunInv, RunsInOrder, TypeOK, Range
    <3>2. "raw-desugar" \notin Range(task_order)
      BY DEF CarefulList, ListInv, Bare
    <3> QED
      BY <3>1, <3>2 DEF Misread, HasRun
  <2>4. error = success
    BY <2>2, <2>3 DEF CarefulList, StatusInv, StatusOf, NoFault
  <2> QED
    BY <1>2, <2>2, <2>4, AnnotationTask DEF CarefulList, NoFault
<1>3. CASE UNCHANGED allVars
  BY <1>3, AnnotationInvUnchanged DEF allVars, vars
<1> QED
  BY <1>1, <1>2, <1>3 DEF PipelineNext

LEMMA AnnotationInvariant ==
  ASSUME Careful PROVE PipelineSpec => [](CarefulList /\ AnnotationInv)
<1> DEFINE Base == /\ TypeOK /\ RunInv /\ StatusInv /\ TreeInv /\ ScheduleInv /\ SearchInv
                   /\ ListInv /\ NoFault
           Inv == Base /\ AnnotationInv
<1>1. PipelineInit => Base
  <2>1. PipelineInit => RunInv
    BY DEF PipelineInit, RunInv, Progress, RunsInOrder
  <2>2. PipelineInit => ScheduleInv
    BY DEF PipelineInit, ScheduleInv, QuietStart, CallsResolving, DependenciesFirst
  <2> QED
    BY <2>1, <2>2, PipelineTypeInit, StatusInvInit, PipelineSearchInit, ListInvInit,
       NoFaultInvariant
<1>2. Base /\ [PipelineNext]_allVars => Base'
  <2> SUFFICES ASSUME Base, [PipelineNext]_allVars PROVE Base'
    OBVIOUS
  <2>1. [Next]_vars
    BY StepsOfTheRegister DEF StatusInv
  <2>2. TypeOK' /\ RunInv' /\ ScheduleInv'
    BY <2>1, TypeNext, RunInvNext, ScheduleInvNext
  <2>3. SearchInv'
    BY <2>1, SearchInvNext DEF ScheduleInv
  <2>4. StatusInv' /\ TreeInv' /\ ListInv' /\ NoFault'
    BY StatusInvNext, TreeInvNext, ListInvNext, NoFaultInvariant
  <2> QED
    BY <2>2, <2>3, <2>4
<1>3. Base => CarefulList
  BY DEF CarefulList, ScheduleInv, SearchInv, Careful
<1>4. Base /\ AnnotationInv /\ [PipelineNext]_allVars => AnnotationInv'
  BY <1>3, AnnotationInvNext
<1> HIDE DEF Base
<1>5. PipelineInit => Inv
  BY <1>1, AnnotationInvInit
<1>6. Inv /\ [PipelineNext]_allVars => Inv'
  BY <1>2, <1>4
<1>7. Inv => CarefulList /\ AnnotationInv
  BY <1>3
<1> QED
  BY <1>5, <1>6, <1>7, PTL DEF PipelineSpec

\* Every task of a careful selection finds on its tree the bindings and the
\* types it reads, whatever transformed the tree in between and in whatever
\* order the user asked (libtype.hh, libdesugar.hh, libinlining.hh, libllvmtranslate.hh).
THEOREM AnnotationsFound == ASSUME Careful PROVE PipelineSpec => []FindsAnnotations
BY AnnotationInvariant, AnnotationsThere, PTL

\* A task of a careful selection only crashes on a correct program if it prints
\* a graph after its tree, or if the program, as it is written or inlined, has
\* what that very task cannot take: a loop that is lost in text or has a
\* computed lower bound, a recursion in the arguments of a call, something
\* untranslatable.  No order of the tasks adds to these (the checks of the new
\* trees in libdesugar.hxx and inlining/libinlining.cc, the visitors'
\* dynamic_casts, and the contracts of the tasks).
THEOREM TasksSurvive == ASSUME Careful PROVE PipelineSpec => []NoTaskCrashes
<1>1. AnnotationInv => NoTaskCrashes
  BY DEF AnnotationInv, NoTaskCrashes
<1> QED
  BY <1>1, AnnotationInvariant, PTL

-----------------------------------------------------------------------------
(* The list of a selection that leaves desugaring to the translator.       *)

\* No task is resolved twice at the same time.
LEMMA FramesDiffer ==
  ASSUME Shallow, TypeOK, SearchInv, NEW j \in DOMAIN calls, NEW k \in DOMAIN calls,
         calls[j].task = calls[k].task
  PROVE  j = k
<1>1. PICK rank \in [Name -> Nat] : RankedBy(rank, decl)
  BY ShallowRanks
<1>2. /\ j < k => rank[Named(k)] < rank[Named(j)]
      /\ k < j => rank[Named(j)] < rank[Named(k)]
  BY <1>1 DEF SearchInv
<1>3. Named(j) = Named(k) /\ Named(j) \in Name
  BY NamedType DEF Named
<1>4. j \in Nat /\ k \in Nat /\ rank[Named(j)] \in Nat
  BY <1>3 DEF TypeOK
<1> QED
  BY <1>2, <1>3, <1>4

\* Where the desugaring and its flags are in what remains.
LEMMA LeftDesugar ==
  ASSUME NEW rest \in Remaining
  PROVE  /\ {"desugar", "desugar-for", "desugar-string-cmp"} \subseteq Range(Needed)
         /\ "desugar" \notin Range(rest) => rest \in {<<"escapes-compute">>, << >>}
         /\ rest # << >> =>
              /\ Tail(rest) \in Remaining
              /\ Range(rest) = {Head(rest)} \union Range(Tail(rest))
              /\ Head(rest) = "desugar" =>
                   /\ Range(rest) = {"desugar", "escapes-compute"}
                   /\ "desugar" \notin Range(Tail(rest))
              /\ "desugar" \in Range(rest) \ Range(Tail(rest)) => Head(rest) = "desugar"
<1>1. Range(Needed) = {"typed", "desugar-for", "desugar-string-cmp", "desugar",
                       "escapes-compute"}
  BY DEF Needed, Range
<1>2. CASE rest = Needed
  BY <1>1, <1>2 DEF Needed, Remaining, Range
<1>3. CASE rest = <<"desugar-for", "desugar-string-cmp", "desugar", "escapes-compute">>
  BY <1>1, <1>3 DEF Remaining, Range
<1>4. CASE rest = <<"desugar-string-cmp", "desugar", "escapes-compute">>
  BY <1>1, <1>4 DEF Remaining, Range
<1>5. CASE rest = <<"desugar", "escapes-compute">>
  BY <1>1, <1>5 DEF Remaining, Range
<1>6. CASE rest = <<"escapes-compute">>
  BY <1>1, <1>6 DEF Remaining, Range
<1>7. CASE rest = << >>
  BY <1>1, <1>7 DEF Range
<1> QED
  BY <1>2, <1>3, <1>4, <1>5, <1>6, <1>7 DEF Remaining

LEMMA DesugarsFirstInit == PipelineInit => DesugarsFirst
<1> SUFFICES ASSUME PipelineInit PROVE DesugarsFirst
  OBVIOUS
<1>1. DOMAIN calls = {} /\ DOMAIN task_order = {} /\ Range(task_order) = {}
      /\ calls = << >>
  BY DEF PipelineInit, Range
<1> QED
  BY <1>1 DEF DesugarsFirst

LEMMA DesugarsFirstUnchanged ==
  ASSUME DesugarsFirst, UNCHANGED <<task_order, calls>> PROVE DesugarsFirst'
BY DEF DesugarsFirst, TranslatorFrame, Settled

\* The frame of the translator is not disturbed by a task that is entered
\* above it, nor by one that is appended, as long as what it has settled stays.
LEMMA TranslatorFrameEnter ==
  ASSUME NEW n \in Nat, DOMAIN calls = 1 .. n, DOMAIN calls' = 1 .. n + 1,
         Len(calls) = n, Len(calls') = n + 1,
         \A i \in 1 .. n : calls'[i] = calls[i], task_order' = task_order,
         NEW k \in 1 .. n, TranslatorFrame(k),
         "desugar" \in Range(calls[k].rest) => "desugar" \notin Range(task_order),
         "desugar" \notin Range(calls[k].rest) => calls'[n + 1].task \in Quiet
  PROVE  TranslatorFrame(k)'
BY DEF TranslatorFrame, Settled

\* What may be entered: an option, the default, or a dependency which is not
\* scheduled.
LEMMA DesugarsFirstEnter ==
  ASSUME Ready, TypeOK, SearchInv, ListInv, DesugarsFirst, NEW o \in Object \ Bare,
         Enter(o), UNCHANGED <<decl, task_list, task_order>>,
         \/ calls = << >> /\ o \notin {"desugar", "desugared", "llvm-compute"}
         \/ /\ calls # << >> /\ o \notin Range(task_order)
            /\ calls[Len(calls)].rest # << >> /\ o = Head(calls[Len(calls)].rest)
            /\ o \in Dependencies(calls[Len(calls)].task)
  PROVE  DesugarsFirst'
<1>n. PICK n \in Nat : n = Len(calls)
  BY DEF TypeOK
<1>0. Annotating(decl) /\ Shallow /\ DesugarsLate(decl) /\ decl' = decl
  BY DEF Ready, Careful, SearchInv
<1>1. /\ DOMAIN calls = 1 .. n
      /\ DOMAIN calls' = 1 .. n + 1
      /\ Len(calls') = n + 1
      /\ \A i \in 1 .. n : calls'[i] = calls[i]
      /\ calls'[n + 1].task = o
      /\ calls'[n + 1].rest = Wanted(o)
  BY <1>n, EnterFacts
<1>2. (calls = << >> <=> n = 0) /\ \A k \in DOMAIN calls : calls[k].task \in Object \ Bare
  <2>1. calls = << >> <=> n = 0
    BY <1>n DEF TypeOK
  <2> QED
    BY <2>1, NamedType DEF ListInv
<1>3. calls # << >> => n \in DOMAIN calls /\ \A k \in DOMAIN calls : calls[k].task # o
  <2> SUFFICES ASSUME calls # << >>, NEW k \in DOMAIN calls, calls[k].task = o
               PROVE  FALSE
    BY <1>1, <1>2
  <2>1. PICK rank \in [Name -> Nat] : RankedBy(rank, decl)
    BY <1>0, ShallowRanks
  <2>2. n \in DOMAIN calls /\ o \in Dependencies(calls[n].task)
    BY <1>n, <1>1, <1>2
  <2>3. calls[n].task \in Object /\ Named(n) \in Name /\ Named(k) \in Name
    BY <2>2, NamedType
  <2>4. decl[o].name = o /\ Named(k) = o /\ DOMAIN decl = Object
    BY <1>0 DEF Annotating, Named, TypeOK, DeclarationType
  <2>5. rank[o] < rank[Named(n)]
    BY <2>1, <2>2, <2>3, <2>4 DEF RankedBy, Named, Dependencies
  <2>6. k = n \/ rank[Named(n)] < rank[Named(k)]
    BY <1>1, <2>1, <2>2 DEF SearchInv
  <2> QED
    BY <2>1, <2>3, <2>4, <2>5, <2>6
<1>4. o # "desugared"
  BY <1>n, <1>0, <1>2, <1>3 DEF DesugarsLate, Dependencies
<1>5. calls'[1].task \notin {"desugar", "llvm-compute"}
  BY <1>1, <1>2 DEF DesugarsFirst
<1>6. \A k \in DOMAIN calls' : k > 1 =>
        calls'[k - 1].rest # << >> /\ Head(calls'[k - 1].rest) = calls'[k].task
  <2> SUFFICES ASSUME NEW k \in 1 .. n + 1, k > 1
               PROVE  calls'[k - 1].rest # << >> /\ Head(calls'[k - 1].rest) = calls'[k].task
    BY <1>1
  <2>1. CASE k = n + 1
    <3>1. k - 1 = n /\ calls # << >> /\ calls'[n] = calls[n]
      BY <1>1, <1>2, <2>1
    <3> QED
      BY <1>n, <1>1, <2>1, <3>1
  <2>2. CASE k \in 1 .. n
    <3>1. calls'[k] = calls[k] /\ calls'[k - 1] = calls[k - 1] /\ k \in DOMAIN calls
      BY <1>1, <2>2
    <3> QED
      BY <3>1 DEF DesugarsFirst
  <2> QED
    BY <1>1, <2>1, <2>2
<1>7. ASSUME NEW k \in 1 .. n, calls[k].task = "llvm-compute"
      PROVE  TranslatorFrame(k)'
  <2>1. TranslatorFrame(k)
    BY <1>1, <1>7 DEF DesugarsFirst
  <2>2. /\ calls # << >> /\ o \notin Range(task_order)
        /\ calls[n].rest # << >> /\ o = Head(calls[n].rest)
        /\ o \in Dependencies(calls[n].task) /\ n \in DOMAIN calls
    BY <1>n, <1>1, <1>2, <1>7
  <2>3. "desugar" \in Range(calls[k].rest) => "desugar" \notin Range(task_order)
    BY <1>n, <2>1, <2>2 DEF TranslatorFrame
  <2>4. ASSUME "desugar" \notin Range(calls[k].rest) PROVE o \in Quiet
    <3>1. CASE k = n
      <4>1. calls[n].rest = <<"escapes-compute">>
        BY <2>1, <2>2, <2>4, <3>1, LeftDesugar DEF TranslatorFrame
      <4>2. o = "escapes-compute"
        BY <2>2, <4>1
      <4> QED
        BY <4>2 DEF Quiet
    <3>2. CASE k < n
      <4>1. calls[n].task \in Quiet /\ calls[n].task \in Object
        BY <1>2, <2>1, <2>2, <2>4, <3>2 DEF TranslatorFrame
      <4> QED
        BY <1>0, <2>2, <4>1 DEF DesugarsLate, Dependencies
    <3> QED
      BY <1>1, <3>1, <3>2
  <2> QED
    BY <1>n, <1>1, <2>1, <2>3, <2>4, TranslatorFrameEnter
<1>8. ASSUME o = "llvm-compute" PROVE TranslatorFrame(n + 1)'
  <2>1. Wanted(o) = Needed
    BY <1>0, <1>8 DEF DesugarsLate, Wanted
  <2>2. "desugar" \notin Range(task_order)
    <3>1. calls # << >> /\ "llvm-compute" \notin Range(task_order)
      BY <1>8
    <3> QED
      BY <1>3, <1>8, <3>1 DEF DesugarsFirst
  <2>3. calls'[n + 1].rest = Needed /\ Needed \in Remaining
    BY <1>1, <2>1 DEF Remaining
  <2>4. {"desugar", "desugar-for", "desugar-string-cmp"} \subseteq Range(Needed)
    BY <2>3, LeftDesugar
  <2> QED
    BY <2>2, <2>3, <2>4 DEF TranslatorFrame
<1>9. \A k \in DOMAIN calls' : calls'[k].task = "llvm-compute" => TranslatorFrame(k)'
  BY <1>1, <1>7, <1>8
<1>10. \A k \in DOMAIN calls' : calls'[k].task # "desugared"
  BY <1>1, <1>4 DEF DesugarsFirst
<1>11. \A k \in DOMAIN calls : k \in DOMAIN calls' /\ calls'[k] = calls[k]
  BY <1>1
<1> QED
  BY <1>5, <1>6, <1>9, <1>10, <1>11 DEF DesugarsFirst, Settled

\* The loop over the dependencies drops the first that remains.
LEMMA NextDependencyTail ==
  ASSUME TypeOK, NextDependency, NEW n \in Nat, n = Len(calls)
  PROVE  /\ \A i \in 1 .. n - 1 : calls'[i] = calls[i]
         /\ calls[n].rest # << >> /\ calls'[n].rest = Tail(calls[n].rest)
         /\ Head(calls[n].rest) \in Name /\ ~NeedsCall(Head(calls[n].rest))
<1>1. PICK d \in Name : /\ AtDependency(d) /\ ~NeedsCall(d)
                        /\ calls' = [calls EXCEPT ![Len(calls)].rest = Tail(@)]
  BY DEF NextDependency
<1>2. calls \in Seq(Frame) /\ calls # << >> /\ Last(calls).rest # << >>
      /\ d = Head(Last(calls).rest)
  BY <1>1 DEF AtDependency, TypeOK
<1>3. calls[n] \in Frame /\ calls[n] = Last(calls) /\ n \in Nat \ {0}
      /\ DOMAIN calls = 1 .. n
  <2>1. /\ n \in Nat \ {0} /\ Last(calls) \in Frame
        /\ Last(calls) = calls[n]
    BY <1>2, FrontLast
  <2> QED
    BY <1>2, <2>1
<1>4. calls'[n] = [calls[n] EXCEPT !.rest = Tail(@)]
      /\ \A i \in 1 .. n - 1 : calls'[i] = calls[i]
  BY <1>1, <1>3
<1> QED
  BY <1>1, <1>2, <1>3, <1>4 DEF Frame

LEMMA DesugarsFirstNextDependency ==
  ASSUME TypeOK, StatusInv, SearchInv, Annotating(decl), DesugarsFirst, NextDependency
  PROVE  DesugarsFirst'
<1>n. PICK n \in Nat : n = Len(calls)
  BY DEF TypeOK
<1>1. /\ n \in Nat \ {0} /\ DOMAIN calls = 1 .. n /\ DOMAIN calls' = 1 .. n
      /\ Len(calls') = n
      /\ \A i \in 1 .. n : calls'[i].task = calls[i].task
      /\ calls # << >> /\ task_order' = task_order
  BY <1>n, NextDependencyFacts DEF NextDependency
<1>2. /\ \A i \in 1 .. n - 1 : calls'[i] = calls[i]
      /\ calls[n].rest # << >> /\ calls'[n].rest = Tail(calls[n].rest)
      /\ Head(calls[n].rest) \in Name /\ ~NeedsCall(Head(calls[n].rest))
  BY <1>n, NextDependencyTail
<1>3. Head(calls[n].rest) \in Range(task_order)
  <2>1. task_list[Head(calls[n].rest)] = Head(calls[n].rest)
    BY <1>2, NamedObject DEF StatusInv
  <2> QED
    BY <1>2, <2>1, ScheduledRange DEF NeedsCall, StatusInv
<1>4. ASSUME NEW k \in 1 .. n - 1, TranslatorFrame(k) PROVE TranslatorFrame(k)'
  <2>1. calls'[k] = calls[k] /\ k # n
    BY <1>1, <1>2
  <2> QED
    BY <1>n, <1>1, <1>4, <2>1 DEF TranslatorFrame, Settled
<1>5. ASSUME TranslatorFrame(n) PROVE \A k : k = n => TranslatorFrame(k)'
  <2> SUFFICES ASSUME NEW k, k = n PROVE TranslatorFrame(k)'
    OBVIOUS
  <2> DEFINE rest == calls[n].rest
             left == Tail(rest)
  <2>1. rest \in Remaining /\ rest # << >> /\ calls'[k].rest = left
    BY <1>2, <1>5 DEF TranslatorFrame
  <2>2. /\ left \in Remaining
        /\ Range(rest) = {Head(rest)} \union Range(left)
        /\ Head(rest) = "desugar" =>
             Range(rest) = {"desugar", "escapes-compute"} /\ "desugar" \notin Range(left)
        /\ "desugar" \in Range(rest) \ Range(left) => Head(rest) = "desugar"
    BY <2>1, LeftDesugar
  <2>3. /\ \A t \in {"desugar-for", "desugar-string-cmp"} :
             t \in Range(rest) \/ t \in Range(task_order)
        /\ "desugar" \in Range(rest) /\ "desugar" \in Range(task_order) =>
             Head(rest) = "desugar" /\ Settled(Len(task_order))
        /\ "desugar" \notin Range(rest) => Settled(Len(task_order))
    BY <1>5 DEF TranslatorFrame
  <2> HIDE DEF rest, left
  <2>4. Head(rest) \in Range(task_order)
    BY <1>3 DEF rest
  <2>5. \A t \in {"desugar-for", "desugar-string-cmp"} :
          t \in Range(left) \/ t \in Range(task_order)
    BY <2>2, <2>3, <2>4
  <2>6. "desugar" \in Range(left) => "desugar" \notin Range(task_order)
    BY <2>2, <2>3
  <2>7. "desugar" \notin Range(left) => Settled(Len(task_order))
    BY <2>2, <2>3, <2>4
  <2>8. Settled(Len(task_order)) => Settled(Len(task_order))'
    BY <1>1 DEF Settled
  <2>9. \A m \in DOMAIN calls' : ~(m > k)
    BY <1>1
  <2> QED
    BY <1>1, <2>1, <2>2, <2>5, <2>6, <2>7, <2>8, <2>9 DEF TranslatorFrame
<1>6. \A k \in DOMAIN calls' : calls'[k].task = "llvm-compute" => TranslatorFrame(k)'
  <2> SUFFICES ASSUME NEW k \in 1 .. n, calls'[k].task = "llvm-compute"
               PROVE  TranslatorFrame(k)'
    BY <1>1
  <2>1. TranslatorFrame(k)
    BY <1>1 DEF DesugarsFirst
  <2> QED
    BY <1>1, <1>4, <1>5, <2>1
<1>7. \A k \in DOMAIN calls' : k > 1 =>
        calls'[k - 1].rest # << >> /\ Head(calls'[k - 1].rest) = calls'[k].task
  BY <1>1, <1>2 DEF DesugarsFirst
<1>8. /\ \A k \in DOMAIN calls' : calls'[k].task # "desugared"
      /\ calls'[1].task \notin {"desugar", "llvm-compute"}
  BY <1>1 DEF DesugarsFirst
<1>9. \A k \in DOMAIN calls : k \in DOMAIN calls' /\ calls'[k].task = calls[k].task
  BY <1>1
<1> QED
  BY <1>1, <1>6, <1>7, <1>8, <1>9 DEF DesugarsFirst, Settled

\* What was settled stays settled when a quiet task is appended.
LEMMA SettledAppend ==
  ASSUME NEW m \in Nat, NEW t, DOMAIN task_order' = 1 .. m + 1,
         \A i \in 1 .. m : task_order'[i] = task_order[i], task_order'[m + 1] = t
  PROVE  /\ \A i \in 0 .. m : Settled(i)' <=> Settled(i)
         /\ \A i : i = m + 1 =>
              (Settled(i)' <=> t = "desugar" \/ (t \in Quiet /\ Settled(m)))
<1>1. \A i \in 0 .. m : Settled(i)' <=> Settled(i)
  BY DEF Settled
<1>2. ASSUME NEW i, i = m + 1
      PROVE  Settled(i)' <=> t = "desugar" \/ (t \in Quiet /\ Settled(m))
  <2>1. ASSUME Settled(i)' PROVE t = "desugar" \/ (t \in Quiet /\ Settled(m))
    <3>1. PICK p \in 1 .. m + 1 :
            task_order'[p] = "desugar" /\ \A j \in p + 1 .. m + 1 : task_order'[j] \in Quiet
      BY <1>2, <2>1 DEF Settled
    <3>2. CASE p = m + 1
      BY <3>1, <3>2
    <3>3. CASE p \in 1 .. m
      <4>1. t \in Quiet /\ \A j \in p + 1 .. m : task_order[j] \in Quiet
        BY <3>1, <3>3
      <4> QED
        BY <3>1, <3>3, <4>1 DEF Settled
    <3> QED
      BY <3>2, <3>3
  <2>2. ASSUME t = "desugar" PROVE Settled(i)'
    BY <1>2, <2>2 DEF Settled
  <2>3. ASSUME t \in Quiet, Settled(m) PROVE Settled(i)'
    <3>1. PICK p \in 1 .. m :
            task_order[p] = "desugar" /\ \A j \in p + 1 .. m : task_order[j] \in Quiet
      BY <2>3 DEF Settled
    <3>2. task_order'[p] = "desugar" /\ \A j \in p + 1 .. m + 1 : task_order'[j] \in Quiet
      BY <2>3, <3>1
    <3> QED
      BY <1>2, <3>2 DEF Settled
  <2> QED
    BY <2>1, <2>2, <2>3
<1> QED
  BY <1>1, <1>2

LEMMA DesugarsFirstSchedule ==
  ASSUME Ready, TypeOK, SearchInv, ListInv, DesugarsFirst, Schedule
  PROVE  DesugarsFirst'
<1>n. PICK n \in Nat : n = Len(calls)
  BY DEF TypeOK
<1>m. PICK m \in Nat : m = Len(task_order)
  BY DEF TypeOK
<1>t. PICK t \in Object : t = calls[n].task
  BY <1>n, ScheduleFacts
<1>0. Annotating(decl) /\ Shallow /\ DesugarsLate(decl)
  BY DEF Ready, Careful, SearchInv
<1>1. /\ n \in Nat \ {0} /\ DOMAIN calls = 1 .. n /\ DOMAIN calls' = 1 .. n - 1
      /\ Len(calls') = n - 1
      /\ \A i \in 1 .. n - 1 : calls'[i] = calls[i]
      /\ task_order' = Append(task_order, t)
      /\ Range(task_order') = Range(task_order) \union {t}
  BY <1>n, <1>t, ScheduleFacts
<1>2. /\ DOMAIN task_order' = 1 .. m + 1
      /\ \A i \in 1 .. m : task_order'[i] = task_order[i]
      /\ task_order'[m + 1] = t
      /\ DOMAIN task_order = 1 .. m
  BY <1>1, <1>m, GrowingList
<1>3. /\ \A i \in 0 .. m : Settled(i)' <=> Settled(i)
      /\ \A i : i = m + 1 =>
           (Settled(i)' <=> t = "desugar" \/ (t \in Quiet /\ Settled(m)))
  BY <1>2, SettledAppend
<1>4. Len(task_order)' = m + 1
  BY <1>1, <1>m DEF TypeOK
<1>5. calls[n].rest = << >> /\ calls # << >>
  <2>1. Last(calls) = calls[n] /\ calls # << >> /\ Last(calls).rest = << >>
    BY <1>n, FrontLast DEF Schedule, TypeOK
  <2> QED
    BY <2>1
\* The desugaring is left by the translator that called it.
<1>6. ASSUME t = "desugar"
      PROVE  /\ n > 1 /\ calls[n - 1].task = "llvm-compute" /\ n - 1 \in DOMAIN calls
             /\ calls[n - 1].rest # << >> /\ Head(calls[n - 1].rest) = "desugar"
  <2>1. n > 1
    BY <1>1, <1>5, <1>6, <1>t DEF DesugarsFirst
  <2>2. n - 1 \in DOMAIN calls /\ n \in DOMAIN calls
    BY <1>1, <2>1
  <2>3. calls[n - 1].rest # << >> /\ Head(calls[n - 1].rest) = "desugar"
    BY <1>6, <1>t, <2>1, <2>2 DEF DesugarsFirst
  <2>4. calls[n - 1] \in Frame
    BY <2>2 DEF TypeOK
  <2>5. "desugar" \in Range(calls[n - 1].rest)
    BY <2>3, <2>4 DEF Frame, Range
  <2>6. "desugar" \in Dependencies(calls[n - 1].task)
        /\ calls[n - 1].task \in Object \ Bare /\ calls[n - 1].task # "desugared"
    BY <2>2, <2>4, <2>5 DEF SearchInv, ListInv, DesugarsFirst, Frame
  <2> QED
    BY <1>0, <2>1, <2>2, <2>3, <2>6 DEF DesugarsLate, Dependencies
<1>7. \A k \in 1 .. n - 1 : calls[k].task # t
  <2>1. \A k \in 1 .. n - 1 : k \in DOMAIN calls /\ k # n
    BY <1>1
  <2>2. n \in DOMAIN calls
    BY <1>1
  <2> QED
    BY <1>0, <1>t, <2>1, <2>2, FramesDiffer
<1>8. ASSUME NEW k \in 1 .. n - 1, calls[k].task = "llvm-compute"
      PROVE  TranslatorFrame(k)'
  <2>1. TranslatorFrame(k) /\ k \in DOMAIN calls /\ k # n /\ k < n /\ calls'[k] = calls[k]
    BY <1>1, <1>8 DEF DesugarsFirst
  <2>2. CASE "desugar" \notin Range(calls[k].rest)
    <3>1. Settled(m) /\ t \in Quiet
      BY <1>1, <1>m, <1>t, <2>1, <2>2 DEF TranslatorFrame
    <3>2. \A i : i = m + 1 => Settled(i)'
      BY <1>3, <3>1
    <3>3. Settled(Len(task_order))'
      BY <1>4, <3>2 DEF Settled
    <3>4. \A i \in DOMAIN calls' : i > k => calls'[i].task \in Quiet
      BY <1>1, <2>1, <2>2 DEF TranslatorFrame
    <3> QED
      BY <1>1, <2>1, <2>2, <3>3, <3>4 DEF TranslatorFrame
  <2>3. CASE "desugar" \in Range(calls[k].rest)
    <3>1. "desugar" \notin Range(task_order)
      BY <1>n, <2>1, <2>3 DEF TranslatorFrame
    <3>2. CASE t # "desugar"
      BY <1>1, <2>1, <2>3, <3>1, <3>2 DEF TranslatorFrame
    <3>3. CASE t = "desugar"
      <4>1. k = n - 1 /\ Head(calls[k].rest) = "desugar"
        <5>1. n - 1 = k
          BY <1>0, <1>6, <1>8, <2>1, <3>3, FramesDiffer
        <5> QED
          BY <1>6, <3>3, <5>1
      <4>2. \A i : i = m + 1 => Settled(i)'
        BY <1>3, <3>3
      <4>3. Settled(Len(task_order))'
        BY <1>4, <4>2 DEF Settled
      <4> QED
        BY <1>1, <2>1, <2>3, <4>1, <4>3 DEF TranslatorFrame
    <3> QED
      BY <3>2, <3>3
  <2> QED
    BY <2>2, <2>3
<1>9. \A k \in DOMAIN calls' : calls'[k].task = "llvm-compute" => TranslatorFrame(k)'
  BY <1>1, <1>8
<1>10. /\ \A k \in DOMAIN calls' : calls'[k].task # "desugared"
       /\ calls' # << >> => calls'[1].task \notin {"desugar", "llvm-compute"}
  <2>1. calls' # << >> => 1 \in DOMAIN calls'
    BY <1>1 DEF Schedule
  <2> QED
    BY <1>1, <1>5, <2>1 DEF DesugarsFirst
<1>11. \A k \in DOMAIN calls' : k > 1 =>
        calls'[k - 1].rest # << >> /\ Head(calls'[k - 1].rest) = calls'[k].task
  <2> SUFFICES ASSUME NEW k \in 1 .. n - 1, k > 1
               PROVE  calls'[k - 1].rest # << >> /\ Head(calls'[k - 1].rest) = calls'[k].task
    BY <1>1
  <2>1. calls'[k] = calls[k] /\ calls'[k - 1] = calls[k - 1] /\ k \in DOMAIN calls
    BY <1>1
  <2> QED
    BY <2>1 DEF DesugarsFirst
<1>12. "desugar" \in Range(task_order') /\ "llvm-compute" \notin Range(task_order') =>
         \E k \in DOMAIN calls' : calls'[k].task = "llvm-compute"
  <2> SUFFICES ASSUME "desugar" \in Range(task_order'),
                      "llvm-compute" \notin Range(task_order')
               PROVE  \E k \in 1 .. n - 1 : calls'[k].task = "llvm-compute"
    BY <1>1
  <2>1. CASE t = "desugar"
    <3>1. n - 1 \in 1 .. n - 1 /\ calls'[n - 1].task = "llvm-compute"
      BY <1>1, <1>6, <2>1
    <3> QED
      BY <3>1
  <2>2. CASE t # "desugar"
    <3>1. PICK k \in DOMAIN calls : calls[k].task = "llvm-compute"
      BY <1>1, <2>2 DEF DesugarsFirst
    <3>2. k # n
      BY <1>1, <1>t, <3>1
    <3> QED
      BY <1>1, <3>1, <3>2
  <2> QED
    BY <2>1, <2>2
<1>13. ASSUME NEW i \in DOMAIN task_order', task_order'[i] = "desugar",
              NEW u \in {"desugar-for", "desugar-string-cmp"}
       PROVE  \E j \in 1 .. i - 1 : task_order'[j] = u
  <2>1. CASE i \in 1 .. m
    <3>1. PICK j \in 1 .. i - 1 : task_order[j] = u
      BY <1>2, <1>13, <2>1 DEF DesugarsFirst
    <3>2. j \in 1 .. m
      BY <2>1
    <3> QED
      BY <1>2, <3>1, <3>2
  <2>2. CASE i = m + 1
    <3>1. t = "desugar"
      BY <1>2, <1>13, <2>2
    <3>2. TranslatorFrame(n - 1) /\ calls[n - 1].rest # << >>
          /\ Head(calls[n - 1].rest) = "desugar"
      BY <1>6, <3>1 DEF DesugarsFirst
    <3>3. Range(calls[n - 1].rest) = {"desugar", "escapes-compute"}
      BY <3>2, LeftDesugar DEF TranslatorFrame
    <3>4. u \in Range(task_order)
      BY <3>2, <3>3 DEF TranslatorFrame
    <3>5. PICK j \in 1 .. m : task_order[j] = u
      BY <1>2, <3>4 DEF Range
    <3> QED
      BY <1>2, <2>2, <3>5
  <2> QED
    BY <1>2, <2>1, <2>2
<1>14. ASSUME NEW i \in DOMAIN task_order', task_order'[i] = "llvm-compute"
       PROVE  Settled(i - 1)'
  <2>1. PICK p \in 0 .. m : p = i - 1
    BY <1>2
  <2>2. Settled(p)
    <3>1. CASE i \in 1 .. m
      BY <1>2, <1>14, <2>1, <3>1 DEF DesugarsFirst
    <3>2. CASE i = m + 1
      <4>1. t = "llvm-compute" /\ n \in DOMAIN calls
        BY <1>1, <1>2, <1>14, <3>2
      <4>2. TranslatorFrame(n)
        BY <1>t, <4>1 DEF DesugarsFirst
      <4>3. Range(calls[n].rest) = {}
        BY <1>5 DEF Range
      <4> QED
        BY <1>m, <2>1, <3>2, <4>2, <4>3 DEF TranslatorFrame
    <3> QED
      BY <1>2, <3>1, <3>2
  <2>3. Settled(p)'
    BY <1>3, <2>1, <2>2
  <2> QED
    BY <2>1, <2>3
<1> QED
  BY <1>9, <1>10, <1>11, <1>12, <1>13, <1>14 DEF DesugarsFirst

LEMMA DesugarsFirstNext ==
  ASSUME Ready
  PROVE  /\ TypeOK /\ StatusInv /\ SearchInv /\ ListInv /\ DesugarsFirst
         /\ [PipelineNext]_allVars
         => DesugarsFirst'
<1> SUFFICES ASSUME TypeOK, StatusInv, SearchInv, ListInv, DesugarsFirst,
                    [PipelineNext]_allVars
             PROVE  DesugarsFirst'
  OBVIOUS
<1> USE DEF static, options, running
<1>0. Annotating(decl) /\ Shallow /\ Careful
  BY DEF Ready, Careful, SearchInv
<1>1. CASE Driver
  <2>1. ASSUME NEW o \in Offered, NEW a \in Argument \union {None}, Option(o, a)
        PROVE  DesugarsFirst'
    <3>1. o \in Object \ Bare /\ o \notin {"desugar", "desugared", "llvm-compute"}
      BY TableAssumption DEF Ready, Careful
    <3> QED
      BY <2>1, <3>1, DesugarsFirstEnter DEF Option
  <2>2. CASE CallDependency
    <3>1. PICK d \in Name :
            /\ AtDependency(d) /\ NeedsCall(d) /\ Enter(task_list[d])
            /\ UNCHANGED <<static, task_order>>
      BY <2>2 DEF CallDependency
    <3> DEFINE n == Len(calls)
    <3>2. /\ calls # << >> /\ n \in DOMAIN calls
          /\ d \in Range(calls[n].rest) /\ d \in Dependencies(calls[n].task)
      BY <3>1, AtDependencyFacts
    <3>3. calls[n].rest # << >> /\ d = Head(calls[n].rest)
      <4>1. calls \in Seq(Frame) /\ calls # << >>
        BY <3>2 DEF TypeOK
      <4>2. calls[n] = Last(calls)
        BY <4>1, FrontLast
      <4> QED
        BY <3>1, <4>2 DEF AtDependency
    <3>4. d \notin Bare
      BY <3>2 DEF ListInv
    <3>5. task_list[d] = d /\ d \in Object
      BY <1>0, NamedObject DEF StatusInv
    <3>6. d \notin Range(task_order)
      BY <3>1, <3>5, ScheduledRange DEF NeedsCall
    <3> QED
      BY <3>1, <3>2, <3>3, <3>4, <3>5, <3>6, DesugarsFirstEnter
  <2>3. CASE EnableDefault
    <3>1. task_list[Default] = "parse" /\ "parse" \in Object \ Bare
      BY <1>0, NamedObject, DeclarationAssumption DEF Careful, StatusInv, Bare
    <3> QED
      BY <2>3, <3>1, DesugarsFirstEnter DEF EnableDefault
  <2>4. CASE NextDependency
    BY <1>0, <2>4, DesugarsFirstNextDependency
  <2>5. CASE Schedule
    BY <2>5, DesugarsFirstSchedule
  <2>6. CASE \/ OverflowStack \/ EndOptions(TRUE) \/ StartExecution \/ StartTask
             \/ EndExecution \/ Ended
    BY <2>6, DesugarsFirstUnchanged
       DEF OverflowStack, EndOptions, StartExecution, StartTask, EndExecution, Ended, vars
  <2> QED
    BY <1>1, <2>1, <2>2, <2>3, <2>4, <2>5, <2>6 DEF Driver, ResolveNext
<1>2. CASE RunningTask
  <2>1. error \in ErrorType /\ source \in SourceType
    BY DEF TypeOK, StatusInv
  <2>2. PICK e \in ErrorType :
          TaskReturns(e) \/ TaskThrows(e, "error") \/ TaskAborts
    BY <1>2, <2>1, TaskEnds
  <2> QED
    BY <2>2, DesugarsFirstUnchanged DEF TaskReturns, TaskThrows, TaskAborts
<1>3. CASE UNCHANGED allVars
  BY <1>3, DesugarsFirstUnchanged DEF allVars, vars
<1> QED
  BY <1>1, <1>2, <1>3 DEF PipelineNext

-----------------------------------------------------------------------------
(* The translator finds no sugar.                                          *)

SettledTree ==
  /\ tree.loops = "none" /\ ~tree.compares
  /\ escaped => tree.escapes = "computed"

LEMMA SugarInvInit == PipelineInit => SugarInv
<1> SUFFICES ASSUME PipelineInit PROVE SugarInv
  OBVIOUS
<1>1. \A t : ~Completed(t)
  BY DEF PipelineInit, Completed
<1>2. ~Settled(next - 1)
  BY DEF PipelineInit, Settled
<1> QED
  BY <1>1, <1>2 DEF SugarInv

LEMMA SugarInvUnchanged ==
  ASSUME SugarInv, UNCHANGED <<next, task_order, compiler>> PROVE SugarInv'
BY DEF SugarInv, Completed, Settled, compiler

\* A task that returns: the flags and the escapes it has set, and the tree if
\* it settles it.
LEMMA SugarReturns ==
  ASSUME CarefulList, AnnotationInv, SugarInv, NEW t, timer = <<t>>,
         NEW e, TaskReturns(e),
         \A f \in {"desugar-for", "desugar-string-cmp"} :
           f \in flags \/ t = f => f \in flags',
         escaped \/ t = "escapes-compute" => escaped',
         t = "desugar" \/ (t \in Quiet /\ Settled(next - 1)) => SettledTree'
  PROVE  SugarInv'
<1>1. next \in DOMAIN task_order /\ t = task_order[next]
  BY RunningFacts
<1>2. next' = next + 1 /\ task_order' = task_order
  BY DEF TaskReturns
<1>3. next \in Nat \ {0}
  BY DEF CarefulList, TypeOK
<1>4. ASSUME NEW x, Completed(x)' PROVE Completed(x) \/ x = t
  BY <1>1, <1>2, <1>3, <1>4 DEF Completed
<1>5. ASSUME Settled(next - 1)' PROVE t = "desugar" \/ (t \in Quiet /\ Settled(next - 1))
  <2>1. PICK p \in 1 .. next :
          task_order[p] = "desugar" /\ \A j \in p + 1 .. next : task_order[j] \in Quiet
    BY <1>2, <1>3, <1>5 DEF Settled
  <2>2. CASE p = next
    BY <1>1, <2>1, <2>2
  <2>3. CASE p # next
    <3>1. p \in 1 .. next - 1 /\ next \in p + 1 .. next
      BY <1>3, <2>3
    <3>2. t \in Quiet /\ \A j \in p + 1 .. next - 1 : task_order[j] \in Quiet
      BY <1>1, <1>3, <2>1, <3>1
    <3> QED
      BY <2>1, <3>1, <3>2 DEF Settled
  <2> QED
    BY <2>2, <2>3
<1> QED
  BY <1>4, <1>5 DEF SugarInv, SettledTree

\* Desugaring with both flags settles the tree.
LEMMA DesugaredSettles ==
  ASSUME NEW t \in TreeType, NEW lost \in BOOLEAN,
         {"desugar-for", "desugar-string-cmp"} \subseteq flags
  PROVE  LET u == Desugared(t, lost) IN
           u \in TreeType /\ u.loops = "none" /\ ~u.compares
<1> DEFINE perils == Desugared(t, lost).perils
<1>1. Desugared(t, lost) \in TreeType
  BY DesugaredFacts
<1>2. Copy(t) \in TreeType /\ Copy(t).loops = t.loops
  BY DEF TreeType, Copy
<1> QED
  BY <1>1, <1>2 DEF TreeType, Desugared

LEMMA SugarTask ==
  ASSUME CarefulList, AnnotationInv, DesugarsFirst, SugarInv,
         NEW t, timer = <<t>>, RunningTask
  PROVE  SugarInv'
<1> USE DEF Executing, Returns, Throws, Crashes
<1>0. t \notin Bare /\ next \in DOMAIN task_order /\ t = task_order[next]
      /\ (t = "parse" => ~Completed("types-compute"))
  BY RunningFacts
<1>s. /\ \A f \in {"desugar-for", "desugar-string-cmp"} : Completed(f) => f \in flags
      /\ Settled(next - 1) => SettledTree
      /\ tree \in TreeType
  BY DEF SugarInv, AnnotationInv, SettledTree
\* The parser does not run once the program is desugared.
<1>p. t = "parse" => ~Settled(next - 1)
  <2> SUFFICES ASSUME t = "parse", Settled(next - 1) PROVE FALSE
    OBVIOUS
  <2>1. PICK i \in 1 .. next - 1 : task_order[i] = "desugar"
    BY DEF Settled
  <2>2. Completed("desugar")
    BY <1>0, <2>1 DEF Completed, CarefulList, TypeOK
  <2>3. Completed("types-compute")
    BY <2>2, LinkCompleted DEF Chain
  <2> QED
    BY <1>0, <2>3
<1>u. (\E e : TaskThrows(e, "error")) \/ TaskAborts => UNCHANGED <<next, task_order>>
  BY DEF TaskThrows, TaskAborts, running
<1>1. CASE Parse
  <2>1. CASE \E e : TaskThrows(e, "error") /\ UNCHANGED compiler
    BY <1>u, <2>1, SugarInvUnchanged
  <2>2. CASE (\E e : TaskReturns(e)) /\ t = "parse" /\ UNCHANGED <<flags, escaped>>
    BY <1>s, <1>p, <2>2, SugarReturns
  <2> QED
    BY <1>1, <2>1, <2>2 DEF Parse
<1>2. CASE ObjectBind \/ ObjectCheckTypes \/ CombineBind \/ OverloadBind \/ RawDesugar
           \/ Clone
  BY <1>0, <1>2 DEF ObjectBind, ObjectCheckTypes, CombineBind, OverloadBind,
                    RawDesugar, Clone, Bare
<1>3. CASE Bind \/ Rename \/ CheckTypes
  <2>1. CASE ((\E e : TaskThrows(e, "error")) \/ TaskAborts) /\ UNCHANGED compiler
    BY <1>u, <2>1, SugarInvUnchanged
  <2>2. CASE /\ \E e : TaskReturns(e)
             /\ UNCHANGED <<flags, escaped>>
             /\ tree' \in {[tree EXCEPT !.bound = TRUE], [tree EXCEPT !.unique = TRUE],
                           [tree EXCEPT !.typed = TRUE]}
             /\ t \notin {"desugar", "escapes-compute", "desugar-for", "desugar-string-cmp"}
    <3>1. /\ tree'.loops = tree.loops /\ tree'.compares = tree.compares
          /\ tree'.escapes = tree.escapes
      BY <1>s, <2>2 DEF TreeType
    <3>2. SettledTree => SettledTree'
      BY <2>2, <3>1 DEF SettledTree
    <3> QED
      BY <1>s, <2>2, <3>2, SugarReturns
  <2> QED
    BY <1>3, <2>1, <2>2 DEF Bind, Rename, CheckTypes
<1>4. CASE ComputeEscapes
  <2>1. CASE TaskAborts /\ UNCHANGED compiler
    BY <1>u, <2>1, SugarInvUnchanged
  <2>2. CASE /\ \E e : TaskReturns(e)
             /\ tree' = [tree EXCEPT !.escapes = "computed"]
             /\ escaped' = TRUE /\ flags' = flags /\ t = "escapes-compute"
    <3>1. /\ tree'.loops = tree.loops /\ tree'.compares = tree.compares
          /\ tree'.escapes = "computed"
      BY <1>s, <2>2 DEF TreeType
    <3>2. SettledTree => SettledTree'
      BY <3>1 DEF SettledTree
    <3>3. t \notin {"desugar", "desugar-for", "desugar-string-cmp"}
      BY <2>2
    <3> QED
      BY <1>s, <2>2, <3>2, <3>3, SugarReturns
  <2> QED
    BY <1>4, <2>1, <2>2 DEF ComputeEscapes
<1>5. CASE SetFlag \/ SetPrelude
  <2>1. (\E e : TaskReturns(e)) /\ UNCHANGED <<tree, escaped>>
        /\ t \notin Quiet \union {"desugar", "escapes-compute"}
    BY <1>5 DEF SetFlag, SetPrelude, Quiet
  <2>2. \A f \in {"desugar-for", "desugar-string-cmp"} : f \in flags \/ t = f => f \in flags'
    <3>1. Range(timer) = {t}
      BY DEF Range
    <3> QED
      BY <1>5, <3>1 DEF SetFlag, SetPrelude
  <2>3. escaped \/ t = "escapes-compute" => escaped'
    BY <2>1
  <2>4. ~(t = "desugar" \/ (t \in Quiet /\ Settled(next - 1)))
    BY <2>1
  <2> QED
    BY <2>1, <2>2, <2>3, <2>4, SugarReturns
<1>6. CASE PassiveTask \/ \E g \in Graph : DumpGraph(g)
  <2>1. UNCHANGED compiler
        /\ t \notin {"desugar", "escapes-compute", "desugar-for", "desugar-string-cmp"}
    BY <1>6 DEF PassiveTask, Passive, DumpGraph, DumpTask
  <2>2. CASE TaskAborts
    BY <1>u, <2>1, <2>2, SugarInvUnchanged
  <2>3. CASE \E e : TaskReturns(e)
    <3>1. SettledTree => SettledTree'
      BY <2>1 DEF compiler, SettledTree
    <3>2. UNCHANGED <<flags, escaped>>
      BY <2>1 DEF compiler
    <3> QED
      BY <1>s, <2>1, <2>3, <3>1, <3>2, SugarReturns
  <2> QED
    BY <1>6, <2>2, <2>3 DEF PassiveTask, DumpGraph
<1>7. CASE Desugar
  <2>1. CASE TaskAborts /\ UNCHANGED compiler
    BY <1>u, <2>1, SugarInvUnchanged
  <2>2. CASE /\ \E e : TaskReturns(e)
             /\ UNCHANGED <<flags, escaped>> /\ t = "desugar"
             /\ \E lost \in BOOLEAN :
                  LET u == Rechecked(Desugared(tree, lost)) IN
                  tree' = IF escaped THEN [u EXCEPT !.escapes = "computed"] ELSE u
    <3>1. PICK lost \in BOOLEAN :
            LET u == Rechecked(Desugared(tree, lost)) IN
            tree' = IF escaped THEN [u EXCEPT !.escapes = "computed"] ELSE u
      BY <2>2
    <3>2. {"desugar-for", "desugar-string-cmp"} \subseteq flags
      <4> SUFFICES ASSUME NEW f \in {"desugar-for", "desugar-string-cmp"} PROVE f \in flags
        OBVIOUS
      <4>1. PICK j \in 1 .. next - 1 : task_order[j] = f
        BY <1>0, <2>2 DEF DesugarsFirst
      <4>2. Completed(f)
        BY <1>0, <4>1 DEF Completed, CarefulList, TypeOK
      <4> QED
        BY <1>s, <4>2
    <3>3. SettledTree'
      <4> DEFINE d == Desugared(tree, lost)
      <4>1. d \in TreeType /\ d.loops = "none" /\ ~d.compares
        BY <1>s, <3>2, DesugaredSettles
      <4> HIDE DEF d
      <4>2. LET u == Rechecked(d)
                w == [u EXCEPT !.escapes = "computed"] IN
            u.loops = "none" /\ ~u.compares /\ w.loops = "none" /\ ~w.compares
            /\ w.escapes = "computed"
        BY <4>1, RecheckedFacts
      <4>3. tree' = IF escaped THEN [Rechecked(d) EXCEPT !.escapes = "computed"]
                    ELSE Rechecked(d)
        BY <3>1 DEF d
      <4> QED
        BY <2>2, <4>2, <4>3 DEF SettledTree
    <3>4. t \notin {"escapes-compute", "desugar-for", "desugar-string-cmp"}
      BY <2>2
    <3> QED
      BY <1>s, <2>2, <3>3, <3>4, SugarReturns
  <2> QED
    BY <1>7, <2>1, <2>2 DEF Desugar, Replace
<1>8. CASE Inline \/ Rebuild \/ Translate \/ \E g \in Graph : ComputeGraph(g)
  <2>1. CASE TaskAborts /\ UNCHANGED compiler
    BY <1>u, <2>1, SugarInvUnchanged
  <2>2. CASE /\ \E e : TaskReturns(e)
             /\ UNCHANGED <<flags, escaped>>
             /\ t \notin Quiet \union {"desugar", "desugar-for", "desugar-string-cmp"}
    <3>1. t # "escapes-compute"
      BY <2>2 DEF Quiet
    <3> QED
      BY <1>s, <2>2, <3>1, SugarReturns
  <2> QED
    BY <1>8, <2>1, <2>2 DEF Inline, Rebuild, Translate, ComputeGraph, ComputeTask, Quiet
<1> QED
  BY <1>1, <1>2, <1>3, <1>4, <1>5, <1>6, <1>7, <1>8 DEF RunningTask

LEMMA SugarInvNext ==
  CarefulList /\ AnnotationInv /\ DesugarsFirst /\ SugarInv /\ [PipelineNext]_allVars
    => SugarInv'
<1> SUFFICES ASSUME CarefulList, AnnotationInv, DesugarsFirst, SugarInv,
                    [PipelineNext]_allVars
             PROVE  SugarInv'
  OBVIOUS
<1> USE DEF static, options, running
<1>1. CASE Driver
  <2>0. UNCHANGED compiler
    BY <1>1 DEF Driver
  <2>1. CASE Schedule
    <3>1. /\ phase \in {"options", "ready"} /\ next' = next
      BY <2>1 DEF Schedule
    <3>2. next = 1
      BY <3>1 DEF CarefulList, RunInv, Progress
    <3>3. ~Settled(next - 1)' /\ \A t : ~Completed(t)'
      BY <3>1, <3>2 DEF Settled, Completed
    <3> QED
      BY <3>3 DEF SugarInv
  <2>2. CASE ~Schedule
    <3>1. UNCHANGED <<next, task_order>>
      BY <1>1, <2>2
         DEF Driver, Option, EndOptions, ResolveNext, CallDependency, OverflowStack,
             NextDependency, EnableDefault, StartExecution, StartTask, EndExecution,
             Ended, vars
    <3> QED
      BY <2>0, <3>1, SugarInvUnchanged
  <2> QED
    BY <2>1, <2>2
<1>2. CASE RunningTask
  <2>1. error \in ErrorType /\ source \in SourceType
    BY DEF CarefulList, TypeOK, StatusInv
  <2>2. PICK t : timer = <<t>>
    BY <1>2, <2>1, TaskEnds
  <2> QED
    BY <1>2, <2>2, SugarTask
<1>3. CASE UNCHANGED allVars
  BY <1>3, SugarInvUnchanged DEF allVars, vars
<1> QED
  BY <1>1, <1>2, <1>3 DEF PipelineNext

\* Whatever a careful selection that leaves desugaring to the translator runs
\* before, and in whatever order, the translator gets a tree without sugar
\* whose escapes are computed (DECLARE llvm-compute in llvmtranslate/tasks.hh,
\* resolve_dependencies, desugar::tasks::desugar).
THEOREM TranslatorReady == ASSUME Ready PROVE PipelineSpec => []ReadyToTranslate
<1> DEFINE Inv == DesugarsFirst /\ SugarInv
<1>1. Careful
  BY DEF Ready
<1>2. PipelineSpec => [](CarefulList /\ AnnotationInv)
  BY <1>1, AnnotationInvariant
<1>3. PipelineInit => Inv
  BY DesugarsFirstInit, SugarInvInit
<1>4. CarefulList /\ AnnotationInv /\ Inv /\ [PipelineNext]_allVars => Inv'
  BY DesugarsFirstNext, SugarInvNext DEF CarefulList
<1>5. CarefulList /\ AnnotationInv /\ Inv => ReadyToTranslate
  <2> SUFFICES ASSUME CarefulList, AnnotationInv, Inv, timer = <<"llvm-compute">>
               PROVE  tree.escapes = "computed" /\ tree.loops = "none" /\ ~tree.compares
    BY DEF ReadyToTranslate, Running
  <2>1. next \in DOMAIN task_order /\ task_order[next] = "llvm-compute"
    BY RunningFacts
  <2>2. Settled(next - 1)
    BY <2>1 DEF DesugarsFirst
  <2>3. Completed("escapes-compute")
    BY <2>1, LinkCompleted DEF Chain
  <2> QED
    BY <2>2, <2>3 DEF SugarInv
<1> QED
  BY <1>2, <1>3, <1>4, <1>5, PTL DEF PipelineSpec
=============================================================================
