---------------------------- MODULE TaskRegister ----------------------------
(***************************************************************************)
(* The task system that drives tc: declared tasks register themselves      *)
(* before main, the options of the command line enable them in             *)
(* chronological order, the dependencies of each enabled task are resolved *)
(* by a depth-first search, and the resulting list is executed.            *)
(*                                                                         *)
(* The mutual recursion of enable_task and resolve_dependencies is an      *)
(* explicit stack of activation records (variable calls).  What a task     *)
(* does is left open: it returns, possibly after recording an error, or it *)
(* throws one of the exceptions main catches.                              *)
(***************************************************************************)
EXTENDS Integers, SequencesExt, ErrorStatus

CONSTANTS
  Object,      \* the task objects declared in the */tasks.hh headers
  Name,        \* task names, those nobody registers included
  Declaration, \* the ways the objects may be declared, see DeclarationType
  Default,     \* the task of a command line that selects none ("parse")
  Argument,    \* the values an argument task may get on the command line
  MaxOptions,  \* bound on the task options of a command line
  StackLimit,  \* bound on the activation records the process can nest
  Ranks,       \* the rankings of the names that tell a table without a cycle
  None         \* no task, no argument, no exit status yet

Kind == {"simple", "disjunctive", "argument"}

\* What the constructor of a task keeps: its name, the names it depends on,
\* and the class it belongs to.
DeclarationType == [Object -> [name: Name, deps: Seq(Name), kind: Kind]]

ASSUME DeclarationAssumption ==
  /\ Declaration \subseteq DeclarationType
  /\ Default \in Name
  /\ None \notin Object
  /\ None \notin ErrorType
  /\ StackLimit \in Nat \ {0}
  /\ Ranks \subseteq [Name -> Nat]

VARIABLES
  decl,       \* the declarations compiled into this tc; never changes
  pending,    \* the static task objects not yet constructed
  task_list,  \* TaskRegister::task_list_: name to task
  task_order, \* TaskRegister::task_order_: tasks to execute
  calls,      \* activation records of enable_task, innermost last
  arg,        \* ArgumentTask::arg_ of each object
  asked,      \* history: the options read so far, in command line order
  phase,      \* how far main is
  next,       \* index in task_order of the task to execute
  timer,      \* tasks on the stack of TaskRegister::timer_
  ran,        \* history: the tasks executed, with the argument they used
  error,      \* status of task_error()
  exit        \* exit status of the process

vars == <<decl, pending, task_list, task_order, calls, arg, asked, phase,
          next, timer, ran, error, exit>>

static == <<decl, pending, task_list>>
options == <<arg, asked>>
running == <<next, timer, ran>>

Phase == {"static", "options", "ready", "execute", "exited", "crashed"}

Init ==
  /\ decl \in Declaration
  /\ pending = Object
  /\ task_list = [n \in Name |-> None]
  /\ task_order = << >>
  /\ calls = << >>
  /\ arg = [o \in Object |-> None]
  /\ asked = << >>
  /\ phase = "static"
  /\ next = 1
  /\ timer = << >>
  /\ ran = << >>
  /\ error = success
  /\ exit = None

-----------------------------------------------------------------------------
(* Names and dependencies.                                                 *)

Registered(n) == task_list[n] # None
Dependencies(o) == Range(decl[o].deps)
Scheduled(o) == Contains(task_order, o)

\* Mutant: every task is content with one scheduled dependency.
WantedAny(o) ==
  LET deps == decl[o].deps IN
    IF \E d \in Dependencies(o) : Registered(d) /\ Scheduled(task_list[d])
    THEN << >> ELSE deps

\* The dependencies the task asks for: all of them by default; a disjunctive
\* task is content with one already scheduled, and otherwise names the first.
Wanted(o) ==
  LET deps == decl[o].deps
      enabled == {d \in Dependencies(o) : Registered(d) /\ Scheduled(task_list[d])}
  IN  IF decl[o].kind # "disjunctive"
      THEN deps
      ELSE IF enabled # {} \/ deps = << >> THEN << >> ELSE <<Head(deps)>>

\* enable_task(o) up to the loop of resolve_dependencies: unknown
\* dependencies are reported, the wanted ones are left to visit.
Enter(o) ==
  /\ calls' = Append(calls, [task |-> o, rest |-> Wanted(o)])
  /\ error' = IF \E d \in Dependencies(o) : ~Registered(d)
              THEN Mark(error, failure) ELSE error

-----------------------------------------------------------------------------
(* Before main.                                                            *)

\* The constructor of a static task object registers it; the first object of
\* a name stays, the others are errors.
Register(o) ==
  /\ phase = "static"
  /\ o \in pending
  /\ pending' = pending \ {o}
  /\ LET n == decl[o].name IN
       IF Registered(n)
       THEN /\ error' = Mark(error, failure)
            /\ UNCHANGED task_list
       ELSE /\ task_list' = [task_list EXCEPT ![n] = o]
            /\ UNCHANGED error
  /\ UNCHANGED <<decl, task_order, calls, options, phase, running, exit>>

EnterMain ==
  /\ phase = "static"
  /\ pending = {}
  /\ phase' = "options"
  /\ UNCHANGED <<static, task_order, calls, options, running, error, exit>>

-----------------------------------------------------------------------------
(* parse_arg.                                                              *)

\* The process ends with the given status.
Exit(status) ==
  /\ phase' = "exited"
  /\ exit' = status

\* boost rejects the command line before any option is handled.
BadUsage ==
  /\ phase = "options"
  /\ asked = << >> /\ calls = << >>
  /\ Exit(64)
  /\ UNCHANGED <<static, task_order, calls, options, running, error>>

\* --help, --usage, --version, --license: no option is handled, no file.
Help ==
  /\ phase = "options"
  /\ asked = << >> /\ calls = << >>
  /\ Exit(error)
  /\ UNCHANGED <<static, task_order, calls, options, running, error>>

\* Mutant: the argument is a static member, which all argument tasks share.
OptionShared(o, a) ==
  /\ phase = "options"
  /\ calls = << >>
  /\ Len(asked) < MaxOptions
  /\ task_list[decl[o].name] = o
  /\ a # None <=> decl[o].kind = "argument"
  /\ asked' = Append(asked, <<o, a>>)
  /\ arg' = [p \in Object |->
              IF a # None /\ decl[p].kind = "argument" THEN a ELSE arg[p]]
  /\ Enter(o)
  /\ UNCHANGED <<static, task_order, phase, running, exit>>

\* The notifier of an option that selects task o; an argument task first
\* takes its argument.
Option(o, a) ==
  /\ phase = "options"
  /\ calls = << >>
  /\ Len(asked) < MaxOptions
  /\ task_list[decl[o].name] = o
  /\ a # None <=> decl[o].kind = "argument"
  /\ asked' = Append(asked, <<o, a>>)
  /\ arg' = [arg EXCEPT ![o] = a]
  /\ Enter(o)
  /\ UNCHANGED <<static, task_order, phase, running, exit>>

\* Mutant: main does not stop on the errors of the command line.
EndOptionsUnchecked(hasFile) ==
  /\ phase = "options"
  /\ calls = << >>
  /\ IF ~hasFile THEN Exit(64) ELSE phase' = "ready" /\ UNCHANGED exit
  /\ UNCHANGED <<static, task_order, calls, options, running, error>>

\* parse_arg throws "no file name", or returns to main, which stops on error.
EndOptions(hasFile) ==
  /\ phase = "options"
  /\ calls = << >>
  /\ IF ~hasFile THEN Exit(64)
     ELSE IF error # success THEN Exit(error)
     ELSE phase' = "ready" /\ UNCHANGED exit
  /\ UNCHANGED <<static, task_order, calls, options, running, error>>

-----------------------------------------------------------------------------
(* enable_task and resolve_dependencies.                                   *)

\* The loop over the wanted dependencies is at its first remaining one.
AtDependency(d) ==
  /\ phase \in {"options", "ready"}
  /\ calls # << >>
  /\ Last(calls).rest # << >>
  /\ d = Head(Last(calls).rest)

\* Mutant: resolve_dependencies enables what is already scheduled.
NeedsCallAlways(d) == Registered(d)

NeedsCall(d) == Registered(d) /\ ~Scheduled(task_list[d])

\* enable_task is called for a dependency that is not scheduled.
CallDependency ==
  \E d \in Name :
    /\ AtDependency(d)
    /\ NeedsCall(d)
    /\ Len(calls) < StackLimit
    /\ Enter(task_list[d])
    /\ UNCHANGED <<static, task_order, options, phase, running, exit>>

\* There is no room for one more activation record.
OverflowStack ==
  \E d \in Name :
    /\ AtDependency(d)
    /\ NeedsCall(d)
    /\ Len(calls) = StackLimit
    /\ phase' = "crashed"
    /\ UNCHANGED <<static, task_order, calls, options, running, error, exit>>

\* Mutant: the loop over the dependencies does not advance.
NextDependencyStuck ==
  \E d \in Name : AtDependency(d) /\ ~NeedsCall(d) /\ UNCHANGED vars

\* The dependency is unknown, scheduled, or has just been enabled.
NextDependency ==
  \E d \in Name :
    /\ AtDependency(d)
    /\ ~NeedsCall(d)
    /\ calls' = [calls EXCEPT ![Len(calls)].rest = Tail(@)]
    /\ UNCHANGED <<static, task_order, options, phase, running, error, exit>>

\* Mutant: the task is put in front of the list.
ScheduleFirst ==
  /\ phase \in {"options", "ready"}
  /\ calls # << >>
  /\ Last(calls).rest = << >>
  /\ task_order' = <<Last(calls).task>> \o task_order
  /\ calls' = Front(calls)
  /\ UNCHANGED <<static, options, phase, running, error, exit>>

\* Mutant: a task that is already scheduled is not scheduled again.
ScheduleNew ==
  /\ phase \in {"options", "ready"}
  /\ calls # << >>
  /\ Last(calls).rest = << >>
  /\ task_order' = IF Scheduled(Last(calls).task) THEN task_order
                   ELSE Append(task_order, Last(calls).task)
  /\ calls' = Front(calls)
  /\ UNCHANGED <<static, options, phase, running, error, exit>>

\* Every dependency is resolved: the task is scheduled and the call returns.
Schedule ==
  /\ phase \in {"options", "ready"}
  /\ calls # << >>
  /\ Last(calls).rest = << >>
  /\ task_order' = Append(task_order, Last(calls).task)
  /\ calls' = Front(calls)
  /\ UNCHANGED <<static, options, phase, running, error, exit>>

-----------------------------------------------------------------------------
(* The end of main.                                                        *)

\* No task was selected: main enables the default one.
EnableDefault ==
  /\ phase = "ready"
  /\ calls = << >>
  /\ task_order = << >>
  /\ Registered(Default)
  /\ Enter(task_list[Default])
  /\ UNCHANGED <<static, task_order, options, phase, running, exit>>

\* main calls execute; enabling an unregistered default task only left an error.
StartExecution ==
  /\ phase = "ready"
  /\ calls = << >>
  /\ task_order = << >> => ~Registered(Default)
  /\ phase' = "execute"
  /\ error' = IF task_order = << >> THEN Mark(error, failure) ELSE error
  /\ UNCHANGED <<static, task_order, calls, options, running, exit>>

\* execute pushes the timer and calls the next task.
StartTask ==
  /\ phase = "execute"
  /\ timer = << >>
  /\ next <= Len(task_order)
  /\ LET t == task_order[next] IN
       /\ timer' = Append(timer, t)
       /\ ran' = Append(ran, <<t, arg[t]>>)
  /\ UNCHANGED <<static, task_order, calls, options, phase, next, error, exit>>

\* Mutant: the loop of execute does not advance.
TaskReturnsStuck(e) ==
  /\ phase = "execute"
  /\ timer # << >>
  /\ timer' = Front(timer)
  /\ error' = Mark(error, e)
  /\ UNCHANGED <<static, task_order, calls, options, phase, next, ran, exit>>

\* The task returns, with an error recorded or not, and the timer is popped.
TaskReturns(e) ==
  /\ phase = "execute"
  /\ timer # << >>
  /\ timer' = Front(timer)
  /\ next' = next + 1
  /\ error' = Mark(error, e)
  /\ UNCHANGED <<static, task_order, calls, options, phase, ran, exit>>

\* The task throws: misc::error carries the status of task_error(),
\* std::invalid_argument is a usage error, and main falls off its end after
\* a std::runtime_error.  The timer is not popped.
TaskThrows(e, exception) ==
  /\ phase = "execute"
  /\ timer # << >>
  /\ error' = Mark(error, e)
  /\ Exit(CASE exception = "error"            -> error'
            [] exception = "invalid_argument" -> 64
            [] exception = "runtime_error"    -> success)
  /\ UNCHANGED <<static, task_order, calls, options, running>>

\* The task ends the process: a failed contract, an internal compiler error,
\* or an exception main does not catch.
TaskAborts ==
  /\ phase = "execute"
  /\ timer # << >>
  /\ phase' = "crashed"
  /\ UNCHANGED <<static, task_order, calls, options, running, error, exit>>

\* Mutant: main forgets the errors its tasks recorded.
EndExecutionUnchecked ==
  /\ phase = "execute"
  /\ timer = << >>
  /\ next > Len(task_order)
  /\ Exit(success)
  /\ UNCHANGED <<static, task_order, calls, options, running, error>>

\* Every task was executed: exit_on_error, or the end of main.
EndExecution ==
  /\ phase = "execute"
  /\ timer = << >>
  /\ next > Len(task_order)
  /\ Exit(error)
  /\ UNCHANGED <<static, task_order, calls, options, running, error>>

Exception == {"error", "invalid_argument", "runtime_error"}

StaticNext == (\E o \in Object : Register(o)) \/ EnterMain

OptionsNext ==
  \/ BadUsage
  \/ Help
  \/ \E o \in Object, a \in Argument \union {None} : Option(o, a)
  \/ \E hasFile \in BOOLEAN : EndOptions(hasFile)

ResolveNext == CallDependency \/ OverflowStack \/ NextDependency \/ Schedule

MainNext ==
  \/ EnableDefault
  \/ StartExecution
  \/ StartTask
  \/ \E e \in ErrorType : TaskReturns(e)
  \/ \E e \in ErrorType, exception \in Exception : TaskThrows(e, exception)
  \/ TaskAborts
  \/ EndExecution

\* The process has ended.
Ended == phase \in {"exited", "crashed"} /\ UNCHANGED vars

Next == StaticNext \/ OptionsNext \/ ResolveNext \/ MainNext \/ Ended

Spec == Init /\ [][Next]_vars

\* tc is one thread that always goes on until it ends.
FairSpec == Spec /\ WF_vars(Next)

-----------------------------------------------------------------------------
(* Properties.                                                             *)

\* The tables without a cycle: the names have ranks, and a task only depends
\* on names of a lower rank than its own.  (All of them, for every ranking.)
RankedBy(rank, table) ==
  \A o \in DOMAIN table : \A d \in Range(table[o].deps) :
    rank[d] < rank[table[o].name]

Acyclic ==
  {table \in Declaration : \E rank \in Ranks : RankedBy(rank, table)}

Frame == [task: Object, rest: Seq(Name)]

TypeOK ==
  /\ decl \in DeclarationType
  /\ pending \in SUBSET Object
  /\ task_list \in [Name -> Object \union {None}]
  /\ task_order \in Seq(Object)
  /\ calls \in Seq(Frame)
  /\ arg \in [Object -> Argument \union {None}]
  /\ asked \in Seq(Object \X (Argument \union {None}))
  /\ phase \in Phase
  /\ next \in Nat \ {0}
  /\ timer \in Seq(Object)
  /\ ran \in Seq(Object \X (Argument \union {None}))
  /\ error \in ErrorType
  /\ exit \in ErrorType \union {64, None}

\* What task o must find among the tasks executed before it.
Satisfied(o, before) ==
  LET deps == decl[o].deps
      done(d) == task_list[d] \in before
  IN  IF decl[o].kind = "disjunctive"
      THEN \/ deps = << >>
           \/ \E d \in Range(deps) : Registered(d) /\ done(d)
           \/ ~Registered(Head(deps))
      ELSE \A d \in Range(deps) : Registered(d) => done(d)

\* The list resolve_dependencies builds runs every task after all of its
\* registered dependencies, and a disjunctive task after one of them, in
\* whatever order options, shared dependencies and repeated requests enabled
\* them (resolve_dependencies, enable_task).
DependenciesFirst ==
  \A i \in DOMAIN task_order :
    Satisfied(task_order[i], {task_order[j] : j \in 1 .. i - 1})

\* The options that named a task, and its places in the list.
Requests(o) == {k \in DOMAIN asked : asked[k][1] = o}
Copies(o) == {i \in DOMAIN task_order : task_order[i] = o}

\* Between two options the list holds every task as often as the user asked
\* for it, or once more when a dependency had enabled it before, and the task
\* asked last is at its end: "the chronological order of the tasks, which is
\* capital for TC to work" (parse_arg).  It holds for declarations without a
\* cycle.
AsOftenAsAsked ==
  decl \in Acyclic /\ phase = "options" /\ calls = << >> /\ asked # << >> =>
    /\ Last(task_order) = Last(asked)[1]
    /\ \A o \in Object :
         Cardinality(Copies(o)) - Cardinality(Requests(o)) \in {0, 1}

\* Resolving dependencies never schedules a task a second time: only the
\* outermost call, the one an option makes, may append a task that is already
\* in the list.  It holds for declarations without a cycle.
DependenciesOnce ==
  [][task_order' # task_order /\ decl \in Acyclic /\ Scheduled(Last(task_order'))
       => Len(calls) = 1]_vars

\* When a task selected on the command line runs, every task object was
\* registered under its own name and no scheduled task has an unknown
\* dependency: the errors of the static constructors and of the options stop
\* main before execute.
RunsOnlyWhenSound ==
  ran # << >> /\ asked # << >> =>
    /\ Range(task_list) \ {None} = Object
    /\ \A o \in Range(task_order) : \A d \in Dependencies(o) : Registered(d)

\* The tasks run so far are the scheduled ones, in order and without a gap,
\* whatever the previous ones recorded; only the last can be unfinished.
RunsInOrder ==
  /\ Len(ran) \in {next - 1, next}
  /\ \A i \in DOMAIN ran : i <= Len(task_order) /\ ran[i][1] = task_order[i]

\* A task that one option names runs with the argument of that option, whatever
\* the other options gave to other tasks and however long the list is: the
\* argument waits in the task object from the notifier until execute.
OwnArgument ==
  \A i \in DOMAIN ran : \A k \in Requests(ran[i][1]) :
    Requests(ran[i][1]) = {k} => ran[i] = asked[k]

\* "Append directory DIR to the search path" (parse/tasks.hh), "prepend
\* directory DIR": when the list has been executed, each option was, with the
\* argument it was given.
EachArgument ==
  phase = "exited" /\ ran # << >> /\ timer = << >> => Range(asked) \subseteq Range(ran)

\* A process that ends normally with status 0 has recorded no error and either
\* executed the whole list, or executed nothing for the sake of --help, or was
\* stopped by an exception that claims success.
CleanExit ==
  exit = success =>
    \/ Len(ran) = Len(task_order) /\ timer = << >> /\ error = success
    \/ timer # << >>

\* Without a cycle among the declarations, parsing the command line and
\* executing the list always come to an end, and only a task can bring the
\* process down: the depth-first search of resolve_dependencies terminates.
Termination ==
  <>(decl \in Acyclic =>
       phase = "exited" \/ (phase = "crashed" /\ timer # << >>))

-----------------------------------------------------------------------------
(* Why DependenciesFirst holds: the inductive invariant.                   *)

\* Nothing is scheduled while the tasks register.
QuietStart ==
  phase = "static" => calls = << >> /\ task_order = << >> /\ ran = << >>

\* In an activation record, each need of the task is met by the list or still
\* to be visited by its loop.
Resolving(f, before) ==
  LET deps == decl[f.task].deps
      done(d) == task_list[d] \in before
  IN  IF decl[f.task].kind = "disjunctive"
      THEN \/ deps = << >>
           \/ \E d \in Range(deps) : Registered(d) /\ done(d)
           \/ ~Registered(Head(deps))
           \/ Head(deps) \in Range(f.rest)
      ELSE \A d \in Range(deps) : Registered(d) => done(d) \/ d \in Range(f.rest)

CallsResolving == \A k \in DOMAIN calls : Resolving(calls[k], Range(task_order))

\* Where the execution is: nothing has run before it starts, and the timer
\* holds the one task that is running.
Progress ==
  /\ phase \in {"static", "options", "ready"} =>
       ran = << >> /\ next = 1 /\ timer = << >>
  /\ Len(ran) = IF timer = << >> THEN next - 1 ELSE next
  /\ Len(timer) <= 1

RunInv == Progress /\ RunsInOrder

ScheduleInv == QuietStart /\ CallsResolving /\ DependenciesFirst

\* Where the options are: before the first there is nothing in the list, and
\* what was asked is in the list or about to be.
OptionsProgress ==
  /\ phase = "options" /\ asked = << >> => calls = << >> /\ task_order = << >>
  /\ phase = "static" => asked = << >>
  /\ asked # << >> => calls # << >> \/ task_order # << >>

\* The process has a status when it has exited.
ExitInv == OptionsProgress /\ (phase # "exited" => exit = None) /\ CleanExit

\* Each object holds the argument of the last option that named it, and each
\* execution used what its object holds now.
ArgumentInv ==
  /\ \A o \in Object :
       IF Requests(o) = {} THEN arg[o] = None
       ELSE \E k \in Requests(o) :
              asked[k] = <<o, arg[o]>> /\ \A j \in Requests(o) : j <= k
  /\ \A i \in DOMAIN ran : ran[i][2] = arg[ran[i][1]]

\* Every object constructed so far is registered, and the dependencies of the
\* tasks in the list, and of those being resolved, are known.
AllRegistered == \A o \in Object \ pending : task_list[decl[o].name] = o
KnownDependencies(o) == \A d \in Dependencies(o) : Registered(d)
AllKnown ==
  /\ \A o \in Range(task_order) : KnownDependencies(o)
  /\ \A k \in DOMAIN calls : KnownDependencies(calls[k].task)

\* As long as no error is recorded nothing is wrong; past the options nothing
\* is wrong whatever the tasks record, unless main enabled the default task.
SoundInv ==
  /\ phase # "static" => pending = {}
  /\ phase \in {"static", "options"} /\ error = success =>
       AllRegistered /\ AllKnown
  /\ phase \in {"ready", "execute"} /\ asked # << >> =>
       AllRegistered /\ AllKnown /\ calls = << >>
  /\ RunsOnlyWhenSound

\* The search goes down in rank, over the dependencies of the tasks it is in;
\* in a table without a cycle a task entered as a dependency is not in the
\* list until it is left.
Named(k) == decl[calls[k].task].name

SearchInv ==
  /\ decl \in Declaration
  /\ \A n \in Name : Registered(n) => decl[task_list[n]].name = n
  /\ \A k \in DOMAIN calls : Range(calls[k].rest) \subseteq Dependencies(calls[k].task)
  /\ decl \in Acyclic =>
       \A k \in DOMAIN calls : k > 1 => calls[k].task \notin Range(task_order)
  /\ \A rank \in [Name -> Nat] : RankedBy(rank, decl) =>
       \A j, k \in DOMAIN calls : j < k => rank[Named(k)] < rank[Named(j)]

\* While the options are read the outermost call is that of the last option,
\* and counts for its request.
Outermost(o) == calls # << >> /\ calls[1].task = o
CountInv ==
  decl \in Acyclic /\ phase = "options" /\ asked # << >> =>
    /\ Last(asked)[1] = IF calls = << >> THEN Last(task_order) ELSE calls[1].task
    /\ \A o \in Object :
         Cardinality(Copies(o)) + (IF Outermost(o) THEN 1 ELSE 0)
           - Cardinality(Requests(o)) \in {0, 1}

-----------------------------------------------------------------------------
(* The register implements the abstract schedule.                          *)

Objects(names) == {task_list[d] : d \in {n \in names : Registered(n)}}

\* An unknown dependency is reported and then ignored.
Needs(o) ==
  LET deps == decl[o].deps IN
    IF decl[o].kind # "disjunctive" THEN {{t} : t \in Objects(Range(deps))}
    ELSE IF deps = << >> \/ ~Registered(Head(deps)) THEN {}
    ELSE {Objects(Range(deps))}

Stage ==
  IF phase = "static" THEN "declaring"
  ELSE IF phase \in {"options", "ready"} THEN "planning"
  ELSE IF phase = "execute" THEN "running" ELSE "stopped"

\* Every step of the register is a step of the promise or leaves it alone:
\* the plan never loses or reorders a task, and what runs is a prefix of it.
Promise == INSTANCE TaskSchedule WITH
  Task <- Object, needs <- [o \in Object |-> Needs(o)], plan <- task_order,
  done <- Len(ran), stage <- Stage

KeepsPromise == Promise!Spec
=============================================================================
