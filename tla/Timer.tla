--------------------------------- MODULE Timer ---------------------------------
(***************************************************************************)
(* misc::timer: the times of nested tasks, and the report tc gives with    *)
(* --time-report.  Wall, user and system times are counted alike, so one   *)
(* clock stands for the three.                                             *)
(***************************************************************************)
EXTENDS Integers, Sequences

CONSTANTS
  Tasks,       \* the names of the tasks, as they are timed
  MaxNesting,  \* bound on the tasks in each other
  MaxTime      \* bound on the clock

(* A task is timed as "p: parse", with the initial of its module.          *)
ASSUME TimerAssumption == "rest" \notin Tasks

VARIABLES
  task_timer,  \* main's timer
  timer_,      \* the register's
  now,         \* the clock
  progress,    \* "running", "executed", "left" by an exception, "reported"
  spent,       \* history: the time each task was the innermost one
  completed    \* history: the list was executed to its end

timerVars == << task_timer, timer_, now, progress, spent, completed >>

(* timer::time_var.  first is set by the first start only.                 *)
TimeVar == [begin |-> 0, elapsed |-> 0, first |-> 0, last |-> 0, initial |-> TRUE]
Started(v, time) ==
  [v EXCEPT !.begin = time, !.initial = FALSE, !.first = IF v.initial THEN time ELSE @]
Stopped(v, time) == [v EXCEPT !.last = time, !.elapsed = @ + time - v.begin]

(* The stack holds the names of the tasks that run, the innermost first;   *)
(* tasks of one name share a time_var.                                     *)
MadeOf(tasksmap, tasks, total) == [tasksmap |-> tasksmap, tasks |-> tasks, total |-> total]
NewTimer == MadeOf(<< >>, << >>, TimeVar)

StopTop(t, time) ==
  IF t.tasks = << >> THEN t ELSE [t EXCEPT !.tasksmap[Head(t.tasks)] = Stopped(@, time)]
StartTop(t, time) ==
  IF t.tasks = << >> THEN t ELSE [t EXCEPT !.tasksmap[Head(t.tasks)] = Started(@, time)]

(* A name that is known keeps its time_var.                                *)
Entered(t, name) ==
  [t EXCEPT !.tasksmap = [n \in DOMAIN @ \cup {name} |-> IF n \in DOMAIN @ THEN @[n] ELSE TimeVar],
            !.tasks = << name >> \o @]

\* Mutant: the task around it is not stopped.
PushOver(t, name, time) == StartTop(Entered(t, name), time)

(* push: the task around it does not run meanwhile.                        *)
Push(t, name, time) == StartTop(Entered(StopTop(t, time), name), time)

Pop(t, time) == StartTop([StopTop(t, time) EXCEPT !.tasks = Tail(@)], time)

(* operator<<: a name that is known keeps its times.                       *)
Merged(t, rhs) ==
  [t EXCEPT !.tasksmap = [n \in DOMAIN @ \cup DOMAIN rhs.tasksmap |->
                            IF n \in DOMAIN @ THEN @[n] ELSE rhs.tasksmap[n]]]

(* ~timer, of a timer that reports: what was not stopped is stopped, and   *)
(* with it the total.                                                      *)
Emptied(t, time) ==
  LET left[n \in 0..Len(t.tasks)] == IF n = 0 THEN t ELSE Pop(left[n - 1], time)
  IN left[Len(t.tasks)]
Destroyed(t, time) ==
  IF t.tasks = << >> THEN t ELSE [Emptied(t, time) EXCEPT !.total = Stopped(@, time)]

(* dump: a task is listed with the time it ran, and with the time from its *)
(* first start to its last stop, unless that is nothing.                   *)
ExecutionTimes(t) ==
  LET listed == {n \in DOMAIN t.tasksmap : t.tasksmap[n].elapsed # 0}
  IN [n \in listed |-> t.tasksmap[n].elapsed]
CumulatedTimes(t) ==
  LET Span(n) == t.tasksmap[n].last - t.tasksmap[n].first
  IN [n \in {m \in DOMAIN t.tasksmap : Span(m) # 0} |-> Span(n)]

-----------------------------------------------------------------------------
(* main starts its timer and begins the task "rest", which nothing ends    *)
(* but the destruction of the timer.                                       *)
TimerInit ==
  /\ task_timer = [Push(NewTimer, "rest", 0) EXCEPT !.total = Started(@, 0)]
  /\ timer_ = NewTimer
  /\ now = 0
  /\ progress = "running"
  /\ spent = [n \in Tasks |-> 0]
  /\ completed = FALSE

Tick ==
  /\ progress # "reported" /\ now < MaxTime
  /\ now' = now + 1
  /\ spent' = IF progress = "running" /\ timer_.tasks # << >>
              THEN [spent EXCEPT ![Head(timer_.tasks)] = @ + 1] ELSE spent
  /\ UNCHANGED << task_timer, timer_, progress, completed >>

(* TaskRegister::execute.  It times one task after the other; a timer is   *)
(* made for tasks in each other.                                           *)
BeginTask(name) ==
  /\ progress = "running" /\ Len(timer_.tasks) < MaxNesting
  /\ timer_' = Push(timer_, name, now)
  /\ UNCHANGED << task_timer, now, progress, spent, completed >>

EndTask ==
  /\ progress = "running" /\ timer_.tasks # << >>
  /\ timer_' = Pop(timer_, now)
  /\ UNCHANGED << task_timer, now, progress, spent, completed >>

(* main imports the times when all is executed; what leaves by an exception*)
(* leaves before that.                                                     *)
ImportTimes ==
  /\ progress = "running" /\ timer_.tasks = << >>
  /\ task_timer' = Merged(task_timer, timer_)
  /\ progress' = "executed" /\ completed' = TRUE
  /\ UNCHANGED << timer_, now, spent >>

LeaveMain ==
  /\ progress = "running"
  /\ progress' = "left"
  /\ UNCHANGED << task_timer, timer_, now, spent, completed >>

ReportTimes ==
  /\ progress \in {"executed", "left"}
  /\ task_timer' = Destroyed(task_timer, now)
  /\ progress' = "reported"
  /\ UNCHANGED << timer_, now, spent, completed >>

TimerNext ==
  \/ \E name \in Tasks : BeginTask(name)
  \/ Tick \/ EndTask \/ ImportTimes \/ LeaveMain \/ ReportTimes
TimerSpec == TimerInit /\ [][TimerNext]_timerVars

-----------------------------------------------------------------------------
Innermost(name) == timer_.tasks # << >> /\ Head(timer_.tasks) = name

(* However tasks nest, those of one name in each other included, every tick*)
(* is counted once, for the innermost task that runs, and a task did not   *)
(* run for longer than from its first start to its last stop (timer.cc,    *)
(* push, pop).                                                             *)
TicksCountOnce ==
  progress = "running" \/ completed =>
    \A name \in DOMAIN timer_.tasksmap :
      LET v == timer_.tasksmap[name]
      IN IF Innermost(name)
         THEN v.elapsed + now - v.begin = spent[name] /\ spent[name] <= now - v.first
         ELSE v.elapsed = spent[name] /\ spent[name] <= v.last - v.first

(* The report of tc names every task that took time with what it took, and *)
(* "rest" with all the time there is, which is the total: the tasks are    *)
(* counted in it a second time.  After an error exit the tasks are missing *)
(* (tc.cc, timer.cc: operator<<, ~timer, dump).                            *)
ReportAddsUp ==
  progress = "reported" =>
    LET listed == {n \in Tasks : completed /\ spent[n] # 0}
                  \cup {n \in {"rest"} : now # 0}
    IN /\ task_timer.total.elapsed = now
       /\ ExecutionTimes(task_timer) = [n \in listed |-> IF n = "rest" THEN now ELSE spent[n]]
       /\ \A n \in listed : /\ n \in DOMAIN CumulatedTimes(task_timer)
                            /\ CumulatedTimes(task_timer)[n] >= task_timer.tasksmap[n].elapsed

TimesAddUp == TicksCountOnce /\ ReportAddsUp

-----------------------------------------------------------------------------
(* What every step keeps.  Of the register's timer: the tasks that run are *)
(* known, a known one has been started, and no task has been stopped later *)
(* than now.  Of main's: "rest" has run since the beginning, and the rest  *)
(* is what was imported.                                                   *)
TimeVars == [begin : Nat, elapsed : Nat, first : Nat, last : Nat, initial : BOOLEAN]
Running == Started(TimeVar, 0)

Known(m) ==
  /\ m \in [DOMAIN m -> TimeVars] /\ DOMAIN m \subseteq Tasks
  /\ \A name \in Tasks \ DOMAIN m : spent[name] = 0
Counted(m, s) ==
  \A name \in DOMAIN m :
    /\ m[name].last <= now /\ ~ m[name].initial
    /\ IF s # << >> /\ Head(s) = name
       THEN /\ m[name].elapsed + now - m[name].begin = spent[name]
            /\ spent[name] <= now - m[name].first
       ELSE /\ m[name].elapsed = spent[name]
            /\ spent[name] <= m[name].last - m[name].first

RegisterTimes ==
  /\ timer_.tasks \in Seq(DOMAIN timer_.tasksmap)
  /\ Known(timer_.tasksmap)
  /\ Counted(timer_.tasksmap, timer_.tasks)

MainTimes ==
  /\ task_timer.tasks = << "rest" >> /\ task_timer.total = Running
  /\ task_timer.tasksmap =
       IF completed THEN [n \in {"rest"} \cup DOMAIN timer_.tasksmap |->
                            IF n = "rest" THEN Running ELSE timer_.tasksmap[n]]
       ELSE [n \in {"rest"} |-> Running]

TimerInv ==
  /\ now \in Nat /\ spent \in [Tasks -> Nat] /\ completed \in BOOLEAN
  /\ progress \in {"running", "executed", "left", "reported"}
  /\ progress = "executed" => completed
  /\ completed => timer_.tasks = << >> /\ progress \in {"executed", "reported"}
  /\ progress = "running" \/ completed => RegisterTimes
  /\ timer_ = MadeOf(timer_.tasksmap, timer_.tasks, timer_.total)
  /\ task_timer = MadeOf(task_timer.tasksmap, task_timer.tasks, task_timer.total)
  /\ progress # "reported" => MainTimes
  /\ ReportAddsUp
=============================================================================
