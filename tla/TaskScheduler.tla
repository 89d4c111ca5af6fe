--------------------------- MODULE TaskScheduler ---------------------------
(***************************************************************************)
(* IEC tasks inside one scan cycle: which tasks are ready, in which order  *)
(* they run, what counts as an overrun, and what a restart makes of it     *)
(* (collect_ready_tasks, execute_cycle and execute_background_programs in  *)
(* runtime/cycle.rs, register_task in runtime/core.rs, restart.rs).        *)
(*                                                                         *)
(* Time is counted in ticks.  The runtime's own time, current_time, is set *)
(* from the clock at the start of a cycle and set to zero by a restart;    *)
(* the clock is not.                                                       *)
(***************************************************************************)
EXTENDS Integers, Sequences, FiniteSets

CONSTANTS
  NumTasks,      \* tasks in the order they were registered: 1..NumTasks
  Interval,      \* INTERVAL of each task, 0 when it is not periodic
  Priority,      \* PRIORITY of each task, 0 is the highest
  Single,        \* SINGLE variable of each task, or NoVar
  NoVar,
  EventVars,     \* the BOOL globals used as SINGLE
  RetainEvents,  \* those declared RETAIN
  InitEvents,    \* the event variables whose initial value is TRUE
  HasBackground, \* some program belongs to no task
  Restarts,      \* whether restarts are requested while running
  MaxClock       \* bound: the clock stops here

Tasks == 1..NumTasks

ASSUME TaskAssumption ==
  /\ NumTasks \in Nat
  /\ Interval \in [Tasks -> Nat] /\ Priority \in [Tasks -> Nat]
  /\ NoVar \notin EventVars /\ Single \in [Tasks -> EventVars \cup {NoVar}]
  /\ RetainEvents \subseteq EventVars /\ InitEvents \subseteq EventVars
  /\ HasBackground \in BOOLEAN /\ Restarts \in BOOLEAN /\ MaxClock \in Nat

VARIABLES
  clock,        \* Clock::now
  current_time, \* Runtime.current_time
  events,       \* the event variables that are TRUE
  task_state,   \* TaskState of every task: last_single, last_run, overrun_count
  ready,        \* collected and not yet run: task and due time
  phase,        \* between cycles, running tasks, background programs, halted
  ran,          \* the activations of this cycle, in the order they ran
  runs,         \* history: periodic activations of each task since the restart
  seen,         \* history: event variables TRUE when last sampled since the
                \* start or a restart, and ever since
  origin        \* history: the clock at the last restart

taskVars == <<clock, current_time, events, task_state, ready, phase, ran, runs, seen, origin>>

TaskStates == [last_single : BOOLEAN, last_run : Nat, overrun_count : Nat]
Activations == [task : Tasks, due_at : Nat]

TaskTypeOK ==
  /\ clock \in Nat /\ current_time \in Nat /\ origin \in Nat
  /\ events \subseteq EventVars /\ seen \subseteq EventVars
  /\ task_state \in [Tasks -> TaskStates]
  /\ runs \in [Tasks -> Nat]
  /\ ready \subseteq Activations
  /\ phase \in {"idle", "tasks", "background", "halted"}
  /\ ran \in Seq(Activations)

\* TaskState::new
NewTaskState == [last_single |-> FALSE, last_run |-> 0, overrun_count |-> 0]

\* register_task: the previous SINGLE is the value the variable has now.
RegisteredState(t) == [NewTaskState EXCEPT !.last_single = Single[t] \in InitEvents]

\* Tasks are registered while the runtime is built; run_runtime then restarts
\* the runtime before its first cycle, which gives every task a new state.
TaskInit ==
  /\ clock = 0 /\ current_time = 0 /\ origin = 0
  /\ events = InitEvents /\ seen = InitEvents
  /\ task_state \in {[t \in Tasks |-> RegisteredState(t)], [t \in Tasks |-> NewTaskState]}
  /\ runs = [t \in Tasks |-> 0]
  /\ ready = {} /\ phase = "idle" /\ ran = <<>>

(***************************************************************************)
(* collect_ready_tasks, for one task.                                      *)
(***************************************************************************)
SingleNow(t) == Single[t] \in events
Elapsed(t)   == clock - task_state[t].last_run

\* Variant: level instead of edge.
EventDueOnLevel(t) == SingleNow(t)

EventDue(t) == ~task_state[t].last_single /\ SingleNow(t)

PeriodicDue(t) == Interval[t] > 0 /\ ~SingleNow(t) /\ Elapsed(t) >= Interval[t]

\* Variant: the interval that is run is counted as missed too.
MissedAll(t) == Elapsed(t) \div Interval[t]

Missed(t) == Elapsed(t) \div Interval[t] - 1

DueAt(t) == IF PeriodicDue(t) THEN task_state[t].last_run + Interval[t] ELSE clock

\* The state a task is left with.  An event activation does not move last_run.
Collected(t) ==
  [last_single   |-> SingleNow(t),
   last_run      |-> IF PeriodicDue(t) THEN clock ELSE task_state[t].last_run,
   overrun_count |-> task_state[t].overrun_count + (IF PeriodicDue(t) THEN Missed(t) ELSE 0)]

StartCycle ==
  /\ phase = "idle"
  /\ current_time' = clock
  /\ ready' = {[task |-> t, due_at |-> DueAt(t)] : t \in {u \in Tasks : EventDue(u) \/ PeriodicDue(u)}}
  /\ task_state' = [t \in Tasks |-> Collected(t)]
  /\ runs' = [t \in Tasks |-> IF PeriodicDue(t) THEN runs[t] + 1 ELSE runs[t]]
  /\ seen' = events
  /\ phase' = "tasks" /\ ran' = <<>>
  /\ UNCHANGED <<clock, events, origin>>

(***************************************************************************)
(* execute_cycle: ready tasks by priority, due time, registration.         *)
(***************************************************************************)
\* Variant: the due time is left out of the sort key.
BeforeByIndex(a, b) ==
  \/ Priority[a.task] < Priority[b.task]
  \/ Priority[a.task] = Priority[b.task] /\ a.task <= b.task

Before(a, b) ==
  \/ Priority[a.task] < Priority[b.task]
  \/ /\ Priority[a.task] = Priority[b.task]
     /\ \/ a.due_at < b.due_at
        \/ a.due_at = b.due_at /\ a.task <= b.task

\* A program may set any event variable; they are sampled in the next cycle.
RunTask(a) ==
  /\ phase = "tasks" /\ a \in ready
  /\ \A b \in ready : Before(a, b)
  /\ ready' = ready \ {a}
  /\ ran' = Append(ran, a)
  /\ events' \in SUBSET EventVars
  /\ seen' = seen \cap events'
  /\ UNCHANGED <<clock, current_time, task_state, phase, runs, origin>>

TasksDone ==
  /\ phase = "tasks" /\ ready = {}
  /\ phase' = IF HasBackground THEN "background" ELSE "idle"
  /\ UNCHANGED <<clock, current_time, events, task_state, ready, ran, runs, seen, origin>>

execute_background_programs ==
  /\ phase = "background" /\ phase' = "idle"
  /\ events' \in SUBSET EventVars
  /\ seen' = seen \cap events'
  /\ UNCHANGED <<clock, current_time, task_state, ready, ran, runs, origin>>

\* A task or a background program is executing, and may fail.
Executing == (phase = "tasks" /\ ready # {}) \/ phase = "background"

\* A program fails and the fault policy halts the resource: the activations
\* that were collected and have not run are dropped, and no cycle follows.
ProgramFails ==
  /\ Executing
  /\ phase' = "halted" /\ ready' = {}
  /\ UNCHANGED <<clock, current_time, events, task_state, ran, runs, seen, origin>>

\* Runtime::restart between cycles (a request) or in the middle of one (a
\* task failed and the fault policy is restart).  A warm restart keeps the
\* RETAIN event variables.
RestartTasks(warm) ==
  /\ Restarts /\ (phase = "idle" \/ Executing)
  /\ events' = (IF warm THEN events \cap RetainEvents ELSE {})
                 \cup (InitEvents \ (IF warm THEN RetainEvents ELSE {}))
  /\ current_time' = 0
  /\ task_state' = [t \in Tasks |-> NewTaskState]
  /\ runs' = [t \in Tasks |-> 0]
  /\ ready' = {} /\ phase' = "idle" /\ ran' = <<>>
  /\ origin' = clock
  /\ seen' = {}
  /\ UNCHANGED clock

\* Between cycles the loop sleeps, and inputs may set event variables.
Sleep ==
  /\ phase = "idle" /\ clock < MaxClock
  /\ \E n \in 1..(MaxClock - clock) : clock' = clock + n
  /\ events' \in SUBSET EventVars
  /\ seen' = seen \cap events'
  /\ UNCHANGED <<current_time, task_state, ready, phase, ran, runs, origin>>

TaskNext ==
  \/ StartCycle \/ TasksDone \/ execute_background_programs \/ Sleep
  \/ ProgramFails
  \/ \E a \in ready : RunTask(a)
  \/ \E warm \in BOOLEAN : RestartTasks(warm)

TaskSpec == TaskInit /\ [][TaskNext]_taskVars

-----------------------------------------------------------------------------
(***************************************************************************)
(* Properties.                                                             *)
(***************************************************************************)

\* Fixed priority, FIFO by longest waiting time (10-runtime.md, 6.2): whatever
\* ran before in this cycle was at least as urgent as what ran after it and as
\* what still waits.
RunsInOrder ==
  LET Urgent(a, b) == \/ Priority[a.task] < Priority[b.task]
                      \/ Priority[a.task] = Priority[b.task] /\ a.due_at <= b.due_at
  IN  /\ \A i, j \in 1..Len(ran) : i < j => Urgent(ran[i], ran[j])
      /\ \A i \in 1..Len(ran), b \in ready : Urgent(ran[i], b)

\* Runs and overruns never account for more intervals than the runtime's time
\* holds: no interval is both run and counted as missed, or counted twice.
IntervalsAccounted ==
  \A t \in Tasks :
    (runs[t] + task_state[t].overrun_count) * Interval[t] <= task_state[t].last_run

\* At the end of a cycle no periodic task that was not held back by SINGLE is
\* a whole interval behind.
NobodyOverdue ==
  phase = "background" =>
    \A t \in Tasks : Interval[t] > 0 /\ ~task_state[t].last_single
                       => current_time - task_state[t].last_run < Interval[t]

\* Periodic activations keep their pace (collect_ready_tasks): both of the above, so
\* that neither too many nor too few intervals count as done.
PaceKept == IntervalsAccounted /\ NobodyOverdue

\* 10-runtime.md, 6.2: "a transition 0 -> 1 enqueues exactly one activation"
\* and registration initialises the previous SINGLE "to avoid a spurious edge
\* on the first cycle": an activation that is not periodic follows a value of 0,
\* unless a restart came in between.
NoSpuriousEdge ==
  [][\A t \in Tasks : phase = "idle" /\ phase' = "tasks" /\ EventDue(t)
                        => Single[t] \notin seen]_taskVars

-----------------------------------------------------------------------------
(***************************************************************************)
(* Statements of the documentation that the code does not keep: TLC finds  *)
(* each of them violated, README.md says how.                              *)
(***************************************************************************)
\* 10-runtime.md, 6.6: after an overrun "the task is eligible again on the next
\* interval boundary": whatever is due periodically is due on a boundary of its
\* interval.
DueOnBoundary ==
  \A a \in ready : Interval[a.task] > 0 /\ ~task_state[a.task].last_single
                     => a.due_at % Interval[a.task] = 0

\* 10-runtime.md, 6.6: "if a periodic task misses its deadline, the missed
\* activation is dropped, the overrun counter increments": the counter counts
\* intervals that passed since the runtime was started.
OverrunsAreReal ==
  \A t \in Tasks : Interval[t] > 0
    => task_state[t].overrun_count * Interval[t] <= clock - origin
=============================================================================
