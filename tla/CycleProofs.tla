---------------------------- MODULE CycleProofs -----------------------------
(***************************************************************************)
(* What holds of the tasks of a cycle for every number of tasks, every     *)
(* choice of intervals, priorities and SINGLE variables, and any length of *)
(* time; of the evaluator, which runs what the tasks name, for every text  *)
(* of programs, blocks and functions; and of the process image around      *)
(* them, for any cells and addresses and any requests of clients.          *)
(***************************************************************************)
EXTENDS TaskScheduler, Interpreter, ProcessImage, FiniteSetTheorems, SequenceTheorems, TLAPS

\* From the collection of the ready tasks to the end of the cycle no periodic
\* task is an interval behind the runtime's time.
OverdueInv ==
  phase \in {"tasks", "background"} =>
    \A t \in Tasks : Interval[t] > 0 /\ ~task_state[t].last_single
                       => current_time - task_state[t].last_run < Interval[t]

IInv == TaskTypeOK /\ RunsInOrder /\ IntervalsAccounted /\ OverdueInv

-----------------------------------------------------------------------------
\* The quotient that counts missed intervals does not exceed the elapsed time.
LEMMA Quotient ==
  ASSUME NEW e \in Int, NEW i \in Nat, i > 0, e >= i
  PROVE  /\ e \div i \in Nat /\ e \div i >= 1
         /\ (e \div i) * i <= e
OBVIOUS

\* One collected task: its state is well typed, and the intervals it accounts
\* for fit into the time up to its last run.
LEMMA CollectedState ==
  ASSUME TaskTypeOK, NEW t \in Tasks
  PROVE  /\ Collected(t) \in TaskStates
         /\ DueAt(t) \in Nat
         /\ PeriodicDue(t) => Missed(t) \in Nat
<1>1. /\ Interval[t] \in Nat /\ clock \in Nat
      /\ task_state[t] \in TaskStates
  BY TaskAssumption DEF TaskTypeOK
<1>2. task_state[t].last_run \in Nat /\ task_state[t].overrun_count \in Nat /\ Elapsed(t) \in Int
  BY <1>1 DEF TaskStates, Elapsed
<1>3. PeriodicDue(t) => Missed(t) \in Nat
  <2> SUFFICES ASSUME PeriodicDue(t) PROVE Missed(t) \in Nat
    OBVIOUS
  <2>1. Interval[t] > 0 /\ Elapsed(t) >= Interval[t]
    BY DEF PeriodicDue
  <2>2. Elapsed(t) \div Interval[t] \in Nat /\ Elapsed(t) \div Interval[t] >= 1
    BY <1>1, <1>2, <2>1, Quotient
  <2> QED
    BY <2>2 DEF Missed
<1>4. DueAt(t) \in Nat
  BY <1>1, <1>2 DEF DueAt
<1>5. Collected(t) \in TaskStates
  BY <1>1, <1>2, <1>3 DEF Collected, TaskStates, SingleNow
<1> QED
  BY <1>3, <1>4, <1>5

LEMMA InitInv == TaskInit => IInv
<1> SUFFICES ASSUME TaskInit PROVE IInv
  OBVIOUS
<1>0. NewTaskState \in TaskStates
  BY DEF NewTaskState, TaskStates
<1>1. \A t \in Tasks : RegisteredState(t) \in TaskStates /\ NewTaskState \in TaskStates
  <2> SUFFICES ASSUME NEW t \in Tasks PROVE RegisteredState(t) \in TaskStates
    BY <1>0
  <2>1. (Single[t] \in InitEvents) \in BOOLEAN
    OBVIOUS
  <2> QED
    BY <1>0, <2>1 DEF RegisteredState, TaskStates
<1>2. task_state \in [Tasks -> TaskStates]
  BY <1>1 DEF TaskInit
<1>3. ran \in Seq(Activations) /\ Len(ran) = 0
  BY DEF TaskInit
<1>4. TaskTypeOK
  BY <1>2, <1>3, TaskAssumption DEF TaskInit, TaskTypeOK
<1>5. RunsInOrder
  BY <1>3 DEF TaskInit, RunsInOrder
<1>6. \A t \in Tasks : task_state[t].last_run = 0 /\ task_state[t].overrun_count = 0 /\ runs[t] = 0
  BY DEF TaskInit, RegisteredState, NewTaskState
<1>7. IntervalsAccounted
  BY <1>6, TaskAssumption DEF IntervalsAccounted
<1>8. OverdueInv
  BY DEF TaskInit, OverdueInv
<1> QED
  BY <1>4, <1>5, <1>7, <1>8 DEF IInv

LEMMA StartCycleInv == IInv /\ StartCycle => IInv'
<1> SUFFICES ASSUME IInv, StartCycle PROVE IInv'
  OBVIOUS
<1> USE DEF IInv
<1>1. ran' \in Seq(Activations) /\ Len(ran') = 0
  BY DEF StartCycle
<1>2. task_state' \in [Tasks -> TaskStates] /\ \A t \in Tasks : task_state'[t] = Collected(t)
  BY CollectedState DEF StartCycle
<1>3. ready' \subseteq Activations
  BY CollectedState DEF StartCycle, Activations
<1>4. runs' \in [Tasks -> Nat]
  BY DEF StartCycle, TaskTypeOK
<1>5. TaskTypeOK'
  BY <1>1, <1>2, <1>3, <1>4 DEF StartCycle, TaskTypeOK
<1>6. RunsInOrder'
  BY <1>1 DEF RunsInOrder
<1>7. ASSUME NEW t \in Tasks
      PROVE  (runs'[t] + task_state'[t].overrun_count) * Interval[t] <= task_state'[t].last_run
  <2> DEFINE n == runs[t] + task_state[t].overrun_count
             q == Elapsed(t) \div Interval[t]
  <2>1. /\ Interval[t] \in Nat /\ clock \in Nat /\ runs[t] \in Nat
        /\ task_state[t].last_run \in Nat /\ task_state[t].overrun_count \in Nat
    BY TaskAssumption DEF TaskTypeOK, TaskStates
  <2>2. n * Interval[t] <= task_state[t].last_run
    BY DEF IntervalsAccounted
  <2>3. CASE PeriodicDue(t)
    <3>1. /\ task_state'[t].last_run = clock
          /\ task_state'[t].overrun_count = task_state[t].overrun_count + Missed(t)
          /\ runs'[t] = runs[t] + 1
      BY <1>2, <2>3 DEF Collected, StartCycle
    <3>2. Interval[t] > 0 /\ Elapsed(t) >= Interval[t] /\ Elapsed(t) \in Int
      BY <2>1, <2>3 DEF PeriodicDue, Elapsed
    <3>3. q \in Nat /\ q * Interval[t] <= Elapsed(t)
      BY <2>1, <3>2, Quotient
    <3>4. runs'[t] + task_state'[t].overrun_count = n + q
      BY <2>1, <3>1, <3>3 DEF Missed
    <3>5. (n + q) * Interval[t] = n * Interval[t] + q * Interval[t]
      BY <2>1, <3>3
    <3>6. n * Interval[t] \in Int /\ q * Interval[t] \in Int
      BY <2>1, <3>3
    <3>7. task_state[t].last_run + Elapsed(t) = clock
      BY <2>1 DEF Elapsed
    <3> HIDE DEF n, q
    <3> QED
      BY <2>1, <2>2, <3>1, <3>2, <3>3, <3>4, <3>5, <3>6, <3>7
  <2>4. CASE ~PeriodicDue(t)
    <3>1. /\ task_state'[t].last_run = task_state[t].last_run
          /\ task_state'[t].overrun_count = task_state[t].overrun_count
          /\ runs'[t] = runs[t]
      BY <1>2, <2>1, <2>4 DEF Collected, StartCycle
    <3> QED
      BY <2>2, <3>1
  <2> QED
    BY <2>3, <2>4
<1>8. IntervalsAccounted'
  BY <1>7 DEF IntervalsAccounted
<1>9. ASSUME NEW t \in Tasks, Interval[t] > 0, ~task_state'[t].last_single
      PROVE  current_time' - task_state'[t].last_run < Interval[t]
  <2>1. /\ Interval[t] \in Nat /\ clock \in Nat /\ task_state[t].last_run \in Nat
        /\ current_time' = clock /\ ~SingleNow(t)
    BY <1>2, <1>9, TaskAssumption DEF TaskTypeOK, TaskStates, StartCycle, Collected
  <2>2. CASE PeriodicDue(t)
    BY <1>2, <1>9, <2>1, <2>2 DEF Collected
  <2>3. CASE ~PeriodicDue(t)
    BY <1>2, <1>9, <2>1, <2>3 DEF Collected, PeriodicDue, Elapsed
  <2> QED
    BY <2>2, <2>3
<1>10. OverdueInv'
  BY <1>9 DEF OverdueInv
<1> QED
  BY <1>5, <1>6, <1>8, <1>10

\* Running one activation: it is the most urgent of those that wait, and none
\* of those that ran before was less urgent.
LEMMA RunTaskInv ==
  ASSUME IInv, NEW a \in ready, RunTask(a)
  PROVE  IInv'
<1> USE DEF IInv
<1> DEFINE Urgent(x, y) == \/ Priority[x.task] < Priority[y.task]
                           \/ Priority[x.task] = Priority[y.task] /\ x.due_at <= y.due_at
<1>1. a \in Activations /\ ran' = Append(ran, a) /\ ready' = ready \ {a}
  BY DEF RunTask, TaskTypeOK
<1>2. ran' \in Seq(Activations) /\ Len(ran') = Len(ran) + 1
  BY <1>1 DEF TaskTypeOK
<1>3. TaskTypeOK'
  BY <1>1, <1>2 DEF RunTask, TaskTypeOK
<1>4. \A b \in ready : Urgent(a, b)
  <2> SUFFICES ASSUME NEW b \in ready PROVE Urgent(a, b)
    OBVIOUS
  <2>1. Before(a, b) /\ b \in Activations
    BY DEF RunTask, TaskTypeOK
  <2>2. a.due_at \in Nat /\ b.due_at \in Nat
    BY <1>1, <2>1 DEF Activations
  <2> QED
    BY <2>1, <2>2 DEF Before
<1>5. /\ \A i \in 1..Len(ran) : ran'[i] = ran[i] /\ Urgent(ran[i], a)
      /\ ran'[Len(ran')] = a
  BY <1>1, <1>2 DEF RunsInOrder, TaskTypeOK
<1>6. \A i, j \in 1..Len(ran') : i < j => Urgent(ran'[i], ran'[j])
  <2> SUFFICES ASSUME NEW i \in 1..Len(ran'), NEW j \in 1..Len(ran'), i < j
               PROVE  Urgent(ran'[i], ran'[j])
    OBVIOUS
  <2>0. Len(ran) \in Nat
    BY DEF TaskTypeOK
  <2>1. i \in 1..Len(ran)
    BY <1>2, <2>0
  <2>2. CASE j = Len(ran')
    BY <1>5, <2>1, <2>2
  <2>3. CASE j # Len(ran')
    <3>1. j \in 1..Len(ran)
      BY <1>2, <2>0, <2>3
    <3> QED
      BY <1>5, <2>1, <3>1 DEF RunsInOrder
  <2> QED
    BY <2>2, <2>3
<1>7. \A i \in 1..Len(ran'), b \in ready' : Urgent(ran'[i], b)
  <2> SUFFICES ASSUME NEW i \in 1..Len(ran'), NEW b \in ready' PROVE Urgent(ran'[i], b)
    OBVIOUS
  <2>1. b \in ready
    BY <1>1
  <2>2. CASE i = Len(ran')
    BY <1>4, <1>5, <2>1, <2>2
  <2>3. CASE i # Len(ran')
    <3>1. i \in 1..Len(ran)
      BY <1>2, <2>3 DEF TaskTypeOK
    <3> QED
      BY <1>5, <2>1, <3>1 DEF RunsInOrder
  <2> QED
    BY <2>2, <2>3
<1>8. RunsInOrder'
  BY <1>6, <1>7 DEF RunsInOrder
<1>9. IntervalsAccounted' /\ OverdueInv'
  BY DEF RunTask, IntervalsAccounted, OverdueInv
<1> QED
  BY <1>3, <1>8, <1>9

\* The other steps leave the collected activations alone or drop them.
LEMMA OtherInv ==
  ASSUME IInv,
         \/ TasksDone \/ execute_background_programs \/ Sleep \/ ProgramFails
         \/ \E warm \in BOOLEAN : RestartTasks(warm)
  PROVE  IInv'
<1> USE DEF IInv
<1>1. CASE TasksDone
  BY <1>1 DEF TasksDone, TaskTypeOK, RunsInOrder, IntervalsAccounted, OverdueInv
<1>2. CASE execute_background_programs
  BY <1>2 DEF execute_background_programs, TaskTypeOK, RunsInOrder, IntervalsAccounted, OverdueInv
<1>3. CASE Sleep
  <2>1. clock' \in Nat
    BY <1>3, TaskAssumption DEF Sleep, TaskTypeOK
  <2> QED
    BY <1>3, <2>1 DEF Sleep, TaskTypeOK, RunsInOrder, IntervalsAccounted, OverdueInv
<1>4. CASE ProgramFails
  BY <1>4 DEF ProgramFails, TaskTypeOK, RunsInOrder, IntervalsAccounted, OverdueInv
<1>5. ASSUME NEW warm \in BOOLEAN, RestartTasks(warm)
      PROVE  IInv'
  <2>1. ran' \in Seq(Activations) /\ Len(ran') = 0
    BY <1>5 DEF RestartTasks
  <2>2. NewTaskState \in TaskStates
    BY DEF NewTaskState, TaskStates
  <2>3. events' \subseteq EventVars
    BY <1>5, TaskAssumption DEF RestartTasks, TaskTypeOK
  <2>4. task_state' \in [Tasks -> TaskStates] /\ runs' \in [Tasks -> Nat]
    BY <1>5, <2>2 DEF RestartTasks
  <2>5. TaskTypeOK'
    BY <1>5, <2>1, <2>3, <2>4 DEF RestartTasks, TaskTypeOK
  <2>6. RunsInOrder'
    BY <2>1 DEF RunsInOrder
  <2>7. \A t \in Tasks : /\ task_state'[t].last_run = 0 /\ task_state'[t].overrun_count = 0
                         /\ runs'[t] = 0
    BY <1>5 DEF RestartTasks, NewTaskState
  <2>8. IntervalsAccounted'
    BY <2>7, TaskAssumption DEF IntervalsAccounted
  <2>9. OverdueInv'
    BY <1>5 DEF RestartTasks, OverdueInv
  <2> QED
    BY <2>5, <2>6, <2>8, <2>9
<1> QED
  BY <1>1, <1>2, <1>3, <1>4, <1>5

LEMMA NextInv == IInv /\ [TaskNext]_taskVars => IInv'
<1> SUFFICES ASSUME IInv, [TaskNext]_taskVars PROVE IInv'
  OBVIOUS
<1>1. CASE UNCHANGED taskVars
  BY <1>1 DEF taskVars, IInv, TaskTypeOK, RunsInOrder, IntervalsAccounted, OverdueInv
<1>2. CASE StartCycle
  BY <1>2, StartCycleInv
<1>3. CASE \E a \in ready : RunTask(a)
  BY <1>3, RunTaskInv
<1>4. CASE \/ TasksDone \/ execute_background_programs \/ Sleep \/ ProgramFails
           \/ \E warm \in BOOLEAN : RestartTasks(warm)
  BY <1>4, OtherInv
<1> QED
  BY <1>1, <1>2, <1>3, <1>4, Zenon DEF TaskNext

-----------------------------------------------------------------------------
\* The inductive invariant of the task scheduler.
THEOREM TaskInvariance == TaskSpec => []IInv
BY InitInv, NextInv, PTL DEF TaskSpec

\* Task states, activations and counters are well typed; in particular the
\* number of missed intervals is never negative.
THEOREM TaskTypeCorrect == TaskSpec => []TaskTypeOK
<1>1. IInv => TaskTypeOK
  BY DEF IInv
<1> QED
  BY <1>1, TaskInvariance, PTL

\* Ready tasks run by priority and, within one priority, by due time.
THEOREM AlwaysRunsInOrder == TaskSpec => []RunsInOrder
<1>1. IInv => RunsInOrder
  BY DEF IInv
<1> QED
  BY <1>1, TaskInvariance, PTL

\* Every interval is run, counted as missed, or neither, and never twice; no cycle
\* leaves a periodic task a whole interval behind.
THEOREM PaceAlwaysKept == TaskSpec => []PaceKept
<1>1. IInv => PaceKept
  BY DEF IInv, OverdueInv, PaceKept, NobodyOverdue
<1> QED
  BY <1>1, TaskInvariance, PTL

-----------------------------------------------------------------------------
(***************************************************************************)
(* Edges.  The edge memory of a task is never behind what was sampled: a   *)
(* SINGLE variable that was TRUE in the last sample and ever since is one  *)
(* whose last value the task has noted as TRUE.                            *)
(***************************************************************************)
EdgesNoted == \A t \in Tasks : Single[t] \in seen => task_state[t].last_single

NoEventsAtStart == \A t \in Tasks : Single[t] \notin InitEvents

LEMMA EdgesNotedInit == NoEventsAtStart /\ TaskInit => EdgesNoted
BY DEF NoEventsAtStart, TaskInit, EdgesNoted

LEMMA EdgesNotedNext == EdgesNoted /\ [TaskNext]_taskVars => EdgesNoted'
<1> SUFFICES ASSUME EdgesNoted, [TaskNext]_taskVars PROVE EdgesNoted'
  OBVIOUS
<1>1. CASE StartCycle
  BY <1>1 DEF StartCycle, Collected, SingleNow, EdgesNoted
<1>2. ASSUME NEW warm \in BOOLEAN, RestartTasks(warm)
      PROVE  EdgesNoted'
  BY <1>2 DEF RestartTasks, EdgesNoted
<1>3. ASSUME seen' \subseteq seen, UNCHANGED task_state
      PROVE  EdgesNoted'
  BY <1>3 DEF EdgesNoted
<1>4. CASE execute_background_programs \/ Sleep \/ \E a \in ready : RunTask(a)
  BY <1>3, <1>4 DEF execute_background_programs, Sleep, RunTask
<1>5. CASE TasksDone \/ ProgramFails \/ UNCHANGED taskVars
  BY <1>3, <1>5 DEF TasksDone, ProgramFails, taskVars
<1> QED
  BY <1>1, <1>2, <1>4, <1>5 DEF TaskNext

\* A task that is not due for its interval follows a sample of 0 of its SINGLE
\* variable, across faults, overruns and restarts, unless the variable is TRUE
\* from its declaration on: what the restart before the first cycle makes of
\* that one is the disagreement described in the README.
THEOREM NeverSpuriousEdge == NoEventsAtStart /\ TaskSpec => NoSpuriousEdge
<1>1. EdgesNoted /\ [TaskNext]_taskVars =>
        [\A t \in Tasks : phase = "idle" /\ phase' = "tasks" /\ EventDue(t)
                             => Single[t] \notin seen]_taskVars
  BY DEF EdgesNoted, EventDue
<1> QED
  BY <1>1, EdgesNotedInit, EdgesNotedNext, PTL DEF TaskSpec, NoSpuriousEdge

-----------------------------------------------------------------------------
(***************************************************************************)
(* The evaluator.                                                          *)
(***************************************************************************)
\* A sequence, whatever its elements are.
IsSequence(q) == Len(q) \in Nat /\ q = [i \in 1..Len(q) |-> q[i]]

LEMMA InSeq ==
  ASSUME NEW q, IsSequence(q)
  PROVE  \E S : q \in Seq(S)
<1> DEFINE S == {q[i] : i \in 1..Len(q)}
<1>1. q \in [1..Len(q) -> S]
  BY DEF IsSequence
<1>2. q \in Seq(S)
  BY <1>1, SeqDef DEF IsSequence
<1> QED
  BY <1>2

LEMMA SeqIs ==
  ASSUME NEW S, NEW q \in Seq(S)
  PROVE  IsSequence(q)
BY LenProperties DEF IsSequence

LEMMA Pushed ==
  ASSUME NEW q, IsSequence(q), NEW x
  PROVE  /\ IsSequence(Append(q, x)) /\ Len(Append(q, x)) = Len(q) + 1 /\ Append(q, x) # <<>>
         /\ \A i \in 1..Len(q) : Append(q, x)[i] = q[i]
         /\ Append(q, x)[Len(q) + 1] = x
<1>1. PICK S : q \in Seq(S)
  BY InSeq
<1>2. q \in Seq(S \cup {x}) /\ x \in S \cup {x}
  BY <1>1, SeqMonotonic
<1> DEFINE T == S \cup {x}
<1> HIDE DEF T
<1>3. q \in Seq(T) /\ x \in T
  BY <1>2 DEF T
<1>4. /\ Append(q, x) \in Seq(T) /\ Append(q, x) # <<>>
      /\ Len(Append(q, x)) = Len(q) + 1
      /\ \A i \in 1..Len(q) : Append(q, x)[i] = q[i]
      /\ Append(q, x)[Len(q) + 1] = x
  BY <1>3, AppendProperties
<1>5. IsSequence(Append(q, x))
  BY <1>4, SeqIs
<1> QED
  BY <1>4, <1>5

LEMMA FrontOfSequence ==
  ASSUME NEW q, IsSequence(q), q # <<>>
  PROVE  /\ IsSequence(Front(q)) /\ Len(q) >= 1 /\ Len(Front(q)) = Len(q) - 1
         /\ \A i \in 1..(Len(q) - 1) : Front(q)[i] = q[i]
         /\ Front(q) = <<>> <=> Len(q) = 1
<1>1. PICK S : q \in Seq(S)
  BY InSeq
<1>2. Len(q) \in Nat /\ Len(q) >= 1
  BY <1>1, EmptySeq, LenProperties
<1>3. \A i \in 1..(Len(q) - 1) : q[i] \in S
  BY <1>1, <1>2, LenProperties
<1>4. PICK n : n = Len(q) - 1
  OBVIOUS
<1>5. 1 \in Int /\ n \in Int /\ n >= 0 /\ \A i \in 1..n : q[i] \in S
  BY <1>2, <1>3, <1>4
<1>6. /\ SubSeq(q, 1, n) \in Seq(S)
      /\ Len(SubSeq(q, 1, n)) = IF 1 <= n THEN n - 1 + 1 ELSE 0
      /\ \A i \in 1..(n - 1 + 1) : SubSeq(q, 1, n)[i] = q[1 + i - 1]
  BY ONLY <1>5, SubSeqProperties
<1>7. /\ Front(q) \in Seq(S)
      /\ Len(Front(q)) = Len(q) - 1
      /\ \A i \in 1..(Len(q) - 1) : Front(q)[i] = q[i]
  <2>1. Front(q) = SubSeq(q, 1, n)
    BY <1>4 DEF Front
  <2> QED
    BY <1>4, <1>5, <1>6, <2>1
<1>8. Front(q) = <<>> <=> Len(Front(q)) = 0
  BY <1>7, EmptySeq
<1> QED
  BY <1>2, <1>7, <1>8, SeqIs

LEMMA ChangedSequence ==
  ASSUME NEW q, IsSequence(q), NEW n, NEW v,
         NEW r, r = [q EXCEPT ![n] = v]
  PROVE  /\ IsSequence(r) /\ Len(r) = Len(q)
         /\ \A i \in 1..Len(q) : i # n => r[i] = q[i]
         /\ n \in 1..Len(q) => r[n] = v
         /\ r = <<>> <=> q = <<>>
<1>1. r = [i \in 1..Len(q) |-> IF i = n THEN v ELSE q[i]]
  BY DEF IsSequence
<1>2. r \in [1..Len(q) -> {q[i] : i \in 1..Len(q)} \cup {v}] /\ Len(q) \in Nat
  BY <1>1 DEF IsSequence
<1>3. r \in Seq({q[i] : i \in 1..Len(q)} \cup {v})
  BY <1>2, SeqDef
<1>4. Len(r) = Len(q)
  BY <1>2, <1>3, LenProperties
<1>5. IsSequence(r)
  BY <1>3, SeqIs
<1>6. r = <<>> <=> q = <<>>
  <2>1. PICK S : q \in Seq(S)
    BY InSeq
  <2> QED
    BY <1>3, <1>4, <2>1, EmptySeq
<1> QED
  BY <1>1, <1>4, <1>5, <1>6

-----------------------------------------------------------------------------
\* A context, an activation, and what they form: sequences whose elements are
\* whole.  Only with it is a saved context one that could be restored.
Contexts == [instance : {NoName} \cup Pous, return_name : {NoName} \cup Pous,
             call_depth : Nat, loop_depth : Nat]

IsActivation(a) ==
  /\ a = [pou |-> a.pou, saved |-> a.saved, args |-> a.args, into |-> a.into, loops |-> a.loops]
  /\ a.pou \in Pous /\ a.saved \in Contexts /\ a.loops \in Nat

EvalShape ==
  /\ IsSequence(frames) /\ IsSequence(levels) /\ ctx \in Contexts
  /\ \A k \in 1..Len(levels) : IsActivation(levels[k])

\* Somebody is executed exactly while there are activations, with the hook in
\* its context.
Busy ==
  /\ status \in {"done", "faulted"} => levels = <<>>
  /\ status \notin {"done", "faulted"} => status \in {"running", "fault"} /\ levels # <<>>
  /\ levels # <<>> => debug \in {"context", "lost"}

EvalInv == EvalShape /\ Busy /\ ContextRestored

\* What a stack calls for depends on the activations only.
LEMMA InnermostSame ==
  ASSUME NEW P, NEW s, NEW r, NEW k, NEW v, \A i \in 1..k : s[i].pou = r[i].pou,
         Innermost(P, s, k, v)
  PROVE  Innermost(P, r, k, v)
<1>1. CASE v = NoName /\ \A i \in 1..k : s[i].pou \notin P
  BY <1>1 DEF Innermost
<1>2. ASSUME NEW i \in 1..k, v = s[i].pou, s[i].pou \in P, \A j \in (i + 1)..k : s[j].pou \notin P
      PROVE  Innermost(P, r, k, v)
  <2>1. r[i].pou = s[i].pou
    BY <1>2
  <2>2. \A j \in (i + 1)..k : r[j].pou \notin P
    BY <1>2
  <2> QED
    BY <1>2, <2>1, <2>2 DEF Innermost
<1> QED
  BY <1>1, <1>2 DEF Innermost

LEMMA FitsSame ==
  ASSUME NEW c, NEW s, NEW r, NEW k, NEW looping, \A i \in 1..k : s[i].pou = r[i].pou,
         looping => s[k].saved = r[k].saved /\ s[k].loops = r[k].loops,
         Fits(c, s, k, looping)
  PROVE  Fits(c, r, k, looping)
<1>1. Innermost({Program, Block}, r, k, c.instance) /\ Innermost(Functions, r, k, c.return_name)
  BY InnermostSame DEF Fits
<1> QED
  BY <1>1 DEF Fits

\* A new activation is the innermost of its kind and leaves the other kind alone.
LEMMA InnermostPushed ==
  ASSUME NEW P, NEW s, NEW r, NEW k \in Nat, NEW v, \A i \in 1..k : s[i].pou = r[i].pou
  PROVE  /\ r[k + 1].pou \in P => Innermost(P, r, k + 1, r[k + 1].pou)
         /\ r[k + 1].pou \notin P /\ Innermost(P, s, k, v) => Innermost(P, r, k + 1, v)
<1>1. ASSUME r[k + 1].pou \in P
      PROVE  Innermost(P, r, k + 1, r[k + 1].pou)
  BY <1>1 DEF Innermost
<1>2. ASSUME r[k + 1].pou \notin P, Innermost(P, s, k, v)
      PROVE  Innermost(P, r, k + 1, v)
  <2>1. Innermost(P, r, k, v)
    BY <1>2, InnermostSame
  <2>2. \A i \in 1..(k + 1) : i \in 1..k \/ i = k + 1
    OBVIOUS
  <2>3. CASE v = NoName /\ \A i \in 1..k : r[i].pou \notin P
    BY <1>2, <2>2, <2>3 DEF Innermost
  <2>4. ASSUME NEW i \in 1..k, v = r[i].pou, r[i].pou \in P, \A j \in (i + 1)..k : r[j].pou \notin P
        PROVE  Innermost(P, r, k + 1, v)
    <3>1. i \in 1..(k + 1) /\ \A j \in (i + 1)..(k + 1) : r[j].pou \notin P
      BY <1>2, <2>4
    <3> QED
      BY <2>4, <3>1 DEF Innermost
  <2> QED
    BY <2>1, <2>3, <2>4 DEF Innermost
<1> QED
  BY <1>1, <1>2

\* What the invariant says of the newest activation.
LEMMA Newest ==
  ASSUME EvalInv, levels # <<>>
  PROVE  /\ Len(levels) \in Nat /\ Len(levels) >= 1 /\ Depth = Len(levels) /\ frames # <<>>
         /\ Level = levels[Len(levels)] /\ IsActivation(Level)
         /\ Fits(ctx, levels, Len(levels), status = "running")
         /\ levels[1].saved = Outside
         /\ \A k \in 1..(Len(levels) - 1) : Fits(levels[k + 1].saved, levels, k, TRUE)
         /\ debug \in {"context", "lost"} /\ status \in {"running", "fault"}
<1>1. Len(levels) \in Nat /\ Len(levels) >= 1
  BY FrontOfSequence DEF EvalInv, EvalShape
<1>2. Depth = Len(levels) /\ frames # <<>>
  <2>1. Depth = Len(levels)
    BY DEF EvalInv, ContextRestored
  <2>2. PICK S : frames \in Seq(S)
    BY InSeq DEF EvalInv, EvalShape
  <2> QED
    BY <1>1, <2>1, <2>2, EmptySeq DEF Depth
<1>3. Level = levels[Len(levels)] /\ IsActivation(Level)
  BY <1>1 DEF Level, Last, EvalInv, EvalShape
<1>4. debug \in {"context", "lost"} /\ status \in {"running", "fault"}
  BY DEF EvalInv, Busy
<1> QED
  BY <1>1, <1>2, <1>3, <1>4 DEF EvalInv, ContextRestored

-----------------------------------------------------------------------------
\* In: one activation on an empty stack.
LEMMA Begins ==
  ASSUME EvalInv, NEW pou \in {Program, Block}, Execute(pou)
  PROVE  EvalInv'
<1>1. levels = <<>> /\ status = "done" /\ ctx = Outside /\ frames = <<>>
      /\ debug \in {"runtime", "lost"}
  BY DEF Execute, EvalInv, Busy, ContextRestored
<1> DEFINE a == [pou |-> pou, saved |-> ctx, args |-> <<>>, into |-> NoName, loops |-> 0]
<1>2. levels' = <<a>> /\ frames' = <<NoName>> /\ ctx' = [Outside EXCEPT !.instance = pou]
      /\ status' = "running" /\ debug' \in {"context", "lost"}
  BY <1>1 DEF Execute
<1>3. IsSequence(levels') /\ IsSequence(frames') /\ Len(levels') = 1 /\ Len(frames') = 1
      /\ levels' # <<>> /\ levels'[1] = a
  BY <1>2 DEF IsSequence
<1>4. IsActivation(a)
  BY <1>1, InterpreterAssumption DEF IsActivation, Contexts, Outside, Pous
<1>5. EvalShape'
  <2>1. ctx' \in Contexts
    BY <1>2 DEF Contexts, Outside, Pous
  <2>2. \A k \in 1..Len(levels') : IsActivation(levels'[k])
    BY <1>3, <1>4
  <2> QED
    BY <1>3, <2>1, <2>2 DEF EvalShape, IsActivation
<1>6. Busy'
  BY <1>2, <1>3 DEF Busy
<1>7. Fits(ctx', levels', 1, TRUE)
  <2>1. ctx'.call_depth = 0 /\ ctx'.loop_depth = 0 /\ ctx'.instance = pou /\ ctx'.return_name = NoName
    BY <1>2 DEF Outside
  <2>2. Innermost({Program, Block}, levels', 1, pou)
    BY <1>3 DEF Innermost
  <2>3. Innermost(Functions, levels', 1, NoName)
    BY <1>3, InterpreterAssumption DEF Innermost
  <2>4. a.saved.loop_depth = 0 /\ a.loops = 0
    BY <1>1 DEF Outside
  <2> QED
    BY <1>3, <2>1, <2>2, <2>3, <2>4 DEF Fits
<1>8. ContextRestored'
  <2>1. Depth' = Len(levels') /\ levels'[1].saved = Outside
    BY <1>1, <1>3 DEF Depth
  <2>2. Fits(ctx, levels, Len(levels), status = "running")'
    BY <1>2, <1>3, <1>7 DEF Fits, Innermost
  <2>3. \A k \in 1..(Len(levels') - 1) : Fits(levels'[k + 1].saved, levels', k, TRUE)
    BY <1>3
  <2> QED
    BY <1>3, <2>1, <2>2, <2>3 DEF ContextRestored, Fits, Innermost
<1> QED
  BY <1>5, <1>6, <1>8 DEF EvalInv

\* A failed initial value: no activation, and the frame stays.
LEMMA FailsToBegin ==
  ASSUME EvalInv, execute_function_block_ref, ~Execute(Block)
  PROVE  EvalInv'
<1>1. status = "done" /\ frames' = Append(frames, NoName) /\ debug' = "lost"
      /\ status' = "faulted" /\ UNCHANGED <<ctx, levels>>
  BY DEF execute_function_block_ref
<1>2. levels = <<>> /\ ctx = Outside
  BY <1>1 DEF EvalInv, Busy, ContextRestored
<1>3. IsSequence(frames')
  BY <1>1, Pushed DEF EvalInv, EvalShape
<1>4. EvalShape'
  BY <1>1, <1>3 DEF EvalInv, EvalShape, IsActivation, IsSequence
<1> QED
  BY <1>1, <1>2, <1>4 DEF EvalInv, Busy, ContextRestored

\* Out, with the last activation.
LEMMA Ends ==
  ASSUME EvalInv, levels # <<>>, Len(levels) = 1, NEW how \in {"done", "faulted"}, Leave(how)
  PROVE  EvalInv'
<1>1. levels' = <<>> /\ ctx' = Outside /\ status' = how /\ frames' = Front(frames)
      /\ debug' = IF debug = "context" THEN "runtime" ELSE debug
  BY DEF Leave
<1>2. Len(frames) = 1 /\ frames # <<>> /\ IsSequence(frames) /\ debug \in {"context", "lost"}
  BY Newest DEF Depth, EvalInv, EvalShape
<1>3. frames' = <<>>
  BY <1>1, <1>2, FrontOfSequence
<1>4. IsSequence(frames') /\ IsSequence(levels') /\ Len(levels') = 0
  BY <1>1, <1>3 DEF IsSequence
<1>5. ctx' \in Contexts
  BY <1>1 DEF Contexts, Outside
<1>6. EvalShape'
  BY <1>4, <1>5 DEF EvalShape, IsActivation
<1> QED
  BY <1>1, <1>2, <1>3, <1>6 DEF EvalInv, Busy, ContextRestored

LEMMA StartsAgain ==
  ASSUME EvalInv, restart_after_fault
  PROVE  EvalInv'
<1>1. status = "faulted" /\ frames' = <<>> /\ status' = "done" /\ UNCHANGED <<ctx, levels, debug>>
  BY DEF restart_after_fault
<1>2. levels = <<>> /\ ctx = Outside /\ debug \in {"runtime", "lost"}
  BY <1>1 DEF EvalInv, Busy, ContextRestored
<1>3. IsSequence(frames')
  BY <1>1 DEF IsSequence
<1>4. EvalShape'
  BY <1>1, <1>3 DEF EvalInv, EvalShape, IsActivation, IsSequence
<1> QED
  BY <1>1, <1>2, <1>4 DEF EvalInv, Busy, ContextRestored

-----------------------------------------------------------------------------
\* A statement that leaves the stack of activations alone, and at most faults.
LEMMA StackStays ==
  ASSUME EvalInv, UNCHANGED <<ctx, levels, debug>>, IsSequence(frames'), Len(frames') = Len(frames),
         frames' = <<>> <=> frames = <<>>,
         status' = status \/ (status = "running" /\ status' = "fault")
  PROVE  EvalInv'
<1>1. EvalShape'
  BY DEF EvalInv, EvalShape, IsActivation, IsSequence
<1>2. Busy'
  BY DEF EvalInv, Busy
<1>3. ContextRestored'
  <2>1. CASE levels = <<>>
    BY <2>1 DEF EvalInv, Busy, ContextRestored
  <2>2. CASE levels # <<>>
    <3>1. Depth' = Len(levels)
      BY <2>2, Newest DEF Depth
    <3>2. Fits(ctx, levels, Len(levels), status = "running")'
      BY <2>2, Newest DEF Fits, Innermost
    <3>3. (\A k \in 1..(Len(levels) - 1) : Fits(levels[k + 1].saved, levels, k, TRUE))'
      BY <2>2, Newest DEF Fits, Innermost
    <3> QED
      BY <2>2, <3>1, <3>2, <3>3, Newest DEF ContextRestored
  <2> QED
    BY <2>1, <2>2
<1> QED
  BY <1>1, <1>2, <1>3 DEF EvalInv

LEMMA Assigns ==
  ASSUME EvalInv, NEW x, NEW e, Assign(x, e)
  PROVE  EvalInv'
<1>1. UNCHANGED <<ctx, levels, status, debug>>
      /\ (frames' = frames \/ frames' = [frames EXCEPT ![Len(frames)] = Val(e)])
  BY DEF Assign, Returning
<1>2. IsSequence(frames') /\ Len(frames') = Len(frames) /\ (frames' = <<>> <=> frames = <<>>)
  BY <1>1, ChangedSequence DEF EvalInv, EvalShape
<1> QED
  BY <1>1, <1>2, StackStays

\* A loop begins or ends: only the loops of the newest activation change, and
\* the context's count with them.
LEMMA Loops ==
  ASSUME EvalInv, status = "running", NEW d \in {1, -1}, Level.loops + d \in Nat,
         levels' = [levels EXCEPT ![Len(levels)].loops = Level.loops + d],
         ctx' = [ctx EXCEPT !.loop_depth = @ + d], UNCHANGED <<frames, status, debug>>
  PROVE  EvalInv'
<1> DEFINE n == Len(levels)
           a == [Level EXCEPT !.loops = Level.loops + d]
<1>1. levels # <<>>
  BY DEF EvalInv, Busy
<1>2. /\ n \in Nat /\ n >= 1 /\ Depth = n /\ frames # <<>> /\ Level = levels[n]
      /\ IsActivation(Level) /\ Fits(ctx, levels, n, TRUE) /\ levels[1].saved = Outside
      /\ \A k \in 1..(n - 1) : Fits(levels[k + 1].saved, levels, k, TRUE)
      /\ debug \in {"context", "lost"}
  BY <1>1, Newest
<1>3. levels' = [levels EXCEPT ![n] = a]
  BY <1>2
<1>4. /\ a.pou = Level.pou /\ a.saved = Level.saved /\ a.loops = Level.loops + d
      /\ IsActivation(a)
  BY <1>2 DEF IsActivation
<1> HIDE DEF a
<1>5. /\ IsSequence(levels') /\ Len(levels') = n /\ levels' # <<>> /\ levels'[n] = a
      /\ \A i \in 1..n : i # n => levels'[i] = levels[i]
  <2>1. IsSequence(levels)
    BY DEF EvalInv, EvalShape
  <2>2. n \in 1..n
    BY <1>2
  <2> HIDE DEF n
  <2>3. /\ IsSequence(levels') /\ Len(levels') = Len(levels)
        /\ \A i \in 1..Len(levels) : i # n => levels'[i] = levels[i]
        /\ n \in 1..Len(levels) => levels'[n] = a
        /\ levels' = <<>> <=> levels = <<>>
    BY <1>3, <2>1, ChangedSequence
  <2> QED
    BY <1>1, <2>2, <2>3 DEF n
<1>6. \A i \in 1..n : levels'[i].pou = levels[i].pou /\ levels'[i].saved = levels[i].saved
  BY <1>2, <1>4, <1>5
<1>7. ctx \in Contexts /\ ctx.loop_depth = Level.saved.loop_depth + Level.loops
  BY <1>2 DEF EvalInv, EvalShape, Fits
<1>8. ctx' \in Contexts /\ ctx'.loop_depth = Level.saved.loop_depth + (Level.loops + d)
      /\ ctx'.call_depth = ctx.call_depth /\ ctx'.instance = ctx.instance
      /\ ctx'.return_name = ctx.return_name
  <2>1. Level.saved \in Contexts /\ Level.loops \in Nat
    BY <1>2 DEF IsActivation
  <2>2. PICK x, y, z : x = ctx.loop_depth /\ y = Level.saved.loop_depth /\ z = Level.loops
    OBVIOUS
  <2>3. x = y + z /\ y \in Nat /\ z \in Nat /\ z + d \in Nat
    BY <1>7, <2>1, <2>2 DEF Contexts
  <2>4. x + d = y + (z + d) /\ x + d \in Nat
    BY <2>3
  <2>5. ctx' = [ctx EXCEPT !.loop_depth = x + d]
    BY <2>2
  <2>6. ctx' \in Contexts /\ ctx'.loop_depth = x + d
        /\ ctx'.call_depth = ctx.call_depth /\ ctx'.instance = ctx.instance
        /\ ctx'.return_name = ctx.return_name
    BY ONLY <1>7, <2>4, <2>5 DEF Contexts
  <2> QED
    BY <2>2, <2>4, <2>6
<1>9. EvalShape'
  <2>1. \A k \in 1..n : IsActivation(levels'[k])
    BY <1>4, <1>5, <1>2 DEF EvalInv, EvalShape
  <2> QED
    BY <1>5, <1>8, <2>1 DEF EvalInv, EvalShape, IsActivation, IsSequence
<1>10. Busy'
  BY <1>2, <1>5 DEF EvalInv, Busy
<1>11. Fits(ctx', levels', n, TRUE)
  <2>1. Innermost({Program, Block}, levels', n, ctx.instance)
        /\ Innermost(Functions, levels', n, ctx.return_name)
    BY <1>2, <1>6, InnermostSame DEF Fits
  <2> QED
    BY <1>2, <1>4, <1>5, <1>8, <2>1 DEF Fits
<1>12. \A k \in 1..(n - 1) : Fits(levels'[k + 1].saved, levels', k, TRUE)
  <2> TAKE k \in 1..(n - 1)
  <2>1. levels'[k + 1].saved = levels[k + 1].saved /\ levels'[k] = levels[k]
        /\ \A i \in 1..k : levels[i].pou = levels'[i].pou
    BY <1>2, <1>5, <1>6
  <2>2. Fits(levels[k + 1].saved, levels, k, TRUE)
    BY <1>2
  <2>3. Fits(levels[k + 1].saved, levels', k, TRUE)
    BY <2>1, <2>2, FitsSame
  <2> QED
    BY <2>1, <2>3
<1>13. ContextRestored'
  <2>1. Depth' = Len(levels') /\ levels'[1].saved = Outside
    BY <1>2, <1>5, <1>6 DEF Depth
  <2>2. Fits(ctx, levels, Len(levels), status = "running")'
    BY <1>2, <1>5, <1>11 DEF Fits, Innermost
  <2>3. \A k \in 1..(Len(levels') - 1) : Fits(levels'[k + 1].saved, levels', k, TRUE)
    BY <1>5, <1>12
  <2> QED
    BY <1>5, <2>1, <2>2, <2>3 DEF ContextRestored, Fits, Innermost
<1> QED
  BY <1>9, <1>10, <1>13 DEF EvalInv

-----------------------------------------------------------------------------
\* A call: what it finds is saved with the new activation, which changes the
\* name of the result or the instance, and the depth.
LEMMA Calls ==
  ASSUME EvalInv, status = "running", NEW pou \in Callees[Running], NEW args, NEW into,
         CallPou(pou, args, into)
  PROVE  EvalInv'
<1> DEFINE n == Len(levels)
           a == [pou |-> pou, saved |-> ctx, args |-> args, into |-> into, loops |-> 0]
<1>1. levels # <<>>
  BY DEF EvalInv, Busy
<1>2. /\ n \in Nat /\ n >= 1 /\ Depth = n /\ Level = levels[n] /\ IsActivation(Level)
      /\ Fits(ctx, levels, n, TRUE) /\ levels[1].saved = Outside
      /\ \A k \in 1..(n - 1) : Fits(levels[k + 1].saved, levels, k, TRUE)
      /\ debug \in {"context", "lost"}
  BY <1>1, Newest
<1>3. /\ frames' = Append(frames, NoName) /\ levels' = Append(levels, a)
      /\ ctx' = [ctx EXCEPT !.instance = IF pou = Block THEN Block ELSE @,
                            !.return_name = IF pou = Block THEN @ ELSE pou,
                            !.call_depth = @ + 1]
      /\ UNCHANGED <<status, debug>>
  BY DEF CallPou
<1>4. pou \in Functions \cup {Block} /\ pou # Program
      /\ (pou = Block => pou \notin Functions)
  <2>1. Running \in Pous
    BY <1>2 DEF Running, IsActivation
  <2> QED
    BY <2>1, InterpreterAssumption DEF Pous
<1>5. ctx \in Contexts
  BY DEF EvalInv, EvalShape
<1>6. /\ IsActivation(a) /\ a.pou = pou /\ a.saved = ctx /\ a.loops = 0
  BY <1>4, <1>5 DEF IsActivation, Pous
<1> HIDE DEF a
<1>7. /\ IsSequence(levels') /\ Len(levels') = n + 1 /\ levels' # <<>> /\ levels'[n + 1] = a
      /\ \A i \in 1..n : levels'[i] = levels[i]
  BY <1>3, Pushed DEF EvalInv, EvalShape
<1>8. IsSequence(frames') /\ Len(frames') = n + 1
  BY <1>2, <1>3, Pushed DEF EvalInv, EvalShape, Depth
<1>9. /\ ctx' \in Contexts /\ ctx'.call_depth = ctx.call_depth + 1
      /\ ctx'.loop_depth = ctx.loop_depth
      /\ pou = Block => ctx'.instance = pou /\ ctx'.return_name = ctx.return_name
      /\ pou # Block => ctx'.instance = ctx.instance /\ ctx'.return_name = pou
  <2>1. CASE pou = Block
    <3>1. ctx' = [ctx EXCEPT !.instance = Block, !.return_name = ctx.return_name,
                             !.call_depth = ctx.call_depth + 1]
      BY <1>3, <2>1
    <3>2. ctx' = [instance |-> Block, return_name |-> ctx.return_name,
                  call_depth |-> ctx.call_depth + 1, loop_depth |-> ctx.loop_depth]
      BY <1>5, <3>1 DEF Contexts
    <3>3. /\ ctx.instance \in {NoName} \cup Pous /\ ctx.return_name \in {NoName} \cup Pous
          /\ ctx.call_depth + 1 \in Nat /\ ctx.loop_depth \in Nat /\ pou \in Pous /\ Block \in Pous
      BY <1>4, <1>5 DEF Contexts, Pous
    <3> QED
      BY <2>1, <3>2, <3>3 DEF Contexts
  <2>2. CASE pou # Block
    <3>1. ctx' = [ctx EXCEPT !.instance = ctx.instance, !.return_name = pou,
                             !.call_depth = ctx.call_depth + 1]
      BY <1>3, <2>2
    <3>2. ctx' = [instance |-> ctx.instance, return_name |-> pou,
                  call_depth |-> ctx.call_depth + 1, loop_depth |-> ctx.loop_depth]
      BY <1>5, <3>1 DEF Contexts
    <3>3. /\ ctx.instance \in {NoName} \cup Pous /\ ctx.return_name \in {NoName} \cup Pous
          /\ ctx.call_depth + 1 \in Nat /\ ctx.loop_depth \in Nat /\ pou \in Pous /\ Block \in Pous
      BY <1>4, <1>5 DEF Contexts, Pous
    <3> QED
      BY <2>2, <3>2, <3>3 DEF Contexts
  <2> QED
    BY <2>1, <2>2
<1>10. EvalShape'
  <2>1. \A k \in 1..(n + 1) : IsActivation(levels'[k])
    <3> TAKE k \in 1..(n + 1)
    <3>1. k \in 1..n \/ k = n + 1
      BY <1>2
    <3> QED
      BY <3>1, <1>6, <1>7 DEF EvalInv, EvalShape
  <2> QED
    BY <1>7, <1>8, <1>9, <2>1 DEF EvalShape, IsActivation, IsSequence
<1>11. Busy'
  BY <1>2, <1>3, <1>7 DEF EvalInv, Busy
<1>12. Fits(ctx', levels', n + 1, TRUE)
  <2>1. \A i \in 1..n : levels[i].pou = levels'[i].pou
    BY <1>7
  <2>2. Innermost({Program, Block}, levels', n + 1, ctx'.instance)
    <3>1. CASE pou = Block
      BY <1>2, <1>6, <1>7, <1>9, <2>1, <3>1, InnermostPushed
    <3>2. CASE pou # Block
      <4>1. Innermost({Program, Block}, levels, n, ctx.instance) /\ pou \notin {Program, Block}
        BY <1>2, <1>4, <3>2 DEF Fits
      <4> QED
        BY <1>2, <1>6, <1>7, <1>9, <2>1, <3>2, <4>1, InnermostPushed
    <3> QED
      BY <3>1, <3>2
  <2>3. Innermost(Functions, levels', n + 1, ctx'.return_name)
    <3>1. CASE pou = Block
      <4>1. Innermost(Functions, levels, n, ctx.return_name) /\ pou \notin Functions
        BY <1>2, <1>4, <3>1 DEF Fits
      <4> QED
        BY <1>2, <1>6, <1>7, <1>9, <2>1, <3>1, <4>1, InnermostPushed
    <3>2. CASE pou # Block
      BY <1>2, <1>4, <1>6, <1>7, <1>9, <2>1, <3>2, InnermostPushed
    <3> QED
      BY <3>1, <3>2
  <2>4. ctx'.call_depth = n
    BY <1>2, <1>9 DEF Fits
  <2>5. ctx'.loop_depth = a.saved.loop_depth + a.loops
    BY <1>5, <1>6, <1>9 DEF Contexts
  <2> QED
    BY <1>2, <1>7, <2>2, <2>3, <2>4, <2>5 DEF Fits
<1>13. \A k \in 1..n : Fits(levels'[k + 1].saved, levels', k, TRUE)
  <2> TAKE k \in 1..n
  <2>1. /\ levels'[k] = levels[k] /\ \A i \in 1..k : levels[i].pou = levels'[i].pou
    BY <1>2, <1>7
  <2>2. Fits(levels'[k + 1].saved, levels, k, TRUE)
    <3>1. CASE k = n
      BY <1>2, <1>6, <1>7, <3>1
    <3>2. CASE k # n
      <4>1. k \in 1..(n - 1) /\ levels'[k + 1] = levels[k + 1]
        BY <1>2, <1>7, <3>2
      <4> QED
        BY <1>2, <4>1
    <3> QED
      BY <3>1, <3>2
  <2> QED
    BY <2>1, <2>2, FitsSame
<1>14. ContextRestored'
  <2>1. Depth' = Len(levels') /\ levels'[1].saved = Outside
    BY <1>2, <1>7, <1>8 DEF Depth
  <2>2. Fits(ctx, levels, Len(levels), status = "running")'
    BY <1>3, <1>7, <1>12 DEF Fits, Innermost
  <2>3. \A k \in 1..(Len(levels') - 1) : Fits(levels'[k + 1].saved, levels', k, TRUE)
    <3>1. Len(levels') - 1 = n
      BY <1>2, <1>7
    <3> QED
      BY <1>13, <3>1
  <2> QED
    BY <1>7, <2>1, <2>2, <2>3 DEF ContextRestored, Fits, Innermost
<1> QED
  BY <1>10, <1>11, <1>14 DEF EvalInv

\* A call ends, or an error leaves it: what it saved is what the activations
\* below it call for.
LEMMA Leaves ==
  ASSUME EvalInv, levels # <<>>, Len(levels) > 1, ctx' = Restored, levels' = Front(levels),
         IsSequence(frames'), Len(frames') = Len(frames) - 1, UNCHANGED <<status, debug>>
  PROVE  EvalInv'
<1> DEFINE n == Len(levels)
<1>1. /\ n \in Nat /\ n > 1 /\ Depth = n /\ Level = levels[n] /\ IsActivation(Level)
      /\ Fits(ctx, levels, n, status = "running") /\ levels[1].saved = Outside
      /\ \A k \in 1..(n - 1) : Fits(levels[k + 1].saved, levels, k, TRUE)
      /\ debug \in {"context", "lost"}
  BY Newest
<1>2. /\ IsSequence(levels') /\ Len(levels') = n - 1 /\ levels' # <<>>
      /\ \A i \in 1..(n - 1) : levels'[i] = levels[i]
  BY <1>1, FrontOfSequence DEF EvalInv, EvalShape
<1>3. /\ ctx' \in Contexts /\ ctx'.call_depth = Level.saved.call_depth
      /\ ctx'.instance = Level.saved.instance /\ ctx'.return_name = Level.saved.return_name
      /\ status = "running" => ctx'.loop_depth = Level.saved.loop_depth
  <2>1. ctx \in Contexts /\ Level.saved \in Contexts /\ Level.loops \in Nat
    BY <1>1 DEF EvalInv, EvalShape, IsActivation
  <2>2. CASE status = "running"
    <3>1. ctx.loop_depth - Level.loops = Level.saved.loop_depth
      BY <1>1, <2>1, <2>2 DEF Fits, Contexts
    <3> QED
      BY <2>1, <2>2, <3>1 DEF Restored, Contexts
  <2>3. CASE status = "fault"
    BY <2>1, <2>3 DEF Restored, Contexts
  <2> QED
    BY <2>2, <2>3, Newest
<1>4. EvalShape'
  <2>1. \A k \in 1..(n - 1) : IsActivation(levels'[k])
    BY <1>1, <1>2 DEF EvalInv, EvalShape
  <2> QED
    BY <1>2, <1>3, <2>1 DEF EvalShape, IsActivation, IsSequence
<1>5. Busy'
  BY <1>1, <1>2 DEF EvalInv, Busy
<1>6. Fits(Level.saved, levels, n - 1, TRUE)
  <2>1. n - 1 \in 1..(n - 1) /\ n - 1 + 1 = n
    BY <1>1
  <2> QED
    BY <1>1, <2>1
<1>7. Fits(ctx', levels', n - 1, status = "running")
  <2>1. \A i \in 1..(n - 1) : levels[i].pou = levels'[i].pou
    BY <1>2
  <2>2. levels'[n - 1] = levels[n - 1]
    BY <1>1, <1>2
  <2>3. Innermost({Program, Block}, levels', n - 1, ctx'.instance)
        /\ Innermost(Functions, levels', n - 1, ctx'.return_name)
    BY <1>3, <1>6, <2>1, InnermostSame DEF Fits
  <2> QED
    BY <1>3, <1>6, <2>2, <2>3 DEF Fits
<1>8. \A k \in 1..(n - 2) : Fits(levels'[k + 1].saved, levels', k, TRUE)
  <2> TAKE k \in 1..(n - 2)
  <2>1. /\ levels'[k] = levels[k] /\ levels'[k + 1] = levels[k + 1]
        /\ \A i \in 1..k : levels[i].pou = levels'[i].pou
    BY <1>1, <1>2
  <2>2. Fits(levels'[k + 1].saved, levels, k, TRUE)
    <3>1. k \in 1..(n - 1)
      BY <1>1
    <3>2. Fits(levels[k + 1].saved, levels, k, TRUE)
      BY <1>1, <3>1
    <3> QED
      BY <2>1, <3>2
  <2> QED
    BY <2>1, <2>2, FitsSame
<1>9. ContextRestored'
  <2>1. Depth' = Len(levels') /\ levels'[1].saved = Outside
    BY <1>1, <1>2 DEF Depth
  <2>2. Fits(ctx, levels, Len(levels), status = "running")'
    BY <1>2, <1>7 DEF Fits, Innermost
  <2>3. \A k \in 1..(Len(levels') - 1) : Fits(levels'[k + 1].saved, levels', k, TRUE)
    <3>1. Len(levels') - 1 = n - 2
      BY <1>1, <1>2
    <3> QED
      BY <1>8, <3>1
  <2> QED
    BY <1>2, <2>1, <2>2, <2>3 DEF ContextRestored, Fits, Innermost
<1> QED
  BY <1>4, <1>5, <1>9 DEF EvalInv

LEMMA Returns ==
  ASSUME EvalInv, NEW e, Return(e)
  PROVE  EvalInv'
<1>1. /\ status = "running" /\ Len(levels) > 1 /\ ctx' = Restored /\ levels' = Front(levels)
      /\ UNCHANGED <<status, debug>>
  BY DEF Return
<1>2. frames' = Front(frames)
      \/ \E v : frames' = [Front(frames) EXCEPT ![Len(Front(frames))] = v]
  BY DEF Return, Returning
<1>3. levels # <<>>
  BY <1>1 DEF EvalInv, Busy
<1>4. IsSequence(Front(frames)) /\ Len(Front(frames)) = Len(frames) - 1
  BY <1>3, Newest, FrontOfSequence DEF EvalInv, EvalShape
<1>5. IsSequence(frames') /\ Len(frames') = Len(frames) - 1
  <2>1. CASE frames' = Front(frames)
    BY <1>4, <2>1
  <2>2. ASSUME NEW v, frames' = [Front(frames) EXCEPT ![Len(Front(frames))] = v]
        PROVE  IsSequence(frames') /\ Len(frames') = Len(Front(frames))
    <3>1. PICK q, k, r : q = Front(frames) /\ k = Len(q) /\ r = frames'
      OBVIOUS
    <3>2. IsSequence(q)
      BY <1>4, <3>1
    <3>3. r = [q EXCEPT ![k] = v]
      BY <2>2, <3>1
    <3>4. IsSequence(r)
      BY ONLY <3>2, <3>3, ChangedSequence
    <3>5. Len(r) = Len(q)
      BY ONLY <3>2, <3>3, ChangedSequence
    <3> QED
      BY <3>1, <3>4, <3>5
  <2> QED
    BY <1>2, <1>4, <2>1, <2>2
<1> QED
  BY <1>1, <1>3, <1>5, Leaves

LEMMA Unwinds ==
  ASSUME EvalInv, Unwind
  PROVE  EvalInv'
<1>1. levels # <<>>
  BY DEF Unwind, EvalInv, Busy
<1>2. CASE Len(levels) = 1
  BY <1>1, <1>2, Ends DEF Unwind
<1>3. CASE Len(levels) # 1
  <2>1. /\ frames' = Front(frames) /\ ctx' = Restored /\ levels' = Front(levels)
        /\ UNCHANGED <<status, debug>>
    BY <1>3 DEF Unwind
  <2>2. Len(levels) > 1
    BY <1>1, <1>3, Newest
  <2>3. IsSequence(frames') /\ Len(frames') = Len(frames) - 1
    BY <1>1, <2>1, Newest, FrontOfSequence DEF EvalInv, EvalShape
  <2> QED
    BY <1>1, <2>1, <2>2, <2>3, Leaves
<1> QED
  BY <1>2, <1>3

-----------------------------------------------------------------------------
LEMMA EvalStart == EvalInit => EvalInv
<1> SUFFICES ASSUME EvalInit
             PROVE  EvalInv
  OBVIOUS
<1>1. levels = <<>> /\ frames = <<>> /\ ctx = Outside /\ status = "done" /\ debug = "runtime"
  BY DEF EvalInit
<1>2. IsSequence(levels) /\ IsSequence(frames) /\ Len(levels) = 0
  BY <1>1 DEF IsSequence
<1>3. ctx \in Contexts
  BY <1>1 DEF Contexts, Outside
<1> QED
  BY <1>1, <1>2, <1>3 DEF EvalInv, EvalShape, Busy, ContextRestored, IsActivation

LEMMA EvalStep == EvalInv /\ [EvalNext]_evalVars => EvalInv'
<1> SUFFICES ASSUME EvalInv, [EvalNext]_evalVars
             PROVE  EvalInv'
  OBVIOUS
<1>1. CASE execute_program
  BY <1>1, Begins DEF execute_program
<1>2. CASE execute_function_block_ref
  BY <1>2, Begins, FailsToBegin
<1>3. CASE restart_after_fault
  BY <1>3, StartsAgain
<1>4. ASSUME NEW explicit \in BOOLEAN, Finish(explicit)
      PROVE  EvalInv'
  <2>1. levels # <<>> /\ Len(levels) = 1
    BY <1>4 DEF Finish, EvalInv, Busy
  <2>2. \E how \in {"done", "faulted"} : Leave(how)
    BY <1>4 DEF Finish
  <2> QED
    BY <2>1, <2>2, Ends
<1>5. CASE EnterLoop
  <2>1. levels # <<>> /\ status = "running"
    BY <1>5 DEF EnterLoop, exec_stmt, EvalInv, Busy
  <2>2. Level = levels[Len(levels)] /\ Level.loops + 1 \in Nat
    BY <2>1, Newest DEF IsActivation
  <2> QED
    BY <1>5, <2>1, <2>2, Loops DEF EnterLoop
<1>6. CASE LeaveLoop
  <2>1. levels # <<>> /\ status = "running" /\ Level.loops > 0
    BY <1>6 DEF LeaveLoop, EvalInv, Busy
  <2>2. Level = levels[Len(levels)] /\ Level.loops + (-1) \in Nat
    BY <2>1, Newest DEF IsActivation
  <2>3. levels' = [levels EXCEPT ![Len(levels)].loops = Level.loops + (-1)]
        /\ ctx' = [ctx EXCEPT !.loop_depth = @ + (-1)]
    <3>1. Level.loops \in Nat /\ ctx.loop_depth \in Nat
      BY <2>1, Newest DEF IsActivation, EvalInv, EvalShape, Contexts
    <3>2. Level.loops - 1 = Level.loops + (-1) /\ ctx.loop_depth - 1 = ctx.loop_depth + (-1)
      BY <3>1
    <3> QED
      BY <1>6, <2>2, <3>2 DEF LeaveLoop
  <2> QED
    BY <1>6, <2>1, <2>2, <2>3, Loops DEF LeaveLoop
<1>7. CASE Fault
  BY <1>7, StackStays DEF Fault, exec_stmt, EvalInv, EvalShape
<1>8. CASE Unwind
  BY <1>8, Unwinds
<1>9. ASSUME status = "running", NEW x \in Scope[Running], NEW e \in Scope[Running] \cup Data,
             Assign(x, e)
      PROVE  EvalInv'
  BY <1>9, Assigns
<1>10. ASSUME status = "running", NEW pou \in Callees[Running],
              NEW into \in Scope[Running] \cup {NoName}, NEW args \in Arguments(pou),
              CallPou(pou, args, into)
       PROVE  EvalInv'
  BY <1>10, Calls
<1>11. ASSUME NEW e \in Scope[Running] \cup Data \cup {NoName}, Return(e)
       PROVE  EvalInv'
  BY <1>11, Returns
<1>12. CASE UNCHANGED evalVars
  BY <1>12, StackStays DEF evalVars, EvalInv, EvalShape
<1> QED
  BY <1>1, <1>2, <1>3, <1>4, <1>5, <1>6, <1>7, <1>8, <1>9, <1>10, <1>11, <1>12 DEF EvalNext

(***************************************************************************)
(* Every way out of a call puts back what the call changed.                *)
(***************************************************************************)
\* Whatever the programs, blocks and functions call, however deep, and whether a
\* call ends by RETURN, at the end of its body or by an error (eval/mod.rs): depth,
\* instance, name of the result and count of loops are those of the innermost
\* activations, and what has ended leaves neither frame nor hook behind, except
\* for a block of a task whose initial values failed.
THEOREM ContextIsAlwaysRestored == EvalSpec => []ContextRestored
<1>1. EvalInv => ContextRestored
  BY DEF EvalInv
<1> QED
  BY <1>1, EvalStart, EvalStep, PTL DEF EvalSpec

(***************************************************************************)
(* VAR_IN_OUT: copies behave like references.                              *)
(*                                                                         *)
(* Memory is compared with the one of the references place by place.  A    *)
(* place that is lent has an old value until its borrower returns; what a  *)
(* block keeps of its VAR_IN_OUT between two calls is a copy that nothing  *)
(* follows any more (Stale).  Everywhere else the two agree, a parameter   *)
(* with its origin (Agreed).  That writes keep this up needs the loans to  *)
(* form chains that never meet (Sound), and that a call can only lend what *)
(* nobody has lent yet needs to know whom each loan belongs to: level by   *)
(* level of the stack, from places that were in sight one level below      *)
(* (Lending).                                                              *)
(***************************************************************************)
\* A set of functions that has all the block leads to.
Below == CHOOSE below \in SUBSET Functions :
           Callees[Block] \subseteq below /\ \A f \in below : Callees[f] \subseteq below

\* A stack of calls as the texts make them: the arguments are in the caller's scope.
Called(stack) ==
  /\ stack # <<>> => stack[1].pou \in {Program, Block}
  /\ \A k \in 2..Len(stack) :
       /\ stack[k].pou \in Callees[stack[k - 1].pou]
       /\ \A i \in Outputs(stack[k].pou) : stack[k].args[i] \in Scope[stack[k - 1].pou]
       /\ stack[k].into \in Scope[stack[k - 1].pou] \cup {NoName}
  /\ \A j, k \in 1..Len(stack) : j < k /\ stack[j].pou = Block => stack[k].pou \in Below

\* Places: those of the activations, those that exist, and those in sight of the
\* first k activations, the block's own only once it runs.
Locals(pou, k) == {<<"local", k, x>> : x \in LocalsOf(pou)}
Alive(stack)   == Lasting \cup UNION {Locals(stack[j].pou, j) : j \in 1..Len(stack)}
BlocksOwn      == {<<"member", Block, x>> : x \in Members[Block]}
Known(stack, k) ==
  {l \in Lasting : l \in BlocksOwn => \E j \in 1..k : stack[j].pou = Block}
    \cup UNION {Locals(stack[j].pou, j) : j \in 1..k}
\* Where a name leads, where a parameter is, and which place it was given.
Found(pou, instance, k, x) ==
  IF x \in LocalsOf(pou) THEN <<"local", k, x>>
  ELSE IF instance # NoName /\ x \in Members[instance] THEN <<"member", instance, x>>
  ELSE <<"global", NoName, x>>
Home(stack, k, i) == HomeOf(stack[k].pou, Params[stack[k].pou][i], k)
Given(stack, k, i) ==
  Found(stack[k - 1].pou, stack[k].saved.instance, k - 1, stack[k].args[i])

\* The loans are those of the activations, each of a place in sight of its caller,
\* and no call was given a place twice.
Lending(stack, H) ==
  /\ \A l \in DOMAIN H :
       \E k \in 2..Len(stack) : \E i \in InOuts(stack[k].pou) : l = Home(stack, k, i)
  /\ \A k \in 2..Len(stack) :
       /\ \A i \in InOuts(stack[k].pou) :
            /\ Home(stack, k, i) \in DOMAIN H
            /\ H[Home(stack, k, i)].lender = Given(stack, k, i)
            /\ H[Home(stack, k, i)].lender \in Known(stack, k - 1)
            /\ H[Home(stack, k, i)].origin \in Known(stack, k - 1)
       /\ \A i, j \in Outputs(stack[k].pou) : i # j => Given(stack, k, i) # Given(stack, k, j)

\* The loans H among the places D: every borrower's origin is that of its lender
\* and borrows from nobody, nobody lends twice, and no two places that are not lent
\* have the same origin.
OriginIn(H, l) == IF l \in DOMAIN H THEN H[l].origin ELSE l
Sound(H, D) ==
  /\ \A h \in DOMAIN H : /\ h \in D /\ H[h].lender \in D
                         /\ H[h].origin = OriginIn(H, H[h].lender)
                         /\ H[h].origin \in D \ DOMAIN H
  /\ \A g, h \in DOMAIN H : H[g].lender = H[h].lender => g = h
  /\ \A a, b \in D \ Lent(H) : OriginIn(H, a) = OriginIn(H, b) => a = b
\* Where memory m and the references' memory r agree.
Agreed(H, D, m, r, stale) ==
  \A l \in D \ (Lent(H) \cup stale) : m[l] = r[OriginIn(H, l)]
Stale(stack) == {<<"member", Block, p>> : p \in InOutsOf(Block)} \ Known(stack, Len(stack))

\* Memory mirrors the references.
Mirrored(stack, H, m, r) ==
  /\ DOMAIN r = DOMAIN m
  /\ Lending(stack, H) /\ Sound(H, DOMAIN m)
  /\ Agreed(H, DOMAIN m, m, r, Stale(stack))

\* The inductive invariant.
RefInv ==
  /\ Called(levels) /\ DOMAIN mem = Alive(levels)
  /\ ref = [mem |-> ref.mem, held |-> ref.held, aliased |-> ref.aliased]
  /\ status = "fault" => ref.aliased
  /\ status = "running" /\ ~ref.aliased => Mirrored(levels, ref.held, mem, ref.mem)
  /\ status = "done" /\ ~ref.aliased =>
       \A l \in Lasting : l[3] \in InOutsOf(Block) \/ mem[l] = ref.mem[l]

\* Loans: what a new activation lends to its parameters at N, of places that
\* nobody has lent, leaves everything sound; K are the places that come with it.
LEMMA LoansOfCall ==
  ASSUME NEW H, NEW D, Sound(H, D), NEW N, NEW K, N \subseteq K, NEW G, DOMAIN G = N,
         K \cap (DOMAIN H \cup Lent(H)) = {}, \A h \in DOMAIN H : H[h].origin \notin K,
         \A h \in N : /\ G[h].lender \in D \ (K \cup Lent(H))
                      /\ G[h].origin = OriginIn(H, G[h].lender) /\ G[h].origin \notin K,
         \A g, h \in N : G[g].lender = G[h].lender => g = h
  PROVE  Sound(Over(G, H), D \cup K)
<1> DEFINE J == Over(G, H)
           E == D \cup K
<1>1. DOMAIN J = N \cup DOMAIN H /\ (\A h \in N : J[h] = G[h])
      /\ \A h \in DOMAIN H : J[h] = H[h] /\ h \notin N
  BY DEF Over
<1> HIDE DEF J
<1>2. \A l : l \notin N => OriginIn(J, l) = OriginIn(H, l)
  BY <1>1 DEF OriginIn
<1>3. Lent(J) = Lent(H) \cup {G[h].lender : h \in N}
  BY <1>1 DEF Lent
<1>4. \A h \in N : OriginIn(H, G[h].lender) \in D \ DOMAIN H
  BY DEF Sound, OriginIn
<1>5. \A h \in DOMAIN J : /\ h \in E /\ J[h].lender \in E
                          /\ J[h].origin = OriginIn(J, J[h].lender)
                          /\ J[h].origin \in E \ DOMAIN J
  <2> TAKE h \in DOMAIN J
  <2>1. CASE h \in N
    BY <1>1, <1>2, <1>4, <2>1
  <2>2. CASE h \in DOMAIN H
    <3>1. H[h].lender \notin N
      BY <2>2 DEF Lent
    <3> QED
      BY <1>1, <1>2, <2>2, <3>1 DEF Sound
  <2> QED
    BY <1>1, <2>1, <2>2
<1>6. \A g, h \in DOMAIN J : J[g].lender = J[h].lender => g = h
  <2> SUFFICES ASSUME NEW g \in DOMAIN J, NEW h \in DOMAIN J, J[g].lender = J[h].lender
               PROVE  g = h
    OBVIOUS
  <2>1. CASE g \in N /\ h \in N
    BY <1>1, <2>1
  <2>2. CASE g \in DOMAIN H /\ h \in DOMAIN H
    BY <1>1, <2>2 DEF Sound
  <2>3. \A f \in N : \A e \in DOMAIN H : G[f].lender # H[e].lender
    BY DEF Lent
  <2> QED
    BY <1>1, <2>1, <2>2, <2>3
<1>7. \A a, b \in E \ Lent(J) : OriginIn(J, a) = OriginIn(J, b) => a = b
  <2> SUFFICES ASSUME NEW a \in E \ Lent(J), NEW b \in E \ Lent(J),
                      OriginIn(J, a) = OriginIn(J, b)
               PROVE  a = b
    OBVIOUS
  <2>1. \A l \in N : OriginIn(J, l) = OriginIn(H, G[l].lender) /\ G[l].lender \in D \ Lent(H)
    BY <1>1 DEF OriginIn
  <2>2. \A l \in E \ (N \cup Lent(J)) :
          \/ l \in D \ Lent(H) /\ OriginIn(J, l) = OriginIn(H, l)
          \/ l \in K \ DOMAIN H /\ OriginIn(J, l) = l
    BY <1>2, <1>3 DEF OriginIn
  <2>3. \A x, y \in D \ Lent(H) : OriginIn(H, x) = OriginIn(H, y) => x = y
    BY DEF Sound
  <2>4. \A l \in N : \A y \in E \ (N \cup Lent(J)) : OriginIn(J, l) # OriginIn(J, y)
    <3> TAKE l \in N
    <3> TAKE y \in E \ (N \cup Lent(J))
    <3>1. CASE y \in D \ Lent(H) /\ OriginIn(J, y) = OriginIn(H, y)
      <4>1. y # G[l].lender
        BY <1>3
      <4> QED
        BY <2>1, <2>3, <3>1, <4>1
    <3>2. CASE y \in K \ DOMAIN H /\ OriginIn(J, y) = y
      BY <2>1, <3>2
    <3> QED
      BY <2>2, <3>1, <3>2
  <2>5. CASE a \in N /\ b \in N
    BY <2>1, <2>3, <2>5
  <2>6. CASE a \notin N /\ b \notin N
    <3>1. \A l \in D : OriginIn(H, l) \in K => OriginIn(H, l) = l
      BY DEF OriginIn
    <3> QED
      BY <2>2, <2>3, <2>6, <3>1
  <2> QED
    BY <2>4, <2>5, <2>6
<1> QED
  BY <1>5, <1>6, <1>7 DEF Sound, J

\* What nobody lends further may be returned, with everything at places nobody
\* refers to.
LEMMA LoansOfReturn ==
  ASSUME NEW H, NEW D, Sound(H, D), NEW R, R \subseteq DOMAIN H, R \cap Lent(H) = {},
         NEW J, J = Restrict(H, DOMAIN H \ R), NEW E, E \subseteq D,
         \A h \in DOMAIN J : h \in E /\ H[h].lender \in E /\ H[h].origin \in E
  PROVE  Sound(J, E)
<1>1. DOMAIN J = DOMAIN H \ R /\ \A h \in DOMAIN J : J[h] = H[h]
  BY DEF Restrict
<1>2. \A l : l \notin R => OriginIn(J, l) = OriginIn(H, l)
  BY <1>1 DEF OriginIn
<1>3. \A h \in DOMAIN J : /\ h \in E /\ J[h].lender \in E
                          /\ J[h].origin = OriginIn(J, J[h].lender)
                          /\ J[h].origin \in E \ DOMAIN J
  <2> TAKE h \in DOMAIN J
  <2>1. H[h].lender \notin R
    BY <1>1 DEF Lent
  <2>2. h \in DOMAIN H /\ J[h] = H[h] /\ OriginIn(J, H[h].lender) = OriginIn(H, H[h].lender)
    BY <1>1, <1>2, <2>1
  <2>3. H[h].origin = OriginIn(H, H[h].lender) /\ H[h].origin \notin DOMAIN H
    BY <2>2 DEF Sound
  <2> QED
    BY <1>1, <2>2, <2>3
<1>4. \A g, h \in DOMAIN J : J[g].lender = J[h].lender => g = h
  BY <1>1 DEF Sound
<1>5. \A a, b \in E \ Lent(J) : OriginIn(J, a) = OriginIn(J, b) => a = b
  <2> SUFFICES ASSUME NEW a \in E \ Lent(J), NEW b \in E \ Lent(J),
                      OriginIn(J, a) = OriginIn(J, b)
               PROVE  a = b
    OBVIOUS
  <2>1. \A x \in E \ Lent(J) : x \in Lent(H) => \E h \in R : H[h].lender = x
    BY <1>1 DEF Lent
  <2>2. \A x \in E \ Lent(J) : x \in R => OriginIn(J, x) = x /\ x \notin Lent(H) /\ x \in DOMAIN H
    BY <1>1 DEF OriginIn
  <2>3. \A x \in E \ Lent(J) : x \notin R =>
           \E y \in D \ Lent(H) : /\ OriginIn(H, y) = OriginIn(J, x)
                                  /\ y = x \/ (y \in R /\ H[y].lender = x)
    <3> SUFFICES ASSUME NEW x \in E \ Lent(J), x \notin R
                 PROVE  \E y \in D \ Lent(H) : /\ OriginIn(H, y) = OriginIn(J, x)
                                               /\ y = x \/ (y \in R /\ H[y].lender = x)
      OBVIOUS
    <3>1. CASE x \notin Lent(H)
      BY <1>2, <3>1
    <3>2. CASE x \in Lent(H)
      <4>1. PICK h \in R : H[h].lender = x
        BY <2>1, <3>2
      <4>2. h \in D \ Lent(H) /\ OriginIn(H, h) = H[h].origin /\ H[h].origin = OriginIn(H, x)
        BY <4>1 DEF Sound, OriginIn
      <4> QED
        BY <1>2, <4>1, <4>2
    <3> QED
      BY <3>1, <3>2
  <2>4. \A x \in E \ Lent(J) : x \notin R => OriginIn(J, x) \notin DOMAIN H
    BY <1>1, <1>2 DEF Sound, OriginIn
  <2>5. \A x, y \in E \ Lent(J) : OriginIn(J, x) = OriginIn(J, y) /\ x \in R => x = y
    <3> SUFFICES ASSUME NEW x \in E \ Lent(J), NEW y \in E \ Lent(J),
                        OriginIn(J, x) = OriginIn(J, y), x \in R
                 PROVE  x = y
      OBVIOUS
    <3>1. OriginIn(J, x) = x /\ x \in DOMAIN H
      BY <2>2
    <3>2. CASE y \in R
      BY <2>2, <3>1, <3>2
    <3>3. CASE y \notin R
      BY <2>4, <3>1, <3>3
    <3> QED
      BY <3>2, <3>3
  <2>6. CASE a \notin R /\ b \notin R
    <3>1. PICK x \in D \ Lent(H) : /\ OriginIn(H, x) = OriginIn(J, a)
                                   /\ x = a \/ (x \in R /\ H[x].lender = a)
      BY <2>3, <2>6
    <3>2. PICK y \in D \ Lent(H) : /\ OriginIn(H, y) = OriginIn(J, b)
                                   /\ y = b \/ (y \in R /\ H[y].lender = b)
      BY <2>3, <2>6
    <3>3. x = y
      BY <3>1, <3>2 DEF Sound
    <3> QED
      BY <2>6, <3>1, <3>2, <3>3
  <2> QED
    BY <2>5, <2>6
<1> QED
  BY <1>3, <1>4, <1>5 DEF Sound

\* What memory and references agree about survives the three ways to write:
\* a value at a place nobody has lent, here and at its origin;
LEMMA AgreedOfWrite ==
  ASSUME NEW H, NEW D, Sound(H, D), NEW m, NEW r, DOMAIN m = D, DOMAIN r = D, NEW S,
         Agreed(H, D, m, r, S), NEW x \in D \ Lent(H), NEW v
  PROVE  Agreed(H, D, [m EXCEPT ![x] = v], [r EXCEPT ![OriginIn(H, x)] = v], S)
<1> SUFFICES ASSUME NEW l \in D \ (Lent(H) \cup S)
             PROVE  [m EXCEPT ![x] = v][l] = [r EXCEPT ![OriginIn(H, x)] = v][OriginIn(H, l)]
  BY DEF Agreed
<1>1. OriginIn(H, l) \in D /\ OriginIn(H, x) \in D
  BY DEF Sound, OriginIn
<1>2. CASE l = x
  BY <1>1, <1>2
<1>3. CASE l # x
  <2>1. OriginIn(H, l) # OriginIn(H, x)
    BY <1>3 DEF Sound
  <2>2. m[l] = r[OriginIn(H, l)]
    BY DEF Agreed
  <2> QED
    BY <1>1, <1>3, <2>1, <2>2
<1> QED
  BY <1>2, <1>3

\* the values of new places, equal in both and, at a parameter, that of the lender;
LEMMA AgreedOfCall ==
  ASSUME NEW H, NEW D, Sound(H, D), NEW N, NEW K, N \subseteq K, NEW G, DOMAIN G = N,
         K \cap (DOMAIN H \cup Lent(H)) = {}, \A h \in DOMAIN H : H[h].origin \notin K,
         NEW S, NEW T, S \subseteq N \cup T,
         \A h \in N : /\ G[h].lender \in D \ (K \cup Lent(H) \cup S)
                      /\ G[h].origin = OriginIn(H, G[h].lender) /\ G[h].origin \notin K,
         NEW m, NEW r, DOMAIN m = D, DOMAIN r = D, Agreed(H, D, m, r, S),
         NEW f, NEW g, DOMAIN f = K, DOMAIN g = K,
         \A l \in K \ N : f[l] = g[l], \A l \in N : f[l] = m[G[l].lender]
  PROVE  Agreed(Over(G, H), D \cup K, Over(f, m), Over(g, r), T)
<1> DEFINE J == Over(G, H)
<1>1. /\ DOMAIN J = N \cup DOMAIN H /\ \A h \in N : J[h] = G[h]
      /\ \A h \in DOMAIN H : J[h] = H[h] /\ h \notin N
  BY DEF Over
<1>2. Lent(H) \subseteq Lent(J)
  BY <1>1 DEF Lent
<1> HIDE DEF J
<1>3. /\ \A l \in K : Over(f, m)[l] = f[l] /\ Over(g, r)[l] = g[l]
      /\ \A l \in D \ K : Over(f, m)[l] = m[l] /\ Over(g, r)[l] = r[l]
  BY DEF Over
<1>4. SUFFICES ASSUME NEW l \in (D \cup K) \ (Lent(J) \cup T)
               PROVE  Over(f, m)[l] = Over(g, r)[OriginIn(J, l)]
  BY DEF Agreed, J
<1>5. CASE l \in N
  <2>1. OriginIn(J, l) = G[l].origin /\ G[l].origin = OriginIn(H, G[l].lender)
    BY <1>1, <1>5 DEF OriginIn
  <2>2. G[l].lender \in D \ (Lent(H) \cup S) /\ G[l].origin \notin K
    BY <1>5
  <2>3. m[G[l].lender] = r[G[l].origin] /\ G[l].origin \in D
    BY <2>1, <2>2 DEF Agreed, Sound, OriginIn
  <2> QED
    BY <1>3, <1>5, <2>1, <2>2, <2>3
<1>6. CASE l \in K \ N
  <2>1. OriginIn(J, l) = l
    BY <1>1, <1>6 DEF OriginIn
  <2> QED
    BY <1>3, <1>6, <2>1
<1>7. CASE l \in D \ K
  <2>1. l \in D \ (Lent(H) \cup S) /\ OriginIn(J, l) = OriginIn(H, l)
    BY <1>1, <1>2, <1>7 DEF OriginIn
  <2>2. m[l] = r[OriginIn(H, l)]
    BY <2>1 DEF Agreed
  <2>3. OriginIn(H, l) \in D \ K
    BY <1>7 DEF Sound, OriginIn
  <2> QED
    BY <1>3, <1>7, <2>1, <2>2, <2>3
<1> QED
  BY <1>5, <1>6, <1>7

\* and what a return copies out: the parameters I from where they are to where they
\* go, those lent to their lenders, of no concern to the references, and the outputs
\* O to both.
CopiesOut(H, D, R, J, E, S, T, m, r, I, O, at, from, p, q) ==
  /\ Sound(H, D) /\ R \subseteq DOMAIN H /\ R \cap Lent(H) = {}
  /\ J = Restrict(H, DOMAIN H \ R) /\ E \subseteq D /\ Sound(J, E)
  /\ S \subseteq T /\ R \cap E \subseteq T /\ Agreed(H, D, m, r, S) /\ O \subseteq I
  /\ \A i \in I : from[i] \in D \ (Lent(H) \cup S)
  /\ \A i \in I \ O : from[i] \in R /\ at[i] = H[from[i]].lender
  /\ R = {from[i] : i \in I \ O}
  /\ \A i \in O : from[i] \notin DOMAIN H /\ at[i] \in E \ Lent(J)
  /\ \A i, j \in I : at[i] = at[j] => i = j
  /\ \A i \in I : p[at[i]] = m[from[i]]
  /\ \A l \in E : (\A i \in I : at[i] # l) => p[l] = m[l]
  /\ \A i \in O : q[OriginIn(J, at[i])] = r[from[i]]
  /\ \A l \in E : (\A i \in O : OriginIn(J, at[i]) # l) => q[l] = r[l]

LEMMA AgreedOfReturn ==
  ASSUME NEW H, NEW D, NEW R, NEW J, NEW E, NEW S, NEW T, NEW m, NEW r, NEW I, NEW O,
         NEW at, NEW from, NEW p, NEW q, CopiesOut(H, D, R, J, E, S, T, m, r, I, O, at, from, p, q)
  PROVE  Agreed(J, E, p, q, T)
<1> USE DEF CopiesOut
<1> SUFFICES ASSUME NEW l \in E \ (Lent(J) \cup T)
             PROVE  p[l] = q[OriginIn(J, l)]
  BY DEF Agreed
<1>1. DOMAIN J = DOMAIN H \ R /\ \A h \in DOMAIN J : J[h] = H[h]
  BY DEF Restrict
<1>2. l \notin R /\ OriginIn(J, l) = OriginIn(H, l) /\ OriginIn(J, l) \in E
  BY <1>1 DEF OriginIn, Sound
<1>3. (\A i \in O : at[i] # l) => q[OriginIn(J, l)] = r[OriginIn(J, l)]
  <2> HAVE \A i \in O : at[i] # l
  <2>1. \A i \in O : OriginIn(J, at[i]) # OriginIn(J, l)
    BY DEF Sound
  <2> QED
    BY <1>2, <2>1
<1>4. ASSUME NEW i \in O, at[i] = l
      PROVE  p[l] = q[OriginIn(J, l)]
  <2>1. OriginIn(H, from[i]) = from[i] /\ from[i] \in D \ (Lent(H) \cup S)
    BY DEF OriginIn
  <2>2. m[from[i]] = r[from[i]]
    BY <2>1 DEF Agreed
  <2>3. p[l] = m[from[i]] /\ q[OriginIn(J, l)] = r[from[i]]
    BY <1>4
  <2> QED
    BY <2>2, <2>3
<1>5. ASSUME NEW i \in I \ O, at[i] = l
      PROVE  p[l] = q[OriginIn(J, l)]
  <2>1. from[i] \in DOMAIN H /\ H[from[i]].lender = l /\ from[i] \in D \ (Lent(H) \cup S)
    BY <1>5
  <2>2. OriginIn(H, from[i]) = OriginIn(H, l)
    BY <2>1 DEF OriginIn, Sound
  <2>3. m[from[i]] = r[OriginIn(J, l)]
    BY <1>2, <2>1, <2>2 DEF Agreed
  <2>4. \A j \in O : at[j] # l
    BY <1>5
  <2> QED
    BY <1>3, <1>5, <2>3, <2>4
<1>6. CASE \A i \in I : at[i] # l
  <2>1. l \notin Lent(H)
    <3> SUFFICES ASSUME NEW h \in DOMAIN H, H[h].lender = l
                 PROVE  FALSE
      BY DEF Lent
    <3>1. h \notin DOMAIN J
      <4>1. h \in DOMAIN J => J[h].lender = l
        BY <1>1
      <4> QED
        BY <4>1 DEF Lent
    <3>2. PICK i \in I \ O : h = from[i]
      BY <1>1, <3>1
    <3> QED
      BY <1>6, <3>2
  <2>2. m[l] = r[OriginIn(J, l)]
    BY <1>2, <2>1 DEF Agreed
  <2>3. p[l] = m[l] /\ q[OriginIn(J, l)] = r[OriginIn(J, l)]
    BY <1>3, <1>6
  <2> QED
    BY <2>2, <2>3
<1> QED
  BY <1>4, <1>5, <1>6

\* Values written at different places do not get into each other's way.
LEMMA CopiedOnce ==
  ASSUME NEW m, NEW at, NEW v, DOMAIN at \subseteq Nat,
         \A i, j \in DOMAIN at : at[i] = at[j] => i = j
  PROVE  /\ DOMAIN CopiedOut(m, at, v) = DOMAIN m
         /\ \A i \in DOMAIN at : at[i] \in DOMAIN m => CopiedOut(m, at, v)[at[i]] = v[i]
         /\ \A l \in DOMAIN m : (\A i \in DOMAIN at : at[i] # l) => CopiedOut(m, at, v)[l] = m[l]
<1>1. DOMAIN CopiedOut(m, at, v) = DOMAIN m
  BY DEF CopiedOut
<1>2. ASSUME NEW i \in DOMAIN at, at[i] \in DOMAIN m
      PROVE  CopiedOut(m, at, v)[at[i]] = v[i]
  <2>1. PICK here : here = {j \in DOMAIN at : at[j] = at[i]}
    OBVIOUS
  <2>2. here = {i} /\ i \in Nat
    BY <2>1
  <2>3. Max(here) = i
    BY <2>2 DEF Max
  <2>4. CopiedOut(m, at, v)[at[i]] = IF here = {} THEN m[at[i]] ELSE v[Max(here)]
    BY <1>2, <2>1 DEF CopiedOut
  <2> QED
    BY <2>2, <2>3, <2>4
<1>3. ASSUME NEW l \in DOMAIN m, \A i \in DOMAIN at : at[i] # l
      PROVE  CopiedOut(m, at, v)[l] = m[l]
  <2>1. {i \in DOMAIN at : at[i] = l} = {}
    BY <1>3
  <2> QED
    BY <2>1 DEF CopiedOut
<1> QED
  BY <1>1, <1>2, <1>3

-----------------------------------------------------------------------------
\* Places: what a stack of calls makes visible.
IsStack(s) == Called(s) /\ Len(s) \in Nat /\ \A k \in 1..Len(s) : s[k].pou \in Pous

LEMMA LocalPlaces ==
  /\ \A k, x : <<"local", k, x>> \notin Lasting
  /\ \A k, x, j, pou : <<"local", k, x>> \in Locals(pou, j) <=> k = j /\ x \in LocalsOf(pou)
  /\ \A i, x, j, pou : <<"member", i, x>> \notin Locals(pou, j)
  /\ \A g : <<"global", NoName, g>> \in Lasting <=> g \in GlobalNames
  /\ \A i, x : <<"member", i, x>> \in Lasting <=> i \in {Program, Block} /\ x \in Members[i]
  /\ \A g : <<"global", NoName, g>> \notin BlocksOwn
  /\ \A i, x : <<"member", i, x>> \in BlocksOwn <=> i = Block /\ x \in Members[Block]
<1>1. \A k, x : <<"local", k, x>> \notin Lasting
  BY DEF Lasting
<1>2. \A k, x, j, pou : <<"local", k, x>> \in Locals(pou, j) <=> k = j /\ x \in LocalsOf(pou)
  BY DEF Locals
<1>3. \A i, x, j, pou : <<"member", i, x>> \notin Locals(pou, j)
  BY DEF Locals
<1>4. \A g : <<"global", NoName, g>> \in Lasting <=> g \in GlobalNames
  BY DEF Lasting
<1>5. \A i, x : <<"member", i, x>> \in Lasting <=> i \in {Program, Block} /\ x \in Members[i]
  BY DEF Lasting
<1>6. \A g : <<"global", NoName, g>> \notin BlocksOwn
  BY DEF BlocksOwn
<1>7. \A i, x : <<"member", i, x>> \in BlocksOwn <=> i = Block /\ x \in Members[Block]
  BY DEF BlocksOwn
<1> QED
  BY <1>1, <1>2, <1>3, <1>4, <1>5, <1>6, <1>7

\* What the block calls is never the block.
LEMMA BelowIs == /\ Below \subseteq Functions /\ Block \notin Below /\ Callees[Block] \subseteq Below
                 /\ \A f \in Below : Callees[f] \subseteq Below
<1>1. PICK b \in SUBSET Functions : Callees[Block] \subseteq b /\ \A f \in b : Callees[f] \subseteq b
  BY BlockCallsNoBlock
<1>2. Below \in SUBSET Functions /\ Callees[Block] \subseteq Below
      /\ \A f \in Below : Callees[f] \subseteq Below
  BY <1>1 DEF Below
<1> QED
  BY <1>2, InterpreterAssumption

LEMMA KnownPlaces ==
  ASSUME NEW s, IsStack(s)
  PROVE  /\ \A k \in 1..Len(s), j \in 1..Len(s) : j <= k => Known(s, j) \subseteq Known(s, k)
         /\ \A k \in 1..Len(s) : Known(s, k) \subseteq Alive(s)
         /\ \A k \in 2..Len(s) : \A i \in DOMAIN Params[s[k].pou] :
              /\ s[k].pou \in Functions \cup {Block} /\ Params[s[k].pou][i] \in ParamsOf(s[k].pou)
              /\ Home(s, k, i) \in Known(s, k) /\ Home(s, k, i) \notin Known(s, k - 1)
<1>1. \A k \in 1..Len(s), j \in 1..Len(s) : j <= k => Known(s, j) \subseteq Known(s, k)
  <2> SUFFICES ASSUME NEW k \in 1..Len(s), NEW j \in 1..Len(s), j <= k
               PROVE  Known(s, j) \subseteq Known(s, k)
    OBVIOUS
  <2>1. \A i \in 1..j : i \in 1..k
    BY DEF IsStack
  <2> QED
    BY <2>1 DEF Known
<1>2. ASSUME NEW k \in 1..Len(s)
      PROVE  Known(s, k) \subseteq Alive(s)
  <2>1. \A i \in 1..k : i \in 1..Len(s)
    BY DEF IsStack
  <2> QED
    BY <2>1 DEF Known, Alive
<1>3. ASSUME NEW k \in 2..Len(s), NEW i \in DOMAIN Params[s[k].pou]
      PROVE  /\ s[k].pou \in Functions \cup {Block} /\ Params[s[k].pou][i] \in ParamsOf(s[k].pou)
             /\ Home(s, k, i) \in Known(s, k) /\ Home(s, k, i) \notin Known(s, k - 1)
  <2> DEFINE p == Params[s[k].pou][i]
  <2>1. k \in 1..Len(s) /\ k - 1 \in 1..Len(s) /\ k \in 1..k /\ k \notin 1..(k - 1)
        /\ s[k].pou \in Callees[s[k - 1].pou]
        /\ \A j \in 1..(k - 1) : j \in 1..Len(s) /\ j < k
    BY DEF IsStack, Called
  <2>2. s[k].pou \in Functions \cup {Block}
    BY <2>1, InterpreterAssumption DEF IsStack, Pous
  <2>3. p \in ParamsOf(s[k].pou)
    BY DEF ParamsOf
  <2>4. CASE s[k].pou = Block
    <3>1. Home(s, k, i) = <<"member", Block, p>> /\ p \in Members[Block]
      BY <2>3, <2>4, InterpreterAssumption DEF Home, HomeOf
    <3>2. Home(s, k, i) \in Lasting /\ Home(s, k, i) \in BlocksOwn
          /\ \A j : Home(s, k, i) \notin Locals(s[j].pou, j)
      BY <3>1, LocalPlaces
    <3>3. \A j \in 1..(k - 1) : s[j].pou # Block
      BY <2>1, <2>4, BelowIs DEF IsStack, Called
    <3> QED
      BY <2>1, <2>2, <2>3, <2>4, <3>2, <3>3 DEF Known
  <2>5. CASE s[k].pou # Block
    <3>1. Home(s, k, i) = <<"local", k, p>> /\ p \in LocalsOf(s[k].pou)
      BY <2>2, <2>3, <2>5 DEF Home, HomeOf, LocalsOf
    <3>2. Home(s, k, i) \notin Lasting /\ Home(s, k, i) \in Locals(s[k].pou, k)
          /\ \A j \in 1..(k - 1) : Home(s, k, i) \notin Locals(s[j].pou, j)
      BY <2>1, <3>1, LocalPlaces
    <3> QED
      BY <2>1, <2>2, <2>3, <3>2 DEF Known
  <2> QED
    BY <2>4, <2>5
<1> QED
  BY <1>1, <1>2, <1>3

\* Every parameter has a home of its own.
LEMMA HomesDiffer ==
  ASSUME NEW s, IsStack(s), NEW k \in 2..Len(s), NEW j \in 2..Len(s),
         NEW i \in DOMAIN Params[s[k].pou], NEW h \in DOMAIN Params[s[j].pou],
         Home(s, k, i) = Home(s, j, h)
  PROVE  k = j /\ i = h
<1>1. \A a, b \in 2..Len(s) : \A x \in DOMAIN Params[s[a].pou], y \in DOMAIN Params[s[b].pou] :
        a < b => Home(s, a, x) # Home(s, b, y)
  <2> SUFFICES ASSUME NEW a \in 2..Len(s), NEW b \in 2..Len(s), NEW x \in DOMAIN Params[s[a].pou],
                      NEW y \in DOMAIN Params[s[b].pou], a < b
               PROVE  Home(s, a, x) # Home(s, b, y)
    OBVIOUS
  <2>1. a \in 1..Len(s) /\ b - 1 \in 1..Len(s) /\ a <= b - 1
    BY DEF IsStack
  <2>2. Home(s, a, x) \in Known(s, b - 1)
    BY <2>1, KnownPlaces
  <2> QED
    BY <2>2, KnownPlaces
<1>2. k = j
  <2>1. k < j \/ j < k \/ k = j
    BY DEF IsStack
  <2> QED
    BY <1>1, <2>1
<1>3. s[k].pou \in Functions \cup {Block}
  BY KnownPlaces
<1>4. Params[s[k].pou][i] = Params[s[k].pou][h]
  BY <1>2 DEF Home, HomeOf
<1> QED
  BY <1>2, <1>3, <1>4, InterpreterAssumption DEF Pous

\* A name finds a visible place, and the same one as long as the activation is
\* there.
LEMMA FoundIsKnown ==
  ASSUME NEW s, IsStack(s), NEW k \in 1..Len(s), NEW instance,
         Innermost({Program, Block}, s, k, instance), NEW x \in Scope[s[k].pou]
  PROVE  Found(s[k].pou, instance, k, x) \in Known(s, k)
<1>1. s[k].pou \in Pous /\ k \in 1..k /\ 1 \in 1..k /\ s[1].pou \in {Program, Block}
  BY EmptySeq DEF IsStack, Called
<1>2. PICK i \in 1..k : /\ instance = s[i].pou /\ s[i].pou \in {Program, Block}
                        /\ \A j \in (i + 1)..k : s[j].pou \notin {Program, Block}
  BY <1>1 DEF Innermost
<1>3. CASE x \in LocalsOf(s[k].pou)
  <2>1. Found(s[k].pou, instance, k, x) \in Locals(s[k].pou, k)
    BY <1>3 DEF Found, Locals
  <2> QED
    BY <1>1, <2>1 DEF Known
<1>4. CASE x \notin LocalsOf(s[k].pou) /\ x \in Members[instance]
  <2>1. instance # NoName
    BY <1>2, InterpreterAssumption DEF Pous
  <2>2. Found(s[k].pou, instance, k, x) = <<"member", instance, x>>
    BY <1>4, <2>1 DEF Found
  <2>3. <<"member", instance, x>> \in Lasting
    BY <1>2, <1>4, LocalPlaces
  <2>4. <<"member", instance, x>> \in BlocksOwn => s[i].pou = Block
    BY <1>2, LocalPlaces
  <2> QED
    BY <2>2, <2>3, <2>4 DEF Known
<1>5. CASE x \notin LocalsOf(s[k].pou) /\ x \notin Members[instance]
  <2>1. Found(s[k].pou, instance, k, x) = <<"global", NoName, x>>
    BY <1>5 DEF Found
  <2>2. x \in GlobalNames
    <3>1. CASE s[k].pou \in Functions
      BY <1>1, <1>5, <3>1, InterpreterAssumption
    <3>2. CASE s[k].pou \notin Functions
      <4>1. s[k].pou \in {Program, Block}
        BY <1>1, <3>2 DEF Pous
      <4>2. i = k
        BY <1>2, <4>1 DEF IsStack
      <4> QED
        BY <1>1, <1>2, <1>5, <3>2, <4>2, InterpreterAssumption
    <3> QED
      BY <3>1, <3>2
  <2>3. <<"global", NoName, x>> \in Lasting /\ <<"global", NoName, x>> \notin BlocksOwn
    BY <2>2, LocalPlaces
  <2> QED
    BY <2>1, <2>3 DEF Known
<1> QED
  BY <1>3, <1>4, <1>5

LEMMA PlaceIsFound ==
  ASSUME DOMAIN mem = Alive(levels), Len(levels) \in Nat, NEW k \in 1..Len(levels), NEW c, NEW x
  PROVE  Place(x, c, k) = Found(levels[k].pou, c.instance, k, x)
<1>1. <<"local", k, x>> \in DOMAIN mem <=> x \in LocalsOf(levels[k].pou)
  <2>1. <<"local", k, x>> \notin Lasting
    BY LocalPlaces
  <2>2. \A j \in 1..Len(levels) : <<"local", k, x>> \in Locals(levels[j].pou, j)
                                    <=> k = j /\ x \in LocalsOf(levels[j].pou)
    BY LocalPlaces
  <2> QED
    BY <2>1, <2>2 DEF Alive
<1> QED
  BY <1>1 DEF Place, Found

\* Stacks that agree below k do so in what is visible there.
Alike(s, t, k) ==
  \A j \in 1..k : /\ s[j].pou = t[j].pou /\ s[j].saved = t[j].saved
                  /\ s[j].args = t[j].args /\ s[j].into = t[j].into

LEMMA AlikeStacks ==
  ASSUME NEW s, NEW t, Len(s) \in Nat, Alike(s, t, Len(s))
  PROVE  /\ \A k \in 1..Len(s) : Known(s, k) = Known(t, k)
         /\ \A k \in 1..Len(s) : \A i : Home(s, k, i) = Home(t, k, i)
         /\ \A k \in 2..Len(s) : \A i : Given(s, k, i) = Given(t, k, i)
<1>1. ASSUME NEW k \in 1..Len(s)
      PROVE  Known(s, k) = Known(t, k)
  <2>1. \A j \in 1..k : s[j].pou = t[j].pou
    BY DEF Alike
  <2> QED
    BY <2>1 DEF Known
<1>2. ASSUME NEW k \in 1..Len(s), NEW i
      PROVE  Home(s, k, i) = Home(t, k, i)
  BY DEF Alike, Home
<1>3. ASSUME NEW k \in 2..Len(s), NEW i
      PROVE  Given(s, k, i) = Given(t, k, i)
  <2>1. k \in 1..Len(s) /\ k - 1 \in 1..Len(s)
    OBVIOUS
  <2> QED
    BY <2>1 DEF Alike, Given
<1> QED
  BY <1>1, <1>2, <1>3

LEMMA AlikeCalled ==
  ASSUME NEW s, NEW t, Len(s) \in Nat, Len(t) \in Nat, Len(s) >= 1,
         Len(s) <= Len(t), t # <<>>, Alike(s, t, Len(s)), Called(t)
  PROVE  Called(s)
<1>1. s[1].pou \in {Program, Block}
  BY DEF Alike, Called
<1>2. ASSUME NEW k \in 2..Len(s)
      PROVE  /\ s[k].pou \in Callees[s[k - 1].pou]
             /\ \A i \in Outputs(s[k].pou) : s[k].args[i] \in Scope[s[k - 1].pou]
             /\ s[k].into \in Scope[s[k - 1].pou] \cup {NoName}
  <2>1. k \in 1..Len(s) /\ k - 1 \in 1..Len(s) /\ k \in 2..Len(t)
    OBVIOUS
  <2> QED
    BY <2>1 DEF Alike, Called
<1>3. ASSUME NEW j \in 1..Len(s), NEW k \in 1..Len(s), j < k, s[j].pou = Block
      PROVE  s[k].pou \in Below
  <2>1. j \in 1..Len(t) /\ k \in 1..Len(t) /\ t[j].pou = Block /\ t[k].pou = s[k].pou
    BY <1>3 DEF Alike
  <2> QED
    BY <1>3, <2>1 DEF Called
<1> QED
  BY <1>1, <1>2, <1>3 DEF Called

\* A new activation brings its locals, an old one takes them with it.
LEMMA PlacesCome ==
  ASSUME NEW s, NEW t, Len(s) \in Nat, Len(t) = Len(s) + 1,
         \A j \in 1..Len(s) : s[j].pou = t[j].pou
  PROVE  Alive(t) = Alive(s) \cup Locals(t[Len(t)].pou, Len(t))
<1>1. \A j \in 1..Len(t) : j \in 1..Len(s) \/ j = Len(t)
  OBVIOUS
<1>2. Len(t) \in 1..Len(t) /\ \A j \in 1..Len(s) : j \in 1..Len(t)
  OBVIOUS
<1> QED
  BY <1>1, <1>2 DEF Alive

LEMMA PlacesGo ==
  ASSUME NEW s, NEW t, Len(s) \in Nat, Len(t) = Len(s) + 1,
         \A j \in 1..Len(s) : s[j].pou = t[j].pou, NEW m, DOMAIN m = Alive(t)
  PROVE  /\ DOMAIN Popped(m, Len(t)) = Alive(s)
         /\ \A l \in Alive(s) : l \in Alive(t) /\ Popped(m, Len(t))[l] = m[l]
<1>1. \A l \in Lasting : l[1] # "local"
  BY DEF Lasting
<1>2. \A j, pou : \A l \in Locals(pou, j) : l[1] = "local" /\ l[2] = j
  BY DEF Locals
<1>3. \A l \in Alive(s) : ~(l[1] = "local" /\ l[2] = Len(t))
  BY <1>1, <1>2 DEF Alive
<1>4. \A l \in Alive(t) : l \in Alive(s) <=> ~(l[1] = "local" /\ l[2] = Len(t))
  BY <1>2, <1>3, PlacesCome
<1>5. Alive(s) \subseteq Alive(t)
  BY PlacesCome
<1> QED
  BY <1>4, <1>5 DEF Popped, Restrict

\* What the invariants say of the stack, and of a name the running text uses.
LEMMA StackNow ==
  ASSUME EvalInv, RefInv, levels # <<>>
  PROVE  /\ IsStack(levels) /\ Len(levels) >= 1 /\ Len(levels) \in 1..Len(levels)
         /\ Depth = Len(levels) /\ Running = levels[Len(levels)].pou
         /\ Innermost({Program, Block}, levels, Len(levels), ctx.instance)
         /\ \A k \in 2..Len(levels) :
              Innermost({Program, Block}, levels, k - 1, levels[k].saved.instance)
<1>1. /\ Len(levels) \in Nat /\ Len(levels) >= 1 /\ Depth = Len(levels) /\ Level = levels[Len(levels)]
      /\ Fits(ctx, levels, Len(levels), status = "running")
      /\ \A k \in 1..(Len(levels) - 1) : Fits(levels[k + 1].saved, levels, k, TRUE)
  BY Newest
<1>2. \A k \in 1..Len(levels) : levels[k].pou \in Pous
  BY DEF EvalInv, EvalShape, IsActivation
<1>3. \A k \in 2..Len(levels) : Innermost({Program, Block}, levels, k - 1, levels[k].saved.instance)
  <2> TAKE k \in 2..Len(levels)
  <2>1. k - 1 \in 1..(Len(levels) - 1) /\ (k - 1) + 1 = k
    BY <1>1
  <2>2. Fits(levels[(k - 1) + 1].saved, levels, k - 1, TRUE)
    BY <1>1, <2>1
  <2> QED
    BY <2>1, <2>2 DEF Fits
<1>4. IsStack(levels)
  BY <1>1, <1>2 DEF IsStack, RefInv
<1>5. Innermost({Program, Block}, levels, Len(levels), ctx.instance)
  BY <1>1 DEF Fits
<1>6. Running = levels[Len(levels)].pou /\ Len(levels) \in 1..Len(levels)
  BY <1>1 DEF Running
<1> QED
  BY ONLY <1>1, <1>3, <1>4, <1>5, <1>6

LEMMA NameHere ==
  ASSUME EvalInv, RefInv, levels # <<>>, NEW x \in Scope[Running]
  PROVE  /\ Here(x) = Found(Running, ctx.instance, Len(levels), x)
         /\ Here(x) \in Known(levels, Len(levels))
         /\ Here(x) \in DOMAIN mem /\ Here(x) \notin Stale(levels)
<1>1. Here(x) = Found(Running, ctx.instance, Len(levels), x)
  BY StackNow, PlaceIsFound DEF Here, RefInv, IsStack
<1>2. Here(x) \in Known(levels, Len(levels))
  BY <1>1, StackNow, FoundIsKnown
<1>3. Known(levels, Len(levels)) \subseteq DOMAIN mem
  BY StackNow, KnownPlaces DEF RefInv
<1> QED
  BY <1>1, <1>2, <1>3 DEF Stale

LEMMA MirrorsHere ==
  ASSUME EvalInv, RefInv, status = "running", ~ref.aliased, NEW e \in Scope[Running] \cup Data,
         Read(e) \cap Lent(ref.held) = {}
  PROVE  Val(e) = RefVal(e)
<1>1. levels # <<>>
  BY DEF EvalInv, Busy
<1>2. CASE e \in Data
  BY <1>2 DEF Val, RefVal
<1>3. CASE e \notin Data
  <2>1. e \in Scope[Running] /\ e # NoName
    BY <1>1, <1>3, StackNow, InterpreterAssumption DEF IsStack
  <2>2. Here(e) \in DOMAIN mem /\ Here(e) \notin Stale(levels)
    BY <1>1, <2>1, NameHere
  <2>3. Here(e) \notin Lent(ref.held)
    BY <1>3, <2>1 DEF Read
  <2>4. mem[Here(e)] = ref.mem[OriginIn(ref.held, Here(e))]
    BY <2>2, <2>3 DEF RefInv, Mirrored, Agreed
  <2> QED
    BY <1>3, <2>4 DEF Val, RefVal, Origin, OriginIn
<1> QED
  BY <1>2, <1>3

LEMMA ByReferenceFollows ==
  ASSUME EvalInv, RefInv
  PROVE  InOutByReference
<1>1. ASSUME ~ref.aliased, status = "running", NEW x \in Scope[Running], Here(x) \notin Lent(ref.held)
      PROVE  mem[Here(x)] = ref.mem[Origin(Here(x))]
  <2>1. levels # <<>>
    BY <1>1 DEF EvalInv, Busy
  <2>2. Here(x) \in DOMAIN mem /\ Here(x) \notin Stale(levels)
    BY <2>1, NameHere
  <2>3. mem[Here(x)] = ref.mem[OriginIn(ref.held, Here(x))]
    BY <1>1, <2>2 DEF RefInv, Mirrored, Agreed
  <2> QED
    BY <2>3 DEF Origin, OriginIn
<1>2. ~ref.aliased /\ status = "done" =>
        \A l \in Lasting : l[3] \in InOutsOf(Block) \/ mem[l] = ref.mem[l]
  BY DEF RefInv
<1> QED
  BY <1>1, <1>2 DEF InOutByReference

-----------------------------------------------------------------------------
\* The steps that move nothing between places: the start and the end of an
\* execution, assignments, loops and errors.
LEMMA NothingLent ==
  ASSUME NEW s, Len(s) = 1, NEW m
  PROVE  Mirrored(s, <<>>, m, m)
<1>1. DOMAIN <<>> = {} /\ Lent(<<>>) = {} /\ \A l : OriginIn(<<>>, l) = l
  BY DEF Lent, OriginIn
<1>2. 2..Len(s) = {}
  OBVIOUS
<1>3. Lending(s, <<>>)
  BY <1>1, <1>2 DEF Lending
<1>4. Sound(<<>>, DOMAIN m)
  BY <1>1 DEF Sound
<1> QED
  BY <1>1, <1>3, <1>4 DEF Mirrored, Agreed

LEMMA OnlyLasting ==
  ASSUME NEW s, Len(s) = 0
  PROVE  Alive(s) = Lasting
<1>1. 1..Len(s) = {}
  OBVIOUS
<1> QED
  BY <1>1 DEF Alive

LEMMA MirrorBegins ==
  ASSUME EvalInv, RefInv, NEW pou \in {Program, Block}, Execute(pou)
  PROVE  RefInv'
<1>1. levels = <<>> /\ status = "done" /\ frames = <<>>
  BY DEF Execute, EvalInv, Busy, ContextRestored
<1>2. PICK a, s : a = [pou |-> pou, saved |-> ctx, args |-> <<>>, into |-> NoName, loops |-> 0]
                  /\ s = levels'
  OBVIOUS
<1>3. s = <<a>> /\ Len(s) = 1 /\ s[1].pou = pou /\ Len(levels) = 0 /\ Depth = 0
  BY <1>1, <1>2 DEF Execute, Depth
<1>4. Called(s)
  <2>1. 2..Len(s) = {} /\ \A j, k \in 1..Len(s) : ~(j < k)
    BY <1>3
  <2> QED
    BY <1>3, <2>1 DEF Called
<1>5. LocalsOf(pou) = Temps[pou]
  BY InterpreterAssumption DEF LocalsOf
<1>6. DOMAIN mem' = Alive(s)
  <2>1. DOMAIN mem' = {<<"local", 1, n>> : n \in Temps[pou]} \cup DOMAIN mem
    BY <1>3 DEF Execute, Over
  <2>2. DOMAIN mem = Alive(levels)
    BY DEF RefInv
  <2>3. Alive(s) = Alive(levels) \cup Locals(pou, 1)
    <3>1. PICK z : z = levels
      OBVIOUS
    <3>2. Len(z) = 0
      BY <1>3, <3>1
    <3>3. Len(z) \in Nat /\ Len(s) = Len(z) + 1 /\ \A j \in 1..Len(z) : z[j].pou = s[j].pou
      BY <1>3, <3>2
    <3>4. Alive(s) = Alive(z) \cup Locals(s[Len(s)].pou, Len(s))
      BY ONLY <3>3, PlacesCome
    <3> QED
      BY <1>3, <3>1, <3>4
  <2> QED
    BY <1>5, <2>1, <2>2, <2>3 DEF Locals
<1>7. status' = "running" /\ ref' = [mem |-> mem', held |-> <<>>, aliased |-> FALSE]
  BY DEF Execute
<1>8. Mirrored(s, ref'.held, mem', ref'.mem)
  BY <1>3, <1>7, NothingLent
<1> QED
  BY <1>2, <1>4, <1>6, <1>7, <1>8 DEF RefInv

LEMMA MirrorEnds ==
  ASSUME EvalInv, RefInv, levels # <<>>, Len(levels) = 1, NEW how \in {"done", "faulted"}, Leave(how),
         how = "done" => status = "running"
  PROVE  RefInv'
<1>1. PICK s, d, m : s = <<>> /\ d = Depth /\ m = mem
  OBVIOUS
<1>2. Len(s) = 0 /\ d = 1 /\ levels' = s /\ mem' = Popped(m, d) /\ ref' = ref /\ status' = how
      /\ DOMAIN m = Alive(levels)
  BY <1>1, StackNow DEF Leave, RefInv
<1>3. DOMAIN mem' = Alive(s) /\ \A l \in Alive(s) : l \in Alive(levels) /\ mem'[l] = m[l]
  <2>1. PICK z : z = levels
    OBVIOUS
  <2>2. Len(z) = 1
    BY <2>1
  <2>3. Len(s) \in Nat /\ Len(z) = Len(s) + 1 /\ DOMAIN m = Alive(z)
        /\ \A j \in 1..Len(s) : s[j].pou = z[j].pou
    BY <1>2, <2>1, <2>2
  <2>4. /\ DOMAIN Popped(m, Len(z)) = Alive(s)
        /\ \A l \in Alive(s) : l \in Alive(z) /\ Popped(m, Len(z))[l] = m[l]
    BY ONLY <2>3, PlacesGo
  <2> QED
    BY <1>2, <2>1, <2>2, <2>4
<1>4. Alive(s) = Lasting
  BY <1>2, OnlyLasting
<1>5. Called(s)
  BY <1>1, <1>2 DEF Called
<1>6. ASSUME how = "done", ~ref.aliased, NEW l \in Lasting, l[3] \notin InOutsOf(Block)
      PROVE  mem'[l] = ref.mem[l]
  <2>1. Mirrored(levels, ref.held, mem, ref.mem)
    BY <1>6 DEF RefInv
  <2>2. 2..Len(levels) = {}
    OBVIOUS
  <2>3. DOMAIN ref.held = {}
    BY <2>1, <2>2 DEF Mirrored, Lending
  <2>4. Lent(ref.held) = {} /\ OriginIn(ref.held, l) = l
    BY <2>3 DEF Lent, OriginIn
  <2>5. l \notin Stale(levels)
    BY <1>6 DEF Stale
  <2>6. mem[l] = ref.mem[l]
    <3>1. l \in DOMAIN mem
      BY <1>1, <1>2, <1>3, <1>4
    <3> QED
      BY <2>1, <2>4, <2>5, <3>1 DEF Mirrored, Agreed
  <2> QED
    BY <1>1, <1>3, <1>4, <2>6
<1> QED
  BY <1>2, <1>3, <1>5, <1>6 DEF RefInv

LEMMA MirrorStartsAgain ==
  ASSUME EvalInv, RefInv, restart_after_fault
  PROVE  RefInv'
<1>1. levels = <<>> /\ levels' = levels /\ Len(levels) = 0
  BY DEF restart_after_fault, EvalInv, Busy
<1>2. mem' = Fresh /\ status' = "done" /\ ref' = [mem |-> Fresh, held |-> <<>>, aliased |-> FALSE]
  BY DEF restart_after_fault
<1>3. DOMAIN mem' = Alive(levels')
  BY <1>1, <1>2, OnlyLasting DEF Fresh
<1> QED
  BY <1>1, <1>2, <1>3 DEF RefInv

\* Once the references say nothing any more, only the places count.
LEMMA MirrorGivenUp ==
  ASSUME Called(levels'), DOMAIN mem' = Alive(levels'), ref' = Unlike
  PROVE  RefInv'
<1>1. PICK r : r = ref'
  OBVIOUS
<1>2. r = [mem |-> r.mem, held |-> r.held, aliased |-> r.aliased] /\ r.aliased
  BY <1>1 DEF Unlike
<1> QED
  BY <1>1, <1>2 DEF RefInv

LEMMA RecordWrite ==
  ASSUME NEW r, NEW h, NEW o, NEW v, NEW b, NEW a, a = [mem |-> r, held |-> h, aliased |-> b]
  PROVE  [a EXCEPT !.mem[o] = v] = [mem |-> [r EXCEPT ![o] = v], held |-> h, aliased |-> b]
<1>1. a.mem = r /\ [a EXCEPT !.mem[o] = v] = [a EXCEPT !.mem = [a.mem EXCEPT ![o] = v]]
  OBVIOUS
<1> QED
  BY <1>1

\* An assignment.
LEMMA MirrorAssigns ==
  ASSUME EvalInv, RefInv, status = "running", NEW x \in Scope[Running],
         NEW e \in Scope[Running] \cup Data, Assign(x, e)
  PROVE  RefInv'
<1> DEFINE v == Val(e)
<1>1. levels # <<>>
  BY DEF EvalInv, Busy
<1>2. Here(x) \in DOMAIN mem
  BY <1>1, NameHere
<1>3. mem' = [mem EXCEPT ![Here(x)] = v] /\ levels' = levels /\ status' = status
      /\ ref' = Faithful([ref EXCEPT !.mem[Origin(Here(x))] = RefVal(e)], {Here(x)} \cup Read(e))
  BY DEF Assign
<1>4. DOMAIN mem' = DOMAIN mem
  BY <1>3
<1>5. CASE ref' = Unlike
  <2>1. Called(levels') /\ DOMAIN mem' = Alive(levels')
    BY <1>3, <1>4 DEF RefInv
  <2> QED
    BY <1>5, <2>1, MirrorGivenUp
<1>6. CASE ref' # Unlike
  <2>1. PICK h, r : h = ref.held /\ r = ref.mem
    OBVIOUS
  <2>2. ref = [mem |-> r, held |-> h, aliased |-> FALSE]
    BY <1>3, <1>6, <2>1 DEF RefInv, Faithful
  <2>3. [ref EXCEPT !.mem[Origin(Here(x))] = RefVal(e)]
         = [mem |-> [r EXCEPT ![OriginIn(h, Here(x))] = RefVal(e)], held |-> h, aliased |-> FALSE]
    <3>1. Origin(Here(x)) = OriginIn(h, Here(x))
      BY <2>1 DEF Origin, OriginIn
    <3>2. PICK a, o, w, b : a = ref /\ o = Origin(Here(x)) /\ w = RefVal(e) /\ b = FALSE
      OBVIOUS
    <3>3. a = [mem |-> r, held |-> h, aliased |-> b]
      BY <2>2, <3>2
    <3>4. [a EXCEPT !.mem[o] = w] = [mem |-> [r EXCEPT ![o] = w], held |-> h, aliased |-> b]
      BY ONLY <3>3, RecordWrite
    <3> QED
      BY <3>1, <3>2, <3>4
  <2>4. /\ ({Here(x)} \cup Read(e)) \cap Lent(h) = {}
        /\ ref' = [mem |-> [r EXCEPT ![OriginIn(h, Here(x))] = RefVal(e)], held |-> h,
                   aliased |-> FALSE]
    BY <1>3, <1>6, <2>3 DEF Faithful
  <2>5. v = RefVal(e)
    BY <2>2, <2>4, MirrorsHere
  <2>6. Mirrored(levels, h, mem, r)
    BY <2>2 DEF RefInv
  <2>7. Agreed(h, DOMAIN mem, mem', ref'.mem, Stale(levels))
    <3>1. PICK d, m, S, l, w : d = DOMAIN mem /\ m = mem /\ S = Stale(levels) /\ l = Here(x) /\ w = v
      OBVIOUS
    <3>2. Sound(h, d) /\ DOMAIN m = d /\ DOMAIN r = d /\ Agreed(h, d, m, r, S)
      BY <2>6, <3>1 DEF Mirrored
    <3>3. l \in d \ Lent(h)
      BY <1>2, <2>4, <3>1
    <3>4. Agreed(h, d, [m EXCEPT ![l] = w], [r EXCEPT ![OriginIn(h, l)] = w], S)
      BY ONLY <3>2, <3>3, AgreedOfWrite
    <3>5. mem' = [m EXCEPT ![l] = w]
      BY <1>3, <3>1
    <3>6. ref'.mem = [r EXCEPT ![OriginIn(h, l)] = w]
      <4>1. ref'.mem = [r EXCEPT ![OriginIn(h, Here(x))] = RefVal(e)]
        BY <2>4
      <4>2. w = RefVal(e)
        BY <2>5, <3>1
      <4> QED
        BY <3>1, <4>1, <4>2
    <3> QED
      BY <3>1, <3>4, <3>5, <3>6
  <2>8. DOMAIN ref'.mem = DOMAIN r
    BY <2>4
  <2>9. Mirrored(levels, ref'.held, mem', ref'.mem)
    BY <1>4, <2>4, <2>6, <2>7, <2>8 DEF Mirrored
  <2> QED
    BY <1>3, <1>4, <2>4, <2>9 DEF RefInv
<1> QED
  BY <1>5, <1>6

LEMMA AlikeMirrored ==
  ASSUME NEW s, NEW t, Len(s) \in Nat, Len(s) >= 1, Len(t) = Len(s), s # <<>>, t # <<>>,
         Alike(s, t, Len(s))
  PROVE  /\ Called(s) => Called(t)
         /\ Alive(s) = Alive(t)
         /\ \A H, m, r : Mirrored(s, H, m, r) => Mirrored(t, H, m, r)
<1>1. Alike(t, s, Len(t))
  BY DEF Alike
<1>2. Called(s) => Called(t)
  BY <1>1, AlikeCalled
<1>3. Alive(s) = Alive(t)
  <2>1. \A j \in 1..Len(s) : s[j].pou = t[j].pou
    BY DEF Alike
  <2> QED
    BY <2>1 DEF Alive
<1>4. /\ \A k \in 1..Len(s) : s[k].pou = t[k].pou /\ Known(s, k) = Known(t, k)
      /\ \A k \in 1..Len(s) : \A i : Home(s, k, i) = Home(t, k, i)
      /\ \A k \in 2..Len(s) : \A i : Given(s, k, i) = Given(t, k, i)
  BY AlikeStacks DEF Alike
<1>5. Stale(s) = Stale(t)
  BY <1>4 DEF Stale
<1>6. ASSUME NEW H, Lending(s, H)
      PROVE  Lending(t, H)
  <2>1. \A k \in 2..Len(s) : k \in 1..Len(s) /\ k - 1 \in 1..Len(s)
    OBVIOUS
  <2>2. ASSUME NEW l \in DOMAIN H
        PROVE  \E k \in 2..Len(t) : \E i \in InOuts(t[k].pou) : l = Home(t, k, i)
    <3>1. PICK k \in 2..Len(s) : \E i \in InOuts(s[k].pou) : l = Home(s, k, i)
      BY <1>6 DEF Lending
    <3> QED
      BY <1>4, <2>1, <3>1
  <2>3. ASSUME NEW k \in 2..Len(t)
        PROVE  /\ \A i \in InOuts(t[k].pou) :
                    /\ Home(t, k, i) \in DOMAIN H
                    /\ H[Home(t, k, i)].lender = Given(t, k, i)
                    /\ H[Home(t, k, i)].lender \in Known(t, k - 1)
                    /\ H[Home(t, k, i)].origin \in Known(t, k - 1)
               /\ \A i, j \in Outputs(t[k].pou) : i # j => Given(t, k, i) # Given(t, k, j)
    <3>1. /\ s[k].pou = t[k].pou /\ Known(s, k - 1) = Known(t, k - 1)
          /\ \A i : Home(s, k, i) = Home(t, k, i) /\ Given(s, k, i) = Given(t, k, i)
      BY <1>4, <2>1
    <3> QED
      BY <1>6, <3>1 DEF Lending
  <2> QED
    BY <2>2, <2>3 DEF Lending
<1> QED
  BY <1>2, <1>3, <1>5, <1>6 DEF Mirrored

LEMMA MirrorLoops ==
  ASSUME EvalInv, RefInv, status = "running", NEW v,
         levels' = [levels EXCEPT ![Len(levels)].loops = v], UNCHANGED <<mem, status, ref>>
  PROVE  RefInv'
<1>1. PICK s, t, n, a : s = levels /\ t = levels' /\ n = Len(levels)
                        /\ a = [Level EXCEPT !.loops = v]
  OBVIOUS
<1>2. s # <<>> /\ n \in Nat /\ n >= 1 /\ Level = s[n] /\ IsActivation(Level) /\ IsSequence(s)
  BY <1>1, Newest DEF EvalInv, Busy, EvalShape
<1>3. t = [s EXCEPT ![n] = a]
  BY <1>1, <1>2
<1>4. a.pou = Level.pou /\ a.saved = Level.saved /\ a.args = Level.args /\ a.into = Level.into
  BY <1>1, <1>2 DEF IsActivation
<1>5. /\ Len(t) = Len(s) /\ (\A i \in 1..Len(s) : i # n => t[i] = s[i])
      /\ (n \in 1..Len(s) => t[n] = a) /\ (t = <<>> <=> s = <<>>)
  BY ONLY <1>2, <1>3, ChangedSequence
<1>6. Alike(s, t, Len(s)) /\ Len(s) \in Nat /\ Len(s) >= 1 /\ s # <<>> /\ t # <<>> /\ Len(t) = Len(s)
  BY <1>1, <1>2, <1>4, <1>5 DEF Alike
<1>7. /\ Called(s) => Called(t)
      /\ Alive(s) = Alive(t)
      /\ \A H, m, r : Mirrored(s, H, m, r) => Mirrored(t, H, m, r)
  BY ONLY <1>6, AlikeMirrored
<1>8. Called(t) /\ DOMAIN mem' = Alive(t)
  BY <1>1, <1>7 DEF RefInv
<1>9. ~ref.aliased => Mirrored(t, ref.held, mem, ref.mem)
  BY <1>1, <1>7 DEF RefInv
<1>10. ref' = ref /\ mem' = mem /\ status' = "running"
  OBVIOUS
<1> QED
  BY <1>1, <1>8, <1>9, <1>10 DEF RefInv

\* What is left of a stack when its newest activation goes.
LEMMA StackGoes ==
  ASSUME EvalInv, RefInv, Len(levels) > 1, levels' = Front(levels)
  PROVE  /\ Len(levels') = Len(levels) - 1 /\ Len(levels') \in Nat /\ levels # <<>>
         /\ Alike(levels', levels, Len(levels')) /\ Called(levels')
         /\ levels' # <<>> /\ \A k \in 1..Len(levels') : levels'[k] = levels[k]
<1>1. levels # <<>> /\ IsSequence(levels) /\ Len(levels) \in Nat
  BY EmptySeq DEF EvalInv, EvalShape, IsSequence
<1>2. PICK s, t : s = levels' /\ t = levels
  OBVIOUS
<1>3. Len(s) = Len(t) - 1 /\ s # <<>> /\ \A k \in 1..Len(s) : s[k] = t[k]
  BY <1>1, <1>2, FrontOfSequence
<1>4. Alike(s, t, Len(s))
  BY <1>3 DEF Alike
<1>5. /\ Len(s) \in Nat /\ Len(t) \in Nat /\ Len(s) >= 1 /\ Len(s) <= Len(t) /\ t # <<>>
      /\ Called(t)
  BY <1>1, <1>2, <1>3 DEF RefInv
<1>6. Called(s)
  BY ONLY <1>4, <1>5, AlikeCalled
<1> QED
  BY <1>2, <1>3, <1>4, <1>5, <1>6

LEMMA PlacesLeft ==
  ASSUME EvalInv, RefInv, Len(levels) > 1, levels' = Front(levels), NEW m, DOMAIN m = DOMAIN mem
  PROVE  /\ DOMAIN Popped(m, Depth) = Alive(levels')
         /\ \A l \in Alive(levels') : l \in DOMAIN m /\ Popped(m, Depth)[l] = m[l]
<1>1. PICK s, t : s = levels' /\ t = levels
  OBVIOUS
<1>2. /\ Len(s) \in Nat /\ Len(t) = Len(s) + 1 /\ Depth = Len(t)
      /\ \A j \in 1..Len(s) : s[j].pou = t[j].pou
  BY <1>1, StackGoes, StackNow DEF IsStack
<1>3. DOMAIN m = Alive(t)
  BY <1>1 DEF RefInv
<1>4. /\ DOMAIN Popped(m, Len(t)) = Alive(s)
      /\ \A l \in Alive(s) : l \in Alive(t) /\ Popped(m, Len(t))[l] = m[l]
  BY ONLY <1>2, <1>3, PlacesGo
<1> QED
  BY <1>1, <1>2, <1>3, <1>4

LEMMA MirrorUnwinds ==
  ASSUME EvalInv, RefInv, Unwind
  PROVE  RefInv'
<1>1. levels # <<>> /\ status = "fault" /\ Len(levels) \in Nat /\ Len(levels) >= 1
  BY Newest DEF Unwind, EvalInv, Busy
<1>2. CASE Len(levels) = 1
  <2>1. Leave("faulted")
    BY <1>2 DEF Unwind
  <2> QED
    BY <1>1, <1>2, <2>1, MirrorEnds
<1>3. CASE Len(levels) # 1
  <2>1. Len(levels) > 1 /\ levels' = Front(levels) /\ mem' = Popped(mem, Depth) /\ ref' = ref
        /\ status' = "fault"
    BY <1>1, <1>3 DEF Unwind
  <2>2. Called(levels') /\ DOMAIN mem' = Alive(levels')
    BY <2>1, StackGoes, PlacesLeft
  <2> QED
    BY <1>1, <2>1, <2>2 DEF RefInv
<1> QED
  BY <1>2, <1>3

-----------------------------------------------------------------------------
\* A call.
Valued(pou) == {i \in DOMAIN Params[pou] : Direction[Params[pou][i]] # "out"}
NewPlaces(pou, d) == {HomeOf(pou, Params[pou][i], d) : i \in Valued(pou)} \cup Locals(pou, d)

LEMMA ParametersApart ==
  ASSUME NEW pou \in Functions \cup {Block}, NEW d, NEW i \in DOMAIN Params[pou],
         NEW j \in DOMAIN Params[pou], HomeOf(pou, Params[pou][i], d) = HomeOf(pou, Params[pou][j], d)
  PROVE  i = j
<1>1. Params[pou][i] = Params[pou][j]
  BY DEF HomeOf
<1>2. pou \in Pous \ {Program}
  BY InterpreterAssumption DEF Pous
<1> QED
  BY <1>1, <1>2, InterpreterAssumption

LEMMA InitialisedIs ==
  ASSUME NEW pou \in Functions \cup {Block}, NEW v
  PROVE  /\ DOMAIN Initialised(pou, v) = NewPlaces(pou, Depth + 1)
         /\ \A i \in Valued(pou) :
              Initialised(pou, v)[HomeOf(pou, Params[pou][i], Depth + 1)] = v[i]
         /\ \A l \in NewPlaces(pou, Depth + 1) :
              (\A i \in Valued(pou) : HomeOf(pou, Params[pou][i], Depth + 1) # l)
                => Initialised(pou, v)[l] = Default
<1>1. PICK d, g, home : /\ d = Depth + 1 /\ g = Valued(pou)
                        /\ home = [i \in g |-> HomeOf(pou, Params[pou][i], d)]
  OBVIOUS
<1>2. Initialised(pou, v) =
        [l \in {home[i] : i \in g} \cup {<<"local", d, n>> : n \in LocalsOf(pou)} |->
           IF \E i \in g : home[i] = l THEN v[IndexOf(home, l)] ELSE Default]
  BY <1>1 DEF Initialised, Valued
<1>3. NewPlaces(pou, d) = {home[i] : i \in g} \cup {<<"local", d, n>> : n \in LocalsOf(pou)}
  BY <1>1 DEF NewPlaces, Locals
<1>4. DOMAIN Initialised(pou, v) = NewPlaces(pou, d)
  BY <1>2, <1>3
<1>5. ASSUME NEW i \in g
      PROVE  Initialised(pou, v)[HomeOf(pou, Params[pou][i], d)] = v[i]
  <2>1. home[i] = HomeOf(pou, Params[pou][i], d) /\ DOMAIN home = g
    BY <1>1
  <2>2. \A j \in g : home[j] = home[i] => j = i
    BY <1>1, ParametersApart DEF Valued
  <2>3. IndexOf(home, home[i]) = i
    BY <2>1, <2>2 DEF IndexOf
  <2>4. home[i] \in {home[j] : j \in g} \cup {<<"local", d, n>> : n \in LocalsOf(pou)}
    OBVIOUS
  <2>5. Initialised(pou, v)[home[i]] =
           IF \E j \in g : home[j] = home[i] THEN v[IndexOf(home, home[i])] ELSE Default
    BY <1>2, <2>4
  <2> QED
    BY <2>1, <2>3, <2>5
<1>6. ASSUME NEW l \in NewPlaces(pou, d), \A i \in g : HomeOf(pou, Params[pou][i], d) # l
      PROVE  Initialised(pou, v)[l] = Default
  <2>1. \A i \in g : home[i] # l
    BY <1>1, <1>6
  <2> QED
    BY <1>2, <1>3, <2>1
<1> QED
  BY <1>1, <1>4, <1>5, <1>6

\* What is lent, by whom and from where: places of the activations below.
LEMMA VisibleLoans ==
  ASSUME NEW s, IsStack(s), NEW H, Lending(s, H), NEW h \in DOMAIN H
  PROVE  /\ Len(s) >= 2 /\ h \in Known(s, Len(s))
         /\ H[h].lender \in Known(s, Len(s) - 1) /\ H[h].origin \in Known(s, Len(s) - 1)
<1>0. PICK k \in 2..Len(s) : \E i \in InOuts(s[k].pou) : h = Home(s, k, i)
  BY DEF Lending
<1>1. PICK i \in InOuts(s[k].pou) : h = Home(s, k, i)
  BY <1>0
<1>2. i \in DOMAIN Params[s[k].pou] /\ Len(s) \in Nat
  BY DEF InOuts, IsStack
<1>3. H[h].lender \in Known(s, k - 1) /\ H[h].origin \in Known(s, k - 1)
  BY <1>1 DEF Lending
<1>4. k \in 1..Len(s) /\ k - 1 \in 1..Len(s) /\ Len(s) - 1 \in 1..Len(s) /\ k - 1 <= Len(s) - 1
      /\ Len(s) \in 1..Len(s) /\ k <= Len(s) /\ Len(s) >= 2
  BY <1>2
<1>5. Known(s, k - 1) \subseteq Known(s, Len(s) - 1) /\ Known(s, k) \subseteq Known(s, Len(s))
  BY <1>4, KnownPlaces
<1>6. h \in Known(s, k)
  BY <1>1, <1>2, KnownPlaces
<1> QED
  BY <1>3, <1>4, <1>5, <1>6

\* The stack after a call, and the places that come with it.
LEMMA StackComes ==
  ASSUME EvalInv, RefInv, status = "running", NEW pou \in Callees[Running],
         NEW into \in Scope[Running] \cup {NoName}, NEW args \in Arguments(pou),
         levels' = Append(levels, [pou |-> pou, saved |-> ctx, args |-> args, into |-> into,
                                   loops |-> 0])
  PROVE  /\ Len(levels') = Len(levels) + 1 /\ IsStack(levels')
         /\ Alike(levels, levels', Len(levels)) /\ pou \in Functions \cup {Block}
         /\ levels'[Len(levels) + 1].pou = pou /\ levels'[Len(levels) + 1].args = args
         /\ levels'[Len(levels) + 1].saved = ctx /\ levels'[Len(levels)].pou = Running
         /\ levels # <<>>
<1>1. PICK s, t, n, a : /\ s = levels /\ t = levels' /\ n = Len(levels)
                        /\ a = [pou |-> pou, saved |-> ctx, args |-> args, into |-> into, loops |-> 0]
  OBVIOUS
<1>2. s # <<>> /\ IsStack(s) /\ n \in Nat /\ n >= 1 /\ n = Len(s) /\ Running = s[n].pou
      /\ IsSequence(s)
  BY <1>1, StackNow DEF EvalInv, Busy, IsStack, EvalShape
<1>3. t = Append(s, a)
  BY <1>1
<1>4. Len(t) = Len(s) + 1 /\ t # <<>> /\ (\A i \in 1..Len(s) : t[i] = s[i]) /\ t[Len(s) + 1] = a
  BY ONLY <1>2, <1>3, Pushed
<1>5. a.pou = pou /\ a.saved = ctx /\ a.args = args /\ a.into = into
  BY <1>1
<1>6. pou \in Functions \cup {Block} /\ pou \in Pous
  <2>1. Running \in Pous
    BY <1>2 DEF IsStack
  <2> QED
    BY <2>1, InterpreterAssumption DEF Pous
<1>7. \A i \in Outputs(pou) : args[i] \in Scope[Running]
  BY DEF Arguments, Outputs
<1>8. Called(t)
  <2>1. t[1].pou \in {Program, Block}
    BY <1>2, <1>4 DEF IsStack, Called
  <2>2. ASSUME NEW k \in 2..Len(t)
        PROVE  /\ t[k].pou \in Callees[t[k - 1].pou]
               /\ \A i \in Outputs(t[k].pou) : t[k].args[i] \in Scope[t[k - 1].pou]
               /\ t[k].into \in Scope[t[k - 1].pou] \cup {NoName}
    <3>1. CASE k = n + 1
      <4>1. t[k] = a /\ t[k - 1] = s[n]
        BY <1>2, <1>4, <3>1
      <4> QED
        BY <1>2, <1>5, <1>7, <4>1
    <3>2. CASE k # n + 1
      <4>1. k \in 2..Len(s) /\ t[k] = s[k] /\ t[k - 1] = s[k - 1]
        BY <1>2, <1>4, <3>2
      <4> QED
        BY <1>2, <4>1 DEF IsStack, Called
    <3> QED
      BY <3>1, <3>2
  <2>3. ASSUME NEW j \in 1..Len(t), NEW k \in 1..Len(t), j < k, t[j].pou = Block
        PROVE  t[k].pou \in Below
    <3>1. j \in 1..Len(s) /\ t[j] = s[j]
      BY <1>2, <1>4, <2>3
    <3>2. CASE k = n + 1
      <4>1. t[k].pou = pou
        BY <1>2, <1>4, <1>5, <3>2
      <4>2. CASE j = n
        BY <1>2, <2>3, <3>1, <4>1, <4>2, BelowIs
      <4>3. CASE j # n
        <5>1. j < n /\ n \in 1..Len(s)
          BY <1>2, <3>1, <4>3
        <5>2. s[n].pou \in Below
          BY <1>2, <2>3, <3>1, <5>1 DEF IsStack, Called
        <5> QED
          BY <1>2, <4>1, <5>2, BelowIs
      <4> QED
        BY <4>2, <4>3
    <3>3. CASE k # n + 1
      <4>1. k \in 1..Len(s) /\ t[k] = s[k]
        BY <1>2, <1>4, <3>3
      <4> QED
        BY <1>2, <2>3, <3>1, <4>1 DEF IsStack, Called
    <3> QED
      BY <3>2, <3>3
  <2> QED
    BY <2>1, <2>2, <2>3 DEF Called
<1>9. IsStack(t)
  <2>1. ASSUME NEW k \in 1..Len(t)
        PROVE  t[k].pou \in Pous
    <3>1. k = n + 1 \/ k \in 1..Len(s)
      BY <1>2, <1>4
    <3> QED
      BY <1>2, <1>4, <1>5, <1>6, <3>1 DEF IsStack
  <2> QED
    BY <1>2, <1>4, <1>8, <2>1 DEF IsStack
<1>10. Alike(s, t, Len(s))
  BY <1>4 DEF Alike
<1>11. t[n].pou = Running /\ t[n + 1] = a
  BY <1>2, <1>4
<1> QED
  BY <1>1, <1>2, <1>4, <1>5, <1>6, <1>9, <1>10, <1>11

LEMMA PlacesOfCall ==
  ASSUME NEW s, NEW t, IsStack(s), IsStack(t), Len(s) >= 1, Len(t) = Len(s) + 1,
         Alike(s, t, Len(s)), NEW pou \in Functions \cup {Block}, t[Len(t)].pou = pou
  PROVE  /\ Alive(s) \cup NewPlaces(pou, Len(t)) = Alive(t)
         /\ NewPlaces(pou, Len(t)) \cap Known(s, Len(s)) = {}
         /\ Stale(s) \subseteq {HomeOf(pou, Params[pou][i], Len(t)) : i \in InOuts(pou)} \cup Stale(t)
<1>1. PICK n : n = Len(s)
  OBVIOUS
<1>2. /\ n \in Nat /\ n >= 1 /\ Len(t) = n + 1 /\ n + 1 \in 2..Len(t) /\ (n + 1) - 1 = n
      /\ n + 1 \in 1..Len(t) /\ n \in 1..Len(s) /\ n \in 1..Len(t)
  BY <1>1 DEF IsStack
<1>3. Known(s, n) = Known(t, n)
  BY <1>1, <1>2, AlikeStacks
<1>4. ASSUME NEW i \in DOMAIN Params[pou]
      PROVE  /\ HomeOf(pou, Params[pou][i], n + 1) = Home(t, n + 1, i)
             /\ HomeOf(pou, Params[pou][i], n + 1) \in Known(t, n + 1)
             /\ HomeOf(pou, Params[pou][i], n + 1) \notin Known(s, n)
             /\ Params[pou][i] \in ParamsOf(pou)
  <2>1. HomeOf(pou, Params[pou][i], n + 1) = Home(t, n + 1, i)
    BY <1>2 DEF Home
  <2>2. /\ Home(t, n + 1, i) \in Known(t, n + 1) /\ Home(t, n + 1, i) \notin Known(t, (n + 1) - 1)
        /\ Params[pou][i] \in ParamsOf(pou)
    BY <1>2, KnownPlaces
  <2> QED
    BY <1>2, <1>3, <2>1, <2>2
<1>5. Alive(t) = Alive(s) \cup Locals(pou, n + 1)
  <2>1. \A j \in 1..Len(s) : s[j].pou = t[j].pou
    BY DEF Alike
  <2> QED
    BY <1>1, <1>2, <2>1, PlacesCome
<1>6. Known(t, n + 1) \subseteq Alive(t)
  BY <1>2, KnownPlaces
<1>7. Alive(s) \cup NewPlaces(pou, n + 1) = Alive(t)
  <2>1. \A i \in Valued(pou) : HomeOf(pou, Params[pou][i], n + 1) \in Alive(t)
    BY <1>4, <1>6 DEF Valued
  <2> QED
    BY <1>5, <2>1 DEF NewPlaces
<1>8. NewPlaces(pou, n + 1) \cap Known(s, n) = {}
  <2>1. ASSUME NEW l \in Locals(pou, n + 1)
        PROVE  l \notin Known(s, n)
    <3>1. PICK x : l = <<"local", n + 1, x>>
      BY DEF Locals
    <3>2. l \notin Lasting /\ \A j \in 1..n : l \notin Locals(s[j].pou, j)
      BY <1>2, <3>1, LocalPlaces
    <3> QED
      BY <3>2 DEF Known
  <2>2. \A i \in Valued(pou) : HomeOf(pou, Params[pou][i], n + 1) \notin Known(s, n)
    BY <1>4 DEF Valued
  <2> QED
    BY <2>1, <2>2 DEF NewPlaces
<1>9. ASSUME NEW l \in Stale(s), l \notin Stale(t)
      PROVE  \E i \in InOuts(pou) : l = HomeOf(pou, Params[pou][i], n + 1)
  <2>1. PICK p \in InOutsOf(Block) : l = <<"member", Block, p>>
    BY DEF Stale
  <2>2. l \notin Known(s, n) /\ l \in Known(t, n + 1)
    BY <1>1, <1>2, <1>9, <2>1 DEF Stale
  <2>3. \A j : l \notin Locals(t[j].pou, j)
    BY <2>1, LocalPlaces
  <2>4. l \in Lasting /\ l \in BlocksOwn
    BY <2>1, LocalPlaces, InterpreterAssumption DEF InOutsOf
  <2>5. PICK j \in 1..(n + 1) : t[j].pou = Block
    BY <2>2, <2>3, <2>4 DEF Known
  <2>6. \A i \in 1..n : s[i].pou # Block
    BY <2>2, <2>4 DEF Known
  <2>7. j = n + 1
    <3>1. j \in 1..n => s[j].pou = Block
      BY <1>1, <2>5 DEF Alike
    <3> QED
      BY <1>2, <2>5, <2>6, <3>1
  <2>8. pou = Block
    BY <1>2, <2>5, <2>7
  <2>9. PICK i \in DOMAIN Params[Block] : Params[Block][i] = p
    BY DEF InOutsOf, ParamsOf
  <2>10. i \in InOuts(Block)
    BY <2>9 DEF InOuts, InOutsOf
  <2> QED
    BY <2>1, <2>8, <2>9, <2>10 DEF HomeOf
<1> QED
  BY <1>1, <1>2, <1>7, <1>8, <1>9

LEMMA LoanIs ==
  ASSUME NEW pou \in Functions \cup {Block}, NEW args
  PROVE  /\ DOMAIN LoanOf(pou, args) = {HomeOf(pou, Params[pou][i], Depth + 1) : i \in InOuts(pou)}
         /\ \A i \in InOuts(pou) :
              LoanOf(pou, args)[HomeOf(pou, Params[pou][i], Depth + 1)]
                = [lender |-> Here(args[i]), origin |-> Origin(Here(args[i]))]
<1>1. PICK d, g, home : /\ d = Depth + 1 /\ g = InOuts(pou)
                        /\ home = [i \in g |-> HomeOf(pou, Params[pou][i], d)]
  OBVIOUS
<1>2. LoanOf(pou, args) =
        [l \in {home[i] : i \in g} |->
           [lender |-> Here(args[IndexOf(home, l)]), origin |-> Origin(Here(args[IndexOf(home, l)]))]]
  BY <1>1 DEF LoanOf
<1>3. ASSUME NEW i \in g
      PROVE  LoanOf(pou, args)[HomeOf(pou, Params[pou][i], d)]
               = [lender |-> Here(args[i]), origin |-> Origin(Here(args[i]))]
  <2>1. home[i] = HomeOf(pou, Params[pou][i], d) /\ DOMAIN home = g
    BY <1>1
  <2>2. \A j \in g : home[j] = home[i] => j = i
    BY <1>1, ParametersApart DEF InOuts
  <2>3. IndexOf(home, home[i]) = i
    BY <2>1, <2>2 DEF IndexOf
  <2>4. LoanOf(pou, args)[home[i]] = [lender |-> Here(args[IndexOf(home, home[i])]),
                                      origin |-> Origin(Here(args[IndexOf(home, home[i])]))]
    BY <1>2
  <2> QED
    BY <2>1, <2>3, <2>4
<1>4. DOMAIN LoanOf(pou, args) = {home[i] : i \in g}
  BY <1>2
<1>5. {home[i] : i \in g} = {HomeOf(pou, Params[pou][i], d) : i \in g}
  BY <1>1
<1> QED
  BY <1>1, <1>3, <1>4, <1>5

\* The step itself: as it is when nothing that is lent is used.
LEMMA CallIs ==
  ASSUME RefInv, NEW pou, NEW args, NEW into, CallPou(pou, args, into), ref' # Unlike
  PROVE  /\ ~ref.aliased
         /\ \A i \in DOMAIN args : Read(args[i]) \cap Lent(ref.held) = {}
         /\ \A i, j \in Outputs(pou) : i # j => Here(args[i]) # Here(args[j])
         /\ ref'.mem = Over(Initialised(pou, [i \in DOMAIN args |-> RefVal(args[i])]), ref.mem)
         /\ ref'.held = Over(LoanOf(pou, args), ref.held)
         /\ ref' = [mem |-> ref'.mem, held |-> ref'.held, aliased |-> ref'.aliased]
<1> DEFINE used == UNION {Read(args[i]) : i \in DOMAIN args}
           values == [i \in DOMAIN args |-> RefVal(args[i])]
           new == [mem |-> Over(Initialised(pou, values), ref.mem),
                   held |-> Over(LoanOf(pou, args), ref.held), aliased |-> FALSE]
<1>1. PICK targets : targets = {i \in DOMAIN Params[pou] : Direction[Params[pou][i]] # "in"}
  OBVIOUS
<1>2. ref' = IF \/ ref.aliased
                \/ \E i, j \in targets : i # j /\ Here(args[i]) = Here(args[j])
                \/ used \cap Lent(ref.held) # {}
             THEN Unlike ELSE new
  BY <1>1 DEF CallPou
<1>3. Outputs(pou) = targets
  BY <1>1 DEF Outputs
<1> HIDE DEF new
<1>4. /\ ~ref.aliased /\ used \cap Lent(ref.held) = {} /\ ref' = new
      /\ \A i, j \in targets : i # j => Here(args[i]) # Here(args[j])
  BY <1>2
<1>5. /\ new.mem = Over(Initialised(pou, values), ref.mem)
      /\ new.held = Over(LoanOf(pou, args), ref.held)
      /\ new = [mem |-> new.mem, held |-> new.held, aliased |-> new.aliased]
  BY DEF new
<1> QED
  BY <1>3, <1>4, <1>5

\* The loans of a stack with one more activation.
LEMMA LendingOfCall ==
  ASSUME NEW s, NEW t, IsStack(s), IsStack(t), Len(s) >= 1, Len(t) = Len(s) + 1,
         Alike(s, t, Len(s)), NEW H, Lending(s, H), NEW G, NEW pou, t[Len(t)].pou = pou,
         DOMAIN G = {Home(t, Len(t), i) : i \in InOuts(pou)}, DOMAIN G \cap DOMAIN H = {},
         \A i \in InOuts(pou) : /\ G[Home(t, Len(t), i)].lender = Given(t, Len(t), i)
                                /\ G[Home(t, Len(t), i)].lender \in Known(s, Len(s))
                                /\ G[Home(t, Len(t), i)].origin \in Known(s, Len(s)),
         \A i, j \in Outputs(pou) : i # j => Given(t, Len(t), i) # Given(t, Len(t), j)
  PROVE  Lending(t, Over(G, H))
<1>1. PICK J : J = Over(G, H)
  OBVIOUS
<1>2. DOMAIN J = DOMAIN G \cup DOMAIN H /\ (\A h \in DOMAIN G : J[h] = G[h])
      /\ \A h \in DOMAIN H : J[h] = H[h]
  BY <1>1 DEF Over
<1>3. /\ \A k \in 1..Len(s) : s[k].pou = t[k].pou /\ Known(s, k) = Known(t, k)
      /\ \A k \in 1..Len(s) : \A i : Home(s, k, i) = Home(t, k, i)
      /\ \A k \in 2..Len(s) : \A i : Given(s, k, i) = Given(t, k, i)
  <2>1. \A k \in 1..Len(s) : s[k].pou = t[k].pou
    BY DEF Alike
  <2>2. Len(s) \in Nat
    BY DEF IsStack
  <2>3. /\ \A k \in 1..Len(s) : Known(s, k) = Known(t, k)
        /\ \A k \in 1..Len(s) : \A i : Home(s, k, i) = Home(t, k, i)
        /\ \A k \in 2..Len(s) : \A i : Given(s, k, i) = Given(t, k, i)
    BY <2>2, AlikeStacks
  <2> QED
    BY <2>1, <2>3
<1>4. /\ Len(s) \in Nat /\ Len(t) \in 2..Len(t) /\ Len(t) - 1 = Len(s) /\ Len(s) \in 1..Len(s)
      /\ \A k \in 2..Len(t) :
           \/ k = Len(t)
           \/ k \in 2..Len(s) /\ k \in 1..Len(s) /\ k - 1 \in 1..Len(s)
      /\ \A k \in 2..Len(s) : k \in 2..Len(t) /\ k \in 1..Len(s)
  BY DEF IsStack
<1>5. ASSUME NEW l \in DOMAIN J
      PROVE  \E k \in 2..Len(t) : \E i \in InOuts(t[k].pou) : l = Home(t, k, i)
  <2>1. CASE l \in DOMAIN G
    BY <1>4, <2>1
  <2>2. CASE l \in DOMAIN H
    <3>1. PICK k \in 2..Len(s) : \E i \in InOuts(s[k].pou) : l = Home(s, k, i)
      BY <2>2 DEF Lending
    <3> QED
      BY <1>3, <1>4, <3>1
  <2> QED
    BY <1>2, <2>1, <2>2
<1>6. ASSUME NEW k \in 2..Len(t)
      PROVE  /\ \A i \in InOuts(t[k].pou) :
                  /\ Home(t, k, i) \in DOMAIN J
                  /\ J[Home(t, k, i)].lender = Given(t, k, i)
                  /\ J[Home(t, k, i)].lender \in Known(t, k - 1)
                  /\ J[Home(t, k, i)].origin \in Known(t, k - 1)
             /\ \A i, j \in Outputs(t[k].pou) : i # j => Given(t, k, i) # Given(t, k, j)
  <2>1. CASE k = Len(t)
    <3>1. Known(t, k - 1) = Known(s, Len(s))
      BY <1>3, <1>4, <2>1
    <3>2. \A i \in InOuts(pou) : Home(t, k, i) \in DOMAIN G /\ J[Home(t, k, i)] = G[Home(t, k, i)]
      BY <1>2, <2>1
    <3> QED
      BY <1>2, <2>1, <3>1, <3>2
  <2>2. CASE k # Len(t)
    <3>1. k \in 2..Len(s) /\ k \in 1..Len(s) /\ k - 1 \in 1..Len(s)
      BY <1>4, <2>2
    <3>2. /\ s[k].pou = t[k].pou /\ Known(s, k - 1) = Known(t, k - 1)
          /\ \A i : Home(s, k, i) = Home(t, k, i) /\ Given(s, k, i) = Given(t, k, i)
      BY <1>3, <3>1
    <3>3. \A i \in InOuts(s[k].pou) : Home(s, k, i) \in DOMAIN H
      BY <3>1 DEF Lending
    <3> QED
      BY <1>2, <3>1, <3>2, <3>3 DEF Lending
  <2> QED
    BY <2>1, <2>2
<1> QED
  BY <1>1, <1>5, <1>6 DEF Lending

LEMMA MirrorCalls ==
  ASSUME EvalInv, RefInv, status = "running", NEW pou \in Callees[Running],
         NEW into \in Scope[Running] \cup {NoName}, NEW args \in Arguments(pou),
         CallPou(pou, args, into)
  PROVE  RefInv'
<1>1. PICK s, t, n, D, K, m : /\ s = levels /\ t = levels' /\ n = Len(levels) /\ m = mem
                              /\ D = DOMAIN mem /\ K = NewPlaces(pou, n + 1)
  OBVIOUS
<1>2. levels' = Append(levels, [pou |-> pou, saved |-> ctx, args |-> args, into |-> into,
                                loops |-> 0])
      /\ mem' = Over(Initialised(pou, [i \in DOMAIN args |-> Val(args[i])]), mem)
      /\ status' = status
  BY DEF CallPou
<1>3. /\ Len(t) = n + 1 /\ IsStack(t) /\ Alike(s, t, n) /\ pou \in Functions \cup {Block}
      /\ t[n + 1].pou = pou /\ t[n + 1].args = args /\ t[n + 1].saved = ctx
      /\ t[n].pou = Running /\ levels # <<>>
  BY <1>1, <1>2, StackComes
<1>4. /\ IsStack(s) /\ n \in Nat /\ n >= 1 /\ Depth = n /\ n = Len(s) /\ n \in 1..n
      /\ n + 1 \in 2..Len(t) /\ (n + 1) - 1 = n /\ n + 1 \in 1..Len(t)
  BY <1>1, <1>3, StackNow DEF IsStack
<1>5. /\ Alive(s) \cup K = Alive(t) /\ K \cap Known(s, n) = {}
      /\ Stale(s) \subseteq {HomeOf(pou, Params[pou][i], n + 1) : i \in InOuts(pou)} \cup Stale(t)
  <2>1. /\ IsStack(s) /\ IsStack(t) /\ Len(s) >= 1 /\ Len(t) = Len(s) + 1 /\ Alike(s, t, Len(s))
        /\ pou \in Functions \cup {Block} /\ t[Len(t)].pou = pou
    BY <1>3, <1>4
  <2>2. /\ Alive(s) \cup NewPlaces(pou, Len(t)) = Alive(t)
        /\ NewPlaces(pou, Len(t)) \cap Known(s, Len(s)) = {}
        /\ Stale(s) \subseteq {HomeOf(pou, Params[pou][i], Len(t)) : i \in InOuts(pou)} \cup Stale(t)
    BY ONLY <2>1, PlacesOfCall
  <2> QED
    BY <1>1, <1>3, <1>4, <2>2
<1>6. PICK f : f = Initialised(pou, [i \in DOMAIN args |-> Val(args[i])])
  OBVIOUS
<1>7. /\ DOMAIN f = K
      /\ \A i \in Valued(pou) : f[HomeOf(pou, Params[pou][i], n + 1)] = Val(args[i])
      /\ \A l \in K : (\A i \in Valued(pou) : HomeOf(pou, Params[pou][i], n + 1) # l)
                        => f[l] = Default
  <2>1. \A i \in Valued(pou) : i \in DOMAIN args
    BY DEF Valued, Arguments
  <2> QED
    BY <1>1, <1>3, <1>4, <1>6, <2>1, InitialisedIs
<1>8. DOMAIN mem' = Alive(t) /\ Called(levels')
  <2>1. DOMAIN mem' = K \cup D
    BY <1>1, <1>2, <1>6, <1>7 DEF Over
  <2> QED
    BY <1>1, <1>3, <1>5, <2>1 DEF RefInv, IsStack
<1>9. CASE ref' = Unlike
  BY <1>1, <1>8, <1>9, MirrorGivenUp
<1>10. CASE ref' # Unlike
  <2>1. PICK H, r, g, G, N : /\ H = ref.held /\ r = ref.mem
                             /\ g = Initialised(pou, [i \in DOMAIN args |-> RefVal(args[i])])
                             /\ G = LoanOf(pou, args)
                             /\ N = {HomeOf(pou, Params[pou][i], n + 1) : i \in InOuts(pou)}
    OBVIOUS
  <2>2. /\ ~ref.aliased /\ ref'.mem = Over(g, r) /\ ref'.held = Over(G, H)
        /\ \A i \in DOMAIN args : Read(args[i]) \cap Lent(H) = {}
        /\ \A i, j \in Outputs(pou) : i # j => Here(args[i]) # Here(args[j])
        /\ ref' = [mem |-> ref'.mem, held |-> ref'.held, aliased |-> ref'.aliased]
    BY <1>10, <2>1, CallIs
  <2>3. /\ DOMAIN r = D /\ DOMAIN m = D /\ Lending(s, H) /\ Sound(H, D)
        /\ Agreed(H, D, m, r, Stale(s)) /\ D = Alive(s)
    BY <1>1, <2>1, <2>2 DEF RefInv, Mirrored
  <2>4. /\ DOMAIN g = K
        /\ \A i \in Valued(pou) : g[HomeOf(pou, Params[pou][i], n + 1)] = RefVal(args[i])
        /\ \A l \in K : (\A i \in Valued(pou) : HomeOf(pou, Params[pou][i], n + 1) # l)
                          => g[l] = Default
    <3>1. \A i \in Valued(pou) : i \in DOMAIN args
      BY DEF Valued, Arguments
    <3> QED
      BY <1>1, <1>3, <1>4, <2>1, <3>1, InitialisedIs
  <2>5. /\ DOMAIN G = N
        /\ \A i \in InOuts(pou) : /\ G[HomeOf(pou, Params[pou][i], n + 1)].lender = Here(args[i])
                                  /\ G[HomeOf(pou, Params[pou][i], n + 1)].origin
                                       = OriginIn(H, Here(args[i]))
    <3>1. /\ DOMAIN G = N
          /\ \A i \in InOuts(pou) : G[HomeOf(pou, Params[pou][i], n + 1)]
                = [lender |-> Here(args[i]), origin |-> Origin(Here(args[i]))]
      <4>1. /\ DOMAIN G = {HomeOf(pou, Params[pou][i], Depth + 1) : i \in InOuts(pou)}
            /\ \A i \in InOuts(pou) : G[HomeOf(pou, Params[pou][i], Depth + 1)]
                  = [lender |-> Here(args[i]), origin |-> Origin(Here(args[i]))]
        BY <1>3, <2>1, LoanIs
      <4>2. Depth + 1 = n + 1
        BY <1>4
      <4> QED
        BY <2>1, <4>1, <4>2
    <3>2. \A i : Origin(Here(args[i])) = OriginIn(H, Here(args[i]))
      BY <2>1 DEF Origin, OriginIn
    <3>3. ASSUME NEW i \in InOuts(pou), NEW h, h = HomeOf(pou, Params[pou][i], n + 1)
          PROVE  G[h].lender = Here(args[i]) /\ G[h].origin = OriginIn(H, Here(args[i]))
      <4>1. G[h] = [lender |-> Here(args[i]), origin |-> Origin(Here(args[i]))]
        BY <3>1, <3>3
      <4> QED
        BY <3>2, <4>1
    <3> QED
      BY <3>1, <3>3
  \* What is passed to an output is a variable in sight, which nobody has lent.
  <2>6. ASSUME NEW i \in Outputs(pou)
        PROVE  /\ i \in DOMAIN args /\ args[i] \in Scope[Running] \ Data
               /\ Here(args[i]) = Given(t, n + 1, i) /\ Here(args[i]) \in Known(s, n)
               /\ Here(args[i]) \in D \ (Lent(H) \cup Stale(s))
    <3>1. i \in DOMAIN args /\ args[i] \in Scope[Running] /\ args[i] \notin Data
      BY DEF Outputs, Arguments
    <3>2. args[i] # NoName
      BY <1>1, <1>3, <1>4, <3>1, StackNow, InterpreterAssumption DEF IsStack
    <3>3. Read(args[i]) = {Here(args[i])}
      BY <3>1, <3>2 DEF Read
    <3>4. /\ Here(args[i]) = Found(Running, ctx.instance, n, args[i])
          /\ Here(args[i]) \in Known(s, n) /\ Here(args[i]) \in D /\ Here(args[i]) \notin Stale(s)
      BY <1>1, <1>3, <3>1, NameHere
    <3>5. Given(t, n + 1, i) = Found(Running, ctx.instance, n, args[i])
      BY <1>3, <1>4 DEF Given
    <3> QED
      BY <2>2, <3>1, <3>3, <3>4, <3>5
  <2>7. \A i \in InOuts(pou) : i \in Outputs(pou) /\ i \in Valued(pou)
    BY DEF InOuts, Outputs, Valued
  <2>8. N \subseteq K
    BY <1>1, <2>1, <2>7 DEF NewPlaces
  <2>9. K \cap (DOMAIN H \cup Lent(H)) = {} /\ \A h \in DOMAIN H : H[h].origin \notin K
    <3>1. ASSUME NEW h \in DOMAIN H
          PROVE  h \notin K /\ H[h].lender \notin K /\ H[h].origin \notin K
      <4>1. /\ n >= 2 /\ h \in Known(s, n)
            /\ H[h].lender \in Known(s, n - 1) /\ H[h].origin \in Known(s, n - 1)
        BY <1>4, <2>3, VisibleLoans
      <4>2. n - 1 \in 1..Len(s) /\ n \in 1..Len(s) /\ n - 1 <= n
        BY <1>4, <4>1
      <4>3. Known(s, n - 1) \subseteq Known(s, n)
        BY <1>4, <4>2, KnownPlaces
      <4> QED
        BY <1>5, <4>1, <4>3
    <3> QED
      BY <3>1 DEF Lent
  <2>10. ASSUME NEW i \in InOuts(pou)
         PROVE  OriginIn(H, Here(args[i])) \in Known(s, n)
    <3>1. CASE Here(args[i]) \in DOMAIN H
      <4>1. n >= 2 /\ H[Here(args[i])].origin \in Known(s, n - 1)
        BY <1>4, <2>3, <3>1, VisibleLoans
      <4>2. n - 1 \in 1..Len(s) /\ n \in 1..Len(s) /\ n - 1 <= n
        BY <1>4, <4>1
      <4>3. Known(s, n - 1) \subseteq Known(s, n)
        BY <1>4, <4>2, KnownPlaces
      <4> QED
        BY <3>1, <4>1, <4>3 DEF OriginIn
    <3>2. CASE Here(args[i]) \notin DOMAIN H
      BY <2>6, <2>7, <3>2 DEF OriginIn
    <3> QED
      BY <3>1, <3>2
  <2>11. \A h \in N : /\ G[h].lender \in D \ (K \cup Lent(H) \cup Stale(s))
                      /\ G[h].origin = OriginIn(H, G[h].lender) /\ G[h].origin \notin K
    <3> SUFFICES ASSUME NEW i \in InOuts(pou), NEW h, h = HomeOf(pou, Params[pou][i], n + 1)
                 PROVE  /\ G[h].lender \in D \ (K \cup Lent(H) \cup Stale(s))
                        /\ G[h].origin = OriginIn(H, G[h].lender) /\ G[h].origin \notin K
      BY <2>1
    <3>1. G[h].lender = Here(args[i]) /\ G[h].origin = OriginIn(H, Here(args[i]))
      BY <2>5
    <3>2. Here(args[i]) \in D \ (Lent(H) \cup Stale(s)) /\ Here(args[i]) \in Known(s, n)
      BY <2>6, <2>7
    <3> QED
      BY <1>5, <2>10, <3>1, <3>2
  <2>12. \A x, y \in N : G[x].lender = G[y].lender => x = y
    <3> SUFFICES ASSUME NEW i \in InOuts(pou), NEW j \in InOuts(pou), NEW x, NEW y,
                        x = HomeOf(pou, Params[pou][i], n + 1),
                        y = HomeOf(pou, Params[pou][j], n + 1),
                        G[x].lender = G[y].lender
                 PROVE  x = y
      BY <2>1
    <3>1. G[x].lender = Here(args[i]) /\ G[y].lender = Here(args[j])
      BY <2>5
    <3>2. i = j
      BY <2>2, <2>7, <3>1
    <3> QED
      BY <3>2
  <2>13. Sound(Over(G, H), D \cup K)
    <3>1. \A h \in N : /\ G[h].lender \in D \ (K \cup Lent(H))
                       /\ G[h].origin = OriginIn(H, G[h].lender) /\ G[h].origin \notin K
      BY <2>11
    <3>2. DOMAIN G = N
      BY <2>5
    <3> QED
      BY ONLY <2>3, <2>8, <2>9, <2>12, <3>1, <3>2, LoansOfCall
  <2>14. \A l \in K \ N : f[l] = g[l]
    <3> SUFFICES ASSUME NEW l \in K \ N PROVE f[l] = g[l]
      OBVIOUS
    <3>1. CASE \A i \in Valued(pou) : HomeOf(pou, Params[pou][i], n + 1) # l
      BY <1>7, <2>4, <3>1
    <3>2. ASSUME NEW i \in Valued(pou), HomeOf(pou, Params[pou][i], n + 1) = l
          PROVE  f[l] = g[l]
      <4>1. i \in DOMAIN args /\ args[i] \in Scope[Running] \cup Data
        BY DEF Valued, Arguments
      <4>2. Val(args[i]) = RefVal(args[i])
        BY <2>1, <2>2, <4>1, MirrorsHere
      <4> QED
        BY <1>7, <2>4, <3>2, <4>2
    <3> QED
      BY <3>1, <3>2
  <2>15. \A l \in N : f[l] = m[G[l].lender]
    <3> SUFFICES ASSUME NEW i \in InOuts(pou), NEW l, l = HomeOf(pou, Params[pou][i], n + 1)
                 PROVE  f[l] = m[G[l].lender]
      BY <2>1
    <3>1. f[l] = Val(args[i]) /\ G[l].lender = Here(args[i]) /\ args[i] \notin Data
      BY <1>7, <2>5, <2>6, <2>7
    <3> QED
      BY <1>1, <3>1 DEF Val
  <2>16. Agreed(Over(G, H), D \cup K, Over(f, m), Over(g, r), Stale(t))
    <3>1. PICK S, T : S = Stale(s) /\ T = Stale(t)
      OBVIOUS
    <3>2. Agreed(H, D, m, r, S) /\ Sound(H, D) /\ DOMAIN m = D /\ DOMAIN r = D
      BY <2>3, <3>1
    <3>3. S \subseteq N \cup T
      BY <1>5, <2>1, <3>1
    <3>4. \A h \in N : /\ G[h].lender \in D \ (K \cup Lent(H) \cup S)
                       /\ G[h].origin = OriginIn(H, G[h].lender) /\ G[h].origin \notin K
      BY <2>11, <3>1
    <3>5. DOMAIN G = N /\ DOMAIN f = K /\ DOMAIN g = K
      BY <1>7, <2>4, <2>5
    <3>6. Agreed(Over(G, H), D \cup K, Over(f, m), Over(g, r), T)
      BY ONLY <2>8, <2>9, <2>14, <2>15, <3>2, <3>3, <3>4, <3>5, AgreedOfCall
    <3> QED
      BY <3>1, <3>6
  <2>17. Lending(t, Over(G, H))
    <3>1. \A i : HomeOf(pou, Params[pou][i], n + 1) = Home(t, Len(t), i)
      BY <1>3 DEF Home
    <3>2. DOMAIN G = {Home(t, Len(t), i) : i \in InOuts(pou)} /\ DOMAIN G \cap DOMAIN H = {}
      BY <2>1, <2>5, <2>8, <2>9, <3>1
    <3>3. \A i \in InOuts(pou) : /\ G[Home(t, Len(t), i)].lender = Given(t, Len(t), i)
                                 /\ G[Home(t, Len(t), i)].lender \in Known(s, Len(s))
                                 /\ G[Home(t, Len(t), i)].origin \in Known(s, Len(s))
      BY <1>3, <1>4, <2>5, <2>6, <2>7, <2>10, <3>1
    <3>4. \A i, j \in Outputs(pou) : i # j => Given(t, Len(t), i) # Given(t, Len(t), j)
      BY <1>3, <2>2, <2>6
    <3>5. /\ IsStack(s) /\ IsStack(t) /\ Len(s) >= 1 /\ Len(t) = Len(s) + 1 /\ Alike(s, t, Len(s))
          /\ Lending(s, H) /\ t[Len(t)].pou = pou
      BY <1>3, <1>4, <2>3
    <3> QED
      BY ONLY <3>2, <3>3, <3>4, <3>5, LendingOfCall
  <2>18. DOMAIN Over(g, r) = D \cup K /\ DOMAIN Over(f, m) = D \cup K
    BY <1>7, <2>3, <2>4 DEF Over
  <2>19. Mirrored(t, Over(G, H), Over(f, m), Over(g, r))
    BY <2>13, <2>16, <2>17, <2>18 DEF Mirrored
  <2>20. Mirrored(levels', ref'.held, mem', ref'.mem)
    BY <1>1, <1>2, <1>6, <2>2, <2>19
  <2>21. status' = "running"
    BY <1>2
  <2> QED
    BY <1>1, <1>8, <2>2, <2>20, <2>21 DEF RefInv
<1> QED
  BY <1>9, <1>10

-----------------------------------------------------------------------------
\* A return.
Gave(e, v) == IF e # NoName THEN v ELSE IF Last(frames) # NoName THEN Last(frames) ELSE Default
GaveTo     == Place(Level.into, Level.saved, Depth - 1)

\* What a return takes and gives: the parameters, where the call put them, and the
\* places of the caller.
LEMMA EndsOfReturn ==
  ASSUME EvalInv, RefInv, Len(levels) > 1
  PROVE  /\ \A i \in Outputs(Running) : /\ Target(i) = Given(levels, Len(levels), i)
                                        /\ Target(i) \in Known(levels, Len(levels) - 1)
         /\ \A i \in DOMAIN Params[Running] : Here(Params[Running][i]) = Home(levels, Len(levels), i)
         /\ Level.into # NoName => GaveTo \in Known(levels, Len(levels) - 1)
<1>1. levels # <<>>
  BY EmptySeq
<1>2. PICK t, n, c : t = levels /\ n = Len(levels) /\ c = levels[Len(levels)].saved
  OBVIOUS
<1>3. /\ IsStack(t) /\ n \in Nat /\ n > 1 /\ Depth = n /\ Running = t[n].pou /\ Level = t[n]
      /\ Innermost({Program, Block}, t, n, ctx.instance)
      /\ n \in 1..n /\ n \in 2..n /\ n - 1 \in 1..n /\ Len(t) = n /\ c = t[n].saved
  BY <1>1, <1>2, StackNow, Newest DEF IsStack
<1>4. Innermost({Program, Block}, t, n - 1, c.instance)
  BY <1>1, <1>2, <1>3, StackNow
<1>5. \A x : Place(x, c, n - 1) = Found(t[n - 1].pou, c.instance, n - 1, x)
  BY <1>2, <1>3, PlaceIsFound DEF RefInv
<1>6. \A x : Here(x) = Found(Running, ctx.instance, n, x)
  BY <1>2, <1>3, PlaceIsFound DEF RefInv, Here
<1>7. \A x \in Scope[t[n - 1].pou] : Place(x, c, n - 1) \in Known(t, n - 1)
  BY <1>3, <1>4, <1>5, FoundIsKnown
<1>8. /\ \A i \in Outputs(t[n].pou) : t[n].args[i] \in Scope[t[n - 1].pou]
      /\ t[n].into \in Scope[t[n - 1].pou] \cup {NoName}
  BY <1>3 DEF IsStack, Called
<1>9. ASSUME NEW i \in Outputs(Running)
      PROVE  Target(i) = Given(t, n, i) /\ Target(i) \in Known(t, n - 1)
  <2>1. Target(i) = Place(t[n].args[i], c, n - 1)
    BY <1>3 DEF Target
  <2>2. Given(t, n, i) = Found(t[n - 1].pou, c.instance, n - 1, t[n].args[i])
    BY <1>3 DEF Given
  <2> QED
    BY <1>3, <1>5, <1>7, <1>8, <2>1, <2>2
<1>10. ASSUME NEW i \in DOMAIN Params[Running]
       PROVE  Here(Params[Running][i]) = Home(t, n, i)
  <2>1. PICK p, pou : p = Params[Running][i] /\ pou = Running
    OBVIOUS
  <2>2. pou \in Functions \cup {Block} /\ p \in ParamsOf(pou)
    BY <1>3, <2>1, KnownPlaces
  <2>3. Home(t, n, i) = HomeOf(pou, p, n)
    BY <1>3, <2>1 DEF Home
  <2>4. CASE pou = Block
    <3>1. p \in Members[Block] /\ p \notin LocalsOf(Block) /\ Block # NoName
      BY <2>2, <2>4, InterpreterAssumption DEF LocalsOf, Pous
    <3>2. ctx.instance = Block
      <4>1. t[n].pou = Block
        BY <1>3, <2>1, <2>4
      <4>2. PICK j \in 1..n : /\ ctx.instance = t[j].pou
                              /\ \A h \in (j + 1)..n : t[h].pou \notin {Program, Block}
        BY <1>3, <4>1 DEF Innermost
      <4>3. j = n
        <5>1. n \in (j + 1)..n \/ j = n
          BY <1>3
        <5> QED
          BY <4>1, <4>2, <5>1
      <4> QED
        BY <4>1, <4>2, <4>3
    <3> QED
      BY <1>6, <2>1, <2>3, <2>4, <3>1, <3>2 DEF Found, HomeOf
  <2>5. CASE pou # Block
    <3>1. p \in LocalsOf(pou)
      BY <2>2, <2>5 DEF LocalsOf
    <3> QED
      BY <1>6, <2>1, <2>3, <2>5, <3>1 DEF Found, HomeOf
  <2> QED
    BY <1>2, <2>4, <2>5
<1>11. ASSUME Level.into # NoName
       PROVE  GaveTo \in Known(t, n - 1)
  <2>1. GaveTo = Place(t[n].into, c, n - 1)
    BY <1>3 DEF GaveTo
  <2>2. t[n].into \in Scope[t[n - 1].pou]
    BY <1>3, <1>8, <1>11
  <2> QED
    BY <1>7, <2>1, <2>2
<1> QED
  BY <1>2, <1>9, <1>10, <1>11

\* The loans of a stack without its newest activation, and the places at which
\* memory and references need not agree any more.
GivesBack(t, H, R, J) ==
  /\ R = {Home(t, Len(t), i) : i \in InOuts(t[Len(t)].pou)}
  /\ J = Restrict(H, DOMAIN H \ R)

LEMMA LendingOfReturn ==
  ASSUME NEW s, NEW t, IsStack(t), Len(s) \in Nat, Len(s) >= 1, Len(t) = Len(s) + 1,
         Alike(s, t, Len(s)), NEW H, Lending(t, H), NEW R, NEW J, GivesBack(t, H, R, J)
  PROVE  /\ Lending(s, J) /\ R \subseteq DOMAIN H /\ R \cap Lent(H) = {}
         /\ \A h \in DOMAIN J : /\ h \in Known(t, Len(s)) /\ H[h].lender \in Known(t, Len(s))
                                /\ H[h].origin \in Known(t, Len(s))
<1> USE DEF GivesBack
<1>1. PICK n : n = Len(s)
  OBVIOUS
<1>2. /\ n \in Nat /\ n >= 1 /\ Len(t) = n + 1 /\ n + 1 \in 2..Len(t) /\ (n + 1) - 1 = n
      /\ n \in 1..Len(t) /\ n \in 1..Len(s)
      /\ \A k \in 2..Len(t) : k = n + 1 \/ k \in 2..n
      /\ \A k \in 2..n : /\ k \in 2..Len(t) /\ k \in 1..Len(s) /\ k - 1 \in 1..Len(s)
                         /\ k \in 1..Len(t) /\ k - 1 \in 1..Len(t) /\ k <= n /\ k - 1 <= n
                         /\ k # n + 1
  BY <1>1
<1>3. DOMAIN J = DOMAIN H \ R /\ \A h \in DOMAIN J : J[h] = H[h]
  BY DEF Restrict
<1>4. /\ \A k \in 1..n : s[k].pou = t[k].pou /\ Known(s, k) = Known(t, k)
      /\ \A k \in 1..n : \A i : Home(s, k, i) = Home(t, k, i)
      /\ \A k \in 2..n : \A i : Given(s, k, i) = Given(t, k, i)
  <2>1. \A k \in 1..n : s[k].pou = t[k].pou
    BY <1>1 DEF Alike
  <2>2. /\ \A k \in 1..Len(s) : Known(s, k) = Known(t, k)
        /\ \A k \in 1..Len(s) : \A i : Home(s, k, i) = Home(t, k, i)
        /\ \A k \in 2..Len(s) : \A i : Given(s, k, i) = Given(t, k, i)
    BY AlikeStacks
  <2> QED
    BY <1>1, <2>1, <2>2
<1>5. ASSUME NEW h \in DOMAIN J
      PROVE  \E k \in 2..n : \E i \in InOuts(t[k].pou) : h = Home(t, k, i)
  <2>1. PICK k \in 2..Len(t) : \E i \in InOuts(t[k].pou) : h = Home(t, k, i)
    BY <1>3 DEF Lending
  <2>2. k # n + 1
    BY <1>2, <1>3, <2>1
  <2> QED
    BY <1>2, <2>1, <2>2
<1>6. ASSUME NEW k \in 2..n, NEW i \in InOuts(t[k].pou)
      PROVE  Home(t, k, i) \in DOMAIN J
  <2>1. Home(t, k, i) \in DOMAIN H
    BY <1>2 DEF Lending
  <2>2. Home(t, k, i) \notin R
    <3> SUFFICES ASSUME NEW j \in InOuts(t[n + 1].pou), Home(t, k, i) = Home(t, n + 1, j)
                 PROVE  FALSE
      BY <1>2
    <3>1. i \in DOMAIN Params[t[k].pou] /\ j \in DOMAIN Params[t[n + 1].pou]
      BY DEF InOuts
    <3>2. k = n + 1
      BY <1>2, <3>1, HomesDiffer
    <3> QED
      BY <1>2, <3>2
  <2> QED
    BY <1>3, <2>1, <2>2
<1>7. Lending(s, J)
  <2>1. \A h \in DOMAIN J : \E k \in 2..Len(s) : \E i \in InOuts(s[k].pou) : h = Home(s, k, i)
    BY <1>1, <1>2, <1>4, <1>5
  <2>2. ASSUME NEW k \in 2..Len(s)
        PROVE  /\ \A i \in InOuts(s[k].pou) :
                    /\ Home(s, k, i) \in DOMAIN J
                    /\ J[Home(s, k, i)].lender = Given(s, k, i)
                    /\ J[Home(s, k, i)].lender \in Known(s, k - 1)
                    /\ J[Home(s, k, i)].origin \in Known(s, k - 1)
               /\ \A i, j \in Outputs(s[k].pou) : i # j => Given(s, k, i) # Given(s, k, j)
    <3>1. /\ s[k].pou = t[k].pou /\ Known(s, k - 1) = Known(t, k - 1) /\ k \in 2..n
          /\ \A i : Home(s, k, i) = Home(t, k, i) /\ Given(s, k, i) = Given(t, k, i)
          /\ k \in 2..Len(t)
      BY <1>1, <1>2, <1>4
    <3>2. \A i \in InOuts(t[k].pou) : J[Home(t, k, i)] = H[Home(t, k, i)]
      BY <1>3, <1>6, <3>1
    <3> QED
      BY <1>6, <3>1, <3>2 DEF Lending
  <2> QED
    BY <2>1, <2>2 DEF Lending
<1>8. R \subseteq DOMAIN H
  BY <1>2 DEF Lending
<1>9. R \cap Lent(H) = {}
  <2> SUFFICES ASSUME NEW i \in InOuts(t[n + 1].pou), NEW h \in DOMAIN H,
                      Home(t, n + 1, i) = H[h].lender
               PROVE  FALSE
    BY <1>2 DEF Lent
  <2>1. H[h].lender \in Known(t, n)
    BY <1>2, VisibleLoans
  <2>2. i \in DOMAIN Params[t[n + 1].pou]
    BY DEF InOuts
  <2>3. Home(t, n + 1, i) \notin Known(t, (n + 1) - 1)
    BY <1>2, <2>2, KnownPlaces
  <2> QED
    BY <1>2, <2>1, <2>3
<1>10. ASSUME NEW h \in DOMAIN J
       PROVE  h \in Known(t, n) /\ H[h].lender \in Known(t, n) /\ H[h].origin \in Known(t, n)
  <2>1. PICK k \in 2..n : \E i \in InOuts(t[k].pou) : h = Home(t, k, i)
    BY <1>5
  <2>2. PICK i \in InOuts(t[k].pou) : h = Home(t, k, i)
    BY <2>1
  <2>3. h \in Known(t, k)
    BY <1>2, <2>2, KnownPlaces DEF InOuts
  <2>4. H[h].lender \in Known(t, k - 1) /\ H[h].origin \in Known(t, k - 1)
    BY <1>2, <2>2 DEF Lending
  <2>5. Known(t, k) \subseteq Known(t, n) /\ Known(t, k - 1) \subseteq Known(t, n)
    BY <1>2, KnownPlaces
  <2> QED
    BY <2>3, <2>4, <2>5
<1> QED
  BY <1>1, <1>7, <1>8, <1>9, <1>10

LEMMA StaleAfterReturn ==
  ASSUME NEW s, NEW t, IsStack(t), Len(s) \in Nat, Len(s) >= 1, Len(t) = Len(s) + 1,
         Alike(s, t, Len(s))
  PROVE  /\ Stale(t) \subseteq Stale(s) /\ Known(t, Len(s)) \subseteq Alive(s)
         /\ \A i \in InOuts(t[Len(t)].pou) :
              Home(t, Len(t), i) \in Alive(s) => Home(t, Len(t), i) \in Stale(s)
<1>1. PICK n : n = Len(s)
  OBVIOUS
<1>2. /\ n \in Nat /\ n >= 1 /\ Len(t) = n + 1 /\ n + 1 \in 2..Len(t) /\ (n + 1) - 1 = n
      /\ n \in 1..Len(t) /\ n \in 1..Len(s) /\ n + 1 \in 1..Len(t) /\ n <= n + 1
  BY <1>1
<1>3. Known(s, n) = Known(t, n) /\ \A j \in 1..n : s[j].pou = t[j].pou
  BY <1>1, <1>2, AlikeStacks DEF Alike
<1>4. Stale(t) \subseteq Stale(s)
  <2>1. Known(t, n) \subseteq Known(t, n + 1)
    BY <1>2, KnownPlaces
  <2> QED
    BY <1>1, <1>2, <1>3, <2>1 DEF Stale
<1>5. Known(t, n) \subseteq Alive(s)
  BY <1>1, <1>3 DEF Known, Alive
<1>6. ASSUME NEW i \in InOuts(t[n + 1].pou), Home(t, n + 1, i) \in Alive(s)
      PROVE  Home(t, n + 1, i) \in Stale(s)
  <2>1. PICK p : p = Params[t[n + 1].pou][i]
    OBVIOUS
  <2>2. /\ i \in DOMAIN Params[t[n + 1].pou] /\ Direction[p] = "inout"
        /\ Home(t, n + 1, i) = HomeOf(t[n + 1].pou, p, n + 1)
    BY <2>1 DEF InOuts, Home
  <2>3. Home(t, n + 1, i) \notin Known(t, n) /\ p \in ParamsOf(t[n + 1].pou)
    BY <1>2, <2>1, <2>2, KnownPlaces
  <2>4. CASE t[n + 1].pou = Block
    BY <1>1, <1>3, <2>2, <2>3, <2>4 DEF Stale, HomeOf, InOutsOf
  <2>5. CASE t[n + 1].pou # Block
    <3>1. Home(t, n + 1, i) = <<"local", n + 1, p>>
      BY <2>2, <2>5 DEF HomeOf
    <3>2. Home(t, n + 1, i) \notin Lasting
          /\ \A j \in 1..n : Home(t, n + 1, i) \notin Locals(s[j].pou, j)
      BY <1>2, <3>1, LocalPlaces
    <3> QED
      BY <1>1, <1>6, <3>2 DEF Alive
  <2> QED
    BY <2>4, <2>5
<1> QED
  BY <1>1, <1>2, <1>4, <1>5, <1>6

LEMMA MirrorReturns ==
  ASSUME EvalInv, RefInv, NEW e \in Scope[Running] \cup Data \cup {NoName}, Return(e)
  PROVE  RefInv'
<1>1. PICK at, from, outs, R, J :
        /\ at = [i \in Outputs(Running) |-> Target(i)]
        /\ from = [i \in Outputs(Running) |-> Here(Params[Running][i])]
        /\ outs = {i \in Outputs(Running) : Direction[Params[Running][i]] = "out"}
        /\ R = {Here(p) : p \in InOutsOf(Running)}
        /\ J = Restrict(ref.held, DOMAIN ref.held \ R)
  OBVIOUS
<1>2. PICK cm, cr, p, q :
        /\ cm = CopiedOut(mem, at, [i \in DOMAIN at |-> mem[from[i]]])
        /\ cr = CopiedOut(ref.mem, [i \in outs |-> OriginIn(J, at[i])],
                          [i \in outs |-> ref.mem[from[i]]])
        /\ p = Popped(cm, Depth) /\ q = Popped(cr, Depth)
  OBVIOUS
<1>3. /\ status = "running" /\ status' = "running" /\ Len(levels) > 1 /\ levels' = Front(levels)
      /\ mem' = IF Level.into = NoName THEN p ELSE [p EXCEPT ![GaveTo] = Gave(e, Val(e))]
      /\ ref' # Unlike =>
           /\ ~ref.aliased /\ Read(e) \cap Lent(ref.held) = {}
           /\ \A i \in outs : at[i] \notin Lent(J)
           /\ Level.into # NoName => GaveTo \notin Lent(J)
           /\ ref'.held = J
           /\ ref'.mem = IF Level.into = NoName THEN q
                         ELSE [q EXCEPT ![OriginIn(J, GaveTo)] = Gave(e, RefVal(e))]
           /\ ref' = [mem |-> ref'.mem, held |-> ref'.held, aliased |-> ref'.aliased]
  <2>1. status = "running" /\ status' = "running" /\ Len(levels) > 1 /\ levels' = Front(levels)
    BY DEF Return
  <2>2. mem' = IF Level.into = NoName THEN p ELSE [p EXCEPT ![GaveTo] = Gave(e, Val(e))]
    BY <1>1, <1>2 DEF Return, Gave, GaveTo
  <2>3. PICK new : new = [mem |-> IF Level.into = NoName THEN q
                                  ELSE [q EXCEPT ![OriginIn(J, GaveTo)] = Gave(e, RefVal(e))],
                          held |-> J, aliased |-> FALSE]
    OBVIOUS
  <2>4. PICK used : used = {at[i] : i \in outs} \cup (IF Level.into = NoName THEN {} ELSE {GaveTo})
    OBVIOUS
  <2>5. ref' = IF ref.aliased \/ Read(e) \cap Lent(ref.held) # {} THEN Unlike
               ELSE Faithful(new, used)
    BY <1>1, <1>2, <2>3, <2>4 DEF Return, Gave, GaveTo, OriginIn
  <2>6. ASSUME ref' # Unlike
        PROVE  /\ ~ref.aliased /\ Read(e) \cap Lent(ref.held) = {}
               /\ used \cap Lent(new.held) = {} /\ ref' = new
    BY <2>5, <2>6 DEF Faithful
  <2>7. /\ new.held = J
        /\ new.mem = IF Level.into = NoName THEN q
                     ELSE [q EXCEPT ![OriginIn(J, GaveTo)] = Gave(e, RefVal(e))]
        /\ new = [mem |-> new.mem, held |-> new.held, aliased |-> new.aliased]
    BY <2>3
  <2> HIDE <2>5
  <2> QED
    BY <2>1, <2>2, <2>4, <2>6, <2>7
<1>4. PICK s, t, n, D, E, S, T, m, I :
        /\ s = levels' /\ t = levels /\ n = Len(levels) /\ D = DOMAIN mem /\ E = Alive(levels')
        /\ S = Stale(levels) /\ T = Stale(levels') /\ m = mem /\ I = Outputs(Running)
  OBVIOUS
<1>5. /\ Len(s) = n - 1 /\ Len(s) \in Nat /\ levels # <<>> /\ Alike(s, t, Len(s)) /\ Called(s)
  BY <1>3, <1>4, StackGoes
<1>6. /\ IsStack(t) /\ n \in Nat /\ n > 1 /\ Len(t) = n /\ Running = t[n].pou /\ Len(s) >= 1
      /\ Len(t) = Len(s) + 1 /\ D = Alive(t) /\ Depth = n
  BY <1>3, <1>4, <1>5, StackNow DEF IsStack, RefInv
<1>7. /\ \A i \in I : at[i] = Given(t, n, i) /\ at[i] \in Known(t, n - 1)
      /\ \A i \in I : i \in DOMAIN Params[Running] /\ from[i] = Home(t, n, i)
      /\ Level.into # NoName => GaveTo \in Known(t, n - 1)
      /\ \A i \in DOMAIN Params[Running] : Here(Params[Running][i]) = Home(t, n, i)
  <2>1. \A i \in I : at[i] = Target(i) /\ from[i] = Here(Params[Running][i])
    BY <1>1, <1>4
  <2>2. \A i \in I : i \in DOMAIN Params[Running]
    BY <1>4 DEF Outputs
  <2> QED
    BY <1>3, <1>4, <2>1, <2>2, EndsOfReturn
<1>8. /\ S \subseteq T /\ Known(t, n - 1) \subseteq E
      /\ \A i \in InOuts(Running) : Home(t, n, i) \in E => Home(t, n, i) \in T
  BY <1>4, <1>5, <1>6, StaleAfterReturn
<1>9. DOMAIN cm = D
  BY <1>2, <1>4 DEF CopiedOut
<1>10. DOMAIN p = E /\ \A l \in E : l \in D /\ p[l] = cm[l]
  BY <1>2, <1>3, <1>4, <1>9, PlacesLeft
<1>11. DOMAIN mem' = E
  <2>1. CASE Level.into = NoName
    BY <1>3, <1>10, <2>1
  <2>2. CASE Level.into # NoName
    BY <1>3, <1>10, <2>2
  <2> QED
    BY <2>1, <2>2
<1>12. CASE ref' = Unlike
  BY <1>4, <1>5, <1>11, <1>12, MirrorGivenUp
<1>13. CASE ref' # Unlike
  <2>1. PICK H, r : H = ref.held /\ r = ref.mem
    OBVIOUS
  <2>2. /\ Lending(t, H) /\ Sound(H, D) /\ Agreed(H, D, m, r, S) /\ DOMAIN m = D /\ DOMAIN r = D
    BY <1>3, <1>4, <1>13, <2>1 DEF RefInv, Mirrored
  <2>3. /\ I \ outs = InOuts(Running) /\ outs \subseteq I /\ I \subseteq Nat
        /\ \A i \in outs : Direction[Params[Running][i]] = "out"
    <3>1. Running \in Functions \cup {Block}
      <4>1. n \in 2..Len(t)
        BY <1>6
      <4>2. t[n].pou \in Callees[t[n - 1].pou] /\ t[n].pou \in Pous /\ t[n - 1].pou \in Pous
        BY <1>6, <4>1 DEF IsStack, Called
      <4> QED
        BY <1>6, <4>2, InterpreterAssumption DEF Pous
    <3>2. Running \in Pous \ {Program}
      BY <3>1, InterpreterAssumption DEF Pous
    <3>3. /\ \A x \in ParamsOf(Running) : Direction[x] \in {"in", "out", "inout"}
          /\ \A i \in DOMAIN Params[Running] : Params[Running][i] \in ParamsOf(Running)
      BY <3>2, InterpreterAssumption DEF ParamsOf
    <3>4. DOMAIN Params[Running] \subseteq Nat
      <4>1. Params[Running] \in Seq(Scope[Running])
        BY <3>2, InterpreterAssumption
      <4> QED
        BY <4>1, LenProperties
    <3> QED
      BY <1>1, <1>4, <3>3, <3>4 DEF InOuts, Outputs
  <2>4. R = {Home(t, n, i) : i \in InOuts(Running)}
    <3>1. R = {Here(Params[Running][i]) : i \in InOuts(Running)}
      BY <1>1 DEF InOutsOf, InOuts, ParamsOf
    <3>2. \A i \in InOuts(Running) : Here(Params[Running][i]) = Home(t, n, i)
      BY <1>7 DEF InOuts
    <3> QED
      BY <3>1, <3>2
  <2>5. J = Restrict(H, DOMAIN H \ R) /\ DOMAIN J = DOMAIN H \ R /\ \A h \in DOMAIN J : J[h] = H[h]
    BY <1>1, <2>1 DEF Restrict
  <2>6. /\ Lending(s, J) /\ R \subseteq DOMAIN H /\ R \cap Lent(H) = {}
        /\ \A h \in DOMAIN J : /\ h \in Known(t, n - 1) /\ H[h].lender \in Known(t, n - 1)
                               /\ H[h].origin \in Known(t, n - 1)
    <3>1. GivesBack(t, H, R, J)
      BY <1>6, <2>4, <2>5 DEF GivesBack
    <3>2. /\ Lending(s, J) /\ R \subseteq DOMAIN H /\ R \cap Lent(H) = {}
          /\ \A h \in DOMAIN J : /\ h \in Known(t, Len(s)) /\ H[h].lender \in Known(t, Len(s))
                                 /\ H[h].origin \in Known(t, Len(s))
      BY ONLY <1>5, <1>6, <2>2, <3>1, LendingOfReturn
    <3> QED
      BY <1>5, <3>2
  <2>7. Sound(J, E)
    <3>1. \A h \in DOMAIN J : h \in E /\ H[h].lender \in E /\ H[h].origin \in E
      BY <1>8, <2>6
    <3>2. E \subseteq D
      BY <1>10
    <3> QED
      BY ONLY <2>2, <2>5, <2>6, <3>1, <3>2, LoansOfReturn
  \* What is copied: from where a parameter is to where nobody else writes.
  <2>8. \A i \in I : from[i] \in D \ (Lent(H) \cup S)
    <3> TAKE i \in I
    <3>1. n \in 2..Len(t) /\ n \in 1..Len(t) /\ n - 1 \in 1..Len(t) /\ n - 1 <= n
      BY <1>6
    <3>2. Home(t, n, i) \in Known(t, n) /\ Home(t, n, i) \notin Known(t, n - 1)
      BY <1>6, <1>7, <3>1, KnownPlaces
    <3>3. Known(t, n) \subseteq D
      BY <1>6, <3>1, KnownPlaces
    <3>4. Home(t, n, i) \notin Lent(H)
      <4>1. \A h \in DOMAIN H : H[h].lender \in Known(t, n - 1)
        BY <1>6, <2>2, VisibleLoans
      <4> QED
        BY <3>2, <4>1 DEF Lent
    <3>5. Home(t, n, i) \notin S
      BY <1>4, <3>2 DEF Stale
    <3> QED
      BY <1>7, <3>2, <3>3, <3>4, <3>5
  <2>9. \A i \in I \ outs : from[i] \in R /\ at[i] = H[from[i]].lender
    <3> TAKE i \in I \ outs
    <3>1. i \in InOuts(t[n].pou) /\ n \in 2..Len(t)
      BY <1>6, <2>3
    <3>2. H[Home(t, n, i)].lender = Given(t, n, i)
      BY <2>2, <3>1 DEF Lending
    <3> QED
      BY <1>6, <1>7, <2>4, <3>1, <3>2
  <2>10. R = {from[i] : i \in I \ outs}
    BY <1>7, <2>3, <2>4
  <2>11. \A i \in outs : from[i] \notin DOMAIN H /\ at[i] \in E \ Lent(J)
    <3> TAKE i \in outs
    <3>1. i \in I /\ at[i] \in E \ Lent(J)
      BY <1>3, <1>7, <1>8, <1>13, <2>3
    <3>2. ASSUME from[i] \in DOMAIN H
          PROVE  FALSE
      <4>1. PICK k \in 2..Len(t) : \E j \in InOuts(t[k].pou) : from[i] = Home(t, k, j)
        BY <2>2, <3>2 DEF Lending
      <4>2. PICK j \in InOuts(t[k].pou) : from[i] = Home(t, k, j)
        BY <4>1
      <4>3. n \in 2..Len(t) /\ i \in DOMAIN Params[t[n].pou] /\ j \in DOMAIN Params[t[k].pou]
            /\ Home(t, n, i) = Home(t, k, j)
        BY <1>6, <1>7, <3>1, <4>2 DEF InOuts
      <4>4. k = n /\ i = j
        BY <1>6, <4>3, HomesDiffer
      <4> QED
        BY <1>6, <2>3, <4>2, <4>4 DEF InOuts
    <3> QED
      BY <3>1, <3>2
  <2>12. \A i, j \in I : at[i] = at[j] => i = j
    <3>1. n \in 2..Len(t)
      BY <1>6
    <3>2. \A i, j \in Outputs(t[n].pou) : i # j => Given(t, n, i) # Given(t, n, j)
      BY <2>2, <3>1 DEF Lending
    <3> QED
      BY <1>4, <1>6, <1>7, <3>2
  <2>13. /\ \A i \in I : p[at[i]] = m[from[i]]
         /\ \A l \in E : (\A i \in I : at[i] # l) => p[l] = m[l]
    <3>1. PICK v : v = [i \in DOMAIN at |-> mem[from[i]]]
      OBVIOUS
    <3>2. DOMAIN at = I /\ cm = CopiedOut(m, at, v) /\ \A i \in I : v[i] = m[from[i]]
      BY <1>1, <1>2, <1>4, <3>1
    <3>3. DOMAIN at \subseteq Nat /\ \A i, j \in DOMAIN at : at[i] = at[j] => i = j
      BY <2>3, <2>12, <3>2
    <3>4. /\ \A i \in DOMAIN at : at[i] \in DOMAIN m => CopiedOut(m, at, v)[at[i]] = v[i]
          /\ \A l \in DOMAIN m : (\A i \in DOMAIN at : at[i] # l) => CopiedOut(m, at, v)[l] = m[l]
      BY ONLY <3>3, CopiedOnce
    <3>5. \A i \in I : at[i] \in E
      BY <1>7, <1>8
    <3> QED
      BY <1>10, <2>2, <3>2, <3>4, <3>5
  <2>14. /\ \A i \in outs : q[OriginIn(J, at[i])] = r[from[i]]
         /\ \A l \in E : (\A i \in outs : OriginIn(J, at[i]) # l) => q[l] = r[l]
         /\ DOMAIN q = E
    <3>1. PICK a, v : a = [i \in outs |-> OriginIn(J, at[i])] /\ v = [i \in outs |-> ref.mem[from[i]]]
      OBVIOUS
    <3>2. DOMAIN a = outs /\ cr = CopiedOut(r, a, v) /\ \A i \in outs : v[i] = r[from[i]]
      BY <1>2, <2>1, <3>1
    <3>3. \A i \in outs : a[i] \in E
      BY <2>7, <2>11, <3>1 DEF OriginIn, Sound
    <3>4. DOMAIN a \subseteq Nat /\ \A i, j \in DOMAIN a : a[i] = a[j] => i = j
      <4>1. ASSUME NEW i \in outs, NEW j \in outs, a[i] = a[j]
            PROVE  i = j
        <5>1. OriginIn(J, at[i]) = OriginIn(J, at[j])
          BY <3>1, <4>1
        <5>2. at[i] = at[j]
          BY <2>7, <2>11, <5>1 DEF Sound
        <5> QED
          BY <2>3, <2>12, <5>2
      <4> QED
        BY <2>3, <3>2, <4>1
    <3>5. /\ DOMAIN CopiedOut(r, a, v) = DOMAIN r
          /\ \A i \in DOMAIN a : a[i] \in DOMAIN r => CopiedOut(r, a, v)[a[i]] = v[i]
          /\ \A l \in DOMAIN r : (\A i \in DOMAIN a : a[i] # l) => CopiedOut(r, a, v)[l] = r[l]
      BY ONLY <3>4, CopiedOnce
    <3>6. DOMAIN q = E /\ \A l \in E : l \in D /\ q[l] = cr[l]
      <4>1. DOMAIN cr = DOMAIN mem
        BY <1>4, <2>2, <3>2, <3>5
      <4> QED
        BY <1>2, <1>3, <1>4, <4>1, PlacesLeft
    <3>7. \A i \in outs : q[a[i]] = r[from[i]]
      BY <2>2, <3>2, <3>3, <3>5, <3>6
    <3>8. \A l \in E : (\A i \in outs : a[i] # l) => q[l] = r[l]
      BY <2>2, <3>2, <3>5, <3>6
    <3>9. \A i \in outs : a[i] = OriginIn(J, at[i])
      BY <3>1
    <3> QED
      BY <3>6, <3>7, <3>8, <3>9
  <2>15. Agreed(J, E, p, q, T)
    <3>1. R \cap E \subseteq T /\ E \subseteq D /\ S \subseteq T
      BY <1>8, <1>10, <2>4
    <3>2. CopiesOut(H, D, R, J, E, S, T, m, r, I, outs, at, from, p, q)
      BY ONLY <2>2, <2>3, <2>5, <2>6, <2>7, <2>8, <2>9, <2>10, <2>11, <2>12, <2>13, <2>14, <3>1
         DEF CopiesOut
    <3> QED
      BY ONLY <3>2, AgreedOfReturn
  \* The result, if there is one, is a value both agree about, for a place nobody
  \* has lent.
  <2>16. Agreed(J, E, mem', ref'.mem, T) /\ DOMAIN ref'.mem = E
    <3>1. CASE Level.into = NoName
      BY <1>3, <1>13, <2>14, <2>15, <3>1
    <3>2. CASE Level.into # NoName
      <4>1. Gave(e, Val(e)) = Gave(e, RefVal(e))
        <5>1. CASE e = NoName
          BY <5>1 DEF Gave
        <5>2. CASE e # NoName
          <6>1. e \in Scope[Running] \cup Data
            BY <5>2
          <6>2. Val(e) = RefVal(e)
            BY <1>3, <1>13, <6>1, MirrorsHere
          <6> QED
            BY <6>2 DEF Gave
        <5> QED
          BY <5>1, <5>2
      <4>2. PICK x, v : x = GaveTo /\ v = Gave(e, Val(e))
        OBVIOUS
      <4>3. x \in E \ Lent(J)
        BY <1>3, <1>7, <1>8, <1>13, <3>2, <4>2
      <4>4. /\ mem' = [p EXCEPT ![x] = v] /\ ref'.mem = [q EXCEPT ![OriginIn(J, x)] = v]
        BY <1>3, <1>13, <3>2, <4>1, <4>2
      <4>5. Agreed(J, E, [p EXCEPT ![x] = v], [q EXCEPT ![OriginIn(J, x)] = v], T)
        <5>1. DOMAIN p = E /\ DOMAIN q = E
          BY <1>10, <2>14
        <5> QED
          BY ONLY <2>7, <2>15, <4>3, <5>1, AgreedOfWrite
      <4>6. DOMAIN [q EXCEPT ![OriginIn(J, x)] = v] = DOMAIN q
        OBVIOUS
      <4> QED
        BY <2>14, <4>4, <4>5, <4>6
    <3> QED
      BY <3>1, <3>2
  <2>17. Mirrored(levels', ref'.held, mem', ref'.mem)
    <3>1. Mirrored(s, J, mem', ref'.mem)
      BY <1>4, <1>11, <2>6, <2>7, <2>16 DEF Mirrored
    <3> QED
      BY <1>3, <1>4, <1>13, <3>1
  <2> QED
    BY <1>3, <1>4, <1>5, <1>11, <1>13, <2>17 DEF RefInv
<1> QED
  BY <1>12, <1>13

-----------------------------------------------------------------------------
LEMMA MirrorAtStart == EvalInit => RefInv
<1> SUFFICES ASSUME EvalInit
             PROVE  RefInv
  OBVIOUS
<1>1. levels = <<>> /\ Len(levels) = 0 /\ mem = Fresh /\ status = "done"
      /\ ref = [mem |-> Fresh, held |-> <<>>, aliased |-> FALSE]
  BY DEF EvalInit
<1>2. DOMAIN mem = Alive(levels)
  BY <1>1, OnlyLasting DEF Fresh
<1>3. Called(levels)
  BY <1>1 DEF Called
<1> QED
  BY <1>1, <1>2, <1>3 DEF RefInv

LEMMA MirrorStep == EvalInv /\ RefInv /\ [EvalNext]_evalVars => RefInv'
<1> SUFFICES ASSUME EvalInv, RefInv, [EvalNext]_evalVars
             PROVE  RefInv'
  OBVIOUS
<1>1. CASE execute_program
  BY <1>1, MirrorBegins DEF execute_program
<1>2. CASE execute_function_block_ref
  <2>1. CASE Execute(Block)
    BY <2>1, MirrorBegins
  <2>2. CASE status' = "faulted" /\ UNCHANGED <<mem, levels, ref>>
    BY <2>2 DEF RefInv
  <2> QED
    BY <1>2, <2>1, <2>2 DEF execute_function_block_ref
<1>3. CASE restart_after_fault
  BY <1>3, MirrorStartsAgain
<1>4. ASSUME NEW explicit \in BOOLEAN, Finish(explicit)
      PROVE  RefInv'
  <2>1. levels # <<>> /\ Len(levels) = 1 /\ status = "running"
    BY <1>4 DEF Finish, EvalInv, Busy
  <2>2. \E how \in {"done", "faulted"} : Leave(how)
    BY <1>4 DEF Finish
  <2> QED
    BY <2>1, <2>2, MirrorEnds
<1>5. CASE EnterLoop
  BY <1>5, MirrorLoops DEF EnterLoop, exec_stmt
<1>6. CASE LeaveLoop
  BY <1>6, MirrorLoops DEF LeaveLoop
<1>7. CASE Fault
  <2>1. ref' = Unlike /\ UNCHANGED <<mem, levels>>
    BY <1>7 DEF Fault
  <2> QED
    BY <2>1, MirrorGivenUp DEF RefInv
<1>8. CASE Unwind
  BY <1>8, MirrorUnwinds
<1>9. ASSUME status = "running", NEW x \in Scope[Running], NEW e \in Scope[Running] \cup Data,
             Assign(x, e)
      PROVE  RefInv'
  BY <1>9, MirrorAssigns
<1>10. ASSUME status = "running", NEW pou \in Callees[Running],
              NEW into \in Scope[Running] \cup {NoName}, NEW args \in Arguments(pou),
              CallPou(pou, args, into)
       PROVE  RefInv'
  BY <1>10, MirrorCalls
<1>11. ASSUME NEW e \in Scope[Running] \cup Data \cup {NoName}, Return(e)
       PROVE  RefInv'
  BY <1>11, MirrorReturns
<1>12. CASE UNCHANGED evalVars
  <2>1. UNCHANGED <<mem, levels, status, ref>>
    BY <1>12 DEF evalVars
  <2> QED
    BY <2>1 DEF RefInv
<1> QED
  BY <1>1, <1>2, <1>3, <1>4, <1>5, <1>6, <1>7, <1>8, <1>9, <1>10, <1>11, <1>12 DEF EvalNext

\* The copies of VAR_IN_OUT parameters, made when a call begins and written back
\* when it ends (eval/mod.rs), behave like references: whatever calls what, to
\* whatever depth and with whatever lends on what it was lent, every variable the
\* running text can name and nobody has lent has the value it would have if each
\* parameter were the variable it stands for, and so has every variable that lasts
\* once the program has ended.  This is as long as no error ends the program, no
\* variable is used by its name while it is lent, and none is lent twice by a call.
THEOREM InOutAlwaysByReference == EvalSpec => []InOutByReference
<1>1. EvalInv /\ RefInv => InOutByReference
  BY ByReferenceFollows
<1> QED
  BY <1>1, EvalStart, EvalStep, MirrorAtStart, MirrorStep, PTL DEF EvalSpec

-----------------------------------------------------------------------------
(***************************************************************************)
(* The process image.                                                      *)
(***************************************************************************)
\* Indices are counted off without gaps and without repetition.
LEMMA Ranks ==
  ASSUME NEW n \in Nat, NEW S \in SUBSET (1..n)
  PROVE  /\ Cardinality(S) \in Nat
         /\ \A i \in S : Cardinality({j \in S : j <= i}) \in 1..Cardinality(S)
         /\ \A k \in 1..Cardinality(S) : \E i \in S : Cardinality({j \in S : j <= i}) = k
         /\ \A i, h \in S : Cardinality({j \in S : j <= i}) = Cardinality({j \in S : j <= h}) => i = h
<1> DEFINE B(i) == {j \in S : j <= i}
           N == Cardinality(S)
           rank == [i \in S |-> Cardinality(B(i))]
<1>1. \A i \in S : i \in Nat
  OBVIOUS
<1>2. IsFiniteSet(S) /\ N \in Nat
  <2>1. IsFiniteSet(1..n)
    BY FS_Interval
  <2>2. IsFiniteSet(S)
    BY <2>1, FS_Subset
  <2> QED
    BY <2>2, FS_CardinalityType
<1>3. ASSUME NEW i \in S
      PROVE  IsFiniteSet(B(i)) /\ Cardinality(B(i)) \in 1..N
  <2>1. IsFiniteSet(B(i)) /\ Cardinality(B(i)) <= N
    BY <1>2, FS_Subset
  <2>2. i \in B(i)
    OBVIOUS
  <2>3. Cardinality(B(i)) # 0 /\ Cardinality(B(i)) \in Nat
    BY <2>1, <2>2, FS_EmptySet, FS_CardinalityType
  <2> QED
    BY <1>2, <2>1, <2>3
<1>4. ASSUME NEW i \in S, NEW h \in S, i < h
      PROVE  Cardinality(B(i)) # Cardinality(B(h))
  <2>1. B(i) \in SUBSET B(h) /\ h \in B(h) /\ h \notin B(i)
    <3>1. i \in Nat /\ h \in Nat
      BY <1>1
    <3>2. \A j \in S : j <= i => j <= h
      BY <1>1, <1>4, <3>1
    <3>3. h <= h /\ ~(h <= i)
      BY <1>4, <3>1
    <3> QED
      BY <3>2, <3>3
  <2> QED
    BY <1>3, <2>1, FS_Subset
<1>5. \A i, h \in S : Cardinality(B(i)) = Cardinality(B(h)) => i = h
  <2> SUFFICES ASSUME NEW i \in S, NEW h \in S, Cardinality(B(i)) = Cardinality(B(h)), i # h
               PROVE  FALSE
    OBVIOUS
  <2>1. i < h \/ h < i
    OBVIOUS
  <2> QED
    BY <1>4, <2>1
<1>6. rank \in Injection(S, 1..N)
  <2>1. rank \in [S -> 1..N]
    BY <1>3
  <2>2. \A i, h \in S : rank[i] = rank[h] => i = h
    BY <1>5
  <2> HIDE DEF rank
  <2> QED
    BY <2>1, <2>2 DEF Injection, IsInjective
<1>7. IsFiniteSet(1..N) /\ Cardinality(1..N) = N
  BY <1>2, FS_Interval
<1>8. rank \in Surjection(S, 1..N)
  <2> HIDE DEF rank, N
  <2>1. Cardinality(S) = Cardinality(1..N)
    BY <1>7 DEF N
  <2> QED
    BY <1>6, <1>7, <2>1, FS_Injection
<1>9. \A k \in 1..N : \E i \in S : rank[i] = k
  BY <1>8 DEF Surjection
<1> QED
  BY <1>2, <1>3, <1>5, <1>9

LEMMA LastIndex ==
  ASSUME NEW n \in Nat, NEW S \in SUBSET (1..n), S # {}
  PROVE  Max(S) \in S
<1> DEFINE T == {n - i : i \in S}
<1>1. T \subseteq Nat /\ T # {}
  <2>1. \A i \in S : i \in Nat /\ n - i \in Nat
    OBVIOUS
  <2> QED
    BY <2>1
<1>2. PICK x \in T : \A y \in T : ~(<<y, x>> \in OpToRel(<, Nat))
  BY <1>1, WFMin, NatLessThanWellFounded
<1>3. \A y \in T : ~(y < x)
  BY <1>1, <1>2 DEF OpToRel
<1>4. PICK m \in S : x = n - m
  BY <1>2
<1>5. \A i \in S : m >= i
  <2> TAKE i \in S
  <2>1. ~(n - i < n - m)
    BY <1>3, <1>4
  <2> QED
    BY <2>1
<1> QED
  BY <1>5 DEF Max

\* A list of entries and what the clients want agree: the same targets with the
\* same values.
Agree(list, f) ==
  /\ IsSequence(list)
  /\ DOMAIN f = {list[i].at : i \in 1..Len(list)}
  /\ \A i \in 1..Len(list) : f[list[i].at] = list[i].value

LEMMA EntryIs ==
  ASSUME NEW list, IsSequence(list)
  PROVE  Len(list) \in Nat /\ DOMAIN list = 1..Len(list)
BY DEF IsSequence

LEMMA EnteredAgrees ==
  ASSUME NEW list, NEW f, Agree(list, f), NEW e
  PROVE  Agree(Entered(list, e), With(f, e))
<1> DEFINE g == With(f, e)
           new == Entered(list, e)
<1>1. /\ IsSequence(list) /\ Len(list) \in Nat /\ DOMAIN list = 1..Len(list)
      /\ DOMAIN f = {list[i].at : i \in 1..Len(list)}
      /\ \A i \in 1..Len(list) : f[list[i].at] = list[i].value
  BY EntryIs DEF Agree
<1>2. /\ DOMAIN g = {e.at} \cup DOMAIN f /\ g[e.at] = e.value
      /\ \A a \in DOMAIN f : a # e.at => g[a] = f[a]
  BY DEF With
<1> HIDE DEF g
<1>3. CASE \E i \in DOMAIN list : list[i].at = e.at
  <2>1. new = [i \in 1..Len(list) |-> IF list[i].at = e.at THEN e ELSE list[i]]
    BY <1>1, <1>3 DEF Entered
  <2>2. IsSequence(new) /\ Len(new) = Len(list)
    <3>1. new \in [1..Len(list) -> {new[i] : i \in 1..Len(list)}]
      BY <2>1
    <3>2. new \in Seq({new[i] : i \in 1..Len(list)})
      BY <1>1, <3>1, SeqDef
    <3>3. DOMAIN new = 1..Len(new) /\ Len(new) \in Nat
      BY <3>2, LenProperties
    <3> QED
      BY <1>1, <3>1, <3>2, <3>3, SeqIs, LenProperties
  <2>3. \A i \in 1..Len(list) : new[i] = IF list[i].at = e.at THEN e ELSE list[i]
    BY <2>1
  <2> HIDE DEF new
  <2>4. \A i \in 1..Len(list) : new[i].at = list[i].at
    BY <2>3
  <2>5. DOMAIN g = {new[i].at : i \in 1..Len(list)}
    BY <1>1, <1>2, <1>3, <2>4
  <2>6. \A i \in 1..Len(list) : g[new[i].at] = new[i].value
    <3> TAKE i \in 1..Len(list)
    <3>1. CASE list[i].at = e.at
      BY <1>2, <2>3, <3>1
    <3>2. CASE list[i].at # e.at
      BY <1>1, <1>2, <2>3, <3>2
    <3> QED
      BY <3>1, <3>2
  <2> QED
    BY <2>2, <2>5, <2>6 DEF Agree, g, new
<1>4. CASE ~ \E i \in DOMAIN list : list[i].at = e.at
  <2>1. new = Append(list, e)
    BY <1>4 DEF Entered
  <2>2. /\ IsSequence(new) /\ Len(new) = Len(list) + 1 /\ new[Len(list) + 1] = e
        /\ \A i \in 1..Len(list) : new[i] = list[i]
    BY <1>1, <2>1, Pushed
  <2> HIDE DEF new
  <2>3. \A i \in 1..(Len(list) + 1) : i \in 1..Len(list) \/ i = Len(list) + 1
    BY <1>1
  <2>4. 1..Len(list) \subseteq 1..(Len(list) + 1) /\ Len(list) + 1 \in 1..(Len(list) + 1)
    BY <1>1
  <2>5. DOMAIN g = {new[i].at : i \in 1..(Len(list) + 1)}
    <3>1. \A a \in DOMAIN g : \E i \in 1..(Len(list) + 1) : a = new[i].at
      BY <1>1, <1>2, <2>2, <2>4
    <3>2. \A i \in 1..(Len(list) + 1) : new[i].at \in DOMAIN g
      BY <1>1, <1>2, <2>2, <2>3
    <3> QED
      BY <3>1, <3>2
  <2>6. \A i \in 1..(Len(list) + 1) : g[new[i].at] = new[i].value
    <3>1. \A i \in 1..Len(list) : g[new[i].at] = new[i].value
      <4> TAKE i \in 1..Len(list)
      <4>1. list[i].at # e.at /\ list[i].at \in DOMAIN f /\ new[i] = list[i]
        BY <1>1, <1>4, <2>2
      <4>2. g[list[i].at] = f[list[i].at]
        BY <1>2, <4>1
      <4> QED
        BY <1>1, <4>1, <4>2
    <3>2. g[new[Len(list) + 1].at] = new[Len(list) + 1].value
      BY <1>2, <2>2
    <3> QED
      BY <2>3, <3>1, <3>2
  <2> QED
    BY <2>2, <2>5, <2>6 DEF Agree, g, new
<1> QED
  BY <1>3, <1>4

LEMMA ReleasedAgrees ==
  ASSUME NEW list, NEW f, Agree(list, f), NEW a
  PROVE  Agree(Released(list, a), Restrict(f, DOMAIN f \ {a}))
<1> DEFINE kept == {i \in DOMAIN list : list[i].at # a}
           N == Cardinality(kept)
           r(i) == Cardinality({j \in kept : j <= i})
           new == Released(list, a)
           g == Restrict(f, DOMAIN f \ {a})
<1>1. /\ Len(list) \in Nat /\ DOMAIN list = 1..Len(list)
      /\ DOMAIN f = {list[i].at : i \in 1..Len(list)}
      /\ \A i \in 1..Len(list) : f[list[i].at] = list[i].value
  BY EntryIs DEF Agree
<1>2. DOMAIN g = DOMAIN f \ {a} /\ \A x \in DOMAIN f \ {a} : g[x] = f[x]
  BY DEF Restrict
<1>3. kept \in SUBSET (1..Len(list)) /\ \A i \in 1..Len(list) : i \in kept <=> list[i].at # a
  BY <1>1
<1>4. new = [k \in 1..N |-> list[CHOOSE i \in kept : r(i) = k]]
  BY DEF Released
<1> HIDE DEF g, kept
<1>5. /\ N \in Nat /\ \A i \in kept : r(i) \in 1..N
      /\ \A k \in 1..N : \E i \in kept : r(i) = k
      /\ \A i, h \in kept : r(i) = r(h) => i = h
  BY <1>1, <1>3, Ranks
<1> HIDE DEF N, r, new
<1>6. ASSUME NEW k \in 1..N
      PROVE  \E i \in kept : new[k] = list[i]
  BY <1>4, <1>5
<1>7. ASSUME NEW i \in kept
      PROVE  \E k \in 1..N : new[k] = list[i]
  <2>1. r(i) \in 1..N
    BY <1>5
  <2>2. (CHOOSE h \in kept : r(h) = r(i)) = i
    BY <1>5
  <2> QED
    BY <1>4, <2>1, <2>2
<1>8. IsSequence(new) /\ Len(new) = N
  <2>1. new \in [1..N -> {new[k] : k \in 1..N}]
    BY <1>4
  <2>2. new \in Seq({new[k] : k \in 1..N})
    BY <1>5, <2>1, SeqDef
  <2> QED
    BY <1>5, <2>1, <2>2, SeqIs, LenProperties
<1>9. DOMAIN g = {new[k].at : k \in 1..N}
  <2>1. ASSUME NEW x \in DOMAIN g PROVE \E k \in 1..N : x = new[k].at
    <3>1. PICK i \in 1..Len(list) : x = list[i].at
      BY <1>1, <1>2
    <3>2. i \in kept
      BY <1>2, <1>3, <3>1
    <3> QED
      BY <1>7, <3>1, <3>2
  <2>2. ASSUME NEW k \in 1..N PROVE new[k].at \in DOMAIN g
    BY <1>1, <1>2, <1>3, <1>6
  <2> QED
    BY <2>1, <2>2
<1>10. \A k \in 1..N : g[new[k].at] = new[k].value
  BY <1>1, <1>2, <1>3, <1>6
<1> QED
  BY <1>8, <1>9, <1>10 DEF Agree, g, new

\* A variable that nobody forces keeps its value.
LEMMA AssignedValue ==
  ASSUME NEW list, NEW f, Agree(list, f), NEW t, t \notin DOMAIN f, NEW x
  PROVE  Assigned(list, t, x) = x
<1>1. {i \in DOMAIN list : list[i].at = t} = {}
  BY EntryIs DEF Agree
<1> QED
  BY <1>1 DEF Assigned

\* A cell that one forced address has takes its value, one that none has stays.
LEMMA WrittenCell ==
  ASSUME NEW list, NEW f, Agree(list, f), Fitting(list) = list, NEW img, NEW c \in Cells
  PROVE  /\ \A a \in DOMAIN f : c \in a /\ (\A b \in DOMAIN f \ {a} : c \notin b)
                                 => Written(img, list)[c] = f[a][c]
         /\ (\A b \in DOMAIN f : c \notin b) => Written(img, list)[c] = img[c]
<1> DEFINE entries == {i \in DOMAIN list : c \in list[i].at}
<1>1. /\ Len(list) \in Nat /\ DOMAIN list = 1..Len(list)
      /\ DOMAIN f = {list[i].at : i \in 1..Len(list)}
      /\ \A i \in 1..Len(list) : f[list[i].at] = list[i].value
  BY EntryIs DEF Agree
<1>2. Written(img, list)[c] = IF entries = {} THEN img[c] ELSE list[Max(entries)].value[c]
  BY DEF Written
<1>3. ASSUME NEW a \in DOMAIN f, c \in a, \A b \in DOMAIN f \ {a} : c \notin b
      PROVE  Written(img, list)[c] = f[a][c]
  <2>1. PICK i \in 1..Len(list) : list[i].at = a
    BY <1>1
  <2>2. entries \in SUBSET (1..Len(list)) /\ entries # {}
    BY <1>1, <1>3, <2>1
  <2>3. Max(entries) \in entries
    BY <1>1, <2>2, LastIndex
  <2>4. list[Max(entries)].at = a /\ Max(entries) \in 1..Len(list)
    BY <1>1, <1>3, <2>3
  <2> QED
    BY <1>1, <1>2, <2>2, <2>4
<1>4. ASSUME \A b \in DOMAIN f : c \notin b
      PROVE  Written(img, list)[c] = img[c]
  <2>1. entries = {}
    BY <1>1, <1>4
  <2> QED
    BY <1>2, <2>1
<1> QED
  BY <1>3, <1>4

-----------------------------------------------------------------------------
\* Forces are what the clients want; the instances are numbered.
ImageInv ==
  /\ IsSequence(instances)
  /\ wanted = [io |-> wanted.io, vars |-> wanted.vars]
  /\ Agree(forced_io, wanted.io) /\ Agree(forced_vars, wanted.vars)
  /\ ForcedOrDriven

\* A request changes no more of the forces than it is about, and that is touched.
LEMMA RequestKeeps ==
  ASSUME ForcedOrDriven, NEW what, Requested(what),
         \A b \in ForcedIo : b \in ForcedIo' \/ b \subseteq what,
         \A a \in ForcedIo' : a \subseteq what \/ (a \in ForcedIo /\ wanted'.io[a] = wanted.io[a]),
         \A t \in ForcedVars : t \in ForcedVars' \/ t \in what
  PROVE  ForcedOrDriven'
<1>1. UNCHANGED <<image, globals, instances, progress, driven>> /\ touched' = touched \cup what
  BY DEF Requested, memory
<1>2. /\ \A v : Live(v)' = Live(v) /\ ValueOf(v)' = ValueOf(v) /\ TargetOf(v)' = TargetOf(v)
  BY <1>1 DEF Live, ValueOf, TargetOf, Current
<1>3. ASSUME NEW a, ~(a \cap (touched' \cup UNION ForcedIo') # {})
      PROVE  a \cap (touched \cup UNION ForcedIo) = {}
  BY <1>1, <1>3
<1>4. ForcesHold'
  <2> SUFFICES ASSUME NEW a \in ForcedIo', ~(a \cap (touched' \cup UNION (ForcedIo' \ {a})) # {})
               PROVE  /\ progress' = "programs" => \A v \in Located, c \in a :
                           Live(v)' /\ c \in At[v] \ OutputCells => ValueOf(v)'[c] = wanted'.io[a][c]
                      /\ progress' = "done" => \A c \in a \cap OutputCells :
                           driven'[c] = wanted'.io[a][c]
    BY DEF ForcesHold, Meets
  <2>1. ASSUME NEW c \in a
        PROVE  /\ a \in ForcedIo /\ wanted'.io[a] = wanted.io[a]
               /\ ~(a \cap (touched \cup UNION (ForcedIo \ {a})) # {})
    BY <1>1, <2>1
  <2>2. ASSUME progress' = "programs", NEW v \in Located, NEW c \in a, Live(v)',
               c \in At[v] \ OutputCells
        PROVE  ValueOf(v)'[c] = wanted'.io[a][c]
    BY <1>1, <1>2, <2>1, <2>2 DEF ForcedOrDriven, ForcesHold, Meets
  <2>3. ASSUME progress' = "done", NEW c \in a \cap OutputCells
        PROVE  driven'[c] = wanted'.io[a][c]
    BY <1>1, <2>1, <2>3 DEF ForcedOrDriven, ForcesHold, Meets
  <2> QED
    BY <2>2, <2>3
<1>5. ReleasedFollowPrograms'
  <2> SUFFICES ASSUME progress' = "done", NEW v \in Located, Live(v)',
                      ~(At[v] \cap (touched' \cup UNION ForcedIo') # {}),
                      TargetOf(v)' \notin touched' \cup ForcedVars',
                      NEW c \in At[v] \cap OutputCells
               PROVE  driven'[c] = ValueOf(v)'[c]
    BY DEF ReleasedFollowPrograms, Drives, Meets
  <2>1. At[v] \cap (touched \cup UNION ForcedIo) = {} /\ TargetOf(v) \notin touched \cup ForcedVars
    BY <1>1, <1>2, <1>3
  <2> QED
    BY <1>1, <1>2, <2>1 DEF ForcedOrDriven, ReleasedFollowPrograms, Drives, Meets
<1> QED
  BY <1>4, <1>5 DEF ForcedOrDriven

LEMMA RequestsInv ==
  ASSUME ImageInv, Request
  PROVE  ImageInv'
<1>1. /\ IsSequence(instances) /\ wanted = [io |-> wanted.io, vars |-> wanted.vars]
      /\ Agree(forced_io, wanted.io) /\ Agree(forced_vars, wanted.vars) /\ ForcedOrDriven
  BY DEF ImageInv
<1>2. ASSUME NEW what, Requested(what)
      PROVE  IsSequence(instances')
  BY <1>1, <1>2 DEF Requested, memory, IsSequence
<1>3. ASSUME NEW what, Requested(what), UNCHANGED <<forced_io, forced_vars, wanted>>
      PROVE  ImageInv'
  <2>1. ForcedOrDriven'
    BY <1>1, <1>3, RequestKeeps DEF ForcedIo, ForcedVars
  <2> QED
    BY <1>1, <1>2, <1>3, <2>1 DEF ImageInv, Agree, IsSequence
<1>4. CASE enqueue_io_write \/ enqueue_var_write \/ enqueue_lvalue_write
  BY <1>3, <1>4 DEF enqueue_io_write, enqueue_var_write, enqueue_lvalue_write, forces
<1>5. CASE force_io
  <2>1. PICK e \in IoEntries :
          /\ Requested(e.at) /\ forced_io' = Entered(forced_io, e)
          /\ Wants("io", With(wanted.io, e)) /\ UNCHANGED forced_vars
    BY <1>5 DEF force_io
  <2>2. wanted' = [io |-> With(wanted.io, e), vars |-> wanted.vars]
    BY <1>1, <2>1 DEF Wants
  <2>3. Agree(forced_io', wanted'.io) /\ Agree(forced_vars', wanted'.vars)
    BY <1>1, <2>1, <2>2, EnteredAgrees
  <2>4. /\ ForcedIo' = ForcedIo \cup {e.at} /\ ForcedVars' = ForcedVars
        /\ \A a \in ForcedIo : a # e.at => wanted'.io[a] = wanted.io[a]
    BY <2>2 DEF With, ForcedIo, ForcedVars
  <2>5. ForcedOrDriven'
    BY <1>1, <2>1, <2>4, RequestKeeps
  <2> QED
    BY <1>2, <2>1, <2>2, <2>3, <2>5 DEF ImageInv
<1>6. CASE release_io
  <2>1. PICK a \in Addresses :
          /\ Requested(a) /\ forced_io' = Released(forced_io, a)
          /\ Wants("io", Restrict(wanted.io, DOMAIN wanted.io \ {a})) /\ UNCHANGED forced_vars
    BY <1>6 DEF release_io
  <2>2. wanted' = [io |-> Restrict(wanted.io, DOMAIN wanted.io \ {a}), vars |-> wanted.vars]
    BY <1>1, <2>1 DEF Wants
  <2>3. Agree(forced_io', wanted'.io) /\ Agree(forced_vars', wanted'.vars)
    BY <1>1, <2>1, <2>2, ReleasedAgrees
  <2>4. /\ ForcedIo' = ForcedIo \ {a} /\ ForcedVars' = ForcedVars
        /\ \A b \in ForcedIo' : wanted'.io[b] = wanted.io[b]
    BY <2>2 DEF Restrict, ForcedIo, ForcedVars
  <2>5. ForcedOrDriven'
    BY <1>1, <2>1, <2>4, RequestKeeps
  <2> QED
    BY <1>2, <2>1, <2>2, <2>3, <2>5 DEF ImageInv
<1>7. CASE set_forced_var
  <2>1. PICK e \in VarEntries :
          /\ Requested({e.at}) /\ forced_vars' = Entered(forced_vars, e)
          /\ Wants("vars", With(wanted.vars, e)) /\ UNCHANGED forced_io
    BY <1>7 DEF set_forced_var
  <2>2. wanted' = [io |-> wanted.io, vars |-> With(wanted.vars, e)]
    BY <1>1, <2>1 DEF Wants
  <2>3. Agree(forced_io', wanted'.io) /\ Agree(forced_vars', wanted'.vars)
    BY <1>1, <2>1, <2>2, EnteredAgrees
  <2>4. /\ ForcedVars \subseteq ForcedVars' /\ ForcedIo' = ForcedIo /\ wanted'.io = wanted.io
    BY <2>2 DEF With, ForcedIo, ForcedVars
  <2>5. ForcedOrDriven'
    BY <1>1, <2>1, <2>4, RequestKeeps
  <2> QED
    BY <1>2, <2>1, <2>2, <2>3, <2>5 DEF ImageInv
<1>8. CASE clear_forced_var
  <2>1. PICK t \in Targets :
          /\ Requested({t}) /\ forced_vars' = Released(forced_vars, t)
          /\ Wants("vars", Restrict(wanted.vars, DOMAIN wanted.vars \ {t})) /\ UNCHANGED forced_io
    BY <1>8 DEF clear_forced_var
  <2>2. wanted' = [io |-> wanted.io, vars |-> Restrict(wanted.vars, DOMAIN wanted.vars \ {t})]
    BY <1>1, <2>1 DEF Wants
  <2>3. Agree(forced_io', wanted'.io) /\ Agree(forced_vars', wanted'.vars)
    BY <1>1, <2>1, <2>2, ReleasedAgrees
  <2>4. /\ ForcedVars' = ForcedVars \ {t} /\ ForcedIo' = ForcedIo /\ wanted'.io = wanted.io
    BY <2>2 DEF Restrict, ForcedIo, ForcedVars
  <2>5. ForcedOrDriven'
    BY <1>1, <2>1, <2>4, RequestKeeps
  <2> QED
    BY <1>2, <2>1, <2>2, <2>3, <2>5 DEF ImageInv
<1> QED
  BY <1>4, <1>5, <1>6, <1>7, <1>8 DEF Request

-----------------------------------------------------------------------------
LEMMA SetInstancesIs ==
  ASSUME IsSequence(instances), NEW list
  PROVE  IsSequence(SetInstances(list)) /\ Len(SetInstances(list)) = Current
<1> DEFINE new == SetInstances(list)
<1>1. Current \in Nat
  BY DEF IsSequence, Current
<1>2. new \in [1..Current -> {new[k] : k \in 1..Current}]
  BY DEF SetInstances
<1>3. new \in Seq({new[k] : k \in 1..Current})
  BY <1>1, <1>2, SeqDef
<1> QED
  BY <1>1, <1>2, <1>3, SeqIs, LenProperties

\* Between its two applications of the forces a cycle claims nothing.
LEMMA QuietSteps ==
  ASSUME ImageInv, UNCHANGED <<forced_io, forced_vars, wanted>>, IsSequence(instances'),
         progress' \notin {"programs", "done"}
  PROVE  ImageInv'
<1>1. ForcedOrDriven'
  BY DEF ForcedOrDriven, ForcesHold, ReleasedFollowPrograms, Drives
<1> QED
  BY <1>1 DEF ImageInv, Agree, IsSequence

\* Before the programs: what is forced is what the bound variables hold.
LEMMA LatchInv ==
  ASSUME ImageInv, latch_inputs
  PROVE  ImageInv'
<1>1. /\ IsSequence(instances) /\ Agree(forced_io, wanted.io)
      /\ UNCHANGED <<forced_io, forced_vars, wanted, touched>>
  BY DEF ImageInv, latch_inputs, forces, Goes
<1>2. CASE Fitting(forced_io) # forced_io
  BY <1>1, <1>2, QuietSteps DEF latch_inputs, Goes, IsSequence
<1>3. CASE Fitting(forced_io) = forced_io
  <2> DEFINE set == SetInstances(forced_vars)
             bound == [v \in ProgVars |-> Latched(v, set[BoundInstance][v], image')]
  <2>1. /\ image' = Written(image, forced_io) /\ progress' = "programs"
        /\ globals' = [v \in Globals |-> Latched(v, SetGlobals(forced_vars)[v], image')]
        /\ instances' = [set EXCEPT ![BoundInstance] = bound]
    BY <1>3 DEF latch_inputs, Goes
  <2>2. IsSequence(set) /\ Len(set) = Current
    BY <1>1, SetInstancesIs
  <2>3. /\ IsSequence(instances') /\ Len(instances') = Current
        /\ BoundInstance \in 1..Current => instances'[BoundInstance] = bound
    <3> HIDE DEF set, bound
    <3>1. PICK n, q, r, b : n = BoundInstance /\ q = set /\ r = instances' /\ b = bound
      OBVIOUS
    <3>2. IsSequence(q)
      BY <2>2, <3>1
    <3>3. r = [q EXCEPT ![n] = b]
      BY <2>1, <3>1
    <3>4. IsSequence(r)
      BY ONLY <3>2, <3>3, ChangedSequence
    <3>5. Len(r) = Len(q)
      BY ONLY <3>2, <3>3, ChangedSequence
    <3>6. n \in 1..Len(q) => r[n] = b
      BY ONLY <3>2, <3>3, ChangedSequence
    <3> QED
      BY <2>2, <3>1, <3>4, <3>5, <3>6
  <2>4. ASSUME NEW a \in ForcedIo, a \cap UNION (ForcedIo \ {a}) = {},
               NEW v \in Located, NEW c \in a, Live(v)', c \in At[v] \ OutputCells
        PROVE  ValueOf(v)'[c] = wanted.io[a][c]
    <3>1. c \in Cells /\ At[v] \subseteq InputCells \cup MarkerCells /\ v \in Globals \cup ProgVars
      BY <2>4, ImageAssumption DEF Cells
    <3>2. image'[c] = wanted.io[a][c]
      <4>1. a \in DOMAIN wanted.io /\ \A b \in DOMAIN wanted.io \ {a} : c \notin b
        BY <2>4 DEF ForcedIo
      <4>2. Written(image, forced_io)[c] = wanted.io[a][c]
        BY <1>1, <1>3, <3>1, <4>1, WrittenCell
      <4> QED
        BY <2>1, <4>2
    <3>3. \A x : Latched(v, x, image')[c] = image'[c]
      BY <2>4, <3>1 DEF Latched
    <3>4. CASE v \in Globals
      BY <2>1, <3>2, <3>3, <3>4 DEF ValueOf
    <3>5. CASE v \notin Globals
      <4>1. Current' = 1 /\ v \in ProgVars
        BY <2>4, <3>1, <3>5 DEF Live, BoundInstance
      <4>2. Current = 1
        BY <2>3, <4>1 DEF Current
      <4>3. instances'[1] = bound
        BY <2>3, <4>2 DEF BoundInstance
      <4>4. ValueOf(v)' = bound[v]
        BY <3>5, <4>1, <4>3 DEF ValueOf
      <4> QED
        BY <3>2, <3>3, <4>1, <4>4
    <3> QED
      BY <3>4, <3>5
  <2>5. ForcedOrDriven'
    <3>1. ForcesHold'
      BY <1>1, <2>1, <2>4 DEF ForcesHold, Meets, ForcedIo
    <3>2. ReleasedFollowPrograms'
      BY <2>1 DEF ReleasedFollowPrograms, Drives
    <3> QED
      BY <3>1, <3>2 DEF ForcedOrDriven
  <2> QED
    BY <1>1, <2>3, <2>5 DEF ImageInv, Agree, IsSequence
<1> QED
  BY <1>2, <1>3

\* After the programs: an output is driven by its force, or else by its variable,
\* which no force has changed since.
LEMMA OutputsInv ==
  ASSUME ImageInv, write_cycle_outputs
  PROVE  ImageInv'
<1>1. /\ IsSequence(instances) /\ Agree(forced_io, wanted.io) /\ Agree(forced_vars, wanted.vars)
      /\ UNCHANGED <<forced_io, forced_vars, wanted, touched>>
      /\ image' = Written(Committed, forced_io)
  BY DEF ImageInv, write_cycle_outputs, forces, Goes
<1>2. IsSequence(instances') /\ Current' = Current
  <2>1. instances' = instances \/ instances' = SetInstances(forced_vars)
    BY DEF write_cycle_outputs
  <2> QED
    BY <1>1, <2>1, SetInstancesIs DEF Current, IsSequence
<1>3. CASE progress' # "done"
  BY <1>1, <1>2, <1>3, QuietSteps DEF write_cycle_outputs, Goes
<1>4. CASE progress' = "done"
  <2>1. /\ Fitting(forced_io) = forced_io /\ driven' = [c \in OutputCells |-> image'[c]]
        /\ globals' = SetGlobals(forced_vars) /\ instances' = SetInstances(forced_vars)
    BY <1>4 DEF write_cycle_outputs, Goes
  <2>2. ForcesHold'
    <3>1. ASSUME NEW a \in ForcedIo, a \cap UNION (ForcedIo \ {a}) = {}, NEW c \in a \cap OutputCells
          PROVE  driven'[c] = wanted.io[a][c]
      <4>1. a \in DOMAIN wanted.io /\ (\A b \in DOMAIN wanted.io \ {a} : c \notin b) /\ c \in Cells
        BY <3>1 DEF ForcedIo, Cells
      <4>2. Written(Committed, forced_io)[c] = wanted.io[a][c]
        BY <1>1, <2>1, <3>1, <4>1, WrittenCell
      <4> QED
        BY <1>1, <2>1, <4>2
    <3> QED
      BY <1>1, <1>4, <3>1 DEF ForcesHold, Meets, ForcedIo
  <2>3. ReleasedFollowPrograms'
    <3>1. ASSUME NEW v \in Located, Live(v)', At[v] \cap UNION ForcedIo = {},
                 TargetOf(v)' \notin ForcedVars, NEW c \in At[v] \cap OutputCells
          PROVE  driven'[c] = ValueOf(v)'[c]
      <4>1. c \in Cells /\ c \notin InputCells /\ v \in Globals \cup ProgVars
        BY ImageAssumption DEF Cells
      <4>2. \A w \in Located : c \in At[w] => w = v
        BY <3>1, ImageAssumption
      <4>3. {w \in Located : c \in At[w] \ InputCells} = {v}
        BY <3>1, <4>1, <4>2
      <4>4. Committed[c] = Referred(v)[c]
        <5>1. (CHOOSE w \in {v} : TRUE) = v
          OBVIOUS
        <5> QED
          BY <4>1, <4>3, <5>1 DEF Committed
      <4>5. driven'[c] = Referred(v)[c]
        <5>1. \A b \in DOMAIN wanted.io : c \notin b
          BY <3>1 DEF ForcedIo
        <5>2. Written(Committed, forced_io)[c] = Committed[c]
          BY <1>1, <2>1, <4>1, <5>1, WrittenCell
        <5> QED
          BY <1>1, <2>1, <4>4, <5>2
      <4>6. ValueOf(v)' = Referred(v)
        <5>1. CASE v \in Globals
          <6>1. v \notin DOMAIN wanted.vars
            BY <3>1, <5>1 DEF TargetOf, ForcedVars
          <6>2. Assigned(forced_vars, v, globals[v]) = globals[v]
            BY <1>1, <6>1, AssignedValue
          <6> QED
            BY <2>1, <5>1, <6>2 DEF ValueOf, Referred, SetGlobals
        <5>2. CASE v \notin Globals
          <6>1. Current = 1 /\ Current' = 1 /\ v \in ProgVars
            BY <1>2, <3>1, <4>1, <5>2 DEF Live, BoundInstance
          <6>2. <<1, v>> \notin DOMAIN wanted.vars
            BY <3>1, <5>2, <6>1 DEF TargetOf, ForcedVars
          <6>3. Assigned(forced_vars, <<1, v>>, instances[1][v]) = instances[1][v]
            BY <1>1, <6>2, AssignedValue
          <6>4. instances'[1][v] = Assigned(forced_vars, <<1, v>>, instances[1][v])
            BY <2>1, <6>1 DEF SetInstances
          <6> QED
            BY <5>2, <6>1, <6>3, <6>4 DEF ValueOf, Referred, BoundInstance
        <5> QED
          BY <5>1, <5>2
      <4> QED
        BY <4>5, <4>6
    <3> QED
      BY <1>1, <3>1 DEF ReleasedFollowPrograms, Drives, Meets, ForcedIo, ForcedVars
  <2>4. ForcedOrDriven'
    BY <2>2, <2>3 DEF ForcedOrDriven
  <2> QED
    BY <1>1, <1>2, <2>4 DEF ImageInv, Agree, IsSequence
<1> QED
  BY <1>3, <1>4

LEMMA OtherCycleInv ==
  ASSUME ImageInv,
         \/ drain_var_writes \/ drain_lvalue_writes \/ read_drivers \/ driver_fails
         \/ execute_programs \/ restart
  PROVE  ImageInv'
<1>1. UNCHANGED <<forced_io, forced_vars, wanted>> /\ progress' \notin {"programs", "done"}
  BY DEF drain_var_writes, drain_lvalue_writes, read_drivers, driver_fails, execute_programs,
         restart, Goes, forces
<1>2. IsSequence(instances)
  BY DEF ImageInv
<1>3. IsSequence(instances')
  <2>1. CASE UNCHANGED instances
    BY <1>2, <2>1 DEF IsSequence
  <2>2. CASE drain_var_writes \/ drain_lvalue_writes
    BY <1>2, <2>2, SetInstancesIs DEF drain_var_writes, drain_lvalue_writes
  <2>3. CASE restart
    <3>1. \E x : instances' = Append(instances, x)
      BY <2>3 DEF restart
    <3> QED
      BY <1>2, <3>1, Pushed
  <2>4. CASE execute_programs
    <3>1. PICK k, x : instances' = instances \/ instances' = [instances EXCEPT ![k] = x]
      BY <2>4 DEF execute_programs
    <3>2. CASE instances' = [instances EXCEPT ![k] = x]
      BY <1>2, <3>2, ChangedSequence
    <3> QED
      BY <2>1, <3>1, <3>2
  <2> QED
    BY <2>1, <2>2, <2>3, <2>4 DEF read_drivers, driver_fails, memory
<1> QED
  BY <1>1, <1>3, QuietSteps

(***************************************************************************)
(* Forces and nothing else come between the programs and the drivers.      *)
(***************************************************************************)
\* For any cells, overlapping addresses and bindings, and whenever in a cycle
\* clients write, force and release (Runtime::read_cycle_inputs and
\* write_cycle_outputs): a force that overlaps no other is what the programs read
\* and the drivers get; what nobody forces is driven as the programs left it.
THEOREM AlwaysForcedOrDriven == ImageSpec => []ForcedOrDriven
<1>1. ImageInit => ImageInv
  <2> SUFFICES ASSUME ImageInit PROVE ImageInv
    OBVIOUS
  <2>1. /\ forced_io = <<>> /\ forced_vars = <<>> /\ wanted = [io |-> <<>>, vars |-> <<>>]
        /\ instances = <<Initial(ProgVars)>> /\ progress = "start"
    BY DEF ImageInit
  <2>2. Agree(forced_io, wanted.io) /\ Agree(forced_vars, wanted.vars)
    BY <2>1 DEF Agree, IsSequence
  <2>3. IsSequence(instances)
    BY <2>1 DEF IsSequence
  <2>4. ForcedOrDriven
    BY <2>1 DEF ForcedOrDriven, ForcesHold, ReleasedFollowPrograms, Drives
  <2> QED
    BY <2>1, <2>2, <2>3, <2>4 DEF ImageInv
<1>2. ImageInv /\ [ImageNext]_imgVars => ImageInv'
  <2> SUFFICES ASSUME ImageInv, [ImageNext]_imgVars PROVE ImageInv'
    OBVIOUS
  <2>1. CASE UNCHANGED imgVars
    <3>1. UNCHANGED <<globals, instances, forced_io, forced_vars, progress, driven, touched, wanted>>
      BY <2>1 DEF imgVars, memory, forces
    <3>2. /\ ForcedIo' = ForcedIo /\ ForcedVars' = ForcedVars
          /\ \A v : Live(v)' = Live(v) /\ ValueOf(v)' = ValueOf(v) /\ TargetOf(v)' = TargetOf(v)
      BY <3>1 DEF ForcedIo, ForcedVars, Live, ValueOf, TargetOf, Current
    <3>3. ForcesHold' = ForcesHold
      BY <3>1, <3>2 DEF ForcesHold, Meets
    <3>4. ReleasedFollowPrograms' = ReleasedFollowPrograms
      BY <3>1, <3>2 DEF ReleasedFollowPrograms, Drives, Meets
    <3>5. ForcedOrDriven'
      BY <3>1, <3>3, <3>4 DEF ImageInv, ForcedOrDriven
    <3> QED
      BY <3>1, <3>5 DEF ImageInv, Agree, IsSequence
  <2> QED
    BY <2>1, RequestsInv, LatchInv, OutputsInv, OtherCycleInv DEF ImageNext, Cycle
<1>3. ImageInv => ForcedOrDriven
  BY DEF ImageInv
<1> QED
  BY <1>1, <1>2, <1>3, PTL DEF ImageSpec
=============================================================================
