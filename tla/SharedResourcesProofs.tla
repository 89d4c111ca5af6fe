----------------------- MODULE SharedResourcesProofs -----------------------
(***************************************************************************)
(* Proof that no update of a shared global is lost, for any number of      *)
(* resources and globals.  NoLostUpdate speaks of the moments the lock is  *)
(* free; the invariant adds what is true while it is held: the holder is   *)
(* the one resource in its cycle, and its copy is up to date.              *)
(***************************************************************************)
EXTENDS SharedResources, TLAPS

HolderExecutes == \A r \in Resources : pc[r] = "exec" <=> lock = r

HolderIsCurrent == \A r \in Resources : lock = r => mem[r] = ran

IInv == TypeOK /\ HolderExecutes /\ HolderIsCurrent /\ NoLostUpdate

-----------------------------------------------------------------------------
\* Counters stay in range.
LEMMA BumpType ==
  ASSUME NEW x \in Values PROVE Bump(x) \in Values
BY SharedAssumption DEF Bump, Values

\* The clocks stop at the first value above the timeout.
LEMMA LaterType ==
  ASSUME NEW t \in 0..(Timeout + 1) PROVE Later(t) \in 0..(Timeout + 1)
BY SharedAssumption DEF Later

\* A restart gives every shared variable a value.
LEMMA RestartedType ==
  ASSUME NEW m \in [Shared -> Values] PROVE Restarted(m, Retained) \in [Shared -> Values]
BY SharedAssumption DEF Restarted, Values

\* Restart and load as well.
LEMMA LoadedType ==
  ASSUME NEW s \in [Retained -> Values]
  PROVE  [v \in Shared |-> IF v \in Retained THEN s[v] ELSE 0] \in [Shared -> Values]
BY SharedAssumption DEF Values

LEMMA RestartAndLoadType ==
  ASSUME TypeOK, NEW r \in Resources, RestartAndLoad(r)
  PROVE  mem' \in [Resources -> [Shared -> Values]]
<1>1. PICK s \in [Retained -> Values] : mem' = [mem EXCEPT ![r] =
        [v \in Shared |-> IF v \in Retained THEN s[v] ELSE 0]]
  BY DEF RestartAndLoad
<1>2. mem \in [Resources -> [Shared -> Values]]
  BY DEF TypeOK
<1> DEFINE loaded == [v \in Shared |-> IF v \in Retained THEN s[v] ELSE 0]
<1>3. loaded \in [Shared -> Values]
  BY LoadedType
<1> HIDE DEF loaded
<1>4. mem' = [mem EXCEPT ![r] = loaded]
  BY <1>1 DEF loaded
<1> QED
  BY <1>2, <1>3, <1>4

\* A warm restart as well.
LEMMA WarmRestartType ==
  ASSUME TypeOK, NEW r \in Resources, WarmRestart(r)
  PROVE  mem' \in [Resources -> [Shared -> Values]]
<1>1. mem \in [Resources -> [Shared -> Values]]
  BY DEF TypeOK
<1>2. Restarted(mem[r], Retained) \in [Shared -> Values]
  BY <1>1, RestartedType
<1> QED
  BY <1>1, <1>2 DEF WarmRestart

\* What a command may carry.
LEMMA MeshType ==
  ASSUME NEW c \in Command, c.op = "MeshApply"
  PROVE  c.var \in Shared /\ c.val \in Values
BY DEF Command

\* The program has typed state at the start.
LEMMA InitIInv == Init => IInv
<1> SUFFICES ASSUME Init PROVE IInv
  OBVIOUS
<1>1. TypeOK
  BY SharedAssumption DEF Init, TypeOK, Pcs, Errors, Command
<1>2. HolderExecutes /\ HolderIsCurrent /\ NoLostUpdate
  BY SharedAssumption DEF Init, HolderExecutes, HolderIsCurrent, NoLostUpdate
<1> QED
  BY <1>1, <1>2 DEF IInv

-----------------------------------------------------------------------------
\* Every step keeps the types.
LEMMA NextType ==
  ASSUME TypeOK, Next PROVE TypeOK'
<1> USE SharedAssumption
<1>f. ASSUME NEW r \in Resources, NEW e \in Errors, Fault(r, e) PROVE TypeOK'
  BY <1>f DEF TypeOK, Fault, timers, inbox, Pcs
<1>1. ASSUME NEW r \in Resources, Top(r) PROVE TypeOK'
  BY <1>1 DEF TypeOK, Top, Goto, timers, inbox, Pcs
<1>2. ASSUME NEW r \in Resources, TakeCommand(r) PROVE TypeOK'
  <2> DEFINE c == Head(cmds[r])
  <2>1. c \in Command /\ cmds' \in [Resources -> Seq(Command)]
    BY <1>2 DEF TypeOK, TakeCommand
  <2>2. paused' \in [Resources -> BOOLEAN]
    <3>1. CASE paused' = [paused EXCEPT ![r] = c.op = "Pause"]
      BY <3>1 DEF TypeOK
    <3>2. CASE paused' = paused
      BY <3>2 DEF TypeOK
    <3> QED
      BY <1>2, <3>1, <3>2 DEF TakeCommand
  <2>3. mem' \in [Resources -> [Shared -> Values]]
    <3>1. CASE mem' = mem
      BY <3>1 DEF TypeOK
    <3>2. CASE c.op = "MeshApply" /\ mem' = [mem EXCEPT ![r][c.var] = c.val]
      <4>1. c.var \in Shared /\ c.val \in Values
        BY <2>1, <3>2, MeshType
      <4> QED
        BY <3>2, <4>1 DEF TypeOK
    <3>3. CASE RestartAndLoad(r)
      BY <3>3, RestartAndLoadType
    <3> QED
      BY <1>2, <3>1, <3>2, <3>3 DEF TakeCommand
  <2> QED
    BY <1>2, <2>1, <2>2, <2>3 DEF TypeOK, TakeCommand, timers
<1>3. ASSUME NEW r \in Resources, EndOfCommands(r) PROVE TypeOK'
  BY <1>3 DEF TypeOK, EndOfCommands, Goto, timers, inbox, Pcs
<1>4. ASSUME NEW r \in Resources, TakeSignal(r) PROVE TypeOK'
  <2>1. mem' \in [Resources -> [Shared -> Values]]
    <3>1. CASE signal[r]
      BY <1>4, <3>1, RestartAndLoadType DEF TakeSignal
    <3>2. CASE ~signal[r]
      BY <1>4, <3>2 DEF TypeOK, TakeSignal
    <3> QED
      BY <3>1, <3>2
  <2>2. fresh' \subseteq Resources
    BY <1>4 DEF TypeOK, TakeSignal
  <2>3. elapsed' \in [Resources -> 0..(Timeout + 1)] /\ own' \in [Resources -> 0..(Timeout + 1)]
    BY <1>4 DEF TypeOK, TakeSignal
  <2>4. pc' \in [Resources -> Pcs]
    <3>1. (IF paused[r] THEN "sleep" ELSE "lock") \in Pcs
      BY DEF Pcs
    <3> QED
      BY <1>4, <3>1 DEF TypeOK, TakeSignal, Goto
  <2>5. signal' \in [Resources -> BOOLEAN]
    BY <1>4 DEF TypeOK, TakeSignal
  <2> QED
    BY <1>4, <2>1, <2>2, <2>3, <2>4, <2>5 DEF TypeOK, TakeSignal
<1>5. ASSUME NEW r \in Resources, SignalledRestartFails(r) PROVE TypeOK'
  BY <1>5, <1>f DEF SignalledRestartFails, Errors
<1>6. ASSUME NEW r \in Resources, Acquire(r) PROVE TypeOK'
  BY <1>6 DEF TypeOK, Acquire, Goto, timers, inbox, Pcs
<1>7. ASSUME NEW r \in Resources, NEW v \in Shared, Execute(r, v) PROVE TypeOK'
  BY <1>7, BumpType DEF TypeOK, Execute, timers, inbox
<1>8. ASSUME NEW r \in Resources, CycleOk(r) \/ CycleFails(r) PROVE TypeOK'
  <2>1. Publish(r)
    BY <1>8 DEF CycleOk, CycleFails
  <2>2. pc' \in [Resources -> Pcs]
    <3>1. pc' = [pc EXCEPT ![r] = "watchdog"] \/ pc' = [pc EXCEPT ![r] = "failed"]
      BY <1>8 DEF CycleOk, CycleFails, Goto
    <3>2. "watchdog" \in Pcs /\ "failed" \in Pcs
      BY DEF Pcs
    <3>3. pc \in [Resources -> Pcs]
      BY DEF TypeOK
    <3> QED
      BY <3>1, <3>2, <3>3
  <2>3. globals' \in [Shared -> Values] /\ lock' \in Resources \cup {NoOne}
    BY <2>1 DEF TypeOK, Publish
  <2>4. left' \in [Resources -> SUBSET Shared] /\ fresh' \subseteq Resources
    BY <2>1 DEF TypeOK, Publish
  <2> QED
    BY <2>1, <2>2, <2>3, <2>4 DEF TypeOK, Publish, timers, inbox
<1>9. ASSUME NEW r \in Resources, SimulationFails(r) \/ Wake(r) PROVE TypeOK'
  BY <1>9 DEF TypeOK, SimulationFails, Wake, Goto, timers, inbox, Pcs
<1>10. ASSUME NEW r \in Resources, NEW to \in Pcs,
              Goto(r, "failed", to) \/ Goto(r, "watchdog", to), WarmRestart(r),
              UNCHANGED <<globals, lock, left, paused, error, timers, inbox, ran, fresh>>
       PROVE  TypeOK'
  <2>1. mem' \in [Resources -> [Shared -> Values]]
    BY <1>10, WarmRestartType
  <2>2. pc' \in [Resources -> Pcs]
    BY <1>10 DEF TypeOK, Goto
  <2> QED
    BY <1>10, <2>1, <2>2 DEF TypeOK, timers, inbox
<1>11. ASSUME NEW r \in Resources, CycleError(r) PROVE TypeOK'
  BY <1>11, <1>f, <1>10 DEF CycleError, Errors, Pcs
<1>12. ASSUME NEW r \in Resources, WatchdogCheck(r) PROVE TypeOK'
  <2>1. CASE ~Late(r)
    BY <1>12, <2>1 DEF TypeOK, WatchdogCheck, Goto, timers, inbox, Pcs
  <2>2. CASE Late(r)
    BY <1>12, <2>2, <1>f, <1>10 DEF WatchdogCheck, Errors, Pcs
  <2> QED
    BY <2>1, <2>2
<1>13. ASSUME NEW r \in Resources, NEW c \in Command, SendCommand(r, c) PROVE TypeOK'
  <2>1. cmds' \in [Resources -> Seq(Command)]
    <3>1. cmds \in [Resources -> Seq(Command)] /\ Append(cmds[r], c) \in Seq(Command)
      BY DEF TypeOK
    <3> QED
      BY <1>13, <3>1 DEF SendCommand
  <2>2. sent' \in 0..MaxSent
    BY <1>13 DEF TypeOK, SendCommand, Ask
  <2> QED
    BY <1>13, <2>1, <2>2 DEF TypeOK, SendCommand, threads, timers
<1>14. ASSUME NEW r \in Resources, RequestRestart(r) \/ Stop(r) PROVE TypeOK'
  <2>1. CASE RequestRestart(r)
    BY <2>1 DEF TypeOK, RequestRestart, Ask, threads, timers
  <2>2. CASE Stop(r)
    BY <2>2 DEF TypeOK, Stop, threads, timers
  <2> QED
    BY <1>14, <2>1, <2>2
<1>15. CASE Tick
  BY <1>15, LaterType DEF TypeOK, Tick, threads, inbox
<1>16. CASE UNCHANGED vars
  BY <1>16 DEF TypeOK, vars, threads, timers, inbox
<1> QED
  BY <1>1, <1>2, <1>3, <1>4, <1>5, <1>6, <1>7, <1>8, <1>9, <1>11, <1>12, <1>13,
     <1>14, <1>15, <1>16 DEF Next, Thread

-----------------------------------------------------------------------------
\* A step outside the lock changes at most the copy of a resource that is not
\* in its cycle, and neither enters nor leaves a cycle.
Outside ==
  /\ UNCHANGED <<globals, lock, ran>>
  /\ \A q \in Resources : (pc'[q] = "exec" <=> pc[q] = "exec")
                          /\ (pc[q] = "exec" => mem'[q] = mem[q])

\* Such a step keeps the invariant.
LEMMA OutsideKeeps ==
  ASSUME IInv, Outside PROVE (HolderExecutes /\ HolderIsCurrent /\ NoLostUpdate)'
BY DEF IInv, Outside, HolderExecutes, HolderIsCurrent, NoLostUpdate

\* Every step of the thread but Acquire, Execute and the end of the cycle is
\* such a step.
LEMMA ThreadOutside ==
  ASSUME TypeOK, NEW r \in Resources,
         \/ Top(r) \/ TakeCommand(r) \/ EndOfCommands(r) \/ TakeSignal(r)
         \/ SignalledRestartFails(r) \/ SimulationFails(r) \/ CycleError(r)
         \/ WatchdogCheck(r) \/ Wake(r)
  PROVE  Outside
<1>f. ASSUME NEW e, pc[r] # "exec", Fault(r, e) PROVE Outside
  BY <1>f DEF TypeOK, Fault, Outside
<1>g. ASSUME NEW here, NEW there, here # "exec", there # "exec", Goto(r, here, there),
             UNCHANGED <<globals, lock, ran>>,
             mem' = mem \/ WarmRestart(r) \/ RestartAndLoad(r)
      PROVE  Outside
  BY <1>g DEF TypeOK, Goto, WarmRestart, RestartAndLoad, Outside
<1>1. CASE Top(r)
  BY <1>1, <1>g DEF Top
<1>2. CASE TakeCommand(r)
  <2>1. \A q \in Resources : q # r => mem'[q] = mem[q]
    BY <1>2 DEF TypeOK, TakeCommand, RestartAndLoad
  <2> QED
    BY <1>2, <2>1 DEF TakeCommand, Outside
<1>3. CASE EndOfCommands(r)
  BY <1>3, <1>g DEF EndOfCommands
<1>4. CASE TakeSignal(r)
  BY <1>4, <1>g DEF TakeSignal
<1>5. CASE SignalledRestartFails(r)
  BY <1>5, <1>f DEF SignalledRestartFails
<1>6. CASE SimulationFails(r)
  BY <1>6, <1>g DEF SimulationFails
<1>7. CASE CycleError(r)
  BY <1>7, <1>f, <1>g DEF CycleError
<1>8. CASE WatchdogCheck(r)
  BY <1>8, <1>f, <1>g DEF WatchdogCheck
<1>9. CASE Wake(r)
  BY <1>9, <1>g DEF Wake
<1> QED
  BY <1>1, <1>2, <1>3, <1>4, <1>5, <1>6, <1>7, <1>8, <1>9

\* Every step keeps the invariant.
LEMMA NextIInv ==
  ASSUME IInv, [Next]_vars PROVE IInv'
<1> USE SharedAssumption
<1>t. TypeOK
  BY DEF IInv
<1>1. ASSUME NEW r \in Resources, Acquire(r)
      PROVE  (HolderExecutes /\ HolderIsCurrent /\ NoLostUpdate)'
  BY <1>1, <1>t DEF IInv, TypeOK, Acquire, Goto, HolderExecutes, HolderIsCurrent,
                   NoLostUpdate
<1>2. ASSUME NEW r \in Resources, NEW v \in Shared, Execute(r, v)
      PROVE  (HolderExecutes /\ HolderIsCurrent /\ NoLostUpdate)'
  <2>1. lock = r /\ mem[r] = ran
    BY <1>2 DEF Execute, IInv, HolderExecutes, HolderIsCurrent
  <2>2. mem'[r] = ran'
    BY <1>2, <1>t, <2>1 DEF Execute, TypeOK
  <2> QED
    BY <1>2, <2>1, <2>2 DEF Execute, IInv, HolderExecutes, HolderIsCurrent, NoLostUpdate
<1>3. ASSUME NEW r \in Resources, CycleOk(r) \/ CycleFails(r)
      PROVE  (HolderExecutes /\ HolderIsCurrent /\ NoLostUpdate)'
  <2>1. lock = r /\ mem[r] = ran
    BY <1>3 DEF CycleOk, CycleFails, Goto, IInv, HolderExecutes, HolderIsCurrent
  <2>2. lock' = NoOne /\ globals' = ran'
    BY <1>3, <2>1 DEF CycleOk, CycleFails, Publish
  <2>3. \A q \in Resources : pc'[q] # "exec"
    BY <1>3, <1>t, <2>1 DEF CycleOk, CycleFails, Goto, TypeOK, IInv, HolderExecutes
  <2> QED
    BY <2>2, <2>3 DEF HolderExecutes, HolderIsCurrent, NoLostUpdate
<1>4. ASSUME NEW r \in Resources, NEW c \in Command,
             SendCommand(r, c) \/ RequestRestart(r) \/ Stop(r)
      PROVE  Outside
  BY <1>4 DEF SendCommand, RequestRestart, Stop, threads, Outside
<1>5. CASE Tick
  BY <1>5, OutsideKeeps, NextType, <1>t DEF Tick, threads, Outside, Next, IInv
<1>6. CASE UNCHANGED vars
  <2>1. Outside
    BY <1>6 DEF vars, threads, Outside
  <2>2. TypeOK'
    BY <1>6, <1>t DEF TypeOK, vars, threads, timers, inbox
  <2> QED
    BY <2>1, <2>2, OutsideKeeps DEF IInv
<1>7. CASE \E r \in Resources : Thread(r)
  BY <1>7, <1>t, <1>1, <1>2, <1>3, ThreadOutside, OutsideKeeps, NextType
     DEF Thread, Next, IInv
<1>8. CASE \E r \in Resources : RequestRestart(r) \/ Stop(r)
  <2>1. Outside
    BY <1>8 DEF RequestRestart, Stop, threads, Outside
  <2> QED
    BY <1>8, <1>t, <2>1, OutsideKeeps, NextType DEF Next, IInv
<1>9. CASE \E r \in Resources, c \in Command : SendCommand(r, c)
  BY <1>9, <1>t, <1>4, OutsideKeeps, NextType DEF Next, IInv
<1> QED
  BY <1>5, <1>6, <1>7, <1>8, <1>9 DEF Next

\* The invariant holds in every reachable state of run_resource_loop_with_shared,
\* for every number of resources and shared globals.
THEOREM SharedInvariance == Spec => []IInv
BY InitIInv, NextIInv, PTL DEF Spec

\* Every reachable state is typed: restarts, reloads, mesh updates and cycles
\* leave a value in every shared global of every resource.
THEOREM SharedTypeCorrect == Spec => []TypeOK
<1>1. IInv => TypeOK
  BY DEF IInv
<1> QED
  BY <1>1, SharedInvariance, PTL

\* No increment of a shared global executed by any resource is lost, whatever
\* happens to the resources outside the lock.
THEOREM NoUpdateIsEverLost == Spec => []NoLostUpdate
<1>1. IInv => NoLostUpdate
  BY DEF IInv
<1> QED
  BY <1>1, SharedInvariance, PTL

-----------------------------------------------------------------------------
(***************************************************************************)
(* SharedResources implements AtomicCounters.  The mapping needs to know   *)
(* what the copy of the holder is in terms of the published values: they,  *)
(* with the statements already run applied to them.                        *)
(***************************************************************************)
CopyIsAhead ==
  \A r \in Resources :
    pc[r] = "exec" =>
      mem[r] = [v \in Shared |-> IF v \in left[r] THEN globals[v] ELSE Bump(globals[v])]

\* The values are copied in with no statement run yet.
LEMMA InitAhead == Init => CopyIsAhead
BY DEF Init, CopyIsAhead

\* A step that changes neither the published values nor anything of a resource
\* in its cycle keeps the copies ahead.
LEMMA OutsideAhead ==
  ASSUME CopyIsAhead, Outside,
         \A q \in Resources : pc[q] = "exec" => left'[q] = left[q]
  PROVE  CopyIsAhead'
BY DEF Outside, CopyIsAhead

\* A step of the thread outside its cycle leaves the statements alone.
LEMMA ThreadLeavesStatements ==
  ASSUME NEW r \in Resources,
         \/ Top(r) \/ TakeCommand(r) \/ EndOfCommands(r) \/ TakeSignal(r)
         \/ SignalledRestartFails(r) \/ SimulationFails(r) \/ CycleError(r)
         \/ WatchdogCheck(r) \/ Wake(r)
  PROVE  left' = left
BY DEF Top, TakeCommand, EndOfCommands, TakeSignal, SignalledRestartFails, SimulationFails,
       CycleError, WatchdogCheck, Wake, Fault

\* Every step keeps the holder's copy ahead of the published values.
LEMMA NextAhead ==
  ASSUME IInv, CopyIsAhead, [Next]_vars PROVE CopyIsAhead'
<1>t. TypeOK /\ HolderExecutes
  BY DEF IInv
<1>1. ASSUME NEW r \in Resources, Acquire(r) PROVE CopyIsAhead'
  <2>1. mem'[r] = globals /\ left'[r] = Shared /\ globals' = globals
    BY <1>1, <1>t DEF Acquire, TypeOK
  <2>2. \A q \in Resources : pc'[q] = "exec" => q = r
    BY <1>1, <1>t, SharedAssumption DEF Acquire, Goto, TypeOK, HolderExecutes
  <2>3. globals = [v \in Shared |-> IF v \in left'[r] THEN globals[v] ELSE Bump(globals[v])]
    BY <1>t, <2>1 DEF TypeOK
  <2> QED
    BY <2>1, <2>2, <2>3 DEF CopyIsAhead
<1>2. ASSUME NEW r \in Resources, NEW v \in Shared, Execute(r, v) PROVE CopyIsAhead'
  <2>1. mem[r] = [u \in Shared |-> IF u \in left[r] THEN globals[u] ELSE Bump(globals[u])]
    BY <1>2 DEF Execute, CopyIsAhead
  <2>2. mem'[r] = [mem[r] EXCEPT ![v] = Bump(@)] /\ left'[r] = left[r] \ {v}
    BY <1>2, <1>t DEF Execute, TypeOK
  <2>3. \A q \in Resources : pc'[q] = "exec" => q = r
    BY <1>2, <1>t DEF Execute, HolderExecutes
  <2>4. mem'[r] = [u \in Shared |-> IF u \in left'[r] THEN globals[u] ELSE Bump(globals[u])]
    BY <1>2, <2>1, <2>2 DEF Execute
  <2> QED
    BY <1>2, <2>3, <2>4 DEF Execute, CopyIsAhead
<1>3. ASSUME NEW r \in Resources, CycleOk(r) \/ CycleFails(r) PROVE CopyIsAhead'
  <2>1. \A q \in Resources : pc'[q] # "exec"
    BY <1>3, <1>t DEF CycleOk, CycleFails, Goto, TypeOK, HolderExecutes
  <2> QED
    BY <2>1 DEF CopyIsAhead
<1>4. CASE \E r \in Resources, c \in Command : SendCommand(r, c)
  BY <1>4, OutsideAhead DEF SendCommand, threads, Outside
<1>5. CASE \E r \in Resources : RequestRestart(r) \/ Stop(r)
  BY <1>5, OutsideAhead DEF RequestRestart, Stop, threads, Outside
<1>6. CASE Tick \/ UNCHANGED vars
  BY <1>6, OutsideAhead DEF Tick, vars, threads, Outside
<1>7. CASE \E r \in Resources : Thread(r)
  BY <1>7, <1>t, <1>1, <1>2, <1>3, ThreadOutside, ThreadLeavesStatements, OutsideAhead
     DEF Thread
<1> QED
  BY <1>4, <1>5, <1>6, <1>7 DEF Next

-----------------------------------------------------------------------------
\* What a step makes of the phase of its resource, in the terms of the
\* abstract specification.
LEMMA GotoBecomes ==
  ASSUME TypeOK, NEW r \in Resources, NEW here, NEW there, Goto(r, here, there)
  PROVE  phases[r] = Phase(here) /\ phases' = [phases EXCEPT ![r] = Phase(there)]
BY DEF TypeOK, Goto, phases

\* Phases that no step changes.
LEMMA SamePhase ==
  ASSUME pc' = pc PROVE phases' = phases
BY DEF phases

\* An abstract stutter.
StutterStep == UNCHANGED <<globals, phases>>

\* Every step is a step of the abstract counters, or none.
LEMMA StepSimulation ==
  ASSUME IInv, CopyIsAhead, [Next]_vars
  PROVE  [Counters!Next]_<<globals, phases>>
<1>t. TypeOK /\ globals \in [Shared -> Values]
  BY DEF IInv, TypeOK
<1>1. ASSUME NEW r \in Resources, Acquire(r) PROVE Counters!Begin(r)
  BY <1>1, <1>t, GotoBecomes DEF Acquire, Goto, Phase, Counters!Begin, Counters!Becomes
<1>2. ASSUME NEW r \in Resources, NEW v \in Shared, Execute(r, v) PROVE StutterStep
  BY <1>2, SamePhase DEF Execute, StutterStep
<1>3. ASSUME NEW r \in Resources, CycleOk(r) PROVE Counters!Complete(r)
  <2>1. Goto(r, "exec", "watchdog") /\ globals' = mem[r] /\ left[r] = {}
    BY <1>3 DEF CycleOk, Publish
  <2>2. globals' = [v \in Shared |-> Bump(globals[v])]
    BY <2>1 DEF CopyIsAhead, Goto
  <2>3. globals' = Counters!Counted(Shared)
    BY <2>2 DEF Counters!Counted, Counters!Wrapped, Bump
  <2>4. Counters!Becomes(r, "busy", "idle")
    <3>1. Phase("exec") = "busy" /\ Phase("watchdog") = "idle"
      BY DEF Phase
    <3> QED
      BY <2>1, <1>t, <3>1, GotoBecomes DEF Counters!Becomes
  <2> QED
    BY <2>3, <2>4 DEF Counters!Complete
<1>4. ASSUME NEW r \in Resources, CycleFails(r) PROVE Counters!Abort(r)
  <2>1. Goto(r, "exec", "failed") /\ globals' = mem[r]
    BY <1>4 DEF CycleFails, Publish
  <2>2. globals' = Counters!Counted(Shared \ left[r])
    BY <2>1 DEF CopyIsAhead, Goto, Counters!Counted, Counters!Wrapped, Bump
  <2>3. Counters!Becomes(r, "busy", "failed")
    BY <2>1, <1>t, GotoBecomes DEF Goto, Phase, Counters!Becomes
  <2> QED
    BY <2>2, <2>3 DEF Counters!Abort
<1>5. ASSUME NEW r \in Resources, SimulationFails(r) PROVE Counters!Refuse(r)
  BY <1>5, <1>t, GotoBecomes DEF SimulationFails, Goto, Phase, Counters!Refuse, Counters!Becomes
<1>6. ASSUME NEW r \in Resources, NEW e, pc[r] = "failed", Fault(r, e) PROVE Counters!Recover(r)
  <2>1. Goto(r, "failed", "faulted")
    BY <1>6 DEF Fault, Goto
  <2> QED
    BY <2>1, <1>6, <1>t, GotoBecomes DEF Fault, Phase, Counters!Recover, Counters!Becomes
<1>7. ASSUME NEW r \in Resources, CycleError(r) PROVE Counters!Recover(r)
  <2>1. CASE Goto(r, "failed", "top") /\ globals' = globals
    <3>1. Phase("failed") = "failed" /\ Phase("top") = "idle"
      BY DEF Phase
    <3> QED
      BY <2>1, <1>t, <3>1, GotoBecomes DEF Counters!Recover, Counters!Becomes
  <2> QED
    BY <1>7, <1>6, <2>1 DEF CycleError
<1>8. ASSUME NEW r \in Resources, NEW here, NEW there, Goto(r, here, there),
             here \notin {"exec", "failed"}, there \notin {"exec", "failed"}, globals' = globals
      PROVE  StutterStep
  <2>1. Phase(here) = "idle" /\ Phase(there) = "idle"
    BY <1>8 DEF Phase
  <2>2. phases[r] = "idle" /\ phases' = [phases EXCEPT ![r] = "idle"]
    BY <1>8, <1>t, <2>1, GotoBecomes
  <2> QED
    BY <1>8, <2>2 DEF phases, StutterStep
<1>9. ASSUME NEW r \in Resources, NEW e, pc[r] \notin {"exec", "failed"}, Fault(r, e)
      PROVE  StutterStep
  <2>1. Goto(r, pc[r], "faulted") /\ globals' = globals
    BY <1>9 DEF Fault, Goto
  <2> QED
    BY <2>1, <1>8, <1>9
<1>10. ASSUME NEW r \in Resources,
              \/ Top(r) \/ TakeCommand(r) \/ EndOfCommands(r) \/ TakeSignal(r)
              \/ SignalledRestartFails(r) \/ WatchdogCheck(r) \/ Wake(r)
       PROVE  StutterStep
  <2>1. CASE Top(r) \/ EndOfCommands(r) \/ TakeSignal(r) \/ Wake(r)
    BY <2>1, <1>8 DEF Top, EndOfCommands, TakeSignal, Wake
  <2>2. CASE TakeCommand(r)
    BY <2>2, SamePhase DEF TakeCommand, StutterStep
  <2>3. CASE SignalledRestartFails(r)
    BY <2>3, <1>9 DEF SignalledRestartFails
  <2>4. CASE WatchdogCheck(r)
    BY <2>4, <1>8, <1>9 DEF WatchdogCheck
  <2> QED
    BY <1>10, <2>1, <2>2, <2>3, <2>4
<1>11. CASE \/ \E r \in Resources, c \in Command : SendCommand(r, c)
            \/ \E r \in Resources : RequestRestart(r) \/ Stop(r)
            \/ Tick \/ UNCHANGED vars
  <2>1. globals' = globals /\ pc' = pc
    BY <1>11 DEF SendCommand, RequestRestart, Stop, Tick, vars, threads
  <2> QED
    BY <2>1, SamePhase
<1>12. CASE \E r \in Resources : Thread(r)
  BY <1>12, <1>1, <1>2, <1>3, <1>4, <1>5, <1>7, <1>10 DEF Thread, Counters!Next, StutterStep
<1> QED
  BY <1>11, <1>12 DEF Next

\* The published values start as the values of one resource, with no cycle
\* under way.
LEMMA InitSimulation == Init => Counters!Init
BY SharedAssumption DEF Init, Counters!Init, Phase, phases, Values

\* Resources that share globals behave like clients of atomic counters, for
\* every number of resources and globals and whatever restarts, commands,
\* faults and watchdogs do outside the lock of with_lock.
THEOREM SharedImplementsCounters == Spec => ImplementsCounters
<1>1. CopyIsAhead /\ IInv /\ [Next]_vars => CopyIsAhead'
  BY NextAhead
<1>2. CopyIsAhead /\ IInv /\ [Next]_vars
        => [Counters!Next]_<<globals, phases>>
  BY StepSimulation
<1> QED
  BY <1>1, <1>2, InitAhead, InitSimulation, SharedInvariance, PTL
     DEF Spec, ImplementsCounters, Counters!Spec
=============================================================================
