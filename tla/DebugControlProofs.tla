------------------------ MODULE DebugControlProofs ------------------------
(***************************************************************************)
(* What holds of the debugger for every number of tasks, nesting depth,    *)
(* set of statements and any number of control actions, and of the debug   *)
(* sessions around it, local and attached.                                 *)
(*                                                                         *)
(* A held thread and the clients share mode, pending_stop, snapshot and    *)
(* target_thread.  None of the properties is inductive alone: that a pause *)
(* is not lost when a thread leaves its hold rests on what is true while   *)
(* it is held, and that rests on the thread having been notified.          *)
(***************************************************************************)
EXTENDS RemoteAttach, TLAPS

\* A thread that is held while the mode is Paused has been announced or will
\* announce the pause, and a pause that is for another thread is still pending.
HoldInv ==
  scan = "held" /\ mode = "Paused" =>
    /\ snapshot \/ pending_stop # "none"
    /\ ~is_target_thread => pending_stop # "none"

\* A step measures from the depth at which its thread was held.
StepInv ==
  /\ scan = "held" => last_call_depths[current_thread] = last_call_depth
  /\ step # NoStep /\ step.from # NoDepth =>
       /\ step.kind = "Over" => step.target_depth = step.from
       /\ step.kind = "Out" /\ step.from > 0 => step.target_depth = step.from - 1

IInv ==
  TypeOK /\ HeldIsAnnounced /\ HeldIsNotified /\ PauseNotLost /\ HoldInv /\ StepInv

-----------------------------------------------------------------------------
LEMMA InitInv == Init => IInv
<1> SUFFICES ASSUME Init PROVE IInv
  OBVIOUS
<1>1. TypeOK
  <2>1. 1 \in Threads /\ 0 \in 0..MaxDepth
    BY DebugAssumption DEF Threads
  <2>2. last_call_depths \in [Threads -> 0..MaxDepth \cup {NoDepth}]
    BY DEF Init
  <2>3. stops \in Seq(Stops)
    BY DEF Init
  <2>4. breakpoints \subseteq Locs /\ ready \subseteq Threads /\ step \in Steps \cup {NoStep} /\ target_thread \in Threads \cup {NoThread}
    BY DEF Init
  <2> QED
    BY <2>1, <2>2, <2>3, <2>4 DEF Init, TypeOK
<1>2. HeldIsAnnounced /\ HeldIsNotified /\ PauseNotLost /\ HoldInv
  BY DEF Init, HeldIsAnnounced, HeldIsNotified, PauseNotLost, HoldInv
<1>3. StepInv
  BY DEF Init, StepInv
<1> QED
  BY <1>1, <1>2, <1>3 DEF IInv

\* The depths that a step is measured by are depths.
LEMMA DepthTypes ==
  ASSUME TypeOK, NEW t \in Threads, NEW k \in Kinds
  PROVE  DepthOf(t) \in 0..MaxDepth /\ StepDepth(t, k) \in 0..MaxDepth
<1>1. DepthOf(t) \in 0..MaxDepth
  BY DEF TypeOK, DepthOf
<1>2. CASE k = "Into"
  BY <1>1, <1>2 DEF StepDepth, TypeOK
<1>3. CASE k = "Over"
  BY <1>1, <1>3 DEF StepDepth
<1>4. CASE k = "Out"
  BY <1>1, <1>4, DebugAssumption DEF StepDepth
<1> QED
  BY <1>1, <1>2, <1>3, <1>4 DEF Kinds

\* Clients: control actions.
LEMMA ActionInv == IInv /\ apply_action => IInv'
<1> SUFFICES ASSUME IInv, apply_action PROVE IInv'
  OBVIOUS
<1> USE DEF IInv
<1>0. acts' \in Nat /\ edits' \in Nat
  BY DEF apply_action, TypeOK
<1>1. UNCHANGED <<points, place, stops>>
  BY DEF apply_action
<1>2. ASSUME NEW r \in {"Pause", "Entry"}, NEW t \in Threads \cup {NoThread}, RequestPause(r, t)
      PROVE  IInv'
  <2>1. TypeOK'
    BY <1>0, <1>1, <1>2 DEF TypeOK, RequestPause, points, place
  <2>2. HeldIsAnnounced' /\ HeldIsNotified' /\ PauseNotLost' /\ HoldInv'
    BY <1>1, <1>2 DEF TypeOK, RequestPause, points, place, HeldIsAnnounced, HeldIsNotified,
       PauseNotLost, HoldInv, is_target_thread
  <2>3. StepInv'
    BY <1>1, <1>2 DEF RequestPause, place, StepInv
  <2> QED
    BY <2>1, <2>2, <2>3
<1>3. CASE Continue
  <2>1. TypeOK'
    BY <1>0, <1>1, <1>3 DEF TypeOK, Continue, Resumed, points, place
  <2>2. HeldIsAnnounced' /\ HeldIsNotified' /\ PauseNotLost' /\ HoldInv'
    BY <1>1, <1>3 DEF Continue, Resumed, place, HeldIsAnnounced, HeldIsNotified, PauseNotLost, HoldInv
  <2>3. StepInv'
    BY <1>1, <1>3 DEF Continue, place, StepInv
  <2> QED
    BY <2>1, <2>2, <2>3
<1>4. ASSUME NEW t \in Threads, NEW k \in Kinds, Step(t, k)
      PROVE  IInv'
  <2>1. step' \in Steps
    BY <1>4, DepthTypes DEF Step, Steps, TypeOK
  <2>2. TypeOK'
    BY <1>0, <1>1, <1>4, <2>1 DEF TypeOK, Step, Resumed, points, place
  <2>3. HeldIsAnnounced' /\ HeldIsNotified' /\ PauseNotLost' /\ HoldInv'
    BY <1>1, <1>4 DEF Step, Resumed, place, HeldIsAnnounced, HeldIsNotified, PauseNotLost, HoldInv
  <2>4. StepInv'
    <3>1. scan' = "held" => last_call_depths'[current_thread'] = last_call_depth'
      BY <1>1 DEF place, StepInv
    <3>2. CASE step'.from = NoDepth
      BY <3>1, <3>2 DEF StepInv
    <3>3. CASE step'.from # NoDepth
      <4>1. scan = "held" /\ current_thread = t /\ step'.from = last_call_depth
        BY <1>4, <3>3 DEF Step
      <4>2. DepthOf(t) = last_call_depth
        BY <4>1 DEF StepInv, DepthOf
      <4>3. step'.kind = k /\ step'.target_depth = StepDepth(t, k)
        BY <1>4 DEF Step
      <4>4. k = "Over" => step'.target_depth = step'.from
        BY <4>1, <4>2, <4>3 DEF StepDepth
      <4>5. k = "Out" /\ step'.from > 0 => step'.target_depth = step'.from - 1
        BY <4>1, <4>2, <4>3 DEF StepDepth
      <4> QED
        BY <3>1, <4>3, <4>4, <4>5 DEF StepInv
    <3> QED
      BY <3>2, <3>3
  <2> QED
    BY <2>2, <2>3, <2>4
<1> QED
  BY <1>2, <1>3, <1>4 DEF apply_action

\* Clients: the rest changes nothing that a hold depends on.
LEMMA ClientInv == IInv /\ (edit_breakpoints \/ drain_stops \/ handle_shutdown) => IInv'
<1> SUFFICES ASSUME IInv, edit_breakpoints \/ drain_stops \/ handle_shutdown PROVE IInv'
  OBVIOUS
<1> USE DEF IInv
<1>1. UNCHANGED <<control, scan, current_thread, last_call_depth, last_call_depths>>
  BY DEF edit_breakpoints, drain_stops, handle_shutdown, place
<1>2. TypeOK'
  <2>1. CASE edit_breakpoints
    BY <2>1 DEF TypeOK, edit_breakpoints, ClearBreakpoints, SetBreakpoints, control, place
  <2>2. CASE drain_stops
    BY <2>2 DEF TypeOK, drain_stops, control, points, place, counts
  <2>3. CASE handle_shutdown
    BY <2>3 DEF TypeOK, handle_shutdown, control, points, counts
  <2> QED
    BY <2>1, <2>2, <2>3
<1>3. HeldIsAnnounced' /\ HeldIsNotified' /\ PauseNotLost' /\ HoldInv' /\ StepInv'
  BY <1>1 DEF control, HeldIsAnnounced, HeldIsNotified, PauseNotLost, HoldInv, StepInv, is_target_thread
<1> QED
  BY <1>2, <1>3

\* The scan thread at a statement.
LEMMA StatementInv ==
  ASSUME IInv, NEW l \in Locs, NEW d \in 0..MaxDepth, on_statement_inner(l, d)
  PROVE  IInv'
<1> USE DEF IInv
<1>1. Seen(d) /\ UNCHANGED <<points, counts>> /\ scan # "held"
  BY DEF on_statement_inner
<1>2. last_call_depths' \in [Threads -> 0..MaxDepth \cup {NoDepth}] /\ last_call_depth' \in 0..MaxDepth
  BY <1>1 DEF Seen, TypeOK
<1>3. last_call_depths'[current_thread'] = last_call_depth'
  BY <1>1 DEF Seen, TypeOK
<1>4. step' \in Steps \cup {NoStep} =>
        \A r \in Reasons, g \in Nat : Append(stops, [reason |-> r, generation |-> g]) \in Seq(Stops)
  BY DEF TypeOK, Stops
<1>5. CASE HoldForPause(l, d)
  <2>1. pending_stop # "none"
    BY <1>1, <1>5 DEF PauseNotLost, HoldForPause
  <2>2. snapshot' = TRUE /\ pending_stop' = "none" /\ emit_stop(pending_stop, 0)
    BY <1>5, <2>1 DEF HoldForPause, ConsumePending
  <2>3. stops' \in Seq(Stops)
    BY <2>1, <2>2, <1>4, <1>5 DEF TypeOK, Reasons, emit_stop, HoldForPause
  <2>4. TypeOK'
    BY <1>1, <1>2, <1>5, <2>2, <2>3 DEF TypeOK, HoldForPause, Seen, points, counts
  <2>5. HeldIsAnnounced' /\ HeldIsNotified' /\ PauseNotLost' /\ HoldInv'
    BY <1>1, <1>5, <2>2 DEF HoldForPause, Seen, HeldIsAnnounced, HeldIsNotified, PauseNotLost,
       HoldInv, is_target_thread
  <2>6. StepInv'
    BY <1>3, <1>5 DEF HoldForPause, StepInv
  <2> QED
    BY <2>4, <2>5, <2>6
<1>6. CASE HoldForStep(l, d)
  <2>1. stops' \in Seq(Stops)
    BY <1>4, <1>6 DEF Reasons, emit_stop, HoldForStep
  <2>2. TypeOK'
    BY <1>1, <1>2, <1>6, <2>1 DEF TypeOK, HoldForStep, Seen, points, counts
  <2>3. HeldIsAnnounced' /\ HeldIsNotified' /\ PauseNotLost' /\ HoldInv'
    BY <1>1, <1>6 DEF HoldForStep, StepDone, StepHere, Seen, HeldIsAnnounced, HeldIsNotified,
       PauseNotLost, HoldInv, is_target_thread
  <2>4. StepInv'
    BY <1>3, <1>6 DEF HoldForStep, StepInv
  <2> QED
    BY <2>2, <2>3, <2>4
<1>7. CASE HoldForBreakpoint(l, d)
  <2>1. stops' \in Seq(Stops)
    BY <1>4, <1>7 DEF Reasons, emit_stop, HoldForBreakpoint, TypeOK
  <2>2. TypeOK'
    BY <1>1, <1>2, <1>7, <2>1 DEF TypeOK, HoldForBreakpoint, Seen, points, counts
  <2>3. HeldIsAnnounced' /\ HeldIsNotified' /\ PauseNotLost' /\ HoldInv'
    BY <1>1, <1>7 DEF HoldForBreakpoint, Seen, HeldIsAnnounced, HeldIsNotified, PauseNotLost,
       HoldInv, is_target_thread
  <2>4. StepInv'
    BY <1>3, <1>7 DEF HoldForBreakpoint, StepInv
  <2> QED
    BY <2>2, <2>3, <2>4
<1>8. CASE Pass(l, d)
  <2>1. step' \in Steps \cup {NoStep}
    BY <1>8 DEF Pass, Armed, StepHere, Steps, TypeOK
  <2>2. TypeOK'
    BY <1>1, <1>2, <1>8, <2>1 DEF TypeOK, Pass, Seen, points, counts
  <2>3. HeldIsAnnounced' /\ HeldIsNotified' /\ PauseNotLost' /\ HoldInv'
    BY <1>1, <1>8 DEF Pass, HeldIsAnnounced, HeldIsNotified, PauseNotLost, HoldInv
  <2>4. StepInv'
    <3>1. step' # NoStep => step # NoStep /\ step'.kind = step.kind /\ step'.from = step.from
                             /\ step'.target_depth = step.target_depth
      BY <1>8 DEF Pass, Armed, StepHere, Steps, TypeOK
    <3> QED
      BY <1>3, <3>1 DEF StepInv
  <2> QED
    BY <2>2, <2>3, <2>4
<1> QED
  BY <1>5, <1>6, <1>7, <1>8 DEF on_statement_inner

\* A turn of the loop around the condition variable.
LEMMA WakeInv == IInv /\ Wake => IInv'
<1> SUFFICES ASSUME IInv, Wake PROVE IInv'
  OBVIOUS
<1> USE DEF IInv
<1>1. UNCHANGED <<mode, target_thread, step, points, counts, current_thread, ready,
                  last_call_depth, last_call_depths, halt>> /\ notified' = FALSE /\ scan = "held"
  BY DEF Wake
<1>2. StepInv'
  BY <1>1 DEF StepInv
<1>3. CASE mode = "Paused" /\ is_target_thread
  <2>1. ConsumePending /\ scan' = "held"
    BY <1>3, <1>1 DEF Wake
  <2>2. snapshot' = TRUE /\ pending_stop' = "none"
    BY <2>1, <1>1, <1>3 DEF ConsumePending, HoldInv, TypeOK
  <2>3. stops' \in Seq(Stops)
    <3>1. CASE pending_stop = "none"
      BY <2>1, <3>1 DEF ConsumePending, TypeOK
    <3>2. CASE pending_stop # "none"
      <4>1. pending_stop \in Reasons /\ emit_stop(pending_stop, 0)
        BY <2>1, <3>2 DEF ConsumePending, TypeOK, Reasons
      <4>2. [reason |-> pending_stop, generation |-> 0] \in Stops
        BY <4>1 DEF Stops
      <4> QED
        BY <4>1, <4>2 DEF emit_stop, TypeOK
    <3> QED
      BY <3>1, <3>2
  <2>4. TypeOK'
    BY <1>1, <2>1, <2>2, <2>3 DEF TypeOK, points, counts
  <2>5. HeldIsAnnounced' /\ HeldIsNotified' /\ PauseNotLost' /\ HoldInv'
    BY <1>1, <1>3, <2>1, <2>2 DEF HeldIsAnnounced, HeldIsNotified, PauseNotLost, HoldInv, is_target_thread
  <2> QED
    BY <1>2, <2>4, <2>5
<1>4. CASE ~(mode = "Paused" /\ is_target_thread)
  <2>1. scan' = "body" /\ UNCHANGED <<stops, snapshot, pending_stop>>
    BY <1>4 DEF Wake
  <2>2. TypeOK'
    BY <1>1, <2>1 DEF TypeOK, points, counts
  <2>3. HeldIsAnnounced' /\ HeldIsNotified' /\ PauseNotLost' /\ HoldInv'
    BY <1>1, <1>4, <2>1 DEF HeldIsAnnounced, HeldIsNotified, PauseNotLost, HoldInv
  <2> QED
    BY <1>2, <2>2, <2>3
<1> QED
  BY <1>3, <1>4

\* The scan thread around its statements.
Loop == BeginCycle \/ EndTask \/ TaskFails \/ LoopEnds

LEMMA LoopFacts == Loop => LoopStep /\ scan # "held" /\ scan' \in {"task", "idle", "ended"}
BY DEF Loop, BeginCycle, EndTask, TaskFails, LoopEnds, Enter

LEMMA LoopInv == IInv /\ Loop => IInv'
<1> SUFFICES ASSUME IInv, Loop PROVE IInv'
  OBVIOUS
<1> USE DEF IInv
<1>1. LoopStep /\ scan # "held" /\ scan' \in {"task", "idle", "ended"}
  BY LoopFacts
<1>2. current_thread' \in Threads /\ ready' \subseteq Threads
  BY DEF Loop, BeginCycle, EndTask, TaskFails, LoopEnds, Enter, TypeOK
<1>3. TypeOK'
  BY <1>1, <1>2 DEF TypeOK, LoopStep, control, points, counts
<1>4. HeldIsAnnounced' /\ HeldIsNotified' /\ PauseNotLost' /\ HoldInv' /\ StepInv'
  BY <1>1 DEF LoopStep, control, HeldIsAnnounced, HeldIsNotified, PauseNotLost, HoldInv, StepInv
<1> QED
  BY <1>3, <1>4

LEMMA NextInv == IInv /\ [Next]_dbgVars => IInv'
<1> SUFFICES ASSUME IInv, [Next]_dbgVars PROVE IInv'
  OBVIOUS
<1>1. CASE UNCHANGED dbgVars
  BY <1>1 DEF dbgVars, control, points, place, counts, IInv, TypeOK, HeldIsAnnounced, HeldIsNotified,
     PauseNotLost, HoldInv, StepInv, is_target_thread
<1>2. CASE Statement
  BY <1>2, StatementInv DEF Statement
<1>3. CASE Loop
  BY <1>3, LoopInv
<1>4. CASE Wake
  BY <1>4, WakeInv
<1>5. CASE apply_action
  BY <1>5, ActionInv
<1>6. CASE edit_breakpoints \/ drain_stops \/ handle_shutdown
  BY <1>6, ClientInv
<1> QED
  BY <1>1, <1>2, <1>3, <1>4, <1>5, <1>6, Zenon DEF Next, Scan, Client, Loop

-----------------------------------------------------------------------------
\* The inductive invariant of the debugger.
THEOREM DebugInvariance == Spec => []IInv
BY InitInv, NextInv, PTL DEF Spec

\* DebugState is well typed in every reachable state; in particular a step out
\* of a program does not underflow the depth.
THEOREM DebugTypeCorrect == Spec => []TypeOK
<1>1. IInv => TypeOK
  BY DEF IInv
<1> QED
  BY <1>1, DebugInvariance, PTL

\* No lost wake-up: a held thread that may run on has been notified.
THEOREM HeldAlwaysNotified == Spec => []HeldIsNotified
<1>1. IInv => HeldIsNotified
  BY DEF IInv
<1> QED
  BY <1>1, DebugInvariance, PTL

\* A held thread has a snapshot to inspect, or is about to look again.
THEOREM HeldAlwaysAnnounced == Spec => []HeldIsAnnounced
<1>1. IInv => HeldIsAnnounced
  BY DEF IInv
<1> QED
  BY <1>1, DebugInvariance, PTL

\* An accepted pause is pending until it holds a thread, for any number of tasks.
THEOREM PauseNeverLost == Spec => []PauseNotLost
<1>1. IInv => PauseNotLost
  BY DEF IInv
<1> QED
  BY <1>1, DebugInvariance, PTL

\* Step over and step out end where they should, at any depth of calls.
THEOREM StepsAlwaysEndInFrame == Spec => StepsEndInFrame
<1> DEFINE A == step # NoStep /\ scan # "held" /\ scan' = "held"
                /\ stops'[Len(stops')].reason = "Step" /\ step.from # NoDepth
           P == /\ step.kind = "Over" => last_call_depth' <= step.from
                /\ step.kind = "Out" /\ step.from > 0 => last_call_depth' < step.from
<1>1. IInv /\ [Next]_dbgVars => [A => P]_dbgVars
  <2> SUFFICES ASSUME IInv, Next, A PROVE P
    OBVIOUS
  <2> USE DEF IInv
  <2>1. Statement
    BY LoopFacts DEF Next, Scan, Client, Loop, Wake, apply_action, edit_breakpoints,
       drain_stops, handle_shutdown, place
  <2>2. PICK l \in Locs, d \in 0..MaxDepth : on_statement_inner(l, d)
    BY <2>1 DEF Statement
  <2>3. ASSUME NEW r, NEW g, emit_stop(r, g) PROVE r = "Step"
    BY <2>3 DEF emit_stop, TypeOK
  <2>4. ~HoldForPause(l, d)
    <3> SUFFICES ASSUME HoldForPause(l, d) PROVE FALSE
      OBVIOUS
    <3>1. pending_stop # "none"
      BY DEF HoldForPause, PauseNotLost
    <3>2. emit_stop(pending_stop, 0)
      BY <3>1 DEF HoldForPause, ConsumePending
    <3> QED
      BY <3>2, <2>3 DEF TypeOK
  <2>5. ~HoldForBreakpoint(l, d)
    BY <2>3 DEF HoldForBreakpoint
  <2>6. HoldForStep(l, d)
    BY <2>2, <2>4, <2>5 DEF on_statement_inner, Pass
  <2>7. last_call_depth' = d
    BY <2>2 DEF on_statement_inner, Seen
  <2>8. step.kind # "Into" => d <= step.target_depth
    BY <2>6 DEF HoldForStep, StepDone
  <2>9. step \in Steps
    BY DEF TypeOK
  <2> QED
    BY <2>7, <2>8, <2>9, DebugAssumption DEF StepInv, Steps, NoDepth
<1> QED
  BY <1>1, DebugInvariance, PTL DEF Spec, StepsEndInFrame

-----------------------------------------------------------------------------
(***************************************************************************)
(* Debug sessions.  Their statements rest on one fact about the debugger:  *)
(* a pause that nobody has yet to announce is a thread that is held, with  *)
(* a snapshot, and that will stay held until somebody resumes it.          *)
(***************************************************************************)
Stopped   == mode = "Paused" /\ pending_stop = "none"
StopHolds == Stopped => scan = "held" /\ snapshot /\ is_target_thread

\* A step of the scan thread keeps a stop, and emits one only on entering it.
LEMMA ScanStops ==
  ASSUME StopHolds, Scan
  PROVE  /\ StopHolds'
         /\ Stopped => Stopped' /\ stops' = stops
         /\ stops' # stops => Stopped' /\ \E s : stops' = Append(stops, s)
<1>1. CASE Loop
  BY <1>1, LoopFacts DEF LoopStep, control, StopHolds, Stopped, is_target_thread
<1>2. ASSUME NEW l \in Locs, NEW d \in 0..MaxDepth, on_statement_inner(l, d)
      PROVE  /\ StopHolds' /\ ~Stopped
             /\ stops' # stops => Stopped' /\ \E s : stops' = Append(stops, s)
  <2>1. ~Stopped /\ UNCHANGED current_thread
    BY <1>2 DEF on_statement_inner, StopHolds, Seen
  <2>2. CASE HoldForPause(l, d)
    <3>1. pending_stop # "none"
      BY <2>1, <2>2 DEF HoldForPause, Stopped
    <3> QED
      BY <2>1, <2>2, <3>1
         DEF HoldForPause, ConsumePending, emit_stop, StopHolds, Stopped, is_target_thread
  <2>3. CASE HoldForStep(l, d)
    BY <2>1, <2>3 DEF HoldForStep, StepDone, StepHere, emit_stop, StopHolds, Stopped, is_target_thread
  <2>4. CASE HoldForBreakpoint(l, d)
    BY <2>1, <2>4 DEF HoldForBreakpoint, emit_stop, StopHolds, Stopped, is_target_thread
  <2>5. CASE Pass(l, d)
    BY <2>1, <2>5 DEF Pass, StopHolds, Stopped
  <2> QED
    BY <1>2, <2>1, <2>2, <2>3, <2>4, <2>5 DEF on_statement_inner
<1>3. CASE Wake
  BY <1>3 DEF Wake, ConsumePending, emit_stop, StopHolds, Stopped, is_target_thread
<1> QED
  BY <1>1, <1>2, <1>3 DEF Scan, Statement, Loop

\* A request to pause leaves a stop as it is; whoever resumes ends it.
LEMMA RequestStops ==
  ASSUME StopHolds, UNCHANGED <<scan, current_thread>>,
         RequestPause("Pause", NoThread) \/ Resumed
  PROVE  /\ StopHolds'
         /\ Stopped /\ RequestPause("Pause", NoThread) => Stopped'
BY DEF RequestPause, Resumed, StopHolds, Stopped, is_target_thread

\* What leaves the debugger's control and the scan thread alone keeps a stop.
LEMMA SameStops ==
  ASSUME UNCHANGED <<control, scan, current_thread>>
  PROVE  (StopHolds => StopHolds') /\ (Stopped <=> Stopped')
BY DEF control, StopHolds, Stopped, is_target_thread

-----------------------------------------------------------------------------
(***************************************************************************)
(* A local session: what a reload leaves behind.                           *)
(***************************************************************************)
\* From the start of the new runner to the response the pause is in force, and
\* the breakpoints differ from what was asked for only between stop_clear and
\* reload_program; a reload does not enter the gate.
ReloadInv ==
  /\ adapter = "enter" => req # "reload"
  /\ req = "reload" /\ adapter \in {"lock", "respond"} /\ was_paused => mode = "Paused"
  /\ loaded /\ adapter \notin {"resume", "join", "load", "exited"} => breakpoints = requested

\* Only a resume ends the mode Paused.
LEMMA ScanKeepsPaused == Scan /\ mode = "Paused" => mode' = "Paused"
BY LoopFacts DEF Scan, Loop, Wake, LoopStep, control, Statement, on_statement_inner,
   HoldForPause, HoldForStep, HoldForBreakpoint, Pass

LEMMA ScanKeepsPoints == Scan => UNCHANGED points
BY LoopFacts DEF Scan, Loop, Wake, LoopStep, Statement, on_statement_inner

LEMMA ReloadStep == ReloadInv /\ [SessionNext]_sessVars => ReloadInv'
<1> SUFFICES ASSUME ReloadInv, [SessionNext]_sessVars PROVE ReloadInv'
  OBVIOUS
<1> USE DEF Goes, Keeps, dbgVars, control, points
<1>1. CASE Send
  BY <1>1 DEF Send, ReloadInv
<1>2. CASE handle_continue \/ handle_pause \/ handle_step \/ handle_variables
  BY <1>2 DEF handle_continue, handle_pause, handle_step, handle_variables, ReloadInv, StepRequests, StepKindOf
<1>3. CASE handle_set_breakpoints
  BY <1>3 DEF handle_set_breakpoints, SetBreakpoints, ReloadInv
<1>4. CASE handle_disconnect \/ handle_reload
  BY <1>4 DEF handle_disconnect, handle_reload, ReloadInv
<1>5. CASE expect_pause \/ enter_gate
  BY <1>5 DEF expect_pause, enter_gate, ReloadInv
<1>6. CASE act
  <2>1. mode' = "Paused" \/ req # "reload"
    BY <1>6 DEF act, RequestPause
  <2> QED
    BY <1>6, <2>1 DEF act, AfterReload, ReloadInv
<1>7. CASE lock_runtime \/ respond
  BY <1>7 DEF lock_runtime, respond, NoRequest, ReloadInv
<1>8. CASE stop_flag \/ stop_clear \/ stop_resume \/ join
  BY <1>8 DEF stop_flag, stop_clear, stop_resume, join, ReloadInv
<1>9. CASE reload_program
  BY <1>9 DEF reload_program, ReloadInv
<1>10. CASE start_runner
  BY <1>10 DEF start_runner, AfterReload, ReloadInv
<1>11. CASE Coordinator
  BY <1>11 DEF Coordinator, recv_stop, wait_clear, filter_stop, write_stopped, serving, ReloadInv
<1>12. CASE Runner
  BY <1>12, ScanKeepsPaused, ScanKeepsPoints DEF Runner, Runs, serving, ReloadInv
<1>13. CASE UNCHANGED sessVars
  BY <1>13 DEF sessVars, serving, ReloadInv
<1> QED
  BY <1>1, <1>2, <1>3, <1>4, <1>5, <1>6, <1>7, <1>8, <1>9, <1>10, <1>11, <1>12, <1>13
     DEF SessionNext, Adapter

\* A reload of the program (adapter/handlers/lifecycle.rs) leaves a paused
\* session paused, with the breakpoints the editor asked for.
THEOREM ReloadsAlwaysKeepSession == SessionSpec => []ReloadKeepsSession
<1>1. SessionInit => ReloadInv
  BY DEF SessionInit, Init, NoRequest, ReloadInv
<1>2. ReloadInv => ReloadKeepsSession
  BY DEF ReloadInv, ReloadKeepsSession
<1> QED
  BY <1>1, <1>2, ReloadStep, PTL DEF SessionSpec

-----------------------------------------------------------------------------
(***************************************************************************)
(* A local session that reloads nothing: what it shows as stopped.         *)
(***************************************************************************)
Single(q)   == q # <<>> /\ q = <<q[1]>>
NoStopsDue  == stops = <<>> /\ coord = "recv"

\* The editor has resumed the program and is yet to be told.
GoesOn == req \in Resuming /\ adapter \in {"enter", "respond"}

\* A disconnect has told the runner to go on: nothing is asked afterwards.
Leaving == req = "disconnect" /\ adapter # "idle"

\* The editor asks to resume only what it is shown as stopped.
Phases ==
  /\ req \in Requests \cup {NoRequest}
  /\ adapter \in {"halt", "clear", "resume", "join", "exited"} => req = "disconnect"
  /\ adapter \notin {"load", "start"}
  /\ adapter = "store" => req \notin Resuming
  /\ req \in Resuming /\ adapter \in {"idle", "act"} => view = "stopped"

\* A stop that is under way to the editor is the only one and in force.
OneStop ==
  \/ NoStopsDue
  \/ /\ Stopped
     /\ stops = <<>> \/ (coord = "recv" /\ Single(stops))

\* What is shown as stopped is, and no other stop is under way.
ShownStop == view = "stopped" /\ ~GoesOn => Stopped /\ NoStopsDue

ShownInv == StopHolds /\ Phases /\ (~Leaving => OneStop /\ ShownStop)

\* Each group of steps keeps ShownInv, by what it leaves alone.
LEMMA AdapterShown ==
  ASSUME ShownInv, Adapter, "reload" \notin Requests
  PROVE  ShownInv'
<1> USE DEF Goes, Keeps, dbgVars, control, routing, points, place, ShownInv, GoesOn, Leaving,
            NoStopsDue, NoRequest
<1>1. req # "reload" /\ "continue" \in Resuming /\ "pause" \notin Resuming
      /\ "setBreakpoints" \notin Resuming /\ "variables" \notin Resuming /\ "disconnect" \notin Resuming
      /\ "none" \notin Resuming
  BY DEF Phases, Resuming, StepRequests, StepKindOf
<1>2. CASE handle_continue \/ handle_pause \/ handle_variables \/ expect_pause
  <2>1. StopHolds' /\ (Stopped <=> Stopped') /\ UNCHANGED <<stops, coord, view, req>>
    BY <1>2, SameStops DEF handle_continue, handle_pause, handle_variables, expect_pause
  <2>2. Phases' /\ (~Leaving' => ~Leaving) /\ (GoesOn <=> GoesOn')
    BY <1>1, <1>2 DEF Phases, handle_continue, handle_pause, handle_variables, expect_pause
  <2> QED
    BY <2>1, <2>2 DEF OneStop, ShownStop
<1>3. CASE handle_step
  <2>1. StopHolds'
    BY <1>3, RequestStops DEF handle_step, Step
  <2>2. Phases' /\ GoesOn'
    BY <1>1, <1>3 DEF handle_step, Phases, Resuming
  <2>3. NoStopsDue'
    BY <1>1, <1>3 DEF handle_step, Phases, Resuming, ShownStop
  <2> QED
    BY <2>1, <2>2, <2>3 DEF OneStop, ShownStop
<1>4. CASE handle_set_breakpoints
  <2>1. StopHolds' /\ (Stopped <=> Stopped') /\ UNCHANGED <<stops, coord, view, req>>
    BY <1>4, SameStops DEF handle_set_breakpoints
  <2>2. Phases' /\ (~Leaving' => ~Leaving) /\ ~GoesOn /\ ~GoesOn'
    BY <1>1, <1>4 DEF Phases, handle_set_breakpoints
  <2> QED
    BY <2>1, <2>2 DEF OneStop, ShownStop
<1>5. CASE handle_disconnect
  <2>1. StopHolds'
    BY <1>5, RequestStops DEF handle_disconnect, Continue
  <2>2. Phases' /\ Leaving'
    BY <1>5 DEF handle_disconnect, Phases, Resuming, StepRequests, StepKindOf
  <2> QED
    BY <2>1, <2>2
<1>6. CASE act
  <2>1. Phases' /\ adapter' = "enter" /\ UNCHANGED <<stops, coord, view, req>>
    BY <1>1, <1>6 DEF act, Phases
  <2>2. CASE req = "continue"
    <3>1. StopHolds' /\ GoesOn' /\ NoStopsDue'
      BY <1>1, <1>6, <2>1, <2>2, RequestStops DEF act, Continue, Phases, ShownStop, Leaving
    <3> QED
      BY <2>1, <3>1 DEF OneStop, ShownStop
  <2>3. CASE req # "continue"
    <3>1. StopHolds' /\ (Stopped => Stopped')
      BY <1>6, <2>3, RequestStops DEF act
    <3>2. ~GoesOn
      BY <1>6 DEF act
    <3> QED
      BY <1>6, <2>1, <3>1, <3>2 DEF OneStop, ShownStop
  <2> QED
    BY <2>2, <2>3
<1>7. CASE enter_gate \/ lock_runtime
  <2>1. StopHolds' /\ (Stopped <=> Stopped') /\ UNCHANGED <<stops, coord, view, req>>
    BY <1>7, SameStops DEF enter_gate, lock_runtime
  <2>2. Phases' /\ (~Leaving' => ~Leaving) /\ (GoesOn => GoesOn')
    BY <1>7 DEF Phases, enter_gate, lock_runtime
  <2> QED
    BY <2>1, <2>2 DEF OneStop, ShownStop
<1>8. CASE respond
  <2>1. StopHolds' /\ (Stopped <=> Stopped') /\ UNCHANGED <<stops, coord>>
    BY <1>8, SameStops DEF respond
  <2>2. Phases'
    BY <1>1, <1>8 DEF Phases, respond
  <2>3. Leaving \/ view' = "running" \/ (view' = view /\ ~GoesOn)
    BY <1>8 DEF respond
  <2> QED
    BY <1>8, <2>1, <2>2, <2>3 DEF OneStop, ShownStop, respond
<1>9. CASE stop_flag \/ stop_clear \/ stop_resume \/ join \/ reload_program \/ start_runner
  <2>1. Leaving /\ Leaving' /\ Phases'
    BY <1>1, <1>9 DEF stop_flag, stop_clear, stop_resume, join, reload_program, start_runner, Phases
  <2>2. StopHolds'
    BY <1>9, <2>1, RequestStops, SameStops
       DEF stop_flag, stop_clear, stop_resume, join, reload_program, start_runner, Continue, Phases
  <2> QED
    BY <2>1, <2>2
<1>10. CASE handle_reload
  BY <1>1, <1>10 DEF handle_reload
<1> QED
  BY <1>2, <1>3, <1>4, <1>5, <1>6, <1>7, <1>8, <1>9, <1>10 DEF Adapter

LEMMA SingleQueue ==
  ASSUME NEW q, Single(q)
  PROVE  Len(q) = 1 /\ Tail(q) = <<>>
<1>1. PICK s : q = <<s>>
  BY DEF Single
<1> QED
  BY <1>1

LEMMA CoordinatorShown ==
  ASSUME ShownInv, Coordinator
  PROVE  ShownInv'
<1> USE DEF CoordGoes, dbgVars, control, place, serving, ShownInv, Phases
<1>1. StopHolds' /\ (Stopped <=> Stopped') /\ UNCHANGED <<req, adapter>>
  BY SameStops DEF Coordinator, recv_stop, wait_clear, filter_stop, write_stopped
<1>2. (Leaving <=> Leaving') /\ (GoesOn <=> GoesOn')
  BY <1>1 DEF Leaving, GoesOn
<1>3. CASE recv_stop
  <2>1. ASSUME ~Leaving
        PROVE  Stopped /\ stops' = <<>> /\ coord' = "wait" /\ UNCHANGED view
    BY <1>3, <2>1, SingleQueue DEF recv_stop, OneStop, NoStopsDue
  <2> QED
    <3>1. ASSUME ~Leaving PROVE OneStop'
      BY <1>1, <2>1, <3>1 DEF OneStop
    <3>2. Leaving \/ ~(view = "stopped" /\ ~GoesOn)
      BY <1>3 DEF recv_stop, ShownStop, NoStopsDue
    <3>3. Phases' /\ UNCHANGED view
      BY <1>1, <1>3 DEF recv_stop
    <3> QED
      BY <1>1, <1>2, <3>1, <3>2, <3>3 DEF ShownStop
<1>4. CASE wait_clear \/ filter_stop
  BY <1>1, <1>2, <1>4 DEF wait_clear, filter_stop, OneStop, ShownStop, NoStopsDue
<1>5. CASE write_stopped
  BY <1>1, <1>2, <1>5 DEF write_stopped, OneStop, ShownStop, NoStopsDue
<1> QED
  BY <1>3, <1>4, <1>5 DEF Coordinator

LEMMA RunnerShown ==
  ASSUME ShownInv, Runner
  PROVE  ShownInv'
<1> USE DEF serving, routing, ShownInv
<1>1. UNCHANGED <<req, adapter, view, coord>>
  BY DEF Runner, Runs
<1>2. Phases' /\ (Leaving <=> Leaving') /\ (GoesOn <=> GoesOn')
  BY <1>1 DEF Phases, Leaving, GoesOn
<1>3. /\ StopHolds'
      /\ Stopped => Stopped' /\ stops' = stops
      /\ stops' # stops => Stopped' /\ \E s : stops' = Append(stops, s)
  BY ScanStops DEF Runner, Runs
<1>4. CASE stops' = stops
  BY <1>1, <1>2, <1>3, <1>4 DEF OneStop, ShownStop, NoStopsDue
<1>5. ASSUME stops' # stops, ~Leaving
      PROVE  OneStop' /\ ShownStop'
  <2>1. ~Stopped /\ stops = <<>> /\ coord = "recv"
    BY <1>3, <1>5 DEF OneStop, NoStopsDue
  <2>2. PICK s : stops' = Append(stops, s)
    BY <1>3, <1>5
  <2>3. Single(stops')
    BY <2>1, <2>2 DEF Single
  <2> QED
    BY <1>1, <1>2, <1>3, <1>5, <2>1, <2>3 DEF OneStop, ShownStop
<1> QED
  BY <1>2, <1>3, <1>4, <1>5

LEMMA ShownStep ==
  ASSUME "reload" \notin Requests
  PROVE  ShownInv /\ [SessionNext]_sessVars => ShownInv'
<1> SUFFICES ASSUME ShownInv, [SessionNext]_sessVars PROVE ShownInv'
  OBVIOUS
<1>1. CASE Send
  <2>1. StopHolds' /\ (Stopped <=> Stopped') /\ UNCHANGED <<stops, coord, view, adapter>>
    BY <1>1, SameStops DEF Send, ShownInv, dbgVars, control, place, routing
  <2>2. ~Leaving /\ ~GoesOn /\ ~GoesOn' /\ Phases'
    BY <1>1 DEF Send, ShownInv, Leaving, GoesOn, Phases
  <2> QED
    BY <2>1, <2>2 DEF ShownInv, OneStop, ShownStop, NoStopsDue
<1>2. CASE UNCHANGED sessVars
  BY <1>2 DEF sessVars, dbgVars, control, place, serving, routing, ShownInv, StopHolds, Stopped,
     is_target_thread, Phases, Leaving, OneStop, ShownStop, NoStopsDue, GoesOn, Single
<1> QED
  BY <1>1, <1>2, AdapterShown, CoordinatorShown, RunnerShown DEF SessionNext

\* What write_stopped has shown as stopped (adapter/stop.rs) is a thread that is
\* held and a snapshot to inspect: no resume, pause, step or edit of the
\* breakpoints can overtake the stopped event.  A reload is apart, which replaces
\* the runner under a stop that is shown.
THEOREM StopsAreTrue ==
  ASSUME "reload" \notin Requests
  PROVE  SessionSpec => []StoppedIsTrue
<1>1. SessionInit => ShownInv
  BY DEF SessionInit, Init, NoRequest, Resuming, StepRequests, StepKindOf, ShownInv, StopHolds, Stopped,
     Phases, Leaving, OneStop, ShownStop, NoStopsDue
<1>2. ShownInv => StoppedIsTrue
  BY DEF ShownInv, StopHolds, Stopped, Leaving, ShownStop, GoesOn, StoppedIsTrue
<1>3. ShownInv /\ [SessionNext]_sessVars => ShownInv'
  BY ShownStep
<1> QED
  BY <1>1, <1>2, <1>3, PTL DEF SessionSpec

-----------------------------------------------------------------------------
(***************************************************************************)
(* An attached session: what it shows as stopped.                          *)
(***************************************************************************)
\* The poller is started by the attach, and the editor asks to resume only what
\* it is shown as stopped.
RemotePhases ==
  /\ adapter \in {"state", "drain", "spawn"} =>
       view = "running" /\ req = "attach" /\ poller = "off" /\ batch = <<>>
  /\ req \in Resuming /\ adapter \in {"idle", "ask"} => view = "stopped"

\* The poller works off what it has received before it asks again.
WorksOff == poller \in {"off", "poll"} <=> batch = <<>>

NothingDue == stops = <<>> /\ batch = <<>>

\* The stop that the attach found is in force, and no other will be received.
FoundStop ==
  req = "attach" /\ found /\ adapter # "state" =>
    Stopped /\ (adapter # "drain" => NothingDue)

\* A stop that is under way to the editor is the only one and in force.
OneRemoteStop ==
  \/ NothingDue
  \/ /\ Stopped
     /\ (batch = <<>> /\ Single(stops)) \/ (stops = <<>> /\ Single(batch))

ShownRemoteStop == view = "stopped" /\ ~GoesOn => Stopped /\ NothingDue

\* Once the stops of the time before the attach are drained.
Following == adapter \notin {"state", "drain"} => OneRemoteStop /\ ShownRemoteStop

\* What the editor is shown can be relied on.
Reliable == linked /\ ~elsewhere

AttachInv == StopHolds /\ RemotePhases /\ (Reliable => WorksOff /\ FoundStop /\ Following)

LEMMA RemoteAdapterShown ==
  ASSUME AttachInv, RemoteAdapter
  PROVE  AttachInv'
<1> USE DEF Goes, dbgVars, control, routing, place, points, local, AttachInv, Reliable, NothingDue, WorksOff,
            remote, polling, Handles
<1>1. /\ "pause" \notin Resuming /\ "setBreakpoints" \notin Resuming /\ "none" \notin Resuming
      /\ "attach" \notin Resuming /\ "disconnect" \notin Resuming
  BY DEF Resuming, StepRequests, StepKindOf
<1>2. CASE read_state
  <2>1. StopHolds' /\ (Stopped <=> Stopped') /\ UNCHANGED req
    BY <1>2, SameStops DEF read_state, Attaches
  <2>2. RemotePhases' /\ adapter' = "drain" /\ linked' = linked /\ UNCHANGED <<poller, batch, stops>>
    BY <1>2 DEF read_state, Attaches, RemotePhases
  <2>3. ~elsewhere' /\ found' => Stopped
    BY <1>2 DEF read_state, Stopped
  <2>4. WorksOff'
    BY <2>2 DEF RemotePhases
  <2> QED
    BY <2>1, <2>2, <2>3, <2>4 DEF FoundStop, Following
<1>3. CASE discard_stops
  <2>1. StopHolds' /\ (Stopped <=> Stopped') /\ UNCHANGED <<req, found, linked, elsewhere>>
    BY <1>3, SameStops DEF discard_stops, Attaches
  <2>2. /\ RemotePhases' /\ adapter' = "spawn" /\ view' = "running"
        /\ UNCHANGED <<poller, batch>> /\ (Reliable => NothingDue')
    BY <1>3 DEF discard_stops, Attaches, RemotePhases
  <2> QED
    BY <1>3, <2>1, <2>2 DEF FoundStop, Following, OneRemoteStop, ShownRemoteStop, discard_stops
<1>4. CASE start_remote_polling
  <2>1. StopHolds' /\ (Stopped <=> Stopped') /\ UNCHANGED <<req, found, linked, elsewhere, stops, batch, view>>
    BY <1>4, SameStops DEF start_remote_polling, Attaches
  <2>2. RemotePhases' /\ adapter' = "respond"
    BY <1>4 DEF start_remote_polling, Attaches, RemotePhases
  <2>3. view = "running" /\ batch = <<>> /\ poller' \in {"off", "poll"}
    BY <1>4 DEF start_remote_polling, RemotePhases
  <2> QED
    BY <1>4, <2>1, <2>2, <2>3
       DEF FoundStop, Following, OneRemoteStop, ShownRemoteStop, start_remote_polling
<1>5. CASE remote_expect \/ read_generation \/ remember_generation \/ enter_remote_gate
           \/ remote_disconnect \/ joined
  <2>1. /\ StopHolds' /\ (Stopped <=> Stopped')
        /\ UNCHANGED <<req, found, linked, elsewhere, stops, batch, view, poller>>
    BY <1>5, SameStops
       DEF remote_expect, read_generation, remember_generation, enter_remote_gate, enter_gate,
           remote_disconnect, joined, attachVars
  <2>2. /\ RemotePhases' /\ (GoesOn => GoesOn')
        /\ adapter \notin {"state", "drain"} /\ adapter' \notin {"state", "drain"}
    BY <1>1, <1>5, <2>1
       DEF remote_expect, read_generation, remember_generation, enter_remote_gate, enter_gate,
           remote_disconnect, joined, RemotePhases, GoesOn
  <2> QED
    BY <2>1, <2>2 DEF FoundStop, Following, OneRemoteStop, ShownRemoteStop
<1>6. CASE ask
  <2>1. /\ UNCHANGED <<req, linked, elsewhere, found, view, poller, stops, batch, scan, current_thread>>
        /\ Asking /\ adapter' \in {"enter", "respond", "generation"} /\ req # "attach"
        /\ req # "setBreakpoints" => adapter' = "enter"
    BY <1>6 DEF ask, Serve, StepRequests, StepKindOf
  <2>2. RemotePhases' /\ adapter \notin {"state", "drain"}
    BY <2>1 DEF RemotePhases, Asking
  <2>3. CASE req \in Resuming
    <3>1. ~GoesOn /\ view = "stopped" /\ GoesOn'
      BY <1>1, <2>1, <2>3 DEF Asking, RemotePhases, GoesOn
    <3>2. StopHolds'
      BY <1>1, <1>6, <2>1, <2>3, RequestStops DEF ask, Serve, Continue, Step
    <3> QED
      BY <2>1, <2>2, <3>1, <3>2 DEF FoundStop, Following, OneRemoteStop, ShownRemoteStop
  <2>4. CASE req \notin Resuming
    <3>1. StopHolds' /\ (Stopped => Stopped')
      BY <1>6, <2>1, <2>4, RequestStops, SameStops DEF ask, Serve, Resuming
    <3>2. ~GoesOn
      BY <2>4 DEF GoesOn
    <3> QED
      BY <2>1, <2>2, <3>1, <3>2 DEF FoundStop, Following, OneRemoteStop, ShownRemoteStop
  <2> QED
    BY <2>3, <2>4
<1>7. CASE ask_in_vain
  <2>1. ~Reliable' /\ UNCHANGED <<req, view, poller, batch, scan, current_thread>> /\ adapter' = "refuse"
    BY <1>7 DEF ask_in_vain, Serve
  <2>2. RemotePhases'
    BY <2>1 DEF RemotePhases
  <2>3. StopHolds'
    BY <1>7, <2>1, RequestStops, SameStops DEF ask_in_vain, Serve, Continue, Step
  <2> QED
    BY <2>1, <2>2, <2>3
<1>8. CASE remote_respond
  <2>1. /\ StopHolds' /\ (Stopped <=> Stopped')
        /\ UNCHANGED <<found, linked, elsewhere, stops, batch, poller>>
    BY <1>8, SameStops DEF remote_respond, attachVars
  <2>2. RemotePhases' /\ req' = "none" /\ ~GoesOn'
    BY <1>1, <1>8, <2>1 DEF remote_respond, RemotePhases, GoesOn, NoRequest
  <2>3. /\ adapter = "respond"
        /\ view' = "stopped" => (req = "attach" /\ found) \/ (view = "stopped" /\ ~GoesOn)
    BY <1>8 DEF remote_respond, GoesOn
  <2> QED
    BY <2>1, <2>2, <2>3 DEF FoundStop, Following, OneRemoteStop, ShownRemoteStop
<1>9. CASE refuse
  <2>1. /\ StopHolds' /\ (Stopped <=> Stopped')
        /\ UNCHANGED <<found, linked, elsewhere, stops, batch, poller, view>>
    BY <1>9, SameStops DEF refuse
  <2>2. RemotePhases' /\ req' = "none" /\ ~GoesOn /\ adapter = "refuse"
    BY <1>1, <1>9, <2>1 DEF refuse, RemotePhases, GoesOn, NoRequest
  <2> QED
    BY <2>1, <2>2 DEF FoundStop, Following, OneRemoteStop, ShownRemoteStop
<1> QED
  BY <1>2, <1>3, <1>4, <1>5, <1>6, <1>7, <1>8, <1>9 DEF RemoteAdapter

LEMMA PollerShown ==
  ASSUME AttachInv, Poller
  PROVE  AttachInv'
<1> USE DEF dbgVars, control, place, Polls, remote, AttachInv, Reliable, NothingDue, WorksOff
<1>1. /\ StopHolds' /\ (Stopped <=> Stopped')
      /\ UNCHANGED <<req, adapter, found, linked, elsewhere>>
  BY SameStops
     DEF Poller, PollerWorks, poll_stops, lose_feed, stop_polling, wait_remote_clear, filter_remote, write_remote
<1>2. (GoesOn <=> GoesOn') /\ adapter \notin {"state", "drain", "spawn"}
  BY <1>1
     DEF GoesOn, Poller, PollerWorks, poll_stops, lose_feed, stop_polling, wait_remote_clear, filter_remote,
         write_remote, RemotePhases
<1>3. CASE poll_stops
  <2>1. poller = "poll" /\ poller' = "wait" /\ stops # <<>> /\ batch' = stops /\ stops' = <<>> /\ UNCHANGED view
    BY <1>3 DEF poll_stops
  <2>2. RemotePhases'
    BY <1>1, <1>2, <2>1 DEF RemotePhases
  <2>3. ASSUME Reliable
        PROVE  ~(view = "stopped" /\ ~GoesOn) /\ OneRemoteStop' /\ ~(req = "attach" /\ found)
    BY <1>1, <1>2, <2>1, <2>3 DEF Following, FoundStop, OneRemoteStop, ShownRemoteStop
  <2> QED
    BY <1>1, <1>2, <2>1, <2>2, <2>3 DEF FoundStop, Following, ShownRemoteStop
<1>4. CASE lose_feed
  <2>1. UNCHANGED <<batch, view, poller>> /\ stops' \in {stops, <<>>} /\ poller = "poll"
    BY <1>4 DEF lose_feed
  <2>2. RemotePhases'
    BY <1>1, <2>1 DEF RemotePhases
  <2>3. Reliable /\ stops' = <<>> => NothingDue'
    BY <2>1
  <2> QED
    BY <1>1, <1>2, <2>1, <2>2, <2>3 DEF FoundStop, Following, OneRemoteStop, ShownRemoteStop
<1>5. CASE stop_polling \/ wait_remote_clear
  <2>1. /\ UNCHANGED <<batch, view, stops>>
        /\ poller \in {"off", "poll"} <=> poller' \in {"off", "poll"}
    BY <1>5 DEF stop_polling, wait_remote_clear
  <2>2. RemotePhases'
    BY <1>1, <1>2, <2>1 DEF RemotePhases
  <2> QED
    BY <1>1, <1>2, <2>1, <2>2 DEF FoundStop, Following, OneRemoteStop, ShownRemoteStop
<1>6. CASE filter_remote \/ write_remote
  <2>1. UNCHANGED stops /\ poller \in {"filter", "emit"} /\ view' \in {view, "stopped"}
    BY <1>6 DEF filter_remote, write_remote
  <2>2. RemotePhases'
    BY <1>1, <1>2, <2>1 DEF RemotePhases
  <2>3. CASE UNCHANGED <<batch, view>> /\ poller' = "emit"
    BY <1>1, <1>2, <2>1, <2>2, <2>3 DEF FoundStop, Following, OneRemoteStop, ShownRemoteStop
  <2>4. CASE batch' = Tail(batch) /\ WorkedOff
    <3>1. ASSUME Reliable
          PROVE  Stopped /\ NothingDue' /\ poller' = "poll"
      <4>1. batch # <<>>
        BY <2>1, <3>1
      <4> QED
        BY <1>2, <2>1, <2>4, <3>1, <4>1, SingleQueue DEF Following, OneRemoteStop, WorkedOff
    <3> QED
      BY <1>1, <1>2, <2>2, <3>1 DEF FoundStop, Following, OneRemoteStop, ShownRemoteStop
  <2> QED
    BY <1>6, <2>3, <2>4 DEF filter_remote, write_remote
<1> QED
  BY <1>3, <1>4, <1>5, <1>6 DEF Poller, PollerWorks

\* The resource emits a stop only when none is in force.
LEMMA ResourceShown ==
  ASSUME AttachInv, Resource
  PROVE  AttachInv'
<1> USE DEF Around, serving, remote, polling, AttachInv, Reliable, NothingDue, WorksOff
<1>1. UNCHANGED <<req, adapter, found, linked, elsewhere, view, poller, batch>>
  BY DEF Resource, Emits
<1>2. RemotePhases' /\ (GoesOn <=> GoesOn')
  BY <1>1 DEF RemotePhases, GoesOn
<1>3. /\ StopHolds'
      /\ Stopped => Stopped' /\ stops' = stops
      /\ stops' # stops => Stopped' /\ \E s : stops' = Append(stops, s)
  BY ScanStops DEF Resource, Emits
<1>4. FoundStop => FoundStop'
  BY <1>1, <1>3 DEF FoundStop
<1>5. CASE stops' = stops
  BY <1>1, <1>2, <1>3, <1>4, <1>5 DEF Following, OneRemoteStop, ShownRemoteStop
<1>6. ASSUME stops' # stops, Following, adapter \notin {"state", "drain"}
      PROVE  OneRemoteStop' /\ ShownRemoteStop'
  <2>1. ~Stopped /\ NothingDue
    BY <1>3, <1>6 DEF Following, OneRemoteStop
  <2>2. PICK s : stops' = Append(stops, s)
    BY <1>3, <1>6
  <2>3. Single(stops')
    BY <2>1, <2>2 DEF Single
  <2> QED
    BY <1>1, <1>2, <1>3, <1>6, <2>1, <2>3 DEF Following, OneRemoteStop, ShownRemoteStop
<1> QED
  BY <1>1, <1>2, <1>3, <1>4, <1>5, <1>6 DEF Following

LEMMA OthersShown ==
  ASSUME AttachInv, Others
  PROVE  AttachInv'
<1> USE DEF Around, serving, remote, polling, points, place, control, AttachInv, Reliable, NothingDue, WorksOff
<1>1. UNCHANGED <<req, adapter, found, linked, view, poller, batch, stops, scan, current_thread>>
  BY DEF Others, edit_breakpoints
<1>2. RemotePhases' /\ (GoesOn <=> GoesOn')
  BY <1>1 DEF RemotePhases, GoesOn
<1>3. CASE elsewhere'
  <2>1. StopHolds'
    BY <1>1, RequestStops, SameStops DEF Others, edit_breakpoints, Continue
  <2> QED
    BY <1>2, <1>3, <2>1
<1>4. CASE ~elsewhere'
  <2>1. StopHolds' /\ (Stopped => Stopped') /\ ~elsewhere
    BY <1>1, <1>4, RequestStops, SameStops DEF Others, edit_breakpoints
  <2> QED
    BY <1>1, <1>2, <2>1 DEF FoundStop, Following, OneRemoteStop, ShownRemoteStop
<1> QED
  BY <1>3, <1>4

LEMMA AttachShown == AttachInv /\ [AttachNext]_allAttach => AttachInv'
<1> SUFFICES ASSUME AttachInv, [AttachNext]_allAttach PROVE AttachInv'
  OBVIOUS
<1> USE DEF dbgVars, control, place, serving, routing, attachVars, remote, polling, AttachInv, Reliable,
            NothingDue, WorksOff
<1>1. CASE Ask
  <2>1. /\ StopHolds' /\ (Stopped <=> Stopped') /\ adapter = "idle"
        /\ UNCHANGED <<stops, batch, view, adapter, poller, found, linked, elsewhere>>
    BY <1>1, SameStops DEF Ask, Send
  <2>2. RemotePhases' /\ ~GoesOn /\ ~GoesOn' /\ req' # "attach"
    BY <1>1, <2>1, SessionAssumption DEF Ask, Send, RemotePhases, GoesOn, AllRequests
  <2> QED
    BY <2>1, <2>2 DEF FoundStop, Following, OneRemoteStop, ShownRemoteStop
<1>2. CASE UNCHANGED allAttach
  BY <1>2 DEF allAttach, sessVars, StopHolds, Stopped, is_target_thread, RemotePhases, GoesOn,
     FoundStop, Following, OneRemoteStop, ShownRemoteStop, Single
<1> QED
  BY <1>1, <1>2, RemoteAdapterShown, PollerShown, ResourceShown, OthersShown DEF AttachNext

\* What an attached editor shows as stopped (adapter/stop_remote.rs, remote.rs)
\* is, whatever the resource does and other clients ask of it short of resuming
\* it, for any number of requests, stops and changes of the breakpoints.
THEOREM AttachedStopsAreTrue == AttachSpec => []AttachedStopIsTrue
<1>1. AttachInit => AttachInv
  BY DEF AttachInit, Init, AttachInv, StopHolds, Stopped, RemotePhases, Resuming, StepRequests, StepKindOf,
     Reliable, WorksOff, FoundStop, Following
<1>2. AttachInv => AttachedStopIsTrue
  BY DEF AttachInv, Stopped, GoesOn, Reliable, Following, ShownRemoteStop, AttachedStopIsTrue
<1> QED
  BY <1>1, <1>2, AttachShown, PTL DEF AttachSpec
=============================================================================
