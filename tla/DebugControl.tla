---------------------------- MODULE DebugControl ----------------------------
(***************************************************************************)
(* The debugger inside the runtime: crates/trust-runtime/src/debug/.  One  *)
(* mutex protects DebugState; the scan thread calls on_statement_inner     *)
(* before every statement and waits on the condition variable while it is  *)
(* held, and any number of clients (the control server, the debug adapter) *)
(* call apply_action and the breakpoint operations.  What is done under    *)
(* the lock is one step here.                                              *)
(*                                                                         *)
(* A debugger thread is an IEC task, or the programs without one: the scan *)
(* thread runs those that are ready one after the other and sets           *)
(* current_thread before each.  Which tasks a cycle finds ready, and in    *)
(* which order, is left open here (module TaskScheduler).  One source file *)
(* stands for all of them: a breakpoint set is versioned per file.         *)
(***************************************************************************)
EXTENDS Integers, Sequences

CONSTANTS
  NumThreads,   \* tasks
  MaxDepth,     \* bound: nesting of calls
  Locs,         \* statements
  Conditional,  \* statements whose breakpoint has a condition, hit count or log message
  MaxActions,   \* bound: control actions of the clients
  MaxEdits,     \* bound: their changes of the breakpoint set
  MaxStops,     \* bound: stop events nobody has received yet
  CanHalt       \* whether the resource is asked to stop

Threads == 1..NumThreads

ASSUME DebugAssumption ==
  /\ NumThreads \in Nat \ {0} /\ MaxDepth \in Nat
  /\ Conditional \subseteq Locs
  /\ MaxActions \in Nat /\ MaxEdits \in Nat /\ MaxStops \in Nat
  /\ CanHalt \in BOOLEAN

VARIABLES
  mode,             \* Running, or Paused: hold at the next statement boundary
  pending_stop,     \* reason of a pause that no statement has taken yet
  current_thread, target_thread,
  ready,            \* the tasks this cycle has still to execute
  step,             \* the one entry of steps
  last_call_depth, last_call_depths,
  breakpoints,      \* statements with a breakpoint
  generation,       \* breakpoint_generation of the file, 0 when it has no entry
  snapshot,         \* whether a DebugSnapshot is stored
  stops,            \* stop events sent and not yet received
  scan,             \* where the scan thread is
  notified,         \* the condition variable was notified since it waits
  halt,             \* the stop flag of the resource loop
  acts, edits       \* control actions and changes of the breakpoint set so far

control == <<mode, pending_stop, target_thread, step, snapshot, notified>>
points  == <<breakpoints, generation>>
place   == <<scan, current_thread, ready, last_call_depth, last_call_depths, halt>>
counts  == <<acts, edits>>
dbgVars == <<control, points, place, stops, counts>>

NoThread == 0
NoDepth  == -1
NoStep   == [kind |-> "none"]
Reasons  == {"Breakpoint", "Step", "Pause", "Entry"}
Kinds    == {"Into", "Over", "Out"}
\* from is history: the depth at which the thread was held, if it was.
Steps    == [thread : Threads, kind : Kinds, target_depth : 0..MaxDepth,
             started : BOOLEAN, from : 0..MaxDepth \cup {NoDepth}]
Stops    == [reason : Reasons, generation : Nat]

TypeOK ==
  /\ mode \in {"Running", "Paused"}
  /\ pending_stop \in {"none", "Pause", "Entry"}
  /\ current_thread \in Threads /\ ready \subseteq Threads
  /\ target_thread \in Threads \cup {NoThread}
  /\ step \in Steps \cup {NoStep}
  /\ last_call_depth \in 0..MaxDepth
  /\ last_call_depths \in [Threads -> 0..MaxDepth \cup {NoDepth}]
  /\ breakpoints \subseteq Locs /\ generation \in Nat
  /\ snapshot \in BOOLEAN /\ notified \in BOOLEAN /\ halt \in BOOLEAN
  /\ stops \in Seq(Stops)
  /\ scan \in {"idle", "task", "body", "held", "ended"}
  /\ acts \in Nat /\ edits \in Nat

Init ==
  /\ mode = "Running" /\ pending_stop = "none"
  /\ current_thread = 1 /\ target_thread = NoThread /\ step = NoStep
  /\ last_call_depth = 0 /\ last_call_depths = [t \in Threads |-> NoDepth]
  /\ breakpoints = {} /\ generation = 0
  /\ snapshot = FALSE /\ stops = <<>>
  /\ scan = "idle" /\ ready = {} /\ notified = FALSE /\ halt = FALSE
  /\ acts = 0 /\ edits = 0

(***************************************************************************)
(* apply_action and pause_entry, under the lock.                           *)
(***************************************************************************)
\* Variant: the reason of a pause is not kept.
RequestPauseUnmarked(reason, t) ==
  /\ IF mode = "Paused"
     THEN UNCHANGED <<mode, pending_stop, snapshot, target_thread, step>>
     ELSE /\ mode' = "Paused" /\ pending_stop' = "none" /\ snapshot' = FALSE
          /\ target_thread' = t /\ step' = NoStep
  /\ UNCHANGED notified

\* Variant: a pause is taken without a look at the mode.
RequestPauseTwice(reason, t) ==
  /\ mode' = "Paused" /\ pending_stop' = reason /\ snapshot' = FALSE
  /\ target_thread' = t /\ step' = NoStep
  /\ UNCHANGED notified

\* Pause is ignored while the mode is Paused.
RequestPause(reason, t) ==
  /\ IF mode = "Paused"
     THEN UNCHANGED <<mode, pending_stop, snapshot, target_thread, step>>
     ELSE /\ mode' = "Paused" /\ pending_stop' = reason /\ snapshot' = FALSE
          /\ target_thread' = t /\ step' = NoStep
  /\ UNCHANGED notified

Resumed ==
  /\ mode' = "Running" /\ pending_stop' = "none" /\ snapshot' = FALSE
  /\ notified' = (scan = "held")

\* Variant: nobody is woken.
ContinueSilently ==
  /\ mode' = "Running" /\ pending_stop' = "none" /\ snapshot' = FALSE
  /\ target_thread' = NoThread /\ step' = NoStep
  /\ UNCHANGED notified

Continue == Resumed /\ target_thread' = NoThread /\ step' = NoStep

\* The depth a step is measured from: the last one seen in that thread.
DepthOf(t) ==
  IF last_call_depths[t] # NoDepth THEN last_call_depths[t] ELSE last_call_depth

\* Variant: a step out ends in the frame it leaves.
StepDepthSameFrame(t, kind) ==
  IF kind = "Into" THEN last_call_depth ELSE DepthOf(t)

StepDepth(t, kind) ==
  CASE kind = "Into" -> last_call_depth
    [] kind = "Over" -> DepthOf(t)
    [] kind = "Out"  -> IF DepthOf(t) > 0 THEN DepthOf(t) - 1 ELSE 0

Step(t, kind) ==
  /\ Resumed /\ target_thread' = t
  /\ step' = [thread |-> t, kind |-> kind, target_depth |-> StepDepth(t, kind),
              started |-> mode = "Paused",
              from |-> IF scan = "held" /\ current_thread = t THEN last_call_depth ELSE NoDepth]

SetBreakpoints(B) == breakpoints' = B /\ generation' = generation + 1

ClearBreakpoints == breakpoints' = {} /\ generation' = 0

(***************************************************************************)
(* on_statement_inner: the scan thread at a statement.                     *)
(***************************************************************************)
is_target_thread == target_thread \in {NoThread, current_thread}

emit_stop(reason, g) ==
  stops' = Append(stops, [reason |-> reason, generation |-> g])

Seen(d) ==
  /\ last_call_depth' = d
  /\ last_call_depths' = [last_call_depths EXCEPT ![current_thread] = d]
  /\ UNCHANGED <<current_thread, ready, halt>>

ConsumePending ==
  IF pending_stop # "none"
  THEN emit_stop(pending_stop, 0) /\ snapshot' = TRUE /\ pending_stop' = "none"
  ELSE UNCHANGED <<stops, snapshot, pending_stop>>

StepHere == is_target_thread /\ step # NoStep /\ step.thread = current_thread

\* Variant: a step over or out must come below its depth.
StepDoneStrict(d) ==
  StepHere /\ step.started /\ (step.kind = "Into" \/ d < step.target_depth)

StepDone(d) == StepHere /\ step.started /\ (step.kind = "Into" \/ d <= step.target_depth)

\* A step that was requested while running is armed by the first statement.
Armed == IF StepHere THEN [step EXCEPT !.started = TRUE] ELSE step

\* What matches_breakpoint can answer: a condition, a hit count or a log
\* message may let the statement pass.
matches_breakpoint(l) ==
  IF l \notin breakpoints THEN {FALSE} ELSE IF l \in Conditional THEN BOOLEAN ELSE {TRUE}

\* A pause was requested and applies to this thread.
HoldForPause(l, d) ==
  /\ mode = "Paused" /\ is_target_thread
  /\ ConsumePending
  /\ scan' = "held" /\ notified' = FALSE
  /\ UNCHANGED <<mode, target_thread, step>>

HoldForStep(l, d) ==
  /\ mode = "Running" /\ StepDone(d)
  /\ mode' = "Paused" /\ pending_stop' = "none" /\ snapshot' = TRUE /\ step' = NoStep
  /\ emit_stop("Step", 0)
  /\ scan' = "held" /\ notified' = FALSE
  /\ UNCHANGED target_thread

\* A breakpoint holds any thread, also one that a pause or step does not name.
HoldForBreakpoint(l, d) ==
  /\ mode = "Running" \/ ~is_target_thread
  /\ ~StepDone(d) /\ TRUE \in matches_breakpoint(l)
  /\ mode' = "Paused" /\ pending_stop' = "none" /\ snapshot' = TRUE
  /\ step' = NoStep /\ target_thread' = NoThread
  /\ emit_stop("Breakpoint", generation)
  /\ scan' = "held" /\ notified' = FALSE

Pass(l, d) ==
  /\ mode = "Running" \/ ~is_target_thread
  /\ ~StepDone(d) /\ FALSE \in matches_breakpoint(l)
  /\ step' = Armed
  /\ scan' = "body"
  /\ UNCHANGED <<mode, pending_stop, snapshot, stops, target_thread, notified>>

on_statement_inner(l, d) ==
  /\ scan \in {"task", "body"} /\ Len(stops) < MaxStops
  /\ HoldForPause(l, d) \/ HoldForStep(l, d) \/ HoldForBreakpoint(l, d) \/ Pass(l, d)
  /\ Seen(d)
  /\ UNCHANGED <<points, counts>>

\* A task starts with a statement of its program; a statement is followed by
\* one it calls, by one of the same body, or by one of a caller.
Statement ==
  \E l \in Locs, d \in 0..MaxDepth :
    /\ d <= (IF scan = "task" THEN 0 ELSE last_call_depth + 1)
    /\ on_statement_inner(l, d)

\* The loop around cvar.wait: one turn, after a notification or without.
Wake ==
  /\ scan = "held" /\ notified' = FALSE
  /\ IF mode = "Paused" /\ is_target_thread
     THEN ConsumePending /\ UNCHANGED scan
     ELSE scan' = "body" /\ UNCHANGED <<stops, snapshot, pending_stop>>
  /\ UNCHANGED <<mode, target_thread, step, points, counts, current_thread, ready,
                 last_call_depth, last_call_depths, halt>>

(***************************************************************************)
(* The scan thread around its statements: execute_cycle and the loop that  *)
(* calls it, as far as the debugger sees them.                             *)
(***************************************************************************)
LoopStep == UNCHANGED <<control, points, counts, stops, last_call_depth, last_call_depths, halt>>

Enter(t, others) == scan' = "task" /\ current_thread' = t /\ ready' = others

\* A cycle that finds some tasks ready; one that finds none is no step.
BeginCycle ==
  /\ scan = "idle" /\ ~halt
  /\ \E R \in SUBSET Threads : \E t \in R : Enter(t, R \ {t})
  /\ LoopStep

\* A task may end without a statement.
EndTask ==
  /\ scan \in {"task", "body"}
  /\ \/ \E t \in ready : Enter(t, ready \ {t})
     \/ ready = {} /\ scan' = "idle" /\ UNCHANGED <<current_thread, ready>>
  /\ LoopStep

\* An error ends the cycle: the other tasks of this one are not executed.
TaskFails ==
  /\ scan \in {"task", "body"} /\ scan' = "idle" /\ ready' = {}
  /\ UNCHANGED current_thread /\ LoopStep

LoopEnds ==
  /\ scan = "idle" /\ halt /\ scan' = "ended"
  /\ UNCHANGED <<current_thread, ready>> /\ LoopStep

Scan == BeginCycle \/ Statement \/ EndTask \/ TaskFails \/ LoopEnds \/ Wake

(***************************************************************************)
(* Clients of the control server: handle_pause, handle_resume, handle_step *)
(* in debug mode, debug.breakpoints.*, debug.stops, shutdown.              *)
(***************************************************************************)
apply_action ==
  /\ acts < MaxActions /\ acts' = acts + 1
  /\ \/ \E t \in Threads \cup {NoThread} : RequestPause("Pause", t)
     \/ RequestPause("Entry", NoThread)
     \/ Continue
     \/ \E t \in Threads, k \in Kinds : Step(t, k)
  /\ UNCHANGED <<points, place, stops, edits>>

edit_breakpoints ==
  /\ edits < MaxEdits /\ edits' = edits + 1
  /\ ClearBreakpoints \/ \E B \in SUBSET Locs : SetBreakpoints(B)
  /\ UNCHANGED <<control, place, stops, acts>>

drain_stops ==
  /\ stops # <<>> /\ stops' = <<>>
  /\ UNCHANGED <<control, points, place, counts>>

handle_shutdown ==
  /\ CanHalt /\ ~halt /\ halt' = TRUE
  /\ UNCHANGED <<control, points, counts, stops, scan, current_thread, ready,
                 last_call_depth, last_call_depths>>

Client == apply_action \/ edit_breakpoints \/ drain_stops \/ handle_shutdown

Next == Scan \/ Client

Spec == Init /\ [][Next]_dbgVars

\* A notified wait returns, tasks end, and so does the loop that is asked to.
\* Nothing is assumed of BeginCycle and Statement: an event task may never be ready
\* again, a fault may have been the end of cycles.
Fairness == WF_dbgVars(EndTask \/ LoopEnds \/ (notified /\ Wake))

FairSpec == Spec /\ Fairness

-----------------------------------------------------------------------------
(***************************************************************************)
(* Properties.                                                             *)
(***************************************************************************)

\* While the scan thread is held its state can be inspected: a snapshot was
\* taken when it stopped, or it has been notified and is about to look again.
HeldIsAnnounced ==
  scan = "held" /\ mode = "Paused" =>
    \/ snapshot /\ pending_stop = "none" /\ is_target_thread
    \/ notified

\* No lost wake-up: a thread that may run on has been notified.
HeldIsNotified == scan = "held" /\ (mode = "Running" \/ ~is_target_thread) => notified

\* A pause that was accepted and has not held anyone is still pending: it
\* cannot get lost between the statements of different tasks.
PauseNotLost == mode = "Paused" /\ scan # "held" => pending_stop # "none"

\* 10-runtime.md, Stepping Semantics: in a step over "calls are executed without
\* entering the callee", a step out stops "after returning to the caller": where
\* a step ends is measured against where its thread was held.
StepsEndInFrame ==
  [][step # NoStep /\ scan # "held" /\ scan' = "held" /\ stops'[Len(stops')].reason = "Step"
       /\ step.from # NoDepth
     => /\ step.kind = "Over" => last_call_depth' <= step.from
        /\ step.kind = "Out" /\ step.from > 0 => last_call_depth' < step.from]_dbgVars

\* A step or a pause that is still to be answered in task t.
Unanswered(t) ==
  \/ step # NoStep /\ step.thread = t
  \/ mode = "Paused" /\ scan # "held" /\ target_thread \in {t, NoThread}

\* The debugger answers.  In a task that executes statements again and again a
\* step comes to its end and an accepted pause holds the scan thread or is
\* withdrawn, whatever other tasks, errors and breakpoints come between.  A held
\* thread that is told to go on does, or is paused again.
DebuggerResponds ==
  /\ \A t \in Threads : []<><<Statement /\ current_thread = t>>_dbgVars => []<>~Unanswered(t)
  /\ []<>(scan # "held" \/ mode = "Paused")

\* PLC_OPERATOR_GUIDE.md: "Stop the PLC: trust-runtime ctl ... shutdown": the
\* resource thread ends.
ShutdownEnds == halt ~> scan = "ended"
=============================================================================
