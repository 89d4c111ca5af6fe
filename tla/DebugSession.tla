---------------------------- MODULE DebugSession ----------------------------
(***************************************************************************)
(* A local debug session: crates/trust-debug/src/adapter/ around the       *)
(* DebugControl of the runtime.  Four threads: the editor, which sees the  *)
(* session through the messages written to it; the adapter, which handles  *)
(* one request at a time; the StopCoordinator, which turns stop events of  *)
(* the runtime into stopped events; and the runner, the scan thread of     *)
(* DebugControl, which holds the runtime's mutex during a cycle.           *)
(***************************************************************************)
EXTENDS DebugControl

CONSTANTS
  Requests,      \* requests the editor makes
  MaxRequests,   \* bound: how many
  ReloadFails    \* whether the sources of a reload may not compile

AllRequests == {"continue", "pause", "next", "stepIn", "stepOut", "setBreakpoints",
                "variables", "reload", "disconnect"}

ASSUME SessionAssumption ==
  Requests \subseteq AllRequests /\ MaxRequests \in Nat /\ ReloadFails \in BOOLEAN

VARIABLES
  view,             \* what the messages written to the editor say: "running", "stopped"
  req, asked,       \* the request in flight or being handled; how many so far
  adapter,          \* where the adapter is in handling it
  was_paused,       \* whether a reload found the session paused
  loaded,           \* whether the last load of the program succeeded
  requested,        \* BreakpointManager.requested: what the editor asked for
  pause_expected,
  gate,             \* the count of the StopGate
  coord, stop       \* where the coordinator is, with the stop it received

serving  == <<req, adapter, was_paused, loaded, requested>>
routing  == <<coord, stop>>
sessVars == <<dbgVars, view, asked, serving, pause_expected, gate, routing>>

NoRequest  == "none"
NoStop     == [reason |-> "none"]
StepKindOf == [next |-> "Over", stepIn |-> "Into", stepOut |-> "Out"]
StepRequests == DOMAIN StepKindOf
Resuming   == StepRequests \cup {"continue"}

SessionTypeOK ==
  /\ TypeOK
  /\ view \in {"running", "stopped"}
  /\ req \in Requests \cup {NoRequest} /\ asked \in 0..MaxRequests
  /\ adapter \in {"idle", "store", "act", "enter", "respond", "lock",
                  "halt", "clear", "resume", "join", "load", "start", "exited"}
  /\ was_paused \in BOOLEAN /\ loaded \in BOOLEAN
  /\ requested \subseteq Locs
  /\ pause_expected \in BOOLEAN /\ gate \in {0, 1}
  /\ coord \in {"recv", "wait", "filter", "emit"} /\ stop \in Stops \cup {NoStop}

\* The runner has just been started, with or without stopOnEntry.
SessionInit ==
  /\ \/ Init /\ pause_expected = FALSE
     \/ /\ mode = "Paused" /\ pending_stop = "Entry" /\ pause_expected = TRUE
        /\ current_thread = 1 /\ target_thread = NoThread /\ step = NoStep
        /\ last_call_depth = 0 /\ last_call_depths = [t \in Threads |-> NoDepth]
        /\ breakpoints = {} /\ generation = 0
        /\ snapshot = FALSE /\ stops = <<>>
        /\ scan = "idle" /\ ready = {} /\ notified = FALSE /\ halt = FALSE
        /\ acts = 0 /\ edits = 0
  /\ view = "running" /\ req = NoRequest /\ asked = 0
  /\ adapter = "idle" /\ was_paused = FALSE /\ loaded = TRUE
  /\ requested = {}
  /\ gate = 0 /\ coord = "recv" /\ stop = NoStop

(***************************************************************************)
(* The editor: it resumes what it sees stopped and pauses what it sees     *)
(* running; the rest it may ask at any time.                               *)
(***************************************************************************)
Send ==
  /\ req = NoRequest /\ adapter = "idle" /\ asked < MaxRequests
  /\ \E r \in Requests :
       /\ r \in Resuming => view = "stopped"
       /\ r = "pause" => view = "running"
       /\ req' = r
  /\ asked' = asked + 1
  /\ UNCHANGED <<dbgVars, view, adapter, was_paused, loaded, requested,
                 pause_expected, gate, routing>>

(***************************************************************************)
(* The adapter's handlers.  Each step is what other threads can see of it. *)
(***************************************************************************)
Goes(from, to) == adapter = from /\ adapter' = to

Keeps == UNCHANGED <<view, req, asked, gate, routing>>

handle_continue ==
  /\ req = "continue" /\ Goes("idle", "act")
  /\ pause_expected' = FALSE
  /\ Keeps /\ UNCHANGED <<dbgVars, was_paused, loaded, requested>>

\* Variant: the runtime is paused before the adapter expects it.
HandlePauseEarly ==
  /\ req = "pause" /\ Goes("idle", IF mode = "Paused" THEN "respond" ELSE "store")
  /\ RequestPause("Pause", NoThread)
  /\ Keeps /\ UNCHANGED <<points, place, stops, counts, was_paused, loaded, requested, pause_expected>>

\* Ignored when the runtime is already paused.
handle_pause ==
  /\ req = "pause" /\ Goes("idle", IF mode = "Paused" THEN "respond" ELSE "store")
  /\ Keeps /\ UNCHANGED <<dbgVars, was_paused, loaded, requested, pause_expected>>

\* handle_next, handle_step_in and handle_step_out.
handle_step ==
  /\ req \in StepRequests /\ Goes("idle", "enter")
  /\ \E t \in Threads : Step(t, StepKindOf[req])
  /\ Keeps /\ UNCHANGED <<points, place, stops, counts, was_paused, loaded, requested, pause_expected>>

handle_set_breakpoints ==
  /\ req = "setBreakpoints" /\ Goes("idle", "respond")
  /\ \E B \in SUBSET Locs : SetBreakpoints(B) /\ requested' = B
  /\ Keeps /\ UNCHANGED <<control, place, stops, counts, was_paused, loaded, pause_expected>>

\* PausedStateView: from the snapshot if there is one, else from the runtime.
handle_variables ==
  /\ req = "variables" /\ Goes("idle", IF snapshot THEN "respond" ELSE "lock")
  /\ Keeps /\ UNCHANGED <<dbgVars, was_paused, loaded, requested, pause_expected>>

\* disconnect and terminate.
handle_disconnect ==
  /\ req = "disconnect" /\ Goes("idle", "respond")
  /\ Continue
  /\ Keeps /\ UNCHANGED <<points, place, stops, counts, was_paused, loaded, requested, pause_expected>>

handle_reload ==
  /\ req = "reload" /\ Goes("idle", "halt")
  /\ was_paused' = (mode = "Paused")
  /\ Keeps /\ UNCHANGED <<dbgVars, loaded, requested, pause_expected>>

expect_pause ==
  /\ Goes("store", "act") /\ pause_expected' = TRUE
  /\ Keeps /\ UNCHANGED <<dbgVars, was_paused, loaded, requested>>

\* A reload ends with a look at the new runtime's inputs and outputs, unless
\* it failed.
AfterReload == IF loaded THEN "lock" ELSE "respond"

act ==
  /\ Goes("act", IF req = "reload" THEN AfterReload ELSE "enter")
  /\ IF req = "continue" THEN Continue ELSE RequestPause("Pause", NoThread)
  /\ Keeps /\ UNCHANGED <<points, place, stops, counts, was_paused, loaded, requested, pause_expected>>

\* The gate is entered when the outcome is built: after the action.
enter_gate ==
  /\ Goes("enter", "respond") /\ gate' = 1
  /\ UNCHANGED <<dbgVars, view, req, asked, was_paused, loaded, requested, pause_expected, routing>>

\* The runtime's mutex: the runner holds it during a cycle.
lock_runtime ==
  /\ scan \in {"idle", "ended"} /\ Goes("lock", "respond")
  /\ Keeps /\ UNCHANGED <<dbgVars, was_paused, loaded, requested, pause_expected>>

\* The response is written and the token of the gate dropped.
respond ==
  /\ Goes("respond", IF req = "disconnect" THEN "halt" ELSE "idle")
  /\ req' = IF req = "disconnect" THEN req ELSE NoRequest
  /\ view' = IF req \in Resuming THEN "running" ELSE view
  /\ gate' = 0
  /\ UNCHANGED <<dbgVars, asked, was_paused, loaded, requested, pause_expected, routing>>

\* DebugRunner::stop, in its order.
stop_flag ==
  /\ Goes("halt", "clear") /\ halt' = TRUE
  /\ Keeps /\ UNCHANGED <<control, points, stops, counts, scan, current_thread, ready, last_call_depth,
                          last_call_depths, was_paused, loaded, requested, pause_expected>>

\* Variant: the breakpoints stay while the runner is told to go on.
StopKeepsBreakpoints ==
  /\ Goes("clear", "resume")
  /\ Keeps /\ UNCHANGED <<dbgVars, was_paused, loaded, requested, pause_expected>>

stop_clear ==
  /\ Goes("clear", "resume") /\ ClearBreakpoints
  /\ Keeps /\ UNCHANGED <<control, place, stops, counts, was_paused, loaded, requested, pause_expected>>

stop_resume ==
  /\ Goes("resume", "join") /\ Continue
  /\ Keeps /\ UNCHANGED <<points, place, stops, counts, was_paused, loaded, requested, pause_expected>>

join ==
  /\ scan = "ended" /\ Goes("join", IF req = "reload" THEN "load" ELSE "exited")
  /\ Keeps /\ UNCHANGED <<dbgVars, was_paused, loaded, requested, pause_expected>>

\* reload_program: the versions start anew; on an error nothing is restored.
reload_program ==
  /\ Goes("load", "start")
  /\ \/ /\ loaded' = TRUE
        /\ breakpoints' = requested
        /\ generation' = IF requested = {} THEN 0 ELSE 1
     \/ ReloadFails /\ loaded' = FALSE /\ UNCHANGED points
  /\ Keeps /\ UNCHANGED <<control, place, stops, counts, was_paused, requested, pause_expected>>

\* Variant: the new runner is not paused.
StartUnpaused ==
  /\ Goes("start", AfterReload)
  /\ scan' = "idle" /\ halt' = FALSE
  /\ Keeps /\ UNCHANGED <<control, points, stops, counts, current_thread, ready, last_call_depth,
                          last_call_depths, was_paused, loaded, requested, pause_expected>>

start_runner ==
  /\ Goes("start", IF was_paused THEN "store" ELSE AfterReload)
  /\ scan' = "idle" /\ halt' = FALSE
  /\ Keeps /\ UNCHANGED <<control, points, stops, counts, current_thread, ready, last_call_depth,
                          last_call_depths, was_paused, loaded, requested, pause_expected>>

Adapter ==
  \/ handle_continue \/ handle_pause \/ handle_step \/ handle_set_breakpoints
  \/ handle_variables \/ handle_disconnect \/ handle_reload
  \/ expect_pause \/ act \/ enter_gate \/ lock_runtime \/ respond
  \/ stop_flag \/ stop_clear \/ stop_resume \/ join \/ reload_program \/ start_runner

(***************************************************************************)
(* The StopCoordinator.                                                    *)
(***************************************************************************)
CoordGoes(from, to) == coord = from /\ coord' = to

recv_stop ==
  /\ stops # <<>> /\ CoordGoes("recv", "wait")
  /\ stop' = Head(stops) /\ stops' = Tail(stops)
  /\ UNCHANGED <<control, points, place, counts, view, asked, serving, pause_expected, gate>>

wait_clear ==
  /\ gate = 0 /\ CoordGoes("wait", "filter")
  /\ UNCHANGED <<dbgVars, view, asked, serving, pause_expected, gate, stop>>

should_emit_stop ==
  CASE stop.reason \in {"Pause", "Entry"} -> pause_expected
    [] stop.reason = "Breakpoint" -> stop.generation = generation
    [] OTHER -> TRUE

\* pause_expected is false afterwards in every case.
filter_stop ==
  /\ CoordGoes("filter", IF should_emit_stop THEN "emit" ELSE "recv")
  /\ pause_expected' = FALSE
  /\ stop' = IF should_emit_stop THEN stop ELSE NoStop
  /\ UNCHANGED <<dbgVars, view, asked, serving, gate>>

write_stopped ==
  /\ CoordGoes("emit", "recv") /\ view' = "stopped" /\ stop' = NoStop
  /\ UNCHANGED <<dbgVars, asked, serving, pause_expected, gate>>

Coordinator == recv_stop \/ wait_clear \/ filter_stop \/ write_stopped

Runs   == UNCHANGED <<view, asked, serving, pause_expected, gate, routing>>
Runner == Scan /\ Runs

SessionNext == Send \/ Adapter \/ Coordinator \/ Runner

SessionSpec == SessionInit /\ [][SessionNext]_sessVars

\* The threads are scheduled, programs end, and some task of the program executes
\* statements again and again; the editor may ask or not.
SessionFairness ==
  /\ WF_sessVars(Adapter) /\ WF_sessVars(Coordinator)
  /\ WF_sessVars((BeginCycle \/ EndTask \/ LoopEnds \/ (notified /\ Wake)) /\ Runs)
  /\ SF_sessVars(Statement /\ Runs)

FairSession == SessionSpec /\ SessionFairness

-----------------------------------------------------------------------------
(***************************************************************************)
(* Properties.                                                             *)
(***************************************************************************)

\* What the editor shows as stopped is held and can be inspected (StackTrace,
\* Scopes and Variables read the snapshot), until the editor asks to resume it.
StoppedIsTrue ==
  view = "stopped" /\ adapter = "idle" => mode = "Paused" /\ scan = "held" /\ snapshot

\* A pause the runtime has accepted is shown: the stopped event with reason
\* pause is neither dropped by the coordinator nor taken for another one.
PauseAccepted == pending_stop = "Pause"
PauseSettled  == view = "stopped" \/ adapter = "exited"
PauseIsShown  == PauseAccepted ~> PauseSettled

\* Every request is answered; a disconnect ends the runner, wherever it is.
AdapterResponds == req # NoRequest ~> req = NoRequest \/ adapter = "exited"

\* 10-runtime.md, Reload Semantics: "If the session was paused, it stays paused
\* after reload", although the runner was resumed, joined and replaced, and
\* Reload: "revalidates breakpoints": unless a reload has failed, what the
\* editor asked for is in force whenever the adapter is ready for a request.
ReloadKeepsSession ==
  /\ adapter = "respond" /\ req = "reload" /\ was_paused => mode = "Paused"
  /\ adapter = "idle" /\ loaded => breakpoints = requested

-----------------------------------------------------------------------------
(***************************************************************************)
(* Statements of the documentation that the code does not keep: TLC finds  *)
(* each of them violated, README.md says how.                              *)
(***************************************************************************)
\* 10-runtime.md, DAP Event Ordering: "the adapter must send the response first
\* and emit StoppedEvent after the response".
ResponseFirst ==
  [][coord = "emit" /\ coord' = "recv" =>
       ~ /\ adapter \in {"enter", "respond"}
         /\ \/ req = "pause" /\ stop.reason = "Pause"
            \/ req \in StepRequests /\ stop.reason = "Step"]_sessVars

\* 10-runtime.md, Cyclic Task Breakpoint Safety: "If the breakpoint is cleared,
\* the runtime must resume without re-triggering the old stop": no task stays
\* held without the editor knowing.
HeldIsShown == scan = "held" ~> view = "stopped" \/ scan # "held"

\* 10-runtime.md, Breakpoint Generation: "runtime stops must only be honored if
\* they match the current generation": a stop that is shown while the adapter
\* handles no request is one the runtime is in.
NoStaleStop ==
  [][coord = "emit" /\ coord' = "recv" /\ adapter = "idle" => mode = "Paused"]_sessVars

\* 10-runtime.md, Reload: "revalidates breakpoints": the breakpoints the editor
\* asked for are in force whenever the adapter is ready for a request.
BreakpointsInForce == adapter = "idle" => breakpoints = requested
=============================================================================
