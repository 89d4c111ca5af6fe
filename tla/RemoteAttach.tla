---------------------------- MODULE RemoteAttach ----------------------------
(***************************************************************************)
(* A debug session attached to a running resource: the same adapter, whose *)
(* handlers ask the control server of the resource                         *)
(* (crates/trust-debug/src/adapter/remote.rs) and whose stopped events     *)
(* come from a poller with a connection of its own (stop_remote.rs).  The  *)
(* resource belongs to others too, who pause it, resume it and set         *)
(* breakpoints.  Its control mode is debug.                                *)
(***************************************************************************)
EXTENDS DebugSession

CONSTANT LinkFails   \* whether connections break

ASSUME AttachAssumption == LinkFails \in BOOLEAN

VARIABLES
  linked, feed,  \* the adapter's and the poller's connection work
  poller,        \* where the poller is
  batch,         \* the stops it has received and not yet worked off
  known,         \* remote_breakpoints: the generation of the file, 0 without an entry
  answer,        \* the generation in the answer to breakpoints.set
  had_stop,      \* whether the runtime has a last_stop
  found,         \* whether the attach found the resource stopped
  elsewhere      \* another client has resumed it since, or had paused it anew
                 \* when the attach looked (history)

remote     == <<linked, known, answer, found>>
polling    == <<feed, poller, batch>>
local      == <<was_paused, loaded, requested, routing>>
attachVars == <<remote, polling, had_stop, elsewhere>>
allAttach  == <<sessVars, attachVars>>

AttachTypeOK ==
  /\ TypeOK /\ view \in {"running", "stopped"}
  /\ req \in Requests \cup {NoRequest, "attach"} /\ asked \in 0..MaxRequests
  /\ adapter \in {"state", "drain", "spawn", "idle", "ask", "generation", "store",
                  "enter", "respond", "refuse", "detach", "exited"}
  /\ pause_expected \in BOOLEAN /\ gate \in {0, 1}
  /\ poller \in {"off", "poll", "wait", "filter", "emit"} /\ batch \in Seq(Stops)
  /\ known \in Nat /\ answer \in Nat
  /\ {linked, feed, had_stop, found, elsewhere} \subseteq BOOLEAN

\* A launched session: nothing is attached.
Unattached ==
  /\ linked = FALSE /\ feed = FALSE /\ poller = "off" /\ batch = <<>>
  /\ known = 0 /\ answer = 0 /\ had_stop = FALSE /\ found = FALSE /\ elsewhere = FALSE

\* attach_from_args has connected; the session loads no program of its own.
AttachInit ==
  /\ Init /\ pause_expected = FALSE
  /\ view = "running" /\ req = "attach" /\ asked = 0 /\ adapter = "state"
  /\ was_paused = FALSE /\ loaded = FALSE /\ requested = {}
  /\ gate = 0 /\ coord = "recv" /\ stop = NoStop
  /\ linked = TRUE /\ feed = FALSE /\ poller = "off" /\ batch = <<>>
  /\ known = 0 /\ answer = 0 /\ had_stop = FALSE /\ found = FALSE /\ elsewhere = FALSE

(***************************************************************************)
(* attach_from_args and handle_attach_inner.                               *)
(***************************************************************************)
Attaches == UNCHANGED <<view, asked, pause_expected, gate, local, linked, known, answer, had_stop>>

read_state ==
  /\ Goes("state", "drain")
  /\ found' = (mode = "Paused" /\ had_stop)
  /\ elsewhere' = (found' /\ pending_stop # "none")
  /\ Attaches /\ UNCHANGED <<dbgVars, req, polling>>

\* What is drained here is never shown.
discard_stops ==
  /\ Goes("drain", "spawn") /\ stops' = <<>>
  /\ Attaches /\ UNCHANGED <<control, points, place, counts, req, polling, found, elsewhere>>

\* Without a connection the poller's thread ends.
start_remote_polling ==
  /\ Goes("spawn", "respond")
  /\ feed' \in IF LinkFails THEN BOOLEAN ELSE {TRUE}
  /\ poller' = IF feed' THEN "poll" ELSE "off"
  /\ Attaches /\ UNCHANGED <<dbgVars, req, batch, found, elsewhere>>

(***************************************************************************)
(* The handlers' remote branches: what the adapter expects, the question   *)
(* to the control server, the gate, the response.                          *)
(***************************************************************************)
Handles == UNCHANGED <<view, asked, local, polling, had_stop, elsewhere, found>>

remote_expect ==
  /\ req \in {"continue", "pause"} /\ Goes("idle", "ask")
  /\ pause_expected' = (req = "pause")
  /\ Handles /\ UNCHANGED <<dbgVars, req, gate, linked, known, answer>>

\* The control server: handle_resume, handle_pause, handle_step,
\* handle_breakpoints_set and handle_breakpoints_clear.
Serve ==
  \/ /\ req = "continue" /\ Continue /\ UNCHANGED <<points, place, stops, counts>>
  \/ /\ req = "pause" /\ RequestPause("Pause", NoThread) /\ UNCHANGED <<points, place, stops, counts>>
  \/ /\ req \in StepRequests /\ Step(current_thread, StepKindOf[req])
     /\ UNCHANGED <<points, place, stops, counts>>
  \/ /\ req = "setBreakpoints" /\ \E B \in SUBSET Locs : SetBreakpoints(B)
     /\ UNCHANGED <<control, place, stops, counts>>

Asking ==
  \/ adapter = "ask"
  \/ adapter = "idle" /\ req \in StepRequests \cup {"setBreakpoints"}

\* The generation is read after the set is in force.
ask ==
  /\ Asking /\ linked /\ Serve
  /\ adapter' = IF req # "setBreakpoints" THEN "enter"
                ELSE IF breakpoints' = {} THEN "respond" ELSE "generation"
  /\ Handles /\ UNCHANGED <<req, pause_expected, gate, linked, known, answer>>

\* The connection breaks before the question or before the answer arrives.
ask_in_vain ==
  /\ Asking /\ linked' = FALSE
  /\ \/ ~linked /\ UNCHANGED dbgVars
     \/ linked /\ LinkFails /\ (Serve \/ UNCHANGED dbgVars)
  /\ adapter' = "refuse"
  /\ Handles /\ UNCHANGED <<req, pause_expected, gate, known, answer>>

read_generation ==
  /\ Goes("generation", "store") /\ answer' = generation
  /\ Handles /\ UNCHANGED <<dbgVars, req, pause_expected, gate, linked, known>>

remember_generation ==
  /\ Goes("store", "respond") /\ known' = answer /\ answer' = 0
  /\ Handles /\ UNCHANGED <<dbgVars, req, pause_expected, gate, linked>>

enter_remote_gate == enter_gate /\ UNCHANGED attachVars

\* An attach that found a stop writes a stopped event after its response.
remote_respond ==
  /\ Goes("respond", IF req = "disconnect" THEN "exited" ELSE "idle")
  /\ req' = NoRequest /\ gate' = 0
  /\ view' = CASE req \in Resuming -> "running"
               [] req = "attach" /\ found -> "stopped"
               [] OTHER -> view
  /\ UNCHANGED <<dbgVars, asked, local, pause_expected, attachVars>>

\* An error is answered, the gate was not entered.
refuse ==
  /\ Goes("refuse", "idle") /\ req' = NoRequest
  /\ Handles /\ UNCHANGED <<dbgVars, pause_expected, gate, linked, known, answer>>

\* disconnect and terminate: the poller is told to stop and waited for.
remote_disconnect ==
  /\ req = "disconnect" /\ Goes("idle", "detach")
  /\ Handles /\ UNCHANGED <<dbgVars, req, pause_expected, gate, linked, known, answer>>

joined ==
  /\ poller = "off" /\ Goes("detach", "respond") /\ known' = 0
  /\ Handles /\ UNCHANGED <<dbgVars, req, pause_expected, gate, linked, answer>>

RemoteAdapter ==
  \/ read_state \/ discard_stops \/ start_remote_polling
  \/ remote_expect \/ ask \/ ask_in_vain \/ read_generation \/ remember_generation
  \/ enter_remote_gate \/ remote_respond \/ refuse \/ remote_disconnect \/ joined

(***************************************************************************)
(* RemoteStopPoller.                                                       *)
(***************************************************************************)
Polls == UNCHANGED <<asked, req, adapter, gate, local, remote, had_stop, elsewhere>>

poll_stops ==
  /\ poller = "poll" /\ adapter # "detach" /\ feed /\ stops # <<>>
  /\ batch' = stops /\ stops' = <<>> /\ poller' = "wait"
  /\ Polls /\ UNCHANGED <<control, points, place, counts, view, pause_expected, feed>>

\* The connection breaks, maybe with the answer under way.  The poller goes on
\* asking.
lose_feed ==
  /\ LinkFails /\ poller = "poll" /\ feed /\ feed' = FALSE
  /\ stops' \in {stops, <<>>}
  /\ Polls /\ UNCHANGED <<control, points, place, counts, view, pause_expected, poller, batch>>

stop_polling ==
  /\ poller = "poll" /\ adapter = "detach" /\ poller' = "off"
  /\ Polls /\ UNCHANGED <<dbgVars, view, pause_expected, feed, batch>>

wait_remote_clear ==
  /\ poller = "wait" /\ gate = 0 /\ poller' = "filter"
  /\ Polls /\ UNCHANGED <<dbgVars, view, pause_expected, feed, batch>>

WorkedOff == poller' = IF Len(batch) = 1 THEN "poll" ELSE "wait"

should_emit_remote ==
  CASE Head(batch).reason \in {"Pause", "Entry"} -> pause_expected
    [] Head(batch).reason = "Breakpoint" -> Head(batch).generation = known
    [] OTHER -> TRUE

filter_remote ==
  /\ poller = "filter" /\ pause_expected' = FALSE
  /\ IF should_emit_remote THEN poller' = "emit" /\ UNCHANGED batch
     ELSE WorkedOff /\ batch' = Tail(batch)
  /\ Polls /\ UNCHANGED <<dbgVars, view, feed>>

write_remote ==
  /\ poller = "emit" /\ view' = "stopped" /\ WorkedOff /\ batch' = Tail(batch)
  /\ Polls /\ UNCHANGED <<dbgVars, pause_expected, feed>>

PollerWorks ==
  poll_stops \/ stop_polling \/ wait_remote_clear \/ filter_remote \/ write_remote

Poller == PollerWorks \/ lose_feed

(***************************************************************************)
(* The resource, and its other clients.                                    *)
(***************************************************************************)
Around == UNCHANGED <<view, asked, serving, pause_expected, gate, routing, remote, polling>>

Emits    == had_stop' = (had_stop \/ Len(stops') > Len(stops)) /\ Around /\ UNCHANGED elsewhere
Resource == Scan /\ Emits

\* What other clients do is bounded by MaxActions and MaxEdits, and together by
\* the larger of them.
Others ==
  /\ acts + edits < MaxActions \/ acts + edits < MaxEdits
  /\ \/ /\ acts < MaxActions /\ acts' = acts + 1
        /\ \/ RequestPause("Pause", NoThread) /\ UNCHANGED elsewhere
           \/ Continue /\ elsewhere' = TRUE
        /\ UNCHANGED <<points, place, stops, edits>>
     \/ edit_breakpoints /\ UNCHANGED elsewhere
  /\ Around /\ UNCHANGED had_stop

Ask == Send /\ UNCHANGED attachVars

AttachNext == Ask \/ RemoteAdapter \/ Poller \/ Resource \/ Others

\* As for a local session; connections need not break.
AttachFairness ==
  /\ WF_allAttach(RemoteAdapter)
  /\ WF_allAttach(PollerWorks)
  /\ WF_allAttach((BeginCycle \/ EndTask \/ LoopEnds \/ (notified /\ Wake)) /\ Emits)
  /\ SF_allAttach(Statement /\ Emits)

AttachSpec == AttachInit /\ [][AttachNext]_allAttach /\ AttachFairness

-----------------------------------------------------------------------------
(***************************************************************************)
(* Properties.                                                             *)
(***************************************************************************)
\* What an attached editor shows as stopped is, until the editor itself or
\* another client resumes it; when the connection has broken nobody can tell.
\* A pause that another client requests for a held resource it has just resumed
\* is apart: the attach finds the last stop, drains the stops before the new one
\* is emitted, and the poller may show that one when it is over.
AttachedStopIsTrue ==
  view = "stopped" /\ adapter = "idle" /\ linked /\ ~elsewhere => mode = "Paused"

\* A pause that the editor asked for and the resource has accepted is shown.
RemotePauseAccepted  == req = "pause" /\ adapter = "enter" /\ pending_stop = "Pause"
RemotePauseSettled   ==
  view = "stopped" \/ adapter \in {"detach", "exited"} \/ ~feed \/ elsewhere
AttachedPauseIsShown == RemotePauseAccepted ~> RemotePauseSettled

\* Every request is answered, an attach and a disconnect included.
AttachedResponds == req # NoRequest ~> req = NoRequest

-----------------------------------------------------------------------------
(***************************************************************************)
(* Statements of the documentation that the code does not keep: TLC finds  *)
(* each of them violated, README.md says how.                              *)
(***************************************************************************)
\* 10-runtime.md, Attach: "must observe the existing execution state": a
\* resource that is held is shown.
AttachedHeldIsShown ==
  scan = "held" ~> view = "stopped" \/ scan # "held" \/ adapter = "exited" \/ ~feed
=============================================================================
