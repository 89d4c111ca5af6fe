--------------------------- MODULE MCDebugSession ---------------------------
(***************************************************************************)
(* Three sessions of the debug adapter, for TLC.  In the one the constants *)
(* describe, an editor works with stops, pauses and steps of two tasks and *)
(* disconnects.  In the second it reloads a program that may not compile   *)
(* and reads variables, with one task.  What the second asks makes the     *)
(* adapter wait for the runtime, which the README describes; the           *)
(* statements about stops and answers are those of the others.  The third  *)
(* is attached to a running resource that has other clients, over          *)
(* connections that may break.                                             *)
(***************************************************************************)
EXTENDS RemoteAttach

CONSTANT l1

VARIABLE editor  \* which session this is: "steps", "reloads" or "attached"

Reloading == INSTANCE DebugSession WITH
  NumThreads <- 1, MaxDepth <- 0, ReloadFails <- TRUE, MaxRequests <- 2,
  Requests   <- AllRequests \ {"disconnect"}

Attached == INSTANCE RemoteAttach WITH
  NumThreads <- 1, MaxDepth <- 0, Conditional <- {},
  MaxActions <- 1, MaxEdits <- 1, MaxRequests <- 2,
  Requests   <- {"continue", "pause", "next", "setBreakpoints", "disconnect"}

anyVars == <<allAttach, editor>>

AnyInit ==
  \/ editor = "steps" /\ SessionInit /\ Unattached
  \/ editor = "reloads" /\ Reloading!SessionInit /\ Unattached
  \/ editor = "attached" /\ Attached!AttachInit

AnyNext ==
  \/ editor = "steps" /\ SessionNext /\ UNCHANGED <<editor, attachVars>>
  \/ editor = "reloads" /\ Reloading!SessionNext /\ UNCHANGED <<editor, attachVars>>
  \/ editor = "attached" /\ Attached!AttachNext /\ UNCHANGED editor

\* The fairness of the first and the third, the threads of each side by side.
Fairly(local_step, remote_step) ==
  \/ editor = "steps" /\ local_step /\ UNCHANGED <<editor, attachVars>>
  \/ editor = "attached" /\ remote_step /\ UNCHANGED editor

AnyFairness ==
  /\ WF_anyVars(Fairly(Adapter, Attached!RemoteAdapter))
  /\ WF_anyVars(Fairly(Coordinator, Attached!PollerWorks))
  /\ WF_anyVars(Fairly((BeginCycle \/ EndTask \/ LoopEnds \/ (notified /\ Wake)) /\ Runs,
                       (Attached!BeginCycle \/ Attached!EndTask \/ Attached!LoopEnds
                          \/ (notified /\ Attached!Wake)) /\ Attached!Emits))
  /\ SF_anyVars(Fairly(Statement /\ Runs, Attached!Statement /\ Attached!Emits))

AnySession == AnyInit /\ [][AnyNext]_anyVars /\ AnyFairness

-----------------------------------------------------------------------------
\* StoppedIsTrue of DebugSession and AttachedStopIsTrue of RemoteAttach: what
\* write_stopped has shown the editor as stopped is held and can be inspected.
ShownStopsAreTrue ==
  /\ editor = "steps" => StoppedIsTrue
  /\ editor = "attached" => Attached!AttachedStopIsTrue

AnyPauseAccepted ==
  \/ editor = "steps" /\ PauseAccepted
  \/ editor = "attached" /\ RemotePauseAccepted

AnyPauseSettled ==
  \/ editor = "steps" /\ PauseSettled
  \/ editor = "attached" /\ RemotePauseSettled

\* PauseIsShown and AttachedPauseIsShown: an accepted pause reaches the editor
\* through the gate and the filters of StopCoordinator and RemoteStopPoller.
PausesAreShown == AnyPauseAccepted ~> AnyPauseSettled

\* AdapterResponds and AttachedResponds: run_stdio answers every request, also a
\* disconnect while the runner is held or the poller at work.
AdaptersRespond ==
  []<>(editor = "reloads" \/ req = NoRequest \/ adapter = "exited")
=============================================================================
