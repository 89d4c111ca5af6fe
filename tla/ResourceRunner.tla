-------------------------- MODULE ResourceRunner --------------------------
(***************************************************************************)
(* The resource thread (run_resource_loop in                               *)
(* crates/trust-runtime/src/scheduler.rs), the handles other threads hold  *)
(* on it (ResourceControl, the restart signal, the start gate) and the     *)
(* process around it: launch, power loss, exit.                            *)
(*                                                                         *)
(* One step of the thread is what it does between two points where another *)
(* thread, or a power loss, can tell the difference: an access to the stop *)
(* flag, the command channel, the restart signal, last_error, state, the   *)
(* retain file.                                                            *)
(***************************************************************************)
EXTENDS RuntimeCore

CONSTANTS
  HasGate,         \* the runner was given a start gate (as run.rs does)
  HasSimulation,   \* a SimulationController is attached
  RestartCanFail,  \* whether Runtime::restart can return an error
  CanCrash,        \* whether power can be lost
  BootPolicies,    \* the policies the process may be launched with
  Updates,         \* the policies the Update* commands may carry
  ReloadIds,       \* one id per bytecode.reload request
  NoError,         \* last_error = None
  MaxTime,         \* bound: the clock stops here
  MaxSent,         \* bound: requests made by other threads in one process
  MaxLaunches      \* bound: launches of the process

Errors == {"ResourceFaulted", "Simulation", "Input", "Task", "Output",
           "RetainSave", "Watchdog", "Restart", "RetainLoad", "Coupling"}

ASSUME RunnerAssumption ==
  /\ HasGate \in BOOLEAN /\ HasSimulation \in BOOLEAN
  /\ RestartCanFail \in BOOLEAN /\ CanCrash \in BOOLEAN
  /\ BootPolicies \subseteq Policies /\ BootPolicies # {}
  /\ Updates \subseteq Policies
  /\ NoError \notin Errors
  /\ MaxTime \in Nat /\ MaxSent \in Nat /\ MaxLaunches \in Nat \ {0}

VARIABLES
  pc,             \* where the resource thread is; "down": there is no process
  state,          \* Arc<Mutex<ResourceState>>
  last_error,     \* Arc<Mutex<Option<RuntimeError>>>
  stop,           \* Arc<AtomicBool>
  cmds,           \* the mpsc channel of ResourceCommands
  rx,             \* whether the receiving end of the channel still exists
  signal,         \* pending_restart: Arc<Mutex<Option<RestartMode>>>
  gate,           \* StartGate.open
  paused,         \* local: the thread is paused
  err,            \* local: the error a cycle returned
  clock,          \* Clock::now
  reload,         \* what each bytecode.reload request has been told
  sent, launches  \* counters for the bounds

thread == <<pc, paused, err, clock>>
shared == <<state, last_error, stop, cmds, rx, signal, gate, reload>>
vars   == <<vars_rt, thread, shared, sent, launches>>

States == {"Boot", "Ready", "Running", "Paused", "Faulted", "Stopped"}

CyclePcs == {"start", "inputs", "tasks", "outputs", "retain", "write", "post",
             "cycleErr", "watchdog"}
ExitPcs  == {"fault", "exit", "done"}
StopPcs  == {"stopSave", "stopWrite", "stopped", "stoppedUnsaved"}
LoopPcs  == CyclePcs \cup StopPcs \cup {"top", "cmds", "signal", "sleep"}
Pcs      == LoopPcs \cup ExitPcs \cup {"down", "boot", "gate", "enter"}

Command ==
  [op : {"Pause", "Resume", "Snapshot"}]
    \cup [op : {"UpdateWatchdog", "UpdateFaultPolicy",
                "UpdateRetainSaveInterval", "UpdateIoSafeState"}, arg : Updates]
    \cup [op : {"ReloadBytecode"}, id : ReloadIds]
    \cup [op : {"MeshApply"}, var : Globals, val : Values]

Replies == {"none", "sent", "ok", "error", "timeout"}

TypeOK ==
  /\ mem \in [Vars -> Values]
  /\ image \in Values /\ wire \in [Drivers -> Values]
  /\ broken \subseteq Drivers
  /\ faulted \in BOOLEAN
  /\ policy \in Policies
  /\ now \in Nat /\ clock \in Nat
  /\ retain \in Retains
  /\ file \in Snapshots \cup {Absent, Torn}
  /\ synced \in Nat /\ writeFailed \in BOOLEAN
  /\ tasks \in TaskTables
  /\ pc \in Pcs /\ state \in States
  /\ last_error \in Errors \cup {NoError} /\ err \in Errors \cup {NoError}
  /\ stop \in BOOLEAN /\ rx \in BOOLEAN /\ gate \in BOOLEAN /\ paused \in BOOLEAN
  /\ cmds \in Seq(Command)
  /\ signal \in RestartModes \cup {"None"}
  /\ reload \in [ReloadIds -> Replies]
  /\ sent \in Nat /\ launches \in Nat

-----------------------------------------------------------------------------
(***************************************************************************)
(* The process.  A launch builds a fresh runtime, restarts it in the       *)
(* requested mode and loads the retain store; an error there ends it.      *)
(***************************************************************************)
FreshRetain == [lastSave |-> 0, dirty |-> FALSE, snap |-> NoSnap]

Init ==
  /\ mem = InitMem /\ image = InitValue /\ wire = [d \in Drivers |-> InitValue]
  /\ broken = {} /\ faulted = FALSE /\ policy \in BootPolicies
  /\ now = 0 /\ retain = FreshRetain /\ file = Absent /\ tasks = "booted"
  /\ synced = 0 /\ writeFailed = FALSE
  /\ pc = "down" /\ paused = FALSE /\ err = NoError /\ clock = 0
  /\ state = "Boot" /\ last_error = NoError /\ stop = FALSE /\ cmds = <<>>
  /\ rx = TRUE /\ signal = "None" /\ gate = FALSE
  /\ reload = [i \in ReloadIds |-> "none"]
  /\ sent = 0 /\ launches = 0

\* run_runtime up to spawn: restart(mode) of a runtime that holds initial
\* values only, then load_retain_store, whatever the mode.
Launch(mode) ==
  /\ pc = "down" /\ launches < MaxLaunches
  /\ launches' = launches + 1
  /\ policy' \in BootPolicies
  /\ IF LoadFails
       THEN UNCHANGED <<pc, mem>>
       ELSE pc' = "boot" /\ mem' = LoadedMem(RestartMem(mode, InitMem))
  /\ UNCHANGED <<image, wire, broken, faulted, now, store, tasks,
                 paused, err, clock, shared, sent>>

\* The end of a process takes everything with it but the file and the wires.
ProcessGone ==
  /\ pc' = "down"
  /\ mem' = InitMem /\ image' = InitValue /\ faulted' = FALSE
  /\ now' = 0 /\ retain' = FreshRetain /\ tasks' = "booted"
  /\ synced' = 0 /\ writeFailed' = FALSE
  /\ paused' = FALSE /\ err' = NoError /\ clock' = 0
  /\ state' = "Boot" /\ last_error' = NoError /\ stop' = FALSE /\ cmds' = <<>>
  /\ rx' = TRUE /\ signal' = "None" /\ gate' = FALSE
  /\ reload' = [i \in ReloadIds |-> "none"] /\ sent' = 0
  /\ broken' = {}
  /\ UNCHANGED <<wire, policy, file, launches>>

PowerLoss == CanCrash /\ pc # "down" /\ ProcessGone

\* run_runtime joins the thread and returns.
ProcessExit == pc = "done" /\ ProcessGone

\* The device behind a driver fails (external); it stays so for this process.
DriverBreaks(d) ==
  /\ pc # "down" /\ d \notin broken
  /\ broken' = broken \cup {d}
  /\ UNCHANGED <<mem, image, wire, faulted, policy, now, store, tasks,
                 thread, shared, sent, launches>>

-----------------------------------------------------------------------------
(***************************************************************************)
(* What other threads do: the control server, the mesh, run_runtime.       *)
(***************************************************************************)
Request == pc # "down" /\ sent < MaxSent /\ sent' = sent + 1

\* ResourceControl::send_command fails once the receiver is gone.  The control
\* server ignores that error for pause and resume and reports it for a reload.
SendCommand(c) ==
  /\ Request
  /\ cmds' = IF rx THEN Append(cmds, c) ELSE cmds
  /\ reload' = IF c.op = "ReloadBytecode"
               THEN [reload EXCEPT ![c.id] = IF rx THEN "sent" ELSE "error"]
               ELSE reload
  /\ UNCHANGED <<vars_rt, thread, state, last_error, stop, rx, signal, gate, launches>>

Send == \E c \in Command :
          /\ c.op = "ReloadBytecode" => reload[c.id] = "none"
          /\ SendCommand(c)

\* handle_bytecode_reload gives up after five seconds: the command it queued
\* stays in the channel.
ReloadTimeout(i) ==
  /\ pc # "down" /\ reload[i] = "sent"
  /\ reload' = [reload EXCEPT ![i] = "timeout"]
  /\ UNCHANGED <<vars_rt, thread, state, last_error, stop, cmds, rx, signal,
                 gate, sent, launches>>

Stop ==
  /\ Request /\ stop' = TRUE
  /\ UNCHANGED <<vars_rt, thread, state, last_error, cmds, rx, signal, gate,
                 reload, launches>>

\* handle_restart overwrites a request that was not taken yet.
QueueRestart(mode) ==
  /\ Request /\ signal' = mode
  /\ UNCHANGED <<vars_rt, thread, state, last_error, stop, cmds, rx, gate,
                 reload, launches>>

OpenGate ==
  /\ HasGate /\ pc # "down" /\ ~gate /\ gate' = TRUE
  /\ UNCHANGED <<vars_rt, thread, state, last_error, stop, cmds, rx, signal,
                 reload, sent, launches>>

Environment ==
  \/ \E mode \in RestartModes : Launch(mode) \/ QueueRestart(mode)
  \/ PowerLoss \/ ProcessExit
  \/ \E d \in Drivers : DriverBreaks(d)
  \/ \E i \in ReloadIds : ReloadTimeout(i)
  \/ Send \/ Stop \/ OpenGate

-----------------------------------------------------------------------------
(***************************************************************************)
(* The resource thread.                                                    *)
(***************************************************************************)
env == <<broken, stop, rx, signal, gate, reload, sent, launches>>

Goto(from, to) == pc = from /\ pc' = to

\* Every error that ends the loop is put into last_error first.
GiveUp(e) == pc' = "fault" /\ last_error' = e

\* Thread spawned: wait at the gate if there is one.
Boot ==
  /\ IF HasGate THEN Goto("boot", "gate") /\ state' = "Ready"
                ELSE Goto("boot", "enter") /\ UNCHANGED state
  /\ UNCHANGED <<vars_rt, paused, err, clock, last_error, cmds, env>>

\* StartGate::wait_open looks at the gate first, then at the stop flag.
WaitOpen ==
  /\ IF gate THEN Goto("gate", "enter") /\ UNCHANGED state
             ELSE stop /\ Goto("gate", "exit") /\ state' = "Stopped"
  /\ UNCHANGED <<vars_rt, paused, err, clock, last_error, cmds, env>>

Enter ==
  /\ Goto("enter", "top") /\ state' = "Running"
  /\ UNCHANGED <<vars_rt, paused, err, clock, last_error, cmds, env>>

CheckStop ==
  /\ Goto("top", IF stop THEN "stopSave" ELSE "cmds")
  /\ UNCHANGED <<vars_rt, paused, err, clock, state, last_error, cmds, env>>

\* save_retain_store on the way out; its result is ignored.
StopSave ==
  /\ \/ Goto("stopSave", "stopped") /\ SkipSave
     \/ Goto("stopSave", "stopWrite") /\ StoreCreate
     \/ Goto("stopSave", "stoppedUnsaved") /\ StoreCreateFails
     \/ Goto("stopWrite", "stopped") /\ StoreWrite
     \/ Goto("stopWrite", "stoppedUnsaved") /\ StoreWriteFails
  /\ UNCHANGED <<mem, image, wire, faulted, policy, now, synced, tasks, paused, err,
                 clock, state, last_error, cmds, env>>

SetStopped ==
  /\ pc \in {"stopped", "stoppedUnsaved"} /\ pc' = "exit" /\ state' = "Stopped"
  /\ UNCHANGED <<vars_rt, paused, err, clock, last_error, cmds, env>>

(***************************************************************************)
(* Commands are taken one by one until the channel is empty.               *)
(***************************************************************************)
TakePause(c) ==
  /\ c.op \in {"Pause", "Resume"}
  /\ paused' = (c.op = "Pause")
  /\ state' = IF c.op = "Pause" THEN "Paused" ELSE "Running"
  /\ UNCHANGED <<vars_rt, reload>>

TakeUpdate(c) ==
  /\ \/ c.op = "UpdateWatchdog" /\ policy' = [policy EXCEPT !.watchdog = c.arg.watchdog]
     \/ c.op = "UpdateFaultPolicy" /\ policy' = [policy EXCEPT !.fault = c.arg.fault]
     \/ /\ c.op = "UpdateRetainSaveInterval"
        /\ policy' = [policy EXCEPT !.interval = c.arg.interval]
     \/ c.op = "UpdateIoSafeState" /\ policy' = [policy EXCEPT !.safe = c.arg.safe]
  /\ UNCHANGED <<mem, image, wire, faulted, now, store, tasks, paused, state, reload>>

\* Mesh updates go to globals; a snapshot only reads.
TakeMesh(c) ==
  /\ \/ c.op = "MeshApply" /\ mem' = [mem EXCEPT ![c.var] = c.val]
     \/ c.op = "Snapshot" /\ UNCHANGED mem
  /\ UNCHANGED <<image, wire, faulted, policy, now, store, tasks,
                 paused, state, reload>>

\* ReloadBytecode: the task table, then a warm restart, then the retain store,
\* each of which may fail; the thread carries on with whatever was done.
Answer(i, r) ==
  reload' = IF reload[i] = "sent" THEN [reload EXCEPT ![i] = r] ELSE reload

TakeReload(c) ==
  /\ c.op = "ReloadBytecode"
  /\ \/ /\ tasks' \in {tasks, "torn"} /\ Answer(c.id, "error")
        /\ UNCHANGED <<mem, now, faulted>>
     \/ /\ tasks' = "reloaded" /\ Answer(c.id, "error")
        /\ RestartCanFail /\ RestartFails("Warm")
     \/ /\ tasks' = "reloaded" /\ Answer(c.id, "error")
        /\ LoadFails /\ Restart("Warm")
     \/ /\ tasks' = "reloaded" /\ Answer(c.id, "ok") /\ ~LoadFails
        /\ mem' = LoadedMem(RestartMem("Warm", mem)) /\ now' = 0 /\ faulted' = FALSE
  /\ UNCHANGED <<image, wire, policy, store, paused, state>>

TakeCommand ==
  /\ pc = "cmds" /\ cmds # <<>>
  /\ LET c == Head(cmds) IN TakePause(c) \/ TakeUpdate(c) \/ TakeMesh(c) \/ TakeReload(c)
  /\ cmds' = Tail(cmds)
  /\ UNCHANGED <<broken, pc, err, clock, last_error, stop, rx, signal, gate, sent, launches>>

CommandsEmpty ==
  /\ cmds = <<>> /\ Goto("cmds", "signal")
  /\ UNCHANGED <<vars_rt, paused, err, clock, state, last_error, cmds, env>>

\* Variant: the pause is not looked at.
AfterSignalUnchecked == "start"

\* A paused resource sleeps instead of running a cycle.
AfterSignal == IF paused THEN "sleep" ELSE "start"

\* The restart signal is taken, and acted upon, under its lock.
TakeSignal ==
  /\ pc = "signal"
  /\ \/ /\ signal = "None" \/ ~LoadFails
        /\ pc' = AfterSignal
        /\ IF signal = "None" THEN UNCHANGED memVars
           ELSE /\ mem' = LoadedMem(RestartMem(signal, mem))
                /\ now' = 0 /\ faulted' = FALSE
        /\ UNCHANGED last_error
     \/ /\ signal # "None" /\ RestartCanFail /\ RestartFails(signal)
        /\ GiveUp("Restart")
     \/ /\ signal # "None" /\ LoadFails /\ Restart(signal)
        /\ GiveUp("RetainLoad")
  /\ signal' = "None"
  /\ UNCHANGED <<image, wire, broken, policy, store, tasks, paused, err,
                 clock, state, stop, cmds, rx, gate, reload, sent, launches>>

(***************************************************************************)
(* One scan cycle.                                                         *)
(***************************************************************************)
CycleFault(from, e) == Goto(from, "cycleErr") /\ err' = e /\ RecordFault

\* The clock is read; a simulation may inject a fault before the cycle.
StartCycle ==
  /\ now' = clock
  /\ \/ Goto("start", "inputs") /\ UNCHANGED <<err, faulted, image, wire>>
     \/ HasSimulation /\ CycleFault("start", "Simulation")
  /\ UNCHANGED <<mem, policy, store, tasks, paused, clock, state,
                 last_error, cmds, env>>

\* execute_cycle refuses a faulted resource, then reads every driver.
ReadInputs ==
  /\ \/ /\ faulted /\ Goto("inputs", "cycleErr") /\ err' = "ResourceFaulted"
        /\ UNCHANGED <<faulted, image, wire>>
     \/ ~faulted /\ broken = {} /\ Goto("inputs", "tasks")
        /\ UNCHANGED <<err, faulted, image, wire>>
     \/ ~faulted /\ broken # {} /\ CycleFault("inputs", "Input")
  /\ UNCHANGED <<mem, now, policy, store, tasks, paused, clock, state,
                 last_error, cmds, env>>

\* The ready tasks and the background programs compute; one may fail midway.
RunTasks ==
  /\ pc = "tasks"
  /\ mem' \in [Vars -> Values]
  /\ \/ Goto("tasks", "outputs") /\ UNCHANGED <<err, faulted, image, wire>>
     \/ CycleFault("tasks", "Task")
  /\ UNCHANGED <<now, policy, store, tasks, paused, clock, state,
                 last_error, cmds, env>>

\* The image takes the values of memory, then every driver is written; after a
\* driver error the fault decision follows in the same step.
WriteOutputs ==
  /\ pc = "outputs"
  /\ IF broken = {}
       THEN /\ image' = mem[OutVar] /\ WriteDrivers(image')
            /\ pc' = "retain" /\ UNCHANGED <<err, faulted>>
       ELSE /\ LET safe == from_fault_policy(policy.fault)
                   v    == IF safe /\ policy.safe THEN SafeValue ELSE mem[OutVar]
               IN  image' = v /\ WriteDrivers(v)
            /\ pc' = "cycleErr" /\ err' = "Output" /\ faulted' = TRUE
  /\ UNCHANGED <<mem, now, policy, store, tasks, paused, clock, state,
                 last_error, cmds, env>>

\* mark_dirty and maybe_save_retain_store.  The history variable synced notes the
\* time whenever a cycle ends with its RETAIN globals in the file.
SaveRetain ==
  LET r == [retain EXCEPT !.dirty = HasStore \/ @]
      due == HasStore /\ should_save(r)
      saved == UNCHANGED <<err, faulted, image, wire>>
  IN
  /\ \/ Goto("retain", "post") /\ ~due /\ retain' = r /\ saved
          /\ UNCHANGED <<file, writeFailed>>
     \/ Goto("retain", "post") /\ due /\ SkipSave /\ saved
     \/ Goto("retain", "write") /\ due /\ ~SaveSkipped /\ file' = Torn
          /\ retain' = r /\ UNCHANGED writeFailed /\ saved
     \/ due /\ ~SaveSkipped /\ DiskFails /\ CycleFault("retain", "RetainSave")
          /\ retain' = r /\ UNCHANGED <<file, writeFailed>>
     \/ Goto("write", "post") /\ StoreWrite /\ saved
     \/ StoreWriteFails /\ CycleFault("write", "RetainSave")
  /\ synced' = IF pc' = "post" /\ HasStore /\ file' = retain_snapshot(mem)
               THEN now ELSE synced
  /\ UNCHANGED <<mem, now, policy, tasks, paused, clock, state, last_error, cmds, env>>

\* The couplings of a simulation may fail after the cycle: an error, but no fault.
PostCycle ==
  /\ \/ Goto("post", "watchdog") /\ UNCHANGED err
     \/ HasSimulation /\ Goto("post", "cycleErr") /\ err' = "Coupling"
  /\ UNCHANGED <<vars_rt, paused, clock, state, last_error, cmds, env>>

\* Variant: the cycle is tried again without going round the loop.
AfterRestartRetry == "start"

\* `continue`: the loop starts over, stop flag first.
AfterRestart == "top"

\* The cycle failed: restart warm and try again at once, or give up.
CycleFailed ==
  /\ pc = "cycleErr"
  /\ \/ /\ policy.fault = "Restart" /\ Restart("Warm")
        /\ pc' = AfterRestart /\ UNCHANGED last_error
     \/ /\ policy.fault = "Restart" /\ RestartCanFail /\ RestartFails("Warm")
        /\ GiveUp("Restart")
     \/ /\ policy.fault # "Restart" /\ UNCHANGED memVars
        /\ GiveUp(err)
  /\ err' = NoError
  /\ UNCHANGED <<image, wire, policy, store, tasks, paused, clock, state, cmds, env>>

\* The cycle took longer than the watchdog allows, or not.
Watchdog ==
  /\ pc = "watchdog"
  /\ \/ /\ pc' = "sleep" /\ UNCHANGED <<memVars, ioVars, last_error>>
     \/ /\ policy.watchdog = "Restart" /\ Restart("Warm")
        /\ pc' = "sleep" /\ UNCHANGED <<ioVars, last_error>>
     \/ /\ policy.watchdog = "Restart" /\ RestartCanFail /\ RestartFails("Warm")
        /\ GiveUp("Restart") /\ UNCHANGED ioVars
     \/ /\ policy.watchdog \in {"Halt", "SafeHalt"}
        /\ ApplyFault(from_watchdog(policy.watchdog)) /\ UNCHANGED <<mem, now>>
        /\ GiveUp("Watchdog")
  /\ UNCHANGED <<policy, store, tasks, paused, err, clock, state, cmds, env>>

\* last_error is published before the state.
SetFaulted ==
  /\ Goto("fault", "exit") /\ state' = "Faulted"
  /\ UNCHANGED <<vars_rt, paused, err, clock, last_error, cmds, env>>

\* Variant: a paused resource does not look at its commands.
SleepPausedSkipsCommands ==
  /\ Goto("sleep", IF paused THEN "signal" ELSE "top")
  /\ UNCHANGED <<vars_rt, paused, err, clock, state, last_error, cmds, env>>

Sleep ==
  /\ Goto("sleep", "top")
  /\ clock' = IF clock < MaxTime THEN clock + 1 ELSE clock
  /\ UNCHANGED <<vars_rt, paused, err, state, last_error, cmds, env>>

\* The loop returns: its end of the channel goes, and what was queued in it;
\* a reload waiting for an answer sees its channel closed.
Exit ==
  /\ Goto("exit", "done") /\ rx' = FALSE /\ cmds' = <<>>
  /\ reload' = [i \in ReloadIds |-> IF reload[i] = "sent" THEN "timeout" ELSE reload[i]]
  /\ UNCHANGED <<vars_rt, paused, err, clock, state, last_error, stop, signal,
                 gate, sent, launches>>

Cycle == StartCycle \/ ReadInputs \/ RunTasks \/ WriteOutputs \/ SaveRetain
           \/ PostCycle \/ CycleFailed \/ Watchdog

Thread == \/ Boot \/ WaitOpen \/ Enter \/ CheckStop \/ StopSave \/ SetStopped
          \/ TakeCommand \/ CommandsEmpty \/ TakeSignal \/ Cycle
          \/ SetFaulted \/ Sleep \/ Exit

Next == Environment \/ Thread

Spec == Init /\ [][Next]_vars

\* The resource thread is scheduled, and run_runtime goes on to open the gate;
\* nothing is assumed of clients, devices or power.
FairSpec == Spec /\ WF_vars(Thread) /\ WF_vars(OpenGate)

-----------------------------------------------------------------------------
(***************************************************************************)
(* Properties.                                                             *)
(***************************************************************************)

\* A client that reads state = Faulted finds the cause in last_error: the two
\* live behind different mutexes and the loop publishes the error first.
FaultedHasError == state = "Faulted" => last_error # NoError

\* While clients see Paused, no part of a scan cycle runs, whatever restarts,
\* reloads or policy changes are requested meanwhile.
PausedMeansIdle == state = "Paused" => pc \notin CyclePcs

\* The fault latch of the runtime is never carried into another cycle: between
\* a recorded fault and the next cycle there is a restart, or no next cycle.
\* The ResourceFaulted error of execute_cycle is therefore never the cause.
FaultIsHandled ==
  /\ faulted => pc \in {"cycleErr"} \cup ExitPcs
  /\ last_error # "ResourceFaulted"

\* A fault under safe_halt, and a watchdog halt, leave the configured safe
\* value on every driver up to the first one that fails, from before clients
\* can see Faulted until the process is gone.
SafeHaltIsSafe ==
  /\ state = "Faulted" /\ faulted /\ policy.safe
  /\ last_error = "Watchdog" \/ policy.fault = "SafeHalt"
  => \A d \in Drivers : Reached(d) => wire[d] = SafeValue

\* A stop that did save leaves the retain file with the values the RETAIN
\* globals have at that moment, although the save is skipped when the manager
\* believes the file is current (save_snapshot); a write that failed half way and
\* was not repeated is excepted (FailedSaveIsRepeated below).
GracefulStopPersists ==
  pc = "stopped" /\ HasStore /\ ~writeFailed => file = retain_snapshot(mem)

\* The save interval bounds what a power loss can take back: at the end of a cycle
\* the file holds the RETAIN globals of the end of some cycle less than an interval
\* ago, although a save may be skipped and still move last_save, the interval
\* changes while values wait, and restarts, reloads and failed saves come between.
LossIsBounded ==
  pc = "post" /\ HasStore /\ policy.interval # NoInterval /\ ~writeFailed
    => now - synced < policy.interval \/ synced = now

outcome == <<state, last_error, wire, file, mem>>

\* Once clients see Stopped or Faulted the thread changes neither the outputs
\* nor the retain file, and the state is final for this process.
EndedMeansQuiet ==
  [][pc' # "down" /\ state \in {"Faulted", "Stopped"} => UNCHANGED outcome]_vars

\* A stop request ends the thread, from the gate, from a pause or from a loop
\* of fault and restart.
StopEnds == stop ~> pc \in {"done", "down"}

\* Every command accepted by the channel is taken, or dropped with the loop; a
\* queued restart is taken, also from a pause, or the resource reached its end.
RequestsTaken ==
  /\ cmds # <<>> ~> cmds = <<>>
  /\ signal # "None" ~> signal = "None" \/ state \in {"Faulted", "Stopped"}

(***************************************************************************)
(* Statements of the documentation that the code does not keep: TLC finds  *)
(* each of them violated, README.md says how.                              *)
(***************************************************************************)

\* 10-runtime.md, 6.7: "Cold restart: RETAIN and NON_RETAIN variables are
\* initialized."  The loop loads the retain store after a cold restart too.
ColdRestartInitialises ==
  [][pc = "signal" /\ signal = "Cold" /\ pc' # "fault" /\ pc' # "down"
       => signal' = "Cold" \/ mem' = InitMem]_vars

\* retain.rs, save_snapshot: last_snapshot is only replaced when the store took the
\* snapshot, so a save after a failed one is written: not when the values went back
\* to those of the last snapshot, which the failed write cut short.
FailedSaveIsRepeated == pc = "stopped" /\ HasStore => file = retain_snapshot(mem)

\* PLC_SAFETY_GUIDE.md: "When a fault occurs, outputs are driven to these
\* values before halting."
FaultedOutputsSafe ==
  state = "Faulted" /\ policy.safe => \A d \in Drivers \ broken : wire[d] = SafeValue

\* PLC_OPERATOR_GUIDE.md: "Clear the fault by restarting: trust-runtime ctl
\* ... restart --mode cold".
RestartClearsFault == state = "Faulted" /\ signal # "None" ~> state = "Running"

\* 10-runtime.md, 6.7: only "unflushed changes may be lost on sudden power
\* loss": once a snapshot was flushed, the store holds one after a power loss.
FlushedSurvives ==
  [][pc' = "down" /\ retain.snap # NoSnap => file' \in Snapshots]_vars
=============================================================================
