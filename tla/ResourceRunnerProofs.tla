----------------------- MODULE ResourceRunnerProofs -----------------------
(***************************************************************************)
(* What holds of the resource thread for every set of variables, values    *)
(* and drivers, every policy, and any number of requests, launches and     *)
(* power losses.                                                           *)
(*                                                                         *)
(* No property of ResourceRunner is inductive alone: what clients see      *)
(* (state, last_error) follows from where the thread is, and where the     *)
(* thread may be follows from its local variables.  The inductive          *)
(* invariant says so, one part per question.                               *)
(***************************************************************************)
EXTENDS ResourceRunner, TLAPS

\* state = Faulted or Stopped is published by the last step of the loop, after
\* last_error.
StateInv ==
  /\ pc \in {"exit", "done"} <=> state \in {"Faulted", "Stopped"}
  /\ state = "Faulted" => last_error \notin {NoError, "ResourceFaulted"}
  /\ pc = "fault" => last_error \notin {NoError, "ResourceFaulted"}
  /\ pc \notin {"fault", "exit", "done"} => last_error = NoError
  /\ pc = "cycleErr" => err \notin {NoError, "ResourceFaulted", "Watchdog"}
  /\ state = "Stopped" => last_error = NoError

\* The local flag behind state = Paused.
PauseInv ==
  /\ state = "Paused" => paused
  /\ pc \in CyclePcs \cup {"down", "boot", "gate", "enter"} => ~paused

\* The fault latch is only up between a fault and its handling.
FaultInv == faulted => pc \in {"cycleErr"} \cup ExitPcs

\* Outputs after a fault that asked for the safe state.
SafeInv ==
  /\ faulted /\ policy.safe
  /\ \/ policy.fault = "SafeHalt"
     \/ pc \in ExitPcs /\ last_error = "Watchdog"
  => \A d \in Drivers : Reached(d) => wire[d] = SafeValue

\* What the retain manager believes of the file is true between saves, until a
\* write fails.
RetainInv ==
  ~writeFailed =>
    /\ retain.snap # NoSnap /\ pc \notin {"write", "stopWrite"} => file = retain.snap
    /\ pc = "stopped" /\ HasStore => file = retain_snapshot(mem)

\* The phases of a cycle that see the time StartCycle read.
TimedPcs == {"inputs", "tasks", "outputs", "retain", "write", "post"}

\* A cycle runs at the time of the clock, and last_save never claims more than the
\* file held at the end of a cycle: only the save of a stop, after the last cycle,
\* may set it ahead.
SyncInv ==
  /\ now <= clock /\ retain.lastSave <= clock
  /\ pc \in TimedPcs => now = clock
  /\ HasStore /\ ~writeFailed /\ pc \notin {"stopped", "stoppedUnsaved"} \cup ExitPcs
       => retain.lastSave <= synced

IInv == TypeOK /\ StateInv /\ PauseInv /\ FaultInv /\ SafeInv /\ RetainInv /\ SyncInv

-----------------------------------------------------------------------------
\* What the operators on memory return: a restart, whole or partial, and a
\* retain snapshot keep every variable at one of its values.
LEMMA MemoryTypes ==
  ASSUME NEW m \in [Vars -> Values], NEW mode, NEW S
  PROVE  /\ InitMem \in [Vars -> Values]
         /\ RestartMem(mode, m) \in [Vars -> Values]
         /\ PartialRestartMem(mode, m, S) \in [Vars -> Values]
         /\ retain_snapshot(m) \in Snapshots
BY DataAssumption
DEF InitMem, RestartMem, PartialRestartMem, retain_snapshot, Snapshots, Vars, Globals

LEMMA AppliedType ==
  ASSUME NEW m \in [Vars -> Values], NEW s \in Snapshots
  PROVE  apply_retain_snapshot(m, s) \in [Vars -> Values]
BY DEF apply_retain_snapshot, Snapshots

\* Loading a store that is not torn keeps memory well typed.
LEMMA LoadedType ==
  ASSUME NEW m \in [Vars -> Values], ~LoadFails,
         file \in Snapshots \cup {Absent, Torn}
  PROVE  LoadedMem(m) \in [Vars -> Values]
BY AppliedType DEF LoadedMem, LoadFails

\* The safe state and a fault keep the process image well typed.
LEMMA FaultTypes ==
  ASSUME TypeOK, NEW safe \in BOOLEAN, ApplyFault(safe)
  PROVE  image' \in Values /\ wire' \in [Drivers -> Values] /\ faulted' \in BOOLEAN
BY DataAssumption DEF ApplyFault, apply_safe_state, WriteDrivers, TypeOK, ioVars, Policies

\* Restarts keep memory, time and the fault latch well typed.
LEMMA RestartTypes ==
  ASSUME TypeOK, NEW mode, Restart(mode) \/ RestartFails(mode)
  PROVE  mem' \in [Vars -> Values] /\ now' \in Nat /\ faulted' \in BOOLEAN
<1>1. CASE Restart(mode)
  BY <1>1, MemoryTypes DEF Restart, TypeOK
<1>2. CASE RestartFails(mode)
  <2>1. PICK S \in SUBSET Vars : mem' = PartialRestartMem(mode, mem, S)
    BY <1>2 DEF RestartFails
  <2>2. mem' \in [Vars -> Values]
    BY <2>1, MemoryTypes DEF TypeOK
  <2> QED
    BY <1>2, <2>2 DEF RestartFails, TypeOK
<1> QED
  BY <1>1, <1>2

\* Saving keeps the manager and the file well typed.
LEMMA SaveTypes ==
  ASSUME TypeOK, SkipSave \/ StoreCreate \/ StoreCreateFails \/ StoreWrite \/ StoreWriteFails
  PROVE  /\ retain' \in Retains /\ file' \in Snapshots \cup {Absent, Torn}
         /\ writeFailed' \in BOOLEAN
BY MemoryTypes DEF SkipSave, StoreCreate, StoreCreateFails, StoreWrite, StoreWriteFails,
     Saved, Retains, TypeOK

LEMMA InitInv == Init => IInv
<1> SUFFICES ASSUME Init PROVE IInv
  OBVIOUS
<1>1. InitMem \in [Vars -> Values]
  BY DataAssumption DEF InitMem
<1>2. TypeOK
  <2>1. policy \in Policies /\ retain \in Retains
    BY RunnerAssumption DEF Init, FreshRetain, Retains
  <2>2. wire \in [Drivers -> Values] /\ reload \in [ReloadIds -> Replies]
    BY DataAssumption DEF Init, Replies
  <2>3. cmds \in Seq(Command)
    BY DEF Init
  <2> QED
    BY <1>1, <2>1, <2>2, <2>3, DataAssumption
    DEF Init, TypeOK, Pcs, States, TaskTables, RestartModes
<1>3. StateInv /\ PauseInv /\ FaultInv /\ SafeInv
  BY DEF Init, StateInv, PauseInv, FaultInv, SafeInv
<1>4. RetainInv /\ SyncInv
  BY DEF Init, RetainInv, SyncInv, TimedPcs, FreshRetain
<1> QED
  BY <1>2, <1>3, <1>4 DEF IInv

-----------------------------------------------------------------------------
\* Types are preserved by what clients, devices and the process do.
LEMMA EnvironmentTypes == TypeOK /\ Environment => TypeOK'
<1> SUFFICES ASSUME TypeOK, Environment PROVE TypeOK'
  OBVIOUS
<1> USE DEF TypeOK, vars_rt, store, thread, shared
<1>1. ASSUME NEW mode \in RestartModes, Launch(mode) PROVE TypeOK'
  <2>1. mem' \in [Vars -> Values] /\ pc' \in Pcs
    <3>1. RestartMem(mode, InitMem) \in [Vars -> Values]
      BY MemoryTypes DEF TypeOK
    <3>2. CASE LoadFails
      BY <1>1, <3>2 DEF Launch
    <3>3. CASE ~LoadFails
      BY <1>1, <3>1, <3>3, LoadedType DEF Launch, Pcs
    <3> QED
      BY <3>2, <3>3
  <2> QED
    BY <1>1, <2>1, RunnerAssumption DEF Launch
<1>2. ASSUME NEW mode \in RestartModes, QueueRestart(mode) PROVE TypeOK'
  BY <1>2 DEF QueueRestart, Request
<1>3. CASE ProcessGone
  <2>1. mem' \in [Vars -> Values] /\ wire' \in [Drivers -> Values] /\ image' \in Values
    BY <1>3, DataAssumption DEF ProcessGone, InitMem
  <2>2. retain' \in Retains
    BY <1>3 DEF ProcessGone, FreshRetain, Retains
  <2>3. reload' \in [ReloadIds -> Replies] /\ cmds' \in Seq(Command)
    BY <1>3 DEF ProcessGone, Replies
  <2> QED
    BY <1>3, <2>1, <2>2, <2>3 DEF ProcessGone, Pcs, States, TaskTables
<1>4. ASSUME NEW d \in Drivers, DriverBreaks(d) PROVE TypeOK'
  BY <1>4 DEF DriverBreaks
<1>5. ASSUME NEW i \in ReloadIds, ReloadTimeout(i) PROVE TypeOK'
  BY <1>5 DEF ReloadTimeout, Replies
<1>6. CASE Send
  <2>1. PICK c \in Command : SendCommand(c)
    BY <1>6 DEF Send
  <2>2. cmds' \in Seq(Command)
    BY <2>1 DEF SendCommand
  <2>3. reload' \in [ReloadIds -> Replies]
    BY <2>1 DEF SendCommand, Replies
  <2> QED
    BY <2>1, <2>2, <2>3 DEF SendCommand, Request
<1>7. CASE Stop
  BY <1>7 DEF Stop, Request
<1>8. CASE OpenGate
  BY <1>8 DEF OpenGate
<1> QED
  BY <1>1, <1>2, <1>3, <1>4, <1>5, <1>6, <1>7, <1>8 DEF Environment, PowerLoss, ProcessExit

\* Types are preserved by taking a command.
LEMMA CommandTypes == TypeOK /\ TakeCommand => TypeOK'
<1> SUFFICES ASSUME TypeOK, TakeCommand PROVE TypeOK'
  OBVIOUS
<1> USE DEF TypeOK, vars_rt, store
<1> DEFINE c == Head(cmds)
<1>1. c \in Command /\ cmds' \in Seq(Command)
  BY DEF TakeCommand
<1> HIDE DEF c
<1>2. TakePause(c) \/ TakeUpdate(c) \/ TakeMesh(c) \/ TakeReload(c)
  BY DEF TakeCommand, c
<1>3. CASE TakePause(c)
  BY <1>1, <1>3 DEF TakeCommand, TakePause, States
<1>4. CASE TakeUpdate(c)
  <2>1. policy' \in Policies
    BY <1>1, <1>4, RunnerAssumption DEF TakeUpdate, Command, Policies
  <2> QED
    BY <1>1, <1>4, <2>1 DEF TakeCommand, TakeUpdate
<1>5. CASE TakeMesh(c)
  <2>1. mem' \in [Vars -> Values]
    BY <1>1, <1>5 DEF TakeMesh, Command
  <2> QED
    BY <1>1, <1>5, <2>1 DEF TakeCommand, TakeMesh
<1>6. CASE TakeReload(c)
  <2>1. reload' \in [ReloadIds -> Replies]
    BY <1>1, <1>6 DEF TakeReload, Answer, Command, Replies
  <2>2. mem' \in [Vars -> Values] /\ now' \in Nat /\ faulted' \in BOOLEAN
    <3>1. RestartMem("Warm", mem) \in [Vars -> Values]
      BY MemoryTypes
    <3>2. ~LoadFails => LoadedMem(RestartMem("Warm", mem)) \in [Vars -> Values]
      BY <3>1, LoadedType
    <3>3. CASE Restart("Warm") \/ RestartFails("Warm")
      BY <3>3, RestartTypes
    <3>4. CASE UNCHANGED <<mem, now, faulted>>
      BY <3>4
    <3>5. CASE ~LoadFails /\ mem' = LoadedMem(RestartMem("Warm", mem)) /\ now' = 0 /\ faulted' = FALSE
      BY <3>2, <3>5
    <3> QED
      BY <1>6, <3>3, <3>4, <3>5, Zenon DEF TakeReload
  <2>3. tasks' \in TaskTables
    BY <1>6 DEF TakeReload, TaskTables
  <2> QED
    BY <1>1, <1>6, <2>1, <2>2, <2>3 DEF TakeCommand, TakeReload
<1> QED
  BY <1>2, <1>3, <1>4, <1>5, <1>6

\* Types are preserved by the phases of a scan cycle.
LEMMA CycleTypes == TypeOK /\ Cycle => TypeOK'
<1> SUFFICES ASSUME TypeOK, Cycle PROVE TypeOK'
  OBVIOUS
<1> USE DEF TypeOK, vars_rt, store, env, Goto, Errors
<1> DEFINE IoOK == image' \in Values /\ wire' \in [Drivers -> Values] /\ faulted' \in BOOLEAN
           MemOK == mem' \in [Vars -> Values] /\ now' \in Nat
<1>0. ASSUME NEW from, NEW e, CycleFault(from, e) PROVE IoOK /\ pc' \in Pcs /\ err' = e
  BY <1>0, FaultTypes
  DEF CycleFault, RecordFault, from_fault_policy, Pcs, LoopPcs, CyclePcs
<1>1. CASE StartCycle
  <2>1. IoOK /\ pc' \in Pcs /\ err' \in Errors \cup {NoError}
    BY <1>0, <1>1 DEF StartCycle, Pcs, LoopPcs, CyclePcs
  <2> QED
    BY <1>1, <2>1 DEF StartCycle
<1>2. CASE ReadInputs
  <2>1. IoOK /\ pc' \in Pcs /\ err' \in Errors \cup {NoError}
    BY <1>0, <1>2 DEF ReadInputs, Pcs, LoopPcs, CyclePcs
  <2> QED
    BY <1>2, <2>1 DEF ReadInputs
<1>3. CASE RunTasks
  <2>1. IoOK /\ pc' \in Pcs /\ err' \in Errors \cup {NoError}
    BY <1>0, <1>3 DEF RunTasks, Pcs, LoopPcs, CyclePcs
  <2> QED
    BY <1>3, <2>1 DEF RunTasks
<1>4. CASE WriteOutputs
  <2>1. SafeValue \in Values /\ mem[OutVar] \in Values
    BY DataAssumption
  <2>2. image' \in {SafeValue, mem[OutVar]} /\ WriteDrivers(image')
    BY <1>4 DEF WriteOutputs
  <2>3. wire' \in [Drivers -> Values]
    BY <2>1, <2>2 DEF WriteDrivers
  <2>4. faulted' \in BOOLEAN /\ err' \in Errors \cup {NoError}
    BY <1>4 DEF WriteOutputs
  <2>5. pc' \in Pcs
    BY <1>4 DEF WriteOutputs, Pcs, LoopPcs, CyclePcs
  <2> QED
    BY <1>4, <2>1, <2>2, <2>3, <2>4, <2>5 DEF WriteOutputs
<1>5. CASE SaveRetain
  <2>1. IoOK /\ pc' \in Pcs /\ err' \in Errors \cup {NoError}
    BY <1>0, <1>5 DEF SaveRetain, Pcs, LoopPcs, CyclePcs
  <2>2. /\ retain' \in Retains /\ file' \in Snapshots \cup {Absent, Torn}
        /\ writeFailed' \in BOOLEAN /\ synced' \in Nat
    BY <1>5, SaveTypes, DataAssumption DEF SaveRetain, Retains
  <2> QED
    BY <1>5, <2>1, <2>2 DEF SaveRetain
<1>6. CASE PostCycle
  BY <1>6 DEF PostCycle, Pcs, LoopPcs, CyclePcs
<1>7. CASE CycleFailed
  <2>1. MemOK /\ faulted' \in BOOLEAN
    BY <1>7, RestartTypes DEF CycleFailed, memVars
  <2> QED
    BY <1>7, <2>1 DEF CycleFailed, AfterRestart, GiveUp, Pcs, LoopPcs, ExitPcs
<1>8. CASE Watchdog
  <2>1. MemOK /\ IoOK
    BY <1>8, RestartTypes, FaultTypes DEF Watchdog, memVars, ioVars, from_watchdog
  <2> QED
    BY <1>8, <2>1 DEF Watchdog, GiveUp, Pcs, LoopPcs, ExitPcs
<1> QED
  BY <1>1, <1>2, <1>3, <1>4, <1>5, <1>6, <1>7, <1>8 DEF Cycle

\* Types are preserved by the rest of the loop.
LEMMA ThreadTypes == TypeOK /\ Thread => TypeOK'
<1> SUFFICES ASSUME TypeOK, Thread PROVE TypeOK'
  OBVIOUS
<1> USE DEF TypeOK, vars_rt, store, env, Goto
<1>1. CASE Boot
  BY <1>1, RunnerAssumption DEF Boot, Pcs, LoopPcs, StopPcs, ExitPcs, CyclePcs, States, Errors
<1>2. CASE WaitOpen
  BY <1>2, RunnerAssumption DEF WaitOpen, Pcs, LoopPcs, StopPcs, ExitPcs, CyclePcs, States, Errors
<1>3. CASE Enter
  BY <1>3, RunnerAssumption DEF Enter, Pcs, LoopPcs, StopPcs, ExitPcs, CyclePcs, States, Errors
<1>4. CASE CheckStop
  BY <1>4, RunnerAssumption DEF CheckStop, Pcs, LoopPcs, StopPcs, ExitPcs, CyclePcs, States, Errors
<1>5. CASE SetStopped
  BY <1>5, RunnerAssumption DEF SetStopped, Pcs, LoopPcs, StopPcs, ExitPcs, CyclePcs, States, Errors
<1>6. CASE CommandsEmpty
  BY <1>6, RunnerAssumption DEF CommandsEmpty, Pcs, LoopPcs, StopPcs, ExitPcs, CyclePcs, States, Errors
<1>8. CASE SetFaulted
  BY <1>8, RunnerAssumption DEF SetFaulted, Pcs, LoopPcs, StopPcs, ExitPcs, CyclePcs, States, Errors
<1>9. CASE Sleep
  BY <1>9, RunnerAssumption DEF Sleep, Pcs, LoopPcs, StopPcs, ExitPcs, CyclePcs, States, Errors
<1>11. CASE StopSave
  <2>1. /\ retain' \in Retains /\ file' \in Snapshots \cup {Absent, Torn}
        /\ writeFailed' \in BOOLEAN
    BY <1>11, SaveTypes DEF StopSave
  <2> QED
    BY <1>11, <2>1 DEF StopSave, Pcs, LoopPcs, StopPcs
<1>12. CASE TakeSignal
  <2>1. mem' \in [Vars -> Values] /\ now' \in Nat /\ faulted' \in BOOLEAN
    <3>1. RestartMem(signal, mem) \in [Vars -> Values]
      BY MemoryTypes
    <3>2. ~LoadFails => LoadedMem(RestartMem(signal, mem)) \in [Vars -> Values]
      BY <3>1, LoadedType
    <3>3. CASE Restart(signal) \/ RestartFails(signal)
      BY <3>3, RestartTypes
    <3>4. CASE UNCHANGED <<mem, now, faulted>>
      BY <3>4
    <3>5. CASE ~LoadFails /\ mem' = LoadedMem(RestartMem(signal, mem)) /\ now' = 0 /\ faulted' = FALSE
      BY <3>2, <3>5
    <3> QED
      BY <1>12, <3>3, <3>4, <3>5, Zenon DEF TakeSignal, memVars
  <2> QED
    BY <1>12, <2>1 DEF TakeSignal, GiveUp, AfterSignal, Errors, Pcs, LoopPcs, CyclePcs, ExitPcs
<1>13. CASE Exit
  <2>1. cmds' \in Seq(Command) /\ reload' \in [ReloadIds -> Replies]
    BY <1>13 DEF Exit, Replies
  <2> QED
    BY <1>13, <2>1 DEF Exit, Pcs, ExitPcs
<1> QED
  BY <1>1, <1>2, <1>3, <1>4, <1>5, <1>6, <1>8, <1>9, <1>11, <1>12, <1>13,
     CommandTypes, CycleTypes DEF Thread

-----------------------------------------------------------------------------
\* Where the thread is, what clients see, and the fault latch stay in step.
ControlInv == StateInv /\ PauseInv /\ FaultInv

LEMMA ControlStep == TypeOK /\ ControlInv /\ [Next]_vars => ControlInv'
<1> SUFFICES ASSUME TypeOK, ControlInv, [Next]_vars PROVE ControlInv'
  OBVIOUS
<1> USE DEF ControlInv, StateInv, PauseInv, FaultInv, CyclePcs, ExitPcs,
        vars_rt, env, thread, shared, Goto
<1>0. \A e \in {"Simulation", "Input", "Task", "Output", "RetainSave", "Watchdog",
                   "Restart", "RetainLoad", "Coupling"} : e # NoError
  BY RunnerAssumption DEF Errors
<1>1. CASE UNCHANGED vars
  BY <1>1 DEF vars
<1>2. CASE Environment
  <2>1. CASE \E mode \in RestartModes : Launch(mode)
    BY <2>1 DEF Launch
  <2>2. CASE ProcessGone
    BY <2>2 DEF ProcessGone
  <2>3. CASE UNCHANGED <<pc, state, last_error, err, paused, faulted>>
    BY <2>3
  <2> QED
    BY <1>2, <2>1, <2>2, <2>3
    DEF Environment, QueueRestart, PowerLoss, ProcessExit, DriverBreaks, ReloadTimeout,
        Send, SendCommand, Stop, OpenGate
<1>3. CASE TakeCommand
  <2> DEFINE c == Head(cmds)
  <2>1. CASE TakePause(c)
    BY <1>3, <2>1 DEF TakeCommand, TakePause
  <2>2. CASE TakeUpdate(c) \/ TakeMesh(c)
    BY <1>3, <2>2 DEF TakeCommand, TakeUpdate, TakeMesh
  <2>3. CASE TakeReload(c)
    BY <1>3, <2>3 DEF TakeCommand, TakeReload, Restart, RestartFails
  <2> QED
    BY <1>3, <2>1, <2>2, <2>3 DEF TakeCommand
<1>4. CASE Boot
  BY <1>4 DEF Boot
<1>5. CASE WaitOpen
  BY <1>5 DEF WaitOpen
<1>6. CASE Enter
  BY <1>6 DEF Enter
<1>7. CASE CheckStop
  BY <1>7 DEF CheckStop
<1>8. CASE StopSave
  BY <1>8 DEF StopSave
<1>9. CASE SetStopped
  BY <1>9 DEF SetStopped
<1>10. CASE CommandsEmpty
  BY <1>10 DEF CommandsEmpty
<1>11. CASE TakeSignal
  BY <1>0, <1>11 DEF TakeSignal, GiveUp, AfterSignal, Restart, RestartFails, memVars
<1>12. CASE StartCycle
  BY <1>0, <1>12 DEF StartCycle, CycleFault, RecordFault, ApplyFault
<1>13. CASE ReadInputs
  BY <1>0, <1>13 DEF ReadInputs, CycleFault, RecordFault, ApplyFault
<1>14. CASE RunTasks
  BY <1>0, <1>14 DEF RunTasks, CycleFault, RecordFault, ApplyFault
<1>15. CASE WriteOutputs
  BY <1>0, <1>15 DEF WriteOutputs
<1>16. CASE SaveRetain
  BY <1>0, <1>16 DEF SaveRetain, CycleFault, RecordFault, ApplyFault
<1>17. CASE PostCycle
  BY <1>0, <1>17 DEF PostCycle
<1>18. CASE CycleFailed
  BY <1>0, <1>18 DEF CycleFailed, AfterRestart, GiveUp, Restart, RestartFails, memVars
<1>19. CASE Watchdog
  BY <1>0, <1>19 DEF Watchdog, GiveUp, Restart, RestartFails, ApplyFault, memVars, ioVars
<1>20. CASE SetFaulted
  BY <1>20 DEF SetFaulted
<1>21. CASE Sleep
  BY <1>21 DEF Sleep
<1>22. CASE Exit
  BY <1>22 DEF Exit
<1> QED
  BY <1>1, <1>2, <1>3, <1>4, <1>5, <1>6, <1>7, <1>8, <1>9, <1>10, <1>11, <1>12,
     <1>13, <1>14, <1>15, <1>16, <1>17, <1>18, <1>19, <1>20, <1>21, <1>22
  DEF Next, Thread, Cycle

-----------------------------------------------------------------------------
\* A fault whose decision is to drive the safe state does so.
LEMMA SafeFault ==
  ASSUME TypeOK, NEW safe \in BOOLEAN, ApplyFault(safe), safe, policy.safe,
         UNCHANGED <<policy, broken>>
  PROVE  \A d \in Drivers : Reached(d)' => wire'[d] = SafeValue
BY DEF ApplyFault, apply_safe_state, WriteDrivers, Reached, TypeOK

\* Only a fault, or an output while no fault is latched, touches the wires.
LEMMA SafeStep == TypeOK /\ ControlInv /\ SafeInv /\ [Next]_vars => SafeInv'
<1> SUFFICES ASSUME TypeOK, ControlInv, SafeInv, [Next]_vars PROVE SafeInv'
  OBVIOUS
<1> USE DEF SafeInv, ControlInv, StateInv, FaultInv, ExitPcs, Goto
<1>1. CASE UNCHANGED <<faulted, policy, wire, broken, pc, last_error>>
  BY <1>1 DEF Reached
<1>2. CASE ~faulted'
  BY <1>2
<1>3. ASSUME NEW d \in Drivers, DriverBreaks(d) PROVE SafeInv'
  BY <1>3 DEF DriverBreaks, Reached, thread, shared
<1>4. ASSUME CycleFault(pc, err'), UNCHANGED <<policy, broken>>, pc' = "cycleErr"
      PROVE  SafeInv'
  BY <1>4, SafeFault DEF CycleFault, RecordFault, from_fault_policy
<1>5. CASE WriteOutputs
  <2>1. CASE broken = {}
    BY <1>5, <2>1 DEF WriteOutputs, env
  <2>2. CASE broken # {}
    BY <1>5, <2>2 DEF WriteOutputs, WriteDrivers, Reached, from_fault_policy, env, TypeOK
  <2> QED
    BY <2>1, <2>2
<1>6. CASE CycleFailed
  BY <1>6 DEF CycleFailed, AfterRestart, GiveUp, Restart, RestartFails, memVars, Reached, env
<1>7. CASE Watchdog
  <2>1. CASE policy.watchdog \in {"Halt", "SafeHalt"} /\ ApplyFault(from_watchdog(policy.watchdog))
    BY <1>7, <2>1, SafeFault DEF Watchdog, from_watchdog, env
  <2>2. CASE UNCHANGED <<mem, now, faulted>> \/ Restart("Warm") \/ RestartFails("Warm")
    BY <1>7, <2>2 DEF Watchdog, Restart, RestartFails
  <2> QED
    BY <1>7, <2>1, <2>2 DEF Watchdog, memVars
<1>8. CASE SetFaulted
  BY <1>8 DEF SetFaulted, vars_rt, env, Reached
<1>9. CASE Exit
  BY <1>9 DEF Exit, vars_rt, Reached
<1>10. CASE Environment
  <2>1. CASE \E mode \in RestartModes : Launch(mode)
    BY <2>1, <1>2 DEF Launch
  <2>2. CASE ProcessGone
    BY <2>2, <1>2 DEF ProcessGone
  <2> QED
    BY <1>1, <1>3, <1>10, <2>1, <2>2
    DEF Environment, QueueRestart, PowerLoss, ProcessExit, ReloadTimeout, Send, SendCommand,
        Stop, OpenGate, vars_rt, thread
<1>11. CASE TakeCommand
  BY <1>2, <1>11 DEF TakeCommand, TakePause, TakeUpdate, TakeMesh, TakeReload, Restart,
     RestartFails, vars_rt
<1>12. CASE TakeSignal
  BY <1>2, <1>12 DEF TakeSignal, Restart, RestartFails, memVars
<1>13. CASE StartCycle \/ ReadInputs \/ RunTasks \/ SaveRetain
  BY <1>2, <1>4, <1>13 DEF StartCycle, ReadInputs, RunTasks, SaveRetain, CycleFault, env
<1>14. CASE PostCycle \/ Boot \/ WaitOpen \/ Enter \/ CheckStop \/ StopSave \/ SetStopped
         \/ CommandsEmpty \/ Sleep
  BY <1>2, <1>14 DEF PostCycle, Boot, WaitOpen, Enter, CheckStop, StopSave, SetStopped,
     CommandsEmpty, Sleep, vars_rt
<1>15. CASE UNCHANGED vars
  BY <1>1, <1>15 DEF vars, vars_rt, thread, shared
<1> QED
  BY <1>5, <1>6, <1>7, <1>8, <1>9, <1>10, <1>11, <1>12, <1>13, <1>14, <1>15
  DEF Next, Thread, Cycle

-----------------------------------------------------------------------------
\* A save that was skipped or written to its end leaves the file and the manager in
\* agreement.
LEMMA SaveAgrees ==
  ASSUME TypeOK, retain.snap # NoSnap => file = retain.snap
  PROVE  /\ SkipSave /\ HasStore => file' = retain'.snap /\ file' = retain_snapshot(mem)
         /\ SkipSave /\ ~HasStore => UNCHANGED <<file, retain>>
         /\ StoreWrite => file' = retain'.snap /\ file' = retain_snapshot(mem)
<1>1. retain_snapshot(mem) # NoSnap
  BY MemoryTypes, DataAssumption DEF TypeOK
<1> QED
  BY <1>1 DEF SkipSave, SaveSkipped, StoreWrite, Saved, TypeOK, Retains

LEMMA StoreWriteAgrees ==
  ASSUME TypeOK, StoreWrite
  PROVE  file' = retain'.snap /\ file' = retain_snapshot(mem)
BY DEF StoreWrite, Saved, TypeOK, Retains

LEMMA RetainStep == TypeOK /\ RetainInv /\ [Next]_vars => RetainInv'
<1> SUFFICES ASSUME TypeOK, RetainInv, [Next]_vars, ~writeFailed' PROVE RetainInv'
  BY DEF RetainInv
<1> USE DEF RetainInv, store, Goto
<1>1. CASE UNCHANGED <<mem, retain, file, writeFailed>> /\ (pc' = pc \/ pc' \notin {"write", "stopWrite", "stopped"})
                                           /\ (pc' = pc \/ pc \notin {"write", "stopWrite"})
  BY <1>1 DEF retain_snapshot
<1>2. CASE UNCHANGED <<retain, file, writeFailed>> /\ pc \notin {"write", "stopWrite"}
             /\ pc' \notin {"write", "stopWrite", "stopped"}
  BY <1>2
<1>3. CASE ProcessGone
  BY <1>3 DEF ProcessGone, FreshRetain
<1>4. CASE StopSave
  <2>1. CASE Goto("stopSave", "stopped") /\ SkipSave
    <3>1. ~writeFailed /\ (retain.snap # NoSnap => file = retain.snap) /\ UNCHANGED mem
      BY <1>4, <2>1 DEF StopSave, SkipSave
    <3>2. HasStore => file' = retain'.snap /\ file' = retain_snapshot(mem)
      BY <2>1, <3>1, SaveAgrees
    <3>3. ~HasStore => UNCHANGED <<file, retain>>
      BY <2>1, <3>1, SaveAgrees
    <3> QED
      BY <2>1, <3>1, <3>2, <3>3 DEF retain_snapshot
  <2>2. CASE Goto("stopSave", "stopWrite") /\ StoreCreate
    BY <2>2
  <2>3. CASE Goto("stopWrite", "stopped") /\ StoreWrite
    BY <1>4, <2>3, StoreWriteAgrees DEF StopSave, retain_snapshot
  <2> QED
    BY <1>4, <2>1, <2>2, <2>3 DEF StopSave, StoreCreateFails, StoreWriteFails
<1>5. CASE SaveRetain
  <2>1. CASE Goto("retain", "post") /\ SkipSave
    <3>1. ~writeFailed /\ (retain.snap # NoSnap => file = retain.snap)
      BY <2>1 DEF SkipSave
    <3>2. HasStore => file' = retain'.snap
      BY <2>1, <3>1, SaveAgrees
    <3>3. ~HasStore => UNCHANGED <<file, retain>>
      BY <2>1, <3>1, SaveAgrees
    <3> QED
      BY <2>1, <3>1, <3>2, <3>3
  <2>2. CASE pc' = "write"
    BY <2>2
  <2>3. CASE Goto("write", "post") /\ StoreWrite
    BY <2>3, StoreWriteAgrees
  <2>4. CASE /\ pc = "retain" /\ pc' \in {"post", "cycleErr"}
             /\ UNCHANGED <<file, writeFailed>> /\ retain'.snap = retain.snap
    BY <2>4
  <2> QED
    BY <1>5, <2>1, <2>2, <2>3, <2>4 DEF SaveRetain, StoreWriteFails, CycleFault, TypeOK, Retains
<1>6. CASE Environment
  <2>1. CASE \E mode \in RestartModes : Launch(mode)
    BY <2>1, <1>1, <1>2 DEF Launch
  <2>2. CASE PowerLoss \/ ProcessExit
    BY <2>2, <1>3 DEF PowerLoss, ProcessExit
  <2> QED
    BY <1>1, <1>6, <2>1, <2>2
    DEF Environment, QueueRestart, DriverBreaks, ReloadTimeout, Send, SendCommand,
        Stop, OpenGate, vars_rt, thread
<1>7. CASE TakeCommand
  BY <1>2, <1>7 DEF TakeCommand, TakePause, TakeUpdate, TakeMesh, TakeReload, vars_rt
<1>8. CASE TakeSignal
  BY <1>2, <1>8 DEF TakeSignal, GiveUp, AfterSignal
<1>9. CASE StartCycle \/ ReadInputs \/ RunTasks \/ WriteOutputs
  BY <1>2, <1>9 DEF StartCycle, ReadInputs, RunTasks, WriteOutputs, CycleFault
<1>10. CASE PostCycle \/ CycleFailed \/ Watchdog
  BY <1>2, <1>10 DEF PostCycle, CycleFailed, AfterRestart, Watchdog, GiveUp, vars_rt
<1>11. CASE Boot \/ WaitOpen \/ Enter \/ CheckStop \/ SetStopped \/ CommandsEmpty
         \/ SetFaulted \/ Sleep \/ Exit
  BY <1>2, <1>11 DEF Boot, WaitOpen, Enter, CheckStop, SetStopped, CommandsEmpty,
     SetFaulted, Sleep, Exit, vars_rt
<1>12. CASE UNCHANGED vars
  BY <1>1, <1>12 DEF vars, vars_rt, thread
<1> QED
  BY <1>4, <1>5, <1>6, <1>7, <1>8, <1>9, <1>10, <1>11, <1>12 DEF Next, Thread, Cycle

-----------------------------------------------------------------------------
\* What the end of a cycle finds: either the save was not due, or it was taken or
\* rightly skipped, and the file holds the RETAIN globals of this very moment.
LEMMA SaveSyncs ==
  ASSUME TypeOK, RetainInv, SaveRetain, HasStore, ~writeFailed'
  PROVE  \/ /\ retain'.lastSave = retain.lastSave
            /\ ~writeFailed
            /\ synced' \in {synced, now}
            /\ pc' = "post" => ~should_save([retain EXCEPT !.dirty = TRUE])
         \/ pc' = "post" /\ retain'.lastSave = now /\ synced' = now
<1> USE DEF Goto
<1> DEFINE r == [retain EXCEPT !.dirty = TRUE]
<1>1. r = [retain EXCEPT !.dirty = HasStore \/ @] /\ r.lastSave = retain.lastSave
  BY Zenon DEF TypeOK, Retains
<1>2. CASE Goto("retain", "post") /\ SkipSave
  <2>1. retain.snap # NoSnap => file = retain.snap
    BY <1>2 DEF RetainInv, SkipSave
  <2>2. file' = retain_snapshot(mem)
    BY <1>2, <2>1, SaveAgrees
  <2>3. retain'.lastSave = now
    BY <1>2 DEF SkipSave, Saved, TypeOK, Retains
  <2> QED
    BY <1>2, <2>2, <2>3 DEF SaveRetain
<1>3. CASE Goto("write", "post") /\ StoreWrite
  <2>1. file' = retain_snapshot(mem) /\ retain'.lastSave = now
    BY <1>3 DEF StoreWrite, Saved, TypeOK, Retains
  <2> QED
    BY <1>3, <2>1 DEF SaveRetain
<1>4. CASE retain' = r /\ UNCHANGED writeFailed /\ (pc' = "post" => ~should_save(r))
  BY <1>1, <1>4 DEF SaveRetain
<1> QED
  <2>1. ~StoreWriteFails
    BY DEF StoreWriteFails
  <2> HIDE DEF r
  <2> QED
    BY <1>1, <1>2, <1>3, <1>4, <2>1 DEF SaveRetain, CycleFault

LEMMA SyncStep == TypeOK /\ RetainInv /\ SyncInv /\ [Next]_vars => SyncInv'
<1> SUFFICES ASSUME TypeOK, RetainInv, SyncInv, [Next]_vars PROVE SyncInv'
  OBVIOUS
<1> USE DEF SyncInv, TimedPcs, ExitPcs, store, Goto
<1>0. now \in Nat /\ clock \in Nat /\ retain.lastSave \in Nat /\ synced \in Nat
  BY DEF TypeOK, Retains
<1>1. ASSUME UNCHANGED store, pc' = pc \/ pc' \notin TimedPcs,
             pc \in {"stopped", "stoppedUnsaved"} \cup ExitPcs
               => pc' \in {"stopped", "stoppedUnsaved"} \cup ExitPcs,
             \/ UNCHANGED <<now, clock>>
             \/ pc' \notin TimedPcs /\ now' \in {0, now} /\ clock' \in {clock, clock + 1}
      PROVE  SyncInv'
  BY <1>0, <1>1
<1>2. ASSUME UNCHANGED <<store, now, clock>>, pc \in TimedPcs
      PROVE  SyncInv'
  BY <1>0, <1>2
<1>3. CASE ProcessGone
  BY <1>3 DEF ProcessGone, FreshRetain
<1>4. CASE StopSave
  <2>1. retain'.lastSave \in {retain.lastSave, now} /\ UNCHANGED <<now, clock, synced>>
    BY <1>4 DEF StopSave, SkipSave, StoreCreate, StoreCreateFails, StoreWrite, StoreWriteFails,
       Saved, TypeOK, Retains
  <2>2. pc' = "stopWrite" => UNCHANGED <<retain, writeFailed>>
    BY <1>4 DEF StopSave, StoreCreate
  <2> QED
    BY <1>0, <1>4, <2>1, <2>2 DEF StopSave
<1>5. CASE SaveRetain
  <2>1. UNCHANGED <<now, clock>> /\ now = clock
    BY <1>5 DEF SaveRetain, CycleFault
  <2>2. retain'.lastSave \in {retain.lastSave, now}
    BY <1>5 DEF SaveRetain, SkipSave, StoreWrite, StoreWriteFails, Saved, TypeOK, Retains
  <2>3. HasStore /\ ~writeFailed' => retain'.lastSave <= synced'
    BY <1>0, <1>5, <2>1, SaveSyncs DEF SaveRetain, CycleFault
  <2> QED
    BY <1>0, <2>1, <2>2, <2>3
<1>6. CASE StartCycle
  BY <1>0, <1>6 DEF StartCycle, CycleFault
<1>7. CASE Environment
  <2>1. CASE \E mode \in RestartModes : Launch(mode)
    BY <1>1, <2>1 DEF Launch
  <2>2. CASE PowerLoss \/ ProcessExit
    BY <2>2, <1>3 DEF PowerLoss, ProcessExit
  <2> QED
    BY <1>1, <1>7, <2>1, <2>2
    DEF Environment, QueueRestart, DriverBreaks, ReloadTimeout, Send, SendCommand,
        Stop, OpenGate, vars_rt, thread
<1>8. CASE TakeCommand
  BY <1>1, <1>8 DEF TakeCommand, TakePause, TakeUpdate, TakeMesh, TakeReload, Restart,
     RestartFails, vars_rt
<1>9. CASE TakeSignal
  BY <1>1, <1>9 DEF TakeSignal, GiveUp, AfterSignal, Restart, RestartFails, memVars
<1>10. CASE ReadInputs \/ RunTasks \/ WriteOutputs \/ PostCycle
  BY <1>1, <1>2, <1>10 DEF ReadInputs, RunTasks, WriteOutputs, PostCycle, CycleFault, vars_rt
<1>11. CASE CycleFailed \/ Watchdog
  BY <1>1, <1>11 DEF CycleFailed, AfterRestart, Watchdog, GiveUp, Restart, RestartFails,
     memVars
<1>12. CASE Boot \/ WaitOpen \/ Enter \/ CheckStop \/ SetStopped \/ CommandsEmpty
         \/ SetFaulted \/ Exit
  BY <1>1, <1>12 DEF Boot, WaitOpen, Enter, CheckStop, SetStopped, CommandsEmpty,
     SetFaulted, Exit, vars_rt
<1>13. CASE Sleep
  BY <1>1, <1>13 DEF Sleep, vars_rt
<1>14. CASE UNCHANGED vars
  BY <1>1, <1>14 DEF vars, vars_rt, thread
<1> QED
  BY <1>4, <1>5, <1>6, <1>7, <1>8, <1>9, <1>10, <1>11, <1>12, <1>13, <1>14
  DEF Next, Thread, Cycle

-----------------------------------------------------------------------------
LEMMA Inductive == IInv /\ [Next]_vars => IInv'
<1> SUFFICES ASSUME IInv, [Next]_vars PROVE IInv'
  OBVIOUS
<1>1. TypeOK'
  <2>1. CASE Next
    BY <2>1, EnvironmentTypes, ThreadTypes DEF IInv, Next
  <2>2. CASE UNCHANGED vars
    BY <2>2 DEF IInv, TypeOK, vars, vars_rt, store, thread, shared
  <2> QED
    BY <2>1, <2>2
<1>2. ControlInv' /\ SafeInv' /\ RetainInv' /\ SyncInv'
  BY ControlStep, SafeStep, RetainStep, SyncStep DEF IInv, ControlInv
<1> QED
  BY <1>1, <1>2 DEF IInv, ControlInv

\* The inductive invariant holds throughout.
THEOREM Invariance == Spec => []IInv
BY InitInv, Inductive, PTL DEF Spec

\* Every variable of the runner keeps its type.
THEOREM TypeCorrect == Spec => []TypeOK
<1>1. IInv => TypeOK
  BY DEF IInv
<1> QED
  BY <1>1, Invariance, PTL

\* run_resource_loop publishes last_error before state = Faulted.
THEOREM FaultedAlwaysHasError == Spec => []FaultedHasError
<1>1. IInv => FaultedHasError
  BY DEF IInv, StateInv, FaultedHasError
<1> QED
  BY <1>1, Invariance, PTL

\* No scan cycle runs while clients see Paused.
THEOREM PausedAlwaysIdle == Spec => []PausedMeansIdle
<1>1. IInv => PausedMeansIdle
  BY DEF IInv, PauseInv, PausedMeansIdle
<1> QED
  BY <1>1, Invariance, PTL

\* execute_cycle is never entered with the fault latch up.
THEOREM FaultAlwaysHandled == Spec => []FaultIsHandled
<1>1. IInv => FaultIsHandled
  BY RunnerAssumption DEF IInv, FaultInv, StateInv, FaultIsHandled, Errors
<1> QED
  BY <1>1, Invariance, PTL

\* safe_halt and the watchdog leave safe outputs, for any number of drivers.
THEOREM SafeHaltAlwaysSafe == Spec => []SafeHaltIsSafe
<1>1. IInv => SafeHaltIsSafe
  BY DEF IInv, SafeInv, StateInv, SafeHaltIsSafe, ExitPcs
<1> QED
  BY <1>1, Invariance, PTL

\* A graceful stop persists the RETAIN globals (save_snapshot), until a write fails.
THEOREM GracefulStopAlwaysPersists == Spec => []GracefulStopPersists
<1>1. IInv => GracefulStopPersists
  BY DEF IInv, RetainInv, GracefulStopPersists
<1> QED
  BY <1>1, Invariance, PTL

\* Nothing the thread does is visible after Stopped or Faulted.
THEOREM EndedAlwaysQuiet == Spec => EndedMeansQuiet
<1>1. IInv /\ [Next]_vars
        => [pc' # "down" /\ state \in {"Faulted", "Stopped"} => UNCHANGED outcome]_vars
  <2> SUFFICES ASSUME IInv, Next, pc' # "down", state \in {"Faulted", "Stopped"}
               PROVE  UNCHANGED outcome
    BY DEF vars
  <2> USE DEF outcome, vars_rt, store, thread, shared, env, Goto
  <2>1. pc \in {"exit", "done"}
    BY DEF IInv, StateInv
  <2>2. CASE Environment
    BY <2>1, <2>2 DEF Environment, Launch, QueueRestart, PowerLoss, ProcessExit, ProcessGone,
       DriverBreaks, ReloadTimeout, Send, SendCommand, Stop, OpenGate
  <2>3. CASE Thread
    <3>1. CASE Exit
      BY <3>1 DEF Exit
    <3>2. ~Cycle
      BY <2>1 DEF Cycle, StartCycle, ReadInputs, RunTasks, WriteOutputs, SaveRetain, PostCycle,
         CycleFailed, Watchdog, CycleFault
    <3> QED
      BY <2>1, <2>3, <3>1, <3>2 DEF Thread, Boot, WaitOpen, Enter, CheckStop, StopSave,
         SetStopped, TakeCommand, CommandsEmpty, TakeSignal, SetFaulted, Sleep
  <2> QED
    BY <2>2, <2>3 DEF Next
<1> QED
  BY <1>1, Invariance, PTL DEF Spec, EndedMeansQuiet

-----------------------------------------------------------------------------
\* retain.rs, RetainManager: a power loss takes back less than an interval, for any
\* interval, number of variables and history of restarts, reloads and failed saves.
\* SaveRetain leads to the end of a cycle with the file in step or with last_save,
\* which synced bounds, less than an interval old.
THEOREM LossAlwaysBounded == Spec => []LossIsBounded
<1>1. Init => LossIsBounded
  BY DEF Init, LossIsBounded
<1>2. IInv /\ LossIsBounded /\ [Next]_vars => LossIsBounded'
  <2> SUFFICES ASSUME TypeOK, RetainInv, SyncInv, LossIsBounded, [Next]_vars, pc' = "post",
                      HasStore, policy'.interval # NoInterval, ~writeFailed'
               PROVE  now' - synced' < policy'.interval \/ synced' = now'
    BY DEF LossIsBounded, IInv
  <2> USE DEF Goto, vars_rt, store, env, thread, shared
  <2>1. ASSUME pc = "post", UNCHANGED <<policy, now, synced, writeFailed>>
        PROVE  now' - synced' < policy'.interval \/ synced' = now'
    BY <2>1 DEF LossIsBounded
  <2>2. CASE SaveRetain
    <3>1. UNCHANGED <<now, policy>> /\ pc \in {"retain", "write"}
      BY <2>2 DEF SaveRetain, CycleFault
    <3>2. /\ now \in Nat /\ retain.lastSave \in Nat /\ synced \in Nat
          /\ policy.interval \in Nat
      BY <3>1 DEF TypeOK, Retains, Policies
    <3>3. CASE synced' = now
      BY <3>1, <3>3
    <3>4. ASSUME ~writeFailed, synced' = synced, ~should_save([retain EXCEPT !.dirty = TRUE])
          PROVE  now - synced < policy.interval
      <4> DEFINE r == [retain EXCEPT !.dirty = TRUE]
      <4>1. r.dirty = TRUE /\ r.lastSave = retain.lastSave
        BY DEF TypeOK, Retains
      <4> HIDE DEF r
      <4>2. ~(policy.interval = 0 \/ now - retain.lastSave >= policy.interval)
        BY <3>1, <3>4, <4>1 DEF should_save, r
      <4>3. retain.lastSave <= synced
        BY <3>1, <3>4 DEF SyncInv, ExitPcs
      <4> QED
        BY <3>2, <4>2, <4>3
    <3> QED
      BY <2>2, <3>1, <3>3, <3>4, SaveSyncs
  <2>3. CASE Environment
    BY <2>1, <2>3 DEF Environment, Launch, QueueRestart, PowerLoss, ProcessExit, ProcessGone,
       DriverBreaks, ReloadTimeout, Send, SendCommand, Stop, OpenGate
  <2>4. ~(Boot \/ WaitOpen \/ Enter \/ CheckStop \/ StopSave \/ SetStopped \/ TakeCommand
            \/ CommandsEmpty \/ TakeSignal \/ SetFaulted \/ Sleep \/ Exit)
    BY DEF Boot, WaitOpen, Enter, CheckStop, StopSave, SetStopped, TakeCommand, CommandsEmpty,
       TakeSignal, AfterSignal, GiveUp, SetFaulted, Sleep, Exit
  <2>5. ~(StartCycle \/ ReadInputs \/ RunTasks \/ WriteOutputs \/ PostCycle \/ CycleFailed \/ Watchdog)
    BY DEF StartCycle, ReadInputs, RunTasks, WriteOutputs, PostCycle, CycleFailed, Watchdog,
       CycleFault, AfterRestart, GiveUp
  <2>6. CASE UNCHANGED vars
    BY <2>1, <2>6 DEF vars
  <2> QED
    BY <2>2, <2>3, <2>4, <2>5, <2>6 DEF Next, Thread, Cycle
<1> QED
  BY <1>1, <1>2, Invariance, PTL DEF Spec
=============================================================================
