# truST runtime: models and proofs

This directory holds TLA+ models of the parts of truST whose correctness
depends on the order in which things happen: the resource thread that executes
scan cycles, what a cycle executes (tasks, process image, calls of the
evaluator, the standard library), the debugger and both ways of the debug adapter
to reach it, resources that share globals, what connects a resource to other
machines (mesh, field devices, historian, simulated wiring), and what people
change from outside (web IDE, settings, pairing, deployment, the documents of
the language server). TLC checks small instances of them; TLAPS proves the most
important invariants, and one refinement, for every value of the constants.

`PROJECT.json` lists components, runs, mutants, findings, hazards and theorems,
and maps every definition to the source lines it stands for.

    tlc -config RunnerControl.cfg MCResourceRunner
    tlapm ResourceRunnerProofs.tla

## 1. The system

### Parts and their interaction

`trust-runtime run` (`bin/trust-runtime/run.rs`) builds a `Runtime` from a
bundle, restarts it once, loads the retain store, and spawns a **resource
thread** (`scheduler.rs`). Everything else talks to that thread through four
channels: a command queue (`ResourceCommand`), a stop flag, a restart flag (the
`restart_signal`), and two mutexes it publishes to (`state`, `last_error`). The
**control server** (`control.rs`) serves requests of tools, the **web server**
(`web.rs`) those of browsers, the **mesh** (`mesh.rs`) those of other runtimes.
A **cycle** (`runtime/cycle.rs`) takes queued writes, reads the drivers, applies
forces, latches inputs into bound variables, executes what the tasks call, and
writes the outputs back the same way.
The **debugger** (`debug/`) is called by the interpreter before each statement
and holds the resource thread inside its cycle. The **debug adapter**
(`crates/trust-debug`) runs a program in its own process with that debugger, or
attaches to a running resource through its control server, and translates
between it and an editor.

| part | state | operations | what is hard | what makes it correct |
|---|---|---|---|---|
| resource thread (`scheduler.rs`) | loop position, `state`, `last_error`, stop flag, command queue, restart flag, start gate | pause, resume, policy updates, reload, mesh commands, stop, restart, cycle, fault, exit | clients read and write between any two steps; faults, restarts and pauses overlap | clients see what is true; a stop ends the loop; a fault is either recovered or published |
| restart, faults, watchdog, retain (`runtime/restart.rs`, `faults.rs`, `watchdog.rs`, `retain.rs`) | globals, program variables, fault latch, policies, last snapshot, retain file | restart warm or cold, load, save, safe state, fault decision | power loss and disk errors between two steps of a save | what was persisted survives; outputs are safe when they should be |
| tasks of a cycle (`runtime/cycle.rs`) | `TaskState` per task, overrun counters, time | collect ready tasks, run in order, background programs, restart | missed intervals, priorities with ties, edges across restarts, faults in the middle | order by priority and waiting time; every interval is accounted for once |
| process image (`io.rs`, `runtime/cycle.rs`, queues of `debug/control.rs`) | cells, bindings, queued writes, forces, instances of programs | write, force, release, latch, commit, restart | clients act in the middle of a cycle; addresses overlap; bindings outlive instances | a force holds on both sides of the programs; what is not forced is driven as the programs left it |
| evaluator (`eval/`, `memory.rs`) | frames, instances, globals, context | calls, returns, loops, errors at any depth | copy-in and copy-out by name over nested contexts; early ends | calls restore what they change; a VAR_IN_OUT is as good as a reference |
| standard library (`stdlib/`) | ET, Q, CV and edge memories per instance | one call | irregular calls, changing presets, limits of types, time set back, positions outside a text | delays are kept; every edge counts once; functions agree |
| shared globals (`scheduler.rs`) | one published map, one copy per resource | copy in, cycle, copy out under one lock | failing cycles, restarts between cycles, waiting counted by the watchdog | resources behave as on atomic counters |
| debugger (`debug/`) | mode, pending stop, step, target, depths, breakpoints and generations, snapshot | pause, continue, steps, breakpoint changes; the hook before a statement | actions while the thread waits, is about to wait, or was just notified | no lost pause or wake-up; a held task is announced; steps end where they should |
| debug adapter (`trust-debug/src/adapter`) | request being handled, stop gate, `pause_expected`, coordinator or poller, requested breakpoints, connections | DAP requests, stop events, reload, attach, disconnect | four threads, three locks, events filtered by generation; lost answers, other clients of an attached resource | the editor's view is true; every request is answered |
| mesh (`mesh.rs`, `runtime/mesh.rs`) | publications on their way, threads of connections, types snapshot | publish, receive, map, apply, reload | messages lost, doubled, reordered; a reload between snapshot and command | globals that travel together arrive together; values at rest arrive |
| I/O drivers (`io/modbus.rs`, `io/mqtt.rs`) | connection, transaction ids, session thread, health | request, answer, error, reconnect | late answers, a flag and a text set one after the other | an answer belongs to its call; recovery after an outage |
| historian (`historian.rs`) | file, ring, alert rules | capture, alert, query, restart | an append that breaks off inside a line, a clock that is set back | what was shown is kept; an alert is explained by samples |
| simulation (`simulation.rs`) | queue of effects, script cursor | before and after a cycle | one queue for couplings of different delay, faults in the script | a coupling delays and does not reorder |
| web IDE (`web/ide.rs`) | sessions, documents with versions, files | create session, open, apply | other programs write the files; lost answers; failed writes; restarts | no edit overwrites what its author had not seen |
| control server, HMI (`control.rs`, `hmi.rs`) | settings, token, metadata, trends, alarms | config.set and .get, polling, acknowledge | a thread per connection, a lock per piece of state | settings shown are in force; alarms tell the process |
| pairing (`web/pairing.rs`) | codes, tokens, file | start, claim, revoke, save | the process ends inside a save | a revoked token stays revoked |
| deployment (`bin/trust-runtime/deploy.rs`, `web/deploy.rs`) | bundles, links `current` and `previous` | deploy, rollback, prune | two processes on one root, kills and errors between file operations | what the links name is whole |
| language server documents (`trust-lsp/src/state`, `trust-hir/src/project.rs`) | documents, project sources | open, change, close, rename, watch, index, evict | notifications beside an indexing task, two locks | analysis sees what the editor has |

Not modelled: launch, protocol and variables of the debug adapter, the registry,
routing of the web server, OPC UA and discovery, operators, conversions and data
types, bytecode, metrics, settings files, bundles and setup, the command line and
test harness, the front end and the editor features. Section 7 says why.

## 2. Plan

Order of the modules, most important behaviour first; "done" means modelled,
checked and, where listed in section 5, proved.

1. `RuntimeCore`, `ResourceRunner`: the resource thread (done, proved).
2. `TaskScheduler`, `ProcessImage` and `Interpreter`: what a cycle executes (done,
   proved).
3. `DebugControl`: the debugger in the runtime (done, proved).
4. `DebugSession` and `RemoteAttach`, which compose `DebugControl` with the two
   kinds of session of the adapter (done, safety proved).
5. `SharedResources` and the abstract `AtomicCounters` it implements (done, both
   the invariant and the refinement proved).
6. `Timers`, `FunctionBlocks`, `StringFunctions` (done, proved).
7. `WebIde`, `ControlServer`, `Pairing`, `Deployment`, `LanguageServer`, `Mesh`,
   `Historian`, `IoDrivers` and `Simulation` (done, proved).
8. Left: a retain store that is atomic as an abstract specification
   (`FlushedSurvives` marks where `FileRetainStore` does not implement it), a
   debugger with the two states running and held, a document as a
   compare-and-swap register.
9. Theorems left: what holds of a local session across a reload, and of an
   attached one when other clients resume.

## 3. Modules and the code they stand for

**RuntimeCore** has the operators on `Runtime` the loop is made of: what a
restart keeps and resets, the retain snapshot and what loading it does, when a
save is due, the steps of writing the file (create truncates, then writes), the
fault decision of a policy, and the safe state, which is written driver by driver
and ends at the first error. Values are abstract; a variable is retained or not,
global or of a program.

**ResourceRunner** is `run_resource_loop`. The variable `pc` is where the thread
is; one action is what it does between two points where another thread or a power
loss can tell the difference. The actions keep the names and the order of the
loop: `CheckStop`, `TakeCommand` / `CommandsEmpty`, `TakeSignal`, the phases of
the cycle (`StartCycle`, `ReadInputs`, `RunTasks`, `WriteOutputs`, `SaveRetain`,
`PostCycle`), `CycleFailed`, `Watchdog`, `SetFaulted`, `Sleep`, `Exit`. The
environment sends commands, raises the stop flag, queues restarts, opens the
gate, breaks drivers, loses power and launches the process again.

**TaskScheduler** is `collect_ready_tasks`, `execute_cycle` and
`execute_background_programs`. `clock` is the time of the machine,
`current_time` that of the runtime; a restart sets the second to zero and not
the first. `runs` and `seen` are history variables.

**ProcessImage** is the cycle around the programs: `drain_var_writes` and
`drain_lvalue_writes`, `read_drivers`, `latch_inputs`, `execute_programs`,
`write_cycle_outputs`, one action each, in that order, with requests of clients
(`enqueue_io_write`, `force_io`, `release_io`, `set_forced_var` and so on)
between any two. An address is a set of cells, so a byte overlaps its bits. A
restart makes new instances of programs, and bindings keep the old ones. A
program may set its variables to anything. `driven` (what the drivers were given in
this cycle) and `touched` (what was written for it, or forced) are history.

**Interpreter** is `exec_stmt`, `exec_block`, `call_function` and
`call_function_block`, below `execute_program` and `execute_function_block_ref`.
The text of a program is not fixed: the next statement is any that the scope of
the running POU allows. `levels` is what the Rust stack holds: which POU, what it
will restore, its arguments. `ref` is history, a second memory in which a
VAR_IN_OUT is the variable it was given: `ref.held` says for each such parameter
whose place it was lent and where the value really is. Both agree unless somebody
uses a variable by its own name while it is lent, or lends it twice; from then on
`ref.aliased` excepts the execution. What a call writes, lends and copies out are
functions from places to values (`Initialised`, `LoanOf`, `CopiedOut`). A block
calls nothing that calls it again (`BlockCallsNoBlock`), as IEC 61131-3 wants it;
the evaluator does not look for recursion. The conditions of breakpoints, which the
hook evaluates in the same context, are not in it. A call whose EN is FALSE is
an assignment to the target of ENO.

**Timers** has one instance of TON, TOF and TP, called with the same inputs at
any moments; `age` is history: how long ago, in real time, the events happened
the documentation speaks about, and `steady` whether PT stayed so far.

**FunctionBlocks** has the counters, edge detectors and bistables on common
inputs; `tally` is history, the edges that should have been counted. A type of integers is its least and greatest value.

**StringFunctions** has the nine functions on strings, as operators on sequences
of bytes or of characters. `StringCall` asks all of them about one choice of
texts, position and length, and `StringLaws` relates the answers; it leaves open
whether INSERT puts a text before or after its position (section 4).

**SharedResources** is `run_resource_loop_with_shared`. The program of each
resource increments each shared counter, as in `tests/resources.rs`; `ran` is
history: what every executed increment adds up to. **AtomicCounters** is what
that promises: counters that a cycle changes in one step, without copies and
lock. `ImplementsCounters` maps `value` to the published globals and the phase
of a client to the position in the loop.

**DebugControl**: what the code does under the mutex is one action. `scan` says whether the scan thread is between cycles, in a
task, or held on the condition variable; `notified` models the condition
variable, which a thread leaves only after a notification. `ready` holds the tasks
a cycle has still to execute: any of them may be ready, in any order (which ones and
why is `TaskScheduler`'s matter), a task may end without a statement, and an error
ends the cycle with the rest of them (`TaskFails`).

**DebugSession** EXTENDS DebugControl with the adapter, which handles one request
at a time in the steps its handlers have, the StopCoordinator, and the editor,
whose `view` is what the messages say. The runner thread holds the runtime's
mutex during a cycle, also while it is held by the debugger.

**RemoteAttach** EXTENDS DebugSession with the attached adapter: the session of
`remote.rs` on one connection and the poller of `stop_remote.rs` on another,
which drains stops, reconnects and filters. Connections break before or after
the resource has done what was asked. Other clients pause, resume and set
breakpoints.

**Mesh** is `publish_loop`, `handle_peer_stream` and `apply_mesh_updates`. A
publication goes to any of a peer's addresses, over connections of their own, so
it may arrive twice, never, or after a later one; a reload may change the declared
types between the snapshot a thread maps with and the command that applies the
update. A value that JSON has no number for or that the subscriber's type cannot
take is left out, on either side (`unfit`), and the update goes on without it.
`crossed` and `skipped` are history: whether such a reload happened, and which
globals the last update had no value for.

**Historian** is `capture` with its append, ring and alert rules, `query`, and a
restart that reads the file. A capture is one step that may break off inside a
line. `shown_once` and `spoilt` are history: what queries could have returned, and
what was appended to an open line.

**IoDrivers** is the Modbus and the MQTT driver. Of Modbus, the request, the
device's answer, the late answer, the exception or short answer, the error and the
reconnect are steps; of MQTT, the session's thread, its flag and its error text.
The run takes `on_error = "warn"`. Under the default, "fault", the driver does the
same but for its health; the first error also faults the cycle, and whether the
driver is called again is the fault policy's matter (`ResourceRunner`).

**Simulation** is `apply_pre_cycle` and `apply_post_cycle` around the cycles of
the loop. The queue, sorted whenever an effect enters it, is the set of its effects
and their order (`Before`). `trace` is history: what each coupling saw of its source.

**WebIde** is `WebIdeState`, the clients that use it and other programs that
write the files. The web server has one thread, so one request is served at a
time; it is cut where an outside write could fall: reading the file, the version
check, truncating and writing. `launch` and the fields `base`, `launch` and
`touched` of a request are history: they say what the author of an edit had.

**ControlServer** is the control server's own state. A connection has a thread;
its request is authorised, checked and handled in steps separated by the locks of
settings, token, metadata and alarms, and reaches the resource through a queue.

**Pairing** is `PairingStore`: an operation is its change of the memory, the
truncation and the writing of the file, and the answer, with an end of the
process between any two; loading drops what does not parse.

**Deployment** is `run_deploy` and `run_rollback` of the command line, file
operation by file operation, beside the deploy and rollback of the web server.
`disturbed` is history: bundles that were changed after their validation.

**LanguageServer** is the documents and the project behind their two locks, the
handlers of notifications, which run one after the other, and the indexing task
beside them. `overlapped` is history: files both worked on at once.

`MCxxx` modules name the instances; each `.cfg` is one run. `MCCycle`, `MCClients`,
`MCPlant`, `MCDebugControl` and `MCDebugSession` put parts that share neither state nor
threads side by side: a variable that never changes says which of them a
behaviour exercises, the others stay in one initial state. In `MCDebugSession` the
threads of two sessions share their fairness conditions (`Fairly`); since the
choice between them is constant, each gets exactly its own fairness. In
`MCDebugControl` only the behaviours of the debugger are fair; the evaluator beside it
has no liveness property.

## 4. Runs

Runs that pass:

| run | what it shows |
|---|---|
| `RunnerControl` | all fault policies and watchdog actions, two drivers, gate, simulation, failing restarts: a paused resource executes nothing, no fault is forgotten or left latched, safe halt reaches the drivers up to the first failing one; stops, commands and restarts are acted upon from the gate, a pause and a loop of faults and restarts |
| `RunnerRetain` | two launches with power losses anywhere and writes of the file that may fail: a graceful stop leaves the current retained values on disk, and at the end of a cycle the file holds those of a cycle that ended less than an interval ago |
| `Cycle` | what a cycle executes, one subject per behaviour. Tasks: order of activations, accounting of intervals and overruns, no periodic task a whole interval behind after a collection, no event activation without a 0 before it. Process image: what is forced is driven and latched, what is not follows the programs. Timers never switch early, and with PT steady are a function of the moments of the calls; counters count every edge once; the string functions agree |
| `DebugControl` | what executes statements. The debugger: no lost pause, no lost wake-up, steps end in the frame they should; continue resumes, and in a task that executes statements again and again pause pauses and a step ends. The evaluator: calls restore the context however they end, and a VAR_IN_OUT cannot be told from a reference |
| `Session` | what the editor shows as stopped is held and can be inspected, an accepted pause reaches the editor, a reload keeps a paused session paused with the requested breakpoints, every request is answered; local and attached sessions |
| `SharedGlobals` | no increment is lost through errors, restarts, watchdog decisions, mesh updates; resources with copies and a lock implement counters that change in one step |
| `Clients` | web IDE: no blind overwrite through failed writes, lost answers, expired sessions, restarts and edits by others; a version is one content for all clients. Settings shown are in force once nobody is setting them, the alarm and its events tell the process, a revocation that was answered is for good, the links of a deploy root name whole bundles, and the language server analyses what its documents hold |
| `Plant` | mesh: globals an update has values for show one snapshot, and what rests arrives. Historian: what was shown is kept, an alert is explained by samples. Modbus: an answer belongs to its call; both drivers recover, the Modbus driver with `on_error = "warn"`. Simulation: a coupling delays its source and does not reorder it |

Runs that end with a counterexample show a disagreement between the code and
what the repository says of it; `PROJECT.json` quotes both sides:

| run | disagreement |
|---|---|
| `RunnerPowerLoss` | a power loss during a save destroys the snapshot flushed before (`FlushedSurvives`) |
| `ImageRestart` | after the restart every launch begins with, a program's variable bound to an output is not what the output shows (`OutputsFollowPrograms`) |
| `DebugShutdown` | a shutdown while a task is held by the debugger never ends the thread (`ShutdownEnds`) |
| `SessionReloadPaused` | a reload of a paused session waits for a mutex the held runner owns, so no later request is read (`AdapterResponds`) |

### Other disagreements

The last section of a module has further statements of the documentation that the
code does not keep. They have no run of their own; naming one as the INVARIANT or
PROPERTY of the module's run, with the constants given here changed, shows the
counterexample.

* `ColdRestartInitialises` (`ResourceRunner`; a retain store, `RestartCanFail`
  FALSE). After `restart(mode)` the loop calls `load_retain_store` for every mode
  (`scheduler.rs:527`), so a cold restart ends with the RETAIN globals at their
  stored values. `docs/specs/10-runtime.md:1542`: "Cold restart: RETAIN and
  NON_RETAIN variables are initialized."
* `FaultedOutputsSafe` (`ResourceRunner`). Under the default policy, Halt, a fault
  leaves the outputs as they are (`watchdog.rs:108`); under safe_halt with two
  drivers the first failing one keeps the later ones from the safe state
  (`runtime/io_subsystem.rs:87`). `docs/guides/PLC_SAFETY_GUIDE.md:17`: "When a
  fault occurs, outputs are driven to these values before halting."
* `RestartClearsFault` (`ResourceRunner`). A restart asked of a faulted resource is
  answered "restart queued" and never acted upon, because the loop has ended
  (`scheduler.rs:594`). `docs/guides/PLC_OPERATOR_GUIDE.md:76`: "Clear the fault by
  restarting".
* `FailedSaveIsRepeated` (`ResourceRunner`, `RunnerRetain.cfg`). A failed write
  leaves the file torn and the last snapshot at its old value; when the values
  return to it, later saves, also that of a stop, are skipped as unchanged
  (`retain.rs:116`). `GracefulStopPersists` and `LossIsBounded` except it: they say
  nothing between a failed write and the next one that succeeds.
* `NoSpuriousEdge` (`TaskScheduler`, a SINGLE variable in `InitEvents`). The restart
  that `run_runtime` performs before the first cycle forgets the previous SINGLE
  value (`runtime/restart.rs:130`), so the first cycle sees an edge.
  `docs/specs/10-runtime.md:1430` says that registration avoids it.
* `OverrunsAreReal` (`TaskScheduler`). A restart sets the runtime's time to zero
  and not the clock; the next cycle counts all the time before as missed.
* `DueOnBoundary` (`TaskScheduler`). A late activation moves `last_run` to the time
  of the cycle, so later ones leave the grid of the interval
  (`docs/specs/10-runtime.md:1525`: "eligible again on the next interval
  boundary").
* `ForcedVariableDrives` (`ProcessImage`). A forced variable bound to an output is
  not what the output shows: `write_outputs` copies the bindings before
  `apply_forced_values` (`runtime/cycle.rs:419`). `PLC_OPERATOR_GUIDE.md:67`: forces
  are there "to change outputs".
* `LocalToPou` (`Interpreter`; a variable of the program named like the global).
  `call_function` keeps the current instance, so a function's VAR_EXTERNAL finds
  the variable of the program that calls it (`eval/mod.rs:186`).
  `docs/specs/09-semantic-rules.md:13`: "Within declaring POU only".
* `OnlyErrorsFault` (`Interpreter`). RETURN in a program is `InvalidControlFlow`
  and faults the resource (`runtime/cycle.rs:194`). `docs/specs/06-statements.md:195`
  lists it as an early exit of a program.
* `ResultIsAssigned` (`Interpreter`). Only an assignment statement sets the result
  of a function; what a call writes to its name as an output argument is lost
  (`eval/stmt.rs:131`).
* `DebuggerKept` (`Interpreter`). A failed initial value of a function block that a
  task executes leaves `execute_function_block_ref` without the debug hook and with
  its frame (`runtime/cycle.rs:385`).
* `InsertAtPosition` (`StringFunctions`). `insert` puts the text after position P
  (`stdlib/string.rs:167`), as its test expects (`tests/stdlib_string_full.rs:44`):
  INSERT('AC', 'B', 2) is 'ACB'.
  `docs/specs/07-standard-functions.md:275`: "INSERT('AC', 'B', 2); // 'ABC'".
* `TonFullDelay`, `TpFullPulse` (`Timers`). The call that sees IN rise counts the
  interval before it: a delay or a pulse is short by that interval, and a pulse
  may be missing (`docs/specs/08-standard-function-blocks.md:331`, `:354`).
* `TpFixedPulse` (`Timers`). A second rise of IN during a pulse starts it again.
* `ResponseFirst` (`DebugSession`). The handlers act on the runtime before they
  enter the gate, so the stopped event can precede the response
  (`docs/specs/10-runtime.md:2588`).
* `HeldIsShown` (`DebugSession`, under `FairSession`). A breakpoint replaced while
  its stop is under way: the coordinator drops the stop as stale, the task stays
  held and the editor shows it running (`docs/specs/10-runtime.md:2599`).
* `NoStaleStop` (`DebugSession`, with reloads). `clear_breakpoints` forgets the
  generations, so after a reload an old stop carries the number of a new set
  (`docs/specs/10-runtime.md:2557`).
* `BreakpointsInForce` (`DebugSession`, failing reloads). A reload that fails
  continues the old program without its breakpoints.
* `AdapterResponds` (`DebugSession`, with "variables" among the requests). A read of
  variables while the program runs waits for the runtime's mutex, which a
  breakpoint inside the cycle keeps.
* `AttachedHeldIsShown` (`RemoteAttach`). A resource that was held before the
  attach, or whose stop another client drained, is shown as running
  (`docs/specs/10-runtime.md`, Attach: "must observe the existing execution state").
* `RestartInitialises` (`SharedResources`). The next cycle copies the published
  values over the ones a restart has initialised.
* `HaltedForOwnTime` (`SharedResources`). The watchdog's time starts before the
  lock is acquired, so a resource is halted for the time it waited for another.
* `MeshConsistent` (`Mesh`, without its exceptions). Without `crossed`: an update
  read with the types of before a reload is applied after it, types included.
  Without `skipped`: `map_subscribe` leaves out a value that did not get across (a
  NaN, a negative number for an unsigned global) and applies the others, so globals
  that the publisher writes together are seen from different snapshots until it
  publishes a value that fits (`mesh.rs:281`).
* `ScriptComesLast` (`Simulation`). What a disturbance sets is overwritten by an
  effect of a coupling that was due earlier.
* `NoEditLost` (`WebIde`). What another program writes between the read and the
  write of `apply_source` is replaced (also with `MaxLaunches` 0); after a restart
  versions count from 1 again, so an old version matches a newer file (also with
  `MaxEdits` 0). `web/ide.rs:237`: "prevents blind overwrite".
* `TokenModeHasToken` (`ControlServer`). A later request may clear the token that
  `web.auth = token` required (`handle_config_set`: "token mode requires
  control.auth_token").
* `KeepsLastTwo` (`Deployment`). After a rollback or a failed deploy the pruning of
  the next deploy can remove the bundle `previous` names
  (`bin/trust-runtime/deploy.rs:64`; `PLC_OPERATOR_GUIDE.md:170`: "keeps last two
  known-good project folders").
* `OpenIsAnalysed` (`LanguageServer`). The indexing task looks whether a document is
  open before it takes the lock under which it replaces the source
  (`state/documents.rs:71`), so a file opened in between is analysed with the text
  on disk (`state/mod.rs:295`: "not currently open").

Further observations made while reading, which no formula states:

* A write or force of a variable bound to an input or a marker is answered
  "queued" or "forced" and overwritten when inputs are latched; initial and
  retained values of `%M` variables are overwritten by the zero image of the first
  cycle; a mistyped I/O force faults every cycle; a mistyped write loses the writes
  behind it. Function block tasks, `VAR_ACCESS` and `VAR_CONFIG` refer to the
  replaced instance after a restart, as I/O bindings do. Tasks that were collected
  but dropped by a fault count as run (`runtime/cycle.rs:74`).
* Calls: JMP out of an IF or a loop to a label of the enclosing body is
  `UndefinedLabel` (`eval/stmt.rs:333`; `06-statements.md:534`); an assignment to an
  array element reads the array before it evaluates the indices, so what a function
  among them assigns to the array is undone (`eval/expr/lvalue.rs:107`), and the
  index of an output argument is evaluated again after the call; what a VAR_IN_OUT
  was given is lost on an error; the frame counter is never reset and overflows
  after 2^32 calls (`memory.rs:108`).
* A FOR to the greatest value of its control variable's type overflows at its end
  (`06-statements.md:364`); start plus length of the string functions is computed
  in `i64` without a check; DELETE on a STRING can join two halves into one
  character; ROL and ROR of an LWORD by 0 shift by the width.
* Adapter: an attach is answered "connected" when debugging is disabled
  (`remote.rs:366`); in production mode an attached pause is answered without a
  stopped event (`control.rs:1495`); two attached adapters take each other's stops;
  calls on the control connection have no timeout; a second launch before
  `configurationDone` replaces the first.
* A revocation whose save failed is answered ok and undone by the next start; an
  acknowledgement carries only the id of the alarm, so it may meet a newer one; a
  deploy over the web overwrites the files of the running bundle one by one
  (`web/deploy.rs:96`); the registry's index is read and written without a lock; a
  broken append of the historian spoils its own line and the next sample; the
  sampler sees a snapshot only while the debugger holds (`run.rs:520`); errors of
  the MQTT event loop do not set `next_reconnect`; EtherCAT's latency note
  overwrites a degraded health.

### Bounds and why they are enough

* Runner: two values per variable tell "kept", "initialised" and "loaded" apart;
  two drivers tell the one before and the one after a failing driver; two
  requests by other threads allow every pair (pause and restart, restart and
  stop, reload and pause), which is what the loop can confuse, since it looks at
  one command or flag at a time; two launches let one life of the process read
  what another wrote; `MaxTime` 2 covers an interval that is due, not due and
  equal.
* Tasks: four tasks of two priorities, with equal and different intervals, give
  ties and overtaking; five ticks are more than two of the longest interval, so
  missed intervals and their quotients occur.
* Process image: an input, a marker and two outputs, one of them also part of a
  byte; two requests in every pair and place, one restart.
* Programs: `MaxStatements` 4 is the deepest chain, program to block to function to
  function, with one statement left for any place in it, or two calls with two
  assignments; ends and errors are free. Five statements (1.0 million states) were
  tried with the same result. Two values tell a copy from what it was copied from.
* Timers: preset times below zero, zero, at, below and above the steps of time.
  Counters: a type of five values, presets at both of its ends and inside. Strings:
  all texts up to four bytes, positions and lengths outside them too.
* Debugger: two tasks and depth 1 distinguish target and other, same frame and
  deeper or shallower; three actions allow a resume between two pauses, one change
  of the breakpoints makes a generation old.
* Session: three requests allow a pause, a step and a change of breakpoints or a
  disconnect in every order, with two tasks; a queue of two stop events lets one be
  stale. The session that reloads and the attached one have one task and two
  requests, the second also one action or edit by others. Calls are not nested:
  where a step ends is asked of `DebugControl`.
* Shared globals: two resources, one of each policy; counters modulo 2 tell one
  lost increment. The proof is for any modulus.
* Mesh: two globals and two connections let one message overtake another and be
  received twice; two changes and one reload. Historian: a file with room for four
  samples, debounce 2, two captures that break off. Drivers: two transaction ids
  and two outages make an answer late for a call with the same id. Simulation: a
  coupling with a delay and one without, a script that sets twice and faults once.
* Web IDE: two clients and three contents (and a torn one), three sessions with a
  limit of two, versions up to 3, a change by others that may fall anywhere and a
  restart. Content that changes and changes back comes from the clients' own edits.
* Settings and alarms: two connections and three requests, two changes of the
  process. Pairing: three codes or tokens, one place. Deployment: three operations
  of two writers on three labels. Language server: two files, three notifications,
  one indexing, room for one closed document.

Every bound is a constant with "bound" in its comment, used in a guard; none of
the theorems restricts it beyond its being a number.

A deadlock is an error in the run where the modelled threads never end,
`SharedGlobals`. `CHECK_DEADLOCK FALSE` is given where they do: the runner's
process exits, a scan thread halts at its end of time or on a shutdown, a session
is over after a disconnect or waits, held at a breakpoint, for an editor that sends
no more requests, and a behaviour of `Cycle`, `Plant` or `Clients`, and a program
of `DebugControl`, is over when its bound is used up. Where a wait that never ends would be a defect, a liveness
property says so (`StopEnds`, `DebuggerResponds`, `AdaptersRespond`,
`PlantConverges`).

Only `Clients` uses symmetry (of the two browsers, which the code does not tell
apart); its run checks invariants only.

### Fairness

* `ResourceRunner`: weak fairness of the resource thread (the operating system
  schedules it; every step is a few instructions, a lock held briefly, or a wait
  with a timeout) and of opening the gate, which `run_runtime` does without a
  condition. Nothing of clients, drivers, disk or power.
* `DebugControl`: weak fairness of a notified wait, of a task's end (the tasks of a
  cycle terminate, which is what the watchdog demands of programs) and of the end of
  a loop that was asked to stop. Nothing is assumed of cycles: `execute_cycle` runs
  the tasks that are ready, an event task whose SINGLE variable never rises again is
  not, and after a fault no cycle executes a task until a restart. A step or a pause
  that names such a task is never answered, in the code as in the model: this is why
  `DebuggerResponds` speaks of tasks that execute statements again and again.
* `DebugSession`: the same, and that cycles begin and some task executes statements
  again and again (strong, since it is held now and then): the statements about
  accepted pauses and about requests are about programs whose cycles no fault has
  ended. Weak fairness of the adapter and the coordinator. Nothing is assumed of the
  editor. `RemoteAttach` (`AttachFairness`): the same, with the poller for the
  coordinator; nothing is assumed of connections or other clients.
* `Mesh`: the publisher keeps publishing (`publish_loop` is a timed loop), a
  subscriber that is offered a message again and again maps one at last (strong,
  because a message may be lost each time), and a command is taken.
* `IoDrivers`: weak fairness of the steps of driver, device and session thread, and
  strong fairness of a new session, which is attempted whenever one is due while
  sessions come and go.

`TaskScheduler`, `ProcessImage`, `Interpreter`, the standard library, `Historian`,
`Simulation`, `SharedResources` and everything in `Clients` state safety only and
assume no fairness.

## 5. Proofs

All theorems are of the form `Spec => []Inv` (or an action property, or the
refinement of an abstract specification) for every value of the constants that
satisfies the named assumptions of the modules. TLC evaluates these assumptions
in the runs.

* **ResourceRunnerProofs.** `TypeOK`, `FaultedHasError`, `PausedMeansIdle`,
  `FaultIsHandled`, `SafeHaltIsSafe`, `GracefulStopPersists`,
  `LossIsBounded` and `EndedMeansQuiet`. None is inductive: what clients see follows
  from where the thread is, and where it may be follows from its local variables.
  The invariant is `TypeOK /\ StateInv /\ PauseInv /\ FaultInv /\ SafeInv /\
  RetainInv /\ SyncInv`, one part per question; it has a step per action of the
  loop. For `LossIsBounded` two facts meet: what the manager believes of the file is
  true until a write fails (`RetainInv`), so a skipped save may move `last_save`;
  and `last_save` is never later than the last cycle whose values the file holds
  (`SyncInv`), which a save at the end of a cycle, due or not, then keeps less than
  an interval old.
* **CycleProofs**, of `TaskScheduler`, `Interpreter` and `ProcessImage`.
  - `RunsInOrder` and `PaceKept`, that is `IntervalsAccounted` and `NobodyOverdue`.
    `OverdueInv` says what `NobodyOverdue` needs from the collection to the end of
    the cycle; a lemma bounds the quotient that counts missed intervals.
    `NoSpuriousEdge`, for programs without an event variable that is TRUE from its
    declaration on (`NoEventsAtStart`; section 4 shows what happens to those): a
    variable that has been TRUE since the last sample is one whose value the task
    has noted (`EdgesNoted`).
  - `ContextRestored`, for any text, nesting and scopes, and errors anywhere. It
    speaks of the whole stack, what each caller has saved included (`Fits`,
    `Innermost`), for a call that ends puts back what its caller had; besides the
    shape of stack and frames the invariant needs only that somebody is executed
    exactly while there are activations (`Busy`).
  - `InOutByReference`, for any text, nesting and scopes, with parameters lent on
    from call to call. That copies in and out come to the same as references is
    clear of one call and not of a stack of them: while a variable is lent its own
    value is old, and so is that of a parameter lent on. `RefInv` says where memory
    agrees with the references: at every place that is not lent, a parameter with
    its origin (`Agreed`). It holds because the loans form chains that never meet:
    nobody lends twice, a borrower's origin is that of its lender, and two places
    that are not lent have different origins, so no write reaches two of them
    (`Sound`). To know that a call lends what is free, and a return takes back what
    nobody has lent on, each loan is traced to the level of the stack it belongs
    to, and the lender to what was in sight one level below (`Lending`, `Known`).
    What a block keeps of its VAR_IN_OUT between calls follows nothing (`Stale`);
    nobody can see it, because a block is not called while it runs.
    The lemmas `LoansOfCall`, `LoansOfReturn`, `AgreedOfWrite`, `AgreedOfCall` and
    `AgreedOfReturn` are about loans and memories alone, whatever the stack is.
  - `ForcedOrDriven`, for any cells, overlapping addresses and bindings, and requests
    between any two steps of a cycle. The lists the runtime keeps are what the
    clients want, target by target (`Agree`), and of several entries that write
    a cell the last one counts (`Written`). A force that no other overlaps then
    decides its cells wherever it stands in the list, on both sides of the programs.
* **DebugControlProofs.** `HeldIsNotified`, `HeldIsAnnounced`, `PauseNotLost`
  and the action property `StepsEndInFrame`, for any number of tasks, depth and
  statements. `HoldInv` ties mode, pending stop, snapshot and target of a held
  thread together: that no pause is lost when a thread leaves its hold rests on
  it. `StepInv` says that steps are measured from the depth at which the thread
  was held. Of the adapter, `ReloadKeepsSession`, and both halves of
  `ShownStopsAreTrue`: `StoppedIsTrue` for local sessions that reload nothing
  (`StopsAreTrue`; a reload replaces the runner under a stop that is shown), and
  `AttachedStopIsTrue` (`AttachedStopsAreTrue`). In both a stop on its way to the
  editor is the only one and still in force, so what arrives is true (`OneStop`,
  `OneRemoteStop`), and what is shown excludes another one on its way
  (`ShownStop`, `ShownRemoteStop`). The attached session adds where
  the poller and the answer to the attach may stand (`RemotePhases`, `WorksOff`,
  `FoundStop`), and holds while the connection lasts and nobody else resumes. One
  corner is excepted with it: another client resumes a held resource and pauses it
  again just before the attach; the attach still finds the last stop, drains before
  the new one is emitted, and the poller can show that one when it is over.
* **SharedResourcesProofs.** `NoLostUpdate` for any number of resources and
  globals. The property speaks of the moments the lock is free; the invariant
  adds that the holder is the one resource in its cycle and that its copy is
  current. With it every step maps to a step of `AtomicCounters` or leaves what it
  sees unchanged: acquiring the lock begins a cycle, copying out completes it, an
  error aborts it with the increments made so far, a fault before the cycle
  refuses it, and a restart recovers (`SharedImplementsCounters`).
* **StandardLibraryProofs.** `TonNotEarly` and `TofNotEarly` for all preset times,
  call patterns and restarts: the stored ET plus what the next call will add never
  exceeds the age of the call the delay counts from (`TonCovered`, `TofCovered`).
  `TimersExact`: while PT is steady the two are equal, or both at least PT
  (`ExactInv`), so the cut-off of ET at PT loses nothing that matters.
  `CountsEdges` for any integer type: the edge memories of the counters agree with
  that of R_TRIG, and a counter is the tally of the edges up to its limit.
  `StringLaws` (`StringsAgree`), for texts of every length and any positions and
  lengths: each function's text is described by its length and its characters, one
  lemma each, and two texts with the same length and characters are equal. Only
  that the texts are those a variable can hold has to be carried along
  (`StringInv`).
* **PlantProofs.** `MeshConsistent` for any names, connections and reloads: an
  update mapped since the last reload has only globals declared as numbers, and all
  it has come from one snapshot.
  `AnswersBelong` for any number of transaction ids: errors and timeouts close the
  connection, so a stream holds only messages of the call that waits. `ShownIsKept`:
  an append touches no line but an open last one (`Safe`).
  `AlertExplained`, for any debounce and every ring with `2 * Debounce <= MaxEntries`:
  a capture adds one sample of the watched variable and at most one of the other,
  so the i-th last sample of it is among the last 2i of the ring (`NearBreaches`)
  and is not trimmed before it is counted. In a smaller ring the property is false:
  the tracker goes on counting samples that the ring has dropped.
  `WiringIsDelayed` (`WiringIsAlwaysDelayed`), for any couplings, delays and
  scripts: of what a coupling saw, a first part has been applied and the queue
  holds exactly the changes among the rest, each with its time (`Applied`); a
  value that stays enters no effect, and none is needed (`Constant`). The effects
  of a coupling are due in the order they were seen, so applying all that are due
  lengthens the first part.
* **DocumentProofs**, of `WebIde` and `LanguageServer`. `VersionsAgree` and `NoBlindOverwrite`, for any number of
  clients, files, edits by others and restarts. Both speak of one launch of the
  process, and the second excludes requests during which others wrote the file:
  `NoEditLost` shows that neither can be dropped. A view of this launch is never
  newer than the document and as new only with the same content (`ViewKnown`);
  the copy of the file a request works on is still true unless others wrote
  (`SeenTrue`). `SourcesFollowDocs`, for any number of files and both tasks: a task
  between its two locks has done the first half and holds the text of the second
  (`Half`), so the half that is missing brings the two sides together.
* **ClientsProofs.** `SettingsInForce` for any connections and payloads: every
  policy is settled or still to be sent by the one holder of the lock.
  `AlarmTellsProcess`: only the holder of the metadata has a snapshot that is not
  applied yet. `RevokedStaysRevoked`: a code names one token once, and a revocation
  is in the file before it is answered. `CurrentIsWhole`, for any writers, labels,
  errors and kills: what a link names, or an operation has read from one, is whole
  and nobody copies into it (`Linkable`), and two copies have different
  destinations (`CopiedSoFar`).

`FaultedHasError`, `EndedMeansQuiet`, `HeldIsAnnounced`, `TofNotEarly` and the type
invariants are proved and in no run: TLC checked them while they were found, and
the proofs cover every instance.

The assumptions on constants are those the source gives: numbers are naturals,
tasks and drivers are there, a name that stands for "none" is none of the
others (`DeploymentAssumption`, `InterpreterAssumption`, which also says that
programs, blocks and functions are different things, that a POU declares a name
once, and that its text uses its own names and globals, its parameters among
them; `BlockCallsNoBlock`, the one restriction the evaluator does not enforce), and for `ImageAssumption` that %I, %Q and %M are disjoint and that
a binding lies in one of them. One of its conjuncts excludes projects the code
accepts: those that bind two variables to one cell, of which the later binding
wins and the other is not what its output shows.

**Only model-checked:**

* Every liveness property: fairness and `ENABLED` are out of the prover's reach.
* `ShownStopsAreTrue` as the run states it, of either session; its halves
  are the theorems named above.
* What the last section of a module says the code does not keep.

## 6. Mutants

Each property of a passing run has a variant of a modelled definition, marked
"Variant" where it is defined, with a mistake the code could plausibly have: a
dropped guard, a missing reset, an order swapped. With the variant in place of
the definition TLC finds the property violated, so no property holds only by the
shape of the model.

## 7. Not modelled, and why

* Inside modelled parts: conditions, hit counts and log points of breakpoints
  (a conditional breakpoint may or may not hold); watch expressions and traces;
  stack frames, scopes and evaluation in the adapter; paths and limits of the
  IDE that end a request before it has an effect; `u64` saturation of versions,
  which would need 2^64 edits; conversions between types and hierarchical addresses
  of the process image; GPIO and EtherCAT drivers, whose state is the device's;
  methods, inheritance and VAR_ACCESS in the evaluator; schema and layout of HMI.
* Operators, conversions and data types: functions from values to values over the
  full width of their types. What can be said of them is their definition again;
  where limits meet state (counters, timers, strings) they are modelled.
* The front end and the editor features (parser, type checker, refactorings,
  completion, diagnostics), PLCopen import and export, the bytecode format:
  functions over syntax trees and files, without state between calls. They are most
  of the repository's lines, which is why the map covers a small share of it: a
  model of them would repeat them. Their documents, locks and tasks, where order
  matters, are `LanguageServer`.
* The terminal user interface, configuration files and their parsing, setup,
  bundles, metrics, the command line and the test harness: formatting, prompts and
  input checks. What they do to the modelled parts is there: commands, restart
  requests, policies, changed source files.
* Routing of the web server, OPC UA and discovery: wrappers of external stacks
  around the parts above. The registry: archives, checksums and signatures.
* Launch, protocol and variables of the debug adapter: framing and formatting;
  what a request for variables locks is in `DebugSession`.
