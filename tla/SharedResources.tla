-------------------------- MODULE SharedResources --------------------------
(***************************************************************************)
(* Several resources that share globals: SharedGlobals and                 *)
(* run_resource_loop_with_shared in crates/trust-runtime/src/scheduler.rs. *)
(*                                                                         *)
(* Every resource is a thread with storage of its own.  A cycle takes the  *)
(* one lock of the configuration, copies the shared values in, runs, and   *)
(* copies them out, also when the cycle failed.  Everything else the       *)
(* thread does (commands, restarts, the fault reaction, the watchdog)      *)
(* happens outside the lock, on the copy.                                  *)
(*                                                                         *)
(* The program of every resource increments every shared counter once per  *)
(* cycle, as in tests/resources.rs.  Counters are compared modulo Modulus, *)
(* which keeps the state finite and still tells a lost increment.  The     *)
(* start gate, I/O, outputs and the retain file are those of               *)
(* ResourceRunner and are left out here.                                   *)
(***************************************************************************)
EXTENDS Integers, Sequences

CONSTANTS
  Resources,   \* the resources of the configuration
  First,       \* the one whose values from_runtime takes
  Shared,      \* the shared counters
  Retained,    \* those of them declared RETAIN
  FaultPolicy, \* per resource: "Halt" or "Restart" (SafeHalt differs in outputs only)
  Watchdog,    \* per resource: "Off", "Halt" or "Restart"
  Timeout,     \* the watchdog timeout, in ticks
  CanFail,     \* whether a cycle can end with an error
  NoOne,       \* the lock is free
  Modulus,     \* bound: counters wrap around here
  MaxSent      \* bound: requests other threads make

Values == 0..(Modulus - 1)
Bump(x) == (x + 1) % Modulus

ASSUME SharedAssumption ==
  /\ First \in Resources /\ NoOne \notin Resources
  /\ Retained \subseteq Shared
  /\ FaultPolicy \in [Resources -> {"Halt", "Restart"}]
  /\ Watchdog \in [Resources -> {"Off", "Halt", "Restart"}]
  /\ Timeout \in Nat /\ CanFail \in BOOLEAN
  /\ Modulus \in Nat /\ Modulus > 1 /\ MaxSent \in Nat

VARIABLES
  globals,  \* SharedGlobals.inner: the published values
  lock,     \* who holds the mutex around them
  mem,      \* per resource: its own copy, in storage
  pc,       \* per resource: where its thread is
  left,     \* per resource: the statements its cycle has still to run
  cmds,     \* per resource: the command channel
  signal,   \* per resource: the restart signal
  stop,     \* per resource: the stop flag
  paused,   \* per resource: local variable of the loop
  error,    \* per resource: last_error
  elapsed,  \* per resource: ticks since wall_start
  own,      \* per resource: ticks of these spent inside its cycle (history)
  ran,      \* increments executed by all programs, modulo Modulus (history)
  fresh,    \* resources restarted since any cycle published (history)
  sent      \* counter for the bound

threads == <<pc, left, paused, error>>
timers  == <<elapsed, own>>
inbox   == <<cmds, signal, stop, sent>>
vars    == <<globals, lock, mem, threads, timers, inbox, ran, fresh>>

Pcs    == {"top", "cmds", "signal", "lock", "exec", "failed", "watchdog",
           "sleep", "stopped", "faulted"}
Errors == {"None", "Task", "Watchdog", "Restart"}
Command == [op : {"Pause", "Resume", "Reload"}]
             \cup [op : {"MeshApply"}, var : Shared, val : Values]

TypeOK ==
  /\ globals \in [Shared -> Values] /\ ran \in [Shared -> Values]
  /\ lock \in Resources \cup {NoOne}
  /\ mem \in [Resources -> [Shared -> Values]]
  /\ pc \in [Resources -> Pcs]
  /\ left \in [Resources -> SUBSET Shared]
  /\ cmds \in [Resources -> Seq(Command)]
  /\ signal \in [Resources -> BOOLEAN]
  /\ stop \in [Resources -> BOOLEAN] /\ paused \in [Resources -> BOOLEAN]
  /\ error \in [Resources -> Errors]
  /\ elapsed \in [Resources -> 0..(Timeout + 1)]
  /\ own \in [Resources -> 0..(Timeout + 1)]
  /\ fresh \subseteq Resources
  /\ sent \in 0..MaxSent

\* spawn_with_shared: a resource may have loaded retained values of its own;
\* from_runtime takes the values of one of them.
Init ==
  /\ mem \in [Resources -> [Shared -> Values]]
  /\ \A r \in Resources, v \in Shared \ Retained : mem[r][v] = 0
  /\ globals = mem[First] /\ ran = mem[First]
  /\ lock = NoOne
  /\ pc = [r \in Resources |-> "top"]
  /\ left = [r \in Resources |-> {}]
  /\ cmds = [r \in Resources |-> <<>>]
  /\ signal = [r \in Resources |-> FALSE]
  /\ stop = [r \in Resources |-> FALSE]
  /\ paused = [r \in Resources |-> FALSE]
  /\ error = [r \in Resources |-> "None"]
  /\ elapsed = [r \in Resources |-> 0] /\ own = [r \in Resources |-> 0]
  /\ fresh = {} /\ sent = 0

-----------------------------------------------------------------------------
(***************************************************************************)
(* What other threads ask of a resource.                                   *)
(***************************************************************************)
Ask == sent < MaxSent /\ sent' = sent + 1

\* The channel closes with the thread.
SendCommand(r, c) ==
  /\ Ask /\ pc[r] \notin {"stopped", "faulted"}
  /\ cmds' = [cmds EXCEPT ![r] = Append(@, c)]
  /\ UNCHANGED <<globals, lock, mem, threads, timers, signal, stop, ran, fresh>>

RequestRestart(r) ==
  /\ Ask
  /\ signal' = [signal EXCEPT ![r] = TRUE]
  /\ UNCHANGED <<globals, lock, mem, threads, timers, cmds, stop, ran, fresh>>

Stop(r) ==
  /\ stop' = [stop EXCEPT ![r] = TRUE]
  /\ UNCHANGED <<globals, lock, mem, threads, timers, cmds, signal, sent, ran, fresh>>

-----------------------------------------------------------------------------
(***************************************************************************)
(* The thread, outside the lock.                                           *)
(***************************************************************************)
Goto(r, here, there) == pc[r] = here /\ pc' = [pc EXCEPT ![r] = there]

Restarted(m, kept) == [v \in Shared |-> IF v \in kept THEN m[v] ELSE 0]

\* Runtime::restart(Warm): RETAIN variables keep their values.
WarmRestart(r) == mem' = [mem EXCEPT ![r] = Restarted(@, Retained)]

\* restart, then load_retain_store, whatever the mode: RETAIN variables take
\* the values the retain file happens to hold.
RestartAndLoad(r) ==
  \E s \in [Retained -> Values] :
    mem' = [mem EXCEPT ![r] = [v \in Shared |-> IF v \in Retained THEN s[v] ELSE 0]]

Fault(r, e) ==
  /\ pc' = [pc EXCEPT ![r] = "faulted"]
  /\ error' = [error EXCEPT ![r] = e]
  /\ UNCHANGED <<globals, lock, mem, left, paused, timers, inbox, ran, fresh>>

Top(r) ==
  /\ Goto(r, "top", IF stop[r] THEN "stopped" ELSE "cmds")
  /\ UNCHANGED <<globals, lock, mem, left, paused, error, timers, inbox, ran, fresh>>

TakeCommand(r) ==
  /\ pc[r] = "cmds" /\ cmds[r] # <<>>
  /\ cmds' = [cmds EXCEPT ![r] = Tail(@)]
  /\ LET c == Head(cmds[r])
     IN  \/ /\ c.op \in {"Pause", "Resume"}
            /\ paused' = [paused EXCEPT ![r] = c.op = "Pause"]
            /\ UNCHANGED mem
         \/ /\ c.op = "MeshApply"
            /\ mem' = [mem EXCEPT ![r][c.var] = c.val]
            /\ UNCHANGED paused
         \/ /\ c.op = "Reload"
            /\ RestartAndLoad(r) \/ UNCHANGED mem  \* or the reload fails
            /\ UNCHANGED paused
  /\ UNCHANGED <<globals, lock, pc, left, error, timers, signal, stop, sent,
                 ran, fresh>>

EndOfCommands(r) ==
  /\ cmds[r] = <<>>
  /\ Goto(r, "cmds", "signal")
  /\ UNCHANGED <<globals, lock, mem, left, paused, error, timers, inbox, ran, fresh>>

\* The restart signal, the test of paused, and wall_start.
TakeSignal(r) ==
  /\ Goto(r, "signal", IF paused[r] THEN "sleep" ELSE "lock")
  /\ signal' = [signal EXCEPT ![r] = FALSE]
  /\ IF signal[r] THEN RestartAndLoad(r) /\ fresh' = fresh \cup {r}
                  ELSE UNCHANGED <<mem, fresh>>
  /\ elapsed' = [elapsed EXCEPT ![r] = 0]
  /\ own' = [own EXCEPT ![r] = 0]
  /\ UNCHANGED <<globals, lock, left, paused, error, cmds, stop, sent, ran>>

SignalledRestartFails(r) ==
  /\ pc[r] = "signal" /\ signal[r]
  /\ Fault(r, "Restart")

\* A simulation rule fails before the cycle: it is handled like a failed cycle,
\* but the lock was never taken.
SimulationFails(r) ==
  /\ CanFail
  /\ Goto(r, "lock", "failed")
  /\ UNCHANGED <<globals, lock, mem, left, paused, error, timers, inbox, ran, fresh>>

\* The reaction to a failed cycle.
CycleError(r) ==
  \/ /\ pc[r] = "failed" /\ FaultPolicy[r] = "Halt"
     /\ Fault(r, "Task")
  \/ /\ FaultPolicy[r] = "Restart"
     /\ Goto(r, "failed", "top")
     /\ WarmRestart(r)
     /\ UNCHANGED <<globals, lock, left, paused, error, timers, inbox, ran, fresh>>
  \/ /\ pc[r] = "failed" /\ FaultPolicy[r] = "Restart"
     /\ Fault(r, "Restart")

\* The watchdog compares the wall clock since wall_start.
Late(r) == Watchdog[r] # "Off" /\ elapsed[r] > Timeout

WatchdogCheck(r) ==
  \/ /\ ~Late(r)
     /\ Goto(r, "watchdog", "sleep")
     /\ UNCHANGED <<globals, lock, mem, left, paused, error, timers, inbox, ran, fresh>>
  \/ /\ pc[r] = "watchdog" /\ Late(r) /\ Watchdog[r] = "Halt"
     /\ Fault(r, "Watchdog")
  \/ /\ Late(r) /\ Watchdog[r] = "Restart"
     /\ Goto(r, "watchdog", "sleep")
     /\ WarmRestart(r)
     /\ UNCHANGED <<globals, lock, left, paused, error, timers, inbox, ran, fresh>>
  \/ /\ pc[r] = "watchdog" /\ Late(r) /\ Watchdog[r] = "Restart"
     /\ Fault(r, "Restart")

Wake(r) ==
  /\ Goto(r, "sleep", "top")
  /\ UNCHANGED <<globals, lock, mem, left, paused, error, timers, inbox, ran, fresh>>

-----------------------------------------------------------------------------
(***************************************************************************)
(* The cycle, under the lock.                                              *)
(***************************************************************************)
\* Variant: the values are copied in before the lock is taken.
AcquireUnlocked(r) ==
  /\ Goto(r, "lock", "exec")
  /\ lock' = r
  /\ mem' = [mem EXCEPT ![r] = globals]
  /\ left' = [left EXCEPT ![r] = Shared]
  /\ UNCHANGED <<globals, paused, error, timers, inbox, ran, fresh>>

\* with_lock, sync_into_locked.
Acquire(r) ==
  /\ lock = NoOne
  /\ Goto(r, "lock", "exec")
  /\ lock' = r
  /\ mem' = [mem EXCEPT ![r] = globals]
  /\ left' = [left EXCEPT ![r] = Shared]
  /\ UNCHANGED <<globals, paused, error, timers, inbox, ran, fresh>>

\* Variant: an assignment goes to the shared value at once.
ExecuteThrough(r, v) ==
  /\ pc[r] = "exec" /\ v \in left[r]
  /\ mem' = [mem EXCEPT ![r][v] = Bump(@)]
  /\ globals' = [globals EXCEPT ![v] = Bump(@)]
  /\ left' = [left EXCEPT ![r] = @ \ {v}]
  /\ ran' = [ran EXCEPT ![v] = Bump(@)]
  /\ UNCHANGED <<lock, pc, paused, error, timers, inbox, fresh>>

\* One statement of the program: v := v + 1.
Execute(r, v) ==
  /\ pc[r] = "exec" /\ v \in left[r]
  /\ mem' = [mem EXCEPT ![r][v] = Bump(@)]
  /\ left' = [left EXCEPT ![r] = @ \ {v}]
  /\ ran' = [ran EXCEPT ![v] = Bump(@)]
  /\ UNCHANGED <<globals, lock, pc, paused, error, timers, inbox, fresh>>

\* sync_from_locked, and the lock is released; after an error as well (a cycle
\* can fail at any statement, and after the last: outputs, retain save).
Publish(r) ==
  /\ globals' = mem[r]
  /\ lock' = NoOne
  /\ left' = [left EXCEPT ![r] = {}]
  /\ fresh' = {}
  /\ UNCHANGED <<mem, paused, error, timers, inbox, ran>>

CycleOk(r) == left[r] = {} /\ Goto(r, "exec", "watchdog") /\ Publish(r)

CycleFails(r) ==
  /\ CanFail
  /\ Goto(r, "exec", "failed")
  /\ Publish(r)

-----------------------------------------------------------------------------
\* Time passes for the threads between wall_start and the watchdog; the clocks
\* stop at the first value above the timeout.
Timed == {r \in Resources : pc[r] \in {"lock", "exec", "watchdog"}}

Later(t) == IF t > Timeout THEN t ELSE t + 1

Tick ==
  /\ \E r \in Timed : elapsed[r] <= Timeout
  /\ elapsed' = [r \in Resources |->
       IF r \in Timed THEN Later(elapsed[r]) ELSE elapsed[r]]
  /\ own' = [r \in Resources |->
       IF r \in Timed /\ pc[r] # "lock" THEN Later(own[r]) ELSE own[r]]
  /\ UNCHANGED <<globals, lock, mem, threads, inbox, ran, fresh>>

Thread(r) ==
  \/ Top(r) \/ TakeCommand(r) \/ EndOfCommands(r)
  \/ TakeSignal(r) \/ SignalledRestartFails(r)
  \/ Acquire(r) \/ \E v \in Shared : Execute(r, v)
  \/ CycleOk(r) \/ CycleFails(r) \/ SimulationFails(r) \/ CycleError(r)
  \/ WatchdogCheck(r) \/ Wake(r)

Ended == \A r \in Resources : pc[r] \in {"stopped", "faulted"}

Next ==
  \/ \E r \in Resources : Thread(r)
  \/ \E r \in Resources, c \in Command : SendCommand(r, c)
  \/ \E r \in Resources : RequestRestart(r) \/ Stop(r)
  \/ Tick
  \/ Ended /\ UNCHANGED vars

Spec == Init /\ [][Next]_vars

-----------------------------------------------------------------------------
(***************************************************************************)
(* Properties.                                                             *)
(***************************************************************************)
\* Whoever reads a shared global between two cycles sees every increment that
\* any resource has executed, including those of a cycle that then failed and
\* whatever restarts, reloads, mesh updates and faults happened outside the
\* lock.
NoLostUpdate == lock = NoOne => globals = ran

\* To the outside the resources are clients of atomic counters: SharedResources
\* implements AtomicCounters.  A cycle takes effect at the moment its values
\* are copied out, all of it and once, although with_lock protects copies that
\* restarts and commands change without the lock.
Phase(p) == CASE p = "exec" -> "busy" [] p = "failed" -> "failed" [] OTHER -> "idle"

phases == [r \in Resources |-> Phase(pc[r])]

Counters == INSTANCE AtomicCounters WITH value <- globals, client <- phases

ImplementsCounters == Counters!Spec

-----------------------------------------------------------------------------
(***************************************************************************)
(* Statements of the documentation that the code does not keep: TLC finds  *)
(* each of them violated, README.md says how.                              *)
(***************************************************************************)
\* "Warm restart: ... NON_RETAIN are initialized.  Cold restart: RETAIN and
\* NON_RETAIN variables are initialized."  When every resource of the
\* configuration has been restarted and no cycle has run since, the next cycle
\* finds a NON_RETAIN global at its initial value.
RestartInitialises ==
  \A r \in Resources :
    fresh = Resources /\ pc[r] = "exec" /\ left[r] = Shared =>
      \A v \in Shared \ Retained : mem[r][v] = 0

\* "A watchdog monitors cycle/task execution time."  A resource halted by the
\* watchdog spent more than the timeout in its own cycle.
HaltedForOwnTime ==
  \A r \in Resources : error[r] = "Watchdog" => own[r] > Timeout
=============================================================================
