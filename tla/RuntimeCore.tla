---------------------------- MODULE RuntimeCore ----------------------------
(***************************************************************************)
(* The data one resource thread owns: crates/trust-runtime/src/runtime/,   *)
(* retain.rs and watchdog.rs.  Everything here is private to the thread    *)
(* that runs the scan cycle, except the retain file and the wires of the   *)
(* I/O drivers, which outlive the process.                                 *)
(*                                                                         *)
(* The module gives the state and the pieces the loop of ResourceRunner    *)
(* puts together: memory after a restart, the fault decision, the safe     *)
(* state, the save of a retain snapshot.                                   *)
(***************************************************************************)
EXTENDS Integers, Sequences

CONSTANTS
  RetainGlobals,  \* globals whose policy is RETAIN or PERSISTENT
  PlainGlobals,   \* every other global
  ProgRetain,     \* RETAIN variables of program instances
  ProgPlain,      \* every other variable of program instances
  Values,         \* the values a variable can take
  InitValue,      \* the declared initial value (the same for every variable)
  OutVar,         \* the variable bound to the output area
  SafeValue,      \* the value io.safe_state configures for the output area
  NumDrivers,     \* drivers are called in the order of io.toml: 1..NumDrivers
  HasStore,       \* a retain store is configured (runtime.retain.mode = "file")
  DiskFails,      \* whether writing the retain file can fail
  NoInterval,     \* retain_save_interval = None
  NoSnap,         \* RetainManager.last_snapshot = None
  Absent, Torn    \* no retain file; a retain file cut short by a failed write

Globals  == RetainGlobals \cup PlainGlobals
ProgVars == ProgRetain \cup ProgPlain
Vars     == Globals \cup ProgVars
Drivers  == 1..NumDrivers

Snapshots == [RetainGlobals -> Values]

ASSUME DataAssumption ==
  /\ InitValue \in Values /\ SafeValue \in Values
  /\ OutVar \in Vars
  /\ Globals \cap ProgVars = {}
  /\ RetainGlobals \cap PlainGlobals = {} /\ ProgRetain \cap ProgPlain = {}
  /\ NumDrivers \in Nat
  /\ HasStore \in BOOLEAN /\ DiskFails \in BOOLEAN
  /\ NoInterval \notin Nat
  /\ NoSnap \notin Snapshots
  /\ Absent \notin Snapshots /\ Torn \notin Snapshots /\ Absent # Torn

VARIABLES
  mem,      \* storage: the value of every variable
  image,    \* the output area of the process image
  wire,     \* what each driver last put on its outputs (outside the process)
  broken,   \* the drivers whose device fails every read and write (external)
  faulted,  \* FaultSubsystem.faulted
  policy,   \* fault policy, watchdog, safe state configured, save interval
  now,      \* Runtime.current_time
  retain,   \* RetainManager: last_save, dirty, last_snapshot
  file,     \* the retain file
  synced,   \* history: the end of the last cycle whose RETAIN globals are in the file
  writeFailed, \* history: the last write of the file failed in this process
  tasks     \* the task table: the one booted with, a reloaded one, or a torn one

memVars == <<mem, now, faulted>>
ioVars  == <<image, wire>>
store   == <<retain, file, synced, writeFailed>>
vars_rt == <<mem, image, wire, broken, faulted, policy, now, store, tasks>>

FaultPolicies   == {"Halt", "SafeHalt", "Restart"}
WatchdogActions == {"Halt", "SafeHalt", "Restart"}
RestartModes    == {"Cold", "Warm"}
TaskTables      == {"booted", "reloaded", "torn"}

Policies == [fault    : FaultPolicies,
             watchdog : WatchdogActions \cup {"Off"},
             safe     : BOOLEAN,
             interval : Nat \cup {NoInterval}]

Retains == [lastSave : Nat, dirty : BOOLEAN, snap : Snapshots \cup {NoSnap}]

InitMem == [v \in Vars |-> InitValue]

(***************************************************************************)
(* Runtime::restart.  retain_on_warm decides which variables a warm        *)
(* restart carries over; everything else goes back to its initial value.   *)
(***************************************************************************)
retain_on_warm(v) == v \in RetainGlobals \cup ProgRetain

RestartMem(mode, m) ==
  [v \in Vars |-> IF mode = "Warm" /\ retain_on_warm(v) THEN m[v] ELSE InitValue]

\* An instance that cannot be created makes restart return early.  Globals are
\* handled first, then program instances, so the variables S already handled
\* are some globals, or all of them and some of the program variables; retained
\* program variables in S are not written back, and neither the clock nor the
\* fault latch is touched.
PartialRestartMem(mode, m, S) ==
  [v \in Vars |-> IF v \notin S THEN m[v]
                  ELSE IF mode = "Warm" /\ v \in RetainGlobals THEN m[v]
                  ELSE InitValue]

\* Variant: the fault latch is not cleared.
RestartKeepsFault(mode) ==
  mem' = RestartMem(mode, mem) /\ now' = 0 /\ UNCHANGED faulted

Restart(mode) ==
  /\ mem' = RestartMem(mode, mem)
  /\ now' = 0
  /\ faulted' = FALSE

RestartFails(mode) ==
  /\ \E S \in SUBSET Vars :
       /\ S \subseteq Globals \/ Globals \subseteq S
       /\ mem' = PartialRestartMem(mode, mem, S)
  /\ UNCHANGED <<now, faulted>>

(***************************************************************************)
(* The retain store.  retain_snapshot holds the RETAIN globals only; load  *)
(* of a file that was cut short is an error.                               *)
(***************************************************************************)
retain_snapshot(m) == [v \in RetainGlobals |-> m[v]]

apply_retain_snapshot(m, s) ==
  [v \in Vars |-> IF v \in RetainGlobals THEN s[v] ELSE m[v]]

LoadFails == HasStore /\ file = Torn

LoadedMem(m) ==
  IF HasStore /\ file # Absent THEN apply_retain_snapshot(m, file) ELSE m

should_save(r) ==
  /\ policy.interval # NoInterval
  /\ r.dirty
  /\ policy.interval = 0 \/ now - r.lastSave >= policy.interval

Saved(r, s) == [r EXCEPT !.snap = s, !.dirty = FALSE, !.lastSave = now]

\* Variant: one save is taken for all.
SaveSkippedOnceSaved == ~HasStore \/ retain.snap # NoSnap

\* save_snapshot skips the write when the values are those of the last one.
SaveSkipped == ~HasStore \/ retain.snap = retain_snapshot(mem)

SkipSave ==
  /\ SaveSkipped
  /\ retain' = IF HasStore THEN Saved(retain, retain.snap) ELSE retain
  /\ UNCHANGED <<file, writeFailed>>

\* FileRetainStore::write_bytes: File::create truncates, write_all fills.
StoreCreate == ~SaveSkipped /\ file' = Torn /\ UNCHANGED <<retain, writeFailed>>

StoreCreateFails == ~SaveSkipped /\ DiskFails /\ UNCHANGED <<file, retain, writeFailed>>

StoreWrite ==
  /\ file' = retain_snapshot(mem)
  /\ retain' = Saved(retain, retain_snapshot(mem))
  /\ writeFailed' = FALSE

StoreWriteFails == DiskFails /\ writeFailed' = TRUE /\ UNCHANGED <<file, retain>>

(***************************************************************************)
(* I/O.  Drivers are called one after the other and the first error ends   *)
(* the loop, so only the drivers before the first broken one are reached.  *)
(***************************************************************************)
Reached(d) == \A e \in 1..d : e \notin broken

WriteDrivers(v) == wire' = [d \in Drivers |-> IF Reached(d) THEN v ELSE wire[d]]

\* Variant: the image is safe, the drivers are not told.
apply_safe_state_image_only ==
  image' = (IF policy.safe THEN SafeValue ELSE image) /\ UNCHANGED wire

\* IoSafeState::apply, then write_outputs of every driver.
apply_safe_state ==
  LET v == IF policy.safe THEN SafeValue ELSE image
  IN  image' = v /\ WriteDrivers(v)

(***************************************************************************)
(* FaultDecision: a watchdog Halt drives the safe state, a Halt of the     *)
(* fault policy does not.                                                  *)
(***************************************************************************)
from_fault_policy(p) == p = "SafeHalt"
from_watchdog(a) == a \in {"Halt", "SafeHalt"}

ApplyFault(safe) ==
  /\ faulted' = TRUE
  /\ IF safe THEN apply_safe_state ELSE UNCHANGED ioVars

RecordFault == ApplyFault(from_fault_policy(policy.fault))
=============================================================================
