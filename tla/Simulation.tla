----------------------------- MODULE Simulation -----------------------------
(***************************************************************************)
(* Simulated wiring: SimulationController in                               *)
(* crates/trust-runtime/src/simulation.rs, driven once per cycle by the    *)
(* loop of scheduler.rs.                                                   *)
(*                                                                         *)
(* Couplings carry outputs to inputs with a delay of their own; scripted   *)
(* disturbances set inputs or cause faults.  Before the cycle everything   *)
(* that is due is applied; after a cycle that succeeded the outputs are    *)
(* looked at.  Effects wait in one queue for all couplings, and only a     *)
(* value that differs from the last one of its coupling enters it.  The    *)
(* queue is sorted whenever an effect enters it, so it is the set of its   *)
(* effects and their order.  The time of a cycle is read once.             *)
(***************************************************************************)
EXTENDS Integers, Sequences, FiniteSetsExt

CONSTANTS
  Couplings,     \* the coupling rules, by their number in the file
  Delay,         \* per coupling, in ticks of simulated time
  Threshold,     \* per coupling: outputs from here on mean TRUE
  Levels,        \* bound: the values outputs take
  Disturbances,  \* the script, a sequence
  RestartsFault, \* FaultPolicy::Restart: the resource goes on after a fault
  Horizon        \* bound: the simulated time

ASSUME SimulationAssumption ==
  /\ Couplings \subseteq Nat /\ IsFiniteSet(Couplings) /\ Levels \subseteq Int
  /\ Delay \in [Couplings -> Nat] /\ Threshold \in [Couplings -> Int]
  /\ Disturbances \in
       Seq([at : Nat, kind : {"set", "fault"}, target : Nat, value : {0, 1}])
  /\ RestartsFault \in BOOLEAN /\ Horizon \in Nat

VARIABLES
  simClock,  \* the simulated time of the cycle
  simAt,     \* where the loop is: "pre", "cycle", "post", "sleep", "faulted"
  output,    \* per coupling: its source in the process image
  input,     \* per coupling: its target in the process image
  cursor,    \* disturbance_cursor
  pending,   \* pending_effects: the set of the effects in the queue
  sequence,  \* next_sequence
  lastValue, \* last_coupling_values
  trace      \* per coupling: what its source meant after each cycle (history)

simVars == <<simClock, simAt, output, input, cursor, pending, sequence, lastValue, trace>>

Unset == -1  \* no value yet; 0 and 1 are FALSE and TRUE

SimTypeOK ==
  /\ simClock \in 0..Horizon
  /\ simAt \in {"pre", "cycle", "post", "sleep", "faulted"}
  /\ output \in [Couplings -> Levels] /\ input \in [Couplings -> {0, 1}]
  /\ cursor \in 0..Len(Disturbances) /\ sequence \in Nat
  /\ pending \subseteq [due : Nat, sequence : Nat, target : Couplings, value : {0, 1}]
  /\ \A c \in Couplings : lastValue[c] \in {Unset, 0, 1}

SimInit ==
  /\ simClock = 0 /\ simAt = "pre"
  /\ output \in [Couplings -> Levels] /\ input = [c \in Couplings |-> 0]
  /\ cursor = 0 /\ pending = {} /\ sequence = 0
  /\ lastValue = [c \in Couplings |-> Unset]
  /\ trace = [c \in Couplings |-> <<>>]

-----------------------------------------------------------------------------
\* derive_coupling_value for a target of one bit.
derive_coupling_value(c, level) == IF level >= Threshold[c] THEN 1 ELSE 0

\* The disturbances that are due: the script up to the first that is later.
IsDue(i) == i > cursor /\ \A j \in (cursor + 1)..i : Disturbances[j].at <= simClock

DueFault(i) == IsDue(i) /\ Disturbances[i].kind = "fault"

\* The inputs after disturbances first to last: the last one for a target stays.
Scripted(first, last) ==
  [c \in Couplings |->
     LET mine == {i \in first..last : Disturbances[i].target = c}
     IN  IF mine = {} THEN input[c] ELSE Disturbances[Max(mine)].value]

\* Variant: effects wait in the order in which they arose.
BeforeByNumber(e, f) == e.sequence < f.sequence

\* The order of the queue: by due time, then by number.
Before(e, f) == e.due < f.due \/ (e.due = f.due /\ e.sequence < f.sequence)

\* The effects at the front of the queue that are due.
DueEffects == {e \in pending : \A f \in pending : f = e \/ Before(f, e) => f.due <= simClock}

\* Effects are written in their order: the last one for a target stays.
Written(image, effects) ==
  [c \in Couplings |->
     LET mine == {e \in effects : e.target = c}
     IN  IF mine = {} THEN image[c]
         ELSE (CHOOSE e \in mine : \A f \in mine : f = e \/ Before(f, e)).value]

\* After a fault the resource is restarted, at once or in a later cycle.
Recovery == IF RestartsFault THEN {"pre", "sleep"} ELSE {"faulted"}

\* apply_pre_cycle: the script up to now, then the effects up to now.  A fault
\* in the script ends the call; the effects stay, the fault is not repeated.
apply_pre_cycle ==
  /\ simAt = "pre"
  /\ \/ \E f \in 1..Len(Disturbances) :
          /\ DueFault(f) /\ \A i \in 1..(f - 1) : ~DueFault(i)
          /\ cursor' = f
          /\ input' = Scripted(cursor + 1, f - 1)
          /\ simAt' \in Recovery
          /\ UNCHANGED pending
     \/ /\ \A i \in 1..Len(Disturbances) : ~DueFault(i)
        /\ cursor' \in cursor..Len(Disturbances)
        /\ \A i \in 1..Len(Disturbances) : IsDue(i) <=> i \in (cursor + 1)..cursor'
        /\ input' = Written(Scripted(cursor + 1, cursor'), DueEffects)
        /\ pending' = pending \ DueEffects
        /\ simAt' = "cycle"
  /\ UNCHANGED <<simClock, output, sequence, lastValue, trace>>

\* execute_cycle: the program sets its outputs; the post-cycle hook runs only
\* when it succeeded.
SimCycle ==
  /\ simAt = "cycle"
  /\ output' \in [Couplings -> Levels]
  /\ simAt' \in {"post"} \cup Recovery
  /\ UNCHANGED <<simClock, input, cursor, pending, sequence, lastValue, trace>>

-----------------------------------------------------------------------------
\* The couplings whose value has changed.
Changed == {c \in Couplings : lastValue[c] # derive_coupling_value(c, output[c])}

\* What enqueue_effect gets; effects are numbered in the order of the couplings.
EffectOf(c) ==
  [due |-> simClock + Delay[c], sequence |-> sequence + Cardinality({d \in Changed : d < c}),
   target |-> c, value |-> derive_coupling_value(c, output[c])]

apply_post_cycle ==
  /\ simAt = "post" /\ simAt' = "sleep"
  /\ pending' = pending \cup {EffectOf(c) : c \in Changed}
  /\ sequence' = sequence + Cardinality(Changed)
  /\ lastValue' = [c \in Couplings |-> derive_coupling_value(c, output[c])]
  /\ trace' = [c \in Couplings |->
       Append(trace[c], [at |-> simClock, value |-> derive_coupling_value(c, output[c])])]
  /\ UNCHANGED <<simClock, output, input, cursor>>

\* The next cycle; a cycle may be late, and with a time scale a tick is long.
SimSleep ==
  /\ simAt = "sleep" /\ simAt' = "pre"
  /\ simClock' \in (simClock + 1)..Horizon
  /\ UNCHANGED <<output, input, cursor, pending, sequence, lastValue, trace>>

SimNext == apply_pre_cycle \/ SimCycle \/ apply_post_cycle \/ SimSleep

SimSpec == SimInit /\ [][SimNext]_simVars

-----------------------------------------------------------------------------
(***************************************************************************)
(* Properties.                                                             *)
(***************************************************************************)
\* PLC_SIMULATION_WORKFLOW.md: couplings are "output-to-input wiring rules",
\* delay_ms is "delayed effect timing".  The program finds in the input of a
\* coupling what its output meant one delay ago, in the last cycle before
\* that: not another coupling's turn, whose delay differs, not a value skipped
\* because it seemed unchanged, whatever faults of the script or the program
\* came in between.  Inputs the script has written to are left out.
Arrived(c) == {i \in 1..Len(trace[c]) : trace[c][i].at + Delay[c] <= simClock}

Disturbed(c) ==
  \E i \in 1..cursor : Disturbances[i].kind = "set" /\ Disturbances[i].target = c

WiringIsDelayed ==
  simAt = "cycle" =>
    \A c \in Couplings :
      ~Disturbed(c) /\ Arrived(c) # {} => input[c] = trace[c][Max(Arrived(c))].value

-----------------------------------------------------------------------------
(***************************************************************************)
(* A statement of the documentation that the code does not keep: TLC finds *)
(* it violated, README.md says how.                                        *)
(***************************************************************************)
\* PLC_SIMULATION_WORKFLOW.md: disturbances are "scripted input changes": what
\* the script sets last, later than any effect, is what the program finds.
ScriptComesLast ==
  simAt = "cycle" =>
    \A i \in 1..cursor :
      LET d == Disturbances[i]
      IN  /\ d.kind = "set"
          /\ \A j \in (i + 1)..cursor : Disturbances[j].target # d.target
          /\ \A s \in 1..Len(trace[d.target]) :
               trace[d.target][s].at + Delay[d.target] <= simClock =>
                 trace[d.target][s].at + Delay[d.target] < d.at
          => input[d.target] = d.value
=============================================================================
