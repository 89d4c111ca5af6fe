------------------------------ MODULE MCCycle ------------------------------
(***************************************************************************)
(* What a cycle executes, for TLC: the tasks it schedules; the process     *)
(* image around the programs; and the standard library they call, timers   *)
(* with presets around the call intervals, negative ones too, counters of  *)
(* an integer type with five values, and string functions on short texts.  *)
(* A behaviour exercises one of these.                                     *)
(***************************************************************************)
EXTENDS TaskScheduler, ProcessImage, Timers, FunctionBlocks, StringFunctions

CONSTANTS
  e1, e2,          \* event variables
  i0, q0, q1, m0,  \* an input, two neighbouring outputs, a marker
  gi, gm, pq       \* two globals bound to i0 and m0, a program's variable to q0

VARIABLE subject

\* Two periodic tasks of one priority, an event task of higher priority, and a
\* task with both.
MixedInterval == <<1, 2, 0, 2>>
MixedPriority == <<1, 1, 0, 1>>
MixedSingle   == <<NoVar, NoVar, e1, e2>>

\* A bit of a byte, and the byte.
Bound      == [v \in {gi, gm, pq} |-> CASE v = gi -> {i0} [] v = gm -> {m0} [] v = pq -> {q0}]
BitAndByte == {{i0}, {q0}, {q0, q1}}

ManyPT     == {-1, 0, 1, 2, 4}
Lowest     == -2
ManyPreset == {-2, 0, 2}

libVars == <<vars, fbVars, args, outcomes>>

CycleInit ==
  /\ Init /\ FbInit /\ TaskInit /\ ImageInit
  /\ \/ subject \in {"timers", "counters", "tasks", "image"}
        /\ args = Unasked /\ outcomes = Unasked
     \/ subject = "strings" /\ StringInit

CycleNext ==
  /\ UNCHANGED subject
  /\ \/ subject = "timers" /\ Next /\ UNCHANGED <<fbVars, args, outcomes, taskVars, imgVars>>
     \/ subject = "counters" /\ FbNext /\ UNCHANGED <<vars, args, outcomes, taskVars, imgVars>>
     \/ subject = "strings" /\ StringCall /\ UNCHANGED <<vars, fbVars, taskVars, imgVars>>
     \/ subject = "tasks" /\ TaskNext /\ UNCHANGED <<libVars, imgVars>>
     \/ subject = "image" /\ ImageNext /\ UNCHANGED <<libVars, taskVars>>

CycleSpec == CycleInit /\ [][CycleNext]_<<libVars, taskVars, imgVars, subject>>

\* Only the process image.
ImageOnly == CycleSpec /\ subject = "image"
=============================================================================
