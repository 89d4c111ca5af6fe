---------------------------- MODULE ProcessImage ----------------------------
(***************************************************************************)
(* The process image of a resource and the variables bound to it           *)
(* (crates/trust-runtime/src/io.rs), around the programs of a cycle        *)
(* (runtime/cycle.rs), with the writes and forces that debuggers and the   *)
(* control server hand over through DebugControl.                          *)
(*                                                                         *)
(* A cell is what a driver or the program reads and writes at once; an     *)
(* address is a set of cells of one area, so that addresses of different   *)
(* sizes overlap.  A value gives every cell of its address a content.  The *)
(* variables of programs live in an instance of the program, of which a    *)
(* restart makes a new one.                                                *)
(***************************************************************************)
EXTENDS Integers, Sequences, SequencesExt, Functions

CONSTANTS
  InputCells, OutputCells, MarkerCells,  \* %I, %Q and %M
  Addresses,      \* what clients force and write
  Globals, ProgVars,
  At,             \* the address of each located variable
  Retained,       \* those that a warm restart keeps
  Contents, Zero, \* contents of a cell; what initial values consist of
  Mistyped,       \* a value that does not fit the size of the address
  MaxRequests, MaxRestarts  \* bounds

Cells   == InputCells \cup OutputCells \cup MarkerCells
Located == DOMAIN At
Unlocated == (Globals \cup ProgVars) \ Located

ASSUME ImageAssumption ==
  /\ Zero \in Contents /\ MaxRequests \in Nat /\ MaxRestarts \in Nat
  /\ Located \subseteq Globals \cup ProgVars
  /\ Retained \subseteq Globals \cup ProgVars
  /\ InputCells \cap OutputCells = {} /\ (InputCells \cup OutputCells) \cap MarkerCells = {}
  /\ \A v \in Located :
       At[v] \subseteq InputCells \/ At[v] \subseteq OutputCells \/ At[v] \subseteq MarkerCells
  /\ \A v, w \in Located : v # w => At[v] \cap At[w] = {}
  /\ Addresses \subseteq SUBSET Cells
  /\ \A f \in UNION {[a -> Contents] : a \in Addresses} : Mistyped # f

VARIABLES
  image,         \* IoInterface: inputs, outputs and memory
  globals,       \* VariableStorage.globals
  instances,     \* the instances of the program, the current one last
  var_writes,    \* pending_var_writes
  lvalue_writes, \* pending_lvalue_writes
  io_writes, forced_io, forced_vars,
  progress,      \* where the cycle is
  driven,        \* history: the outputs the drivers were given in this cycle, if any
  touched,       \* history: cells and variables written for this cycle, or forced
                 \* or released during it
  wanted,        \* history: the forces of clients that they have not released
  requests       \* counter for the bound

queues  == <<var_writes, lvalue_writes, io_writes>>
forces  == <<forced_io, forced_vars>>
memory  == <<image, globals, instances>>
imgVars == <<memory, queues, forces, progress, driven, touched, wanted, requests>>

\* An unlocated variable is a cell of its own.
Shape(v) == IF v \in Located THEN At[v] ELSE {v}
Current  == Len(instances)
Targets  == Globals \cup {<<k, v>> : k \in 1..Current, v \in ProgVars}
NameOf(t) == IF t \in Globals THEN t ELSE t[2]
Initial(V) == [v \in V |-> [c \in Shape(v) |-> Zero]]

ImageTypeOK ==
  /\ image \in [Cells -> Contents] /\ driven \in [OutputCells -> Contents] \cup {<<>>}
  /\ \A v \in Globals : globals[v] \in [Shape(v) -> Contents]
  /\ \A k \in 1..Current, v \in ProgVars : instances[k][v] \in [Shape(v) -> Contents]
  /\ Current \in 1..(MaxRestarts + 1) /\ requests \in 0..MaxRequests
  /\ progress \in {"start", "lvalues", "inputs", "forces", "programs", "outputs", "done", "faulted"}

\* The runtime as the harness builds it; trust-runtime run restarts it once
\* before the first cycle.
ImageInit ==
  /\ image = [c \in Cells |-> Zero] /\ driven = <<>>
  /\ globals = Initial(Globals) /\ instances = <<Initial(ProgVars)>>
  /\ var_writes = <<>> /\ lvalue_writes = <<>> /\ io_writes = <<>>
  /\ forced_io = <<>> /\ forced_vars = <<>>
  /\ progress = "start" /\ touched = {} /\ wanted = [io |-> <<>>, vars |-> <<>>]
  /\ requests = 0

(***************************************************************************)
(* Entries of the queues and of the forces: [at |-> ..., value |-> ...].   *)
(***************************************************************************)
\* An entry of the same target is replaced where it stands.
Entered(list, e) ==
  IF \E i \in DOMAIN list : list[i].at = e.at
  THEN [i \in DOMAIN list |-> IF list[i].at = e.at THEN e ELSE list[i]]
  ELSE Append(list, e)

\* The others stay in their order.
Released(list, at) ==
  LET kept == {i \in DOMAIN list : list[i].at # at}
  IN  [k \in 1..Cardinality(kept) |->
         list[CHOOSE i \in kept : Cardinality({j \in kept : j <= i}) = k]]

\* IoInterface::write of one entry after the other; the first that does not fit
\* ends it.
Fitting(list) ==
  LET misfits == {i \in DOMAIN list : list[i].value = Mistyped}
  IN  IF misfits = {} THEN list
      ELSE SubSeq(list, 1, (CHOOSE i \in misfits : \A j \in misfits : i <= j) - 1)

\* Of the entries that write a cell the last one counts.
Written(img, list) ==
  LET fit == Fitting(list) IN
  [c \in Cells |-> LET entries == {i \in DOMAIN fit : c \in fit[i].at}
                  IN  IF entries = {} THEN img[c] ELSE fit[Max(entries)].value[c]]

\* What a list makes of the value of a variable.
Assigned(list, t, value) ==
  LET entries == {i \in DOMAIN list : list[i].at = t}
  IN  IF entries = {} THEN value ELSE list[Max(entries)].value

SetGlobals(list) == [v \in Globals |-> Assigned(list, v, globals[v])]

\* set_instance_var: also into an instance that has been replaced.
SetInstances(list) ==
  [k \in 1..Current |-> [v \in ProgVars |-> Assigned(list, <<k, v>>, instances[k][v])]]

(***************************************************************************)
(* Requests, at any moment of a cycle: io.write, io.force, io.unforce,     *)
(* set, hmi.write, var.force, var.unforce, and setExpression of an editor. *)
(* A variable of a program is named with the instance seen in a snapshot.  *)
(***************************************************************************)
Requested(what) ==
  /\ requests < MaxRequests /\ requests' = requests + 1 /\ touched' = touched \cup what
  /\ UNCHANGED <<memory, progress, driven>>
\* The clients' forces.
Wants(kind, f) == wanted' = [wanted EXCEPT ![kind] = f]
With(f, e) == [x \in DOMAIN f \cup {e.at} |-> IF x = e.at THEN e.value ELSE f[x]]

IoEntries  == UNION {[at : {a}, value : [a -> Contents] \cup {Mistyped}] : a \in Addresses}
VarEntries == UNION {[at : {t}, value : [Shape(NameOf(t)) -> Contents]] :
                       t \in Globals \cup {<<Current, v>> : v \in ProgVars}}

enqueue_io_write == \E e \in IoEntries :
  /\ Requested(e.at) /\ io_writes' = Append(io_writes, e)
  /\ UNCHANGED <<var_writes, lvalue_writes, forces, wanted>>

force_io == \E e \in IoEntries :
  /\ Requested(e.at) /\ forced_io' = Entered(forced_io, e)
  /\ Wants("io", With(wanted.io, e))
  /\ UNCHANGED <<queues, forced_vars>>

release_io == \E a \in Addresses :
  /\ Requested(a) /\ forced_io' = Released(forced_io, a)
  /\ Wants("io", Restrict(wanted.io, DOMAIN wanted.io \ {a}))
  /\ UNCHANGED <<queues, forced_vars>>

enqueue_var_write == \E e \in VarEntries :
  /\ Requested({e.at}) /\ var_writes' = Entered(var_writes, e)
  /\ UNCHANGED <<lvalue_writes, io_writes, forces, wanted>>

enqueue_lvalue_write == \E e \in VarEntries :
  /\ Requested({e.at}) /\ lvalue_writes' = Append(lvalue_writes, e)
  /\ UNCHANGED <<var_writes, io_writes, forces, wanted>>

set_forced_var == \E e \in VarEntries :
  /\ Requested({e.at}) /\ forced_vars' = Entered(forced_vars, e)
  /\ Wants("vars", With(wanted.vars, e))
  /\ UNCHANGED <<queues, forced_io>>

clear_forced_var == \E t \in Targets :
  /\ Requested({t}) /\ forced_vars' = Released(forced_vars, t)
  /\ Wants("vars", Restrict(wanted.vars, DOMAIN wanted.vars \ {t}))
  /\ UNCHANGED <<queues, forced_io>>

Request ==
  \/ enqueue_io_write \/ force_io \/ release_io
  \/ enqueue_var_write \/ enqueue_lvalue_write \/ set_forced_var \/ clear_forced_var

(***************************************************************************)
(* A cycle.                                                                *)
(***************************************************************************)
Goes(from, to) == progress \in from /\ progress' = to /\ UNCHANGED <<wanted, requests>>
Queued ==
  {e.at : e \in Range(var_writes) \cup Range(lvalue_writes)}
    \cup UNION {e.at : e \in Range(io_writes)}

drain_var_writes ==
  /\ Goes({"start", "done"}, "lvalues") /\ touched' = Queued
  /\ globals' = SetGlobals(var_writes) /\ instances' = SetInstances(var_writes)
  /\ var_writes' = <<>> /\ driven' = <<>>
  /\ UNCHANGED <<image, lvalue_writes, io_writes, forces>>

drain_lvalue_writes ==
  /\ Goes({"lvalues"}, "inputs")
  /\ globals' = SetGlobals(lvalue_writes) /\ instances' = SetInstances(lvalue_writes)
  /\ lvalue_writes' = <<>>
  /\ UNCHANGED <<image, var_writes, io_writes, forces, driven, touched>>

\* read_cycle_inputs: the drivers, then what is queued.
read_drivers ==
  /\ Goes({"inputs"}, IF Fitting(io_writes) = io_writes THEN "forces" ELSE "faulted")
  /\ \E field \in [InputCells -> Contents] : image' = Written(field @@ image, io_writes)
  /\ io_writes' = <<>>
  /\ UNCHANGED <<globals, instances, var_writes, lvalue_writes, forces, driven, touched>>

driver_fails ==
  /\ Goes({"inputs"}, "faulted")
  /\ UNCHANGED <<memory, queues, forces, driven, touched>>

\* The instance to which register_program_instances has bound a variable.
BoundInstance == 1

\* apply_forced_values, then IoInterface::read_inputs: the bound variables take
\* what the image holds, also those that are forced.
Latched(v, x, img) ==
  IF v \in Located /\ At[v] \subseteq InputCells \cup MarkerCells
  THEN [c \in At[v] |-> img[c]] ELSE x

latch_inputs ==
  /\ progress = "forces" /\ image' = Written(image, forced_io)
  /\ IF Fitting(forced_io) # forced_io
     THEN Goes({"forces"}, "faulted") /\ UNCHANGED <<globals, instances>>
     ELSE /\ Goes({"forces"}, "programs")
          /\ globals' = [v \in Globals |-> Latched(v, SetGlobals(forced_vars)[v], image')]
          /\ instances' = [SetInstances(forced_vars) EXCEPT ![BoundInstance] =
                             [v \in ProgVars |-> Latched(v, @[v], image')]]
  /\ UNCHANGED <<queues, forces, driven, touched>>

\* The tasks and programs, which are data.  One may fail after an assignment.
execute_programs ==
  /\ Goes({"programs"}, "outputs") \/ Goes({"programs"}, "faulted")
  /\ \/ /\ \E v \in Globals : \E x \in [Shape(v) -> Contents] : globals' = [globals EXCEPT ![v] = x]
        /\ UNCHANGED instances
     \/ /\ \E v \in ProgVars : \E x \in [Shape(v) -> Contents] :
             instances' = [instances EXCEPT ![Current][v] = x]
        /\ UNCHANGED globals
  /\ UNCHANGED <<image, queues, forces, driven, touched>>

\* IoInterface::write_outputs: what a binding refers to.
Referred(v) == IF v \in Globals THEN globals[v] ELSE instances[BoundInstance][v]

Committed ==
  [c \in Cells |->
     LET writers == {v \in Located : c \in At[v] \ InputCells}
     IN  IF writers = {} THEN image[c] ELSE Referred(CHOOSE v \in writers : TRUE)[c]]

\* Variant: the bindings are written after the forces.
write_outputs_after_forces ==
  /\ Goes({"outputs"}, "done") /\ image' = Committed
  /\ globals' = SetGlobals(forced_vars) /\ instances' = SetInstances(forced_vars)
  /\ driven' = [c \in OutputCells |-> image'[c]]
  /\ UNCHANGED <<queues, forces, touched>>

\* Bindings, forces, drivers.
write_cycle_outputs ==
  /\ progress = "outputs" /\ image' = Written(Committed, forced_io)
  /\ IF Fitting(forced_io) # forced_io
     THEN Goes({"outputs"}, "faulted") /\ UNCHANGED <<globals, instances, driven>>
     ELSE /\ globals' = SetGlobals(forced_vars) /\ instances' = SetInstances(forced_vars)
          /\ \/ Goes({"outputs"}, "done") /\ driven' = [c \in OutputCells |-> image'[c]]
             \/ Goes({"outputs"}, "faulted") /\ UNCHANGED driven  \* a driver fails
  /\ UNCHANGED <<queues, forces, touched>>

\* Runtime::restart: the image, the queues and the forces stay.
Restarted(warm, now) ==
  [v \in DOMAIN now |-> IF warm /\ v \in Retained THEN now[v] ELSE Initial(DOMAIN now)[v]]

restart == \E warm \in BOOLEAN :
  /\ Current <= MaxRestarts /\ Goes({"start", "done", "faulted"}, "start")
  /\ globals' = Restarted(warm, globals)
  /\ instances' = Append(instances, Restarted(warm, instances[Current]))
  /\ driven' = <<>> /\ touched' = {}
  /\ UNCHANGED <<image, queues, forces>>

Cycle ==
  \/ drain_var_writes \/ drain_lvalue_writes \/ read_drivers \/ driver_fails
  \/ latch_inputs \/ execute_programs \/ write_cycle_outputs \/ restart

ImageNext == Request \/ Cycle

ImageSpec == ImageInit /\ [][ImageNext]_imgVars

-----------------------------------------------------------------------------
(***************************************************************************)
(* Properties.                                                             *)
(***************************************************************************)
Meets(a, S)  == a \cap (touched \cup UNION S) # {}
ForcedIo     == DOMAIN wanted.io
ForcedVars   == DOMAIN wanted.vars
Live(v)      == v \in Globals \/ Current = BoundInstance
ValueOf(v)   == IF v \in Globals THEN globals[v] ELSE instances[Current][v]
TargetOf(v)  == IF v \in Globals THEN v ELSE <<Current, v>>

\* An address that has been forced since before the cycle, and no other that
\* overlaps it: apply_forced_values puts its value between the drivers and the
\* programs on both sides of them, whatever drivers, programs and bindings do.
ForcesHold ==
  \A a \in ForcedIo :
    ~Meets(a, ForcedIo \ {a}) =>
      /\ progress = "programs" => \A v \in Located, c \in a :
           Live(v) /\ c \in At[v] \ OutputCells => ValueOf(v)[c] = wanted.io[a][c]
      /\ progress = "done" => \A c \in a \cap OutputCells : driven[c] = wanted.io[a][c]

\* What nobody forces is driven as the programs have left it: after a complete
\* cycle the drivers have the values of the variables V.
Drives(V) ==
  progress = "done" => \A v \in V :
    ~Meets(At[v], ForcedIo) /\ TargetOf(v) \notin touched \cup ForcedVars =>
      \A c \in At[v] \cap OutputCells : driven[c] = ValueOf(v)[c]

\* A release (release_io) gives an output back to its program; a force of one
\* address leaves its neighbours alone.  A binding that a restart has cut off is
\* excepted.
ReleasedFollowPrograms == Drives({v \in Located : Live(v)})

\* Forces and nothing else come between the programs and the drivers
\* (Runtime::write_cycle_outputs, read_cycle_inputs): both of the above.
ForcedOrDriven == ForcesHold /\ ReleasedFollowPrograms

-----------------------------------------------------------------------------
(***************************************************************************)
(* Statements of the documentation that the code does not keep.            *)
(***************************************************************************)
\* 10-runtime.md, 6.5: at the end of a cycle the bound variables go to the process
\* image (Runtime::write_cycle_outputs), also after a restart.
OutputsFollowPrograms == Drives(Located)

\* PLC_OPERATOR_GUIDE.md: force values "to change outputs".  A variable forced by
\* set_forced_var is what its output shows.  apply_forced_values comes after the
\* bindings.
ForcedVariableDrives ==
  progress = "done" => \A v \in Located :
    TargetOf(v) \in ForcedVars \ touched /\ ~Meets(At[v], ForcedIo) =>
      \A c \in At[v] \cap OutputCells : driven[c] = wanted.vars[TargetOf(v)][c]
=============================================================================
