------------------------------ MODULE MCPlant ------------------------------
(***************************************************************************)
(* What connects a resource to other machines, to the record and to a      *)
(* simulated plant, for TLC: a mesh subscriber, two network drivers, the   *)
(* historian, and the couplings of a simulation.  A behaviour exercises    *)
(* one of them.                                                            *)
(***************************************************************************)
EXTENDS Mesh, Historian, IoDrivers, Simulation

VARIABLE part

\* Two couplings with different delays; the script sets the input of the first
\* and causes a fault.
TwoDelays  == <<2, 0>>
Thresholds == <<1, 1>>
Script ==
  << [at |-> 1, kind |-> "set", target |-> 1, value |-> 1],
     [at |-> 2, kind |-> "fault", target |-> 0, value |-> 0],
     [at |-> 3, kind |-> "set", target |-> 1, value |-> 0] >>

\* The parts that are not exercised stay in one initial state.
PlantInit ==
  /\ part \in {"mesh", "historian", "io", "simulation"}
  /\ MeshInit /\ HistorianInit /\ IoInit /\ SimInit
  /\ part # "io" => broker
  /\ part # "simulation" => output = [c \in Couplings |-> 0]

PlantNext ==
  \/ part = "mesh" /\ MeshNext /\ UNCHANGED <<histVars, ioVars, simVars, part>>
  \/ part = "historian" /\ HistorianNext /\ UNCHANGED <<meshVars, ioVars, simVars, part>>
  \/ part = "io" /\ IoNext /\ UNCHANGED <<meshVars, histVars, simVars, part>>
  \/ part = "simulation" /\ SimNext /\ UNCHANGED <<meshVars, histVars, ioVars, part>>

Plant ==
  /\ PlantInit /\ [][PlantNext]_<<meshVars, histVars, ioVars, simVars, part>>
  /\ part = "mesh" => MeshFairness
  /\ part = "io" => IoFairness

-----------------------------------------------------------------------------
\* MeshConverges of Mesh and DriversRecover of IoDrivers: handle_peer_stream and
\* publish_loop bring a subscriber the values of globals that have come to rest,
\* and the Modbus and the MQTT driver are healthy for good once their device or
\* broker is up for good.
PlantConverges ==
  /\ part = "mesh" => MeshConverges
  /\ part = "io" => DriversRecover
=============================================================================
