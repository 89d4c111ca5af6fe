-------------------------------- MODULE Mesh --------------------------------
(***************************************************************************)
(* The mesh: globals of one runtime published to another,                  *)
(* crates/trust-runtime/src/mesh.rs and crates/trust-runtime/src/runtime/  *)
(* mesh.rs.                                                                *)
(*                                                                         *)
(* The publisher sends a snapshot of its globals every second to every     *)
(* address of every peer, each time over a new connection, and ignores     *)
(* errors.  The subscriber has a thread per connection, so messages are    *)
(* lost, duplicated and reordered.  A thread asks its resource for the     *)
(* present values, whose types tell it how to read the message, and then   *)
(* sends the updates as one command.  A reload may come in between.        *)
(***************************************************************************)
EXTENDS Naturals, FiniteSets

CONSTANTS
  Names,        \* globals that are published, and subscribed under the same names
  Slots,        \* bound: connections at one time
  Fallible,     \* those that may have a value the message cannot carry or the
                \* subscriber's type cannot take
  MaxVersion,   \* bound: changes of the published globals
  MaxReloads    \* bound: reloads of the subscriber

ASSUME MeshAssumption ==
  Fallible \subseteq Names /\ MaxVersion \in Nat /\ MaxReloads \in Nat

VARIABLES
  version,   \* the published globals, which the program writes together
  unfit,     \* those whose present value does not get across
  conn,      \* per connection: the thread that handles it
  declared,  \* the types of the subscriber's globals
  copy,      \* the subscriber's globals: the value and its type
  reloads,   \* reloads so far
  crossed,   \* whether an update was read with types of before the last reload (history)
  skipped    \* the globals the last update had no value for (history)

meshVars == <<version, unfit, conn, declared, copy, reloads, crossed, skipped>>

Types == {"int", "bool"}
Free  == [stage |-> "free"]
Conn  ==
  {Free} \cup [stage : {"sent"}, version : 0..MaxVersion, unfit : SUBSET Names] \cup
  [stage : {"mapped"}, version : 0..MaxVersion, names : SUBSET Names, epoch : 0..MaxReloads]

MeshTypeOK ==
  /\ version \in 0..MaxVersion /\ unfit \subseteq Names /\ declared \in [Names -> Types]
  /\ \A s \in Slots : conn[s] \in Conn
  /\ copy \in [Names -> [type : Types, version : 0..MaxVersion]]
  /\ reloads \in 0..MaxReloads /\ crossed \in BOOLEAN /\ skipped \subseteq Names

Fresh(types) == [n \in Names |-> [type |-> types[n], version |-> 0]]

MeshInit ==
  /\ version = 0 /\ unfit = {} /\ conn = [s \in Slots |-> Free]
  /\ declared = [n \in Names |-> "int"] /\ copy = Fresh(declared)
  /\ reloads = 0 /\ crossed = FALSE /\ skipped = {}

\* The program writes its globals.  JSON has no number for a NaN or an infinity,
\* and an unsigned global takes no negative number.
Change ==
  /\ version < MaxVersion /\ version' = version + 1
  /\ unfit' \in SUBSET Fallible
  /\ UNCHANGED <<conn, declared, copy, reloads, crossed, skipped>>

\* One round of publish_loop: the same snapshot to some addresses; the others
\* refuse the connection.  (A snapshot that comes too late is an empty message,
\* which changes nothing.)  Whether a value is left out here, by value_to_json, or
\* by the subscriber's json_to_value makes no difference.
Publish(targets) ==
  /\ \A s \in targets : conn[s] = Free
  /\ conn' = [s \in Slots |-> IF s \in targets
                                THEN [stage |-> "sent", version |-> version, unfit |-> unfit]
                              ELSE conn[s]]
  /\ UNCHANGED <<version, unfit, declared, copy, reloads, crossed, skipped>>

\* The connection breaks, the line does not parse, the token is another one, or
\* the resource does not answer within MESH_SNAPSHOT_TIMEOUT.
Lose(s) ==
  /\ conn[s].stage = "sent" /\ conn' = [conn EXCEPT ![s] = Free]
  /\ UNCHANGED <<version, unfit, declared, copy, reloads, crossed, skipped>>

\* map_subscribe: the globals the message has a value for that json_to_value can
\* read into them; the others are skipped.
Fitting(s) == {n \in Names : copy[n].type = "int" /\ n \notin conn[s].unfit}

MapSubscribe(s) ==
  LET names == Fitting(s) IN
  /\ conn[s].stage = "sent"
  /\ conn' = [conn EXCEPT ![s] =
                IF names = {} THEN Free
                ELSE [stage |-> "mapped", version |-> conn[s].version, names |-> names,
                      epoch |-> reloads]]
  /\ UNCHANGED <<version, unfit, declared, copy, reloads, crossed, skipped>>

\* Variant: an update that would replace what an earlier one brought is dropped.
ApplyFirst(s) ==
  /\ conn[s].stage = "mapped"
  /\ IF \A n \in conn[s].names : copy[n].version = 0
     THEN /\ copy' = [n \in Names |->
                       IF n \in conn[s].names THEN [type |-> "int", version |-> conn[s].version]
                       ELSE copy[n]]
          /\ crossed' = (crossed \/ conn[s].epoch # reloads)
          /\ skipped' = Names \ conn[s].names
     ELSE UNCHANGED <<copy, crossed, skipped>>
  /\ conn' = [conn EXCEPT ![s] = Free]
  /\ UNCHANGED <<version, unfit, declared, reloads>>

\* Variant: the updates of a message are applied one by one.
ApplySingly(s) ==
  /\ conn[s].stage = "mapped"
  /\ \E n \in conn[s].names :
       /\ copy' = [copy EXCEPT ![n] = [type |-> "int", version |-> conn[s].version]]
       /\ conn' = [conn EXCEPT ![s] =
                     IF conn[s].names = {n} THEN Free
                     ELSE [conn[s] EXCEPT !.names = @ \ {n}]]
  /\ crossed' = (crossed \/ conn[s].epoch # reloads)
  /\ UNCHANGED <<version, unfit, declared, reloads, skipped>>

\* The resource takes the command: apply_mesh_updates, all names at once.  The
\* type comes with the value.
Apply(s) ==
  /\ conn[s].stage = "mapped"
  /\ copy' = [n \in Names |->
                IF n \in conn[s].names THEN [type |-> "int", version |-> conn[s].version]
                ELSE copy[n]]
  /\ crossed' = (crossed \/ conn[s].epoch # reloads) /\ skipped' = Names \ conn[s].names
  /\ conn' = [conn EXCEPT ![s] = Free]
  /\ UNCHANGED <<version, unfit, declared, reloads>>

\* The subscriber gets another program, in which a global may have another type.
Reload(types) ==
  /\ reloads < MaxReloads /\ reloads' = reloads + 1
  /\ declared' = types /\ copy' = Fresh(types) /\ crossed' = FALSE /\ skipped' = {}
  /\ UNCHANGED <<version, unfit, conn>>

MeshNext ==
  \/ Change
  \/ \E targets \in SUBSET Slots : Publish(targets)
  \/ \E s \in Slots : Lose(s) \/ MapSubscribe(s) \/ Apply(s)
  \/ \E types \in [Names -> Types] : Reload(types)

\* The publisher keeps publishing, some attempts reach the peer, and the
\* resource answers and takes its commands.
MeshFairness ==
  /\ WF_meshVars(\E targets \in SUBSET Slots : targets # {} /\ Publish(targets))
  /\ \A s \in Slots : SF_meshVars(MapSubscribe(s)) /\ WF_meshVars(Apply(s))

MeshSpec == MeshInit /\ [][MeshNext]_meshVars
MeshFairSpec == MeshSpec /\ MeshFairness

-----------------------------------------------------------------------------
(***************************************************************************)
(* Properties                                                              *)
(***************************************************************************)
\* Globals that the publisher writes together are seen together, from one
\* snapshot, and keep the types they were declared with, however messages are
\* lost, doubled and overtaken.  Excepted are the globals that the last update had
\* no value for, which keep an older one, and updates that were read with the
\* types of before a reload and applied after it: without either exception TLC
\* finds it violated, as README.md says.
MeshConsistent ==
  ~crossed =>
    /\ \A n \in Names : copy[n].type = declared[n]
    /\ \A m, n \in Names \ skipped :
         declared[m] = "int" /\ declared[n] = "int" => copy[m].version = copy[n].version

\* When the published globals have come to rest, the subscriber gets their values
\* for good, those that get across: an older message that was overtaken is made
\* good by a later one.
MeshConverges ==
  <>[](\A n \in Names \ unfit : declared[n] = "int" => copy[n].version = version)
=============================================================================
