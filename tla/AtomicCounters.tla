--------------------------- MODULE AtomicCounters ---------------------------
(***************************************************************************)
(* What shared globals promise the resources of a configuration, with no   *)
(* word about copies or locks: a cycle takes effect in one step, on the    *)
(* values every earlier cycle left, however many cycles are under way at   *)
(* the time.  A cycle that fails takes effect as far as it got.            *)
(***************************************************************************)
EXTENDS Integers

CONSTANTS Resources, Shared, Modulus

VARIABLES
  value,  \* the counters
  client  \* per resource: "idle", "busy" with a cycle, or "failed"

Wrapped(x) == (x + 1) % Modulus

Counted(done) == [v \in Shared |-> IF v \in done THEN Wrapped(value[v]) ELSE value[v]]

Becomes(r, from, to) == client[r] = from /\ client' = [client EXCEPT ![r] = to]

Init ==
  /\ value \in [Shared -> 0..(Modulus - 1)]
  /\ client = [r \in Resources |-> "idle"]

Begin(r) == Becomes(r, "idle", "busy") /\ UNCHANGED value

Complete(r) == Becomes(r, "busy", "idle") /\ value' = Counted(Shared)

Abort(r) ==
  /\ Becomes(r, "busy", "failed")
  /\ \E done \in SUBSET Shared : value' = Counted(done)

\* A resource can also fail before its cycle began.
Refuse(r) == Becomes(r, "idle", "failed") /\ UNCHANGED value

Recover(r) == Becomes(r, "failed", "idle") /\ UNCHANGED value

Next ==
  \E r \in Resources : Begin(r) \/ Complete(r) \/ Abort(r) \/ Refuse(r) \/ Recover(r)

Spec == Init /\ [][Next]_<<value, client>>
=============================================================================
