------------------------- MODULE MCResourceRunner -------------------------
(* Instances of ResourceRunner for TLC. *)
EXTENDS ResourceRunner

CONSTANT gr   \* a RETAIN global

P(f, w, s, i) == [fault |-> f, watchdog |-> w, safe |-> s, interval |-> i]

\* Control: every fault policy and watchdog action, no retain store.
ControlPolicies == {P("Halt", "Restart", TRUE, NoInterval), P("SafeHalt", "Off", TRUE, NoInterval),
                    P("Restart", "Halt", TRUE, NoInterval), P("Restart", "SafeHalt", TRUE, NoInterval)}
ControlUpdates  == {P("SafeHalt", "SafeHalt", FALSE, NoInterval)}

\* Retain: saves every cycle, every second tick, never.
RetainPolicies == {P("Restart", "Off", FALSE, i) : i \in {0, 2, NoInterval}}
RetainUpdates  == {P("Restart", "Off", FALSE, 1)}

\* The policy of a resource that is not configured.
DefaultPolicy == {P("Halt", "Off", TRUE, 0)}
=============================================================================
