----------------------------- MODULE MCClients -----------------------------
(***************************************************************************)
(* What people change from outside, for TLC.  Remote clients are paired    *)
(* with a controller, change its settings and see its values, deploy to it *)
(* or edit its sources in a browser; an editor works on sources with the   *)
(* language server and its background task.  These share neither state nor *)
(* threads: a behaviour exercises one of them.                             *)
(***************************************************************************)
EXTENDS Pairing, ControlServer, Deployment, WebIde, LanguageServer, TLC

CONSTANTS k1, k2, t1, R1, R2, cli, web, c1, c2, main, old, new, big, torn, u1, u2, x, y

VARIABLE service

TwoClients == {c1, c2}
ClientSymmetry == Permutations(TwoClients)

\* Settings an engineer sends: policies with or without a token, some invalid.
Setting(fields, value, auth, session, invalid) ==
  [sets |-> fields, value |-> value, auth |-> auth, web_token |-> session, invalid |-> invalid]

SomeSettings ==
  {Setting({"watchdog", "fault"}, 1, "keep", FALSE, FALSE),
   Setting({"fault", "retain"}, 2, NoToken, FALSE, FALSE),
   Setting({"retain"}, 2, t1, TRUE, FALSE),
   Setting({"retain"}, 1, "keep", FALSE, TRUE)}

ideVars == vars

\* The services that are not exercised stay in one initial state.
ClientsInit ==
  /\ service \in {"pairing", "control", "deploy", "web_ide", "language_server"}
  /\ PairingInit /\ ControlInit /\ DepInit /\ Init /\ LspInit
  /\ service # "control" => auth_token = NoToken /\ process.value = "in"
  /\ service # "web_ide" => disk = [p \in Paths |-> old]
  /\ service # "language_server" => onDisk = [u \in Uris |-> x]

ClientsNext ==
  /\ UNCHANGED service
  /\ \/ service = "pairing" /\ PairingNext /\ UNCHANGED <<ctlVars, depVars, ideVars, lspVars>>
     \/ service = "control" /\ ControlNext /\ UNCHANGED <<pairVars, depVars, ideVars, lspVars>>
     \/ service = "deploy" /\ DepNext /\ UNCHANGED <<pairVars, ctlVars, ideVars, lspVars>>
     \/ service = "web_ide" /\ Next /\ UNCHANGED <<pairVars, ctlVars, depVars, lspVars>>
     \/ service = "language_server" /\ LspNext
          /\ UNCHANGED <<pairVars, ctlVars, depVars, ideVars>>

ClientsSpec ==
  ClientsInit /\ [][ClientsNext]_<<pairVars, ctlVars, depVars, ideVars, lspVars, service>>
=============================================================================
