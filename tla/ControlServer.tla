--------------------------- MODULE ControlServer ---------------------------
(***************************************************************************)
(* The control server: crates/trust-runtime/src/control.rs and control/,   *)
(* with the live state of the HMI, crates/trust-runtime/src/hmi.rs.        *)
(*                                                                         *)
(* Every connection has a thread of its own.  The threads share the        *)
(* settings, the token, the metadata of the program and the alarms of the  *)
(* HMI, each behind its own lock, and reach the resource through one queue *)
(* of commands.  What a request was checked against may have changed when  *)
(* its handler runs.                                                       *)
(***************************************************************************)
EXTENDS Naturals, Sequences, FiniteSets

CONSTANTS
  Conns,         \* connections, one thread each
  Nobody,        \* no connection
  Payloads,      \* contents of config.set
  NoToken, AuthTokens,
  RequiresAuth,  \* control_requires_auth: a TCP endpoint
  Readings,      \* values of the one widget that has limits
  Outside,       \* the readings below min or above max
  HistoryLimit,  \* ALARM_HISTORY_LIMIT
  MaxRequests,   \* bound: requests
  MaxScans       \* bound: changes of the process

ASSUME ControlAssumption ==
  /\ Nobody \notin Conns /\ NoToken \notin AuthTokens
  /\ RequiresAuth \in BOOLEAN /\ Outside \subseteq Readings
  /\ "none" \notin Readings
  /\ Payloads \subseteq [sets : SUBSET {"watchdog", "fault", "retain"}, value : Nat,
                         auth : AuthTokens \cup {NoToken, "keep"},
                         web_token : BOOLEAN, invalid : BOOLEAN]
  /\ HistoryLimit \in Nat \ {0} /\ MaxRequests \in Nat /\ MaxScans \in Nat

\* The policies the resource takes while it runs, in the order they are sent.
Policies == <<"watchdog", "fault", "retain">>
Given    == {Policies[i] : i \in 1..Len(Policies)}

VARIABLES
  settings,    \* ControlState.settings: the policies and web.auth
  auth_token,  \* ControlState.auth_token
  settings_lock, metadata_lock,
  cpc, creq,   \* per connection: where its request is, and the request
  updates,     \* commands sent to the resource and not yet taken
  in_force,    \* the policies of the resource
  process,     \* the state of the program: the scan and the reading
  taken,       \* per connection: the snapshot it got
  alarm,       \* HmiLiveState.alarms of the widget
  events,      \* HmiLiveState.history
  shown,       \* the newest snapshot applied to the live state (history)
  requests     \* counter for the bound

confVars == <<settings, auth_token, settings_lock, updates, in_force>>
hmiVars  == <<metadata_lock, process, taken, alarm, events, shown>>
ctlVars  == <<confVars, hmiVars, cpc, creq, requests>>

RequestOf ==
  [type : {"config.set"}, auth : AuthTokens \cup {NoToken}, payload : Payloads] \cup
  [type : {"hmi.get", "hmi.alarm.ack"}, auth : AuthTokens \cup {NoToken}]
Snapshot   == [scan : 0..MaxScans, value : Readings]
NoSnapshot == [scan |-> 0, value |-> "none"]
Unknown    == [active |-> FALSE, acknowledged |-> FALSE, raised |-> 0]
NoRequest  == [type |-> "none"]

ControlTypeOK ==
  /\ settings \in [policies : [Given -> Nat], web_auth : {"local", "token"}]
  /\ auth_token \in AuthTokens \cup {NoToken}
  /\ settings_lock \in Conns \cup {Nobody} /\ metadata_lock \in Conns \cup {Nobody}
  /\ cpc \in [Conns -> {"idle", "checked", "set", "poll", "apply"} \cup Given]
  /\ \A c \in Conns : creq[c] \in RequestOf \cup {NoRequest}
  /\ updates \in Seq([policy : Given, value : Nat]) /\ in_force \in [Given -> Nat]
  /\ process \in Snapshot /\ taken \in [Conns -> Snapshot \cup {NoSnapshot}]
  /\ alarm \in [active : BOOLEAN, acknowledged : BOOLEAN, raised : 0..MaxScans]
  /\ Len(events) <= HistoryLimit
  /\ shown \in Snapshot \cup {NoSnapshot} /\ requests \in 0..MaxRequests

ControlInit ==
  /\ settings = [policies |-> [p \in Given |-> 0], web_auth |-> "local"]
  /\ in_force = settings.policies /\ updates = <<>>
  /\ auth_token \in (IF RequiresAuth THEN AuthTokens ELSE AuthTokens \cup {NoToken})
  /\ settings_lock = Nobody /\ metadata_lock = Nobody
  /\ cpc = [c \in Conns |-> "idle"] /\ creq = [c \in Conns |-> NoRequest]
  /\ process \in [scan : {0}, value : Readings]
  /\ taken = [c \in Conns |-> NoSnapshot]
  /\ alarm = Unknown /\ events = <<>> /\ shown = NoSnapshot /\ requests = 0

CGoto(c, here, there) == cpc[c] = here /\ cpc' = [cpc EXCEPT ![c] = there]

Answer(c) ==
  /\ cpc' = [cpc EXCEPT ![c] = "idle"]
  /\ creq' = [creq EXCEPT ![c] = NoRequest]

-----------------------------------------------------------------------------
(***************************************************************************)
(* handle_request_value: the role is resolved, then the handler runs.      *)
(* Paired tokens are left to Pairing: the token of a request is the        *)
(* configured one, another one, or none.                                   *)
(***************************************************************************)
Authorized(r) == auth_token = NoToken \/ r.auth = auth_token

Receive(c, r) ==
  /\ cpc[c] = "idle" /\ requests < MaxRequests
  /\ requests' = requests + 1
  /\ IF Authorized(r)
       THEN /\ cpc' = [cpc EXCEPT ![c] = "checked"]
            /\ creq' = [creq EXCEPT ![c] = r]
       ELSE UNCHANGED <<cpc, creq>>
  /\ UNCHANGED <<confVars, hmiVars>>

-----------------------------------------------------------------------------
(***************************************************************************)
(* handle_config_set.  The lock of the settings is held to the end.        *)
(***************************************************************************)
LockSettings(c) ==
  /\ creq[c].type = "config.set" /\ CGoto(c, "checked", "set")
  /\ settings_lock = Nobody /\ settings_lock' = c
  /\ UNCHANGED <<settings, auth_token, updates, in_force, hmiVars, creq, requests>>

\* A payload has the policies it sets, what becomes of the token, whether
\* web.auth is to be token, and whether some key or value is
\* not valid.
TokenAfter(p) == IF p.auth = "keep" THEN auth_token ELSE p.auth

Acceptable(p) ==
  /\ ~p.invalid
  /\ RequiresAuth => TokenAfter(p) # NoToken
  /\ p.web_token => TokenAfter(p) # NoToken

Refuse(c) ==
  /\ cpc[c] = "set" /\ ~Acceptable(creq[c].payload)
  /\ settings_lock' = Nobody /\ Answer(c)
  /\ UNCHANGED <<settings, auth_token, updates, in_force, hmiVars, requests>>

\* Variant: the lock is given back before the commands are sent.
StoreUnlocks(c) ==
  LET p == creq[c].payload IN
  /\ cpc[c] = "set" /\ Acceptable(p)
  /\ settings' = [policies |-> [k \in Given |-> IF k \in p.sets THEN p.value
                                                ELSE settings.policies[k]],
                  web_auth |-> IF p.web_token THEN "token" ELSE settings.web_auth]
  /\ auth_token' = TokenAfter(p)
  /\ cpc' = [cpc EXCEPT ![c] = Policies[1]]
  /\ settings_lock' = Nobody
  /\ UNCHANGED <<updates, in_force, hmiVars, creq, requests>>

\* Everything was parsed on a copy: now the copy and the token are
\* stored, with the debug switch and the mode, which nothing here depends on.
Store(c) ==
  LET p == creq[c].payload IN
  /\ cpc[c] = "set" /\ Acceptable(p)
  /\ settings' = [policies |-> [k \in Given |-> IF k \in p.sets THEN p.value
                                                ELSE settings.policies[k]],
                  web_auth |-> IF p.web_token THEN "token" ELSE settings.web_auth]
  /\ auth_token' = TokenAfter(p)
  /\ cpc' = [cpc EXCEPT ![c] = Policies[1]]
  /\ UNCHANGED <<settings_lock, updates, in_force, hmiVars, creq, requests>>

\* All three policies are sent, whichever of them the request named.
Send(c, i) ==
  /\ cpc[c] = Policies[i]
  /\ updates' = Append(updates, [policy |-> Policies[i],
                                 value |-> settings.policies[Policies[i]]])
  /\ IF i = Len(Policies)
       THEN settings_lock' = Nobody /\ Answer(c)
       ELSE /\ cpc' = [cpc EXCEPT ![c] = Policies[i + 1]]
            /\ UNCHANGED <<settings_lock, creq>>
  /\ UNCHANGED <<settings, auth_token, in_force, hmiVars, requests>>

\* The resource takes a command between two cycles (module ResourceRunner).
TakeUpdate ==
  /\ updates # <<>>
  /\ in_force' = [in_force EXCEPT ![Head(updates).policy] = Head(updates).value]
  /\ updates' = Tail(updates)
  /\ UNCHANGED <<settings, auth_token, settings_lock, hmiVars, cpc, creq, requests>>

\* Variant: the metadata are given back as soon as they were read.
PeekMetadata(c) ==
  /\ creq[c].type = "hmi.get" /\ CGoto(c, "checked", "poll")
  /\ metadata_lock = Nobody
  /\ UNCHANGED <<confVars, hmiVars, creq, requests>>

-----------------------------------------------------------------------------
(***************************************************************************)
(* hmi.values.get, hmi.trends.get and hmi.alarms.get: the metadata stay    *)
(* locked while the snapshot is asked for and applied.                     *)
(***************************************************************************)
LockMetadata(c) ==
  /\ creq[c].type = "hmi.get" /\ CGoto(c, "checked", "poll")
  /\ metadata_lock = Nobody /\ metadata_lock' = c
  /\ UNCHANGED <<confVars, process, taken, alarm, events, shown, creq, requests>>

\* load_runtime_snapshot: the resource answers, or, when it is held, the
\* debugger does; or there is no snapshot within 250 ms.
GetSnapshot(c) ==
  /\ CGoto(c, "poll", "apply")
  /\ taken' \in {[taken EXCEPT ![c] = process], [taken EXCEPT ![c] = NoSnapshot]}
  /\ UNCHANGED <<confVars, metadata_lock, process, alarm, events, shown, creq, requests>>

Logged(event) ==
  LET all == Append(events, event) IN
  IF Len(all) > HistoryLimit THEN Tail(all) ELSE all

\* update_live_state, update_alarm_state: a value of bad quality changes nothing.
UpdateLive(c) ==
  LET s == taken[c] IN
  /\ cpc[c] = "apply"
  /\ IF s = NoSnapshot
       THEN UNCHANGED <<alarm, events, shown>>
       ELSE /\ shown' = s
            /\ IF s.value \in Outside /\ ~alarm.active
                 THEN /\ alarm' = [active |-> TRUE, acknowledged |-> FALSE, raised |-> s.scan]
                      /\ events' = Logged("raised")
               ELSE IF s.value \notin Outside /\ alarm.active
                 THEN /\ alarm' = [alarm EXCEPT !.active = FALSE, !.acknowledged = FALSE]
                      /\ events' = Logged("cleared")
               ELSE UNCHANGED <<alarm, events>>
  /\ metadata_lock' = (IF metadata_lock = c THEN Nobody ELSE metadata_lock)
  /\ taken' = [taken EXCEPT ![c] = NoSnapshot]
  /\ Answer(c)
  /\ UNCHANGED <<confVars, process, requests>>

\* acknowledge_alarm: only the lock of the live state, not that of the metadata.
Acknowledge(c) ==
  /\ cpc[c] = "checked" /\ creq[c].type = "hmi.alarm.ack"
  /\ IF alarm.active /\ ~alarm.acknowledged
       THEN /\ alarm' = [alarm EXCEPT !.acknowledged = TRUE]
            /\ events' = Logged("acknowledged")
       ELSE UNCHANGED <<alarm, events>>
  /\ Answer(c)
  /\ UNCHANGED <<confVars, metadata_lock, process, taken, shown, requests>>

Scan(v) ==
  /\ process.scan < MaxScans
  /\ process' = [scan |-> process.scan + 1, value |-> v]
  /\ UNCHANGED <<confVars, metadata_lock, taken, alarm, events, shown, cpc, creq, requests>>

ControlNext ==
  \/ \E c \in Conns :
       \/ \E r \in RequestOf : Receive(c, r)
       \/ LockSettings(c) \/ Refuse(c) \/ Store(c)
       \/ \E i \in 1..Len(Policies) : Send(c, i)
       \/ LockMetadata(c) \/ GetSnapshot(c) \/ UpdateLive(c) \/ Acknowledge(c)
  \/ TakeUpdate
  \/ \E v \in Readings : Scan(v)

ControlSpec == ControlInit /\ [][ControlNext]_ctlVars

-----------------------------------------------------------------------------
(***************************************************************************)
(* Properties                                                              *)
(***************************************************************************)
\* Whatever connections set policies at the same time, once their requests are
\* through and the resource has taken its commands, the resource works with the
\* policies config.get shows: the order of the commands is the order in which
\* the settings were stored.
SettingsInForce ==
  settings_lock = Nobody /\ updates = <<>> => in_force = settings.policies

\* The alarm says what the newest snapshot anyone applied says: an older
\* snapshot of a slower poll never raises or clears it again, acknowledging is
\* for a raised alarm only, and the last event of the history tells its state.
AlarmTellsProcess ==
  /\ alarm.active <=> shown.value \in Outside
  /\ \A c \in Conns : taken[c] # NoSnapshot /\ shown # NoSnapshot => taken[c].scan >= shown.scan
  /\ events # <<>> =>
       CASE events[Len(events)] = "raised"       -> alarm.active /\ ~alarm.acknowledged
         [] events[Len(events)] = "acknowledged" -> alarm.active /\ alarm.acknowledged
         [] events[Len(events)] = "cleared"      -> ~alarm.active /\ ~alarm.acknowledged

\* Error message of handle_config_set: "token mode requires control.auth_token".
\* A request that clears the token of a local endpoint later is not checked
\* against web.auth: TLC finds this violated, README.md says how.
TokenModeHasToken == settings.web_auth = "token" => auth_token # NoToken
=============================================================================
