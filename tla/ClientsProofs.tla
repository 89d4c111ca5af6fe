---------------------------- MODULE ClientsProofs ----------------------------
(***************************************************************************)
(* Proofs about what people change from outside: the settings and the      *)
(* alarm of the control server, the tokens of paired browsers, and the     *)
(* bundles that are deployed.                                              *)
(***************************************************************************)
EXTENDS ControlServer, Pairing, Deployment, TLAPS

-----------------------------------------------------------------------------
(***************************************************************************)
(* Settings.  While config.set holds the lock of the settings the policies *)
(* it has still to send are behind; every other one is settled: the last   *)
(* command for it, or else the resource, has what the settings say.        *)
(***************************************************************************)
SetPhase == {"set"} \cup Given
Update   == [policy : Given, value : Nat]

Settled(p) ==
  \/ /\ in_force[p] = settings.policies[p]
     /\ \A i \in 1..Len(updates) : updates[i].policy # p
  \/ \E i \in 1..Len(updates) :
       /\ updates[i].policy = p /\ updates[i].value = settings.policies[p]
       /\ \A j \in 1..Len(updates) : j > i => updates[j].policy # p

ToSend(p) == \E c \in Conns, i, j \in 1..3 : cpc[c] = Policies[i] /\ i <= j /\ p = Policies[j]

SettingsShape ==
  /\ settings \in [policies : [Given -> Nat], web_auth : {"local", "token"}]
  /\ in_force \in [Given -> Nat] /\ updates \in Seq(Update)
  /\ cpc \in [Conns -> {"idle", "checked", "set", "poll", "apply"} \cup Given]
  /\ creq \in [Conns -> RequestOf \cup {NoRequest}]
  /\ \A c \in Conns : cpc[c] = "set" => creq[c].type = "config.set"

SetHolder == \A c \in Conns : cpc[c] \in SetPhase <=> settings_lock = c

SettingsInv == SettingsShape /\ SetHolder /\ \A p \in Given : Settled(p) \/ ToSend(p)

LEMMA GivenNames ==
  /\ Len(Policies) = 3
  /\ Policies[1] = "watchdog" /\ Policies[2] = "fault" /\ Policies[3] = "retain"
  /\ Given = {"watchdog", "fault", "retain"}
BY DEF Policies, Given

\* Only one connection is sending.
LEMMA OneSender ==
  ASSUME SetHolder, NEW c \in Conns, NEW d \in Conns,
         cpc[c] \in SetPhase, cpc[d] \in SetPhase
  PROVE  c = d
BY DEF SetHolder

\* A request with a payload has one of the payloads.
LEMMA PayloadType ==
  ASSUME NEW r \in RequestOf, r.type = "config.set"
  PROVE  r.payload.value \in Nat
<1>1. r.payload \in Payloads
  BY DEF RequestOf
<1> QED
  BY <1>1, ControlAssumption

\* A step that leaves the settings, the commands and the resource alone.
LEMMA SettledSame ==
  ASSUME UNCHANGED <<settings, in_force, updates>>, NEW p \in Given
  PROVE  Settled(p)' <=> Settled(p)
BY DEF Settled

LEMMA SettingsInitInv == ControlInit => SettingsInv
<1> SUFFICES ASSUME ControlInit PROVE SettingsInv
  OBVIOUS
<1>1. SettingsShape
  BY GivenNames DEF ControlInit, SettingsShape, Update
<1>2. SetHolder
  BY GivenNames, ControlAssumption DEF ControlInit, SetHolder, SetPhase
<1>3. \A p \in Given : Settled(p)
  BY DEF ControlInit, Settled
<1> QED
  BY <1>1, <1>2, <1>3 DEF SettingsInv

\* Requests that come in, and the steps of requests that set nothing.
LEMMA OtherRequestsInv ==
  ASSUME SettingsInv, NEW c \in Conns,
         \/ \E r \in RequestOf : Receive(c, r)
         \/ LockMetadata(c) \/ GetSnapshot(c) \/ UpdateLive(c) \/ Acknowledge(c)
  PROVE  SettingsInv'
<1> USE GivenNames
<1>1. /\ UNCHANGED <<settings, in_force, updates, settings_lock>>
      /\ cpc[c] \in {"idle", "checked", "poll", "apply"}
      /\ \/ UNCHANGED cpc
         \/ \E l \in {"idle", "checked", "poll", "apply"} : cpc' = [cpc EXCEPT ![c] = l]
  BY DEF Receive, LockMetadata, GetSnapshot, UpdateLive, Acknowledge, CGoto, Answer, confVars
<1>2. creq' = creq \/ \E r \in RequestOf \cup {NoRequest} : creq' = [creq EXCEPT ![c] = r]
  BY DEF Receive, LockMetadata, GetSnapshot, UpdateLive, Acknowledge, Answer
<1>3. SettingsShape'
  <2>1. cpc' \in [Conns -> {"idle", "checked", "set", "poll", "apply"} \cup Given]
    BY <1>1 DEF SettingsInv, SettingsShape
  <2>3. creq' \in [Conns -> RequestOf \cup {NoRequest}]
    BY <1>2 DEF SettingsInv, SettingsShape
  <2>2. ASSUME NEW d \in Conns, cpc'[d] = "set" PROVE creq'[d].type = "config.set"
    <3>1. d # c /\ cpc[d] = "set"
      BY <1>1, <2>2 DEF SettingsInv, SettingsShape
    <3>2. creq'[d] = creq[d]
      BY <1>2, <3>1 DEF SettingsInv, SettingsShape
    <3> QED
      BY <3>1, <3>2 DEF SettingsInv, SettingsShape
  <2> QED
    BY <1>1, <2>1, <2>2, <2>3 DEF SettingsInv, SettingsShape
<1>4. SetHolder'
  BY <1>1 DEF SettingsInv, SettingsShape, SetHolder, SetPhase
<1>5. ASSUME NEW p \in Given, ToSend(p) PROVE ToSend(p)'
  <2>1. PICK d \in Conns, i \in 1..3, j \in 1..3 : cpc[d] = Policies[i] /\ i <= j /\ p = Policies[j]
    BY <1>5 DEF ToSend
  <2>2. cpc[d] \in Given
    BY <2>1
  <2>3. cpc'[d] = cpc[d]
    BY <1>1, <2>2 DEF SettingsInv, SettingsShape
  <2> QED
    BY <2>1, <2>3 DEF ToSend
<1>6. \A p \in Given : Settled(p)' <=> Settled(p)
  BY <1>1, SettledSame
<1> QED
  BY <1>3, <1>4, <1>5, <1>6 DEF SettingsInv

LEMMA LockSettingsInv ==
  ASSUME SettingsInv, NEW c \in Conns, LockSettings(c) \/ Refuse(c)
  PROVE  SettingsInv'
<1> USE GivenNames
<1>1. CASE LockSettings(c)
  <2>1. /\ UNCHANGED <<settings, in_force, updates, creq>> /\ cpc[c] = "checked"
        /\ cpc' = [cpc EXCEPT ![c] = "set"] /\ settings_lock = Nobody /\ settings_lock' = c
        /\ creq[c].type = "config.set"
    BY <1>1 DEF LockSettings, CGoto
  <2>2. SettingsShape'
    BY <2>1 DEF SettingsInv, SettingsShape
  <2>3. SetHolder'
    BY <2>1, ControlAssumption DEF SettingsInv, SettingsShape, SetHolder, SetPhase
  <2>4. \A p \in Given : ToSend(p) => ToSend(p)'
    BY <2>1 DEF ToSend, SettingsInv, SettingsShape
  <2>5. \A p \in Given : Settled(p)' <=> Settled(p)
    BY <2>1, SettledSame
  <2> QED
    BY <2>2, <2>3, <2>4, <2>5 DEF SettingsInv
<1>2. CASE Refuse(c)
  <2>1. /\ UNCHANGED <<settings, in_force, updates>> /\ cpc[c] = "set"
        /\ cpc' = [cpc EXCEPT ![c] = "idle"] /\ settings_lock' = Nobody
        /\ creq' = [creq EXCEPT ![c] = NoRequest]
    BY <1>2 DEF Refuse, Answer
  <2>2. SettingsShape'
    BY <2>1 DEF SettingsInv, SettingsShape
  <2>3. SetHolder'
    BY <2>1, ControlAssumption DEF SettingsInv, SettingsShape, SetHolder, SetPhase
  <2>4. \A p \in Given : ToSend(p) => ToSend(p)'
    BY <2>1 DEF ToSend, SettingsInv, SettingsShape
  <2>5. \A p \in Given : Settled(p)' <=> Settled(p)
    BY <2>1, SettledSame
  <2> QED
    BY <2>2, <2>3, <2>4, <2>5 DEF SettingsInv
<1> QED
  BY <1>1, <1>2

LEMMA StoreInv ==
  ASSUME SettingsInv, NEW c \in Conns, Store(c)
  PROVE  SettingsInv'
<1> USE GivenNames
<1>1. /\ UNCHANGED <<settings_lock, in_force, updates, creq>> /\ cpc[c] = "set"
      /\ cpc' = [cpc EXCEPT ![c] = "watchdog"]
      /\ settings'.policies = [k \in Given |-> IF k \in creq[c].payload.sets
                                              THEN creq[c].payload.value
                                              ELSE settings.policies[k]]
      /\ settings'.web_auth \in {"token", settings.web_auth}
  BY DEF Store
<1>2. creq[c] \in RequestOf /\ creq[c].type = "config.set"
  BY <1>1 DEF SettingsInv, SettingsShape, NoRequest
<1>3. creq[c].payload.value \in Nat
  BY <1>2, PayloadType
<1>4. settings' \in [policies : [Given -> Nat], web_auth : {"local", "token"}]
  <2>1. settings' = [policies |-> settings'.policies, web_auth |-> settings'.web_auth]
    BY DEF Store
  <2>2. settings'.policies \in [Given -> Nat] /\ settings'.web_auth \in {"local", "token"}
    BY <1>1, <1>3 DEF SettingsInv, SettingsShape
  <2> QED
    BY <2>1, <2>2
<1>5. SettingsShape'
  BY <1>1, <1>4 DEF SettingsInv, SettingsShape
<1>6. SetHolder'
  BY <1>1 DEF SettingsInv, SettingsShape, SetHolder, SetPhase
<1>7. ASSUME NEW p \in Given PROVE ToSend(p)'
  <2>1. cpc'[c] = Policies[1]
    BY <1>1 DEF SettingsInv, SettingsShape
  <2>2. \E j \in 1..3 : p = Policies[j]
    BY DEF Given
  <2> QED
    BY <2>1, <2>2 DEF ToSend
<1> QED
  BY <1>5, <1>6, <1>7 DEF SettingsInv

\* The policy that is sent is settled; another one stays what it was.
LEMMA SendInv ==
  ASSUME SettingsInv, NEW c \in Conns, NEW i \in 1..3, Send(c, i)
  PROVE  SettingsInv'
<1> USE GivenNames
<1> DEFINE sent == [policy |-> Policies[i], value |-> settings.policies[Policies[i]]]
<1>1. /\ UNCHANGED <<settings, in_force>> /\ cpc[c] = Policies[i]
      /\ updates' = Append(updates, sent)
      /\ i # 3 => /\ cpc' = [cpc EXCEPT ![c] = Policies[i + 1]]
                  /\ UNCHANGED <<settings_lock, creq>>
      /\ i = 3 => /\ cpc' = [cpc EXCEPT ![c] = "idle"]
                  /\ settings_lock' = Nobody /\ creq' = [creq EXCEPT ![c] = NoRequest]
  BY DEF Send, Answer
<1>2. Policies[i] \in Given /\ (i # 3 => Policies[i + 1] \in Given)
  BY DEF Given
<1>3. sent \in Update /\ updates \in Seq(Update)
  BY <1>2 DEF SettingsInv, SettingsShape, Update
<1> HIDE DEF sent
<1>4. /\ updates' \in Seq(Update) /\ Len(updates') = Len(updates) + 1 /\ Len(updates) \in Nat
      /\ \A k \in 1..Len(updates) : updates'[k] = updates[k]
      /\ updates'[Len(updates) + 1] = sent
  BY <1>1, <1>3
<1>5. SettingsShape'
  <2>1. cpc' \in [Conns -> {"idle", "checked", "set", "poll", "apply"} \cup Given]
    BY <1>1, <1>2 DEF SettingsInv, SettingsShape
  <2>2. creq' \in [Conns -> RequestOf \cup {NoRequest}]
    BY <1>1 DEF SettingsInv, SettingsShape
  <2>3. ASSUME NEW d \in Conns, cpc'[d] = "set" PROVE creq'[d].type = "config.set"
    <3>1. d # c /\ cpc[d] = "set"
      BY <1>1, <1>2, <2>3 DEF SettingsInv, SettingsShape
    <3>2. creq'[d] = creq[d]
      BY <1>1, <3>1 DEF SettingsInv, SettingsShape
    <3> QED
      BY <3>1, <3>2 DEF SettingsInv, SettingsShape
  <2> QED
    BY <1>1, <1>4, <2>1, <2>2, <2>3 DEF SettingsInv, SettingsShape
<1>6. SetHolder'
  <2>1. settings_lock = c
    BY <1>1, <1>2 DEF SettingsInv, SetHolder, SetPhase
  <2>2. CASE i = 3
    <3>1. cpc' = [cpc EXCEPT ![c] = "idle"] /\ settings_lock' = Nobody
      BY <1>1, <2>2
    <3>2. \A d \in Conns : cpc'[d] \notin SetPhase
      BY <2>1, <3>1 DEF SettingsInv, SettingsShape, SetHolder, SetPhase
    <3> QED
      BY <3>1, <3>2, ControlAssumption DEF SetHolder
  <2>3. CASE i # 3
    BY <1>1, <1>2, <2>1, <2>3 DEF SettingsInv, SettingsShape, SetHolder, SetPhase
  <2> QED
    BY <2>2, <2>3
<1>7. Settled(Policies[i])'
  <2>1. sent.policy = Policies[i] /\ sent.value = settings.policies[Policies[i]]
    BY DEF sent
  <2>2. Len(updates) + 1 \in 1..Len(updates')
    BY <1>4
  <2>3. \A j \in 1..Len(updates') : ~(j > Len(updates) + 1)
    BY <1>4
  <2> QED
    BY <1>1, <1>4, <2>1, <2>2, <2>3 DEF Settled
<1>8. ASSUME NEW p \in Given, p # Policies[i], Settled(p) PROVE Settled(p)'
  <2>1. sent.policy # p
    BY <1>8 DEF sent
  <2>2. \A k \in 1..Len(updates') : k \in 1..Len(updates) \/ k = Len(updates) + 1
    BY <1>4
  <2>3. \A k \in 1..Len(updates) : k \in 1..Len(updates')
    BY <1>4
  <2>4. CASE in_force[p] = settings.policies[p] /\ \A k \in 1..Len(updates) : updates[k].policy # p
    BY <1>1, <1>4, <2>1, <2>2, <2>4 DEF Settled
  <2>5. ASSUME NEW k \in 1..Len(updates), updates[k].policy = p,
               updates[k].value = settings.policies[p],
               \A j \in 1..Len(updates) : j > k => updates[j].policy # p
        PROVE  Settled(p)'
    <3>1. updates'[k] = updates[k] /\ k \in 1..Len(updates')
      BY <1>4, <2>3
    <3>2. \A j \in 1..Len(updates') : j > k => updates'[j].policy # p
      BY <1>4, <2>1, <2>2, <2>5
    <3> QED
      BY <1>1, <2>5, <3>1, <3>2 DEF Settled
  <2> QED
    BY <1>8, <2>4, <2>5 DEF Settled
<1>9. ASSUME NEW p \in Given, p # Policies[i], ToSend(p) PROVE ToSend(p)'
  <2>1. PICK d \in Conns, k \in 1..3, j \in 1..3 : cpc[d] = Policies[k] /\ k <= j /\ p = Policies[j]
    BY <1>9 DEF ToSend
  <2>2. d = c
    <3>1. cpc[d] \in SetPhase /\ cpc[c] \in SetPhase
      BY <1>1, <1>2, <2>1 DEF SetPhase
    <3> QED
      BY <3>1, OneSender DEF SettingsInv
  <2>3. k = i
    BY <1>1, <2>1, <2>2
  <2>4. j # i /\ i + 1 \in 1..3 /\ i + 1 <= j
    BY <1>9, <2>1, <2>3
  <2>5. cpc'[c] = Policies[i + 1]
    BY <1>1, <2>4 DEF SettingsInv, SettingsShape
  <2> QED
    BY <2>1, <2>4, <2>5 DEF ToSend
<1> QED
  BY <1>5, <1>6, <1>7, <1>8, <1>9 DEF SettingsInv

\* The resource takes the first command.
LEMMA TakeUpdateInv ==
  ASSUME SettingsInv, TakeUpdate
  PROVE  SettingsInv'
<1> USE GivenNames
<1> DEFINE u == Head(updates)
<1>1. /\ UNCHANGED <<settings, settings_lock, cpc, creq>> /\ updates # <<>>
      /\ in_force' = [in_force EXCEPT ![u.policy] = u.value] /\ updates' = Tail(updates)
  BY DEF TakeUpdate
<1>2. /\ u \in Update /\ u = updates[1] /\ updates' \in Seq(Update)
      /\ Len(updates') = Len(updates) - 1 /\ Len(updates) \in Nat \ {0}
      /\ \A k \in 1..Len(updates') : updates'[k] = updates[k + 1]
  <2>1. updates \in Seq(Update) /\ updates # <<>>
    BY <1>1 DEF SettingsInv, SettingsShape
  <2>2. u \in Update /\ u = updates[1]
    BY <2>1
  <2>3. Tail(updates) \in Seq(Update) /\ Len(Tail(updates)) = Len(updates) - 1
    BY <2>1
  <2>4. Len(updates) \in Nat \ {0}
    BY <2>1
  <2>5. \A k \in 1..Len(Tail(updates)) : Tail(updates)[k] = updates[k + 1]
    BY <2>1
  <2> QED
    BY <1>1, <2>2, <2>3, <2>4, <2>5
<1> HIDE DEF u
<1>3. in_force' \in [Given -> Nat]
  BY <1>1, <1>2 DEF SettingsInv, SettingsShape, Update
<1>4. SettingsShape' /\ SetHolder'
  BY <1>1, <1>2, <1>3 DEF SettingsInv, SettingsShape, SetHolder
<1>5. ASSUME NEW p \in Given, Settled(p) PROVE Settled(p)'
  <2>0. in_force'[p] = IF p = u.policy THEN u.value ELSE in_force[p]
    BY <1>1 DEF SettingsInv, SettingsShape
  <2>1. \A k \in 1..Len(updates') : k + 1 \in 1..Len(updates)
    BY <1>2
  <2>2. CASE in_force[p] = settings.policies[p] /\ \A k \in 1..Len(updates) : updates[k].policy # p
    <3>1. u.policy # p
      BY <1>2, <2>2
    <3> QED
      BY <1>1, <1>2, <2>0, <2>1, <2>2, <3>1 DEF Settled
  <2>3. ASSUME NEW k \in 1..Len(updates), updates[k].policy = p,
               updates[k].value = settings.policies[p],
               \A j \in 1..Len(updates) : j > k => updates[j].policy # p
        PROVE  Settled(p)'
    <3>1. CASE k = 1
      <4>1. \A j \in 1..Len(updates') : updates'[j].policy # p
        BY <1>2, <2>1, <2>3, <3>1
      <4>2. in_force'[p] = settings.policies[p]
        BY <1>2, <2>0, <2>3, <3>1
      <4> QED
        BY <1>1, <4>1, <4>2 DEF Settled
    <3>2. CASE k # 1
      <4>1. k - 1 \in 1..Len(updates') /\ updates'[k - 1] = updates[k]
        BY <1>2, <3>2
      <4>2. \A j \in 1..Len(updates') : j > k - 1 => updates'[j].policy # p
        BY <1>2, <2>1, <2>3
      <4> QED
        BY <1>1, <2>3, <4>1, <4>2 DEF Settled
    <3> QED
      BY <3>1, <3>2
  <2> QED
    BY <1>5, <2>2, <2>3 DEF Settled
<1>6. \A p \in Given : ToSend(p)' <=> ToSend(p)
  BY <1>1 DEF ToSend
<1> QED
  BY <1>4, <1>5, <1>6 DEF SettingsInv

LEMMA SettingsNextInv == SettingsInv /\ [ControlNext]_ctlVars => SettingsInv'
<1> SUFFICES ASSUME SettingsInv, [ControlNext]_ctlVars PROVE SettingsInv'
  OBVIOUS
<1>1. CASE \E v \in Readings : Scan(v)
  <2>1. UNCHANGED <<settings, in_force, updates, settings_lock, cpc, creq>>
    BY <1>1 DEF Scan, confVars
  <2> QED
    BY <2>1 DEF SettingsInv, SettingsShape, SetHolder, Settled, ToSend
<1>2. CASE UNCHANGED ctlVars
  <2>1. UNCHANGED <<settings, in_force, updates, settings_lock, cpc, creq>>
    BY <1>2 DEF ctlVars, confVars
  <2> QED
    BY <2>1 DEF SettingsInv, SettingsShape, SetHolder, Settled, ToSend
<1>3. ASSUME NEW c \in Conns, NEW i \in 1..Len(Policies), Send(c, i) PROVE SettingsInv'
  BY <1>3, SendInv, GivenNames
<1> QED
  BY <1>1, <1>2, <1>3, OtherRequestsInv, LockSettingsInv, StoreInv, TakeUpdateInv DEF ControlNext

\* control.rs: when no request is setting policies and the resource has taken its
\* commands, it works with the policies config.get shows, for any number of
\* connections and requests: the order of the commands is that of the settings.
THEOREM SettingsAlwaysInForce == ControlSpec => []SettingsInForce
<1>1. SettingsInv => SettingsInForce
  <2> SUFFICES ASSUME SettingsInv, settings_lock = Nobody, updates = <<>>
               PROVE  in_force = settings.policies
    BY DEF SettingsInForce
  <2>1. \A c \in Conns : cpc[c] \notin SetPhase
    BY ControlAssumption DEF SettingsInv, SetHolder
  <2>2. \A p \in Given : ~ToSend(p)
    BY <2>1, GivenNames DEF ToSend, SetPhase
  <2>3. \A p \in Given : in_force[p] = settings.policies[p]
    BY <2>2 DEF SettingsInv, Settled
  <2> QED
    BY <2>3 DEF SettingsInv, SettingsShape
<1> QED
  BY <1>1, SettingsInitInv, SettingsNextInv, PTL DEF ControlSpec

-----------------------------------------------------------------------------
(***************************************************************************)
(* Alarms.  Who holds the metadata is the only one with a snapshot it has  *)
(* not applied yet, so snapshots are applied in the order they were taken. *)
(***************************************************************************)
PollPhase == {"poll", "apply"}
Event     == {"raised", "acknowledged", "cleared"}

AlarmShape ==
  /\ cpc \in [Conns -> {"idle", "checked", "set", "poll", "apply"} \cup Given]
  /\ process \in Snapshot /\ taken \in [Conns -> Snapshot \cup {NoSnapshot}]
  /\ shown \in Snapshot \cup {NoSnapshot}
  /\ alarm \in [active : BOOLEAN, acknowledged : BOOLEAN, raised : Nat]
  /\ events \in Seq(Event)

PollHolder == \A c \in Conns : cpc[c] \in PollPhase <=> metadata_lock = c

InOrder ==
  /\ shown.scan <= process.scan
  /\ \A c \in Conns : taken[c] # NoSnapshot =>
       cpc[c] = "apply" /\ taken[c].scan <= process.scan /\ shown.scan <= taken[c].scan

LastEvent ==
  events # <<>> =>
    CASE events[Len(events)] = "raised"       -> alarm.active /\ ~alarm.acknowledged
      [] events[Len(events)] = "acknowledged" -> alarm.active /\ alarm.acknowledged
      [] events[Len(events)] = "cleared"      -> ~alarm.active /\ ~alarm.acknowledged

Told == alarm.active <=> shown.value \in Outside

AlarmInv == AlarmShape /\ PollHolder /\ InOrder /\ LastEvent /\ Told

LEMMA SnapshotTypes ==
  /\ NoSnapshot \notin Snapshot
  /\ \A s \in Snapshot \cup {NoSnapshot} : s.scan \in Nat
  /\ NoSnapshot.value \notin Outside /\ NoSnapshot.scan = 0
BY ControlAssumption DEF Snapshot, NoSnapshot

\* An event goes to the end, whether or not the oldest one goes.
LEMMA LoggedLast ==
  ASSUME events \in Seq(Event), NEW e \in Event
  PROVE  Logged(e) \in Seq(Event) /\ Logged(e) # <<>> /\ Logged(e)[Len(Logged(e))] = e
<1> DEFINE all == Append(events, e)
<1>1. /\ all \in Seq(Event) /\ Len(all) \in Nat \ {0} /\ all[Len(all)] = e
  OBVIOUS
<1>2. Logged(e) = IF Len(all) > HistoryLimit THEN Tail(all) ELSE all
  BY DEF Logged
<1> HIDE DEF all
<1>3. CASE Len(all) > HistoryLimit
  <2>1. Len(all) > 1
    BY <1>1, <1>3, ControlAssumption
  <2>2. /\ Tail(all) \in Seq(Event) /\ Len(Tail(all)) = Len(all) - 1
        /\ \A k \in 1..Len(Tail(all)) : Tail(all)[k] = all[k + 1]
    BY <1>1, <2>1
  <2>3. Len(all) - 1 \in 1..Len(Tail(all))
    BY <1>1, <2>1, <2>2
  <2>4. Tail(all)[Len(Tail(all))] = e
    BY <1>1, <2>2, <2>3
  <2>5. Tail(all) # <<>>
    BY <2>1, <2>2, <1>1
  <2> QED
    BY <1>2, <1>3, <2>2, <2>4, <2>5
<1>4. CASE ~(Len(all) > HistoryLimit)
  BY <1>1, <1>2, <1>4
<1> QED
  BY <1>3, <1>4

LEMMA AlarmInitInv == ControlInit => AlarmInv
<1> SUFFICES ASSUME ControlInit PROVE AlarmInv
  OBVIOUS
<1> USE SnapshotTypes
<1>1. process \in Snapshot
  BY ControlAssumption DEF ControlInit, Snapshot
<1>2. AlarmShape
  BY <1>1 DEF ControlInit, AlarmShape, Unknown
<1>3. PollHolder
  BY ControlAssumption DEF ControlInit, PollHolder, PollPhase
<1>4. InOrder /\ LastEvent /\ Told
  BY <1>1, ControlAssumption DEF ControlInit, InOrder, LastEvent, Told, Unknown, AlarmShape
<1> QED
  BY <1>2, <1>3, <1>4 DEF AlarmInv

\* Steps of requests that are not polls; they hold no snapshot.
LEMMA NoPollInv ==
  ASSUME AlarmInv, NEW c \in Conns,
         \/ \E r \in RequestOf : Receive(c, r)
         \/ LockSettings(c) \/ Refuse(c) \/ Store(c) \/ \E i \in 1..Len(Policies) : Send(c, i)
  PROVE  AlarmInv'
<1>0. /\ Len(Policies) = 3
      /\ Policies[1] = "watchdog" /\ Policies[2] = "fault" /\ Policies[3] = "retain"
      /\ Given = {"watchdog", "fault", "retain"}
  BY DEF Policies, Given
<1>1. /\ UNCHANGED <<metadata_lock, process, taken, alarm, events, shown>>
      /\ cpc[c] \in {"idle", "checked", "set"} \cup Given
      /\ \/ UNCHANGED cpc
         \/ \E l \in {"idle", "checked", "set"} \cup Given : cpc' = [cpc EXCEPT ![c] = l]
  BY <1>0 DEF Receive, LockSettings, Refuse, Store, Send, CGoto, Answer, hmiVars
<1>2. AlarmShape'
  BY <1>1 DEF AlarmInv, AlarmShape
<1>3. PollHolder'
  BY <1>0, <1>1 DEF AlarmInv, AlarmShape, PollHolder, PollPhase
<1>4. InOrder'
  BY <1>0, <1>1 DEF AlarmInv, AlarmShape, InOrder
<1>5. LastEvent' /\ Told'
  BY <1>1 DEF AlarmInv, LastEvent, Told
<1> QED
  BY <1>2, <1>3, <1>4, <1>5 DEF AlarmInv

LEMMA PollInv ==
  ASSUME AlarmInv, NEW c \in Conns, LockMetadata(c) \/ GetSnapshot(c)
  PROVE  AlarmInv'
<1> USE SnapshotTypes
<1>1. CASE LockMetadata(c)
  <2>1. /\ UNCHANGED <<process, taken, alarm, events, shown>> /\ cpc[c] = "checked"
        /\ cpc' = [cpc EXCEPT ![c] = "poll"] /\ metadata_lock = Nobody /\ metadata_lock' = c
    BY <1>1 DEF LockMetadata, CGoto
  <2>2. AlarmShape'
    BY <2>1 DEF AlarmInv, AlarmShape
  <2>3. PollHolder'
    BY <2>1, ControlAssumption DEF AlarmInv, AlarmShape, PollHolder, PollPhase
  <2>4. InOrder'
    BY <2>1 DEF AlarmInv, AlarmShape, InOrder
  <2>5. LastEvent' /\ Told'
    BY <2>1 DEF AlarmInv, LastEvent, Told
  <2> QED
    BY <2>2, <2>3, <2>4, <2>5 DEF AlarmInv
<1>2. CASE GetSnapshot(c)
  <2>1. /\ UNCHANGED <<metadata_lock, process, alarm, events, shown>> /\ cpc[c] = "poll"
        /\ cpc' = [cpc EXCEPT ![c] = "apply"]
    BY <1>2 DEF GetSnapshot, CGoto
  <2>2. PICK s \in {process, NoSnapshot} : taken' = [taken EXCEPT ![c] = s]
    BY <1>2 DEF GetSnapshot
  <2>3. AlarmShape'
    BY <2>1, <2>2 DEF AlarmInv, AlarmShape
  <2>4. PollHolder'
    BY <2>1 DEF AlarmInv, AlarmShape, PollHolder, PollPhase
  <2>5. InOrder'
    <3>1. process.scan \in Nat /\ shown.scan <= process.scan
      BY DEF AlarmInv, AlarmShape, InOrder
    <3>2. ASSUME NEW d \in Conns, taken'[d] # NoSnapshot
          PROVE  cpc'[d] = "apply" /\ taken'[d].scan <= process.scan /\ shown.scan <= taken'[d].scan
      <4>1. CASE d = c
        BY <2>1, <2>2, <3>1, <3>2, <4>1 DEF AlarmInv, AlarmShape
      <4>2. CASE d # c
        BY <2>1, <2>2, <3>2, <4>2 DEF AlarmInv, AlarmShape, InOrder
      <4> QED
        BY <4>1, <4>2
    <3> QED
      BY <2>1, <3>1, <3>2 DEF InOrder
  <2>6. LastEvent' /\ Told'
    BY <2>1 DEF AlarmInv, LastEvent, Told
  <2> QED
    BY <2>3, <2>4, <2>5, <2>6 DEF AlarmInv
<1> QED
  BY <1>1, <1>2

LEMMA UpdateLiveInv ==
  ASSUME AlarmInv, NEW c \in Conns, UpdateLive(c)
  PROVE  AlarmInv'
<1> USE SnapshotTypes
<1> DEFINE s == taken[c]
<1>1. /\ process' = process /\ cpc[c] = "apply" /\ cpc' = [cpc EXCEPT ![c] = "idle"]
      /\ metadata_lock' = (IF metadata_lock = c THEN Nobody ELSE metadata_lock)
      /\ taken' = [taken EXCEPT ![c] = NoSnapshot]
  BY DEF UpdateLive, Answer
<1>2. metadata_lock = c
  BY <1>1 DEF AlarmInv, PollHolder, PollPhase
<1>3. \A d \in Conns : taken'[d] = NoSnapshot
  <2>1. \A d \in Conns : d # c => taken[d] = NoSnapshot
    BY <1>2 DEF AlarmInv, InOrder, PollHolder, PollPhase
  <2> QED
    BY <1>1, <2>1 DEF AlarmInv, AlarmShape
<1>4. PollHolder'
  BY <1>1, <1>2, ControlAssumption DEF AlarmInv, AlarmShape, PollHolder, PollPhase
<1>5. /\ cpc' \in [Conns -> {"idle", "checked", "set", "poll", "apply"} \cup Given]
      /\ process' \in Snapshot /\ taken' \in [Conns -> Snapshot \cup {NoSnapshot}]
  BY <1>1 DEF AlarmInv, AlarmShape
<1>6. CASE s = NoSnapshot
  <2>1. UNCHANGED <<alarm, events, shown>>
    BY <1>6 DEF UpdateLive
  <2>2. AlarmShape'
    BY <1>5, <2>1 DEF AlarmInv, AlarmShape
  <2>3. InOrder' /\ LastEvent' /\ Told'
    BY <1>1, <1>3, <2>1 DEF AlarmInv, InOrder, LastEvent, Told
  <2> QED
    BY <1>4, <2>2, <2>3 DEF AlarmInv
<1>7. CASE s # NoSnapshot
  <2>1. s \in Snapshot /\ s.scan <= process.scan /\ shown' = s
    BY <1>7 DEF UpdateLive, AlarmInv, AlarmShape, InOrder
  <2>2. InOrder'
    BY <1>1, <1>3, <2>1 DEF InOrder
  <2>3. s.scan \in Nat /\ shown' \in Snapshot
    BY <2>1
  <2>4. CASE s.value \in Outside /\ ~alarm.active
    <3>1. /\ alarm' = [active |-> TRUE, acknowledged |-> FALSE, raised |-> s.scan]
          /\ events' = Logged("raised")
      BY <1>7, <2>4 DEF UpdateLive
    <3>2. events' \in Seq(Event) /\ events'[Len(events')] = "raised"
      BY <3>1, LoggedLast DEF AlarmInv, AlarmShape, Event
    <3>3. AlarmShape'
      BY <1>5, <2>3, <3>1, <3>2 DEF AlarmShape
    <3>4. LastEvent' /\ Told'
      BY <2>1, <2>4, <3>1, <3>2 DEF LastEvent, Told
    <3> QED
      BY <1>4, <2>2, <3>3, <3>4 DEF AlarmInv
  <2>5. CASE s.value \notin Outside /\ alarm.active
    <3>1. /\ alarm' = [alarm EXCEPT !.active = FALSE, !.acknowledged = FALSE]
          /\ events' = Logged("cleared")
      BY <1>7, <2>5 DEF UpdateLive
    <3>2. events' \in Seq(Event) /\ events'[Len(events')] = "cleared"
      BY <3>1, LoggedLast DEF AlarmInv, AlarmShape, Event
    <3>3. /\ alarm' \in [active : BOOLEAN, acknowledged : BOOLEAN, raised : Nat]
          /\ ~alarm'.active /\ ~alarm'.acknowledged
      BY <3>1 DEF AlarmInv, AlarmShape
    <3>4. AlarmShape'
      BY <1>5, <2>3, <3>2, <3>3 DEF AlarmShape
    <3>5. LastEvent' /\ Told'
      BY <2>1, <2>5, <3>2, <3>3 DEF LastEvent, Told
    <3> QED
      BY <1>4, <2>2, <3>4, <3>5 DEF AlarmInv
  <2>6. CASE alarm.active <=> s.value \in Outside
    <3>1. UNCHANGED <<alarm, events>>
      BY <1>7, <2>6 DEF UpdateLive
    <3>2. AlarmShape'
      BY <1>5, <2>3, <3>1 DEF AlarmInv, AlarmShape
    <3>3. LastEvent' /\ Told'
      BY <2>1, <2>6, <3>1 DEF AlarmInv, LastEvent, Told
    <3> QED
      BY <1>4, <2>2, <3>2, <3>3 DEF AlarmInv
  <2>7. alarm.active \in BOOLEAN
    BY DEF AlarmInv, AlarmShape
  <2> QED
    BY <2>4, <2>5, <2>6, <2>7
<1> QED
  BY <1>6, <1>7

LEMMA AcknowledgeInv ==
  ASSUME AlarmInv, NEW c \in Conns, Acknowledge(c)
  PROVE  AlarmInv'
<1>1. /\ UNCHANGED <<metadata_lock, process, taken, shown>> /\ cpc[c] = "checked"
      /\ cpc' = [cpc EXCEPT ![c] = "idle"]
  BY DEF Acknowledge, Answer
<1>2. PollHolder' /\ InOrder'
  BY <1>1 DEF AlarmInv, AlarmShape, PollHolder, PollPhase, InOrder
<1>3. cpc' \in [Conns -> {"idle", "checked", "set", "poll", "apply"} \cup Given]
  BY <1>1 DEF AlarmInv, AlarmShape
<1>4. CASE alarm.active /\ ~alarm.acknowledged
  <2>1. alarm' = [alarm EXCEPT !.acknowledged = TRUE] /\ events' = Logged("acknowledged")
    BY <1>4 DEF Acknowledge
  <2>2. events' \in Seq(Event) /\ events'[Len(events')] = "acknowledged"
    BY <2>1, LoggedLast DEF AlarmInv, AlarmShape, Event
  <2>3. /\ alarm' \in [active : BOOLEAN, acknowledged : BOOLEAN, raised : Nat]
        /\ alarm'.active = alarm.active /\ alarm'.acknowledged
    BY <2>1 DEF AlarmInv, AlarmShape
  <2>4. AlarmShape'
    BY <1>1, <1>3, <2>2, <2>3 DEF AlarmInv, AlarmShape
  <2>5. LastEvent' /\ Told'
    BY <1>1, <1>4, <2>2, <2>3 DEF AlarmInv, LastEvent, Told
  <2> QED
    BY <1>2, <2>4, <2>5 DEF AlarmInv
<1>5. CASE ~(alarm.active /\ ~alarm.acknowledged)
  <2>1. UNCHANGED <<alarm, events>>
    BY <1>5 DEF Acknowledge
  <2> QED
    BY <1>1, <1>2, <1>3, <2>1 DEF AlarmInv, AlarmShape, LastEvent, Told
<1> QED
  BY <1>4, <1>5

LEMMA AlarmNextInv == AlarmInv /\ [ControlNext]_ctlVars => AlarmInv'
<1> SUFFICES ASSUME AlarmInv, [ControlNext]_ctlVars PROVE AlarmInv'
  OBVIOUS
<1>1. ASSUME NEW v \in Readings, Scan(v) PROVE AlarmInv'
  <2>1. /\ UNCHANGED <<metadata_lock, taken, alarm, events, shown, cpc>>
        /\ process.scan < MaxScans /\ process' = [scan |-> process.scan + 1, value |-> v]
    BY <1>1 DEF Scan
  <2>2. process.scan \in Nat /\ \A s \in Snapshot \cup {NoSnapshot} : s.scan \in Nat
    BY SnapshotTypes DEF AlarmInv, AlarmShape
  <2>3. process' \in Snapshot /\ process'.scan = process.scan + 1
    BY <2>1, <2>2, ControlAssumption DEF Snapshot
  <2>4. AlarmShape' /\ PollHolder'
    BY <2>1, <2>3 DEF AlarmInv, AlarmShape, PollHolder
  <2>5. shown.scan <= process'.scan
    BY <2>2, <2>3 DEF AlarmInv, AlarmShape, InOrder
  <2>6. \A d \in Conns : taken[d] # NoSnapshot => taken[d].scan <= process'.scan
    BY <2>2, <2>3 DEF AlarmInv, AlarmShape, InOrder
  <2>7. InOrder'
    BY <2>1, <2>5, <2>6 DEF AlarmInv, InOrder
  <2>8. LastEvent' /\ Told'
    BY <2>1 DEF AlarmInv, LastEvent, Told
  <2> QED
    BY <2>4, <2>7, <2>8 DEF AlarmInv
<1>2. CASE TakeUpdate \/ UNCHANGED ctlVars
  <2>1. UNCHANGED <<metadata_lock, process, taken, alarm, events, shown, cpc>>
    BY <1>2 DEF TakeUpdate, ctlVars, hmiVars
  <2> QED
    BY <2>1 DEF AlarmInv, AlarmShape, PollHolder, InOrder, LastEvent, Told
<1> QED
  BY <1>1, <1>2, NoPollInv, PollInv, UpdateLiveInv, AcknowledgeInv DEF ControlNext

\* control.rs, hmi.rs: the alarm and its last event say what the newest snapshot
\* that anyone applied says, for any number of connections that poll and
\* acknowledge: nobody has an older snapshot still to apply.
THEOREM AlarmAlwaysTellsProcess == ControlSpec => []AlarmTellsProcess
<1>1. AlarmInv => AlarmTellsProcess
  <2> SUFFICES ASSUME AlarmInv PROVE AlarmTellsProcess
    OBVIOUS
  <2>1. \A c \in Conns : taken[c] # NoSnapshot /\ shown # NoSnapshot => taken[c].scan >= shown.scan
    BY SnapshotTypes DEF AlarmInv, AlarmShape, InOrder
  <2> QED
    BY <2>1 DEF AlarmInv, LastEvent, Told, AlarmTellsProcess
<1> QED
  BY <1>1, AlarmInitInv, AlarmNextInv, PTL DEF ControlSpec

-----------------------------------------------------------------------------
(***************************************************************************)
(* Pairing.  A code is the name of its token and is given once; a token    *)
(* that is revoked is off in memory at once and in the file when the       *)
(* revocation counts as saved.                                             *)
(***************************************************************************)
Off(tokens, toks) == \A t \in tokens : t.tok \in toks => ~t.enabled
OneEach(tokens)   == \A s, t \in tokens : s.tok = t.tok => s = t

\* Names that were given away.
Spent == {t.tok : t \in paired \cup file.tokens} \cup revoked \cup busy.revokes

FreshCodes == /\ Spent \subseteq 1..codes
              /\ \A p \in pending : p.code \in (1..codes) \ Spent

RevokedOff ==
  /\ Off(paired, revoked \cup busy.revokes) /\ Off(file.tokens, revoked)
  /\ busy.step = "answer" /\ busy.saved => Off(file.tokens, busy.revokes)
  /\ busy.step = "idle" => busy.revokes = {}

PairShape ==
  /\ paired \subseteq Token
  /\ file \in [torn : BOOLEAN, tokens : SUBSET Token]
  /\ busy \in [step : {"idle", "truncate", "write", "answer"},
               revokes : SUBSET Code, saved : BOOLEAN]
  /\ clock \in 0..MaxClock /\ codes \in Nat /\ \A p \in pending : p.code \in Code

PairInv == /\ PairShape /\ OneEach(paired) /\ OneEach(file.tokens)
           /\ FreshCodes /\ RevokedOff

LEMMA PairInitInv == PairingInit => PairInv
<1> SUFFICES ASSUME PairingInit PROVE PairInv
  OBVIOUS
<1>1. PairShape
  BY PairingAssumption DEF PairingInit, PairShape, NoFile, Idle, NoCode
<1>2. paired = {} /\ file.tokens = {} /\ busy.revokes = {} /\ revoked = {} /\ pending = {}
  BY DEF PairingInit, NoFile, Idle, NoCode
<1> QED
  BY <1>1, <1>2 DEF PairInv, OneEach, FreshCodes, RevokedOff, Spent, Off

\* An operation that only lets tokens go.
LEMMA DroppingInv ==
  ASSUME PairInv, NEW kept, kept \subseteq paired, NEW saves \in BOOLEAN,
         Operation(kept, saves, {}),
         UNCHANGED <<file, clock, revoked>>
  PROVE  /\ codes' \in Nat /\ (\A p \in pending' : p.code \in Code) => PairShape'
         /\ OneEach(paired)' /\ OneEach(file.tokens)' /\ RevokedOff'
         /\ Spent' \subseteq Spent
<1>1. /\ busy.step = "idle" /\ paired' = kept /\ busy.revokes = {}
      /\ busy' = [step |-> IF saves THEN "truncate" ELSE "answer", revokes |-> {}, saved |-> TRUE]
  BY DEF Operation, PairInv, RevokedOff
<1>2. busy'.revokes = {} /\ busy'.step # "idle"
  BY <1>1
<1>3. codes' \in Nat /\ (\A p \in pending' : p.code \in Code) => PairShape'
  BY <1>1 DEF PairInv, PairShape
<1>4. OneEach(paired)' /\ OneEach(file.tokens)'
  BY <1>1 DEF PairInv, OneEach
<1>5. RevokedOff'
  BY <1>1, <1>2 DEF PairInv, RevokedOff, Off
<1>6. Spent' \subseteq Spent
  BY <1>1, <1>2 DEF Spent
<1> QED
  BY <1>3, <1>4, <1>5, <1>6

LEMMA StartPairingInv ==
  ASSUME PairInv, StartPairing
  PROVE  PairInv'
<1>1. /\ codes < MaxCodes /\ codes' = codes + 1 /\ UNCHANGED <<file, clock, revoked>>
      /\ pending' = {[code |-> codes', expires |-> clock + CodeTtl]}
      /\ Operation(Unexpired(paired), Unexpired(paired) # paired, {})
  BY DEF StartPairing
<1>2. Unexpired(paired) \subseteq paired
  BY DEF Unexpired
<1>3. codes \in Nat /\ codes' \in Code /\ \A p \in pending' : p.code = codes'
  BY <1>1, PairingAssumption DEF PairInv, PairShape, Code
<1>4. codes' \in Nat /\ 1..codes \subseteq 1..codes' /\ codes' \in 1..codes' /\ codes' \notin 1..codes
  BY <1>1, <1>3
<1>5. /\ codes' \in Nat /\ (\A p \in pending' : p.code \in Code) => PairShape'
      /\ OneEach(paired)' /\ OneEach(file.tokens)' /\ RevokedOff' /\ Spent' \subseteq Spent
  BY <1>1, <1>2, DroppingInv
<1>6. FreshCodes'
  BY <1>3, <1>4, <1>5 DEF PairInv, FreshCodes
<1> QED
  BY <1>3, <1>4, <1>5, <1>6 DEF PairInv

\* The token that a claim issues bears a name nobody has.
LEMMA ClaimIssuesInv ==
  ASSUME PairInv, NEW c \in Code, ClaimIssues(c)
  PROVE  PairInv'
<1> DEFINE new == [tok |-> c, created |-> clock, expires |-> clock + TokenTtl, enabled |-> TRUE]
<1>1. /\ \E p \in pending : p.code = c
      /\ busy.step = "idle" /\ busy.revokes = {}
      /\ paired' = Unexpired(paired) \cup {new}
      /\ busy' = [step |-> "truncate", revokes |-> {}, saved |-> TRUE]
      /\ pending' = {} /\ UNCHANGED <<file, clock, codes, revoked>>
  BY DEF ClaimIssues, Operation, NoCode, PairInv, RevokedOff
<1>2. c \in 1..codes /\ c \notin Spent
  BY <1>1 DEF PairInv, FreshCodes
<1>3. new \in Token /\ new.tok = c
  BY PairingAssumption DEF Token, PairInv, PairShape
<1> HIDE DEF new
<1>4. Unexpired(paired) \subseteq paired
  BY DEF Unexpired
<1>5. PairShape'
  BY <1>1, <1>3, <1>4 DEF PairInv, PairShape
<1>6. OneEach(paired)' /\ OneEach(file.tokens)'
  BY <1>1, <1>2, <1>3, <1>4 DEF PairInv, OneEach, Spent
<1>7. FreshCodes'
  BY <1>1, <1>2, <1>3, <1>4 DEF PairInv, FreshCodes, Spent
<1>8. RevokedOff'
  BY <1>1, <1>2, <1>3, <1>4 DEF PairInv, RevokedOff, Off, Spent
<1> QED
  BY <1>5, <1>6, <1>7, <1>8 DEF PairInv

LEMMA LookInv ==
  ASSUME PairInv, Look \/ \E c \in Code : ClaimRefused(c)
  PROVE  PairInv'
<1>1. /\ UNCHANGED <<file, clock, codes, revoked>>
      /\ \E saves \in BOOLEAN : Operation(Unexpired(paired), saves, {})
      /\ pending' \subseteq pending
  BY DEF Look, ClaimRefused, NoCode
<1>2. Unexpired(paired) \subseteq paired
  BY DEF Unexpired
<1>3. /\ codes' \in Nat /\ (\A p \in pending' : p.code \in Code) => PairShape'
      /\ OneEach(paired)' /\ OneEach(file.tokens)' /\ RevokedOff' /\ Spent' \subseteq Spent
  BY <1>1, <1>2, DroppingInv
<1>4. codes' \in Nat /\ \A p \in pending' : p.code \in Code
  BY <1>1 DEF PairInv, PairShape
<1>5. FreshCodes'
  BY <1>1, <1>3 DEF PairInv, FreshCodes
<1> QED
  BY <1>3, <1>4, <1>5 DEF PairInv

\* A token is revoked under its name, and no other bears that name.
LEMMA RevokingInv ==
  ASSUME PairInv, NEW hit, hit \subseteq Unexpired(paired), NEW saves \in BOOLEAN,
         saves \/ hit = {}, Revoking(hit, saves)
  PROVE  PairInv'
<1> DEFINE off(t) == IF t \in hit THEN [t EXCEPT !.enabled = FALSE] ELSE t
           toks == {t.tok : t \in hit}
<1>1. /\ busy.step = "idle" /\ busy.revokes = {}
      /\ paired' = {off(t) : t \in Unexpired(paired)}
      /\ busy' = [step |-> IF saves THEN "truncate" ELSE "answer", revokes |-> toks, saved |-> TRUE]
      /\ UNCHANGED <<pending, file, clock, codes, revoked>>
  BY DEF Revoking, Operation, PairInv, RevokedOff
<1>2. Unexpired(paired) \subseteq paired
  BY DEF Unexpired
<1>3. \A t \in paired : /\ off(t) \in Token /\ off(t).tok = t.tok
                        /\ off(t).enabled => t.enabled /\ t \notin hit
  BY DEF PairInv, PairShape, Token
<1> HIDE DEF off
<1>4. toks \subseteq {t.tok : t \in paired} /\ toks \subseteq Code /\ (toks = {} \/ saves)
  BY <1>2 DEF PairInv, PairShape, Token
<1>5. \A t \in paired : t.tok \in toks => t \in hit
  BY <1>2 DEF PairInv, OneEach
<1> HIDE DEF toks
<1>6. PairShape'
  BY <1>1, <1>2, <1>3, <1>4 DEF PairInv, PairShape
<1>7. OneEach(paired)' /\ OneEach(file.tokens)'
  BY <1>1, <1>2, <1>3 DEF PairInv, OneEach
<1>8. FreshCodes'
  <2>1. {t.tok : t \in paired'} \subseteq {t.tok : t \in paired}
    BY <1>1, <1>2, <1>3
  <2>2. Spent' \subseteq Spent
    BY <1>1, <1>4, <2>1 DEF Spent
  <2> QED
    BY <1>1, <2>2 DEF PairInv, FreshCodes
<1>9. Off(paired', (revoked \cup toks))
  <2>1. ASSUME NEW t \in Unexpired(paired), off(t).tok \in revoked \cup toks
        PROVE  ~off(t).enabled
    BY <1>2, <1>3, <1>5, <2>1 DEF PairInv, RevokedOff, Off
  <2> QED
    BY <1>1, <2>1 DEF Off
<1>10. RevokedOff'
  <2>1. busy'.revokes = toks /\ busy'.step # "idle" /\ (busy'.step = "answer" => toks = {})
    BY <1>1, <1>4
  <2> QED
    BY <1>1, <1>9, <2>1 DEF PairInv, RevokedOff, Off
<1> QED
  BY <1>6, <1>7, <1>8, <1>10 DEF PairInv

\* The save, the answer, time and the end of the process.
LEMMA SaveInv ==
  ASSUME PairInv,
         TruncateTokens \/ WriteTokens \/ SaveTokensFails \/ PairingAnswer \/ PairingTick \/ Relaunch
         \/ UNCHANGED pairVars
  PROVE  PairInv'
<1>1. CASE TruncateTokens
  <2>1. /\ file'.tokens = {} /\ busy'.step = "write" /\ busy'.revokes = busy.revokes
        /\ UNCHANGED <<paired, pending, clock, codes, revoked>>
    BY <1>1 DEF TruncateTokens, TornFile, PairInv, PairShape
  <2>2. PairShape'
    BY <1>1 DEF TruncateTokens, TornFile, PairInv, PairShape
  <2>3. Spent' \subseteq Spent
    BY <2>1 DEF Spent
  <2> QED
    BY <2>1, <2>2, <2>3 DEF PairInv, OneEach, FreshCodes, RevokedOff, Off
<1>2. CASE WriteTokens
  <2>1. /\ file'.tokens = paired /\ busy'.step = "answer" /\ busy'.revokes = busy.revokes
        /\ UNCHANGED <<paired, pending, clock, codes, revoked>>
    BY <1>2 DEF WriteTokens, PairInv, PairShape
  <2>2. PairShape'
    BY <1>2 DEF WriteTokens, PairInv, PairShape
  <2>3. Spent' \subseteq Spent
    BY <2>1 DEF Spent
  <2> QED
    BY <2>1, <2>2, <2>3 DEF PairInv, OneEach, FreshCodes, RevokedOff, Off
<1>3. CASE SaveTokensFails
  <2>1. /\ ~busy'.saved /\ busy'.step = "answer" /\ busy'.revokes = busy.revokes
        /\ UNCHANGED <<paired, pending, file, clock, codes, revoked>>
    BY <1>3 DEF SaveTokensFails, PairInv, PairShape
  <2>2. PairShape'
    BY <1>3 DEF SaveTokensFails, PairInv, PairShape
  <2>3. Spent' = Spent
    BY <2>1 DEF Spent
  <2> QED
    BY <2>1, <2>2, <2>3 DEF PairInv, OneEach, FreshCodes, RevokedOff, Off
<1>4. CASE PairingAnswer
  <2>1. /\ busy.step = "answer" /\ busy' = Idle
        /\ revoked' = revoked \cup (IF busy.saved THEN busy.revokes ELSE {})
        /\ UNCHANGED <<paired, pending, file, clock, codes>>
    BY <1>4 DEF PairingAnswer
  <2>2. busy'.step = "idle" /\ busy'.revokes = {} /\ PairShape'
    BY <2>1 DEF Idle, PairInv, PairShape
  <2>3. Spent' \subseteq Spent
    BY <2>1, <2>2 DEF Spent
  <2>4. RevokedOff'
    BY <2>1, <2>2 DEF PairInv, RevokedOff, Off
  <2> QED
    BY <2>1, <2>2, <2>3, <2>4 DEF PairInv, OneEach, FreshCodes
<1>5. CASE PairingTick
  <2>1. clock' \in 0..MaxClock /\ UNCHANGED <<paired, pending, file, busy, codes, revoked>>
    BY <1>5, PairingAssumption DEF PairingTick, PairInv, PairShape
  <2> QED
    BY <2>1 DEF PairInv, PairShape, OneEach, FreshCodes, RevokedOff, Off, Spent
<1>6. CASE Relaunch
  <2>1. /\ paired' \subseteq file.tokens /\ pending' = {} /\ busy' = Idle
        /\ UNCHANGED <<file, clock, codes, revoked>>
    BY <1>6 DEF Relaunch, NoCode
  <2>2. busy'.step = "idle" /\ busy'.revokes = {}
    BY <2>1 DEF Idle
  <2>3. PairShape'
    BY <2>1 DEF Idle, PairInv, PairShape
  <2>4. Spent' \subseteq Spent
    BY <2>1, <2>2 DEF Spent
  <2>5. RevokedOff'
    BY <2>1, <2>2 DEF PairInv, RevokedOff, Off
  <2> QED
    BY <2>1, <2>2, <2>3, <2>4, <2>5 DEF PairInv, OneEach, FreshCodes
<1>7. CASE UNCHANGED pairVars
  BY <1>7 DEF pairVars, PairInv, PairShape, OneEach, FreshCodes, RevokedOff, Off, Spent
<1> QED
  BY <1>1, <1>2, <1>3, <1>4, <1>5, <1>6, <1>7

LEMMA PairNextInv == PairInv /\ [PairingNext]_pairVars => PairInv'
<1> SUFFICES ASSUME PairInv, [PairingNext]_pairVars PROVE PairInv'
  OBVIOUS
<1>1. CASE RevokeAll
  <2> DEFINE hit == {t \in Unexpired(paired) : t.enabled}
  <2>1. hit \subseteq Unexpired(paired) /\ (hit # {}) \in BOOLEAN /\ (hit # {} \/ hit = {})
    OBVIOUS
  <2>2. Revoking(hit, hit # {})
    BY <1>1 DEF RevokeAll
  <2> HIDE DEF hit
  <2> QED
    BY <2>1, <2>2, RevokingInv
<1>2. ASSUME NEW second \in 0..MaxClock, Revoke(second) PROVE PairInv'
  <2> DEFINE hit == {t \in Unexpired(paired) : t.created = second}
  <2>1. hit \subseteq Unexpired(paired) /\ (hit # {}) \in BOOLEAN /\ (hit # {} \/ hit = {})
    OBVIOUS
  <2>2. Revoking(hit, hit # {})
    BY <1>2 DEF Revoke
  <2> HIDE DEF hit
  <2> QED
    BY <2>1, <2>2, RevokingInv
<1> QED
  BY <1>1, <1>2, StartPairingInv, ClaimIssuesInv, LookInv, SaveInv DEF PairingNext

\* web/pairing.rs: a token whose revocation was saved and answered never counts
\* again, for any number of codes and tokens, whatever saves fail and whenever the
\* process ends: its name is given once, and the file has it off before the answer.
THEOREM RevokedAlwaysStaysRevoked == PairingSpec => []RevokedStaysRevoked
<1>1. PairInv => RevokedStaysRevoked
  BY DEF PairInv, RevokedOff, Off, RevokedStaysRevoked
<1> QED
  BY <1>1, PairInitInv, PairNextInv, PTL DEF PairingSpec

-----------------------------------------------------------------------------
(***************************************************************************)
(* Deployment.  A bundle that a link names, or that an operation may still *)
(* make a link name, was copied completely, unless a later step disturbed  *)
(* it, and nobody is copying into it.  The bundle a command copies into is *)
(* its own and holds the release up to the file that comes next.           *)
(***************************************************************************)
Copying(w) == dpc[w] = "copy"

Linkable(l) ==
  l = NoLink \/ /\ l \in named /\ (l \in disturbed \/ Whole(bundle[l]))
                /\ \A w \in Writers : Copying(w) => dlocal[w].dest # l

LinksRead(w) ==
  /\ Linkable(dlocal[w].cur) /\ Linkable(dlocal[w].prev)
  /\ ~Copying(w) => Linkable(dlocal[w].dest)

CopiedSoFar(w) ==
  LET s == dlocal[w] IN
  Copying(w) =>
    /\ s.dest \in named
    /\ s.dest \in disturbed \/ \A f \in 1..Len(Files) : f < s.at => bundle[s.dest][f] = s.rel
    /\ \A v \in Writers : v # w /\ Copying(v) => dlocal[v].dest # s.dest

DeployInv ==
  /\ DepTypeOK
  /\ Linkable(current) /\ Linkable(previous)
  /\ \A w \in Writers : LinksRead(w) /\ CopiedSoFar(w)

LEMMA FilesCount == Len(Files) = 3 /\ 1..Len(Files) = {1, 2, 3}
BY DEF Files

LEMMA NoLocalsTyped ==
  /\ NoLocals \in Locals
  /\ NoLocals.dest = NoLink /\ NoLocals.cur = NoLink /\ NoLocals.prev = NoLink
<1>1. (CHOOSE r \in Releases : TRUE) \in Releases
  BY DeploymentAssumption
<1> QED
  BY <1>1, FilesCount DEF NoLocals, Locals, Links

\* A step of one writer changes only its own locals and, of the bundles, the one
\* it copies into, a new one or one it disturbs: links and other writers stay sound.
OwnStep(w) ==
  /\ named \subseteq named' /\ disturbed \subseteq disturbed'
  /\ \A l \in named : \/ bundle'[l] = bundle[l] \/ l \in disturbed'
                      \/ Copying(w) /\ l = dlocal[w].dest
  /\ \A v \in Writers \ {w} : dpc'[v] = dpc[v] /\ dlocal'[v] = dlocal[v]
  /\ Copying(w)' => \/ dlocal'[w].dest \notin named
                    \/ Copying(w) /\ dlocal'[w].dest = dlocal[w].dest

LEMMA OthersKept ==
  ASSUME DeployInv, NEW w \in Writers, OwnStep(w)
  PROVE  /\ \A l : Linkable(l) => Linkable(l)'
         /\ \A v \in Writers \ {w} : LinksRead(v)' /\ CopiedSoFar(v)'
<1>1. ASSUME NEW l, Linkable(l) PROVE Linkable(l)'
  <2>1. CASE l = NoLink
    BY <2>1 DEF Linkable
  <2> SUFFICES ASSUME l # NoLink PROVE Linkable(l)'
    BY <2>1
  <2>2. l \in named /\ l \in named'
    BY <1>1 DEF Linkable, OwnStep
  <2>3. Copying(w) => l # dlocal[w].dest
    BY <1>1 DEF Linkable
  <2>4. l \in disturbed' \/ Whole(bundle[l])'
    BY <1>1, <2>2, <2>3 DEF Linkable, OwnStep, Whole
  <2>5. ASSUME NEW v \in Writers, Copying(v)' PROVE dlocal'[v].dest # l
    BY <1>1, <2>2, <2>3, <2>5 DEF Linkable, OwnStep, Copying
  <2> QED
    BY <2>2, <2>4, <2>5 DEF Linkable
<1>2. ASSUME NEW v \in Writers \ {w} PROVE LinksRead(v)' /\ CopiedSoFar(v)'
  <2>1. dpc'[v] = dpc[v] /\ dlocal'[v] = dlocal[v] /\ LinksRead(v) /\ CopiedSoFar(v)
    BY DEF OwnStep, DeployInv
  <2>2. LinksRead(v)'
    BY <1>1, <2>1 DEF LinksRead, Copying
  <2>3. CopiedSoFar(v)'
    <3> SUFFICES ASSUME Copying(v) PROVE CopiedSoFar(v)'
      BY <2>1 DEF CopiedSoFar, Copying
    <3> DEFINE d == dlocal[v].dest
    <3>1. d \in named /\ d \in named' /\ (Copying(w) => dlocal[w].dest # d)
      BY <2>1 DEF CopiedSoFar, OwnStep
    <3>2. d \in disturbed' \/ \A f \in 1..Len(Files) : f < dlocal[v].at => bundle'[d][f] = dlocal[v].rel
      BY <2>1, <3>1 DEF CopiedSoFar, OwnStep
    <3>3. ASSUME NEW u \in Writers, u # v, Copying(u)' PROVE dlocal'[u].dest # d
      BY <2>1, <3>1, <3>3 DEF CopiedSoFar, OwnStep, Copying
    <3> QED
      BY <2>1, <3>1, <3>2, <3>3 DEF CopiedSoFar
  <2> QED
    BY <2>2, <2>3
<1> QED
  BY <1>1, <1>2

\* What is left to show of a step: types, the links and its writer.
LEMMA OwnStepInv ==
  ASSUME DeployInv, NEW w \in Writers, OwnStep(w), DepTypeOK',
         current' = current \/ Linkable(current'), previous' = previous \/ Linkable(previous'),
         LinksRead(w)', CopiedSoFar(w)'
  PROVE  DeployInv'
BY OthersKept DEF DeployInv

LEMMA BundleTypes ==
  ASSUME DepTypeOK, NEW w \in Writers
  PROVE  /\ dlocal[w] \in Locals /\ dlocal[w].at \in 1..4 /\ dlocal[w].rel \in Releases
         /\ dlocal[w].dest \in Links /\ dlocal[w].cur \in Links /\ dlocal[w].prev \in Links
         /\ dlocal[w].todo \subseteq Labels
BY FilesCount DEF DepTypeOK, Locals

\* An operation that ends leaves no locals.
LEMMA EndedInv ==
  ASSUME DeployInv, NEW w \in Writers, Ended(w), OwnStep(w), UNCHANGED <<current, previous, named, ops>>,
         bundle' \in [Labels -> [1..Len(Files) -> Content]], disturbed' \subseteq Labels
  PROVE  DeployInv'
<1>1. dpc'[w] = "idle" /\ dlocal'[w] = NoLocals
  BY DEF Ended, DeployInv, DepTypeOK
<1>2. DepTypeOK'
  BY NoLocalsTyped DEF Ended, DeployInv, DepTypeOK, DPcs
<1>3. LinksRead(w)' /\ CopiedSoFar(w)'
  BY <1>1, NoLocalsTyped DEF LinksRead, CopiedSoFar, Copying, Linkable
<1> QED
  BY <1>2, <1>3, OwnStepInv

LEMMA DeployStartInv ==
  ASSUME DeployInv, NEW w \in Writers, NEW l \in Labels, NEW r \in Releases, DeployStart(w, l, r)
  PROVE  DeployInv'
<1> DEFINE s == [NoLocals EXCEPT !.dest = l, !.rel = r]
<1>1. /\ s \in Locals /\ s.dest = l /\ s.rel = r /\ s.at = 1
      /\ s.cur = NoLink /\ s.prev = NoLink
  BY NoLocalsTyped, FilesCount DEF NoLocals, Locals, Links
<1>2. /\ dpc[w] = "idle" /\ ops' = ops + 1 /\ ops < MaxOps
      /\ dpc' = [dpc EXCEPT ![w] = "copy"] /\ dlocal' = [dlocal EXCEPT ![w] = s]
      /\ bundle' = [bundle EXCEPT ![l] = Empty] /\ named' = named \cup {l}
      /\ UNCHANGED <<current, previous, disturbed>>
  BY DEF DeployStart, Begin
<1> HIDE DEF s
<1>3. l \notin named
  BY DeploymentAssumption DEF DeployStart
<1>4. dpc'[w] = "copy" /\ dlocal'[w] = s
  BY <1>2 DEF DeployInv, DepTypeOK
<1>5. DepTypeOK'
  <2>1. Empty \in [1..Len(Files) -> Content]
    BY DEF Empty, Content
  <2>2. ops' \in 0..MaxOps
    BY <1>2, DeploymentAssumption DEF DeployInv, DepTypeOK
  <2> QED
    BY <1>1, <1>2, <2>1, <2>2 DEF DeployInv, DepTypeOK, DPcs
<1>6. OwnStep(w)
  BY <1>1, <1>2, <1>3, <1>4 DEF OwnStep, DeployInv, DepTypeOK
<1>7. LinksRead(w)'
  BY <1>1, <1>4 DEF LinksRead, Linkable, Copying
<1>8. CopiedSoFar(w)'
  <2>1. ASSUME NEW v \in Writers, v # w, Copying(v)' PROVE dlocal'[v].dest # l
    BY <1>2, <1>3, <2>1 DEF DeployInv, DepTypeOK, CopiedSoFar, Copying
  <2> QED
    BY <1>1, <1>2, <1>4, <2>1, FilesCount DEF CopiedSoFar
<1> QED
  BY <1>2, <1>5, <1>6, <1>7, <1>8, OwnStepInv

LEMMA CopyFileInv ==
  ASSUME DeployInv, NEW w \in Writers, CopyFile(w) PROVE DeployInv'
<1> DEFINE s == dlocal[w]
<1>1. /\ Copying(w) /\ dpc[w] = "copy" /\ s.dest \in named /\ s.dest \in Labels /\ s.at \in 1..4
      /\ s.rel \in Releases /\ s \in Locals
      /\ UNCHANGED <<current, previous, disturbed, named, ops>> /\ DepTypeOK
      /\ s.dest \in disturbed \/ \A f \in 1..Len(Files) : f < s.at => bundle[s.dest][f] = s.rel
      /\ \A v \in Writers : v # w /\ Copying(v) => dlocal[v].dest # s.dest
  BY BundleTypes DEF CopyFile, DeployInv, CopiedSoFar, Copying, DepTypeOK
<1>2. CASE s.at <= Len(Files)
  <2>1. /\ bundle' = [bundle EXCEPT ![s.dest][s.at] = s.rel]
        /\ dlocal' = [dlocal EXCEPT ![w].at = s.at + 1] /\ UNCHANGED dpc
    BY <1>2 DEF CopyFile
  <2>2. /\ bundle'[s.dest] = [bundle[s.dest] EXCEPT ![s.at] = s.rel]
        /\ \A l \in Labels : l # s.dest => bundle'[l] = bundle[l]
        /\ dlocal'[w] = [s EXCEPT !.at = s.at + 1]
        /\ \A v \in Writers : v # w => dlocal'[v] = dlocal[v]
    BY <1>1, <2>1 DEF DepTypeOK
  <2>3. dlocal'[w] \in Locals /\ dlocal'[w].dest = s.dest /\ dlocal'[w].at = s.at + 1
        /\ dlocal'[w].rel = s.rel /\ dlocal'[w].cur = s.cur /\ dlocal'[w].prev = s.prev
    BY <1>1, <1>2, <2>2, FilesCount DEF Locals
  <2>4. DepTypeOK'
    BY <1>1, <1>2, <2>1, <2>2, <2>3, FilesCount DEF DepTypeOK, Content
  <2>5. OwnStep(w)
    BY <1>1, <2>1, <2>2, <2>3 DEF OwnStep, DepTypeOK
  <2>6. LinksRead(w)'
    <3>1. Linkable(s.cur) /\ Linkable(s.prev) /\ Copying(w)'
      BY <1>1, <2>1 DEF DeployInv, LinksRead, Copying
    <3> QED
      BY <2>3, <2>5, <3>1, OthersKept DEF LinksRead
  <2>7. CopiedSoFar(w)'
    <3>1. ASSUME s.dest \notin disturbed, NEW f \in 1..Len(Files), f < s.at + 1
          PROVE  bundle'[s.dest][f] = s.rel
      BY <1>1, <1>2, <2>2, <3>1, FilesCount DEF DepTypeOK
    <3>2. \A v \in Writers : v # w /\ Copying(v)' => dlocal'[v].dest # s.dest
      BY <1>1, <2>1, <2>2 DEF Copying
    <3> QED
      BY <1>1, <2>3, <3>1, <3>2 DEF CopiedSoFar
  <2> QED
    BY <1>1, <2>4, <2>5, <2>6, <2>7, OwnStepInv
<1>3. CASE ~(s.at <= Len(Files))
  <2>1. dpc' = [dpc EXCEPT ![w] = "check"] /\ UNCHANGED <<bundle, dlocal>>
    BY <1>3 DEF CopyFile
  <2>2. DepTypeOK' /\ dpc'[w] = "check" /\ ~Copying(w)' /\ OwnStep(w)
    BY <1>1, <2>1 DEF DepTypeOK, DPcs, Copying, OwnStep
  <2>3. s.dest \in disturbed \/ Whole(bundle[s.dest])
    BY <1>1, <1>3, FilesCount DEF Whole
  <2>4. Linkable(dlocal[w].dest)'
    <3>1. \A v \in Writers : Copying(v)' => dlocal'[v].dest # s.dest
      BY <1>1, <2>1, <2>2 DEF Copying, DepTypeOK
    <3>2. s.dest \in named' /\ (s.dest \in disturbed' \/ Whole(bundle[s.dest])') /\ dlocal' = dlocal
      BY <1>1, <2>1, <2>3 DEF Whole
    <3> QED
      BY <3>1, <3>2 DEF Linkable
  <2>5. \A l : l \in {s.cur, s.prev} => Linkable(l)'
    BY <1>1, <2>2, OthersKept DEF DeployInv, LinksRead
  <2>6. LinksRead(w)' /\ CopiedSoFar(w)'
    BY <2>1, <2>2, <2>4, <2>5 DEF LinksRead, CopiedSoFar
  <2> QED
    BY <1>1, <2>2, <2>6, OwnStepInv
<1> QED
  BY <1>2, <1>3

LEMMA NoLinkLinkable == Linkable(NoLink)
BY DEF Linkable

\* A step of a writer that does not copy, before or after.
LEMMA MoveInv ==
  ASSUME DeployInv, NEW w \in Writers, NEW pc \in DPcs, NEW s \in Locals,
         dpc[w] # "copy", pc # "copy",
         dpc' = [dpc EXCEPT ![w] = pc], dlocal' = [dlocal EXCEPT ![w] = s],
         Linkable(s.dest), Linkable(s.cur), Linkable(s.prev),
         Linkable(current'), current' \in Links, Linkable(previous'), previous' \in Links,
         named' = named, disturbed \subseteq disturbed', disturbed' \subseteq Labels,
         bundle' \in [Labels -> [1..Len(Files) -> Content]],
         \A l \in Labels : bundle'[l] = bundle[l] \/ l \in disturbed',
         ops' \in 0..MaxOps
  PROVE  DeployInv'
<1>1. dpc'[w] = pc /\ dlocal'[w] = s /\ DepTypeOK'
  BY DEF DeployInv, DepTypeOK
<1>2. OwnStep(w)
  BY <1>1 DEF OwnStep, DeployInv, DepTypeOK, Copying
<1>3. LinksRead(w)' /\ CopiedSoFar(w)'
  BY <1>1, <1>2, OthersKept DEF LinksRead, CopiedSoFar, Copying
<1> QED
  BY <1>1, <1>2, <1>3, OwnStepInv

\* Steps that only move links or read them.
LinkStep(w) ==
  CheckCopy(w) \/ ReadLinks(w) \/ UnlinkCurrent(w) \/ LinkCurrent(w) \/ UnlinkPrevious(w)
  \/ LinkPrevious(w) \/ SymlinkFails(w)

LEMMA LinkStepInv ==
  ASSUME DeployInv, NEW w \in Writers, LinkStep(w) PROVE DeployInv'
<1> DEFINE s == dlocal[w]
<1>1. /\ dpc[w] # "copy" /\ DepTypeOK /\ s \in Locals /\ s.dest \in Links
      /\ s.cur \in Links /\ s.prev \in Links
  BY BundleTypes DEF LinkStep, CheckCopy, ReadLinks, UnlinkCurrent, LinkCurrent, UnlinkPrevious,
     LinkPrevious, SymlinkFails, DGoto, DeployInv
<1>2. /\ Linkable(current) /\ current \in Links /\ Linkable(previous) /\ previous \in Links
      /\ Linkable(s.dest) /\ Linkable(s.cur) /\ Linkable(s.prev)
      /\ Linkable(NoLink) /\ NoLink \in Links
  BY <1>1, NoLinkLinkable DEF DeployInv, DepTypeOK, LinksRead, Copying, Links
<1>3. UNCHANGED <<bundle, disturbed, named, ops>>
  BY DEF LinkStep, CheckCopy, ReadLinks, UnlinkCurrent, LinkCurrent, UnlinkPrevious,
     LinkPrevious, SymlinkFails
<1>4. Linkable(current') /\ current' \in Links /\ Linkable(previous') /\ previous' \in Links
  <2>1. current' \in {current, NoLink, s.dest, s.prev}
    BY DEF LinkStep, CheckCopy, ReadLinks, UnlinkCurrent, LinkCurrent, UnlinkPrevious,
       LinkPrevious, SymlinkFails, NewCurrent
  <2>2. previous' \in {previous, NoLink, s.cur}
    BY DEF LinkStep, CheckCopy, ReadLinks, UnlinkCurrent, LinkCurrent, UnlinkPrevious,
       LinkPrevious, SymlinkFails, NewPrevious
  <2> QED
    BY <1>1, <1>2, <2>1, <2>2
<1>5. PICK pc \in DPcs, t \in Locals :
        /\ pc # "copy" /\ dpc' = [dpc EXCEPT ![w] = pc] /\ dlocal' = [dlocal EXCEPT ![w] = t]
        /\ t.dest \in {s.dest, NoLink} /\ {t.cur, t.prev} \subseteq {s.cur, s.prev, current, previous, NoLink}
  <2> DEFINE Target(pc, t) ==
        /\ pc # "copy" /\ dpc' = [dpc EXCEPT ![w] = pc] /\ dlocal' = [dlocal EXCEPT ![w] = t]
        /\ t.dest \in {s.dest, NoLink} /\ {t.cur, t.prev} \subseteq {s.cur, s.prev, current, previous, NoLink}
  <2> SUFFICES \E pc \in DPcs, t \in Locals : Target(pc, t)
    OBVIOUS
  <2>1. CASE Ended(w)
    <3>1. "idle" \in DPcs /\ Target("idle", NoLocals)
      BY <2>1, NoLocalsTyped DEF Ended, DPcs
    <3> QED
      BY <3>1, NoLocalsTyped
  <2>2. ASSUME NEW pc \in DPcs, pc # "copy", dpc' = [dpc EXCEPT ![w] = pc], UNCHANGED dlocal
        PROVE  Target(pc, s)
    BY <1>1, <2>2 DEF DepTypeOK
  <2>3. CASE ReadLinks(w)
    <3> DEFINE t == [s EXCEPT !.cur = current, !.prev = previous]
    <3>1. t \in Locals /\ t.dest = s.dest /\ t.cur = current /\ t.prev = previous
      BY <1>1, <1>2 DEF Locals
    <3>2. dlocal' = [dlocal EXCEPT ![w] = t] /\ dpc' = [dpc EXCEPT ![w] = "current"]
      BY <1>1, <2>3 DEF ReadLinks, DGoto, DepTypeOK
    <3>3. Target("current", t) /\ "current" \in DPcs
      BY <3>1, <3>2 DEF DPcs
    <3> QED
      BY <3>1, <3>3
  <2>4. ASSUME NEW pc \in DPcs, pc # "copy", dpc' = [dpc EXCEPT ![w] = pc],
               dlocal' = [dlocal EXCEPT ![w].todo = {l \in Labels : Exists(l)}]
        PROVE  \E t \in Locals : Target(pc, t)
    <3> DEFINE t == [s EXCEPT !.todo = {l \in Labels : Exists(l)}]
    <3>1. t \in Locals /\ t.dest = s.dest /\ t.cur = s.cur /\ t.prev = s.prev
      BY <1>1 DEF Locals
    <3>2. dlocal' = [dlocal EXCEPT ![w] = t]
      BY <1>1, <2>4 DEF DepTypeOK
    <3> QED
      BY <2>4, <3>1, <3>2
  <2> HIDE DEF Target
  <2>5. CASE CheckCopy(w)
    BY <1>1, <2>1, <2>2, <2>5 DEF CheckCopy, DPcs
  <2>6. CASE UnlinkCurrent(w) \/ UnlinkPrevious(w)
    BY <1>1, <2>2, <2>6 DEF UnlinkCurrent, UnlinkPrevious, DGoto, DPcs
  <2>7. CASE LinkCurrent(w)
    BY <1>1, <2>4, <2>7 DEF LinkCurrent, DPcs
  <2>8. CASE LinkPrevious(w)
    BY <1>1, <2>1, <2>4, <2>8 DEF LinkPrevious, DPcs
  <2>9. CASE SymlinkFails(w)
    BY <2>1, <2>9 DEF SymlinkFails
  <2> QED
    BY <2>3, <2>5, <2>6, <2>7, <2>8, <2>9 DEF LinkStep
<1>6. Linkable(t.dest) /\ Linkable(t.cur) /\ Linkable(t.prev)
  BY <1>2, <1>5
<1> QED
  BY <1>1, <1>3, <1>4, <1>5, <1>6, MoveInv DEF DepTypeOK

LEMMA BeginInv ==
  ASSUME DeployInv, NEW w \in Writers, NEW pc \in DPcs, pc # "copy", NEW s \in Locals, Begin(w, pc, s),
         Linkable(s.dest), Linkable(s.cur), Linkable(s.prev),
         UNCHANGED <<bundle, current, previous, disturbed, named>>
  PROVE  DeployInv'
<1>1. dpc[w] # "copy" /\ dpc' = [dpc EXCEPT ![w] = pc] /\ dlocal' = [dlocal EXCEPT ![w] = s]
  BY DEF Begin
<1>2. ops' \in 0..MaxOps
  BY DeploymentAssumption DEF Begin, DeployInv, DepTypeOK
<1> QED
  BY <1>1, <1>2, MoveInv DEF DeployInv, DepTypeOK

LEMMA RollbackInv ==
  ASSUME DeployInv, NEW w \in Writers, Rollback(w) PROVE DeployInv'
<1> DEFINE s == [NoLocals EXCEPT !.cur = current, !.prev = previous]
<1>1. s \in Locals /\ s.dest = NoLink /\ s.cur = current /\ s.prev = previous
  BY NoLocalsTyped DEF Locals, DeployInv, DepTypeOK
<1>2. Begin(w, "current", s) /\ UNCHANGED <<bundle, current, previous, disturbed, named>>
  BY DEF Rollback
<1> HIDE DEF s
<1>3. "current" \in DPcs
  BY DEF DPcs
<1> QED
  BY <1>1, <1>2, <1>3, BeginInv, NoLinkLinkable DEF DeployInv

LEMMA WebDeployStartInv ==
  ASSUME DeployInv, NEW w \in Writers, NEW r \in Releases, WebDeployStart(w, r) PROVE DeployInv'
<1> DEFINE s == [NoLocals EXCEPT !.rel = r]
<1>1. s \in Locals /\ s.dest = NoLink /\ s.cur = NoLink /\ s.prev = NoLink
  BY NoLocalsTyped DEF Locals
<1>2. Begin(w, "write", s) /\ UNCHANGED <<bundle, current, previous, disturbed, named>>
  BY DEF WebDeployStart
<1> HIDE DEF s
<1>3. "write" \in DPcs
  BY DEF DPcs
<1> QED
  BY <1>1, <1>2, <1>3, BeginInv, NoLinkLinkable

LEMMA PruneInv ==
  ASSUME DeployInv, NEW w \in Writers, Prune(w) PROVE DeployInv'
<1> DEFINE s == dlocal[w]
<1>1. /\ dpc[w] = "prune" /\ s \in Locals /\ s.todo \subseteq Labels /\ DepTypeOK
      /\ Linkable(s.dest) /\ Linkable(s.cur) /\ Linkable(s.prev)
  BY BundleTypes DEF Prune, DeployInv, LinksRead, Copying
<1>2. CASE s.todo = {}
  <2>1. Ended(w) /\ UNCHANGED <<bundle, disturbed, current, previous, named, ops>>
    BY <1>2 DEF Prune
  <2>2. OwnStep(w)
    BY <1>1, <2>1, NoLocalsTyped DEF OwnStep, Ended, Copying, DepTypeOK
  <2> QED
    BY <1>1, <2>1, <2>2, EndedInv DEF DepTypeOK
<1>3. ASSUME NEW l \in s.todo,
             dlocal' = [dlocal EXCEPT ![w].todo = @ \ {l}],
             bundle' = [bundle EXCEPT ![l] = IF l \in KeptTargets(s) THEN @ ELSE NoBundle],
             disturbed' = IF l \in KeptTargets(s) THEN disturbed ELSE disturbed \cup {l},
             UNCHANGED dpc, UNCHANGED <<current, previous, named, ops>>
      PROVE  DeployInv'
  <2> DEFINE t == [s EXCEPT !.todo = s.todo \ {l}]
  <2>1. t \in Locals /\ t.dest = s.dest /\ t.cur = s.cur /\ t.prev = s.prev
    BY <1>1 DEF Locals
  <2>2. dlocal' = [dlocal EXCEPT ![w] = t] /\ dpc' = [dpc EXCEPT ![w] = "prune"] /\ "prune" \in DPcs
    BY <1>1, <1>3 DEF DepTypeOK, DPcs
  <2>3. /\ bundle' \in [Labels -> [1..Len(Files) -> Content]] /\ disturbed' \subseteq Labels
        /\ \A k \in Labels : bundle'[k] = bundle[k] \/ k \in disturbed'
        /\ disturbed \subseteq disturbed'
    <3>1. NoBundle \in [1..Len(Files) -> Content]
      BY DEF NoBundle, Content
    <3> QED
      BY <1>1, <1>3, <3>1 DEF DepTypeOK
  <2>4. UNCHANGED <<current, previous, named, ops>>
    BY <1>3
  <2> HIDE DEF t
  <2> QED
    BY <1>1, <2>1, <2>2, <2>3, <2>4, MoveInv DEF DeployInv, DepTypeOK
<1> QED
  BY <1>2, <1>3 DEF Prune

LEMMA WriteFileInv ==
  ASSUME DeployInv, NEW w \in Writers, WriteFile(w) PROVE DeployInv'
<1> DEFINE s == dlocal[w]
<1>1. /\ dpc[w] = "write" /\ s \in Locals /\ s.at \in 1..4 /\ s.rel \in Releases /\ DepTypeOK
      /\ Linkable(s.dest) /\ Linkable(s.cur) /\ Linkable(s.prev)
      /\ UNCHANGED <<current, previous, named, ops>>
  BY BundleTypes DEF WriteFile, DeployInv, LinksRead, Copying
<1>2. CASE s.at <= Len(Files) /\ Exists(current)
  <2>1. /\ bundle' = [bundle EXCEPT ![current][s.at] = s.rel]
        /\ disturbed' = disturbed \cup {current}
        /\ dlocal' = [dlocal EXCEPT ![w].at = @ + 1] /\ UNCHANGED dpc
    BY <1>2 DEF WriteFile
  <2>2. current \in Labels
    BY <1>1, <1>2 DEF Exists, DepTypeOK, Links
  <2> DEFINE t == [s EXCEPT !.at = s.at + 1]
  <2>3. t \in Locals /\ t.dest = s.dest /\ t.cur = s.cur /\ t.prev = s.prev
    BY <1>1, <1>2, FilesCount DEF Locals
  <2>4. dlocal' = [dlocal EXCEPT ![w] = t] /\ dpc' = [dpc EXCEPT ![w] = "write"] /\ "write" \in DPcs
    BY <1>1, <2>1 DEF DepTypeOK, DPcs
  <2>5. /\ bundle' \in [Labels -> [1..Len(Files) -> Content]] /\ disturbed' \subseteq Labels
        /\ \A k \in Labels : bundle'[k] = bundle[k] \/ k \in disturbed'
        /\ disturbed \subseteq disturbed'
    BY <1>1, <1>2, <2>1, <2>2, FilesCount DEF DepTypeOK, Content
  <2> QED
    BY <1>1, <2>3, <2>4, <2>5, MoveInv DEF DeployInv, DepTypeOK
<1>3. CASE ~(s.at <= Len(Files) /\ Exists(current))
  <2>1. Ended(w) /\ UNCHANGED <<bundle, disturbed>>
    BY <1>3 DEF WriteFile
  <2>2. OwnStep(w)
    BY <1>1, <2>1, NoLocalsTyped DEF OwnStep, Ended, Copying, DepTypeOK
  <2> QED
    BY <1>1, <2>1, <2>2, EndedInv DEF DepTypeOK
<1> QED
  BY <1>2, <1>3

LEMMA AbortInv ==
  ASSUME DeployInv, NEW w \in Writers, Abort(w) PROVE DeployInv'
<1> DEFINE s == dlocal[w]
<1>1. /\ Ended(w) /\ UNCHANGED <<current, previous, named, ops>> /\ bundle' \in TornBy(w)
      /\ disturbed' = disturbed \cup {l \in Labels : bundle'[l] # bundle[l] /\ dpc[w] # "copy"}
      /\ DepTypeOK /\ s.at \in 1..4 /\ CopiedSoFar(w)
  BY BundleTypes DEF Abort, DeployInv
<1>2. /\ bundle' \in [Labels -> [1..Len(Files) -> Content]]
      /\ Copying(w) => \A l \in Labels : bundle'[l] = bundle[l] \/ l = s.dest
  <2>1. CASE bundle' = bundle
    BY <1>1, <2>1 DEF DepTypeOK
  <2>2. CASE Copying(w) /\ s.at <= Len(Files) /\ bundle' = [bundle EXCEPT ![s.dest][s.at] = "torn"]
    <3>1. s.dest \in Labels
      BY <1>1, <2>2 DEF CopiedSoFar, DepTypeOK
    <3> QED
      BY <1>1, <2>2, <3>1, FilesCount DEF DepTypeOK, Content
  <2>3. CASE ~Copying(w) /\ s.at <= Len(Files) /\ Exists(current)
             /\ bundle' = [bundle EXCEPT ![current][s.at] = "torn"]
    <3>1. current \in Labels
      BY <1>1, <2>3 DEF Exists, DepTypeOK, Links
    <3> QED
      BY <1>1, <2>3, <3>1, FilesCount DEF DepTypeOK, Content
  <2>4. ASSUME ~Copying(w), NEW l \in Labels,
               bundle' = [bundle EXCEPT ![l] = [f \in 1..Len(Files) |->
                            IF f = 1 THEN "missing" ELSE bundle[l][f]]]
        PROVE  bundle' \in [Labels -> [1..Len(Files) -> Content]]
    BY <1>1, <2>4 DEF DepTypeOK, Content
  <2>5. s.todo \subseteq Labels
    BY <1>1, BundleTypes
  <2>6. CASE dpc[w] = "copy"
    BY <1>1, <2>1, <2>2, <2>6 DEF TornBy, Copying
  <2>7. CASE dpc[w] = "write"
    BY <1>1, <2>1, <2>3, <2>7 DEF TornBy, Copying
  <2>8. CASE dpc[w] = "prune"
    BY <1>1, <2>1, <2>4, <2>5, <2>8 DEF TornBy, Copying
  <2>9. CASE dpc[w] \notin {"copy", "write", "prune"}
    BY <1>1, <2>1, <2>9 DEF TornBy
  <2> QED
    BY <2>6, <2>7, <2>8, <2>9
<1>3. OwnStep(w)
  <2>1. dpc'[w] = "idle" /\ \A v \in Writers : v # w => dpc'[v] = dpc[v] /\ dlocal'[v] = dlocal[v]
    BY <1>1 DEF Ended, DepTypeOK
  <2> QED
    BY <1>1, <1>2, <2>1 DEF OwnStep, Copying, DepTypeOK
<1>4. disturbed' \subseteq Labels
  BY <1>1 DEF DepTypeOK
<1> QED
  BY <1>1, <1>2, <1>3, <1>4, EndedInv

LEMMA DeployInitInv == DepInit => DeployInv
<1> SUFFICES ASSUME DepInit PROVE DeployInv
  OBVIOUS
<1>1. DepTypeOK
  BY NoLocalsTyped, DeploymentAssumption DEF DepInit, DepTypeOK, NoBundle, Content, Links, DPcs
<1>2. \A w \in Writers : LinksRead(w) /\ CopiedSoFar(w)
  BY NoLocalsTyped DEF DepInit, LinksRead, CopiedSoFar, Copying, Linkable
<1> QED
  BY <1>1, <1>2 DEF DepInit, DeployInv, Linkable

LEMMA DeployNextInv == DeployInv /\ [DepNext]_depVars => DeployInv'
<1> SUFFICES ASSUME DeployInv, [DepNext]_depVars PROVE DeployInv'
  OBVIOUS
<1>1. CASE UNCHANGED depVars
  BY <1>1 DEF depVars, DeployInv, DepTypeOK, Linkable, LinksRead, CopiedSoFar, Copying, Whole
<1>2. CASE DepNext
  <2>1. PICK w \in Writers :
          \/ \E l \in Labels, r \in Releases : DeployStart(w, l, r)
          \/ CopyFile(w) \/ LinkStep(w) \/ Prune(w) \/ Rollback(w)
          \/ \E r \in Releases : WebDeployStart(w, r)
          \/ WriteFile(w) \/ Abort(w)
    BY <1>2 DEF DepNext, LinkStep
  <2> QED
    BY <2>1, DeployStartInv, CopyFileInv, LinkStepInv, PruneInv, RollbackInv, WebDeployStartInv,
       WriteFileInv, AbortInv
<1> QED
  BY <1>1, <1>2

\* bin/trust-runtime/deploy.rs, web/deploy.rs: for any number of commands and swaps
\* of the web server, killed or failing anywhere, neither link names a bundle that
\* was copied only in part: what an operation read from the links or copied and
\* checked is whole, and no operation copies into what another may link.
THEOREM CurrentIsAlwaysWhole == DepSpec => []CurrentIsWhole
<1>1. DeployInv => CurrentIsWhole
  BY DeploymentAssumption DEF DeployInv, DepTypeOK, Linkable, CurrentIsWhole
<1> QED
  BY <1>1, DeployInitInv, DeployNextInv, PTL DEF DepSpec

\* The links and the locals of every operation name labels or nothing.
THEOREM DeploymentTypeCorrect == DepSpec => []DepTypeOK
<1>1. DeployInv => DepTypeOK
  BY DEF DeployInv
<1> QED
  BY <1>1, DeployInitInv, DeployNextInv, PTL DEF DepSpec
=============================================================================
