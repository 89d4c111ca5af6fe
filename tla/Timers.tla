------------------------------- MODULE Timers -------------------------------
(***************************************************************************)
(* The standard timers TON, TOF and TP:                                    *)
(* crates/trust-runtime/src/stdlib/fbs/timers.rs.                          *)
(*                                                                         *)
(* A program calls one instance of each with the same inputs.  A call      *)
(* measures the time since the previous call of the instance, so what a    *)
(* timer does depends on when it is called and not only on its inputs: the *)
(* model lets any time pass between calls.  The variable age is history:   *)
(* how long ago, in real time, what the specification of the timers speaks *)
(* about happened.                                                         *)
(***************************************************************************)
EXTENDS Integers

CONSTANTS
  PTs,         \* the preset times a program may pass; negative ones included
  Steps,       \* how much time may pass at once
  CanRestart,  \* warm restarts with the instances kept (RETAIN) and time at zero
  Never,       \* STATE_LAST_TIME is not set: the instance has not been called
  MaxTime,     \* bound: runtime time stops here
  Cap          \* bound: ages are counted up to here

ASSUME TimerAssumption ==
  /\ PTs \subseteq Int /\ Steps \subseteq Nat \ {0}
  /\ CanRestart \in BOOLEAN /\ Never \notin Nat
  /\ MaxTime \in Nat /\ Cap \in Nat
  /\ \A p \in PTs : p < Cap

VARIABLES
  now,   \* Runtime.current_time
  last,  \* STATE_LAST_TIME
  in,    \* IN at the last call
  pt,    \* PT at the last call, normalised
  ton,   \* Q and ET of the TON
  tof,   \* Q, ET, STATE_PREV_IN and STATE_TIMING of the TOF
  tp,    \* Q, ET, STATE_PREV_IN and STATE_ACTIVE of the TP
  steady,\* one PT for all calls so far, and time never set back (history)
  minPt, \* the smallest PT since the last call with IN (history)
  age    \* time since the last call without IN (low), with IN (high), the call
         \* that saw IN rise (rise), the call before it (pulse), and the call
         \* that turned the TP on (start); Cap: long ago, or never (history)

vars == <<now, last, in, pt, ton, tof, tp, steady, minPt, age>>

Lesser(a, b)  == IF a <= b THEN a ELSE b
Greater(a, b) == IF a >= b THEN a ELSE b

Times == {Greater(p, 0) : p \in PTs} \cup {0}
Ages  == [low : 0..Cap, high : 0..Cap, rise : 0..Cap, pulse : 0..Cap, start : 0..Cap]

TypeOK ==
  /\ now \in Nat /\ last \in Nat \cup {Never}
  /\ in \in BOOLEAN /\ pt \in Times /\ minPt \in Times
  /\ steady \in BOOLEAN
  /\ ton \in [q : BOOLEAN, et : Nat]
  /\ tof \in [q : BOOLEAN, et : Nat, prev : BOOLEAN, timing : BOOLEAN]
  /\ tp \in [q : BOOLEAN, et : Nat, prev : BOOLEAN, active : BOOLEAN]
  /\ age \in Ages

Init ==
  /\ now = 0 /\ last = Never /\ in = FALSE /\ pt = 0 /\ minPt = 0
  /\ steady = TRUE
  /\ ton = [q |-> FALSE, et |-> 0]
  /\ tof = [q |-> FALSE, et |-> 0, prev |-> FALSE, timing |-> FALSE]
  /\ tp = [q |-> FALSE, et |-> 0, prev |-> FALSE, active |-> FALSE]
  /\ age = [low |-> 0, high |-> Cap, rise |-> Cap, pulse |-> Cap, start |-> Cap]

-----------------------------------------------------------------------------
(***************************************************************************)
(* One call.  ET is stored as it is output: not above PT.                  *)
(***************************************************************************)
normalize_duration(p) == Greater(p, 0)

\* Variant: time that was set back is counted.
elapsed_absolute ==
  IF last = Never THEN 0 ELSE Greater(now - last, last - now)

elapsed_since == IF last = Never THEN 0 ELSE Greater(now - last, 0)

TonStep(i, p, d) ==
  LET e == IF i THEN ton.et + d ELSE 0
  IN  [q |-> i /\ e >= p, et |-> Lesser(e, p)]

TofStep(i, p, d) ==
  LET timing == tof.prev \/ tof.timing
      e      == (IF tof.prev THEN 0 ELSE tof.et) + d
  IN  IF i THEN [q |-> TRUE, et |-> 0, prev |-> TRUE, timing |-> FALSE]
      ELSE [q |-> timing /\ e < p, et |-> IF timing THEN Lesser(e, p) ELSE 0,
            prev |-> FALSE, timing |-> timing /\ e < p]

\* Variant: the pulse ends one call late.
TpStepLate(i, p, d) ==
  LET rising == i /\ ~tp.prev
      e      == (IF rising THEN 0 ELSE tp.et) + d
      active == (rising \/ tp.active) /\ e <= p
  IN  [q |-> active, et |-> IF active THEN e ELSE 0, prev |-> i, active |-> active]

TpStep(i, p, d) ==
  LET rising == i /\ ~tp.prev
      e      == (IF rising THEN 0 ELSE tp.et) + d
      active == (rising \/ tp.active) /\ e < p
  IN  [q |-> active, et |-> IF active THEN e ELSE 0, prev |-> i, active |-> active]

\* What the call means for the ages: a first call has no call before it.
Noted(i) ==
  LET rising == i /\ ~in
  IN  [low   |-> IF ~i \/ last = Never THEN 0 ELSE age.low,
       high  |-> IF i THEN 0 ELSE age.high,
       rise  |-> IF rising THEN 0 ELSE age.rise,
       pulse |-> IF ~rising THEN age.pulse ELSE IF last = Never THEN 0 ELSE age.low,
       start |-> IF tp'.q /\ ~tp.q THEN 0 ELSE age.start]

\* exec_ton, exec_tof and exec_tp, with the same inputs.
Call(i, p0) ==
  LET p == normalize_duration(p0)
      d == elapsed_since
  IN  /\ ton' = TonStep(i, p, d)
      /\ tof' = TofStep(i, p, d)
      /\ tp' = TpStep(i, p, d)
      /\ last' = now
      /\ in' = i /\ pt' = p
      /\ steady' = (steady /\ (last # Never => p = pt))
      /\ minPt' = IF i THEN p ELSE Lesser(minPt, p)
      /\ age' = Noted(i)
      /\ UNCHANGED now

Aged(a, d) == Lesser(a + d, Cap)

Advance(d) ==
  /\ now + d <= MaxTime
  /\ now' = now + d
  /\ age' = IF last = Never THEN age
            ELSE [low   |-> Aged(age.low, d),   high  |-> Aged(age.high, d),
                  rise  |-> Aged(age.rise, d),  pulse |-> Aged(age.pulse, d),
                  start |-> Aged(age.start, d)]
  /\ UNCHANGED <<last, in, pt, ton, tof, tp, steady, minPt>>

\* Runtime::restart(Warm) keeps the instance of a RETAIN global and sets the
\* time to zero.
Restart ==
  /\ CanRestart
  /\ now' = 0 /\ steady' = FALSE
  /\ UNCHANGED <<last, in, pt, ton, tof, tp, minPt, age>>

Next ==
  \/ \E i \in BOOLEAN, p \in PTs : Call(i, p)
  \/ \E d \in Steps : Advance(d)
  \/ Restart

Spec == Init /\ [][Next]_vars

-----------------------------------------------------------------------------
(***************************************************************************)
(* Properties.                                                             *)
(***************************************************************************)
\* A TON is on only while every call for at least PT had IN, however PT
\* changes between calls and whatever restarts do to the time: the delay
\* counts from the last call without IN.
TonNotEarly == ton.q => in /\ age.low >= pt

\* A TOF that was on goes off only if the last call with IN is at least PT
\* ago (the smallest PT it was given since then).
TofNotEarly == ~tof.q => ~in /\ age.high >= minPt

\* While PT stays and time is not set back, the outputs at a call are a function
\* of the moments of the calls: TON and TOF switch at the first call PT after
\* the last call without, with IN; the pulse ends at the first call PT after the
\* call before the one that saw IN rise.  Nothing is lost or added by summing up
\* the times between calls.
TimersExact ==
  steady /\ last = now =>
    /\ ton.q = (in /\ age.low >= pt)
    /\ tof.q = (in \/ age.high < pt)
    /\ tp.q = (age.pulse < pt)
    /\ ton.et = IF in THEN Lesser(age.low, pt) ELSE 0

-----------------------------------------------------------------------------
(***************************************************************************)
(* Statements of the documentation that the code does not keep: TLC finds  *)
(* each of them violated, README.md says how.                              *)
(***************************************************************************)
\* "Q goes TRUE after IN has been TRUE for duration PT."
TonFullDelay == ton.q => age.rise >= pt

\* "Q stays TRUE for full PT duration regardless of IN changes."
TpFullPulse == ~tp.q => age.rise >= pt

\* "Generates a fixed-duration pulse": at a call PT after the one that turned Q
\* on, Q is off.
TpFixedPulse == last = now /\ tp.q => age.start < pt
=============================================================================
