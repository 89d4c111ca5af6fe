------------------------ MODULE StandardLibraryProofs ------------------------
(***************************************************************************)
(* Proofs about the standard library: TON and TOF do not switch early, for *)
(* all preset times, call patterns and restarts, all three timers are      *)
(* exact while PT stays, the counters miss no edge, for every integer      *)
(* type, and the functions on strings agree for texts of every length.     *)
(*                                                                         *)
(* What makes the two bounds of the timers inductive is that the stored ET *)
(* plus the time the next call will add never exceeds the real age of the  *)
(* call the delay counts from.                                             *)
(***************************************************************************)
EXTENDS Timers, FunctionBlocks, StringFunctions, SequenceTheorems, WellFoundedInduction, TLAPS

\* What the next call would have counted is no more than the age a, unless
\* the age has reached the bound.
Covers(e, a) == a = Cap \/ e + elapsed_since <= a

TonCovered == Covers(ton.et, age.low)

TofCovered == /\ in => Covers(0, age.high)
              /\ tof.timing => Covers(tof.et, age.high)

TofState == tof.prev = in /\ tof.q = (in \/ tof.timing)

NotCalled == last = Never => ton.et = 0 /\ ~in /\ ~tof.timing

IInv == /\ TypeOK /\ TonCovered /\ TofCovered /\ TofState /\ NotCalled
        /\ TonNotEarly /\ TofNotEarly

-----------------------------------------------------------------------------
\* The time a call counts is not negative.
LEMMA ElapsedType == TypeOK => elapsed_since \in Nat
BY TimerAssumption DEF TypeOK, elapsed_since, Greater

\* A normalised preset time is a number between zero and the bound of the ages.
LEMMA TimesType ==
  /\ Times \subseteq Nat
  /\ \A t \in Times : t <= Cap
  /\ \A p \in PTs : normalize_duration(p) \in Times
BY TimerAssumption DEF Times, normalize_duration, Greater

\* Ages stay in range and do not shrink.
LEMMA AgedType ==
  ASSUME NEW a \in 0..Cap, NEW d \in Nat
  PROVE  /\ Aged(a, d) \in 0..Cap /\ Aged(a, d) >= a
         /\ Aged(a, d) = Cap \/ Aged(a, d) = a + d
BY TimerAssumption DEF Aged, Lesser

\* The initial state satisfies the invariant.
LEMMA InitIInv == Init => IInv
<1> SUFFICES ASSUME Init PROVE IInv
  OBVIOUS
<1>1. TypeOK
  <2>1. age \in Ages
    BY TimerAssumption DEF Init, Ages
  <2>2. 0 \in Times
    BY DEF Times
  <2> QED
    BY <2>1, <2>2 DEF Init, TypeOK
<1>2. TonCovered /\ TofCovered /\ TofState /\ NotCalled
  <2>1. elapsed_since = 0 /\ ton.et = 0 /\ age.low = 0
    BY DEF Init, elapsed_since
  <2>2. tof.prev = FALSE /\ tof.timing = FALSE /\ tof.q = FALSE /\ in = FALSE
    BY DEF Init
  <2>3. TonCovered
    BY <2>1 DEF TonCovered, Covers
  <2>4. TofState
    BY <2>2, Zenon DEF TofState
  <2>5. TofCovered /\ NotCalled
    BY <2>1, <2>2 DEF TofCovered, NotCalled
  <2> QED
    BY <2>3, <2>4, <2>5
<1>3. TonNotEarly /\ TofNotEarly
  BY TimerAssumption DEF Init, TonNotEarly, TofNotEarly
<1> QED
  BY <1>1, <1>2, <1>3 DEF IInv

-----------------------------------------------------------------------------
\* A call keeps the types.
LEMMA CallType ==
  ASSUME TypeOK, NEW i \in BOOLEAN, NEW p0 \in PTs, Call(i, p0)
  PROVE  TypeOK'
<1> DEFINE p == normalize_duration(p0)
           d == elapsed_since
<1>1. p \in Times /\ p \in Nat /\ d \in Nat /\ minPt \in Nat
  BY ElapsedType, TimesType DEF TypeOK
<1> HIDE DEF p, d
<1>2. /\ ton' = TonStep(i, p, d) /\ tof' = TofStep(i, p, d) /\ tp' = TpStep(i, p, d)
      /\ last' = now /\ now' = now /\ in' = i /\ pt' = p
      /\ minPt' = (IF i THEN p ELSE Lesser(minPt, p)) /\ age' = Noted(i)
  BY DEF Call, p, d
<1>3. ton' \in [q : BOOLEAN, et : Nat]
  BY <1>1, <1>2 DEF TypeOK, TonStep, Lesser
<1>4. tof' \in [q : BOOLEAN, et : Nat, prev : BOOLEAN, timing : BOOLEAN]
  BY <1>1, <1>2 DEF TypeOK, TofStep, Lesser
<1>5. tp' \in [q : BOOLEAN, et : Nat, prev : BOOLEAN, active : BOOLEAN]
  BY <1>1, <1>2 DEF TypeOK, TpStep
<1>6. age' \in Ages
  BY <1>2, TimerAssumption DEF TypeOK, Noted, Ages
<1>7. pt' \in Times /\ minPt' \in Times /\ in' \in BOOLEAN
  BY <1>1, <1>2 DEF TypeOK, Lesser
<1>8. steady' \in BOOLEAN
  BY DEF Call
<1> QED
  BY <1>2, <1>3, <1>4, <1>5, <1>6, <1>7, <1>8 DEF TypeOK

\* A call keeps the invariant.
LEMMA CallIInv ==
  ASSUME IInv, NEW i \in BOOLEAN, NEW p0 \in PTs, Call(i, p0)
  PROVE  IInv'
<1> DEFINE p == normalize_duration(p0)
           d == elapsed_since
<1>0. TypeOK /\ TypeOK'
  BY CallType DEF IInv
<1>1. p \in Nat /\ p <= Cap /\ d \in Nat /\ minPt \in Nat
  BY <1>0, ElapsedType, TimesType DEF TypeOK
<1>n. last = Never => d = 0
  BY DEF elapsed_since
<1>c. /\ age.low = Cap \/ ton.et + d <= age.low
      /\ in => age.high = Cap \/ d <= age.high
      /\ tof.timing => age.high = Cap \/ tof.et + d <= age.high
  <2>1. 0 + d = d
    BY <1>1
  <2> QED
    BY <2>1 DEF IInv, TonCovered, TofCovered, Covers
<1> HIDE DEF p, d
<1>2. /\ ton' = TonStep(i, p, d) /\ tof' = TofStep(i, p, d)
      /\ last' = now /\ now' = now /\ in' = i /\ pt' = p
      /\ minPt' = (IF i THEN p ELSE Lesser(minPt, p)) /\ age' = Noted(i)
  BY DEF Call, p, d
<1>3. elapsed_since' = 0 /\ last' # Never
  BY <1>0, <1>2, TimerAssumption DEF TypeOK, elapsed_since, Greater
<1>4. age'.low = (IF ~i \/ last = Never THEN 0 ELSE age.low)
      /\ age'.high = (IF i THEN 0 ELSE age.high)
  BY <1>2 DEF Noted
<1>5. TonCovered' /\ TonNotEarly'
  <2>1. ton'.q => i /\ ton.et + d >= p
    BY <1>2 DEF TonStep
  <2>2. ton'.et = Lesser(IF i THEN ton.et + d ELSE 0, p)
    BY <1>2 DEF TonStep
  <2>3. CASE ~i
    <3>1. ton'.et = 0 /\ ~ton'.q
      BY <1>1, <2>1, <2>2, <2>3 DEF Lesser
    <3> QED
      BY <1>3, <1>4, <2>3, <3>1 DEF TonCovered, TonNotEarly, Covers
  <2>4. CASE i /\ last = Never
    <3>1. ton.et + d = 0
      BY <1>n, <2>4 DEF IInv, NotCalled
    <3>2. ton'.et = 0 /\ (ton'.q => 0 >= p)
      BY <1>1, <2>1, <2>2, <2>4, <3>1 DEF Lesser
    <3>3. TonCovered'
      BY <1>3, <1>4, <2>4, <3>2 DEF TonCovered, Covers
    <3>4. age'.low = 0 /\ pt' = p /\ (0 >= p => p = 0)
      BY <1>1, <1>2, <1>4, <2>4
    <3>5. 0 >= 0 /\ in'
      BY <1>2, <2>4
    <3>6. ton'.q => age'.low >= pt'
      BY <3>2, <3>4
    <3> QED
      BY <3>3, <3>5, <3>6 DEF TonNotEarly
  <2>5. CASE i /\ last # Never
    <3>1. ton.et \in Nat /\ age.low \in 0..Cap
      BY <1>0 DEF TypeOK, Ages
    <3>2. ton'.et <= ton.et + d /\ ton'.et \in Nat /\ (ton'.q => ton.et + d >= p)
      BY <1>1, <2>1, <2>2, <2>5, <3>1 DEF Lesser
    <3>3. age'.low = age.low
      BY <1>4, <2>5
    <3>4. TonCovered'
      BY <1>1, <1>3, <1>c, <3>1, <3>2, <3>3 DEF TonCovered, Covers
    <3>5. TonNotEarly'
      <4>1. ton.et + d >= p => age.low >= p
        BY <1>1, <1>c, <3>1, TimerAssumption
      <4>2. pt' = p /\ in'
        BY <1>2, <2>5
      <4> QED
        BY <3>2, <3>3, <4>1, <4>2 DEF TonNotEarly
    <3> QED
      BY <3>4, <3>5
  <2> QED
    BY <2>3, <2>4, <2>5
<1>6. TofCovered' /\ TofState' /\ TofNotEarly'
  <2>1. CASE i
    <3>1. tof'.q /\ tof'.prev /\ ~tof'.timing
      BY <1>2, <2>1 DEF TofStep
    <3>2. tof'.q = TRUE /\ tof'.prev = TRUE /\ tof'.timing = FALSE /\ in' = TRUE
      BY <1>2, <2>1 DEF TofStep
    <3>3. age'.high = 0 /\ 0 + elapsed_since' <= 0
      BY <1>3, <1>4, <2>1
    <3>4. TofCovered' /\ TofNotEarly'
      BY <3>1, <3>3 DEF TofCovered, TofNotEarly, Covers
    <3>5. TofState'
      BY <3>2, Zenon DEF TofState
    <3> QED
      BY <3>4, <3>5
  <2>2. CASE ~i
    <3> DEFINE e == (IF in THEN 0 ELSE tof.et) + d
    <3>1. tof.et \in Nat /\ age.high \in 0..Cap /\ tof.prev = in /\ in \in BOOLEAN
          /\ tof.timing \in BOOLEAN
      BY <1>0 DEF TypeOK, Ages, IInv, TofState
    <3>2. e \in Nat /\ ((in \/ tof.timing) => age.high = Cap \/ e <= age.high)
      BY <1>1, <1>c, <3>1
    <3> HIDE DEF e
    <3>3. /\ tof'.q = ((in \/ tof.timing) /\ e < p)
          /\ tof'.timing = ((in \/ tof.timing) /\ e < p)
          /\ tof'.et = (IF in \/ tof.timing THEN Lesser(e, p) ELSE 0)
          /\ tof'.prev = FALSE
      BY <1>2, <2>2, <3>1 DEF TofStep, e
    <3>4. in' = FALSE /\ age'.high = age.high /\ minPt' = Lesser(minPt, p)
      BY <1>2, <1>4, <2>2
    <3>5. TofState'
      BY <3>3, <3>4 DEF TofState
    <3>6. TofCovered'
      BY <1>1, <1>3, <3>1, <3>2, <3>3, <3>4 DEF TofCovered, Covers, Lesser
    <3>7. ASSUME ~tof'.q PROVE age'.high >= minPt'
      <4>1. CASE in \/ tof.timing
        BY <1>1, <3>1, <3>2, <3>3, <3>4, <3>7, <4>1, TimerAssumption DEF Lesser
      <4>2. CASE ~(in \/ tof.timing)
        BY <1>1, <3>1, <3>4, <4>2 DEF IInv, TofState, TofNotEarly, Lesser
      <4> QED
        BY <4>1, <4>2
    <3> QED
      BY <3>4, <3>5, <3>6, <3>7 DEF TofNotEarly
  <2> QED
    BY <2>1, <2>2
<1> QED
  BY <1>0, <1>3, <1>5, <1>6 DEF IInv, NotCalled

\* Time that passes between calls keeps the invariant.
LEMMA AdvanceIInv ==
  ASSUME IInv, NEW d \in Steps, Advance(d) PROVE IInv'
<1>0. TypeOK /\ d \in Nat
  BY TimerAssumption DEF IInv
<1>1. /\ now' = now + d /\ last' = last /\ in' = in /\ pt' = pt /\ ton' = ton
      /\ tof' = tof /\ tp' = tp /\ minPt' = minPt /\ steady' = steady
  BY DEF Advance
<1>2. /\ age' \in Ages
      /\ age'.low >= age.low /\ age'.high >= age.high
      /\ last # Never => /\ age'.low = Cap \/ age'.low = age.low + d
                         /\ age'.high = Cap \/ age'.high = age.high + d
      /\ last = Never => age' = age
  <2>1. CASE last = Never
    BY <1>0, <2>1 DEF Advance, TypeOK, Ages
  <2>2. CASE last # Never
    <3>1. age' = [low   |-> Aged(age.low, d),   high  |-> Aged(age.high, d),
                  rise  |-> Aged(age.rise, d),  pulse |-> Aged(age.pulse, d),
                  start |-> Aged(age.start, d)]
      BY <2>2 DEF Advance
    <3>2. /\ age.low \in 0..Cap /\ age.high \in 0..Cap /\ age.rise \in 0..Cap
          /\ age.pulse \in 0..Cap /\ age.start \in 0..Cap
      BY <1>0 DEF TypeOK, Ages
    <3>3. age' \in Ages
      BY <1>0, <3>1, <3>2, AgedType DEF Ages
    <3>4. age'.low = Aged(age.low, d) /\ age'.high = Aged(age.high, d)
      BY <3>1
    <3> QED
      BY <1>0, <2>2, <3>2, <3>3, <3>4, AgedType
  <2> QED
    BY <2>1, <2>2
<1>3. TypeOK'
  BY <1>0, <1>1, <1>2 DEF TypeOK
<1>4. /\ last = Never => elapsed_since' = 0 /\ elapsed_since = 0
      /\ elapsed_since' <= elapsed_since + d
      /\ elapsed_since \in Nat /\ elapsed_since' \in Nat
  BY <1>0, <1>1, TimerAssumption DEF TypeOK, elapsed_since, Greater
<1>5. ASSUME NEW e \in Nat, Covers(e, age.low)
      PROVE  age'.low = Cap \/ e + elapsed_since' <= age'.low
  BY <1>0, <1>2, <1>4, <1>5 DEF Covers, TypeOK, Ages
<1>6. ASSUME NEW e \in Nat, Covers(e, age.high)
      PROVE  age'.high = Cap \/ e + elapsed_since' <= age'.high
  BY <1>0, <1>2, <1>4, <1>6 DEF Covers, TypeOK, Ages
<1>7. TonCovered' /\ TofCovered'
  BY <1>0, <1>1, <1>5, <1>6 DEF IInv, TonCovered, TofCovered, Covers, TypeOK
<1>8. TofState' /\ NotCalled'
  BY <1>1 DEF IInv, TofState, NotCalled
<1>9. TonNotEarly' /\ TofNotEarly'
  BY <1>0, <1>1, <1>2, TimesType DEF IInv, TonNotEarly, TofNotEarly, TypeOK, Ages
<1> QED
  BY <1>3, <1>7, <1>8, <1>9 DEF IInv

\* Time that is set back keeps the invariant.
LEMMA RestartIInv ==
  ASSUME IInv, Restart PROVE IInv'
<1>1. /\ now' = 0 /\ last' = last /\ in' = in /\ pt' = pt /\ ton' = ton
      /\ tof' = tof /\ tp' = tp /\ minPt' = minPt /\ age' = age
      /\ steady' = FALSE
  BY DEF Restart
<1>2. elapsed_since' = 0 /\ elapsed_since \in Nat
  BY <1>1, ElapsedType, TimerAssumption DEF IInv, TypeOK, elapsed_since, Greater
<1>3. TypeOK'
  BY <1>1 DEF IInv, TypeOK
<1>4. TonCovered' /\ TofCovered'
  BY <1>1, <1>2 DEF IInv, TypeOK, Ages, TonCovered, TofCovered, Covers
<1> QED
  BY <1>1, <1>3, <1>4 DEF IInv, TofState, NotCalled, TonNotEarly, TofNotEarly

\* Every step keeps the invariant.
LEMMA NextIInv == IInv /\ [Next]_vars => IInv'
<1>1. CASE UNCHANGED vars
  <2>1. IInv => elapsed_since' = elapsed_since
    BY <1>1 DEF vars, elapsed_since
  <2> QED
    BY <1>1, <2>1 DEF vars, IInv, TypeOK, TonCovered, TofCovered, Covers, TofState,
       NotCalled, TonNotEarly, TofNotEarly
<1> QED
  BY <1>1, CallIInv, AdvanceIInv, RestartIInv DEF Next

\* The invariant holds in every reachable state, for every set of preset times
\* and every pattern of calls.
THEOREM TimersInvariance == Spec => []IInv
BY InitIInv, NextIInv, PTL DEF Spec

\* Every reachable state is typed: no elapsed time is negative.
THEOREM TimersTypeCorrect == Spec => []TypeOK
<1>1. IInv => TypeOK
  BY DEF IInv
<1> QED
  BY <1>1, TimersInvariance, PTL

\* A TON is on only if every call for at least PT had IN.
THEOREM TonIsNeverEarly == Spec => []TonNotEarly
<1>1. IInv => TonNotEarly
  BY DEF IInv
<1> QED
  BY <1>1, TimersInvariance, PTL

\* A TOF is off only if the last call with IN is at least PT ago.
THEOREM TofIsNeverEarly == Spec => []TofNotEarly
<1>1. IInv => TofNotEarly
  BY DEF IInv
<1> QED
  BY <1>1, TimersInvariance, PTL

-----------------------------------------------------------------------------
(***************************************************************************)
(* Exactness.  While PT stays and time is not set back, the stored ET plus *)
(* the time the next call will add is the age of the moment the delay      *)
(* counts from, as far as PT can tell: ET is cut off at PT, ages at their  *)
(* bound.                                                                  *)
(***************************************************************************)
Agree(e, a) == e = a \/ (e >= pt /\ a >= pt)

TonExact ==
  /\ ton.et <= pt /\ (ton.q <=> in /\ ton.et >= pt) /\ (~in => ton.et = 0)
  /\ Agree(ton.et + elapsed_since, age.low)

TofExact ==
  /\ in => tof.et = 0
  /\ tof.timing => ~in /\ tof.et < pt
  /\ (in \/ tof.timing) => Agree(tof.et + elapsed_since, age.high)
  /\ ~in /\ ~tof.timing => age.high >= pt

TpExact ==
  /\ tp.active => tp.et < pt /\ Agree(tp.et + elapsed_since, age.pulse)
  /\ ~tp.active => age.pulse >= pt

ExactInv ==
  /\ (tp.prev <=> in) /\ (tp.q <=> tp.active)
  /\ last = Never => ~tp.active /\ age.high = Cap /\ age.pulse = Cap
  /\ steady /\ last # Never => now >= last /\ TonExact /\ TofExact /\ TpExact

LEMMA InitExact == Init => ExactInv
BY DEF Init, ExactInv

LEMMA CallExact ==
  ASSUME IInv, ExactInv, NEW i \in BOOLEAN, NEW p0 \in PTs, Call(i, p0)
  PROVE  ExactInv'
<1> DEFINE p == normalize_duration(p0)
           d == elapsed_since
<1>1. /\ TypeOK /\ p \in Nat /\ p <= Cap /\ d \in Nat
      /\ now \in Nat /\ ton.et \in Nat /\ tof.et \in Nat /\ tp.et \in Nat /\ Cap \in Nat
      /\ age.low \in 0..Cap /\ age.high \in 0..Cap /\ age.pulse \in 0..Cap
      /\ in \in BOOLEAN /\ tof.prev = in
  BY ElapsedType, TimesType, TimerAssumption DEF IInv, TypeOK, Ages, TofState
<1>2. last = Never => /\ d = 0 /\ ton.et = 0 /\ ~in /\ ~tof.timing /\ ~tp.active
                      /\ age.high = Cap /\ age.pulse = Cap
  BY DEF elapsed_since, IInv, NotCalled, ExactInv
<1> HIDE DEF p, d
<1>3. /\ ton' = TonStep(i, p, d) /\ tof' = TofStep(i, p, d) /\ tp' = TpStep(i, p, d)
      /\ last' = now /\ now' = now /\ in' = i /\ pt' = p /\ age' = Noted(i)
      /\ steady' => steady /\ (last # Never => p = pt)
  BY DEF Call, p, d
<1>4. elapsed_since' = 0 /\ last' # Never /\ now' >= last'
  BY <1>1, <1>3, TimerAssumption DEF elapsed_since, Greater
<1>5. /\ age'.low = IF ~i \/ last = Never THEN 0 ELSE age.low
      /\ age'.high = IF i THEN 0 ELSE age.high
      /\ age'.pulse = IF i /\ ~in THEN (IF last = Never THEN 0 ELSE age.low) ELSE age.pulse
  BY <1>3 DEF Noted
<1>6. (tp'.prev <=> in') /\ (tp'.q <=> tp'.active)
  BY <1>3 DEF TpStep
<1>7. CASE ~steady'
  BY <1>4, <1>6, <1>7 DEF ExactInv
<1>8. ASSUME steady' PROVE TonExact' /\ TofExact' /\ TpExact'
  <2>1. last # Never => p = pt /\ TonExact /\ TofExact /\ TpExact
    BY <1>3, <1>8 DEF ExactInv
  <2>2. TonExact'
    <3> DEFINE e == IF i THEN ton.et + d ELSE 0
    <3>1. ton'.et = Lesser(e, p) /\ e \in Nat
      BY <1>1, <1>3 DEF TonStep
    <3>2. ton'.q <=> i /\ e >= p
      <4>1. CASE i
        BY <1>1, <1>3, <3>1, <4>1 DEF TonStep
      <4>2. CASE ~i
        BY <1>3, <4>2 DEF TonStep
      <4> QED
        BY <4>1, <4>2
    <3>3. e = age'.low \/ (e >= p /\ age'.low >= p)
      BY <1>1, <1>2, <1>5, <2>1 DEF TonExact, Agree, d
    <3>4. ~i => e = 0
      OBVIOUS
    <3>5. age'.low \in Nat
      BY <1>1, <1>5
    <3> HIDE DEF e
    <3> QED
      BY <1>1, <1>3, <1>4, <3>1, <3>3, <3>4, <3>5, <3>2 DEF TonExact, Agree, Lesser
  <2>3. TofExact'
    <3>1. CASE i
      <4>1. tof'.et = 0 /\ ~tof'.timing /\ age'.high = 0 /\ in'
        BY <1>3, <1>5, <3>1 DEF TofStep
      <4> QED
        BY <1>4, <4>1 DEF TofExact, Agree
    <3>2. CASE ~i
      <4> DEFINE e == (IF in THEN 0 ELSE tof.et) + d
                 t == in \/ tof.timing
      <4>1. tof' = [q |-> t /\ e < p, et |-> IF t THEN Lesser(e, p) ELSE 0,
                    prev |-> FALSE, timing |-> t /\ e < p]
        BY <1>1, <1>3, <3>2 DEF TofStep
      <4>2. e \in Nat
        BY <1>1
      <4>3. tof'.timing = (t /\ e < p) /\ tof'.et = IF t THEN Lesser(e, p) ELSE 0
        BY <4>1
      <4>4. e \in Nat /\ (tof'.timing <=> t /\ e < p) /\ tof'.et = IF t THEN Lesser(e, p) ELSE 0
        BY <4>2, <4>3, Zenon
      <4>5. t => e = age.high \/ (e >= p /\ age.high >= p)
        BY <1>1, <1>2, <2>1 DEF TofExact, Agree, d
      <4>6. ~t => age.high >= p
        BY <1>1, <1>2, <2>1 DEF TofExact
      <4>7. age'.high = age.high /\ ~in'
        BY <1>3, <1>5, <3>2
      <4> HIDE DEF e, t
      <4> QED
        BY <1>1, <1>3, <1>4, <4>4, <4>5, <4>6, <4>7 DEF TofExact, Agree, Lesser
    <3> QED
      BY <3>1, <3>2
  <2>4. TpExact'
    <3> DEFINE rising == i /\ ~in
               e == (IF rising THEN 0 ELSE tp.et) + d
    <3>1. tp.prev = in
      BY <1>1 DEF ExactInv, TypeOK
    <3>2. tp' = [q |-> (rising \/ tp.active) /\ e < p,
                 et |-> IF (rising \/ tp.active) /\ e < p THEN e ELSE 0,
                 prev |-> i, active |-> (rising \/ tp.active) /\ e < p]
      BY <1>3, <3>1 DEF TpStep
    <3>3. e \in Nat
      BY <1>1
    <3>4. /\ tp'.active = ((rising \/ tp.active) /\ e < p)
          /\ tp'.et = IF (rising \/ tp.active) /\ e < p THEN e ELSE 0
      BY <3>2
    <3>5. /\ e \in Nat /\ (tp'.active <=> (rising \/ tp.active) /\ e < p)
          /\ tp'.active => tp'.et = e
      BY <3>3, <3>4, Zenon
    <3>6. rising => e = age'.pulse \/ (e >= p /\ age'.pulse >= p)
      BY <1>1, <1>2, <1>5, <2>1 DEF TonExact, Agree, d
    <3>7. ~rising /\ tp.active => e = age'.pulse \/ (e >= p /\ age'.pulse >= p)
      BY <1>1, <1>2, <1>5, <2>1 DEF TpExact, Agree, d
    <3>8. ~rising /\ ~tp.active => age'.pulse >= p
      BY <1>1, <1>2, <1>5, <2>1 DEF TpExact
    <3>9. age'.pulse \in Nat
      BY <1>1, <1>5
    <3> HIDE DEF e, rising
    <3> QED
      BY <1>1, <1>3, <1>4, <3>5, <3>6, <3>7, <3>8, <3>9 DEF TpExact, Agree
  <2> QED
    BY <2>2, <2>3, <2>4
<1> QED
  BY <1>4, <1>6, <1>7, <1>8 DEF ExactInv

LEMMA AdvanceExact ==
  ASSUME IInv, ExactInv, NEW d \in Steps, Advance(d) PROVE ExactInv'
<1>1. /\ TypeOK /\ d \in Nat /\ now \in Nat /\ Cap \in Nat /\ pt \in Nat /\ pt <= Cap
      /\ ton.et \in Nat /\ tof.et \in Nat /\ tp.et \in Nat /\ elapsed_since \in Nat
      /\ age.low \in 0..Cap /\ age.high \in 0..Cap /\ age.pulse \in 0..Cap
  BY ElapsedType, TimesType, TimerAssumption DEF IInv, TypeOK, Ages
<1>2. /\ now' = now + d /\ last' = last /\ in' = in /\ pt' = pt /\ ton' = ton
      /\ tof' = tof /\ tp' = tp /\ steady' = steady
  BY DEF Advance
<1>3. CASE ~steady \/ last = Never
  BY <1>2, <1>3 DEF ExactInv, Advance
<1>4. CASE steady /\ last # Never
  <2>1. /\ age'.low = Aged(age.low, d) /\ age'.high = Aged(age.high, d)
        /\ age'.pulse = Aged(age.pulse, d)
    BY <1>4 DEF Advance
  <2>2. now >= last /\ last \in Nat /\ TonExact /\ TofExact /\ TpExact
    BY <1>1, <1>4 DEF ExactInv, TypeOK
  <2>3. elapsed_since' = elapsed_since + d /\ now' >= last'
    BY <1>1, <1>2, <1>4, <2>2 DEF elapsed_since, Greater
  <2>4. ASSUME NEW e \in Nat, NEW a \in 0..Cap, Agree(e + elapsed_since, a)
        PROVE  \/ e + elapsed_since' = Aged(a, d)
               \/ e + elapsed_since' >= pt /\ Aged(a, d) >= pt
    BY <1>1, <2>3, <2>4 DEF Agree, Aged, Lesser
  <2>5. \A a \in 0..Cap : Aged(a, d) >= a /\ Aged(a, d) \in Nat
    BY <1>1 DEF Aged, Lesser
  <2>6. TonExact'
    BY <1>1, <1>2, <2>1, <2>2, <2>4 DEF TonExact, Agree
  <2>7. TofExact'
    BY <1>1, <1>2, <2>1, <2>2, <2>4, <2>5 DEF TofExact, Agree
  <2>8. TpExact'
    BY <1>1, <1>2, <2>1, <2>2, <2>4, <2>5 DEF TpExact, Agree
  <2> QED
    BY <1>2, <1>4, <2>3, <2>6, <2>7, <2>8 DEF ExactInv
<1> QED
  BY <1>3, <1>4

LEMMA NextExact == IInv /\ ExactInv /\ [Next]_vars => ExactInv'
<1>1. CASE UNCHANGED vars
  <2>1. elapsed_since' = elapsed_since
    BY <1>1 DEF vars, elapsed_since
  <2> QED
    BY <1>1, <2>1 DEF vars, ExactInv, TonExact, TofExact, TpExact, Agree
<1>2. Restart /\ ExactInv => ExactInv'
  BY DEF Restart, ExactInv
<1> QED
  BY <1>1, <1>2, CallExact, AdvanceExact DEF Next

\* stdlib/fbs/timers.rs, exec_ton, exec_tof, exec_tp: for any preset time and any
\* moments of the calls, summing up the times between calls gives the outputs that
\* the moments alone give: nothing is lost, and nothing added, by the cut-off at PT,
\* by calls that are far apart or by those that come at the same time.
THEOREM TimersAreExact == Spec => []TimersExact
<1>1. IInv /\ ExactInv => TimersExact
  <2> SUFFICES ASSUME IInv, ExactInv, steady, last = now
               PROVE  /\ ton.q = (in /\ age.low >= pt)
                      /\ tof.q = (in \/ age.high < pt)
                      /\ tp.q = (age.pulse < pt)
                      /\ ton.et = IF in THEN Lesser(age.low, pt) ELSE 0
    BY DEF TimersExact
  <2>1. /\ ton.q \in BOOLEAN /\ tof.q \in BOOLEAN /\ tp.q \in BOOLEAN /\ in \in BOOLEAN
        /\ pt \in Nat /\ ton.et \in Nat /\ tof.et \in Nat /\ tp.et \in Nat
        /\ age.low \in Nat /\ age.high \in Nat /\ age.pulse \in Nat
    BY TimesType DEF IInv, TypeOK, Ages
  <2>2. last # Never /\ elapsed_since = 0
    BY TimerAssumption DEF IInv, TypeOK, elapsed_since, Greater
  <2>3. TonExact /\ TofExact /\ TpExact
    BY <2>2 DEF ExactInv
  <2>4. ton.q <=> (in /\ age.low >= pt)
    BY <2>1, <2>2, <2>3 DEF TonExact, Agree
  <2>5. tof.q <=> (in \/ age.high < pt)
    <3>1. tof.q <=> (in \/ tof.timing)
      BY DEF IInv, TofState
    <3>2. ~in => (tof.timing <=> age.high < pt)
      BY <2>1, <2>2, <2>3 DEF TofExact, Agree
    <3> QED
      BY <3>1, <3>2
  <2>6. tp.q <=> (age.pulse < pt)
    BY <2>1, <2>2, <2>3 DEF TpExact, Agree, ExactInv
  <2>7. ton.et = IF in THEN Lesser(age.low, pt) ELSE 0
    BY <2>1, <2>2, <2>3 DEF TonExact, Agree, Lesser
  <2>8. ton.q = (in /\ age.low >= pt)
    BY <2>1, <2>4, Zenon
  <2>9. tof.q = (in \/ age.high < pt)
    BY <2>1, <2>5, Zenon
  <2>10. tp.q = (age.pulse < pt)
    BY <2>1, <2>6, SMT
  <2> QED
    BY <2>7, <2>8, <2>9, <2>10
<1> QED
  BY <1>1, InitExact, NextExact, InitIInv, NextIInv, PTL DEF Spec

-----------------------------------------------------------------------------
(***************************************************************************)
(* Counters.  The memory of the edge detector on CU is the one the         *)
(* counters keep for themselves, which ties their counts together.         *)
(***************************************************************************)
SameMemory == rtrig.m = prev.cu

CountInv == FbTypeOK /\ SameMemory /\ CountsEdges

LEMMA StepTypes ==
  /\ 0 \in Values /\ TypeMax \in Values /\ Values \subseteq Int /\ Presets \subseteq Values
  /\ \A cv \in Values : Up(cv) \in Values /\ Down(cv) \in Values
BY CounterAssumption DEF Values, Up, Down

\* The initial state satisfies the invariant.
LEMMA FbInitInv == FbInit => CountInv
<1> SUFFICES ASSUME FbInit PROVE CountInv
  OBVIOUS
<1>1. tally \in [rises : 0..MaxCount, base : Values, net : -MaxCount..MaxCount,
                 limited : BOOLEAN]
  BY StepTypes, CounterAssumption DEF FbInit
<1>2. FbTypeOK
  BY <1>1, StepTypes DEF FbInit, FbTypeOK
<1>3. SameMemory /\ CountsEdges
  BY CounterAssumption DEF FbInit, SameMemory, CountsEdges
<1> QED
  BY <1>2, <1>3 DEF CountInv

\* A call of every block preserves the invariant.
LEMMA FbCallInv ==
  ASSUME CountInv,
         NEW cu \in BOOLEAN, NEW cd \in BOOLEAN, NEW r \in BOOLEAN, NEW ld \in BOOLEAN,
         NEW pv \in Presets,
         FbCall(cu, cd, r, ld, pv)
  PROVE  CountInv'
<1> USE StepTypes
<1> DEFINE up == cu /\ ~prev.cu
           down == cd /\ ~prev.cd
           move == (IF up THEN 1 ELSE 0) - (IF down THEN 1 ELSE 0)
           aim == tally.base + tally.net + move
<1>0. /\ ctu.cv \in Values /\ ctd.cv \in Values /\ ctud.cv \in Values /\ pv \in Values
      /\ prev.cu \in BOOLEAN /\ prev.cd \in BOOLEAN
      /\ tally.rises \in 0..MaxCount /\ tally.base \in Values
      /\ tally.net \in -MaxCount..MaxCount /\ tally.limited \in BOOLEAN
  BY DEF CountInv, FbTypeOK
<1>1. /\ tally'.rises = (IF r THEN 0 ELSE tally.rises + (IF up THEN 1 ELSE 0))
      /\ tally'.base = (IF r THEN 0 ELSE IF ld THEN pv ELSE tally.base)
      /\ tally'.net = (IF r \/ ld THEN 0 ELSE tally.net + move)
      /\ tally'.limited = (~r /\ ~ld /\ (tally.limited \/ aim \notin Values))
  BY DEF FbCall, Tallied, CountInv, SameMemory
<1>2. tally' \in [rises : 0..MaxCount, base : Values, net : -MaxCount..MaxCount,
                  limited : BOOLEAN]
  <2>1. tally'.rises \in Nat /\ tally'.rises <= MaxCount
    BY <1>0, <1>1, CounterAssumption DEF FbCall
  <2>2. tally'.net \in -MaxCount..MaxCount /\ tally'.base \in Values
    BY <1>0, <1>1 DEF FbCall
  <2>3. tally'.limited \in BOOLEAN
    BY <1>1
  <2> QED
    BY <2>1, <2>2, <2>3, CounterAssumption DEF FbCall, Tallied
<1>3. /\ ctu'.cv = (IF r THEN 0 ELSE IF up THEN Up(ctu.cv) ELSE ctu.cv)
      /\ ctu' \in [q : BOOLEAN, cv : Values]
  <2>1. ctu'.cv = (IF r THEN 0 ELSE IF up THEN Up(ctu.cv) ELSE ctu.cv)
    BY DEF FbCall, CtuStep
  <2>2. ctu'.q \in BOOLEAN /\ ctu' = [q |-> ctu'.q, cv |-> ctu'.cv]
    BY DEF FbCall, CtuStep
  <2> QED
    BY <2>1, <2>2, <1>0
<1>4. ctd' \in [q : BOOLEAN, cv : Values]
  <2>1. ctd'.cv \in Values
    BY <1>0 DEF FbCall, CtdStep
  <2>2. ctd'.q \in BOOLEAN /\ ctd' = [q |-> ctd'.q, cv |-> ctd'.cv]
    BY DEF FbCall, CtdStep
  <2> QED
    BY <2>1, <2>2
<1>5. /\ ctud'.cv = (IF r THEN 0 ELSE IF ld THEN pv ELSE IF up /\ down THEN ctud.cv
                     ELSE IF up THEN Up(ctud.cv) ELSE IF down THEN Down(ctud.cv) ELSE ctud.cv)
      /\ ctud' \in [qu : BOOLEAN, qd : BOOLEAN, cv : Values]
  <2>1. ctud'.cv = (IF r THEN 0 ELSE IF ld THEN pv ELSE IF up /\ down THEN ctud.cv
                    ELSE IF up THEN Up(ctud.cv) ELSE IF down THEN Down(ctud.cv) ELSE ctud.cv)
    BY DEF FbCall, CtudStep
  <2>2. /\ ctud'.qu \in BOOLEAN /\ ctud'.qd \in BOOLEAN
        /\ ctud' = [qu |-> ctud'.qu, qd |-> ctud'.qd, cv |-> ctud'.cv]
    BY DEF FbCall, CtudStep
  <2>3. ctud'.cv \in Values
    BY <2>1, <1>0
  <2> QED
    BY <2>1, <2>2, <2>3
<1>6. /\ prev' = [cu |-> cu, cd |-> cd] /\ rtrig'.m = cu
      /\ rtrig' \in [q : BOOLEAN, m : BOOLEAN] /\ ftrig' \in [q : BOOLEAN, m : BOOLEAN]
  <2>1. prev' = [cu |-> cu, cd |-> cd]
    BY DEF FbCall, Remember
  <2>2. rtrig' = [q |-> cu /\ ~rtrig.m, m |-> cu] /\ ftrig' = [q |-> ~cu /\ ~ftrig.m, m |-> ~cu]
    BY DEF FbCall, RTrigStep, FTrigStep
  <2> QED
    BY <2>1, <2>2
<1>7. /\ sr' \in BOOLEAN /\ rs' \in BOOLEAN /\ (rs' => sr')
  <2>1. rs => sr
    BY DEF CountInv, CountsEdges
  <2>2. sr' = (cu \/ (sr /\ ~r)) /\ rs' = (~r /\ (cu \/ rs))
    BY DEF FbCall, SrStep, RsStep
  <2> QED
    BY <2>1, <2>2
<1>8. FbTypeOK'
  BY <1>2, <1>3, <1>4, <1>5, <1>6, <1>7 DEF FbTypeOK
<1>9. SameMemory'
  BY <1>6 DEF SameMemory
<1>10. ctu'.cv = IF tally'.rises <= TypeMax THEN tally'.rises ELSE TypeMax
  <2>1. ctu.cv = IF tally.rises <= TypeMax THEN tally.rises ELSE TypeMax
    BY DEF CountInv, CountsEdges
  <2>2. CASE r
    BY <2>2, <1>1, <1>3, CounterAssumption
  <2>3. CASE ~r /\ ~up
    BY <2>1, <2>3, <1>0, <1>1, <1>3
  <2>4. CASE ~r /\ up
    <3>1. tally'.rises = tally.rises + 1 /\ ctu'.cv = Up(ctu.cv)
      BY <2>4, <1>1, <1>3
    <3> QED
      BY <3>1, <2>1, <1>0, CounterAssumption DEF Up
  <2> QED
    BY <2>2, <2>3, <2>4
<1>11. ~tally'.limited => ctud'.cv = tally'.base + tally'.net
  <2> SUFFICES ASSUME ~tally'.limited PROVE ctud'.cv = tally'.base + tally'.net
    OBVIOUS
  <2>1. CASE r
    BY <2>1, <1>1, <1>5
  <2>2. CASE ~r /\ ld
    BY <2>2, <1>0, <1>1, <1>5
  <2>3. CASE ~r /\ ~ld
    <3>1. ~tally.limited /\ aim \in Values
      BY <2>3, <1>1
    <3>2. ctud.cv = tally.base + tally.net
      BY <3>1 DEF CountInv, CountsEdges
    <3>3. tally'.base = tally.base /\ tally'.net = tally.net + move
      BY <2>3, <1>1
    <3>4. ctud'.cv = ctud.cv + move
      <4>1. ctud.cv + move \in Values
        BY <3>1, <3>2, <1>0
      <4>2. CASE up /\ ~down
        BY <4>1, <4>2, <2>3, <1>0, <1>5, CounterAssumption DEF Up, Values
      <4>3. CASE down /\ ~up
        BY <4>1, <4>3, <2>3, <1>0, <1>5, CounterAssumption DEF Down, Values
      <4>4. CASE (up /\ down) \/ (~up /\ ~down)
        <5>1. move = 0 /\ ctud'.cv = ctud.cv
          BY <4>4, <2>3, <1>5
        <5>2. ctud.cv \in Int
          BY <1>0
        <5> HIDE DEF move
        <5> QED
          BY <5>1, <5>2
      <4> QED
        BY <4>2, <4>3, <4>4
    <3>5. tally.base \in Int /\ tally.net \in Int /\ move \in Int
      <4>1. tally.base \in Int
        BY <1>0
      <4>2. tally.net \in Int
        BY <1>0
      <4>3. move \in Int
        OBVIOUS
      <4> QED
        BY <4>1, <4>2, <4>3
    <3> HIDE DEF move
    <3> QED
      BY <3>2, <3>3, <3>4, <3>5
  <2> QED
    BY <2>1, <2>2, <2>3
<1> QED
  BY <1>7, <1>8, <1>9, <1>10, <1>11 DEF CountInv, CountsEdges

\* The invariant of the counters: types, memory and counts hold for every
\* integer type, preset and sequence of calls.
THEOREM CounterInvariance == FbSpec => []CountInv
<1>1. CountInv /\ [FbNext]_fbVars => CountInv'
  <2> SUFFICES ASSUME CountInv, [FbNext]_fbVars PROVE CountInv'
    OBVIOUS
  <2>1. CASE FbNext
    BY <2>1, FbCallInv DEF FbNext
  <2>2. CASE UNCHANGED fbVars
    BY <2>2 DEF fbVars, CountInv, FbTypeOK, SameMemory, CountsEdges
  <2> QED
    BY <2>1, <2>2
<1> QED
  BY <1>1, FbInitInv, PTL DEF FbSpec

\* counters.rs: every edge is counted once, whatever the type and the calls.
THEOREM EveryEdgeCounts == FbSpec => []CountsEdges
<1>1. CountInv => CountsEdges
  BY DEF CountInv
<1> QED
  BY <1>1, CounterInvariance, PTL

-----------------------------------------------------------------------------
(***************************************************************************)
(* Strings.  Each function takes its text apart at positions that the      *)
(* others, for the same position and length, put together again.           *)
(***************************************************************************)
\* A stretch of a sequence.
LEMMA Stretch ==
  ASSUME NEW S, NEW s \in Seq(S), NEW m \in Int, NEW n \in Int, 1 <= m, n <= Len(s)
  PROVE  /\ SubSeq(s, m, n) \in Seq(S)
         /\ Len(SubSeq(s, m, n)) = IF m <= n THEN n - m + 1 ELSE 0
         /\ \A i \in 1..(n - m + 1) : SubSeq(s, m, n)[i] = s[m + i - 1]
<1>1. \A i \in m..n : s[i] \in S
  <2> TAKE i \in m..n
  <2>1. Len(s) \in Nat
    BY LenProperties
  <2>2. i \in 1..Len(s)
    BY <2>1
  <2> QED
    BY <2>2, ElementOfSeq
<1> QED
  BY ONLY <1>1, m \in Int, n \in Int, SubSeqProperties

\* Cut in two and put together.
LEMMA CutInTwo ==
  ASSUME NEW S, NEW s \in Seq(S), NEW n \in 0..Len(s)
  PROVE  SubSeq(s, 1, n) \o SubSeq(s, n + 1, Len(s)) = s
<1>1. PICK m, L : m = 1 /\ L = Len(s)
  OBVIOUS
<1>2. L \in Nat
  BY <1>1, LenProperties
<1>3. m \in 1..(Len(s) + 1) /\ n \in (m - 1)..Len(s) /\ L \in n..Len(s)
  BY <1>1, <1>2
<1>4. SubSeq(s, m, n) \o SubSeq(s, n + 1, L) = SubSeq(s, m, L)
  BY ONLY <1>3, s \in Seq(S), ConcatAdjacentSubSeq
<1> QED
  BY <1>1, <1>4, SubSeqFull

\* Of two sequences put together each can be cut off again.
LEMMA Ends ==
  ASSUME NEW S, NEW a \in Seq(S), NEW b \in Seq(S)
  PROVE  /\ SubSeq(a \o b, 1, Len(a)) = a
         /\ SubSeq(a \o b, Len(a) + 1, Len(a \o b)) = b
<1>1. PICK u, k, m, n : u = a \o b /\ k = Len(a) /\ m = k + 1 /\ n = Len(u)
  OBVIOUS
<1>2. /\ u \in Seq(S) /\ Len(u) = Len(a) + Len(b)
      /\ \A i \in 1..(Len(a) + Len(b)) : u[i] = IF i <= Len(a) THEN a[i] ELSE b[i - Len(a)]
  BY <1>1, ConcatProperties
<1>3. k \in Nat /\ Len(a) \in Nat /\ Len(b) \in Nat
  BY <1>1, LenProperties
<1>4. PICK o : o = 1
  OBVIOUS
<1>5. /\ SubSeq(u, o, k) \in Seq(S)
      /\ Len(SubSeq(u, o, k)) = IF o <= k THEN k - o + 1 ELSE 0
      /\ \A i \in 1..(k - o + 1) : SubSeq(u, o, k)[i] = u[o + i - 1]
  <2>1. o \in Int /\ k \in Int /\ 1 <= o /\ k <= Len(u)
    BY <1>1, <1>2, <1>3, <1>4
  <2> QED
    BY ONLY <2>1, <1>2, Stretch
<1>6. PICK f : f = SubSeq(u, o, k)
  OBVIOUS
<1>7. f = a
  <2>1. f \in Seq(S) /\ Len(f) = Len(a)
    BY <1>1, <1>3, <1>4, <1>5, <1>6
  <2>2. \A i \in 1..Len(f) : f[i] = a[i]
    <3> TAKE i \in 1..Len(f)
    <3>1. /\ i \in Nat /\ i \in 1..(k - o + 1) /\ o + i - 1 = i
          /\ i <= Len(a) /\ i \in 1..(Len(a) + Len(b))
      BY <1>1, <1>3, <1>4, <2>1
    <3>2. f[i] = u[i]
      BY <1>5, <1>6, <3>1
    <3> QED
      BY <1>2, <3>1, <3>2
  <2> QED
    BY ONLY <2>1, <2>2, a \in Seq(S), SeqEqual
<1>8. /\ SubSeq(u, m, n) \in Seq(S)
      /\ Len(SubSeq(u, m, n)) = IF m <= n THEN n - m + 1 ELSE 0
      /\ \A i \in 1..(n - m + 1) : SubSeq(u, m, n)[i] = u[m + i - 1]
  <2>1. m \in Int /\ n \in Int /\ 1 <= m /\ n <= Len(u)
    BY <1>1, <1>2, <1>3
  <2> QED
    BY ONLY <2>1, <1>2, Stretch
<1>9. PICK g : g = SubSeq(u, m, n)
  OBVIOUS
<1>10. g = b
  <2>1. g \in Seq(S) /\ Len(g) = Len(b)
    BY <1>1, <1>2, <1>3, <1>8, <1>9
  <2>2. \A i \in 1..Len(g) : g[i] = b[i]
    <3> TAKE i \in 1..Len(g)
    <3>1. i \in Nat /\ i \in 1..(n - m + 1) /\ m + i - 1 = k + i /\ ~(k + i <= Len(a))
          /\ k + i \in 1..(Len(a) + Len(b)) /\ k + i - Len(a) = i
      BY <1>1, <1>2, <1>3, <2>1
    <3>2. g[i] = u[k + i]
      BY <1>8, <1>9, <3>1
    <3>3. PICK j : j = k + i
      OBVIOUS
    <3>4. j \in 1..(Len(a) + Len(b)) /\ ~(j <= Len(a)) /\ j - Len(a) = i
      BY <1>1, <1>3, <3>1, <3>3
    <3>5. u[j] = IF j <= Len(a) THEN a[j] ELSE b[j - Len(a)]
      BY ONLY <1>2, <3>4
    <3> QED
      BY <3>1, <3>2, <3>3, <3>4, <3>5
  <2> QED
    BY ONLY <2>1, <2>2, b \in Seq(S), SeqEqual
<1> QED
  BY <1>1, <1>4, <1>6, <1>7, <1>9, <1>10

-----------------------------------------------------------------------------
Symbols == {"a", "h", "t"}
Kinds   == {"STRING", "WSTRING"}

\* A text a variable of the kind can hold.
Held(kind, s) == s \in Seq(Symbols) /\ (kind = "STRING" => Decodes(s))

Answers(a) ==
  [asked   |-> TRUE,
   len     |-> len(a.in1),
   left    |-> left(a.kind, a.in1, a.l),
   right   |-> right(a.kind, a.in1, Len(a.in1) - a.l),
   mid     |-> mid(a.kind, a.in1, a.l, a.p),
   concat  |-> concat(a.in1, a.in2),
   delete  |-> delete(a.kind, a.in1, a.l, a.p),
   replace |-> replace(a.kind, a.in1, a.in2, a.l, a.p),
   find    |-> find(a.in1, a.in2)]

StringInv ==
  /\ args.kind \in Kinds /\ args.l \in Int /\ args.p \in Int
  /\ Held(args.kind, args.in1) /\ Held(args.kind, args.in2)
  /\ outcomes = Unasked \/ outcomes = Answers(args)

LEMMA TextsAreHeld ==
  ASSUME NEW kind \in Kinds, NEW s \in Texts(kind)
  PROVE  Held(kind, s)
<1>1. PICK S : S \subseteq Symbols /\ s \in BoundedSeq(S, MaxText)
  <2>1. CASE kind = "WSTRING"
    BY <2>1 DEF Texts, Symbols
  <2>2. CASE kind = "STRING"
    BY <2>2 DEF Texts, Symbols
  <2> QED
    BY <2>1, <2>2 DEF Kinds
<1>2. PICK n \in 0..MaxText : s \in [1..n -> S]
  BY <1>1 DEF BoundedSeq, SeqOf
<1>3. n \in Nat /\ s \in [1..n -> Symbols]
  BY <1>1, <1>2, StringAssumption
<1>4. s \in Seq(Symbols)
  BY <1>3, SeqDef
<1> QED
  BY <1>4 DEF Held, Texts

\* A text that is held comes back whole.
LEMMA HeldIsText ==
  ASSUME NEW kind \in Kinds, NEW s, Held(kind, s)
  PROVE  Text(kind, s) = Ok(s)
BY DEF Held, Text, Kinds

\* What is not an error is the text itself, and a WSTRING is never one.
LEMMA TextIs ==
  ASSUME NEW kind, NEW s
  PROVE  /\ ~Text(kind, s).error => Text(kind, s) = Ok(s) /\ Text(kind, s).text = s
         /\ kind = "WSTRING" => ~Text(kind, s).error
BY DEF Text, Ok, Error

LEMMA OkIs ==
  ASSUME NEW s
  PROVE  ~Ok(s).error /\ Ok(s).text = s
BY DEF Ok

\* What LEFT and RIGHT take apart CONCAT puts together.
LEMMA LeftAndRight ==
  ASSUME NEW S, NEW s \in Seq(S), NEW kind, NEW l \in Int,
         ~left(kind, s, l).error, ~right(kind, s, Len(s) - l).error
  PROVE  concat(left(kind, s, l).text, right(kind, s, Len(s) - l).text) = Ok(s)
<1>1. PICK n : n = AtMost(AtLeast(l, 0), Len(s))
  OBVIOUS
<1>2. Len(s) \in Nat
  BY LenProperties
<1>3. n \in 0..Len(s) /\ n \in Int /\ Len(s) - AtMost(AtLeast(Len(s) - l, 0), Len(s)) = n
  <2>1. \A i \in Int, L1 \in Nat :
          /\ AtMost(AtLeast(i, 0), L1) \in 0..L1
          /\ L1 - AtMost(AtLeast(L1 - i, 0), L1) = AtMost(AtLeast(i, 0), L1)
    BY DEF AtMost, AtLeast
  <2> QED
    BY ONLY <1>1, <1>2, <2>1, l \in Int
<1>4. SubSeq(s, 1, AtMost(l, Len(s))) = SubSeq(s, 1, n)
  <2>1. CASE l >= 0
    <3>1. AtMost(l, Len(s)) = n
      BY <1>1, <1>2, <2>1 DEF AtMost, AtLeast
    <3> QED
      BY <3>1
  <2>2. CASE l < 0
    <3>1. n = 0 /\ AtMost(l, Len(s)) = l
      BY <1>1, <1>2, <2>2 DEF AtMost, AtLeast
    <3>2. PICK o : o = 1
      OBVIOUS
    <3>3. o \in Int /\ n < o /\ l < o /\ l \in Int
      BY <1>3, <2>2, <3>1, <3>2
    <3>4. SubSeq(s, o, n) = <<>> /\ SubSeq(s, o, l) = <<>>
      BY ONLY <1>3, <3>3, SubSeqEmpty
    <3> QED
      BY <3>1, <3>2, <3>4
  <2>3. l >= 0 \/ l < 0
    BY ONLY l \in Int
  <2> QED
    BY ONLY <2>1, <2>2, <2>3
<1>5. left(kind, s, l).text = SubSeq(s, 1, n)
  BY <1>4, TextIs DEF left
<1>6. right(kind, s, Len(s) - l).text = SubSeq(s, n + 1, Len(s))
  BY <1>3, TextIs DEF right
<1>7. SubSeq(s, 1, n) \o SubSeq(s, n + 1, Len(s)) = s
  BY ONLY <1>3, s \in Seq(S), CutInTwo
<1> QED
  BY <1>5, <1>6, <1>7 DEF concat

\* Where a position inside a text cuts it.
LEMMA Cuts ==
  ASSUME NEW S, NEW s \in Seq(S), NEW l \in Int, NEW p \in 1..Len(s)
  PROVE  /\ Start(p) = p - 1 /\ Start(p) \in 0..Len(s) /\ ~(Start(p) >= Len(s))
         /\ End(s, AtLeast(l, 0), p) \in Start(p)..Len(s)
         /\ l > 0 => AtLeast(l, 0) = l
         /\ l <= 0 => End(s, AtLeast(l, 0), p) = Start(p)
<1>1. Len(s) \in Nat
  BY LenProperties
<1> QED
  BY <1>1 DEF Start, End, AtLeast, AtMost

\* What MID reads, and what DELETE leaves.
LEMMA Taken ==
  ASSUME NEW S, NEW s \in Seq(S), NEW kind \in Kinds, Held(kind, s), NEW l \in Int,
         NEW p \in 1..Len(s)
  PROVE  LET m == Start(p)  n == End(s, AtLeast(l, 0), p)
         IN  /\ ~mid(kind, s, l, p).error => mid(kind, s, l, p).text = SubSeq(s, m + 1, n)
             /\ ~delete(kind, s, l, p).error =>
                  delete(kind, s, l, p).text = SubSeq(s, 1, m) \o SubSeq(s, n + 1, Len(s))
<1> SUFFICES ASSUME NEW m, NEW n, m = Start(p), n = End(s, AtLeast(l, 0), p)
             PROVE  /\ ~mid(kind, s, l, p).error => mid(kind, s, l, p).text = SubSeq(s, m + 1, n)
                    /\ ~delete(kind, s, l, p).error =>
                         delete(kind, s, l, p).text = SubSeq(s, 1, m) \o SubSeq(s, n + 1, Len(s))
  OBVIOUS
<1>1. /\ m = p - 1 /\ m \in 0..Len(s) /\ n \in m..Len(s) /\ ~(m >= Len(s))
      /\ l > 0 => AtLeast(l, 0) = l
      /\ l <= 0 => n = m
  BY Cuts
<1>2. CASE l > 0
  <2>1. ~(l <= 0)
    BY <1>2
  <2>2. mid(kind, s, l, p) = Text(kind, SubSeq(s, m + 1, n))
    BY <1>1, <1>2, <2>1 DEF mid
  <2>3. delete(kind, s, l, p) = Text(kind, SubSeq(s, 1, m) \o SubSeq(s, n + 1, Len(s)))
    BY <1>1, <1>2, <2>1 DEF delete
  <2>4. PICK c, d : c = SubSeq(s, m + 1, n) /\ d = SubSeq(s, 1, m) \o SubSeq(s, n + 1, Len(s))
    OBVIOUS
  <2>5. ~Text(kind, c).error => Text(kind, c).text = c
    BY ONLY TextIs
  <2>6. ~Text(kind, d).error => Text(kind, d).text = d
    BY ONLY TextIs
  <2>7. mid(kind, s, l, p) = Text(kind, c) /\ delete(kind, s, l, p) = Text(kind, d)
    BY ONLY <2>2, <2>3, <2>4
  <2> QED
    BY ONLY <2>4, <2>5, <2>6, <2>7
<1>3. CASE l <= 0
  <2>1. mid(kind, s, l, p) = Ok(<<>>) /\ delete(kind, s, l, p) = Ok(s)
    BY <1>3 DEF mid, delete
  <2>2. SubSeq(s, m + 1, n) = <<>>
    <3>1. PICK o : o = m + 1
      OBVIOUS
    <3>2. Len(s) \in Nat
      BY LenProperties
    <3>3. o \in Int /\ n \in Int /\ n < o
      BY <1>1, <1>3, <3>1, <3>2
    <3>4. SubSeq(s, o, n) = <<>>
      BY ONLY <3>3, SubSeqEmpty
    <3> QED
      BY <3>1, <3>4
  <2>3. SubSeq(s, 1, m) \o SubSeq(s, n + 1, Len(s)) = s
    BY <1>1, <1>3, CutInTwo
  <2> QED
    BY <2>1, <2>2, <2>3, OkIs
<1>4. l > 0 \/ l <= 0
  BY ONLY l \in Int
<1> QED
  BY ONLY <1>2, <1>3, <1>4

\* Where INSERT puts a text, after an element that is there.
LEMMA Inserted ==
  ASSUME NEW u, NEW t, NEW kind, NEW m \in Nat, m <= Len(u), Len(u) \in Nat
  PROVE  insert(kind, u, t, m) = Text(kind, SubSeq(u, 1, m) \o t \o SubSeq(u, m + 1, Len(u)))
<1>1. AtMost(AtLeast(m, 0), Len(u)) = m
  BY DEF AtMost, AtLeast
<1> QED
  BY <1>1 DEF insert

\* INSERT of t where something has been deleted.
LEMMA InsertedBetween ==
  ASSUME NEW S, NEW s \in Seq(S), NEW t, NEW kind, NEW m \in 0..Len(s), NEW n \in m..Len(s)
  PROVE  insert(kind, SubSeq(s, 1, m) \o SubSeq(s, n + 1, Len(s)), t, m)
           = Text(kind, SubSeq(s, 1, m) \o t \o SubSeq(s, n + 1, Len(s)))
<1>1. PICK L, o, q : L = Len(s) /\ o = 1 /\ q = n + 1
  OBVIOUS
<1>2. L \in Nat
  BY <1>1, LenProperties
<1>3. o \in Int /\ 1 <= o /\ m \in Int /\ m <= Len(s) /\ m \in Nat
  BY <1>1, <1>2
<1>4. q \in Int /\ 1 <= q /\ L \in Int /\ L <= Len(s)
  BY <1>1, <1>2
<1>5. PICK a, b : a = SubSeq(s, o, m) /\ b = SubSeq(s, q, L)
  OBVIOUS
<1>6. a \in Seq(S) /\ Len(a) = IF o <= m THEN m - o + 1 ELSE 0
  BY ONLY <1>3, <1>5, s \in Seq(S), Stretch
<1>7. b \in Seq(S)
  BY ONLY <1>4, <1>5, s \in Seq(S), Stretch
<1>8. Len(a) = m
  BY ONLY <1>1, <1>3, <1>6
<1>9. PICK u : u = a \o b
  OBVIOUS
<1>10. SubSeq(u, 1, m) = a /\ SubSeq(u, m + 1, Len(u)) = b
  BY ONLY <1>6, <1>7, <1>8, <1>9, Ends
<1>11. Len(u) = Len(a) + Len(b) /\ Len(b) \in Nat
  BY ONLY <1>6, <1>7, <1>9, ConcatProperties, LenProperties
<1>12. Len(u) \in Nat /\ m <= Len(u)
  BY ONLY <1>3, <1>8, <1>11
<1>13. insert(kind, u, t, m) = Text(kind, a \o t \o b)
  BY <1>3, <1>10, <1>12, Inserted
<1> QED
  BY <1>1, <1>5, <1>9, <1>13

\* INSERT puts back what MID reads and DELETE takes out.
LEMMA PutBack ==
  ASSUME NEW S, NEW s \in Seq(S), NEW kind \in Kinds, Held(kind, s), NEW l \in Int,
         NEW p \in 1..Len(s), ~mid(kind, s, l, p).error, ~delete(kind, s, l, p).error
  PROVE  insert(kind, delete(kind, s, l, p).text, mid(kind, s, l, p).text, p - 1) = Ok(s)
<1>1. PICK m, n : m = Start(p) /\ n = End(s, AtLeast(l, 0), p)
  OBVIOUS
<1>2. m = p - 1 /\ m \in 0..Len(s) /\ n \in m..Len(s)
  BY <1>1, Cuts
<1>3. /\ mid(kind, s, l, p).text = SubSeq(s, m + 1, n)
      /\ delete(kind, s, l, p).text = SubSeq(s, 1, m) \o SubSeq(s, n + 1, Len(s))
  <2>1. /\ ~mid(kind, s, l, p).error => mid(kind, s, l, p).text = SubSeq(s, m + 1, n)
        /\ ~delete(kind, s, l, p).error =>
             delete(kind, s, l, p).text = SubSeq(s, 1, m) \o SubSeq(s, n + 1, Len(s))
    BY <1>1, Taken
  <2> QED
    BY ONLY <2>1, ~delete(kind, s, l, p).error, ~mid(kind, s, l, p).error
<1>4. insert(kind, SubSeq(s, 1, m) \o SubSeq(s, n + 1, Len(s)), SubSeq(s, m + 1, n), m)
        = Text(kind, SubSeq(s, 1, m) \o SubSeq(s, m + 1, n) \o SubSeq(s, n + 1, Len(s)))
  BY <1>2, InsertedBetween
<1>5. SubSeq(s, 1, m) \o SubSeq(s, m + 1, n) = SubSeq(s, 1, n)
  <2>1. PICK o : o = 1
    OBVIOUS
  <2>2. Len(s) \in Nat
    BY LenProperties
  <2>3. o \in 1..(Len(s) + 1) /\ m \in (o - 1)..Len(s) /\ n \in m..Len(s)
    BY <1>2, <2>1, <2>2
  <2>4. SubSeq(s, o, m) \o SubSeq(s, m + 1, n) = SubSeq(s, o, n)
    BY ONLY <2>3, s \in Seq(S), ConcatAdjacentSubSeq
  <2> QED
    BY <2>1, <2>4
<1>6. SubSeq(s, 1, n) \o SubSeq(s, n + 1, Len(s)) = s
  <2>1. Len(s) \in Nat
    BY LenProperties
  <2>2. n \in 0..Len(s)
    BY <1>2, <2>1
  <2> QED
    BY ONLY <2>2, s \in Seq(S), CutInTwo
<1>7. Text(kind, s) = Ok(s)
  BY HeldIsText
<1> QED
  BY <1>2, <1>3, <1>4, <1>5, <1>6, <1>7

\* REPLACE is DELETE and INSERT.
LEMMA DeletedAndInserted ==
  ASSUME NEW S, NEW s \in Seq(S), NEW t, NEW kind \in Kinds, Held(kind, s), NEW l \in Int,
         NEW p \in 1..Len(s), ~delete(kind, s, l, p).error
  PROVE  replace(kind, s, t, l, p) = insert(kind, delete(kind, s, l, p).text, t, p - 1)
<1>1. PICK m, n : m = Start(p) /\ n = End(s, AtLeast(l, 0), p)
  OBVIOUS
<1>2. m = p - 1 /\ m \in 0..Len(s) /\ n \in m..Len(s) /\ ~(m >= Len(s))
  BY <1>1, Cuts
<1>3. delete(kind, s, l, p).text = SubSeq(s, 1, m) \o SubSeq(s, n + 1, Len(s))
  <2>1. /\ ~mid(kind, s, l, p).error => mid(kind, s, l, p).text = SubSeq(s, m + 1, n)
        /\ ~delete(kind, s, l, p).error =>
             delete(kind, s, l, p).text = SubSeq(s, 1, m) \o SubSeq(s, n + 1, Len(s))
    BY <1>1, Taken
  <2> QED
    BY ONLY <2>1, ~delete(kind, s, l, p).error
<1>4. insert(kind, SubSeq(s, 1, m) \o SubSeq(s, n + 1, Len(s)), t, m)
        = Text(kind, SubSeq(s, 1, m) \o t \o SubSeq(s, n + 1, Len(s)))
  BY <1>2, InsertedBetween
<1>5. replace(kind, s, t, l, p) = Text(kind, SubSeq(s, 1, m) \o t \o SubSeq(s, n + 1, Len(s)))
  BY <1>1, <1>2 DEF replace
<1> QED
  BY <1>2, <1>3, <1>4, <1>5

\* A set of numbers has a least one.
LEMMA LeastNumber ==
  ASSUME NEW T \in SUBSET Nat, T # {}
  PROVE  \E x \in T : \A y \in T : x <= y
<1>1. PICK x \in T : \A y \in T : ~(<<y, x>> \in OpToRel(<, Nat))
  BY WFMin, NatLessThanWellFounded
<1>2. \A y \in T : ~(y < x)
  BY <1>1 DEF OpToRel
<1>3. \A y \in T : x <= y
  BY <1>2
<1> QED
  BY <1>3

\* FIND returns the first occurrence, or zero.
LEMMA FindIs ==
  ASSUME NEW S, NEW s \in Seq(S), NEW t \in Seq(S), ~find(s, t).error
  PROVE  \/ Occurrences(s, t) = {} /\ find(s, t).number = 0
         \/ /\ find(s, t).number \in Occurrences(s, t)
            /\ \A j \in Occurrences(s, t) : find(s, t).number <= j
<1>1. CASE Occurrences(s, t) = {}
  <2>1. find(s, t) = Number(0)
    BY <1>1 DEF find
  <2> QED
    BY <1>1, <2>1 DEF Number, Error
<1>2. CASE Occurrences(s, t) # {}
  <2>1. PICK O : O = Occurrences(s, t)
    OBVIOUS
  <2>2. O \in SUBSET Nat
    BY <2>1 DEF Occurrences
  <2>3. \E x \in O : \A y \in O : x <= y
    BY ONLY <1>2, <2>1, <2>2, LeastNumber
  <2>4. PICK i : i = CHOOSE x \in O : \A j \in O : x <= j
    OBVIOUS
  <2>5. i \in O /\ \A j \in O : i <= j
    BY ONLY <2>3, <2>4
  <2>6. find(s, t) = Number(i)
    BY <1>2, <2>1, <2>4 DEF find
  <2>7. find(s, t).number = i
    BY <2>6 DEF Number, Error
  <2> QED
    BY <2>1, <2>5, <2>7
<1> QED
  BY <1>1, <1>2

\* MID finds what FIND has found.
LEMMA FoundIsRead ==
  ASSUME NEW S, NEW s \in Seq(S), NEW t \in Seq(S), NEW kind \in Kinds, Held(kind, t),
         NEW i \in Occurrences(s, t)
  PROVE  mid(kind, s, Len(t), i) = Ok(t)
<1>1. /\ i \in Nat /\ i > 0 /\ i <= Len(s) - Len(t) + 1 /\ SubSeq(s, i, i + Len(t) - 1) = t
      /\ Len(s) \in Nat /\ Len(t) \in Nat
  BY LenProperties DEF Occurrences
<1>2. CASE Len(t) = 0
  <2>1. t = <<>>
    BY <1>2, EmptySeq
  <2>2. Len(t) <= 0
    BY <1>2
  <2> QED
    BY <2>1, <2>2 DEF mid
<1>3. CASE Len(t) # 0
  <2>1. ~(i - 1 >= Len(s)) /\ ~(Len(t) <= 0) /\ i - 1 >= 0
    BY <1>1, <1>3
  <2>2. Start(i) = i - 1
    BY <1>1, <2>1 DEF Start, AtLeast
  <2>3. End(s, Len(t), i) = i + Len(t) - 1 /\ Start(i) + 1 = i
    BY <1>1, <2>2 DEF End, AtMost
  <2>4. SubSeq(s, Start(i) + 1, End(s, Len(t), i)) = t
    BY <1>1, <2>3
  <2>5. ~(Start(i) >= Len(s) \/ Len(t) <= 0)
    BY <2>1, <2>2
  <2>6. mid(kind, s, Len(t), i) = Text(kind, t)
    BY <2>4, <2>5 DEF mid
  <2> QED
    BY <2>6, HeldIsText
<1> QED
  BY <1>2, <1>3

\* What FIND returns is a position in the text, or one in an empty one.
LEMMA FoundIsInside ==
  ASSUME NEW S, NEW s \in Seq(S), NEW t \in Seq(S), ~find(s, t).error
  PROVE  find(s, t).number <= AtLeast(Len(s), 1)
<1>1. Len(s) \in Nat /\ Len(t) \in Nat
  BY LenProperties
<1>2. CASE Occurrences(s, t) = {} /\ find(s, t).number = 0
  BY <1>1, <1>2 DEF AtLeast
<1>3. CASE /\ find(s, t).number \in Occurrences(s, t)
           /\ \A j \in Occurrences(s, t) : find(s, t).number <= j
  <2>1. PICK i : i = find(s, t).number
    OBVIOUS
  <2>2. i \in Nat /\ i > 0 /\ i <= Len(s) - Len(t) + 1
    BY <1>1, <1>3, <2>1 DEF Occurrences
  <2>3. CASE Len(t) # 0
    <3>1. i <= Len(s)
      BY <1>1, <2>2, <2>3
    <3> QED
      BY <1>1, <2>1, <2>2, <3>1 DEF AtLeast
  <2>4. CASE Len(t) = 0
    <3>1. PICK o, e : o = 1 /\ e = 0
      OBVIOUS
    <3>2. o \in Int /\ e \in Int /\ e < o
      BY <3>1
    <3>3. SubSeq(s, o, e) = <<>>
      BY ONLY <3>2, SubSeqEmpty
    <3>4. SubSeq(s, 1, 1 + Len(t) - 1) = t
      <4>1. t = <<>>
        BY <2>4, EmptySeq
      <4>2. 1 + Len(t) - 1 = e
        BY <2>4, <3>1
      <4> QED
        BY <3>1, <3>3, <4>1, <4>2
    <3>5. 1 \in 1..(Len(s) - Len(t) + 1)
      BY <1>1, <2>4
    <3>6. 1 \in Occurrences(s, t)
      BY <3>4, <3>5 DEF Occurrences
    <3>7. i <= 1
      BY <1>3, <2>1, <3>6
    <3> QED
      BY <1>1, <2>1, <2>2, <3>7 DEF AtLeast
  <2> QED
    BY <2>3, <2>4
<1> QED
  BY <1>2, <1>3, FindIs

\* A WSTRING can be cut anywhere.
LEMMA WideTextsAreCut ==
  ASSUME NEW s, NEW t, NEW l, NEW r, NEW p
  PROVE  /\ ~left("WSTRING", s, l).error /\ ~right("WSTRING", s, r).error
         /\ ~mid("WSTRING", s, l, p).error /\ ~delete("WSTRING", s, l, p).error
         /\ ~replace("WSTRING", s, t, l, p).error
<1>1. \A u : ~Text("WSTRING", u).error
  BY TextIs
<1> QED
  BY <1>1, OkIs DEF left, right, mid, delete, replace

\* The answers to a call that has been made with texts a variable can hold.
LEMMA AnswersAgree ==
  ASSUME StringInv
  PROVE  StringLaws
<1> DEFINE k == args.kind  s == args.in1  t == args.in2  l == args.l  p == args.p
           r == outcomes
<1>1. /\ k \in Kinds /\ l \in Int /\ p \in Int /\ Held(k, s) /\ Held(k, t)
      /\ s \in Seq(Symbols) /\ t \in Seq(Symbols)
  BY DEF StringInv, Held
<1> HIDE DEF k, s, t, l, p
<1>2. SUFFICES ASSUME r.asked
               PROVE  /\ Succeeded(r.left, r.right) => concat(r.left.text, r.right.text) = Ok(s)
                      /\ p \in 1..Len(s) /\ ~r.delete.error =>
                           /\ ~r.mid.error =>
                                insert(k, r.delete.text, r.mid.text, p - 1) = Ok(s)
                           /\ r.replace = insert(k, r.delete.text, t, p - 1)
                      /\ ~r.find.error /\ r.find.number > 0 =>
                           mid(k, s, Len(t), r.find.number) = Ok(t)
                      /\ Succeeded(r.len, r.find) => r.find.number <= AtLeast(r.len.number, 1)
                      /\ k = "WSTRING" =>
                           /\ ~r.left.error /\ ~r.right.error /\ ~r.mid.error
                           /\ ~r.delete.error /\ ~r.replace.error
  BY DEF StringLaws, k, s, t, l, p
<1>3. /\ r.len = len(s) /\ r.left = left(k, s, l) /\ r.right = right(k, s, Len(s) - l)
      /\ r.mid = mid(k, s, l, p) /\ r.delete = delete(k, s, l, p)
      /\ r.replace = replace(k, s, t, l, p) /\ r.find = find(s, t)
  BY <1>2 DEF StringInv, Answers, Unasked, k, s, t, l, p
<1> HIDE DEF r
<1>4. Succeeded(r.left, r.right) => concat(r.left.text, r.right.text) = Ok(s)
  BY <1>1, <1>3, LeftAndRight DEF Succeeded
<1>5. p \in 1..Len(s) /\ ~r.delete.error /\ ~r.mid.error =>
        insert(k, r.delete.text, r.mid.text, p - 1) = Ok(s)
  BY <1>1, <1>3, PutBack
<1>6. p \in 1..Len(s) /\ ~r.delete.error => r.replace = insert(k, r.delete.text, t, p - 1)
  BY <1>1, <1>3, DeletedAndInserted
<1>7. ~r.find.error /\ r.find.number > 0 => mid(k, s, Len(t), r.find.number) = Ok(t)
  <2>1. ~find(s, t).error /\ find(s, t).number > 0 => find(s, t).number \in Occurrences(s, t)
    BY <1>1, FindIs
  <2> QED
    BY <1>1, <1>3, <2>1, FoundIsRead
<1>8. Succeeded(r.len, r.find) => r.find.number <= AtLeast(r.len.number, 1)
  <2>1. ~len(s).error => len(s).number = Len(s)
    BY DEF len, Number, Error
  <2> QED
    BY <1>1, <1>3, <2>1, FoundIsInside DEF Succeeded
<1>9. k = "WSTRING" =>
        /\ ~r.left.error /\ ~r.right.error /\ ~r.mid.error
        /\ ~r.delete.error /\ ~r.replace.error
  BY <1>3, WideTextsAreCut
<1> QED
  BY <1>4, <1>5, <1>6, <1>7, <1>8, <1>9

\* The functions of string.rs agree with each other on where a position is and
\* what lies there: for texts of every length and for every position and length,
\* negative ones and ones past the end included, and whatever the largest number
\* a function may return.
THEOREM StringsAgree == StringSpec => []StringLaws
<1>1. StringInit => StringInv
  <2> SUFFICES ASSUME StringInit PROVE StringInv
    OBVIOUS
  <2>1. PICK kind \in Kinds : \E in1, in2 \in Texts(kind), l, p \in -1..(MaxText + 2) :
          args = [kind |-> kind, in1 |-> in1, in2 |-> in2, l |-> l, p |-> p]
    BY DEF StringInit, Kinds
  <2>2. PICK in1 \in Texts(kind), in2 \in Texts(kind),
             l \in -1..(MaxText + 2), p \in -1..(MaxText + 2) :
          args = [kind |-> kind, in1 |-> in1, in2 |-> in2, l |-> l, p |-> p]
    BY <2>1
  <2>3. Held(kind, in1) /\ Held(kind, in2)
    BY TextsAreHeld
  <2>4. l \in Int /\ p \in Int
    BY StringAssumption
  <2>5. outcomes = Unasked
    BY DEF StringInit
  <2> QED
    BY <2>2, <2>3, <2>4, <2>5 DEF StringInv
<1>2. StringInv /\ [StringCall]_<<args, outcomes>> => StringInv'
  <2> SUFFICES ASSUME StringInv, [StringCall]_<<args, outcomes>> PROVE StringInv'
    OBVIOUS
  <2>1. args' = args
    BY DEF StringCall
  <2>2. outcomes' = outcomes \/ outcomes' = Answers(args)
    BY DEF StringCall, Answers
  <2> QED
    BY <2>1, <2>2 DEF StringInv
<1> QED
  BY <1>1, <1>2, AnswersAgree, PTL DEF StringSpec
=============================================================================
