--------------------------- MODULE FunctionBlocks ---------------------------
(***************************************************************************)
(* The standard counters, edge detectors and bistables:                    *)
(* crates/trust-runtime/src/stdlib/fbs/counters.rs, triggers.rs and        *)
(* bistable.rs.                                                            *)
(*                                                                         *)
(* A program calls one instance of each with the same inputs: CU and S,    *)
(* CD, R and LD drive a CTU, a CTD and a CTUD, an R_TRIG and an F_TRIG on  *)
(* CU, and an SR and an RS set by CU and reset by R.  All integer types    *)
(* take the same path; a type here is its least and its greatest value.    *)
(* (The front end gives PV and CV one type, so the arm for two types is    *)
(* not reached.)                                                           *)
(***************************************************************************)
EXTENDS Integers

CONSTANTS
  TypeMin, TypeMax,  \* the integer type of PV and CV
  Presets,           \* values of PV
  MaxCount           \* bound: history counts up to here

ASSUME CounterAssumption ==
  /\ TypeMin \in Int /\ TypeMax \in Nat /\ TypeMin <= 0
  /\ Presets \subseteq TypeMin..TypeMax /\ MaxCount \in Nat

VARIABLES
  prev,     \* STATE_PREV_CU and STATE_PREV_CD
  ctu, ctd, \* Q and CV
  ctud,     \* QU, QD and CV
  rtrig,    \* Q and STATE_TRIG_M
  ftrig,
  sr, rs,   \* Q1
  tally     \* history: rising edges of CU since the last R, what CTUD was
            \* last set to, edges up and down since then, and whether it met a limit

fbVars == <<prev, ctu, ctd, ctud, rtrig, ftrig, sr, rs, tally>>

Values == TypeMin..TypeMax

FbTypeOK ==
  /\ prev \in [cu : BOOLEAN, cd : BOOLEAN]
  /\ ctu \in [q : BOOLEAN, cv : Values] /\ ctd \in [q : BOOLEAN, cv : Values]
  /\ ctud \in [qu : BOOLEAN, qd : BOOLEAN, cv : Values]
  /\ rtrig \in [q : BOOLEAN, m : BOOLEAN] /\ ftrig \in [q : BOOLEAN, m : BOOLEAN]
  /\ sr \in BOOLEAN /\ rs \in BOOLEAN
  /\ tally \in [rises : 0..MaxCount, base : Values, net : -MaxCount..MaxCount,
                limited : BOOLEAN]

FbInit ==
  /\ prev = [cu |-> FALSE, cd |-> FALSE]
  /\ ctu = [q |-> FALSE, cv |-> 0] /\ ctd = [q |-> FALSE, cv |-> 0]
  /\ ctud = [qu |-> FALSE, qd |-> FALSE, cv |-> 0]
  /\ rtrig = [q |-> FALSE, m |-> FALSE] /\ ftrig = [q |-> FALSE, m |-> FALSE]
  /\ sr = FALSE /\ rs = FALSE
  /\ tally = [rises |-> 0, base |-> 0, net |-> 0, limited |-> FALSE]

-----------------------------------------------------------------------------
Up(cv)   == IF cv < TypeMax THEN cv + 1 ELSE cv
Down(cv) == IF cv > TypeMin THEN cv - 1 ELSE cv

\* counter_up_signed, counter_up_unsigned: R comes before an edge.
CtuStep(cu, r, pv) ==
  LET cv == IF r THEN 0 ELSE IF cu /\ ~prev.cu THEN Up(ctu.cv) ELSE ctu.cv
  IN  [q |-> cv >= pv, cv |-> cv]

\* counter_down_signed, counter_down_unsigned: LD comes before an edge.
CtdStep(cd, ld, pv) ==
  LET cv == IF ld THEN pv ELSE IF cd /\ ~prev.cd THEN Down(ctd.cv) ELSE ctd.cv
  IN  [q |-> cv <= 0, cv |-> cv]

\* counter_up_down_signed, counter_up_down_unsigned: R before LD before edges,
\* and an edge on both inputs at once is none.
CtudStep(cu, cd, r, ld, pv) ==
  LET up   == cu /\ ~prev.cu
      down == cd /\ ~prev.cd
      cv   == IF r THEN 0 ELSE IF ld THEN pv ELSE IF up /\ down THEN ctud.cv
              ELSE IF up THEN Up(ctud.cv) ELSE IF down THEN Down(ctud.cv) ELSE ctud.cv
  IN  [qu |-> cv >= pv, qd |-> cv <= 0, cv |-> cv]

RTrigStep(clk) == [q |-> clk /\ ~rtrig.m, m |-> clk]
FTrigStep(clk) == [q |-> ~clk /\ ~ftrig.m, m |-> ~clk]

SrStep(set, reset) == set \/ (sr /\ ~reset)
RsStep(set, reset) == ~reset /\ (set \/ rs)

\* Variant: a call with R does not look at the inputs it counts.
RememberUnlessReset(cu, cd, r) == IF r THEN prev ELSE [cu |-> cu, cd |-> cd]

\* The inputs are remembered whatever the call did with them.
Remember(cu, cd, r) == [cu |-> cu, cd |-> cd]

Tallied(cu, cd, r, ld, pv) ==
  LET up   == cu /\ ~rtrig.m
      move == (IF up THEN 1 ELSE 0) - (IF cd /\ ~prev.cd THEN 1 ELSE 0)
      aim  == tally.base + tally.net + move
  IN  [rises   |-> IF r THEN 0 ELSE tally.rises + (IF up THEN 1 ELSE 0),
       base    |-> IF r THEN 0 ELSE IF ld THEN pv ELSE tally.base,
       net     |-> IF r \/ ld THEN 0 ELSE tally.net + move,
       limited |-> ~r /\ ~ld /\ (tally.limited \/ aim \notin Values)]

\* One call of each block, in one cycle.
FbCall(cu, cd, r, ld, pv) ==
  /\ ctu' = CtuStep(cu, r, pv) /\ ctd' = CtdStep(cd, ld, pv)
  /\ ctud' = CtudStep(cu, cd, r, ld, pv)
  /\ prev' = Remember(cu, cd, r)
  /\ rtrig' = RTrigStep(cu) /\ ftrig' = FTrigStep(cu)
  /\ sr' = SrStep(cu, r) /\ rs' = RsStep(cu, r)
  /\ tally' = Tallied(cu, cd, r, ld, pv)
  /\ tally'.rises <= MaxCount /\ tally'.net \in -MaxCount..MaxCount

FbNext ==
  \E cu, cd, r, ld \in BOOLEAN, pv \in Presets : FbCall(cu, cd, r, ld, pv)

FbSpec == FbInit /\ [][FbNext]_fbVars

-----------------------------------------------------------------------------
(***************************************************************************)
(* Properties                                                              *)
(***************************************************************************)
\* A counter counts every edge once: CTU shows the pulses an R_TRIG on the same
\* input has given since the last reset, up to the greatest value of its type, an
\* input that stays TRUE over a reset is no new edge after it, and CTUD, while it
\* has met no limit, is what it was set to plus all edges up minus all down.  What
\* the RS keeps, where reset dominates, the SR keeps too.
CountsEdges ==
  /\ ctu.cv = IF tally.rises <= TypeMax THEN tally.rises ELSE TypeMax
  /\ ~tally.limited => ctud.cv = tally.base + tally.net
  /\ rs => sr
=============================================================================
