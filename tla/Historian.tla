------------------------------ MODULE Historian ------------------------------
(***************************************************************************)
(* The historian: crates/trust-runtime/src/historian.rs.                   *)
(*                                                                         *)
(* A sampler appends what it finds in a snapshot to a file of one line per *)
(* sample, then to a ring in memory, and then looks at the alert rules.    *)
(* The lock is held all the time, so a capture is one step; it may break   *)
(* off at any byte of the file, by an error, after which the sampler tries *)
(* again with a newer snapshot, or by the end of the process.              *)
(***************************************************************************)
EXTENDS Naturals, Sequences, FiniteSets

CONSTANTS
  Watched,      \* the variable the alert rule is about
  Other,        \* another variable that is recorded
  Interval,     \* sample_interval_ms
  MaxEntries,   \* max_entries
  Debounce,     \* debounce_samples of the rule
  NoCapture,    \* last_capture_ms is None
  MaxMoment,    \* bound: time
  MaxFailures   \* bound: captures that break off, restarts, clock changes

ASSUME HistorianAssumption ==
  /\ Watched # Other
  /\ Interval \in Nat \ {0} /\ MaxEntries \in Nat \ {0} /\ Debounce \in Nat \ {0}
  /\ NoCapture \notin Nat /\ MaxMoment \in Nat /\ MaxFailures \in Nat

VARIABLES
  moment,        \* unix_ms
  lines,         \* the file: per line the sample it holds, or Garbage
  open_line,     \* whether the last line has no end yet
  ring,          \* HistorianInner.samples
  last_capture,  \* HistorianInner.last_capture_ms
  tracker,       \* the AlertTracker of the rule
  shown_once,    \* samples a query could have returned, after a start all that were read (history)
  spoilt,        \* samples appended to a line that was open, with what that line
                 \* was (history)
  failures       \* counter for the bound

histVars ==
  <<moment, lines, open_line, ring, last_capture, tracker, shown_once, spoilt, failures>>

Sample  == [variable : {Watched, Other}, at : 0..MaxMoment, breached : BOOLEAN]
Garbage == [variable |-> "unreadable"]
Quiet   == [active |-> FALSE, consecutive |-> 0]

HistorianTypeOK ==
  /\ moment \in 0..MaxMoment /\ open_line \in BOOLEAN
  /\ \A i \in 1..Len(lines) : lines[i] \in Sample \cup {Garbage}
  /\ ring \in Seq(Sample) /\ Len(ring) <= MaxEntries
  /\ last_capture \in (0..MaxMoment) \cup {NoCapture}
  /\ tracker \in [active : BOOLEAN, consecutive : 0..(MaxMoment + 1)]
  /\ shown_once \subseteq Sample /\ spoilt \subseteq Sample \cup {Garbage}
  /\ failures \in 0..MaxFailures

HistorianInit ==
  /\ moment = 0 /\ lines = <<>> /\ open_line = FALSE /\ ring = <<>>
  /\ last_capture = NoCapture /\ tracker = Quiet
  /\ shown_once = {} /\ spoilt = {} /\ failures = 0

-----------------------------------------------------------------------------
\* What a snapshot yields now: the variables that are there, in their order.
Found(v) ==
  {<<>>} \cup {<<[variable |-> v, at |-> moment, breached |-> b]>> :
               b \in IF v = Watched THEN BOOLEAN ELSE {FALSE}}

Batches == {x \o y : x \in Found(Watched), y \in Found(Other)}

\* append_samples of whole lines.  Text after a line that is open makes it
\* unreadable, the text that was there included.
Appended(batch) ==
  IF batch = <<>> \/ ~open_line THEN lines \o batch
  ELSE [lines EXCEPT ![Len(lines)] = Garbage] \o Tail(batch)

Spoilt(batch) ==
  IF batch # <<>> /\ open_line THEN {batch[1], lines[Len(lines)]} ELSE {}

\* saturating_sub: a clock that was set back lies within the interval too.
Due == IF last_capture = NoCapture THEN TRUE ELSE moment >= last_capture + Interval

Newest(seq) == SubSeq(seq, IF Len(seq) > MaxEntries THEN Len(seq) - MaxEntries + 1 ELSE 1,
                      Len(seq))

Breached(batch) == \E i \in 1..Len(batch) : batch[i].variable = Watched /\ batch[i].breached

\* Variant: a capture without a breach does not end the series.
EvaluatedLax(batch) ==
  IF Breached(batch)
    THEN [active |-> tracker.active \/ tracker.consecutive + 1 >= Debounce,
          consecutive |-> tracker.consecutive + 1]
    ELSE [tracker EXCEPT !.active = FALSE]

\* Variant: the ring is filled before the file is written.
BrokenRingFirst(batch, whole, tail) ==
  /\ Due /\ failures < MaxFailures /\ failures' = failures + 1
  /\ whole < Len(batch)
  /\ LET done == Appended(SubSeq(batch, 1, whole)) IN
       lines' = IF tail = "end" THEN done
                ELSE Append(done, IF tail = "part" THEN Garbage ELSE batch[whole + 1])
  /\ open_line' = (tail # "end")
  /\ spoilt' = spoilt
  /\ ring' = Newest(ring \o batch)
  /\ shown_once' = shown_once \cup {batch[i] : i \in 1..Len(batch)}
  /\ UNCHANGED <<moment, last_capture, tracker>>

\* evaluate_alerts; a variable that is missing counts as not breached.
Evaluated(batch) ==
  IF Breached(batch)
    THEN [active |-> tracker.active \/ tracker.consecutive + 1 >= Debounce,
          consecutive |-> tracker.consecutive + 1]
    ELSE Quiet

\* capture_snapshot_at.  The hooks that are called after the lock only tell
\* others.
Capture(batch) ==
  /\ Due /\ last_capture' = moment
  /\ IF batch = <<>>
       THEN UNCHANGED <<lines, open_line, ring, tracker, shown_once, spoilt>>
       ELSE /\ lines' = Appended(batch) /\ open_line' = FALSE
            /\ spoilt' = spoilt \cup Spoilt(batch)
            /\ ring' = Newest(ring \o batch)
            /\ shown_once' = shown_once \cup {batch[i] : i \in 1..Len(batch)}
            /\ tracker' = Evaluated(batch)
  /\ UNCHANGED <<moment, failures>>

\* A capture that breaks off: after some whole lines, in the middle of the next
\* one, or just before its end of line.  Nothing else changes.
Broken(batch, whole, tail) ==
  LET text == IF tail = "end" THEN SubSeq(batch, 1, whole)
              ELSE SubSeq(batch, 1, whole + 1)
      done == Appended(text)
  IN
  /\ Due /\ failures < MaxFailures /\ failures' = failures + 1
  /\ whole < Len(batch) /\ text # <<>>
  /\ lines' = IF tail = "part" THEN [done EXCEPT ![Len(done)] = Garbage] ELSE done
  /\ open_line' = (tail # "end")
  /\ spoilt' = spoilt \cup Spoilt(text)
  /\ UNCHANGED <<moment, ring, last_capture, tracker, shown_once>>

\* load_existing_samples: lines that do not parse are passed over.
Parsing  == {i \in 1..Len(lines) : lines[i] # Garbage}
Parsed   == [k \in 1..Cardinality(Parsing) |->
               lines[CHOOSE i \in Parsing : Cardinality({j \in Parsing : j <= i}) = k]]
Readable == {lines[i] : i \in Parsing}

Relaunched ==
  /\ failures < MaxFailures /\ failures' = failures + 1
  /\ ring' = Newest(Parsed)
  /\ shown_once' = shown_once \cup Readable
  /\ last_capture' = NoCapture /\ tracker' = Quiet
  /\ UNCHANGED <<moment, lines, open_line, spoilt>>

Pass ==
  /\ moment < MaxMoment /\ moment' = moment + 1
  /\ UNCHANGED <<lines, open_line, ring, last_capture, tracker, shown_once, spoilt, failures>>

\* The clock of the machine is set back.
SetBack ==
  /\ moment > 0 /\ moment' = moment - 1
  /\ failures < MaxFailures /\ failures' = failures + 1
  /\ UNCHANGED <<lines, open_line, ring, last_capture, tracker, shown_once, spoilt>>

HistorianNext ==
  \/ \E batch \in Batches : Capture(batch)
  \/ \E batch \in Batches, whole \in 0..1,
        tail \in {"end", "part", "open"} : Broken(batch, whole, tail)
  \/ Relaunched \/ Pass \/ SetBack

HistorianSpec == HistorianInit /\ [][HistorianNext]_histVars

-----------------------------------------------------------------------------
(***************************************************************************)
(* Properties                                                              *)
(***************************************************************************)
\* A sample a query has shown is in the file and will be there after a restart,
\* whatever appends break off before and after it, except the sample on a line
\* without an end and the one that follows it: append_samples does not end that
\* line first, and TLC finds the property violated without the exception.
ShownIsKept == shown_once \ spoilt \subseteq Readable

\* The last n samples of the variable in the ring are there, at[1] the newest,
\* and all breached.
Breaches(n) ==
  \E at \in [1..n -> 1..Len(ring)] :
    /\ \A i, j \in 1..n : i < j => at[j] < at[i]
    /\ \A i \in 1..n : ring[at[i]].variable = Watched
    /\ \A q \in 1..Len(ring) :
         ring[q].variable = Watched /\ (\E i \in 1..n : at[i] <= q) => ring[q].breached

\* The history explains an alert: while it is active the last Debounce samples
\* of the variable in the ring were all breached, also when captures failed, the
\* variable was missing or the process restarted in between.
AlertExplained == tracker.active => Breaches(Debounce)
=============================================================================
