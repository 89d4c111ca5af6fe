-------------------------- MODULE StringFunctions --------------------------
(***************************************************************************)
(* The standard functions on STRING and WSTRING:                           *)
(* crates/trust-runtime/src/stdlib/string.rs.                              *)
(*                                                                         *)
(* A WSTRING is counted in characters, a STRING in bytes.  Bytes are "a",  *)
(* a character of its own, and "h" and "t", the two halves of one; a       *)
(* result that does not decode is an error.  Characters are "a" and "h".   *)
(* Positions and lengths are any integers.                                 *)
(***************************************************************************)
EXTENDS Integers, Sequences, SequencesExt

CONSTANTS
  MaxInt,   \* i16::MAX, the largest length and position returned
  MaxText   \* bound: the longest argument

ASSUME StringAssumption == MaxInt \in Nat /\ MaxText \in Nat

VARIABLES
  args,    \* the arguments of the calls: kind, in1, in2, l, p
  outcomes  \* what each function returns for them

Error == [error |-> TRUE]
Ok(text) == [error |-> FALSE, text |-> text]
Number(n) == IF n > MaxInt THEN Error ELSE [error |-> FALSE, number |-> n]

\* from_utf8: a first half is followed by its second, and only there.
Decodes(bytes) ==
  /\ bytes # <<>> => Head(bytes) # "t" /\ Last(bytes) # "h"
  /\ \A i \in 1..(Len(bytes) - 1) : bytes[i] = "h" <=> bytes[i + 1] = "t"

Text(kind, s) == IF kind = "WSTRING" \/ Decodes(s) THEN Ok(s) ELSE Error

AtLeast(x, least) == IF x < least THEN least ELSE x
AtMost(x, most)   == IF x > most THEN most ELSE x

-----------------------------------------------------------------------------
len(s) == Number(Len(s))

left(kind, s, l) == Text(kind, SubSeq(s, 1, AtMost(l, Len(s))))

right(kind, s, l) == Text(kind, SubSeq(s, Len(s) - AtMost(AtLeast(l, 0), Len(s)) + 1, Len(s)))

\* Variant: positions count from 0.
StartFromZero(p) == AtLeast(p, 0)

\* How many elements come before position p, which counts from 1.
Start(p) == AtLeast(p - 1, 0)

\* Where l elements from position p on end.
End(s, l, p) == AtMost(Start(p) + l, Len(s))

mid(kind, s, l, p) ==
  IF Start(p) >= Len(s) \/ l <= 0 THEN Ok(<<>>)
  ELSE Text(kind, SubSeq(s, Start(p) + 1, End(s, l, p)))

concat(s, t) == Ok(s \o t)

\* P is the position after which IN2 is put (InsertAtPosition below).
insert(kind, s, t, p) ==
  LET n == AtMost(AtLeast(p, 0), Len(s))
  IN  Text(kind, SubSeq(s, 1, n) \o t \o SubSeq(s, n + 1, Len(s)))

delete(kind, s, l, p) ==
  IF l <= 0 \/ Start(p) >= Len(s) THEN Ok(s)
  ELSE Text(kind, SubSeq(s, 1, Start(p)) \o SubSeq(s, End(s, l, p) + 1, Len(s)))

replace(kind, s, t, l, p) ==
  IF Start(p) >= Len(s) THEN Ok(s)
  ELSE Text(kind, SubSeq(s, 1, Start(p)) \o t
                    \o SubSeq(s, End(s, AtLeast(l, 0), p) + 1, Len(s)))

Occurrences(s, t) == {i \in 1..(Len(s) - Len(t) + 1) : SubSeq(s, i, i + Len(t) - 1) = t}

find(s, t) ==
  Number(IF Occurrences(s, t) = {} THEN 0
         ELSE CHOOSE i \in Occurrences(s, t) : \A j \in Occurrences(s, t) : i <= j)

-----------------------------------------------------------------------------
Unasked == [asked |-> FALSE]

\* What a variable of the kind can hold.
Texts(kind) ==
  LET symbols == IF kind = "WSTRING" THEN {"a", "h"} ELSE {"a", "h", "t"}
  IN  {s \in BoundedSeq(symbols, MaxText) : kind = "STRING" => Decodes(s)}

StringInit ==
  /\ \E kind \in {"STRING", "WSTRING"} :
       \E in1, in2 \in Texts(kind), l, p \in -1..(MaxText + 2) :
         args = [kind |-> kind, in1 |-> in1, in2 |-> in2, l |-> l, p |-> p]
  /\ outcomes = Unasked

StringCall ==
  /\ outcomes = Unasked
  /\ outcomes' =
       [asked   |-> TRUE,
        len     |-> len(args.in1),
        left    |-> left(args.kind, args.in1, args.l),
        right   |-> right(args.kind, args.in1, Len(args.in1) - args.l),
        mid     |-> mid(args.kind, args.in1, args.l, args.p),
        concat  |-> concat(args.in1, args.in2),
        delete  |-> delete(args.kind, args.in1, args.l, args.p),
        replace |-> replace(args.kind, args.in1, args.in2, args.l, args.p),
        find    |-> find(args.in1, args.in2)]
  /\ UNCHANGED args

StringSpec == StringInit /\ [][StringCall]_<<args, outcomes>>

-----------------------------------------------------------------------------
(***************************************************************************)
(* Properties.                                                             *)
(***************************************************************************)
Succeeded(a, b) == ~a.error /\ ~b.error

\* The functions of string.rs agree with each other on where a position is and
\* what lies there, for positions and lengths outside the text too.  What LEFT
\* and RIGHT take apart CONCAT puts together; what MID reads is what DELETE
\* takes out, so that INSERT puts it back, and REPLACE is DELETE and INSERT at the
\* same place, whether INSERT counts it as the position before or as the one taken
\* out; MID finds what FIND has found; only a STRING can be cut where it does not
\* decode.
StringLaws ==
  LET k == args.kind  s == args.in1  t == args.in2  l == args.l  p == args.p
      r == outcomes
      inside == p \in 1..Len(s)
  IN  r.asked =>
        /\ Succeeded(r.left, r.right) => concat(r.left.text, r.right.text) = Ok(s)
        /\ inside /\ ~r.delete.error => \E at \in {p - 1, p} :
             /\ ~r.mid.error => insert(k, r.delete.text, r.mid.text, at) = Ok(s)
             /\ r.replace = insert(k, r.delete.text, t, at)
        /\ ~r.find.error /\ r.find.number > 0 => mid(k, s, Len(t), r.find.number) = Ok(t)
        /\ Succeeded(r.len, r.find) => r.find.number <= AtLeast(r.len.number, 1)
        /\ k = "WSTRING" => \A f \in {"left", "right", "mid", "delete", "replace"} : ~r[f].error

(***************************************************************************)
(* A statement of the documentation that the code does not keep: TLC finds *)
(* it violated, README.md says how.                                        *)
(***************************************************************************)

\* 07-standard-functions.md: "INSERT('AC', 'B', 2); // 'ABC'", the text is put in
\* front of position P.  The code puts it after P and returns 'ACB'.
InsertAtPosition ==
  outcomes.asked /\ args.p \in 1..Len(args.in1) =>
    insert(args.kind, args.in1, args.in2, args.p)
      = Text(args.kind, SubSeq(args.in1, 1, args.p - 1) \o args.in2
                          \o SubSeq(args.in1, args.p, Len(args.in1)))
=============================================================================
