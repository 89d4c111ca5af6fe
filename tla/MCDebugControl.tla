--------------------------- MODULE MCDebugControl ---------------------------
(***************************************************************************)
(* What executes statements, for TLC: the evaluator, with a program that   *)
(* calls a block and functions three levels deep, and the debugger it asks *)
(* before every statement.  A behaviour exercises one of them.             *)
(***************************************************************************)
EXTENDS DebugControl, Interpreter, TLC

CONSTANTS
  l1, l2,               \* statements
  Main, Blk, Fun, Sub,  \* a program, a function block, two functions
  vg, vm, vs,           \* a global, a variable of the program, one of the block
  pio, pout, psub, pblk \* parameters: two of Fun, one of Sub, one of Blk

VARIABLE subject

TheMembers    == (Main :> {vm}) @@ (Blk :> {pblk, vs})
NoTemps       == [pou \in Pous |-> {}]
TheParams     == (Blk :> <<pblk>>) @@ (Fun :> <<pio, pout>>) @@ (Sub :> <<psub>>)
TheDirections == [p \in {pio, pout, psub, pblk} |-> IF p = pout THEN "out" ELSE "inout"]
TheScopes     == (Main :> {vg, vm}) @@ (Blk :> {pblk, vs})
                   @@ (Fun :> {pio, pout, Fun, vg}) @@ (Sub :> {psub, vg})
TheCallees    == (Main :> {Blk, Fun}) @@ (Blk :> {Fun}) @@ (Fun :> {Sub}) @@ (Sub :> {})

StatementsInit == Init /\ EvalInit /\ subject \in {"debugger", "programs"}

StatementsNext ==
  \/ subject = "debugger" /\ Next /\ UNCHANGED <<evalVars, subject>>
  \/ subject = "programs" /\ EvalNext /\ UNCHANGED <<dbgVars, subject>>

Statements ==
  /\ StatementsInit /\ [][StatementsNext]_<<dbgVars, evalVars, subject>>
  /\ subject = "debugger" => Fairness
=============================================================================
