------------------------- MODULE MCSharedResources -------------------------
(***************************************************************************)
(* Two resources, one that halts on a fault and one that restarts.         *)
(***************************************************************************)
EXTENDS SharedResources

CONSTANTS a, b, x, y

OneOfEach == [r \in Resources |-> IF r = First THEN "Halt" ELSE "Restart"]
=============================================================================
