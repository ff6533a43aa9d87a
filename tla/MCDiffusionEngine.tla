--------------------------- MODULE MCDiffusionEngine ---------------------------
(***************************************************************************)
(* Values for the constants of DiffusionEngine.                            *)
(***************************************************************************)
EXTENDS DiffusionEngine

CONSTANTS r1, r2, r3

(* Every request has an id of its own, as the speech endpoint makes them.  *)
OwnIds == [r \in Reqs |-> <<r>>]

(* One block per step, so that every step can emit a chunk. *)
TwoSteps == [r \in Reqs |-> 2]
EveryStep == [r \in Reqs |-> {1, 2}]

(* r1 is short, the others long; or each differs from the next. *)
ShortAndLong == [r \in Reqs |-> IF r = r1 THEN 1 ELSE 3]
Spread == [r \in Reqs |-> CASE r = r1 -> 2 [] r = r2 -> 3 [] OTHER -> 4]
ExactBuckets == <<1, 1>>
PadByHalf == <<3, 2>>
===============================================================================
