-------------------------- MODULE MCSchedulerMachine --------------------------
(***************************************************************************)
(* Values for the constants of SchedulerMachine, and the comparison of the *)
(* closed-form filter with the recursive one of the standard library.      *)
(***************************************************************************)
EXTENDS SchedulerMachine, TLC

(* Every request has an id and the same length: in fifo order they differ  *)
(* in nothing else, so they are interchangeable.                           *)
OwnIds == [r \in Reqs |-> <<r>>]
OneLength == [r \in Reqs |-> 2]
ExactBuckets == <<1, 1>>
Symmetry == Permutations(Reqs)

ASSUME KeepIsSelectSeq ==
  \A q \in UNION {[1..n -> 1..3] : n \in 0..4}, S \in SUBSET (1..3) :
    LET InS(e) == e \in S IN Keep(q, S) = SelectSeq(q, InS)
===============================================================================
