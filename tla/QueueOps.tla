------------------------------- MODULE QueueOps -------------------------------
(***************************************************************************)
(* The two ways entries are taken out of a deque or a list without         *)
(* disturbing the order of the others, in the diffusion scheduler and in   *)
(* the queues of a stage.  Both are closed forms rather than recursions,   *)
(* so that the proofs can reason about them; TLC compares Keep with the    *)
(* recursive SelectSeq (MCSchedulerMachine).                               *)
(***************************************************************************)
EXTENDS Integers, Sequences, FiniteSets, Functions

(* The place an index holds in a set of indices, counted from 1. *)
Rank(at, i) == Cardinality({j \in at : j <= i})

(* The entries of q that belong to S, in the order of q. *)
Keep(q, S) ==
  LET at == {i \in DOMAIN q : q[i] \in S}
  IN  [n \in 1..Cardinality(at) |-> q[CHOOSE i \in at : Rank(at, i) = n]]

(* The entries of q that do not belong to S, in the order of q. *)
Without(q, S) == Keep(q, Range(q) \ S)

(* Mutant of FirstOf: entries are popped from the wrong end. *)
LastOf(q, n) == SubSeq(q, IF n < Len(q) THEN Len(q) - n + 1 ELSE 1, Len(q))

(* The first n entries of q, or all of q when it is shorter. *)
FirstOf(q, n) == SubSeq(q, 1, IF n < Len(q) THEN n ELSE Len(q))
===============================================================================
