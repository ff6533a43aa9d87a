------------------------------ MODULE LoadBalancer ------------------------------
(***************************************************************************)
(* RoundRobinBalancer over an instance list that the hub replaces at any   *)
(* time: the policy of load_balancer.py that keeps state between calls.    *)
(***************************************************************************)
EXTENDS Naturals, Sequences, FiniteSets, Functions

CONSTANTS
  Instance,   \* addresses a list may hold
  StartIndex  \* start_index of the round-robin balancer, a natural number

VARIABLES
  instances,  \* the current list: addresses in the order of the registry
  next_index, \* _next_index
  picks       \* what round-robin picked since the list last changed, the last round

vars == <<instances, next_index, picks>>

Lists == UNION {{f \in [1 .. n -> Instance] : IsInjective(f)} : n \in 0 .. Cardinality(Instance)}

Init ==
  /\ instances = <<>>
  /\ next_index = StartIndex
  /\ picks = <<>>

(* The hub cached another list.                                            *)
ListChanges ==
  /\ \E l \in Lists : l # instances /\ instances' = l
  /\ picks' = <<>>
  /\ UNCHANGED next_index

(* The last n of a sequence.                                               *)
LastOnes(s, n) == IF Len(s) =< n THEN s ELSE SubSeq(s, Len(s) - n + 1, Len(s))

(* RoundRobinBalancer.select: the index may be left from a longer list.    *)
(* Mutant of Chosen: clamped to the last entry instead of wrapped.         *)
ChosenClamped(n) == IF next_index < n THEN next_index ELSE n - 1
Chosen(n) == next_index % n
Advanced(n) == (next_index + 1) % n

SelectRoundRobin ==
  /\ instances # <<>>
  /\ LET n == Len(instances) IN
       /\ picks' = LastOnes(Append(picks, instances[Chosen(n) + 1]), n)
       /\ next_index' = Advanced(n)
  /\ UNCHANGED instances

Next == ListChanges \/ SelectRoundRobin
Spec == Init /\ [][Next]_vars

(* Addresses, and the index the balancer is built with.                    *)
BalancerAssumption == IsFiniteSet(Instance) /\ StartIndex \in Nat

TypeOK ==
  /\ instances \in Lists
  /\ next_index \in Nat
  /\ picks \in Seq(Instance)

(* While the list stays as it is, a round of round-robin picks reaches     *)
(* every instance of it exactly once, whatever index an earlier, longer or *)
(* shorter list left behind.                                               *)
RoundsAreFair ==
  Len(picks) = Len(instances) => IsInjective(picks) /\ Range(picks) = Range(instances)

(* The place of the k-th pick: the last one is before next_index.          *)
PickedAt(k) ==
  LET at == next_index - Len(picks) + k IN IF at >= 1 THEN at ELSE at + Len(instances)

(* The picks are those of a turn that stands before next_index.            *)
PicksInTurn ==
  /\ Len(picks) =< Len(instances)
  /\ picks # <<>> => next_index < Len(instances)
  /\ \A k \in 1 .. Len(picks) : picks[k] = instances[PickedAt(k)]

BalancerInvariant == TypeOK /\ PicksInTurn
===============================================================================
