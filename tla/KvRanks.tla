------------------------------- MODULE KvRanks --------------------------------
(***************************************************************************)
(* The key/value cache of a request on its way from the ranks of one stage *)
(* to the ranks of the next, which may be wider or narrower: who sends     *)
(* which heads to whom, under which keys, and what a receiving rank makes  *)
(* of the shards that arrive, in any order, before its deadline            *)
(* (distributed/omni_connectors/kv_transfer_manager.py, utils/kv_utils.py).*)
(* With guidance, a request has companions, whose caches rank 0 of the     *)
(* guidance group collects too and hands to the other ranks of the group.  *)
(*                                                                         *)
(* The tensor ranks of the receiver do not talk to each other here, so one *)
(* of them is followed, with its guidance group. A put may come at any     *)
(* time, or never: what is sent is a function, not a process.              *)
(***************************************************************************)
EXTENDS Integers, Sequences, FiniteSets, SequencesExt

CONSTANTS
  Widths,      \* pairs of tensor-parallel sizes, of the sender and the receiver
  NumHeads,    \* heads of the whole cache, which every width divides
  CfgSizes,    \* sizes of the guidance group
  Companions   \* possible sequences of roles of a request's companions

VARIABLES
  topo,              \* sizes, the rank followed, and the roles of the request
  turn,              \* of the requests whose caches are collected, the one waited for
  pending_pairs,     \* its keys that did not arrive
  received_payloads, \* those that did, as they came
  request_kv,        \* caches on the request of the collecting rank
  rank_kv            \* what each rank of the guidance group runs with

kvRanksVars == <<topo, turn, pending_pairs, received_payloads, request_kv, rank_kv>>

None == "none"
Main == "main"
Requests == <<Main>> \o topo.roles    \* cfg_kv_request_ids keeps its order
Branch == Requests[turn]

Wider == topo.target > topo.source
Ratio == IF Wider THEN topo.target \div topo.source ELSE topo.source \div topo.target

(* The ranks a sending rank has a part for, and a receiving one needs.     *)
TargetRanks(s) ==
  IF Wider THEN [i \in 1 .. Ratio |-> s * Ratio + i - 1] ELSE <<s \div Ratio>>
SourceRanks(r) ==
  IF Wider THEN <<r \div Ratio>> ELSE [i \in 1 .. Ratio |-> r * Ratio + i - 1]

(* Keys name both ranks; with one rank on either side they name neither.   *)
TpActive == topo.source > 1 \/ topo.target > 1
Key(b, s, r) == IF TpActive THEN <<b, s, r>> ELSE <<b>>
SendKeys(b, s) == [i \in DOMAIN TargetRanks(s) |-> Key(b, s, TargetRanks(s)[i])]
RecvKeys(b, r) == [i \in DOMAIN SourceRanks(r) |-> Key(b, SourceRanks(r)[i], r)]

Shard(s, width) == [h \in 1 .. NumHeads \div width |-> s * (NumHeads \div width) + h]
SliceHeads(heads, offset, slices) ==
  LET size == Len(heads) \div slices IN SubSeq(heads, offset * size + 1, (offset + 1) * size)

(* What rank s puts under its i-th key: its shard, or, for a wider         *)
(* receiver, the slice of the rank the key names, marked as sliced.        *)
Sent(b, s, i) ==
  LET target == TargetRanks(s)[i]
  IN  [request |-> b, sliced |-> Wider,
       heads |-> IF Wider THEN SliceHeads(Shard(s, topo.source), target % Ratio, Ratio)
                 ELSE Shard(s, topo.source)]

Topologies ==
  {t \in [source: {w[1] : w \in Widths}, target: {w[2] : w \in Widths},
           rank: 0 .. NumHeads - 1, cfg: CfgSizes, roles: Companions] :
     <<t.source, t.target>> \in Widths /\ t.rank < t.target}
AnyTopo == CHOOSE t \in Topologies : TRUE

KvRanksInit ==
  /\ topo \in Topologies
  /\ turn = 1
  /\ pending_pairs = ToSet(RecvKeys(Main, topo.rank))
  /\ received_payloads = <<>>
  /\ request_kv = [b \in {} |-> 0]
  /\ rank_kv = [i \in {} |-> 0]

(* The connector hands over what some rank put under a key.                *)
Get(key) ==
  /\ key \in pending_pairs
  /\ \E s \in 0 .. topo.source - 1, i \in 1 .. Ratio :
       /\ i \in DOMAIN SendKeys(Branch, s) /\ SendKeys(Branch, s)[i] = key
       /\ received_payloads' =
            Append(received_payloads, [key |-> key, data |-> Sent(Branch, s, i)])
  /\ pending_pairs' = pending_pairs \ {key}
  /\ UNCHANGED <<topo, turn, request_kv, rank_kv>>

(* Shards are joined along the heads in the order of the keys.             *)
Ordered ==
  [i \in DOMAIN RecvKeys(Branch, topo.rank) |->
     received_payloads[CHOOSE j \in DOMAIN received_payloads :
                         received_payloads[j].key = RecvKeys(Branch, topo.rank)[i]].data]
Merged(payloads) ==
  [payloads[1] EXCEPT !.heads = FlattenSeq([i \in DOMAIN payloads |-> payloads[i].heads])]

(* A receiver that is wider cuts its part out of what nobody cut before.   *)
SliceReceived(data) ==
  IF Wider /\ ~data.sliced
  THEN [data EXCEPT !.heads = SliceHeads(data.heads, topo.rank % Ratio, Ratio)]
  ELSE data

NextRequest ==
  /\ turn' = turn + 1
  /\ received_payloads' = <<>>
  /\ pending_pairs' =
       IF turn < Len(Requests) THEN ToSet(RecvKeys(Requests[turn + 1], topo.rank)) ELSE {}
  /\ UNCHANGED <<topo, rank_kv>>

(* All keys arrived: the cache is put on the request.                      *)
Complete ==
  /\ turn <= Len(Requests) /\ pending_pairs = {}
  /\ request_kv' =
       [b \in DOMAIN request_kv \cup {Branch} |->
          IF b = Branch THEN SliceReceived(Merged(Ordered)) ELSE request_kv[b]]
  /\ NextRequest

(* The deadline: shards that did arrive are dropped, and the companions    *)
(* are collected even if the request itself was not.                       *)
Timeout ==
  /\ turn <= Len(Requests) /\ pending_pairs # {}
  /\ UNCHANGED request_kv
  /\ NextRequest

Only(branches) == [b \in branches |-> request_kv[b]]

(* The roles whose caches were collected, text before image.               *)
Collected == SelectSeq(<<"cfg_text", "cfg_img">>, LAMBDA role : role \in DOMAIN request_kv)

(* Rank 0 of the guidance group keeps what it collected. Of the others,    *)
(* the i-th runs with the request's cache and the i-th collected branch,   *)
(* if there is one; without tensor ranks every rank gets everything.       *)
(* Nobody else gets anything if the request's own cache did not come.      *)
Handed(i) ==
  CASE i = 0 \/ (~TpActive /\ Main \in DOMAIN request_kv) ->
         [active |-> None, caches |-> request_kv]
    [] i \in DOMAIN Collected /\ TpActive /\ Main \in DOMAIN request_kv ->
         [active |-> Collected[i], caches |-> Only({Main, Collected[i]})]
    [] OTHER -> [active |-> None, caches |-> Only({})]

Distribute ==
  /\ turn = Len(Requests) + 1 /\ DOMAIN rank_kv = {}
  /\ rank_kv' = [i \in 0 .. topo.cfg - 1 |-> Handed(i)]
  /\ UNCHANGED <<topo, turn, pending_pairs, received_payloads, request_kv>>

KvRanksNext ==
  \/ \E key \in pending_pairs : Get(key)
  \/ Complete
  \/ Timeout
  \/ Distribute

-------------------------------------------------------------------------------
(* Whatever the widths and the order in which shards arrived, a cache that *)
(* a rank runs with is that of the request it stands for, and has exactly  *)
(* the heads of the rank, in their order.                                  *)
OwnHeads ==
  \A i \in DOMAIN rank_kv : \A b \in DOMAIN rank_kv[i].caches :
    /\ rank_kv[i].caches[b].request = b
    /\ rank_kv[i].caches[b].heads = Shard(topo.rank, topo.target)

(* Every key a rank waits for is put by one rank of the sender, and each   *)
(* put is waited for by the rank it was cut for.                           *)
KeysMeet ==
  /\ \A r \in 0 .. topo.target - 1 : \A key \in ToSet(RecvKeys(Main, r)) :
       Cardinality({s \in 0 .. topo.source - 1 : key \in ToSet(SendKeys(Main, s))}) = 1
  /\ \A s \in 0 .. topo.source - 1 : \A key \in ToSet(SendKeys(Main, s)) :
       Cardinality({r \in 0 .. topo.target - 1 : key \in ToSet(RecvKeys(Main, r))}) = 1

(* No rank of the guidance group runs a branch without the cache of the    *)
(* request itself, and no branch is run by two of them.                    *)
BranchesApart ==
  /\ \A i \in DOMAIN rank_kv \ {0} :
       DOMAIN rank_kv[i].caches # {} =>
         Main \in DOMAIN rank_kv[i].caches /\ Main \in DOMAIN rank_kv[0].caches
  /\ \A i, j \in DOMAIN rank_kv :
       i # j /\ rank_kv[i].active # None => rank_kv[i].active # rank_kv[j].active

RanksSound == OwnHeads /\ KeysMeet /\ BranchesApart
===============================================================================
