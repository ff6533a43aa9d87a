------------------------------ MODULE LoraManager ------------------------------
(***************************************************************************)
(* The LoRA adapters of a diffusion worker: a cache of loaded adapters in  *)
(* the order of their last use, the layers that were replaced to take an   *)
(* adapter's weights, and the one adapter those layers should hold.        *)
(*                                                                         *)
(* Every operation runs to its end or to an exception in the worker's      *)
(* loop, and an exception leaves what was done so far.  The manager is a   *)
(* record and an operation a function of it; ok tells whether it returned. *)
(* An adapter has weights for the layers it targets, under their names or  *)
(* their sublayers'; those of an adapter made for a model of another size  *)
(* do not fit, which a layer of several slices notices if they come in one *)
(* piece.  Scales are in ten-thousandths.                                  *)
(***************************************************************************)
EXTENDS Naturals, Sequences, FiniteSets, SequencesExt

CONSTANTS
  Adapter,
  Layer,              \* the layers that can be replaced, in the order of named_modules
  Targets,            \* for each adapter, the layers it targets
  Skips,              \* for each adapter, those whose weights in one piece are not as
                      \* long as their slices together
  Misfits,            \* for each adapter, those whose weights do not fit otherwise
  AdapterRank,        \* for each adapter, its rank
  ValidRanks,         \* _VALID_MAX_RANKS
  MaxCachedAdapters,  \* max_cached_adapters
  Scales              \* values of lora_scale

VARIABLE lora

Nothing == "nothing"
Reset == <<Nothing, 0>>
Rounded(s) == ((s + 5) \div 10) * 10

LoraInit ==
  lora = [registered |-> {}, access_order |-> <<>>, pinned |-> {}, active |-> Nothing,
          scales |-> [a \in Adapter |-> 0], modules |-> <<>>,
          weights |-> [l \in Range(Layer) |-> Reset], max_rank |-> 0, ok |-> TRUE]

-------------------------------------------------------------------------------
(* _deactivate_all_adapters.                                               *)
Deactivated(m) ==
  IF m.active = Nothing THEN m
  ELSE [m EXCEPT !.active = Nothing, !.weights = [l \in DOMAIN @ |-> Reset]]

(* One replaced layer after the other takes the adapter's weights, or is   *)
(* reset if there are none or its slices are not as long together; other   *)
(* weights that do not fit raise an exception when their layer was reset.  *)
Takes(a) == Targets[a] \ Skips[a]
Fits(m, a, l) == l \notin Misfits[a] /\ AdapterRank[a] <= m.max_rank

(* Mutant of LayersSet: a layer the adapter does not target keeps its own. *)
LayersKept(m, a, s) ==
  [m EXCEPT !.active = a, !.scales[a] = Rounded(s),
            !.weights = [l \in DOMAIN @ |-> IF l \in Takes(a) THEN <<a, s>> ELSE @[l]]]
LayersSet(m, a, s) ==
  LET bad == {k \in DOMAIN m.modules : m.modules[k] \in Takes(a) /\ ~Fits(m, a, m.modules[k])}
      Written(k) == \A j \in bad : k <= j
      weights == [l \in DOMAIN m.weights |->
        IF \E k \in DOMAIN m.modules : m.modules[k] = l /\ Written(k)
          THEN IF l \in Takes(a) /\ Fits(m, a, l) THEN <<a, s>> ELSE Reset
          ELSE m.weights[l]]
  IN IF bad = {} THEN [m EXCEPT !.weights = weights, !.active = a, !.scales[a] = Rounded(s)]
     ELSE [m EXCEPT !.weights = weights, !.ok = FALSE]

(* _activate_adapter.                                                      *)
Activated(m, a, s) ==
  IF m.active = a /\ m.scales[a] = Rounded(s) THEN m ELSE LayersSet(m, a, s)

(* remove_adapter.                                                         *)
Removed(m, a) ==
  IF a \notin m.registered THEN m
  ELSE [(IF m.active = a THEN Deactivated(m) ELSE m) EXCEPT
          !.registered = @ \ {a}, !.access_order = SelectSeq(@, LAMBDA b : b # a),
          !.scales[a] = 0, !.pinned = @ \ {a}]

(* _evict_for_new_adapter: the least recently used, but for the pinned.    *)
Evicted(m) ==
  LET Evict(n, a) ==
        IF Cardinality(n.registered) >= MaxCachedAdapters /\ a \notin n.pinned
          THEN Removed(n, a) ELSE n
  IN FoldLeft(Evict, m, m.access_order)

(* _ensure_max_lora_rank: larger buffers are new ones, to which the active *)
(* adapter is applied again.                                               *)
Ranked(m, r) ==
  LET enough == {v \in ValidRanks : v >= r}
      grown == [m EXCEPT !.max_rank = CHOOSE v \in enough : \A w \in enough : v <= w]
      fresh == [grown EXCEPT !.active = Nothing, !.weights = [l \in DOMAIN @ |-> Reset]]
  IN CASE r <= m.max_rank -> m
       [] r > m.max_rank /\ enough = {} -> [m EXCEPT !.ok = FALSE]
       [] r > m.max_rank /\ enough # {} ->
            IF m.active = Nothing THEN fresh ELSE LayersSet(fresh, m.active, m.scales[m.active])

(* _replace_layers_with_lora.                                              *)
Replaced(m, a) ==
  LET ranked == Ranked(m, AdapterRank[a])
      New(l) == l \in Targets[a] /\ ~Contains(ranked.modules, l)
  IN IF ranked.ok THEN [ranked EXCEPT !.modules = @ \o SelectSeq(Layer, New)] ELSE ranked

Touched(m, a) == [m EXCEPT !.access_order = Append(SelectSeq(@, LAMBDA b : b # a), a)]

(* add_adapter.                                                            *)
Added(m, a, loads) ==
  IF a \in m.registered THEN m
  ELSE IF loads
    THEN Replaced([Touched(Evicted(m), a) EXCEPT !.registered = @ \cup {a}], a)
    ELSE [Evicted(m) EXCEPT !.ok = FALSE]

-------------------------------------------------------------------------------
Begin == [lora EXCEPT !.ok = TRUE]

(* set_active_adapter, for a request with an adapter and for one without.  *)
Request(a, s, loads) ==
  LET known == IF a \in lora.registered THEN Touched(Begin, a) ELSE Added(Begin, a, loads)
  IN lora' = IF s = 0 THEN Deactivated(Begin)
             ELSE IF known.ok THEN Activated(known, a, s) ELSE known
PlainRequest == lora' = Deactivated(Begin)

(* The control RPCs of the worker.                                         *)
AddLora(a, loads) == lora' = Added(Begin, a, loads)
RemoveLora(a) == lora' = Removed(Begin, a)
PinLora(a) ==
  /\ a \in lora.registered
  /\ lora' = [Touched(Begin, a) EXCEPT !.pinned = @ \cup {a}]

LoraNext ==
  \/ PlainRequest
  \/ \E a \in Adapter :
       \/ \E loads \in BOOLEAN : (\E s \in Scales : Request(a, s, loads)) \/ AddLora(a, loads)
       \/ RemoveLora(a) \/ PinLora(a)

LoraSpec == LoraInit /\ [][LoraNext]_lora

-------------------------------------------------------------------------------
(* What is registered is in the order of use, the active adapter among it, *)
(* and the cache exceeds its limit only by what is pinned                  *)
(* (lora/manager.py:604, :705).                                            *)
CacheBounded ==
  /\ Range(lora.access_order) = lora.registered
  /\ Len(lora.access_order) = Cardinality(lora.registered)
  /\ lora.pinned \subseteq lora.registered
  /\ lora.active \in lora.registered \cup {Nothing}
  /\ \/ Cardinality(lora.registered) <= MaxCachedAdapters
     \/ Cardinality(lora.registered \ lora.pinned) <= 1

(* The layers that can hold the weights of the active adapter do, at its   *)
(* scale, and no layer others; those of every adapter in the cache were    *)
(* replaced, with room for its rank.                                       *)
Agrees(m) ==
  /\ \A a \in m.registered : Targets[a] \subseteq Range(m.modules) /\ AdapterRank[a] <= m.max_rank
  /\ \A l \in DOMAIN m.weights :
       IF m.active # Nothing /\ l \in Takes(m.active)
         THEN m.weights[l][1] = m.active /\ Rounded(m.weights[l][2]) = m.scales[m.active]
         ELSE m.weights[l] = Reset

(* An operation that returns keeps it so, whatever it evicted, replaced or *)
(* enlarged: only an exception tears it (lora/manager.py:449, :537).       *)
OnlyExceptionsTear == [][Agrees(lora) /\ lora'.ok => Agrees(lora')]_lora

(* "Clear any previously active adapter first so worker-local LoRA state   *)
(* cannot leak in": a request without an adapter runs without one          *)
(* (worker/diffusion_worker.py:269).                                       *)
NothingLeaks ==
  [][PlainRequest => \A l \in DOMAIN lora'.weights : lora'.weights[l] = Reset]_lora
===============================================================================
