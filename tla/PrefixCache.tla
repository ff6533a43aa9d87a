------------------------------ MODULE PrefixCache ------------------------------
(***************************************************************************)
(* Hidden states beside the key/value cache: the worker writes the row of  *)
(* every token it computes into the slots vLLM gave the token, so that a   *)
(* request whose prompt begins like one computed before - which vLLM does  *)
(* not compute again - still delivers the rows of all its tokens.          *)
(*                                                                         *)
(* A row is the tokens it was computed from.  A prompt is computed in      *)
(* pieces; those of several requests make a step.  The scheduler and its   *)
(* pool of hashed blocks are vLLM's: blocks are taken from the head of a   *)
(* queue, given back to its end with their hashes, and found again by them *)
(* as soon as they were scheduled.  A request ends with its prompt: sampled*)
(* tokens would be scheduled like those of the prompt, one by one.         *)
(***************************************************************************)
EXTENDS Naturals, Sequences, FiniteSets, SequencesExt

CONSTANTS
  Request,
  Text,           \* the tokens of each request's prompt
  BlockSize,
  NumBlocks,
  Budget,         \* tokens of a step
  MaxFlight,      \* steps scheduled and not sampled yet
  MaxPreemptions  \* bound: preemptions of a request

VARIABLES
  place,          \* "waiting", "running", "preempted", "over" or "aborted"
  num_computed,   \* tokens of each request that were scheduled
  tables,         \* blocks of each request
  free_queue, block_hash,
  draft,          \* what the schedule() under way has chosen
  finished_ids,   \* requests whose end the worker has still to hear of
  dispatched,         \* steps on their way to the worker
  worker_tables,  \* the worker's copy of the tables
  hit_ids,        \* _new_req_cache_hit_ids
  forwarded,      \* the step whose forward pass ran and that was not sampled yet
  hidden_cache,   \* hidden_states_cache, by block and offset
  delivered,      \* rows handed to the output of each request
  preempted       \* how often each was preempted

pool == <<tables, free_queue, block_hash>>
runner == <<worker_tables, hit_ids, forwarded, hidden_cache>>
prefix_vars ==
  <<place, num_computed, pool, draft, finished_ids, dispatched, runner, delivered, preempted>>

Block == 1 .. NumBlocks
Row(r, i) == SubSeq(Text[r], 1, i)
NoStep ==
  [new |-> {}, tokens |-> [r \in Request |-> 0], from |-> [r \in Request |-> 0],
   blocks |-> [r \in Request |-> <<>>], extends |-> {}, preempts |-> FALSE, finished |-> {}]
Scheduled(step) == {r \in Request : step.tokens[r] > 0}

PrefixInit ==
  /\ place = [r \in Request |-> "waiting"]
  /\ num_computed = [r \in Request |-> 0]
  /\ tables = [r \in Request |-> <<>>]
  /\ free_queue = [b \in Block |-> b]
  /\ block_hash = [b \in Block |-> <<>>]
  /\ draft = NoStep
  /\ finished_ids = {}
  /\ dispatched = <<>>
  /\ worker_tables = [r \in Request |-> <<>>]
  /\ hit_ids = {}
  /\ forwarded = NoStep
  /\ hidden_cache = [b \in Block |-> [o \in 1 .. BlockSize |-> <<>>]]
  /\ delivered = [r \in Request |-> <<>>]
  /\ preempted = [r \in Request |-> 0]

-------------------------------------------------------------------------------
(* The scheduler, external.                                                *)

(* The request gets n tokens more, from blocks of the queue; full blocks   *)
(* are known by their hash from now on.                                    *)
Allocate(r, held, from, n, queue) ==
  LET k == (from + n + BlockSize - 1) \div BlockSize - Len(held)
      table == held \o SubSeq(queue, 1, k)
      full == 1 .. (from + n) \div BlockSize
      extends == held = tables[r] /\ place[r] = "running"
  IN /\ k <= Len(queue)
     /\ n <= Budget - FoldFunction(+, 0, draft.tokens)
     /\ tables' = [tables EXCEPT ![r] = table]
     /\ free_queue' = SubSeq(queue, k + 1, Len(queue))
     /\ block_hash' = [b \in Block |->
          IF \E j \in full : table[j] = b THEN Row(r, BlockSize * CHOOSE j \in full : table[j] = b)
          ELSE IF Contains(SubSeq(queue, 1, k), b) THEN <<>> ELSE block_hash[b]]
     /\ num_computed' = [num_computed EXCEPT ![r] = from + n]
     /\ draft' = [draft EXCEPT
          !.tokens[r] = n, !.from[r] = from, !.new = IF place[r] = "waiting" THEN @ \cup {r} ELSE @,
          !.extends = IF extends THEN @ \cup {r} ELSE @,
          !.blocks[r] = IF extends THEN SubSeq(queue, 1, k) ELSE table]
     /\ UNCHANGED <<finished_ids, dispatched, runner, delivered, preempted>>

Continue(r, n) ==
  /\ place[r] = "running" /\ draft.tokens[r] = 0 /\ Scheduled(draft) \subseteq draft.extends
  /\ num_computed[r] + n <= Len(Text[r])
  /\ Allocate(r, tables[r], num_computed[r], n, free_queue)
  /\ UNCHANGED place

(* Blocks nobody holds any more go back, the last first.                   *)
Freed(r) ==
  LET Shared(b) == \E q \in Request \ {r} : Contains(tables[q], b)
  IN free_queue \o SelectSeq(Reverse(tables[r]), LAMBDA b : ~Shared(b))

(* Another request needs a block and there is none.                        *)
Preempt(r) ==
  /\ place[r] = "running" /\ draft.tokens[r] = 0 /\ preempted[r] < MaxPreemptions
  /\ free_queue = <<>>
  /\ \E q \in Request \ {r} : place[q] = "running" /\ num_computed[q] < Len(Text[q])
  /\ Scheduled(draft) \subseteq draft.extends
  /\ place' = [place EXCEPT ![r] = "preempted"]
  /\ num_computed' = [num_computed EXCEPT ![r] = 0]
  /\ free_queue' = Freed(r)
  /\ tables' = [tables EXCEPT ![r] = <<>>]
  /\ preempted' = [preempted EXCEPT ![r] = @ + 1]
  /\ draft' = [draft EXCEPT !.preempts = TRUE]
  /\ UNCHANGED <<block_hash, finished_ids, dispatched, runner, delivered>>

(* A waiting or preempted request is given the blocks that hold its first  *)
(* tokens, but for the last token, which has to be computed.               *)
Admit(r, n) ==
  LET Holder(j) == {b \in Block : block_hash[b] = Row(r, BlockSize * j)}
      hits == {k \in 0 .. (Len(Text[r]) - 1) \div BlockSize : \A j \in 1 .. k : Holder(j) # {}}
      hit == CHOOSE k \in hits : \A l \in hits : l <= k
      held == [j \in 1 .. hit |-> CHOOSE b \in Holder(j) : \A c \in Holder(j) : b <= c]
  IN /\ place[r] \in {"waiting", "preempted"} /\ ~draft.preempts
     /\ BlockSize * hit + n <= Len(Text[r])
     /\ Allocate(r, held, BlockSize * hit, n, SelectSeq(free_queue, LAMBDA b : ~Contains(held, b)))
     /\ place' = [place EXCEPT ![r] = "running"]

Dispatch ==
  /\ draft # NoStep \/ finished_ids # {}
  /\ Len(dispatched) + (IF forwarded = NoStep THEN 0 ELSE 1) < MaxFlight
  /\ dispatched' = Append(dispatched, [draft EXCEPT !.finished = finished_ids, !.preempts = FALSE])
  /\ draft' = NoStep
  /\ finished_ids' = {}
  /\ UNCHANGED <<place, num_computed, pool, runner, delivered, preempted>>

Abort(r) ==
  /\ draft = NoStep
  /\ place[r] \in {"waiting", "running", "preempted"}
  /\ place' = [place EXCEPT ![r] = "aborted"]
  /\ free_queue' = Freed(r)
  /\ tables' = [tables EXCEPT ![r] = <<>>]
  /\ finished_ids' = finished_ids \cup {r}
  /\ UNCHANGED <<num_computed, block_hash, draft, dispatched, runner, delivered, preempted>>

-------------------------------------------------------------------------------
(* The worker.                                                             *)

(* Who takes rows from the cache in this step: reset with every step, a    *)
(* request is among them only in the step it comes with.                   *)
(* Mutant of Hits: they are kept from step to step.                        *)
HitsKept(step) == hit_ids \cup {r \in step.new : step.from[r] > 0}
Hits(step) == {r \in step.new : step.from[r] > 0}

(* _update_states: tables of new and resumed requests are taken over,      *)
(* those of others extended, those of finished ones dropped.               *)
WorkerTables(step) ==
  [r \in Request |->
     IF r \in Scheduled(step) \ step.extends THEN step.blocks[r]
     ELSE IF r \in step.finished THEN <<>> ELSE worker_tables[r] \o step.blocks[r]]

(* update_omni_tensor_prefix_cache: the rows of a step go to the slots of  *)
(* their tokens.                                                           *)
Written(step, table) ==
  [b \in Block |-> [o \in 1 .. BlockSize |->
     LET k(r) == CHOOSE j \in DOMAIN table[r] : table[r][j] = b
         i(r) == BlockSize * (k(r) - 1) + o
         here == {r \in Scheduled(step) :
                    /\ Contains(table[r], b)
                    /\ i(r) > step.from[r] /\ i(r) <= step.from[r] + step.tokens[r]}
     IN IF here = {} THEN hidden_cache[b][o]
        ELSE LET r == CHOOSE q \in here : TRUE IN Row(r, i(r))]]

(* execute_model: a step without tokens only updates the books.            *)
ExecuteModel ==
  LET step == Head(dispatched)
  IN /\ draft = NoStep /\ forwarded = NoStep /\ dispatched # <<>>
     /\ dispatched' = Tail(dispatched)
     /\ hit_ids' = Hits(step)
     /\ worker_tables' = WorkerTables(step)
     /\ hidden_cache' = Written(step, worker_tables')
     /\ forwarded' = IF Scheduled(step) = {} THEN NoStep ELSE step
     /\ UNCHANGED <<place, num_computed, pool, draft, finished_ids, delivered, preempted>>

(* _get_merged_tensors: the rows of the blocks that were hit, then those   *)
(* of the step.                                                            *)
Merged(r) ==
  LET cached == IF r \in hit_ids THEN SubSeq(worker_tables[r], 1, forwarded.from[r] \div BlockSize)
                ELSE <<>>
  IN FlattenSeq([j \in DOMAIN cached |-> hidden_cache[cached[j]]])
       \o [i \in 1 .. forwarded.tokens[r] |-> Row(r, forwarded.from[r] + i)]

(* sample_tokens, and what the scheduler makes of it.                      *)
SampleTokens ==
  LET heard == {r \in Scheduled(forwarded) : place[r] \in {"running", "preempted"}}
      ends == {r \in heard : forwarded.from[r] + forwarded.tokens[r] = Len(Text[r])}
      Shared(b) == \E q \in Request \ ends : Contains(tables[q], b)
      Give(queue, r) == queue \o SelectSeq(Reverse(tables[r]),
                                           LAMBDA b : ~Shared(b) /\ ~Contains(queue, b))
  IN /\ draft = NoStep /\ forwarded # NoStep
     /\ delivered' = [r \in Request |-> delivered[r] \o (IF r \in heard THEN Merged(r) ELSE <<>>)]
     /\ place' = [r \in Request |-> IF r \in ends THEN "over" ELSE place[r]]
     /\ tables' = [r \in Request |-> IF r \in ends THEN <<>> ELSE tables[r]]
     /\ free_queue' = FoldLeft(Give, free_queue, SetToSeq(ends))
     /\ finished_ids' = finished_ids \cup ends
     /\ forwarded' = NoStep
     /\ UNCHANGED <<num_computed, block_hash, draft, dispatched, worker_tables, hit_ids,
                    hidden_cache, preempted>>

PrefixNext ==
  \/ Dispatch \/ ExecuteModel \/ SampleTokens
  \/ \E r \in Request :
       \/ Preempt(r) \/ Abort(r)
       \/ \E n \in 1 .. Budget : Continue(r, n) \/ Admit(r, n)

PrefixSpec == PrefixInit /\ [][PrefixNext]_prefix_vars

-------------------------------------------------------------------------------
(* What a request delivers are rows of its own tokens, never what another  *)
(* request left in a block; without preemption it is each row once, in     *)
(* order, and in the end all of them (core/prefix_cache.py:220).           *)
PrefixSound ==
  \A r \in Request :
    LET rows == [i \in DOMAIN Text[r] |-> Row(r, i)]
    IN /\ Range(delivered[r]) \subseteq Range(rows)
       /\ preempted[r] = 0 => IsPrefix(delivered[r], rows)
       /\ preempted[r] = 0 /\ place[r] = "over" => delivered[r] = rows
===============================================================================
