------------------------------- MODULE KvTransfer -------------------------------
(***************************************************************************)
(* The key/value cache of a language-model stage on its way to the next    *)
(* stage.  The scheduler marks a request with the blocks it holds, hands   *)
(* the mark to the runner with its next step, and hears with that step's   *)
(* output that the blocks were read; until then it must not let them go.   *)
(* A token takes one block, a request computes one token a step.           *)
(***************************************************************************)
EXTENDS Integers, Sequences, FiniteSets, QueueOps

CONSTANTS
  Req, Block,
  Prompt,      \* num_prompt_tokens
  MaxTokens,   \* max_tokens of a request, a bound
  MaxRunning,  \* max_num_seqs
  Criteria     \* kv_transfer_criteria, the steps that may be out at once (flight) and the
               \* requests whose final stage is this one (text_only)

VARIABLES
  criteria,
  status,      \* "new", "waiting", "running", "preempted" and the ways to finish
  requests,    \* the scheduler's requests
  waiting, running,
  held,        \* held[r]: the blocks of r in the KV cache manager, in order
  computed,    \* num_computed_tokens
  generated,   \* output tokens that were heard
  needing,     \* requests_needing_kv_transfer, <<>> for a request without blocks
  active,      \* active_kv_transfers
  keeping,     \* waiting_for_transfer_free
  triggered,   \* transfer_triggered_requests
  stopping,    \* pending_stop_after_extraction
  leaving,     \* finished_req_ids
  scheduled,   \* steps handed to the runner
  executed,    \* what the runner made of them, not yet read
  content,     \* content[b]: whose token, and which, block b holds
  resident,    \* the runner's requests
  shipped,     \* shipped[r]: what was sent to the next stage for r
  told,        \* who heard kv_ready
  turn         \* whether the engine's loop has scheduled since it read an output

kvVars ==
  <<criteria, status, requests, waiting, running, held, computed, generated, needing, active, keeping,
    triggered, stopping, leaving, scheduled, executed, content, resident, shipped, told, turn>>

Finished == {"stopped", "handed_over", "aborted"}
Free == Block \ UNION {Range(held[r]) : r \in Req}

NoMarks == [r \in {} |-> <<>>]
AnyCriteria == CHOOSE c \in Criteria : TRUE

KvInit ==
  /\ criteria \in Criteria
  /\ status = [r \in Req |-> "new"]
  /\ requests = {}
  /\ waiting = <<>> /\ running = <<>>
  /\ held = [r \in Req |-> <<>>]
  /\ computed = [r \in Req |-> 0]
  /\ generated = [r \in Req |-> 0]
  /\ needing = NoMarks
  /\ active = {} /\ keeping = {} /\ triggered = {} /\ stopping = {} /\ leaving = {}
  /\ scheduled = <<>> /\ executed = <<>>
  /\ content = [b \in Block |-> <<>>]
  /\ resident = {}
  /\ shipped = [r \in Req |-> <<>>]
  /\ told = {}
  /\ turn = "schedule"

Arrive(r) ==
  /\ status[r] = "new"
  /\ status' = [status EXCEPT ![r] = "waiting"]
  /\ requests' = requests \union {r}
  /\ waiting' = Append(waiting, r)
  /\ UNCHANGED <<criteria, running, held, computed, generated, needing, active, keeping, triggered,
                 stopping, leaving, scheduled, executed, content, resident, shipped, told, turn>>

--------------------------------------------------------------------------------
(* vLLM's scheduler: running requests get a block each, the last ones are  *)
(* preempted when blocks run short, and only without that waiting requests *)
(* are admitted.                                                           *)

HasWork(r) == computed[r] < Prompt + generated[r]

Fits(k) ==
  LET later == UNION {Range(held[running[i]]) : i \in k + 1 .. Len(running)}
  IN Cardinality({i \in 1 .. k : HasWork(running[i])}) <= Cardinality(Free \union later)

(* The first k go on, as many as can.                                      *)
Keeps(k) == Fits(k) /\ \A j \in k + 1 .. Len(running) : ~Fits(j)

HaveRoom(n) ==
  /\ n <= Cardinality(Free) - Cardinality({r \in Range(running) : HasWork(r)})
  /\ Len(running) + n <= MaxRunning

(* Behind them n are admitted, as many as can.                             *)
Admits(k, n) ==
  IF k < Len(running) THEN n = 0
  ELSE HaveRoom(n) /\ \A m \in n + 1 .. Len(waiting) : ~HaveRoom(m)

(* The blocks are the lowest that are left, in the order of the queue.     *)
Lowest(block, order, pool) ==
  /\ \A i, j \in DOMAIN order :
       i < j /\ {order[i], order[j]} \subseteq DOMAIN block => block[order[i]] < block[order[j]]
  /\ \A r \in DOMAIN block, c \in pool : c < block[r] => c \in Range(block)

(* Who finished has to be told to the runner, by an empty step if need be. *)
HasRequests ==
  \/ DOMAIN needing # {} \/ active # {} \/ keeping # {}
  \/ waiting # <<>> \/ running # <<>>
  \/ leaving # {}

Steps(stay, admitted) == {r \in Range(stay) : HasWork(r)} \union Range(admitted)

Available(preempted) == Free \union UNION {Range(held[r]) : r \in Range(preempted)}

Proceed(stay, preempted, admitted, later) ==
  LET steps == Steps(stay, admitted)
      pool == Available(preempted)
  IN /\ running' = stay \o admitted
     /\ waiting' = preempted \o later
     /\ status' = [r \in Req |->
                     IF r \in Range(preempted) THEN "preempted"
                     ELSE IF r \in Range(admitted) THEN "running" ELSE status[r]]
     /\ computed' = [r \in Req |->
                       IF r \in Range(preempted) THEN 0
                       ELSE IF r \in steps THEN computed[r] + 1 ELSE computed[r]]
     /\ \E block \in [steps -> pool] :
          /\ Lowest(block, stay \o admitted, pool)
          /\ held' = [r \in Req |->
                        IF r \in Range(preempted) THEN <<>>
                        ELSE IF r \in steps THEN Append(held[r], block[r]) ELSE held[r]]
          /\ scheduled' = Append(scheduled,
               [blocks |-> block, tokens |-> [r \in steps |-> computed[r] + 1],
                yields |-> {r \in steps : computed[r] + 1 >= Prompt + generated[r]},
                sends |-> needing, finished |-> leaving])

(* What was marked goes out with the step that is scheduled next, after    *)
(* its blocks were allotted.                                               *)
Schedule ==
  /\ HasRequests
  /\ Len(scheduled) + Len(executed) < criteria.flight
  /\ \E k \in 0 .. Len(running), n \in 0 .. Len(waiting) :
       /\ Keeps(k)
       /\ Admits(k, n)
       /\ Proceed(SubSeq(running, 1, k), SubSeq(running, k + 1, Len(running)),
                  SubSeq(waiting, 1, n), SubSeq(waiting, n + 1, Len(waiting)))
  /\ active' = active \union DOMAIN needing
  /\ needing' = NoMarks
  /\ leaving' = {}
  /\ turn' = "update"
  /\ UNCHANGED <<criteria, requests, generated, keeping, triggered, stopping, executed, content,
                 resident, shipped, told>>

--------------------------------------------------------------------------------
(* The runner reads the marked blocks before it forgets who finished and   *)
(* before its forward pass writes.  Whether the connector took the data is *)
(* not told to the scheduler: what was tried is acknowledged.              *)
Written(s) ==
  [b \in Block |->
     IF \E r \in DOMAIN s.blocks : s.blocks[r] = b
     THEN LET r == CHOOSE r \in DOMAIN s.blocks : s.blocks[r] = b IN <<r, s.tokens[r]>>
     ELSE content[b]]

(* Mutant of Read: the blocks are read after the forward pass. *)
ReadLate(s, r) == [i \in DOMAIN s.sends[r] |-> Written(s)[s.sends[r][i]]]

Read(s, r) == [i \in DOMAIN s.sends[r] |-> content[s.sends[r][i]]]

Execute ==
  /\ scheduled # <<>>
  /\ LET s == Head(scheduled)
         sent == {r \in DOMAIN s.sends : s.sends[r] # <<>>}
     IN /\ shipped' = [r \in Req |->
                         IF r \in sent
                         THEN Append(shipped[r], [known |-> r \in resident, tokens |-> Read(s, r)])
                         ELSE shipped[r]]
        /\ content' = Written(s)
        /\ resident' = (resident \ s.finished) \union DOMAIN s.blocks
        /\ executed' = Append(executed,
             [steps |-> DOMAIN s.blocks, yields |-> s.yields, extracted |-> DOMAIN s.sends])
  /\ scheduled' = Tail(scheduled)
  /\ UNCHANGED <<criteria, status, requests, waiting, running, held, computed, generated, needing,
                 active, keeping, triggered, stopping, leaving, told, turn>>

--------------------------------------------------------------------------------
MustTransfer(r) == r \notin criteria.text_only

(* _mark_request_for_kv_transfer: a mark that waits is not replaced.       *)
Marked(set) ==
  [r \in DOMAIN needing \union set |->
     IF r \in DOMAIN needing THEN needing[r] ELSE FirstOf(held[r], computed[r])]

(* _free_request: the blocks of a request stay while its transfer is out,  *)
(* and a request that was never triggered is marked now.                   *)
Stays(r, out) == MustTransfer(r) /\ (r \in triggered => r \in out)
MarkedAtEnd(r) == MustTransfer(r) /\ r \notin triggered

(* _process_kv_transfer_trigger, for a request that did not stop.          *)
StopsNow(r, out) == r \in triggered /\ r \in stopping /\ r \notin out
Specials(set) == IF criteria.type = "special_token" THEN set ELSE {}
Triggers(r, special) ==
  /\ r \notin triggered
  /\ CASE criteria.type = "prefill_finished" -> computed[r] >= Prompt
       [] criteria.type = "special_token" -> r \in special
       [] OTHER -> FALSE

Alive(r) == r \in requests /\ status[r] \notin Finished

(* update_from_output.  eos and special: the requests whose token ends     *)
(* them, or is the one the criteria wait for.                              *)
Update ==
  /\ executed # <<>>
  /\ turn = "update" \/ ~HasRequests
  /\ turn' = "schedule"
  /\ LET x == Head(executed)
         heard == {r \in x.yields : Alive(r)}
         out == active \ x.extracted
     IN \E eos \in SUBSET heard, special \in SUBSET Specials(heard) :
          LET stopped == {r \in heard : r \in eos \/ generated[r] + 1 = MaxTokens}
              others == {r \in x.steps : Alive(r) /\ MustTransfer(r)} \ stopped
              deferred == {r \in others : StopsNow(r, out)}
              newly == {r \in others : Triggers(r, special)}
              ended == stopped \union deferred
              stays == {r \in ended : Stays(r, out)}
              freed == (ended \ stays) \union ((keeping \union stays) \intersect x.extracted)
          IN /\ told' = told \union {r \in x.extracted : Alive(r)}
             /\ generated' = [r \in Req |-> IF r \in heard THEN generated[r] + 1 ELSE generated[r]]
             /\ status' = [r \in Req |-> IF r \in stopped THEN "stopped"
                                         ELSE IF r \in deferred THEN "handed_over" ELSE status[r]]
             /\ running' = Without(running, ended)
             /\ waiting' = Without(waiting, ended)
             /\ needing' = Marked(newly \union {r \in ended : MarkedAtEnd(r)})
             /\ active' = out \ freed
             /\ keeping' = (keeping \union stays) \ x.extracted
             /\ triggered' = (triggered \union newly) \ freed
             /\ stopping' = ((stopping \union (IF criteria.stop THEN newly ELSE {})) \ deferred) \ freed
             /\ leaving' = leaving \union ended
             /\ held' = [r \in Req |-> IF r \in freed THEN <<>> ELSE held[r]]
             /\ requests' = requests \ freed
  /\ executed' = Tail(executed)
  /\ UNCHANGED <<criteria, computed, scheduled, content, resident, shipped>>

(* finish_requests, for a request that has not finished.                   *)
Abort(r) ==
  /\ Alive(r)
  /\ status' = [status EXCEPT ![r] = "aborted"]
  /\ running' = Without(running, {r})
  /\ waiting' = Without(waiting, {r})
  /\ leaving' = leaving \union {r}
  /\ needing' = IF MarkedAtEnd(r) THEN Marked({r}) ELSE needing
  /\ \/ /\ Stays(r, active)
        /\ keeping' = keeping \union {r}
        /\ UNCHANGED <<held, requests>>
     \/ /\ ~Stays(r, active)
        /\ held' = [held EXCEPT ![r] = <<>>]
        /\ requests' = requests \ {r}
        /\ UNCHANGED keeping
  /\ UNCHANGED <<criteria, computed, generated, active, triggered, stopping, scheduled, executed,
                 content, resident, shipped, told, turn>>

KvNext ==
  \/ \E r \in Req : Arrive(r) \/ Abort(r)
  \/ Schedule
  \/ Execute
  \/ Update

(* The engine's loop and the runner go on.                                 *)
KvStep == Schedule \/ Execute \/ Update

KvSpec == KvInit /\ [][KvNext]_kvVars /\ WF_kvVars(KvStep)

--------------------------------------------------------------------------------
(* The next stage gets the tokens of the request and no other's, read      *)
(* while the runner still knows under which name to send them: although a  *)
(* request that is aborted or preempted between its mark and the next step *)
(* has given its blocks back (omni_ar_scheduler.py:624, :702).             *)
OwnTokens ==
  \A r \in Req : \A n \in DOMAIN shipped[r] :
    /\ shipped[r][n].known
    /\ \A i \in DOMAIN shipped[r][n].tokens : shipped[r][n].tokens[i] = <<r, i>>

(* A cache is sent once, whatever its request does (:623, :687).           *)
SentOnce == \A r \in Req : Len(shipped[r]) <= 1

(* A request that ended by itself leaves when its cache, the whole prompt  *)
(* at least, was read; with one step out at a time.  With two, the output  *)
(* of one may end a request that the other preempted, without a block.     *)
Whole(r, mark) == status[r] # "aborted" => Len(mark) >= Prompt

GoneWhenSent ==
  criteria.flight = 1 =>
    \A r \in Req \ criteria.text_only :
      (status[r] \in {"stopped", "handed_over"} /\ r \notin requests)
        => shipped[r] # <<>> /\ Whole(r, shipped[r][1].tokens)

(* Blocks kept for a transfer are freed when its acknowledgement comes:    *)
(* none is kept that no mark, step or output is about (:540).              *)
Comes(r) ==
  \/ r \in DOMAIN needing
  \/ \E k \in DOMAIN scheduled : r \in DOMAIN scheduled[k].sends
  \/ \E k \in DOMAIN executed : r \in executed[k].extracted

KeptForTransfer == \A r \in keeping : Comes(r)

(* Whoever finished has left, or is kept; who left holds no block.         *)
NothingStranded ==
  /\ \A r \in requests : status[r] \in Finished <=> r \in keeping
  /\ \A r \in Req \ requests : held[r] = <<>>

(* A request is stopped for its transfer only after kv_ready was told      *)
(* (omni_ar_scheduler.py:137).                                             *)
ReadyBeforeStop == \A r \in Req : status[r] = "handed_over" => r \in told

KvSound ==
  OwnTokens /\ SentOnce /\ GoneWhenSent /\ KeptForTransfer /\ NothingStranded /\ ReadyBeforeStop

--------------------------------------------------------------------------------
(* What keeps it so.                                                       *)
KvAssumption == Block \subseteq Nat /\ Prompt \in Nat \ {0}

Owner == Req \X Nat
IsPartial(f, T) == DOMAIN f \subseteq Req /\ f \in [DOMAIN f -> T]
IsStep(s) ==
  /\ IsPartial(s.blocks, Block) /\ IsPartial(s.tokens, Nat) /\ IsPartial(s.sends, Seq(Block))
  /\ DOMAIN s.tokens = DOMAIN s.blocks /\ s.yields \subseteq Req /\ s.finished \subseteq Req
  /\ \A q, r \in DOMAIN s.blocks : q # r => s.blocks[q] # s.blocks[r]
Outcome == [steps : SUBSET Req, yields : SUBSET Req, extracted : SUBSET Req]

TypeOK ==
  /\ status \in [Req -> {"new", "waiting", "running", "preempted"} \union Finished]
  /\ waiting \in Seq(Req) /\ running \in Seq(Req)
  /\ held \in [Req -> Seq(Block)]
  /\ computed \in [Req -> Nat] /\ generated \in [Req -> Nat]
  /\ IsPartial(needing, Seq(Block))
  /\ \A set \in {requests, active, keeping, triggered, stopping, leaving, resident, told} :
       set \subseteq Req
  /\ scheduled \in Seq(Range(scheduled)) /\ executed \in Seq(Outcome)
  /\ \A k \in DOMAIN scheduled : IsStep(scheduled[k])
  /\ content \in [Block -> Owner \union {<<>>}]
  /\ shipped \in [Req -> Seq([known : BOOLEAN, tokens : Seq(Owner \union {<<>>})])]
  /\ turn \in {"schedule", "update"}

(* An output of r is out.                                                  *)
Yields(r) ==
  \/ \E k \in DOMAIN scheduled : r \in scheduled[k].yields
  \/ \E k \in DOMAIN executed : r \in executed[k].yields

(* The queues hold the requests that go on, each once.                     *)
Queues ==
  /\ IsInjective(waiting) /\ IsInjective(running)
  /\ Range(waiting) \intersect Range(running) = {}
  /\ \A r \in Range(waiting) \union Range(running) : Alive(r)
  /\ \A r \in Req : status[r] = "new" =>
       r \notin requests /\ r \notin triggered /\ computed[r] = 0 /\ ~Yields(r)

(* A block is held by one request, for one token.                          *)
Blocks ==
  /\ \A r \in requests : Len(held[r]) = computed[r]
  /\ \A q, r \in Req : q # r => Range(held[q]) \intersect Range(held[r]) = {}

(* Before the n-th of the steps s, block b holds the i-th token of r.      *)
Writes(step, b) == \E r \in DOMAIN step.blocks : step.blocks[r] = b

HoldsToken(s, was, n, b, r, i) ==
  \/ /\ was[b] = <<r, i>>
     /\ \A m \in 1 .. n - 1 : ~Writes(s[m], b)
  \/ \E k \in 1 .. n - 1 :
       /\ r \in DOMAIN s[k].blocks /\ s[k].blocks[r] = b /\ s[k].tokens[r] = i
       /\ \A m \in k + 1 .. n - 1 : ~Writes(s[m], b)

(* Before it, the runner knows r.                                          *)
Knows(s, was, n, r) ==
  /\ r \in was \/ \E k \in 1 .. n - 1 : r \in DOMAIN s[k].blocks
  /\ \A m \in 1 .. n - 1 : r \notin s[m].finished

(* A mark, a list of blocks, that goes out with the n-th step.             *)
Readable(s, was, names, n, r, mark) ==
  /\ mark # <<>> => Knows(s, names, n, r)
  /\ \A i \in DOMAIN mark : HoldsToken(s, was, n, mark[i], r, i)

Contents ==
  /\ \A r \in Req : Alive(r) => Readable(scheduled, content, resident, Len(scheduled) + 1, r, held[r])
  /\ \A r \in DOMAIN needing :
       Readable(scheduled, content, resident, Len(scheduled) + 1, r, needing[r])
  /\ \A k \in DOMAIN scheduled : \A r \in DOMAIN scheduled[k].sends :
       Readable(scheduled, content, resident, k, r, scheduled[k].sends[r])
  /\ \A r \in leaving \union UNION {scheduled[k].finished : k \in DOMAIN scheduled} :
       status[r] \in Finished

(* A cache is marked once, and its mark is in one place.                   *)
Marks ==
  /\ \A r \in Req : Comes(r) \/ shipped[r] # <<>> => r \in triggered \/ status[r] \in Finished
  /\ \A k \in DOMAIN scheduled : \A r \in DOMAIN scheduled[k].sends :
       /\ r \notin DOMAIN needing /\ shipped[r] = <<>>
       /\ \A m \in DOMAIN scheduled : r \in DOMAIN scheduled[m].sends => m = k
       /\ \A m \in DOMAIN executed : r \notin executed[m].extracted
  /\ \A k \in DOMAIN executed : \A r \in executed[k].extracted :
       /\ r \notin DOMAIN needing
       /\ \A m \in DOMAIN executed : r \in executed[m].extracted => m = k
  /\ \A r \in DOMAIN needing : shipped[r] = <<>>

(* It is on its way, or the scheduler heard of it.                         *)
Heard ==
  /\ \A r \in active : Comes(r) /\ r \notin DOMAIN needing
  /\ \A r \in triggered : Alive(r) => r \in DOMAIN needing \/ r \in active \/ r \in told
  /\ turn = "update" => \A r \in DOMAIN needing : ~Alive(r)
  /\ keeping \subseteq requests

(* With one step out at a time nothing is preempted behind an output.      *)
OneOut ==
  criteria.flight = 1 =>
    /\ Len(scheduled) + Len(executed) <= 1
    /\ \A r \in Req : Alive(r) /\ Yields(r) => computed[r] >= Prompt
    /\ \A r \in DOMAIN needing : Whole(r, needing[r])
    /\ \A k \in DOMAIN scheduled : \A r \in DOMAIN scheduled[k].sends :
         Whole(r, scheduled[k].sends[r])
    /\ \A r \in Req : shipped[r] # <<>> => Whole(r, shipped[r][1].tokens)
    /\ \A r \in told \union UNION {executed[k].extracted : k \in DOMAIN executed} :
         status[r] # "aborted" => shipped[r] # <<>>

KvInvariant ==
  /\ TypeOK /\ Queues /\ Blocks /\ Contents /\ Marks /\ Heard /\ OneOut
  /\ KvSound

(* Every request leaves in the end (omni_ar_scheduler.py:732).             *)
KvWaits(r) == r \in requests
KvOver(r) == r \notin requests
===============================================================================
