-------------------------- MODULE DiffusionScheduler --------------------------
(***************************************************************************)
(* The diffusion scheduler: the bookkeeping _BaseScheduler shares, and the *)
(* RequestScheduler and StepScheduler built on it (StepExecution says      *)
(* which of the two is running).  A scheduler is a record of the fields of *)
(* the Python object and every method is an operator from such a record to *)
(* the record it leaves, so that the engine can run several methods inside *)
(* one critical section.                                                   *)
(***************************************************************************)
EXTENDS QueueOps, FiniteSetsExt

CONSTANTS
  Reqs,           \* the submissions: one OmniDiffusionRequest object each
  RequestIds,     \* RequestIds[r]: the public request_ids r carries, in order
  MaxSuffix,      \* bound on the #n suffixes _make_sched_req_id can give out
  MaxRunning,     \* max_num_running_reqs
  StepExecution,  \* TRUE: StepScheduler, FALSE: RequestScheduler
  Strategy,       \* "fifo" or "duration_bucket"
  BucketTokens,   \* _duration_bucket_tokens
  PadTolerance,   \* _pad_tolerance, as the fraction <<numerator, denominator>>
  Tokens,         \* Tokens[r]: what _estimate_target_tokens makes of r
  NoReq, NoSched  \* absence of a request, of a scheduler request id

Ids == UNION {Range(RequestIds[r]) : r \in Reqs}
SchedIds == Ids \X (0..MaxSuffix)

ASSUME SchedulerAssumption ==
  /\ IsFiniteSet(Reqs)
  /\ NoReq \notin Reqs
  /\ DOMAIN RequestIds = Reqs
  /\ \A r \in Reqs : /\ RequestIds[r] \in Seq(Range(RequestIds[r]))
                     /\ RequestIds[r] # <<>>
  /\ MaxSuffix \in Nat
  /\ NoSched \notin SchedIds
  /\ MaxRunning \in Nat \ {0}
  /\ StepExecution \in BOOLEAN
  /\ Strategy \in {"fifo", "duration_bucket"}
  /\ BucketTokens \in Nat \ {0}
  /\ PadTolerance \in (Nat \ {0}) \X (Nat \ {0})
  /\ PadTolerance[1] >= PadTolerance[2]
  /\ Tokens \in [Reqs -> Nat]

(* "NONE": the id has no entry in _request_states. *)
Queued == {"WAITING", "RUNNING", "PREEMPTED"}
Finished == {"COMPLETED", "ABORTED", "ERROR"}
Status == Queued \cup Finished \cup {"NONE"}

Scheduler ==
  [status   : [SchedIds -> Status],
   req      : [SchedIds -> Reqs \cup {NoReq}],
   owner    : [Ids -> SchedIds \cup {NoSched}],  \* _request_id_to_sched_req_id
   waiting  : Seq(SchedIds),
   running  : Seq(SchedIds),
   finished : SUBSET SchedIds]                   \* _finished_req_ids

EmptyScheduler ==
  [status   |-> [x \in SchedIds |-> "NONE"],
   req      |-> [x \in SchedIds |-> NoReq],
   owner    |-> [i \in Ids |-> NoSched],
   waiting  |-> <<>>,
   running  |-> <<>>,
   finished |-> {}]

-----------------------------------------------------------------------------
(* Adding, finding and removing requests. *)

(* x is the id _make_sched_req_id gives r: its first request id with the   *)
(* smallest suffix that has no state (suffix 0 is the bare id).            *)
IsSchedReqId(s, r, x) ==
  /\ x \in SchedIds
  /\ x[1] = RequestIds[r][1]
  /\ s.status[x] = "NONE"
  /\ \A n \in 0..(x[2] - 1) : s.status[<<x[1], n>>] # "NONE"

(* The positions at which _register_request_ids raises. *)
Conflicts(s, r) == {k \in DOMAIN RequestIds[r] : s.owner[RequestIds[r][k]] # NoSched}

Accepts(s, r) == Conflicts(s, r) = {}

(* The state is inserted first.  A conflict raises after the ids before it *)
(* were mapped and before the request is queued; nothing is rolled back.   *)
AddRequest(s, r, x) ==
  LET ids == RequestIds[r]
      mapped == {ids[k] : k \in {j \in DOMAIN ids : \A c \in Conflicts(s, r) : j < c}}
  IN  [s EXCEPT !.status[x] = "WAITING",
                !.req[x] = r,
                !.owner = [i \in Ids |-> IF i \in mapped THEN x ELSE @[i]],
                !.waiting = IF Accepts(s, r) THEN Append(@, x) ELSE @]

(* Mutant of HasRequests: continuing requests are forgotten. *)
HasRequestsWaiting(s) == s.waiting # <<>>

HasRequests(s) == s.waiting # <<>> \/ s.running # <<>>

PopRequestStates(s, X) ==
  [s EXCEPT !.status = [x \in SchedIds |-> IF x \in X THEN "NONE" ELSE @[x]],
            !.req = [x \in SchedIds |-> IF x \in X THEN NoReq ELSE @[x]],
            !.owner = [i \in Ids |-> IF @[i] \in X THEN NoSched ELSE @[i]]]

(* Mutant of PreemptRequest: the slot is not given up. *)
PreemptRequestStillRunning(s, x) ==
  IF x \notin Range(s.running) THEN s
  ELSE [s EXCEPT !.waiting = <<x>> \o @, !.status[x] = "PREEMPTED"]

(* preempt_request: a running request goes back to the head of the queue.  *)
PreemptRequest(s, x) ==
  IF x \notin Range(s.running) THEN s
  ELSE [s EXCEPT !.running = Without(@, {x}),
                 !.waiting = <<x>> \o @,
                 !.status[x] = "PREEMPTED"]

(* _finish_requests, with one status for all of X: ids without a state and *)
(* ids already finished are skipped.                                       *)
Live(s, X) == {x \in X : s.status[x] \in Queued}

(* Mutant of FinishRequests: a waiting request stays queued.               *)
FinishRequestsStillQueued(s, X, status) ==
  [s EXCEPT !.status = [x \in SchedIds |-> IF x \in Live(s, X) THEN status ELSE @[x]],
            !.running = Without(@, Live(s, X)),
            !.finished = @ \cup Live(s, X)]

FinishRequests(s, X, status) ==
  [s EXCEPT !.status = [x \in SchedIds |-> IF x \in Live(s, X) THEN status ELSE @[x]],
            !.running = Without(@, Live(s, X)),
            !.waiting = Without(@, Live(s, X)),
            !.finished = @ \cup Live(s, X)]

-----------------------------------------------------------------------------
(* Choosing what to run next. *)

(* StepScheduler prefers never-run requests over continuations that have   *)
(* already emitted audio.                                                  *)
HasPreferredWaiting(s) ==
  StepExecution /\ \E x \in Range(s.waiting) : s.status[x] = "WAITING"

Deferred(s) ==
  {x \in Range(s.waiting) : HasPreferredWaiting(s) /\ s.status[x] # "WAITING"}

Candidates(s) == Without(s.waiting, Deferred(s))

TargetTokens(s, x) == Tokens[s.req[x]]
DurationBucket(s, x) == TargetTokens(s, x) \div BucketTokens
PadTokens(s, x) == IF TargetTokens(s, x) < 1 THEN 1 ELSE TargetTokens(s, x)

UseTolerance == PadTolerance[1] > PadTolerance[2]

(* The requests a duration-bucketed batch must match: those running, or    *)
(* the first candidate when nothing runs.                                  *)
Anchors(s) ==
  IF s.running # <<>> THEN Range(s.running)
  ELSE IF Candidates(s) # <<>> THEN {Candidates(s)[1]} ELSE {}

(* Mutant of Widen: neighbours are compared, not the whole batch. *)
WidenToLatest(extent, t) == <<t, IF t > extent[2] THEN t ELSE extent[2]>>

(* A batch is padded to its longest member: its extent is the pair of its  *)
(* smallest and largest target lengths.                                    *)
Widen(extent, t) == <<IF t < extent[1] THEN t ELSE extent[1],
                      IF t > extent[2] THEN t ELSE extent[2]>>
WithinTolerance(extent) == extent[2] * PadTolerance[2] <= PadTolerance[1] * extent[1]

(* With a tolerance the batch is grown greedily, in queue order: a         *)
(* candidate joins when the extent it would give is within the tolerance.  *)
TolerantCandidates(s) ==
  LET cand == Candidates(s)
      anchors == {PadTokens(s, x) : x \in Anchors(s)}
      extent[i \in 0..Len(cand)] ==
        IF i = 0 THEN <<Min(anchors), Max(anchors)>>
        ELSE LET wider == Widen(extent[i - 1], PadTokens(s, cand[i]))
             IN  IF WithinTolerance(wider) THEN wider ELSE extent[i - 1]
  IN  {cand[i] : i \in {j \in DOMAIN cand :
         /\ WithinTolerance(extent[0])
         /\ WithinTolerance(Widen(extent[j - 1], PadTokens(s, cand[j])))}}

(* Without a tolerance, a candidate joins when it falls in the single      *)
(* bucket of the anchors.                                                  *)
SameBucketCandidates(s) ==
  {x \in Range(Candidates(s)) :
     {DurationBucket(s, a) : a \in Anchors(s)} = {DurationBucket(s, x)}}

Joining(s) ==
  CASE Strategy = "fifo" -> Range(Candidates(s))
    [] Strategy # "fifo" /\ UseTolerance -> TolerantCandidates(s)
    [] OTHER -> SameBucketCandidates(s)

(* The anchor, when it still waits itself, and those that join it. *)
SelectWaiting(s) ==
  FirstOf(Keep(s.waiting, Anchors(s) \cup Joining(s)), MaxRunning - Len(s.running))

(* One schedule() call: what it returns, new requests before cached ones,  *)
(* and the scheduler it leaves.                                            *)
SchedulerOutput ==
  [new : Seq(SchedIds), cached : Seq(SchedIds), finished : SUBSET SchedIds]

Output(s) ==
  LET selected == SelectWaiting(s)
      new == {x \in Range(selected) : s.status[x] = "WAITING"}
  IN  [new      |-> Keep(selected, new),
       cached   |-> s.running \o Without(selected, new),
       finished |-> s.finished]

AfterSchedule(s) ==
  LET selected == SelectWaiting(s)
  IN  [s EXCEPT !.status = [x \in SchedIds |-> IF x \in Range(selected) THEN "RUNNING" ELSE @[x]],
                !.running = @ \o selected,
                !.waiting = Without(@, Range(selected)),
                !.finished = {}]

Scheduled(out) == out.new \o out.cached

-----------------------------------------------------------------------------
(* Taking in what the runner did.  A RunnerOutput has the request it names *)
(* (req_id), the default result for ids without one of their own, the      *)
(* per-request results (batched: per_request_results is not None), the ids *)
(* reported finished and the step indices (0: None).                       *)

RunnerResult == {"audio", "error", "none"}
RunnerOutput ==
  [req_id : SchedIds, result : RunnerResult, results : [SchedIds -> RunnerResult],
   batched : BOOLEAN, finished : SUBSET SchedIds, step : [SchedIds -> Nat]]

ResultOf(ro, x) == IF ro.results[x] # "none" THEN ro.results[x] ELSE ro.result

Failed(ro, x) ==
  \/ ResultOf(ro, x) = "error"
  \/ ~StepExecution /\ ResultOf(ro, x) = "none"
  \/ StepExecution /\ ro.step[x] = 0

(* Mutant of Completed: any result ends the request, as in request mode. *)
CompletedByAnyOutput(ro, x) == ~Failed(ro, x)

Completed(ro, x) == ~Failed(ro, x) /\ (StepExecution => x \in ro.finished)

(* _yield_intermediate_results: chunk emitters give up their slot, in the  *)
(* order they were scheduled, when a never-run request waits or when       *)
(* (duration buckets) a shorter one waits, those that yielded before them  *)
(* included.                                                               *)
YieldTo(s, x, waiting) ==
  \/ HasPreferredWaiting(s)
  \/ /\ Strategy = "duration_bucket"
     /\ \E w \in waiting : DurationBucket(s, w) < DurationBucket(s, x)

Yielded(s, emitters) ==
  LET behind[i \in 0..Len(emitters)] ==
        IF i = 0 THEN Range(s.waiting)
        ELSE behind[i - 1] \cup
             {x \in {emitters[i]} \cap Range(s.running) : YieldTo(s, x, behind[i - 1])}
  IN  {x \in Range(s.running) : \E i \in DOMAIN emitters :
         emitters[i] = x /\ YieldTo(s, x, behind[i - 1])}

YieldIntermediateResults(s, emitters) ==
  LET gone == Yielded(s, emitters)
  IN  [s EXCEPT !.status = [x \in SchedIds |-> IF x \in gone THEN "PREEMPTED" ELSE @[x]],
                !.running = Without(@, gone),
                !.waiting = @ \o Keep(emitters, gone)]

(* update_from_output *)
Terminated(s, out, ro) ==
  LET live == Live(s, Range(Scheduled(out)))
  IN  FinishRequests(
        FinishRequests(s, {x \in live : Failed(ro, x)}, "ERROR"),
        {x \in live : Completed(ro, x)}, "COMPLETED")

UpdateFromOutput(s, out, ro) ==
  LET t == Terminated(s, out, ro)
      emitters == {x \in Live(t, Range(Scheduled(out))) : ro.results[x] # "none"}
  IN  IF StepExecution
      THEN YieldIntermediateResults(t, Keep(Scheduled(out), emitters))
      ELSE t

(* Mutants of FinishedBy: requests aborted while they ran are not          *)
(* surfaced; failed requests are not surfaced.                             *)
FinishedByOutputOnly(s, out, ro) ==
  Live(s, Range(Scheduled(out))) \cap Terminated(s, out, ro).finished

FinishedWithoutError(s, out, ro) ==
  {x \in Range(Scheduled(out)) \cap Terminated(s, out, ro).finished :
     Terminated(s, out, ro).status[x] # "ERROR"}

(* What update_from_output returns: the scheduled ids that are finished by *)
(* now, through this output or by an abort processed while they ran.       *)
FinishedBy(s, out, ro) ==
  Range(Scheduled(out)) \cap Terminated(s, out, ro).finished

-----------------------------------------------------------------------------
(* What the methods keep true of a scheduler, whoever calls them. *)

(* No request is queued twice, whether for its first run, as a             *)
(* continuation, or as a member of the running batch.                      *)
QueuedOnce(s) ==
  /\ IsInjective(s.waiting)
  /\ IsInjective(s.running)
  /\ Range(s.waiting) \cap Range(s.running) = {}

(* The status of a request says which queue it is in: only the states      *)
(* leaked by a rejected add are WAITING outside the queue.                 *)
StatusAgreesWithQueues(s) ==
  \A x \in SchedIds :
    /\ x \in Range(s.running) <=> s.status[x] = "RUNNING"
    /\ x \in Range(s.waiting) => s.status[x] \in {"WAITING", "PREEMPTED"}
    /\ s.status[x] = "PREEMPTED" => x \in Range(s.waiting)

(* The batch never outgrows the configured maximum.                        *)
WithinCapacity(s) == Len(s.running) <= MaxRunning

(* What runs together is padded to the longest: without a tolerance all    *)
(* members of a duration-bucketed batch share a bucket, with one their     *)
(* lengths stay within it.                                                 *)
Homogeneous(s) ==
  Strategy = "duration_bucket" => \A x, y \in Range(s.running) :
    IF UseTolerance THEN WithinTolerance(<<PadTokens(s, x), PadTokens(s, y)>>)
    ELSE DurationBucket(s, x) = DurationBucket(s, y)

(* A public id leads to a request that has a state and carries that id.    *)
OwnersExist(s) ==
  \A i \in Ids : s.owner[i] # NoSched =>
    /\ s.req[s.owner[i]] \in Reqs
    /\ i \in Range(RequestIds[s.req[s.owner[i]]])

(* A state has a request and the absence of a state has none.              *)
StatesHaveRequests(s) ==
  \A x \in SchedIds : s.status[x] = "NONE" <=> s.req[x] = NoReq

SchedulerOK(s) ==
  /\ s \in Scheduler
  /\ QueuedOnce(s)
  /\ StatusAgreesWithQueues(s)
  /\ WithinCapacity(s)
  /\ OwnersExist(s)
  /\ StatesHaveRequests(s)
===============================================================================
