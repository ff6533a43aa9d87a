---------------------------- MODULE DiffusionEngine ----------------------------
(***************************************************************************)
(* DiffusionEngine in concurrent mode: client threads submit requests and  *)
(* block on an event or a stream queue, one driver thread schedules,       *)
(* executes and distributes, any thread aborts, and the engine may die or  *)
(* be closed.  An action is one critical section of _engine_lock, or one   *)
(* stretch of code between two of them.  The worker's step loop is modelled*)
(* with it (Execute), because what it caches must follow the scheduler.    *)
(***************************************************************************)
EXTENDS DiffusionScheduler

CONSTANTS
  Streaming,   \* the submissions made through stream(); the others use step()
  Steps,       \* Steps[r]: denoise steps in the plan of r
  BlockEnds,   \* BlockEnds[r]: the steps after which a block of r is complete
  Failures     \* which of "death" and "close" may happen

ASSUME EngineAssumption ==
  /\ Streaming \subseteq Reqs
  /\ StepExecution \/ Streaming = {}   \* stream() falls back to step()
  /\ Steps \in [Reqs -> Nat \ {0}]
  /\ BlockEnds \in [Reqs -> SUBSET Nat]
  /\ Failures \subseteq {"death", "close"}

VARIABLES
  sched,     \* the scheduler
  aborts,    \* abort_queue: it is drained whole, so its order is immaterial
  driver,    \* where the driver thread is
  running,   \* _driver_running
  hasReqs,   \* the driver's local has_reqs
  out,       \* the driver's local sched_output
  ro,        \* the driver's local runner_output
  client,    \* client[r]: where the thread that submitted r is
  sid,       \* sid[r]: the thread's local sched_req_id
  events,    \* _req_events: the submission whose event is registered
  woken,     \* the submissions whose event is set
  pending,   \* _pending_results
  streams,   \* _stream_queues: the submission whose queue is registered
  chan,      \* chan[r]: everything ever put in the stream queue of r
  reply,     \* reply[r]: what step() returned
  cache,     \* the worker's state_cache: steps done, Absent without an entry
  closer     \* where the thread calling close() is

driverVars == <<driver, running, hasReqs, out, ro>>
clientVars == <<client, sid, reply>>
waiterVars == <<events, woken, pending, streams, chan>>
vars == <<sched, aborts, driverVars, clientVars, waiterVars, cache, closer>>

Absent == -1
NoOutput == [new |-> <<>>, cached |-> <<>>, finished |-> {}]
NoRunnerOutput ==
  [req_id |-> NoSched, result |-> "none", results |-> [x \in SchedIds |-> "none"],
   batched |-> FALSE, finished |-> {}, step |-> [x \in SchedIds |-> 0]]

Kinds == {"audio", "error", "aborted", "dead"}
Item(kind, step, final) == [kind |-> kind, step |-> step, final |-> final]
Items == [kind : Kinds, step : Nat, final : BOOLEAN]
Final(kind) == Item(kind, 0, TRUE)

Init ==
  /\ sched = EmptyScheduler
  /\ aborts = {}
  /\ driver = "off"
  /\ running = FALSE
  /\ hasReqs = FALSE
  /\ out = NoOutput
  /\ ro = NoRunnerOutput
  /\ client = [r \in Reqs |-> "idle"]
  /\ sid = [r \in Reqs |-> NoSched]
  /\ events = [x \in SchedIds |-> NoReq]
  /\ woken = {}
  /\ pending = [x \in SchedIds |-> "none"]
  /\ streams = [x \in SchedIds |-> NoReq]
  /\ chan = [r \in Reqs |-> <<>>]
  /\ reply = [r \in Reqs |-> "none"]
  /\ cache = [x \in SchedIds |-> Absent]
  /\ closer = "no"

-----------------------------------------------------------------------------
(* The client threads. *)

(* Under the lock: start the driver if it never was, add the request, and  *)
(* register the event or the stream queue, unless add_request raised.      *)
Submit(r) ==
  /\ client[r] = "idle"
  /\ \E x \in SchedIds :
       /\ IsSchedReqId(sched, r, x)
       /\ sched' = AddRequest(sched, r, x)
       /\ IF Accepts(sched, r)
          THEN /\ client' = [client EXCEPT ![r] = "waiting"]
               /\ sid' = [sid EXCEPT ![r] = x]
               /\ IF r \in Streaming
                  THEN /\ streams' = [streams EXCEPT ![x] = r]
                       /\ UNCHANGED events
                  ELSE /\ events' = [events EXCEPT ![x] = r]
                       /\ UNCHANGED streams
          ELSE /\ client' = [client EXCEPT ![r] = "rejected"]
               /\ UNCHANGED <<sid, streams, events>>
  /\ IF driver = "off"
     THEN driver' = "top" /\ running' = TRUE
     ELSE UNCHANGED <<driver, running>>
  /\ UNCHANGED <<aborts, hasReqs, out, ro, woken, pending, chan, reply, cache, closer>>

(* Mutant of Collect: the wait for the event times out. *)
CollectEarly(r) ==
  /\ client[r] = "waiting"
  /\ r \notin Streaming
  /\ reply' = [reply EXCEPT ![r] = IF pending[sid[r]] = "none" THEN "lost" ELSE pending[sid[r]]]
  /\ pending' = [pending EXCEPT ![sid[r]] = "none"]
  /\ events' = [events EXCEPT ![sid[r]] = NoReq]
  /\ client' = [client EXCEPT ![r] = "returned"]
  /\ UNCHANGED <<sched, aborts, driverVars, sid, woken, streams, chan, cache, closer>>

(* The event is set: under the lock again, take the result and deregister. *)
(* "lost" is the answer "Driver returned no result".                       *)
Collect(r) ==
  /\ client[r] = "waiting"
  /\ r \in woken
  /\ reply' = [reply EXCEPT ![r] = IF pending[sid[r]] = "none" THEN "lost" ELSE pending[sid[r]]]
  /\ pending' = [pending EXCEPT ![sid[r]] = "none"]
  /\ events' = [events EXCEPT ![sid[r]] = NoReq]
  /\ client' = [client EXCEPT ![r] = "returned"]
  /\ UNCHANGED <<sched, aborts, driverVars, sid, woken, streams, chan, cache, closer>>

(* The client reads its queue up to the first final item. *)
Finals(r) == {k \in DOMAIN chan[r] : chan[r][k].final}
Answered(r) == Finals(r) # {}
Verdict(r) == chan[r][Min(Finals(r))]

(* The generator has yielded the final item: its finally clause drops the  *)
(* queue registered under its id.                                          *)
EndStream(r) ==
  /\ client[r] = "waiting"
  /\ r \in Streaming
  /\ Answered(r)
  /\ streams' = [streams EXCEPT ![sid[r]] = NoReq]
  /\ client' = [client EXCEPT ![r] = "returned"]
  /\ UNCHANGED <<sched, aborts, driverVars, sid, events, woken, pending, chan, reply, cache, closer>>

(* abort(): only a put in the queue, whoever calls it and whenever. *)
Abort(i) ==
  /\ i \notin aborts
  /\ aborts' = aborts \cup {i}
  /\ UNCHANGED <<sched, driverVars, clientVars, waiterVars, cache, closer>>

-----------------------------------------------------------------------------
(* The driver thread. *)

(* Mutant of Aborted: only queued requests are aborted. *)
AbortedUnlessRunning(s) ==
  FinishRequests(s, {s.owner[i] : i \in {j \in aborts : s.owner[j] \in Range(s.waiting)}},
                 "ABORTED")

(* _process_aborts_queue, on the scheduler s. *)
Aborted(s) ==
  FinishRequests(s, {s.owner[i] : i \in {j \in aborts : s.owner[j] # NoSched}}, "ABORTED")

DriverTop ==
  /\ driver = "top"
  /\ IF running
     THEN /\ sched' = Aborted(sched)
          /\ aborts' = {}
          /\ hasReqs' = HasRequests(sched')
          /\ driver' = "schedule"
     ELSE /\ driver' = "stopped"
          /\ UNCHANGED <<sched, aborts, hasReqs>>
  /\ UNCHANGED <<running, out, ro, clientVars, waiterVars, cache, closer>>

DriverSchedule ==
  /\ driver = "schedule"
  /\ IF ~hasReqs /\ ~HasRequests(sched)
     THEN driver' = "top" /\ UNCHANGED <<sched, out>>
     ELSE /\ out' = Output(sched)
          /\ sched' = AfterSchedule(sched)
          /\ driver' = IF Scheduled(out') = <<>> THEN "surface" ELSE "execute"
  /\ hasReqs' = FALSE
  /\ UNCHANGED <<aborts, running, ro, clientVars, waiterVars, cache, closer>>

(* The waiters of the ids in X: registered stream queues, and events.      *)
StreamsOf(X) == {x \in X : streams[x] # NoReq}
ForgetStreams(X) == [x \in SchedIds |-> IF x \in X THEN NoReq ELSE streams[x]]
(* Mutant of Wake: the result reaches the request its output names and no  *)
(* other of the batch. *)
WakeNamed(X) == woken \cup {events[x] : x \in {y \in X : y = ro.req_id /\ events[y] # NoReq}}

Wake(X) == woken \cup {events[x] : x \in {y \in X : events[y] # NoReq}}

(* _driver_dispatch_aborts *)
Surface ==
  /\ driver = "surface"
  /\ LET X == {x \in out.finished : pending[x] = "none" /\ sched.status[x] # "NONE"}
         direct == X \ StreamsOf(X)
     IN  /\ sched' = PopRequestStates(sched, X)
         /\ chan' = [r \in Reqs |-> IF \E x \in StreamsOf(X) : streams[x] = r
                                    THEN Append(chan[r], Final("aborted")) ELSE chan[r]]
         /\ streams' = ForgetStreams(X)
         /\ pending' = [x \in SchedIds |-> IF x \in direct THEN "aborted" ELSE pending[x]]
         /\ woken' = Wake(direct)
  /\ driver' = "top"
  /\ out' = NoOutput
  /\ UNCHANGED <<aborts, running, hasReqs, ro, clientVars, events, cache, closer>>

(* The worker: drop what is finished, then look the scheduled requests up. *)
Dropped == [x \in SchedIds |-> IF x \in out.finished THEN Absent ELSE cache[x]]

PayloadFits ==
  /\ \A x \in Range(out.cached) : Dropped[x] # Absent
  /\ \A x \in Range(out.new) : Dropped[x] = Absent

(* A call that raises in the worker or on the way fails the whole batch.   *)
FailedBatch ==
  [NoRunnerOutput EXCEPT !.req_id = Scheduled(out)[1], !.result = "error",
                         !.finished = Range(Scheduled(out))]

(* execute_stepwise: every scheduled request advances by one step; it has  *)
(* a result when it finishes and, when it streams, after a block, unless   *)
(* the block gave no samples to emit (silent).                             *)
StepBatch(silent) ==
  LET batch == Range(Scheduled(out))
      done == [x \in batch |-> 1 + (IF Dropped[x] = Absent THEN 0 ELSE Dropped[x])]
      ended == {x \in batch : done[x] >= Steps[sched.req[x]]}
      emitting == {x \in batch : sched.req[x] \in Streaming /\ done[x] \in BlockEnds[sched.req[x]]}
  IN  /\ silent \subseteq emitting \ ended
      /\ ro' = [req_id   |-> Scheduled(out)[1],
                result   |-> "none",
                results  |-> [x \in SchedIds |-> IF x \in ended \cup (emitting \ silent)
                                                 THEN "audio" ELSE "none"],
                batched  |-> TRUE,
                finished |-> ended,
                step     |-> [x \in SchedIds |-> IF x \in batch THEN done[x] ELSE 0]]
      /\ cache' = [x \in SchedIds |-> IF x \in ended THEN Absent
                                      ELSE IF x \in batch THEN done[x] ELSE Dropped[x]]

(* The new requests are in the cache before anything can fail in the       *)
(* pipeline, and stay there.                                               *)
StepFailure ==
  /\ ro' = FailedBatch
  /\ cache' = [x \in SchedIds |-> IF x \in Range(out.new) THEN 0 ELSE Dropped[x]]

ExecuteStep ==
  \/ PayloadFits /\ closer # "closed" /\ \E silent \in SUBSET Range(Scheduled(out)) : StepBatch(silent)
  \/ StepFailure

(* execute_request: the new requests are merged in one forward pass, whose *)
(* outcome is split again when there are several.                          *)
ExecuteRequest ==
  /\ \/ /\ out.new # <<>> /\ closer # "closed"
        /\ \E result \in {"audio", "error"} :
             ro' = [req_id   |-> out.new[1],
                    result   |-> result,
                    results  |-> [x \in SchedIds |-> IF Len(out.new) > 1 /\ x \in Range(out.new)
                                                     THEN result ELSE "none"],
                    batched  |-> Len(out.new) > 1,
                    finished |-> Range(Scheduled(out)),
                    step     |-> [x \in SchedIds |-> 0]]
     \/ ro' = FailedBatch
  /\ UNCHANGED cache

Execute ==
  /\ driver = "execute"
  /\ IF StepExecution THEN ExecuteStep ELSE ExecuteRequest
  /\ driver' = "deliver"
  /\ UNCHANGED <<sched, aborts, running, hasReqs, out, clientVars, waiterVars, closer>>

(* The executor raised EngineDeadError. *)
Die ==
  /\ "death" \in Failures
  /\ driver = "execute"
  /\ running' = FALSE
  /\ driver' = "dying"
  /\ UNCHANGED <<sched, aborts, hasReqs, out, ro, clientVars, waiterVars, cache, closer>>

(* Aborts, update_from_output and both dispatches, in one critical section. *)
Deliver ==
  /\ driver = "deliver"
  /\ LET aborted == Aborted(sched)
         updated == UpdateFromOutput(aborted, out, ro)
         finished == FinishedBy(aborted, out, ro)
         skip == {x \in finished : updated.status[x] # "COMPLETED"}
         produced == IF ro.batched THEN {x \in SchedIds : ro.results[x] # "none"}
                     ELSE IF ro.result = "none" THEN {} ELSE {ro.req_id}
         published == StreamsOf(produced \ skip)
         finals == published \cap ro.finished
         kind == [x \in finished |->
                    IF updated.status[x] = "ABORTED" THEN "aborted"
                    ELSE IF ResultOf(ro, x) = "none" THEN "error" ELSE ResultOf(ro, x)]
         direct == finished \ StreamsOf(finished)
     IN  /\ sched' = PopRequestStates(updated, finished)
         /\ chan' = [r \in Reqs |-> chan[r] \o
              (IF \E x \in published : streams[x] = r
               THEN <<Item(ResultOf(ro, sid[r]), ro.step[sid[r]], sid[r] \in finals)>> ELSE <<>>) \o
              (IF \E x \in finished \ finals : streams[x] = r
               THEN <<Final(kind[sid[r]])>> ELSE <<>>)]
         /\ streams' = ForgetStreams(finished)
         /\ pending' = [x \in SchedIds |-> IF x \in direct THEN kind[x] ELSE pending[x]]
         /\ woken' = Wake(direct)
  /\ aborts' = {}
  /\ driver' = "top"
  /\ out' = NoOutput
  /\ ro' = NoRunnerOutput
  /\ UNCHANGED <<running, hasReqs, clientVars, events, cache, closer>>

-----------------------------------------------------------------------------
(* Death and close. *)

(* Mutant of SignalEngineDead: the stream queues are forgotten. *)
SignalEventsOnly ==
  /\ pending' = [x \in SchedIds |-> IF events[x] # NoReq /\ pending[x] = "none"
                                    THEN "dead" ELSE pending[x]]
  /\ woken' = Wake(SchedIds)
  /\ UNCHANGED <<chan, streams>>

(* _driver_signal_engine_dead: every registered waiter gets an error. *)
SignalEngineDead ==
  /\ pending' = [x \in SchedIds |-> IF events[x] # NoReq /\ pending[x] = "none"
                                    THEN "dead" ELSE pending[x]]
  /\ woken' = Wake(SchedIds)
  /\ chan' = [r \in Reqs |-> IF \E x \in SchedIds : streams[x] = r
                             THEN Append(chan[r], Final("dead")) ELSE chan[r]]
  /\ streams' = [x \in SchedIds |-> NoReq]

DriverDie ==
  /\ driver = "dying"
  /\ SignalEngineDead
  /\ driver' = "dead"
  /\ UNCHANGED <<sched, aborts, running, hasReqs, out, ro, clientVars, events, cache, closer>>

CloseBegin ==
  /\ "close" \in Failures
  /\ closer = "no"
  /\ running' = FALSE
  /\ closer' = IF running THEN "signal" ELSE "shutdown"
  /\ UNCHANGED <<sched, aborts, driver, hasReqs, out, ro, clientVars, waiterVars, cache>>

CloseSignal ==
  /\ closer = "signal"
  /\ SignalEngineDead
  /\ closer' = "shutdown"
  /\ UNCHANGED <<sched, aborts, driverVars, clientVars, events, cache>>

(* After join(timeout=2.0), which the driver may outlast: scheduler.close  *)
(* and executor.shutdown, without the lock.  The two calls are one action: *)
(* the batch that was out returns as it does before both of them, and one  *)
(* scheduled between them is given only the outcome it has after both.     *)
CloseShutdown ==
  /\ closer = "shutdown"
  /\ sched' = EmptyScheduler
  /\ closer' = "closed"
  /\ UNCHANGED <<aborts, driverVars, clientVars, waiterVars, cache>>

-----------------------------------------------------------------------------
Driver == DriverTop \/ DriverSchedule \/ Surface \/ Execute \/ Deliver \/ DriverDie
Client(r) == Collect(r) \/ EndStream(r)

Next ==
  \/ Driver
  \/ Die
  \/ \E r \in Reqs : Submit(r) \/ Client(r)
  \/ \E i \in Ids : Abort(i)
  \/ CloseBegin \/ CloseSignal \/ CloseShutdown

Spec == Init /\ [][Next]_vars

(* The driver thread, the woken client threads and a thread inside close() *)
(* keep running, and the executor answers; nothing obliges anyone to       *)
(* submit, abort or close.                                                 *)
FairSpec ==
  /\ Spec
  /\ WF_vars(Driver)
  /\ WF_vars(CloseSignal \/ CloseShutdown)
  /\ \A r \in Reqs : WF_vars(Client(r))

-----------------------------------------------------------------------------
(* Properties. *)

DriverPlaces == {"off", "top", "schedule", "surface", "execute", "deliver", "dying",
                 "dead", "stopped"}

(* Every variable holds a value of the kind the Python attribute or local  *)
(* it stands for can hold.                                                 *)
TypeOK ==
  /\ sched \in Scheduler
  /\ aborts \subseteq Ids
  /\ driver \in DriverPlaces
  /\ running \in BOOLEAN /\ hasReqs \in BOOLEAN
  /\ out \in SchedulerOutput
  /\ ro \in RunnerOutput \cup {NoRunnerOutput}
  /\ client \in [Reqs -> {"idle", "waiting", "rejected", "returned"}]
  /\ sid \in [Reqs -> SchedIds \cup {NoSched}]
  /\ events \in [SchedIds -> Reqs \cup {NoReq}]
  /\ streams \in [SchedIds -> Reqs \cup {NoReq}]
  /\ woken \subseteq Reqs
  /\ pending \in [SchedIds -> Kinds \cup {"none"}]
  /\ reply \in [Reqs -> Kinds \cup {"none", "lost"}]
  /\ chan \in [Reqs -> Seq(Items)]
  /\ cache \in [SchedIds -> Nat \cup {Absent}]
  /\ closer \in {"no", "signal", "shutdown", "closed"}

(* Whatever the interleaving of submissions, aborts and driver iterations, *)
(* the scheduler's two queues, its states and its id map tell one story    *)
(* (base_scheduler.py).                                                    *)
SchedulerConsistent == SchedulerOK(sched)

(* The in-flight batch is the running list: nothing joins or leaves it     *)
(* while the lock is released around execute_fn (diffusion_engine.py:610). *)
BatchIsRunning ==
  driver \in {"execute", "deliver"} /\ closer # "closed" =>
    /\ IsInjective(Scheduled(out))
    /\ Range(Scheduled(out)) = Range(sched.running)

(* _driver_dispatch_aborts is never handed an abort: when the driver       *)
(* reaches it, schedule() had nothing to report, because a scheduler with  *)
(* requests always fills a batch, and one without is not asked (:588).     *)
(* While a batch is out, what finished before it was reported with it.     *)
FinishesTaken ==
  /\ driver \in {"surface", "execute", "deliver"} => sched.finished = {}
  /\ driver = "surface" => out.finished = {}
  /\ driver = "schedule" /\ hasReqs => HasRequests(sched) \/ sched.finished = {}

(* The inductive strengthening of the three above. *)
SchedulingInvariant ==
  /\ SchedulerConsistent
  /\ BatchIsRunning
  /\ FinishesTaken
  /\ aborts \subseteq Ids
  /\ out.finished \subseteq SchedIds
  /\ Scheduled(out) \in Seq(SchedIds)
  /\ IsInjective(Scheduled(out))

(* The worker never finds a cached request missing nor a new one already   *)
(* cached: neither ValueError of _update_states_batch is ever raised       *)
(* (diffusion_model_runner.py:317 and :323), although the worker only      *)
(* learns of an abort at the next schedule and drops what it finishes      *)
(* itself.                                                                 *)
CacheInSync == StepExecution /\ driver = "execute" => PayloadFits

(* The worker's cache holds no request that is over, unless the next       *)
(* schedule still has to report it: an entry is never leaked, and an id    *)
(* used again never inherits the progress of its previous bearer           *)
(* (diffusion_model_runner.py:304).                                        *)
CacheNotLeaked ==
  closer = "no" => \A x \in SchedIds : cache[x] # Absent =>
    \/ sched.status[x] \in {"RUNNING", "PREEMPTED"}
    \/ x \in sched.finished
    \/ driver \in {"execute", "dying", "dead"} /\ x \in out.finished

(* The worker's cache follows the scheduler, though it hears of everything *)
(* one schedule late (diffusion_model_runner.py:304).                      *)
CacheAgrees == CacheInSync /\ CacheNotLeaked

(* A duration-bucketed batch stays homogeneous although members leave,     *)
(* yield, are resumed and are joined by others between steps               *)
(* (base_scheduler.py:330).                                                *)
BatchIsHomogeneous == Homogeneous(sched)

Unanswered(r) == client[r] = "waiting" /\ IF r \in Streaming THEN ~Answered(r) ELSE r \notin woken

(* While the engine runs, a blocked client is still registered under its   *)
(* own scheduler id and that id still has its state: whatever finishes it  *)
(* can wake it.                                                            *)
WaitersReachable ==
  driver \in {"top", "schedule", "surface", "execute", "deliver"} /\ closer = "no" =>
    \A r \in Reqs : Unanswered(r) =>
      /\ sched.req[sid[r]] = r
      /\ (IF r \in Streaming THEN streams[sid[r]] ELSE events[sid[r]]) = r

(* The abort of a request outside the in-flight batch has been processed   *)
(* and its client still waits.                                             *)
Stranded(r) == Unanswered(r) /\ sched.status[sid[r]] = "ABORTED"

(* A blocked client's request is queued, or it was aborted outside a       *)
(* batch: no other way to finish leaves its client behind.                 *)
OnlyAbortsStrand ==
  driver \in {"top", "schedule", "surface", "execute", "deliver"} /\ closer = "no" =>
    \A r \in Reqs : Unanswered(r) => sched.status[sid[r]] \in Queued \cup {"ABORTED"}

(* A stream that ends well has had its last step: no request is reported   *)
(* complete early, however batches, yields and resumptions interleave.     *)
NoTruncatedAudio ==
  StepExecution => \A r \in Reqs :
    Answered(r) /\ Verdict(r).kind = "audio" => Verdict(r).step = Steps[r]

(* An abort that is in the queue when a batch comes back wins over the     *)
(* batch's output (diffusion_engine.py:630-646): from then on its stream   *)
(* carries no audio.                                                       *)
AbortBeatsLateAudio ==
  [][\A r \in Reqs :
       (\E i \in aborts : client[r] = "waiting" /\ sched.owner[i] = sid[r])
         => \A k \in (Len(chan[r]) + 1)..Len(chan'[r]) : chan'[r][k].kind # "audio"]_vars

(* When the engine dies or is closed, every client that is blocked at that *)
(* moment is woken, those whose aborts had stranded them included          *)
(* (diffusion_engine.py:745).                                              *)
SignalWakesEveryone ==
  [][(driver = "dying" /\ driver' = "dead") \/ (closer = "signal" /\ closer' = "shutdown")
       => \A r \in Reqs : ~Unanswered(r)']_vars

(* What the speech endpoint makes sure of: no two requests share their     *)
(* first request id.  OnlyAbortsStrand, SignalWakesEveryone and            *)
(* ImplementsLifecycle need it.  Otherwise a client that collects after its*)
(* scheduler id was given to the next request pops that request's event    *)
(* (diffusion_engine.py:546), and nothing wakes the next one any more.     *)
DistinctIds == \A r, q \in Reqs : RequestIds[r][1] = RequestIds[q][1] => r = q

(* A registered waiter waits, under its own scheduler id; who has no       *)
(* scheduler id has heard nothing.                                         *)
WaitersMatch ==
  /\ \A r \in Reqs :
       /\ sid[r] # NoSched => sid[r][1] = RequestIds[r][1]
       /\ client[r] \in {"waiting", "returned"} <=> sid[r] # NoSched
       /\ client[r] # "returned" => reply[r] = "none"
       /\ r \in Streaming => reply[r] = "none" /\ r \notin woken
       /\ r \notin Streaming => chan[r] = <<>>
       /\ sid[r] = NoSched => chan[r] = <<>> /\ r \notin woken
  /\ \A x \in SchedIds :
       /\ streams[x] # NoReq => /\ streams[x] \in Streaming
                                /\ client[streams[x]] = "waiting"
                                /\ sid[streams[x]] = x
       /\ events[x] # NoReq => /\ events[x] \in Reqs \ Streaming
                               /\ client[events[x]] = "waiting"
                               /\ sid[events[x]] = x
  /\ driver = "off" => \A r \in Reqs : client[r] = "idle"

(* Who waits is registered, and who was woken has a result to take.        *)
WaitersRegistered ==
  DistinctIds => \A r \in Reqs :
    /\ Unanswered(r) => (IF r \in Streaming THEN streams[sid[r]] ELSE events[sid[r]]) = r
    /\ client[r] = "waiting" /\ r \in woken => pending[sid[r]] # "none"

(* The state of who waits is queued, or was aborted outside a batch.       *)
WaitersHaveStates ==
  DistinctIds /\ driver \notin {"dying", "dead", "stopped"} /\ closer = "no" =>
    \A r \in Reqs : Unanswered(r) => sched.status[sid[r]] \in Queued \cup {"ABORTED"}

(* What the runner returned is about the batch it was given; when the      *)
(* scheduler was closed meanwhile, either no abort was processed since or  *)
(* the runner had been shut down already and produced nothing.             *)
RunnerAgrees ==
  /\ driver \in {"execute", "deliver"} => Scheduled(out) # <<>>
  /\ driver = "deliver" =>
       /\ ro \in RunnerOutput
       /\ ro.finished \subseteq Range(Scheduled(out))
       /\ ro.req_id \in Range(Scheduled(out))
       /\ \A x \in SchedIds : ro.results[x] # "none" => x \in Range(Scheduled(out))
       /\ closer = "closed" => \/ \A x \in SchedIds : sched.status[x] \notin Finished
                               \/ \A x \in SchedIds : ResultOf(ro, x) # "audio"

(* Inductive together with the scheduling invariant.                       *)
ClientsInvariant ==
  /\ TypeOK
  /\ WaitersMatch
  /\ WaitersRegistered
  /\ WaitersHaveStates
  /\ RunnerAgrees

(* A scheduler id goes to a request whose first id it extends, and a       *)
(* stream queue to the request that has the id.                            *)
BearersMatch ==
  /\ \A x \in SchedIds : sched.req[x] # NoReq => RequestIds[sched.req[x]][1] = x[1]
  /\ closer # "closed" => \A x \in SchedIds : streams[x] # NoReq => sched.req[x] = streams[x]

InProgress == {"RUNNING", "PREEMPTED"}

(* What the worker has cached is in progress, or it will hear of its end   *)
(* with the next batch.                                                    *)
CacheFollows ==
  StepExecution /\ closer # "closed" => \A x \in SchedIds : cache[x] # Absent =>
    \/ x \in sched.finished
    \/ driver \in {"execute", "dying", "dead"} /\ x \in out.finished
    \/ sched.status[x] \in InProgress /\ cache[x] < Steps[sched.req[x]]

(* What is in progress is cached, and no end is reported for it, unless it *)
(* is new in this batch or finished with it.                               *)
CacheComplete ==
  StepExecution /\ closer # "closed" /\ driver \notin {"dying", "dead"} =>
    \A x \in SchedIds : sched.status[x] \in InProgress =>
      \/ driver = "execute" /\ x \in Range(out.new) /\ (cache[x] = Absent \/ x \in out.finished)
      \/ driver = "deliver" /\ x \in ro.finished
      \/ /\ cache[x] # Absent /\ x \notin sched.finished
         /\ driver = "execute" => x \notin out.finished \cup Range(out.new)

AudioSteps(r) == {chan[r][k].step : k \in {j \in DOMAIN chan[r] : chan[r][j].kind = "audio"}}

(* What the runner returned after a step: every member of the batch        *)
(* failed, or every one has taken one step more than its stream has heard  *)
(* of, and those that finished have taken all of theirs.                   *)
RunnerExact ==
  StepExecution /\ driver = "deliver" =>
    \/ \A x \in SchedIds : ResultOf(ro, x) = "error"
    \/ /\ ro.batched /\ ro.result = "none"
       /\ \A x \in Range(Scheduled(out)) :
            /\ ro.step[x] # 0 /\ ro.results[x] # "error"
            /\ closer # "closed" /\ x \notin ro.finished => cache[x] = ro.step[x]
            /\ streams[x] # NoReq => \A n \in AudioSteps(streams[x]) : n < ro.step[x]
            /\ x \in ro.finished =>
                 /\ ro.results[x] = "audio"
                 /\ DistinctIds => \A r \in Reqs : RequestIds[r][1] = x[1] => ro.step[x] = Steps[r]
                 /\ closer # "closed" /\ streams[x] # NoReq => ro.step[x] = Steps[streams[x]]

(* A stream has heard of no step its request has not taken.                *)
StepsTaken ==
  StepExecution /\ closer # "closed" => \A x \in SchedIds : streams[x] # NoReq =>
    /\ sched.status[x] = "WAITING" \/ (driver = "execute" /\ x \in Range(out.new)) =>
         AudioSteps(streams[x]) = {}
    /\ sched.status[x] \in InProgress /\ ~(driver = "deliver" /\ x \in ro.finished) =>
         \A n \in AudioSteps(streams[x]) : n <= cache[x]

(* The audio that ends a stream is that of its last step.                  *)
ChunksExact ==
  StepExecution /\ (closer # "closed" \/ DistinctIds) => \A r \in Reqs :
    \A k \in DOMAIN chan[r] :
      chan[r][k].final /\ chan[r][k].kind = "audio" => chan[r][k].step = Steps[r]

AudioInvariant ==
  /\ BearersMatch
  /\ CacheFollows
  /\ CacheComplete
  /\ RunnerExact
  /\ StepsTaken
  /\ ChunksExact

(* Everything the engine keeps true at every moment: an inductive          *)
(* invariant.                                                              *)
EngineInvariant == SchedulingInvariant /\ ClientsInvariant /\ AudioInvariant

(* The life of a submission as its client sees it.  A result that close()  *)
(* or death left may still be overwritten until the client collects it.    *)
Outcome(r) ==
  IF r \in Streaming THEN (IF Answered(r) THEN Verdict(r).kind ELSE "none")
  ELSE reply[r]

LifeOf(r) ==
  [phase |-> CASE client[r] = "idle" -> "new"
               [] client[r] = "rejected" -> "refused"
               [] client[r] \in {"waiting", "returned"} ->
                    IF Outcome(r) = "none" THEN "active" ELSE "answered",
   step |-> LET heard == {k \in DOMAIN chan[r] : /\ chan[r][k].kind = "audio"
                                                  /\ \A j \in Finals(r) : k <= j}
            IN  IF heard = {} THEN 0 ELSE chan[r][Max(heard)].step,
   outcome |-> Outcome(r)]

Lifecycle == INSTANCE RequestLifecycle
  WITH Submissions <- Reqs, Streamed <- Streaming, Outcomes <- Kinds,
       life <- [r \in Reqs |-> LifeOf(r)]

(* The engine implements the request lifecycle: whatever the batches,      *)
(* aborts and failures, a client gets one outcome, which is not lost on    *)
(* the way, and before it its chunks in order.                             *)
ImplementsLifecycle == Lifecycle!Spec

(* Every client that blocks returns, also when the engine dies or is closed*)
(* meanwhile, unless its request was aborted outside a batch.  A client    *)
(* that submits when the driver has already gone is never answered:        *)
(* _driver_started is not reset (diffusion_engine.py:537).                 *)
ClientsAnswered ==
  \A r \in Reqs : client[r] = "waiting" /\ driver # "dead" /\ closer = "no" ~>
    \/ client[r] = "returned"
    \/ Stranded(r)

(* "Surface aborted-only finishes that may have arrived without any        *)
(* scheduled work" (diffusion_engine.py:600): an aborted request's client  *)
(* is answered.                                                            *)
AbortsSurface == \A r \in Reqs : Stranded(r) ~> client[r] = "returned"
===============================================================================
