------------------------ MODULE DiffusionEngine_proofs ------------------------
(***************************************************************************)
(* The engine keeps its scheduler consistent, knows what it has in flight  *)
(* and whom it owes an answer, keeps the worker's cache in step and ends   *)
(* no stream early, for any requests, ids, capacity, strategy and          *)
(* failures; and it implements the request lifecycle.                      *)
(***************************************************************************)
EXTENDS DiffusionEngine, DiffusionScheduler_proofs

(* Nothing is scheduled, nothing is finished, nothing is in flight. *)
LEMMA InitSchedulingInvariant == Init => SchedulingInvariant
<1> SUFFICES ASSUME Init PROVE SchedulingInvariant
  OBVIOUS
<1>1. SchedulerConsistent
  BY EmptySchedulerOK DEF Init, SchedulerConsistent
<1>2. out.finished = {} /\ out.new = <<>> /\ out.cached = <<>>
  BY DEF Init, NoOutput
<1>3. Scheduled(out) = <<>>
  BY <1>2 DEF Scheduled
<1>4. Scheduled(out) \in Seq(SchedIds) /\ IsInjective(Scheduled(out))
  BY <1>3 DEF IsInjective
<1>5. BatchIsRunning /\ FinishesTaken
  BY DEF Init, BatchIsRunning, FinishesTaken
<1> QED BY <1>1, <1>2, <1>4, <1>5 DEF Init, SchedulingInvariant

(* Processing the abort queue keeps the scheduler consistent, and what it  *)
(* finishes is over.                                                       *)
LEMMA AbortedOK ==
  ASSUME NEW s, SchedulerOK(s), aborts \subseteq Ids
  PROVE  /\ SchedulerOK(Aborted(s))
         /\ s.finished = {} => \A x \in Aborted(s).finished : Aborted(s).status[x] \in Finished
<1> DEFINE X == {s.owner[i] : i \in {j \in aborts : s.owner[j] # NoSched}}
           t == FinishRequests(s, X, "ABORTED")
<1>1. s \in Scheduler /\ s.owner \in [Ids -> SchedIds \cup {NoSched}]
  BY SchedulerFields DEF SchedulerOK
<1>2. X \in SUBSET SchedIds
  BY <1>1
<1>3. Aborted(s) = t
  BY DEF Aborted
<1> HIDE DEF X
<1>4. SchedulerOK(t)
  <2>1. "ABORTED" \in Finished
    BY DEF Finished
  <2> QED BY <1>2, <2>1, FinishRequestsOK
<1>5. /\ t.finished = s.finished \cup Live(s, X)
      /\ \A x \in SchedIds : t.status[x] = IF x \in Live(s, X) THEN "ABORTED" ELSE s.status[x]
  BY <1>1, FinishRequestsFinished, FinishRequestsStatus
<1> HIDE DEF t
<1>6. Live(s, X) \subseteq SchedIds
  BY <1>2 DEF Live
<1> QED BY <1>3, <1>4, <1>5, <1>6 DEF Finished

(* Every step of the engine keeps the invariant. *)
LEMMA StepSchedulingInvariant == SchedulingInvariant /\ [Next]_vars => SchedulingInvariant'
<1> SUFFICES ASSUME SchedulingInvariant, [Next]_vars
             PROVE  SchedulingInvariant'
  OBVIOUS
<1>0. /\ SchedulerOK(sched) /\ BatchIsRunning /\ FinishesTaken /\ aborts \subseteq Ids
      /\ out.finished \subseteq SchedIds
      /\ Scheduled(out) \in Seq(SchedIds) /\ IsInjective(Scheduled(out))
  BY DEF SchedulingInvariant, SchedulerConsistent
<1>1. CASE UNCHANGED vars
  BY <1>0, <1>1 DEF vars, driverVars, SchedulingInvariant, SchedulerConsistent, BatchIsRunning, FinishesTaken
<1>2. ASSUME NEW r \in Reqs, Submit(r)
      PROVE  SchedulingInvariant'
  <2>1. PICK x \in SchedIds : IsSchedReqId(sched, r, x) /\ sched' = AddRequest(sched, r, x)
    BY <1>2 DEF Submit
  <2>2. /\ SchedulerOK(sched')
        /\ HasRequests(sched) => HasRequests(sched')
        /\ sched'.finished = sched.finished
        /\ sched'.running = sched.running
    BY <1>0, <2>1, AddRequestOK
  <2>3. UNCHANGED <<aborts, hasReqs, out, closer>> /\ (driver' = driver \/ driver' = "top")
    BY <1>2 DEF Submit
  <2> QED BY <1>0, <2>2, <2>3
        DEF SchedulingInvariant, SchedulerConsistent, BatchIsRunning, FinishesTaken
<1>3. ASSUME NEW r \in Reqs, Collect(r) \/ EndStream(r)
      PROVE  SchedulingInvariant'
  BY <1>0, <1>3 DEF Collect, EndStream, driverVars,
       SchedulingInvariant, SchedulerConsistent, BatchIsRunning, FinishesTaken
<1>4. ASSUME NEW i \in Ids, Abort(i)
      PROVE  SchedulingInvariant'
  BY <1>0, <1>4 DEF Abort, driverVars,
       SchedulingInvariant, SchedulerConsistent, BatchIsRunning, FinishesTaken
<1>5. CASE DriverTop
  <2>1. SchedulerOK(sched')
    BY <1>0, <1>5, AbortedOK DEF DriverTop
  <2>2. /\ driver' = "schedule" => hasReqs' = HasRequests(sched')
        /\ driver' \in {"schedule", "stopped"} /\ aborts' \subseteq Ids /\ out' = out
    BY <1>0, <1>5 DEF DriverTop
  <2> QED BY <1>0, <2>1, <2>2
        DEF SchedulingInvariant, SchedulerConsistent, BatchIsRunning, FinishesTaken
<1>6. CASE DriverSchedule
  <2>1. CASE ~hasReqs /\ ~HasRequests(sched)
    BY <1>0, <1>6, <2>1 DEF DriverSchedule,
         SchedulingInvariant, SchedulerConsistent, BatchIsRunning, FinishesTaken
  <2>2. CASE ~(~hasReqs /\ ~HasRequests(sched))
    <3>1. /\ driver = "schedule" /\ out' = Output(sched) /\ sched' = AfterSchedule(sched)
          /\ driver' = IF Scheduled(out') = <<>> THEN "surface" ELSE "execute"
          /\ aborts' = aborts /\ closer' = closer
      BY <1>6, <2>2 DEF DriverSchedule
    <3>2. SchedulerOK(sched') /\ sched'.finished = {}
      BY <1>0, <3>1, AfterScheduleOK
    <3>3. /\ out'.finished = sched.finished
          /\ Scheduled(out') \in Seq(SchedIds)
          /\ IsInjective(Scheduled(out'))
          /\ Range(Scheduled(out')) = Range(sched'.running)
      BY <1>0, <3>1, OutputProperties
    <3>4. out'.finished \subseteq SchedIds
      BY <1>0, <3>3, SchedulerFields DEF SchedulerOK
    <3>5. driver' = "surface" => out'.finished = {}
      <4>1. driver' = "surface" => ~HasRequests(sched)
        BY <1>0, <3>1, ScheduleProgress
      <4> QED BY <1>0, <2>2, <3>1, <3>3, <4>1 DEF FinishesTaken
    <3> QED BY <1>0, <3>1, <3>2, <3>3, <3>4, <3>5
          DEF SchedulingInvariant, SchedulerConsistent, BatchIsRunning, FinishesTaken
  <2> QED BY <2>1, <2>2
<1>7. CASE Surface
  <2>1. PICK X \in SUBSET out.finished : sched' = PopRequestStates(sched, X)
    BY <1>7 DEF Surface
  <2>2. X = {}
    BY <1>0, <1>7 DEF Surface, FinishesTaken
  <2>3. SchedulerOK(sched')
    BY <1>0, <2>1, <2>2, PopRequestStatesOK
  <2>4. driver' = "top" /\ out' = NoOutput /\ aborts' = aborts
    BY <1>7 DEF Surface
  <2>5. Scheduled(out') = <<>> /\ out'.finished = {}
    BY <2>4 DEF Scheduled, NoOutput
  <2>6. Scheduled(out') \in Seq(SchedIds) /\ IsInjective(Scheduled(out'))
    BY <2>5 DEF IsInjective
  <2> QED BY <1>0, <2>3, <2>4, <2>5, <2>6
        DEF SchedulingInvariant, SchedulerConsistent, BatchIsRunning, FinishesTaken
<1>8. CASE Execute
  BY <1>0, <1>8 DEF Execute,
       SchedulingInvariant, SchedulerConsistent, BatchIsRunning, FinishesTaken
<1>9. CASE Deliver
  <2> DEFINE a == Aborted(sched)
             u == UpdateFromOutput(a, out, ro)
             f == FinishedBy(a, out, ro)
  <2>1. sched.finished = {}
    BY <1>0, <1>9 DEF Deliver, FinishesTaken
  <2>2. SchedulerOK(a) /\ \A x \in a.finished : a.status[x] \in Finished
    BY <1>0, <2>1, AbortedOK
  <2> HIDE DEF a
  <2>3. /\ SchedulerOK(u)
        /\ f \subseteq Range(Scheduled(out))
        /\ \A x \in f : u.status[x] \in Finished
    BY <1>0, <2>2, UpdateFromOutputOK
  <2>4. /\ sched' = PopRequestStates(u, f)
        /\ driver' = "top" /\ out' = NoOutput /\ aborts' = {}
    BY <1>9 DEF Deliver, a
  <2> HIDE DEF u, f
  <2>5. SchedulerOK(sched')
    <3>1. f \in SUBSET SchedIds
      BY <1>0, <2>3, RangeOfSeq
    <3>2. \A x \in f : u.status[x] \notin Queued
      BY <2>3 DEF Finished, Queued
    <3> QED BY <2>3, <2>4, <3>1, <3>2, PopRequestStatesOK
  <2>6. Scheduled(out') = <<>> /\ out'.finished = {}
    BY <2>4 DEF Scheduled, NoOutput
  <2>7. Scheduled(out') \in Seq(SchedIds) /\ IsInjective(Scheduled(out'))
    BY <2>6 DEF IsInjective
  <2> QED BY <2>4, <2>5, <2>6, <2>7
        DEF SchedulingInvariant, SchedulerConsistent, BatchIsRunning, FinishesTaken
<1>10. CASE Die \/ DriverDie
  BY <1>0, <1>10 DEF Die, DriverDie,
       SchedulingInvariant, SchedulerConsistent, BatchIsRunning, FinishesTaken
<1>11. CASE CloseBegin \/ CloseSignal
  BY <1>0, <1>11 DEF CloseBegin, CloseSignal, driverVars,
       SchedulingInvariant, SchedulerConsistent, BatchIsRunning, FinishesTaken
<1>12. CASE CloseShutdown
  <2>1. SchedulerOK(sched') /\ sched'.finished = {}
    BY <1>12, EmptySchedulerOK DEF CloseShutdown, EmptyScheduler
  <2>2. closer' = "closed" /\ UNCHANGED <<aborts, driver, hasReqs, out>>
    BY <1>12 DEF CloseShutdown, driverVars
  <2> QED BY <1>0, <2>1, <2>2
        DEF SchedulingInvariant, SchedulerConsistent, BatchIsRunning, FinishesTaken
<1> QED
  BY <1>1, <1>2, <1>3, <1>4, <1>5, <1>6, <1>7, <1>8, <1>9, <1>10, <1>11, <1>12
  DEF Next, Driver, Client

(* The inductive invariant holds in every reachable state. *)
THEOREM SchedulingInvariantHolds == Spec => []SchedulingInvariant
BY InitSchedulingInvariant, StepSchedulingInvariant, PTL DEF Spec

(* No interleaving of clients, aborts, failures and driver iterations      *)
(* makes the scheduler's queues, states and id map disagree.               *)
THEOREM SchedulerStaysConsistent == Spec => []SchedulerConsistent
<1>1. SchedulingInvariant => SchedulerConsistent
  BY DEF SchedulingInvariant
<1> QED BY <1>1, SchedulingInvariantHolds, PTL

(* Until the engine is closed, what is in flight is what is running.       *)
THEOREM BatchStaysRunning == Spec => []BatchIsRunning
<1>1. SchedulingInvariant => BatchIsRunning
  BY DEF SchedulingInvariant
<1> QED BY <1>1, SchedulingInvariantHolds, PTL

(* The driver's branch for aborted-only finishes never has one to surface. *)
THEOREM NothingToSurface == Spec => []FinishesTaken
<1>1. SchedulingInvariant => FinishesTaken
  BY DEF SchedulingInvariant
<1> QED BY <1>1, SchedulingInvariantHolds, PTL

(* Aborting keeps the requests, and lets none start to run.                *)
LEMMA AbortedLeaves ==
  ASSUME NEW s, SchedulerOK(s), aborts \subseteq Ids
  PROVE  Aborted(s).req = s.req /\ Range(Aborted(s).running) \subseteq Range(s.running)
<1> DEFINE X == {s.owner[i] : i \in {j \in aborts : s.owner[j] # NoSched}}
<1>1. Aborted(s) = FinishRequests(s, X, "ABORTED")
  BY DEF Aborted
<1>2. s \in Scheduler /\ s.running \in Seq(SchedIds)
  BY SchedulerFields DEF SchedulerOK
<1> HIDE DEF X
<1>3. Aborted(s).req = s.req /\ Aborted(s).running = Without(s.running, Live(s, X))
  BY <1>1, <1>2 DEF FinishRequests, Scheduler
<1> QED BY <1>2, <1>3, WithoutProperties

(* Only schedule() lets requests into the batch, and it keeps the batch    *)
(* homogeneous.                                                            *)
LEMMA StepHomogeneous ==
  SchedulingInvariant /\ Homogeneous(sched) /\ [Next]_vars => Homogeneous(sched)'
<1> SUFFICES ASSUME SchedulingInvariant, Homogeneous(sched), [Next]_vars
             PROVE  Homogeneous(sched')
  BY DEF Homogeneous, UseTolerance, WithinTolerance, PadTokens, DurationBucket, TargetTokens
<1>0. /\ SchedulerOK(sched) /\ aborts \subseteq Ids
      /\ Scheduled(out) \in Seq(SchedIds) /\ IsInjective(Scheduled(out))
      /\ sched \in Scheduler /\ sched.running \in Seq(SchedIds)
      /\ Range(sched.running) \subseteq SchedIds
  BY SchedulerFields, RangeOfSeq DEF SchedulingInvariant, SchedulerConsistent, SchedulerOK
<1>1. CASE sched' = sched
  BY <1>1
<1>2. ASSUME NEW r \in Reqs, Submit(r)
      PROVE  Homogeneous(sched')
  <2>1. PICK x \in SchedIds : IsSchedReqId(sched, r, x) /\ sched' = AddRequest(sched, r, x)
    BY <1>2 DEF Submit
  <2>2. sched'.running = sched.running
    BY <1>0, <2>1, AddRequestOK
  <2>3. x \notin Range(sched.running)
    BY <1>0, <2>1 DEF IsSchedReqId, SchedulerOK, StatusAgreesWithQueues
  <2>4. \A y \in Range(sched.running) : sched'.req[y] = sched.req[y]
    BY <1>0, <2>1, <2>3, AddRequestReq
  <2> QED BY <2>2, <2>4, LeavingKeepsHomogeneous
<1>3. CASE DriverTop
  <2>1. CASE sched' = Aborted(sched)
    BY <1>0, <2>1, AbortedLeaves, LeavingKeepsHomogeneous
  <2> QED BY <1>1, <1>3, <2>1 DEF DriverTop
<1>4. CASE DriverSchedule
  <2>1. sched' = sched \/ sched' = AfterSchedule(sched)
    BY <1>4 DEF DriverSchedule
  <2> QED BY <1>0, <1>1, <2>1, AfterScheduleHomogeneous
<1>5. ASSUME NEW s, SchedulerOK(s), Homogeneous(s), NEW X,
             \A x \in X : s.status[x] # "RUNNING", sched' = PopRequestStates(s, X)
      PROVE  Homogeneous(sched')
  <2>1. s \in Scheduler /\ Range(s.running) \subseteq SchedIds
    BY <1>5, SchedulerFields, RangeOfSeq DEF SchedulerOK
  <2>2. sched'.running = s.running
    BY <1>5, <2>1 DEF PopRequestStates, Scheduler
  <2>3. \A y \in Range(s.running) : y \notin X
    BY <1>5, <2>1 DEF SchedulerOK, StatusAgreesWithQueues
  <2>4. \A y \in Range(s.running) : sched'.req[y] = s.req[y]
    BY <1>5, <2>1, <2>3, PopRequestStatesFields
  <2> QED BY <1>5, <2>2, <2>4, LeavingKeepsHomogeneous
<1>6. CASE Surface
  <2>1. PICK X \in SUBSET out.finished : sched' = PopRequestStates(sched, X)
    BY <1>6 DEF Surface
  <2>2. X = {}
    BY <1>6 DEF Surface, FinishesTaken, SchedulingInvariant
  <2> QED BY <1>0, <1>5, <2>1, <2>2
<1>7. CASE Deliver
  <2> DEFINE a == Aborted(sched)
             u == UpdateFromOutput(a, out, ro)
             f == FinishedBy(a, out, ro)
  <2>1. sched.finished = {}
    BY <1>7 DEF Deliver, FinishesTaken, SchedulingInvariant
  <2>2. /\ SchedulerOK(a) /\ \A x \in a.finished : a.status[x] \in Finished
        /\ Homogeneous(a)
    BY <1>0, <2>1, AbortedOK, AbortedLeaves, LeavingKeepsHomogeneous
  <2> HIDE DEF a
  <2>3. /\ SchedulerOK(u)
        /\ f \subseteq Range(Scheduled(out))
        /\ \A x \in f : u.status[x] \in Finished
    BY <1>0, <2>2, UpdateFromOutputOK
  <2>4. u.req = a.req /\ Range(u.running) \subseteq Range(a.running)
    BY <1>0, <2>2, UpdateFromOutputFields
  <2>5. sched' = PopRequestStates(u, f)
    BY <1>7 DEF Deliver, a
  <2> HIDE DEF u, f
  <2>6. Homogeneous(u)
    BY <2>2, <2>4, LeavingKeepsHomogeneous
  <2>7. \A x \in f : u.status[x] # "RUNNING"
    BY <2>3 DEF Finished
  <2> QED BY <1>5, <2>3, <2>5, <2>6, <2>7
<1>8. CASE CloseShutdown
  <2>1. Range(sched'.running) = {}
    BY <1>8 DEF CloseShutdown, EmptyScheduler, Range
  <2> QED BY <2>1 DEF Homogeneous
<1> QED
  BY <1>1, <1>2, <1>3, <1>4, <1>6, <1>7, <1>8
  DEF Next, Driver, Client, Collect, EndStream, Abort, Execute, Die, DriverDie,
      CloseBegin, CloseSignal, vars, driverVars

(* However members leave, yield, are resumed and are joined by others,     *)
(* whatever the lengths, buckets and tolerance: what is padded together    *)
(* may be.                                                                 *)
THEOREM BatchesStayHomogeneous == Spec => []BatchIsHomogeneous
<1>1. Init => BatchIsHomogeneous
  <2>1. Init => Range(sched.running) = {}
    BY DEF Init, EmptyScheduler, Range
  <2> QED BY <2>1 DEF BatchIsHomogeneous, Homogeneous
<1>2. SchedulingInvariant /\ BatchIsHomogeneous /\ [Next]_vars => BatchIsHomogeneous'
  BY StepHomogeneous DEF BatchIsHomogeneous
<1> QED BY <1>1, <1>2, SchedulingInvariantHolds, PTL DEF Spec

-----------------------------------------------------------------------------
(* Clients and waiters: who waits can be woken, death and close wake       *)
(* everyone, and an abort wins over late audio.                            *)

-----------------------------------------------------------------------------
(* The local definitions of Deliver, by name. *)

TheAborted == Aborted(sched)
TheUpdated == UpdateFromOutput(TheAborted, out, ro)
TheFinished == FinishedBy(TheAborted, out, ro)
TheProduced == IF ro.batched THEN {x \in SchedIds : ro.results[x] # "none"}
               ELSE IF ro.result = "none" THEN {} ELSE {ro.req_id}
ThePublished ==
  StreamsOf(TheProduced \ {x \in TheFinished : TheUpdated.status[x] # "COMPLETED"})
TheFinals == ThePublished \cap ro.finished
TheKind == [x \in TheFinished |->
              IF TheUpdated.status[x] = "ABORTED" THEN "aborted"
              ELSE IF ResultOf(ro, x) = "none" THEN "error" ELSE ResultOf(ro, x)]
TheDirect == TheFinished \ StreamsOf(TheFinished)

(* What a delivery appends to the stream of r: its chunk, then its end.    *)
TheChunk(r) ==
  IF \E x \in ThePublished : streams[x] = r
  THEN <<Item(ResultOf(ro, sid[r]), ro.step[sid[r]], sid[r] \in TheFinals)>> ELSE <<>>
TheEnd(r) ==
  IF \E x \in TheFinished \ TheFinals : streams[x] = r
  THEN <<Final(TheKind[sid[r]])>> ELSE <<>>

(* Deliver in those terms. *)
LEMMA DeliverIs ==
  ASSUME Deliver
  PROVE  /\ driver = "deliver"
         /\ sched' = PopRequestStates(TheUpdated, TheFinished)
         /\ chan' = [r \in Reqs |-> chan[r] \o TheChunk(r) \o TheEnd(r)]
         /\ streams' = ForgetStreams(TheFinished)
         /\ pending' = [x \in SchedIds |-> IF x \in TheDirect THEN TheKind[x] ELSE pending[x]]
         /\ woken' = Wake(TheDirect)
         /\ aborts' = {} /\ driver' = "top" /\ out' = NoOutput /\ ro' = NoRunnerOutput
         /\ UNCHANGED <<running, hasReqs, clientVars, events, cache, closer>>
BY DEF Deliver, TheAborted, TheUpdated, TheFinished, TheProduced, ThePublished, TheFinals,
       TheKind, TheDirect, TheChunk, TheEnd

(* What Deliver works on: the aborted are over, the finished were in the   *)
(* batch.                                                                  *)
LEMMA DeliverSchedulers ==
  ASSUME SchedulingInvariant, driver = "deliver"
  PROVE  /\ SchedulerOK(TheAborted) /\ SchedulerOK(TheUpdated)
         /\ TheFinished \subseteq Range(Scheduled(out))
         /\ TheFinished \subseteq SchedIds
         /\ \A x \in TheFinished : TheUpdated.status[x] \in Finished
<1>1. /\ SchedulerOK(sched) /\ sched.finished = {} /\ aborts \subseteq Ids
      /\ Scheduled(out) \in Seq(SchedIds) /\ IsInjective(Scheduled(out))
  BY DEF SchedulingInvariant, SchedulerConsistent, FinishesTaken
<1>2. SchedulerOK(TheAborted) /\ \A x \in TheAborted.finished : TheAborted.status[x] \in Finished
  BY <1>1, AbortedOK DEF TheAborted
<1>3. /\ SchedulerOK(TheUpdated) /\ TheFinished \subseteq Range(Scheduled(out))
      /\ \A x \in TheFinished : TheUpdated.status[x] \in Finished
  BY <1>1, <1>2, UpdateFromOutputOK DEF TheUpdated, TheFinished
<1> QED BY <1>1, <1>2, <1>3, RangeOfSeq

(* Any sequence that is not empty names its first element.                 *)
LEMMA FirstScheduled ==
  ASSUME Scheduled(out) \in Seq(SchedIds), Scheduled(out) # <<>>
  PROVE  Scheduled(out)[1] \in Range(Scheduled(out)) /\ Scheduled(out)[1] \in SchedIds
BY NonEmptyQueue, RangeOfSeq

(* What an execution leaves in ro is a runner's output about its batch.    *)
LEMMA ExecuteOutput ==
  ASSUME SchedulingInvariant, TypeOK, RunnerAgrees, Execute
  PROVE  /\ ro' \in RunnerOutput
         /\ ro'.finished \subseteq Range(Scheduled(out))
         /\ ro'.req_id \in Range(Scheduled(out))
         /\ \A x \in SchedIds : ro'.results[x] # "none" => x \in Range(Scheduled(out))
         /\ closer = "closed" => \A x \in SchedIds : ResultOf(ro', x) # "audio"
         /\ cache' \in [SchedIds -> Nat \cup {Absent}]
<1> DEFINE batch == Range(Scheduled(out))
           first == Scheduled(out)[1]
<1>1. /\ out \in SchedulerOutput /\ cache \in [SchedIds -> Nat \cup {Absent}]
      /\ Scheduled(out) \in Seq(SchedIds) /\ Scheduled(out) # <<>>
      /\ first \in batch /\ batch \subseteq SchedIds
  <2>1. Scheduled(out) \in Seq(SchedIds) /\ Scheduled(out) # <<>>
    BY DEF SchedulingInvariant, RunnerAgrees, Execute
  <2>2. first \in batch /\ batch \subseteq SchedIds
    BY <2>1, FirstScheduled, RangeOfSeq
  <2> QED BY <2>1, <2>2 DEF TypeOK
<1>2. /\ FailedBatch \in RunnerOutput
      /\ FailedBatch.finished = batch /\ FailedBatch.req_id = first
      /\ \A x \in SchedIds : FailedBatch.results[x] = "none" /\ ResultOf(FailedBatch, x) = "error"
  BY <1>1 DEF FailedBatch, NoRunnerOutput, RunnerOutput, RunnerResult, ResultOf
<1>3. Dropped \in [SchedIds -> Nat \cup {Absent}]
  BY <1>1 DEF Dropped
<1>4. CASE StepExecution /\ StepFailure
  <2>1. ro' = FailedBatch /\ cache' = [x \in SchedIds |-> IF x \in Range(out.new) THEN 0 ELSE Dropped[x]]
    BY <1>4 DEF StepFailure
  <2>2. cache' \in [SchedIds -> Nat \cup {Absent}]
    BY <1>3, <2>1
  <2> QED BY <1>1, <1>2, <2>1, <2>2
<1>5. ASSUME NEW silent, StepBatch(silent), closer # "closed"
      PROVE  /\ ro' \in RunnerOutput /\ ro'.finished \subseteq batch /\ ro'.req_id \in batch
             /\ \A x \in SchedIds : ro'.results[x] # "none" => x \in batch
             /\ cache' \in [SchedIds -> Nat \cup {Absent}]
  <2> DEFINE done == [x \in batch |-> 1 + (IF Dropped[x] = Absent THEN 0 ELSE Dropped[x])]
             ended == {x \in batch : done[x] >= Steps[sched.req[x]]}
             emitting == {x \in batch : sched.req[x] \in Streaming /\ done[x] \in BlockEnds[sched.req[x]]}
             results == [x \in SchedIds |-> IF x \in ended \cup (emitting \ silent) THEN "audio" ELSE "none"]
             step == [x \in SchedIds |-> IF x \in batch THEN done[x] ELSE 0]
             left == [x \in SchedIds |-> IF x \in ended THEN Absent
                                         ELSE IF x \in batch THEN done[x] ELSE Dropped[x]]
  <2>1. ro' = [req_id |-> first, result |-> "none", results |-> results,
               batched |-> TRUE, finished |-> ended, step |-> step]
    BY <1>5 DEF StepBatch
  <2>2. cache' = left
    BY <1>5 DEF StepBatch
  <2>3. \A x \in batch : done[x] \in Nat
    BY <1>1, <1>3 DEF Absent
  <2> HIDE DEF done
  <2>4. ended \subseteq batch /\ emitting \subseteq batch
    OBVIOUS
  <2>5. results \in [SchedIds -> RunnerResult] /\ \A x \in SchedIds : results[x] # "none" => x \in batch
    BY <2>4 DEF RunnerResult
  <2>6. step \in [SchedIds -> Nat] /\ left \in [SchedIds -> Nat \cup {Absent}]
    BY <1>3, <2>3
  <2> HIDE DEF ended, emitting, results, step, left
  <2> QED BY <1>1, <2>1, <2>2, <2>4, <2>5, <2>6 DEF RunnerOutput, RunnerResult
<1>6. ASSUME ~StepExecution, ExecuteRequest
      PROVE  /\ ro' \in RunnerOutput /\ ro'.finished \subseteq batch /\ ro'.req_id \in batch
             /\ \A x \in SchedIds : ro'.results[x] # "none" => x \in batch
             /\ closer = "closed" => ro' = FailedBatch
             /\ cache' = cache
  <2>1. cache' = cache
    BY <1>6 DEF ExecuteRequest
  <2>2. CASE ro' = FailedBatch
    BY <1>1, <1>2, <2>1, <2>2
  <2>3. CASE ro' # FailedBatch
    <3>1. PICK result \in {"audio", "error"} :
            /\ out.new # <<>> /\ closer # "closed"
            /\ ro' = [req_id   |-> out.new[1],
                      result   |-> result,
                      results  |-> [x \in SchedIds |-> IF Len(out.new) > 1 /\ x \in Range(out.new)
                                                       THEN result ELSE "none"],
                      batched  |-> Len(out.new) > 1,
                      finished |-> Range(Scheduled(out)),
                      step     |-> [x \in SchedIds |-> 0]]
      BY <1>6, <2>3 DEF ExecuteRequest
    <3>2. out.new \in Seq(SchedIds) /\ out.cached \in Seq(SchedIds)
      BY <1>1 DEF SchedulerOutput
    <3>3. batch = Range(out.new) \cup Range(out.cached)
      BY <3>2, RangeConcatenation DEF Scheduled
    <3>4. out.new[1] \in Range(out.new)
      BY <3>1, <3>2, NonEmptyQueue
    <3> QED BY <1>1, <2>1, <3>1, <3>3, <3>4 DEF RunnerOutput, RunnerResult
  <2> QED BY <2>2, <2>3
<1> QED BY <1>1, <1>2, <1>4, <1>5, <1>6 DEF Execute, ExecuteStep

-----------------------------------------------------------------------------
(* Types. *)

(* Who is registered under an id has that id. *)
LEMMA RegisteredUnderOwnId ==
  ASSUME TypeOK, WaitersMatch, NEW r \in Reqs, NEW x \in SchedIds
  PROVE  /\ streams[x] = r => sid[r] = x /\ r \in Streaming /\ client[r] = "waiting"
         /\ events[x] = r => sid[r] = x /\ r \notin Streaming /\ client[r] = "waiting"
BY SchedulerAssumption DEF WaitersMatch, TypeOK

(* A delivery says well-formed things, to streaming clients with an id,    *)
(* and ends the stream of whatever is finished.                            *)
LEMMA DeliverSays ==
  ASSUME SchedulingInvariant, TypeOK, WaitersMatch, RunnerAgrees, driver = "deliver",
         NEW r \in Reqs
  PROVE  /\ TheChunk(r) \in Seq(Items) /\ TheEnd(r) \in Seq(Items)
         /\ r \notin Streaming \/ sid[r] = NoSched => TheChunk(r) = <<>> /\ TheEnd(r) = <<>>
         /\ sid[r] \in TheFinished /\ streams[sid[r]] = r =>
              \/ TheEnd(r) # <<>> /\ TheEnd(r)[1].final
              \/ TheChunk(r) # <<>> /\ TheChunk(r)[1].final
<1>1. /\ ro \in RunnerOutput
      /\ TheFinished \subseteq SchedIds
      /\ \A x \in TheFinished : TheUpdated.status[x] \in Finished
  BY DeliverSchedulers DEF RunnerAgrees
<1>2. \A x \in TheProduced : x \in SchedIds /\ ResultOf(ro, x) \in {"audio", "error"}
  BY <1>1 DEF TheProduced, ResultOf, RunnerOutput, RunnerResult
<1>3. ThePublished \subseteq TheProduced /\ TheFinals \subseteq ThePublished
  BY DEF ThePublished, TheFinals, StreamsOf
<1>4. \A x \in TheFinished : TheKind[x] \in Kinds
  BY <1>1 DEF TheKind, Kinds, ResultOf, RunnerOutput, RunnerResult
<1>5. \A x \in SchedIds : streams[x] = r => sid[r] = x /\ r \in Streaming
  BY RegisteredUnderOwnId
<1>6. CASE \E x \in ThePublished : streams[x] = r
  <2>1. sid[r] \in ThePublished /\ sid[r] \in TheProduced /\ sid[r] \in SchedIds /\ r \in Streaming
    BY <1>2, <1>3, <1>5, <1>6
  <2> DEFINE item == Item(ResultOf(ro, sid[r]), ro.step[sid[r]], sid[r] \in TheFinals)
  <2>2. item \in Items /\ (sid[r] \in TheFinals => item.final)
    <3>1. ResultOf(ro, sid[r]) \in Kinds /\ ro.step[sid[r]] \in Nat
      BY <1>1, <1>2, <2>1 DEF Kinds, RunnerOutput
    <3>2. (sid[r] \in TheFinals) \in BOOLEAN
      OBVIOUS
    <3> QED BY <3>1, <3>2, Zenon DEF Item, Items
  <2>3. TheChunk(r) = <<item>>
    BY <1>6 DEF TheChunk
  <2> HIDE DEF item
  <2>4. TheChunk(r) \in Seq(Items) /\ TheChunk(r) # <<>> /\ TheChunk(r)[1] = item
    BY <2>2, <2>3
  <2>5. CASE \E x \in TheFinished \ TheFinals : streams[x] = r
    <3>1. sid[r] \in TheFinished
      BY <1>1, <1>5, <2>5
    <3>2. TheEnd(r) = <<Final(TheKind[sid[r]])>> /\ Final(TheKind[sid[r]]) \in Items
          /\ Final(TheKind[sid[r]]).final
      BY <1>4, <2>5, <3>1 DEF TheEnd, Final, Item, Items
    <3> HIDE DEF TheEnd
    <3>3. TheEnd(r) \in Seq(Items) /\ TheEnd(r) # <<>> /\ TheEnd(r)[1].final
      BY <3>2
    <3> QED BY <1>1, <2>1, <2>4, <3>3, SchedulerAssumption
  <2>6. CASE ~ \E x \in TheFinished \ TheFinals : streams[x] = r
    <3>1. TheEnd(r) = <<>>
      BY <2>6 DEF TheEnd
    <3>2. sid[r] \in TheFinished /\ streams[sid[r]] = r => sid[r] \in TheFinals
      BY <2>6
    <3> QED BY <1>2, <1>3, <2>1, <2>2, <2>4, <3>1, <3>2, SchedulerAssumption
  <2> QED BY <2>5, <2>6
<1>7. CASE ~ \E x \in ThePublished : streams[x] = r
  <2>1. TheChunk(r) = <<>>
    BY <1>7 DEF TheChunk
  <2>2. CASE \E x \in TheFinished \ TheFinals : streams[x] = r
    <3>1. sid[r] \in TheFinished /\ sid[r] \in SchedIds /\ r \in Streaming
      BY <1>1, <1>5, <2>2
    <3>2. TheEnd(r) = <<Final(TheKind[sid[r]])>> /\ Final(TheKind[sid[r]]) \in Items
          /\ Final(TheKind[sid[r]]).final
      BY <1>4, <2>2, <3>1 DEF TheEnd, Final, Item, Items
    <3>3. TheEnd(r) \in Seq(Items) /\ TheEnd(r) # <<>> /\ TheEnd(r)[1].final
      BY <3>2
    <3> QED BY <2>1, <3>1, <3>3, SchedulerAssumption
  <2>3. CASE ~ \E x \in TheFinished \ TheFinals : streams[x] = r
    <3>1. TheEnd(r) = <<>>
      BY <2>3 DEF TheEnd
    <3>2. sid[r] \in TheFinished /\ streams[sid[r]] = r => sid[r] \in TheFinals
      BY <2>3
    <3> QED BY <1>3, <1>7, <2>1, <3>1, <3>2
  <2> QED BY <2>2, <2>3
<1> QED BY <1>6, <1>7

(* Nobody has submitted anything. *)
LEMMA InitClients == Init => ClientsInvariant
<1> SUFFICES ASSUME Init PROVE ClientsInvariant
  OBVIOUS
<1>1. sched \in Scheduler
  BY EmptySchedulerOK DEF Init, SchedulerOK
<1>2. out \in SchedulerOutput
  BY DEF Init, NoOutput, SchedulerOutput
<1>3. \A r \in Reqs : chan[r] = <<>> /\ chan[r] \in Seq(Items)
  BY DEF Init
<1>4. TypeOK
  BY <1>1, <1>2, <1>3 DEF Init, TypeOK, DriverPlaces
<1>5. WaitersMatch
  BY DEF Init, WaitersMatch
<1>6. WaitersRegistered /\ WaitersHaveStates
  BY DEF Init, WaitersRegistered, WaitersHaveStates, Unanswered
<1>7. RunnerAgrees
  BY DEF Init, RunnerAgrees
<1> QED BY <1>4, <1>5, <1>6, <1>7 DEF ClientsInvariant

(* Death and close append one item to the registered streams. *)
LEMMA SignalSays ==
  ASSUME TypeOK, SignalEngineDead
  PROVE  /\ chan' \in [Reqs -> Seq(Items)]
         /\ \A r \in Reqs : chan'[r] = IF \E x \in SchedIds : streams[x] = r
                                       THEN Append(chan[r], Final("dead")) ELSE chan[r]
         /\ pending' \in [SchedIds -> Kinds \cup {"none"}]
         /\ woken' \subseteq Reqs
         /\ streams' = [x \in SchedIds |-> NoReq]
<1>1. Final("dead") \in Items
  BY DEF Final, Item, Items, Kinds
<1>2. \A r \in Reqs : Append(chan[r], Final("dead")) \in Seq(Items)
  BY <1>1, AppendProperties DEF TypeOK
<1>3. chan' \in [Reqs -> Seq(Items)]
  BY <1>2 DEF SignalEngineDead, TypeOK
<1>4. pending' \in [SchedIds -> Kinds \cup {"none"}]
  BY DEF SignalEngineDead, TypeOK, Kinds
<1>5. woken' \subseteq Reqs
  BY DEF SignalEngineDead, TypeOK, Wake
<1> QED BY <1>3, <1>4, <1>5 DEF SignalEngineDead

(* Every step keeps the types. *)
LEMMA StepType ==
  ASSUME SchedulingInvariant, SchedulingInvariant', TypeOK, WaitersMatch, RunnerAgrees, [Next]_vars
  PROVE  TypeOK'
<1>0. /\ SchedulerOK(sched) /\ SchedulerOK(sched') /\ sched' \in Scheduler /\ aborts' \subseteq Ids
  BY DEF SchedulingInvariant, SchedulerConsistent, SchedulerOK
<1>1. CASE UNCHANGED vars
  BY <1>1 DEF vars, driverVars, clientVars, waiterVars, TypeOK
<1>2. ASSUME NEW r \in Reqs, Submit(r)
      PROVE  TypeOK'
  <2>1. PICK x \in SchedIds : sid' = [sid EXCEPT ![r] = x] \/ sid' = sid
    BY <1>2 DEF Submit
  <2>2. sid' \in [Reqs -> SchedIds \cup {NoSched}]
    BY <2>1 DEF TypeOK
  <2>3. streams' \in [SchedIds -> Reqs \cup {NoReq}] /\ events' \in [SchedIds -> Reqs \cup {NoReq}]
    BY <1>2 DEF Submit, TypeOK
  <2>4. client' \in [Reqs -> {"idle", "waiting", "rejected", "returned"}]
    BY <1>2 DEF Submit, TypeOK
  <2>5. driver' \in DriverPlaces /\ running' \in BOOLEAN
    BY <1>2 DEF Submit, TypeOK, DriverPlaces
  <2> QED BY <1>0, <1>2, <2>2, <2>3, <2>4, <2>5 DEF Submit, TypeOK
<1>3. ASSUME NEW r \in Reqs, Collect(r)
      PROVE  TypeOK'
  <2>1. sid[r] \in SchedIds
    BY <1>3 DEF Collect, TypeOK, WaitersMatch
  <2>2. /\ reply' \in [Reqs -> Kinds \cup {"none", "lost"}]
        /\ pending' \in [SchedIds -> Kinds \cup {"none"}]
        /\ events' \in [SchedIds -> Reqs \cup {NoReq}]
    BY <1>3, <2>1 DEF Collect, TypeOK
  <2>3. client' \in [Reqs -> {"idle", "waiting", "rejected", "returned"}]
    BY <1>3 DEF Collect, TypeOK
  <2> QED BY <1>0, <1>3, <2>2, <2>3 DEF Collect, TypeOK, driverVars
<1>4. ASSUME NEW r \in Reqs, EndStream(r)
      PROVE  TypeOK'
  <2>1. streams' \in [SchedIds -> Reqs \cup {NoReq}]
    BY <1>4 DEF EndStream, TypeOK
  <2>2. client' \in [Reqs -> {"idle", "waiting", "rejected", "returned"}]
    BY <1>4 DEF EndStream, TypeOK
  <2> QED BY <1>0, <1>4, <2>1, <2>2 DEF EndStream, TypeOK, driverVars
<1>5. ASSUME NEW i \in Ids, Abort(i)
      PROVE  TypeOK'
  BY <1>0, <1>5 DEF Abort, TypeOK, driverVars, clientVars, waiterVars
<1>6. CASE DriverTop
  <2>1. hasReqs' \in BOOLEAN /\ driver' \in DriverPlaces
    BY <1>6 DEF DriverTop, TypeOK, HasRequests, DriverPlaces
  <2> QED BY <1>0, <1>6, <2>1 DEF DriverTop, TypeOK, clientVars, waiterVars
<1>7. CASE DriverSchedule
  <2>1. out' \in SchedulerOutput
    BY <1>0, <1>7, OutputProperties DEF DriverSchedule, TypeOK
  <2>2. hasReqs' \in BOOLEAN /\ driver' \in DriverPlaces
    BY <1>7 DEF DriverSchedule, DriverPlaces
  <2> QED BY <1>0, <1>7, <2>1, <2>2 DEF DriverSchedule, TypeOK, clientVars, waiterVars
<1>8. CASE Surface
  <2> DEFINE X == {x \in out.finished : pending[x] = "none" /\ sched.status[x] # "NONE"}
             direct == X \ StreamsOf(X)
  <2>1. X \subseteq SchedIds
    BY DEF TypeOK, SchedulerOutput
  <2>2. /\ chan' = [r \in Reqs |-> IF \E x \in StreamsOf(X) : streams[x] = r
                                   THEN Append(chan[r], Final("aborted")) ELSE chan[r]]
        /\ streams' = ForgetStreams(X)
        /\ pending' = [x \in SchedIds |-> IF x \in direct THEN "aborted" ELSE pending[x]]
        /\ woken' = Wake(direct)
        /\ driver' = "top" /\ out' = NoOutput
        /\ UNCHANGED <<aborts, running, hasReqs, ro, clientVars, events, cache, closer>>
    BY <1>8 DEF Surface
  <2> HIDE DEF X, direct
  <2>3. Final("aborted") \in Items
    BY DEF Final, Item, Items, Kinds
  <2>4. \A r \in Reqs : Append(chan[r], Final("aborted")) \in Seq(Items)
    BY <2>3, AppendProperties DEF TypeOK
  <2>5. chan' \in [Reqs -> Seq(Items)]
    BY <2>2, <2>4 DEF TypeOK
  <2>6. /\ streams' \in [SchedIds -> Reqs \cup {NoReq}]
        /\ pending' \in [SchedIds -> Kinds \cup {"none"}]
    BY <2>2 DEF ForgetStreams, TypeOK, Kinds
  <2>7. woken' \subseteq Reqs
    BY <2>1, <2>2 DEF Wake, TypeOK, direct
  <2>8. out' \in SchedulerOutput /\ driver' \in DriverPlaces
    BY <2>2 DEF NoOutput, SchedulerOutput, DriverPlaces
  <2> QED BY <1>0, <2>2, <2>5, <2>6, <2>7, <2>8 DEF TypeOK, clientVars
<1>9. CASE Execute
  <2>1. ro' \in RunnerOutput /\ cache' \in [SchedIds -> Nat \cup {Absent}]
    BY <1>9, ExecuteOutput
  <2>2. driver' \in DriverPlaces
    BY <1>9 DEF Execute, DriverPlaces
  <2> QED BY <1>0, <1>9, <2>1, <2>2 DEF Execute, TypeOK, clientVars, waiterVars
<1>10. CASE Deliver
  <2>1. /\ driver = "deliver"
        /\ chan' = [r \in Reqs |-> chan[r] \o TheChunk(r) \o TheEnd(r)]
        /\ streams' = ForgetStreams(TheFinished)
        /\ pending' = [x \in SchedIds |-> IF x \in TheDirect THEN TheKind[x] ELSE pending[x]]
        /\ woken' = Wake(TheDirect)
        /\ driver' = "top" /\ out' = NoOutput /\ ro' = NoRunnerOutput
        /\ UNCHANGED <<running, hasReqs, clientVars, events, cache, closer>>
    BY <1>10, DeliverIs
  <2>2. chan' \in [Reqs -> Seq(Items)]
    <3>1. \A r \in Reqs : chan[r] \in Seq(Items) /\ TheChunk(r) \in Seq(Items) /\ TheEnd(r) \in Seq(Items)
      BY <2>1, DeliverSays DEF TypeOK
    <3>2. \A r \in Reqs : chan[r] \o TheChunk(r) \o TheEnd(r) \in Seq(Items)
      BY <3>1, ConcatProperties
    <3> QED BY <2>1, <3>2
  <2>3. TheDirect \subseteq SchedIds /\ TheDirect \subseteq TheFinished
    BY <2>1, DeliverSchedulers DEF TheDirect
  <2>4. \A x \in TheDirect : TheKind[x] \in Kinds
    <3>1. ro \in RunnerOutput /\ \A x \in TheFinished : TheUpdated.status[x] \in Finished /\ x \in SchedIds
      BY <2>1, DeliverSchedulers DEF RunnerAgrees
    <3> QED BY <2>3, <3>1 DEF TheKind, Kinds, ResultOf, RunnerOutput, RunnerResult
  <2>5. /\ streams' \in [SchedIds -> Reqs \cup {NoReq}]
        /\ pending' \in [SchedIds -> Kinds \cup {"none"}]
    BY <2>1, <2>4 DEF ForgetStreams, TypeOK
  <2>6. woken' \subseteq Reqs
    BY <2>1, <2>3 DEF Wake, TypeOK
  <2>7. out' \in SchedulerOutput /\ driver' \in DriverPlaces
    BY <2>1 DEF NoOutput, SchedulerOutput, DriverPlaces
  <2> QED BY <1>0, <2>1, <2>2, <2>5, <2>6, <2>7 DEF TypeOK, clientVars
<1>11. CASE Die
  BY <1>0, <1>11 DEF Die, TypeOK, DriverPlaces, clientVars, waiterVars
<1>12. CASE DriverDie
  <2>1. SignalEngineDead /\ driver' = "dead"
    BY <1>12 DEF DriverDie
  <2>2. streams' \in [SchedIds -> Reqs \cup {NoReq}] /\ driver' \in DriverPlaces
    BY <2>1, SignalSays DEF DriverPlaces
  <2> QED BY <1>0, <1>12, <2>1, <2>2, SignalSays DEF DriverDie, TypeOK, clientVars
<1>13. CASE CloseBegin
  BY <1>0, <1>13 DEF CloseBegin, TypeOK, clientVars, waiterVars
<1>14. CASE CloseSignal
  <2>1. SignalEngineDead
    BY <1>14 DEF CloseSignal
  <2>2. streams' \in [SchedIds -> Reqs \cup {NoReq}]
    BY <2>1, SignalSays
  <2> QED BY <1>0, <1>14, <2>1, <2>2, SignalSays DEF CloseSignal, TypeOK, clientVars, driverVars
<1>15. CASE CloseShutdown
  BY <1>0, <1>15 DEF CloseShutdown, TypeOK, clientVars, driverVars, waiterVars
<1> QED
  BY <1>1, <1>2, <1>3, <1>4, <1>5, <1>6, <1>7, <1>8, <1>9, <1>10, <1>11, <1>12, <1>13, <1>14, <1>15
  DEF Next, Driver, Client

-----------------------------------------------------------------------------
(* Who waits is registered under its own id. *)

(* What is appended to a stream stays in it behind what was there, and a   *)
(* final item among it answers the client.                                 *)
LEMMA FinalsOfConcat ==
  ASSUME NEW c \in Seq(Items), NEW e \in Seq(Items), NEW k \in DOMAIN c
  PROVE  k \in DOMAIN (c \o e) /\ (c \o e)[k] = c[k]
<1>1. Len(c) \in Nat /\ Len(e) \in Nat /\ k \in 1..Len(c)
  BY LenProperties
<1>2. c \o e \in Seq(Items) /\ Len(c \o e) = Len(c) + Len(e)
      /\ \A i \in 1..(Len(c) + Len(e)) : (c \o e)[i] = IF i <= Len(c) THEN c[i] ELSE e[i - Len(c)]
  BY ConcatProperties
<1>3. DOMAIN (c \o e) = 1..(Len(c) + Len(e))
  BY <1>2, LenProperties
<1> HIDE DEF Items
<1> QED BY <1>1, <1>2, <1>3

(* A list that begins with a final item gives one to whatever it is        *)
(* appended to.                                                            *)
LEMMA FinalOfAddition ==
  ASSUME NEW c \in Seq(Items), NEW e \in Seq(Items), e # <<>>, e[1].final
  PROVE  \E k \in DOMAIN (c \o e) : (c \o e)[k].final
<1>1. Len(c) \in Nat /\ Len(e) \in Nat \ {0}
  BY LenProperties, NonEmptyQueue
<1>2. c \o e \in Seq(Items) /\ Len(c \o e) = Len(c) + Len(e)
      /\ \A i \in 1..(Len(c) + Len(e)) : (c \o e)[i] = IF i <= Len(c) THEN c[i] ELSE e[i - Len(c)]
  BY ConcatProperties
<1>3. DOMAIN (c \o e) = 1..(Len(c) + Len(e))
  BY <1>2, LenProperties
<1>4. Len(c) + 1 \in 1..(Len(c) + Len(e)) /\ ~(Len(c) + 1 <= Len(c)) /\ (Len(c) + 1) - Len(c) = 1
  BY <1>1
<1>5. (c \o e)[Len(c) + 1] = e[1]
  BY <1>2, <1>4
<1> QED BY <1>3, <1>4, <1>5

(* An answer is never taken back. *)
LEMMA AnsweredStays ==
  ASSUME NEW r \in Reqs, chan[r] \in Seq(Items), NEW e \in Seq(Items), chan'[r] = chan[r] \o e
  PROVE  /\ Answered(r) => Answered(r)'
         /\ e # <<>> /\ e[1].final => Answered(r)'
<1>1. Answered(r)' <=> \E k \in DOMAIN (chan[r] \o e) : (chan[r] \o e)[k].final
  BY DEF Answered, Finals
<1>2. Answered(r) <=> \E k \in DOMAIN chan[r] : chan[r][k].final
  BY DEF Answered, Finals
<1>3. Answered(r) => Answered(r)'
  BY <1>1, <1>2, FinalsOfConcat
<1> QED BY <1>1, <1>3, FinalOfAddition

(* Concatenation of items associates. *)
LEMMA ConcatTwice ==
  ASSUME NEW a \in Seq(Items), NEW b \in Seq(Items), NEW c \in Seq(Items)
  PROVE  (a \o b) \o c = a \o (b \o c)
BY ConcatAssociative

(* How the three steps that answer clients change the waiters: everything  *)
(* said is said to the registered, and the event of whoever is taken off   *)
(* without a stream is set, with a result.                                 *)
Answering(X) ==
  /\ UNCHANGED <<clientVars, events>>
  /\ \A r \in Reqs : \E e \in Seq(Items) :
       /\ chan'[r] = chan[r] \o e
       /\ r \notin Streaming \/ sid[r] = NoSched => e = <<>>
       /\ sid[r] \in X /\ streams[sid[r]] = r => e # <<>> /\ Answered(r)'
  /\ streams' = ForgetStreams(X)
  /\ \E D \in SUBSET SchedIds :
       /\ woken' = Wake(D)
       /\ \A x \in X : streams[x] = NoReq => x \in D
       /\ \A x \in SchedIds : /\ x \in D /\ events[x] # NoReq => pending'[x] # "none"
                              /\ pending[x] # "none" => pending'[x] # "none"

(* A delivery answers those it finishes and no others.                     *)
LEMMA DeliverAnswers ==
  ASSUME SchedulingInvariant, TypeOK, WaitersMatch, RunnerAgrees, Deliver
  PROVE  Answering(TheFinished)
<1>1. /\ driver = "deliver"
      /\ chan' = [r \in Reqs |-> chan[r] \o TheChunk(r) \o TheEnd(r)]
      /\ streams' = ForgetStreams(TheFinished)
      /\ pending' = [x \in SchedIds |-> IF x \in TheDirect THEN TheKind[x] ELSE pending[x]]
      /\ woken' = Wake(TheDirect)
      /\ UNCHANGED <<clientVars, events>>
  BY DeliverIs
<1>2. ASSUME NEW r \in Reqs
      PROVE  \E e \in Seq(Items) :
               /\ chan'[r] = chan[r] \o e
               /\ r \notin Streaming \/ sid[r] = NoSched => e = <<>>
               /\ sid[r] \in TheFinished /\ streams[sid[r]] = r => e # <<>> /\ Answered(r)'
  <2> DEFINE c == TheChunk(r)
             d == TheEnd(r)
             e == c \o d
  <2>1. /\ c \in Seq(Items) /\ d \in Seq(Items)
        /\ r \notin Streaming \/ sid[r] = NoSched => c = <<>> /\ d = <<>>
        /\ sid[r] \in TheFinished /\ streams[sid[r]] = r =>
             (d # <<>> /\ d[1].final) \/ (c # <<>> /\ c[1].final)
    BY <1>1, DeliverSays
  <2>2. chan'[r] = (chan[r] \o c) \o d /\ chan[r] \in Seq(Items)
    BY <1>1 DEF TypeOK
  <2> HIDE DEF c, d
  <2>3. e \in Seq(Items) /\ chan'[r] = chan[r] \o e
    <3>1. (chan[r] \o c) \o d = chan[r] \o (c \o d)
      <4>1. chan[r] \in Seq(Items) /\ c \in Seq(Items) /\ d \in Seq(Items)
        BY <2>1, <2>2
      <4> QED BY <4>1, ConcatTwice
    <3>2. c \o d \in Seq(Items)
      BY <2>1, ConcatProperties
    <3> QED BY <2>2, <3>1, <3>2
  <2>4. c = <<>> /\ d = <<>> => e = <<>>
    OBVIOUS
  <2>5. ASSUME sid[r] \in TheFinished, streams[sid[r]] = r
        PROVE  e # <<>> /\ Answered(r)'
    <3>1. \E k \in DOMAIN (c \o d) : (c \o d)[k].final
      <4>1. CASE d # <<>> /\ d[1].final
        BY <2>1, <4>1, FinalOfAddition
      <4>2. CASE c # <<>> /\ c[1].final
        <5>1. 1 \in DOMAIN c
          BY <2>1, <4>2, NonEmptyQueue, LenProperties
        <5> QED BY <2>1, <4>2, <5>1, FinalsOfConcat
      <4> QED BY <2>1, <2>5, <4>1, <4>2
    <3>2. PICK k \in DOMAIN e : e[k].final
      BY <3>1
    <3> HIDE DEF e
    <3>3. e # <<>>
      BY <3>2
    <3>4. Len(e) \in Nat /\ k \in 1..Len(e) /\ Len(chan[r]) \in Nat
      BY <2>2, <2>3, <3>2, LenProperties
    <3>5. Len(chan[r]) + k \in DOMAIN (chan[r] \o e) /\ (chan[r] \o e)[Len(chan[r]) + k] = e[k]
      <4>1. /\ Len(chan[r] \o e) = Len(chan[r]) + Len(e) /\ chan[r] \o e \in Seq(Items)
            /\ \A i \in 1..(Len(chan[r]) + Len(e)) :
                 (chan[r] \o e)[i] = IF i <= Len(chan[r]) THEN chan[r][i] ELSE e[i - Len(chan[r])]
        BY <2>2, <2>3, ConcatProperties
      <4>2. DOMAIN (chan[r] \o e) = 1..(Len(chan[r]) + Len(e))
        BY <4>1, LenProperties
      <4>3. /\ Len(chan[r]) + k \in 1..(Len(chan[r]) + Len(e)) /\ ~(Len(chan[r]) + k <= Len(chan[r]))
            /\ (Len(chan[r]) + k) - Len(chan[r]) = k
        BY <3>4
      <4> QED BY <4>1, <4>2, <4>3
    <3>6. Answered(r)'
      BY <2>3, <3>2, <3>5 DEF Answered, Finals
    <3> QED BY <3>3, <3>6
  <2> QED BY <2>1, <2>3, <2>4, <2>5
<1>3. /\ TheDirect \in SUBSET SchedIds
      /\ \A x \in TheFinished : streams[x] = NoReq => x \in TheDirect
      /\ \A x \in SchedIds : x \in TheDirect => TheKind[x] # "none"
  <2>1. /\ ro \in RunnerOutput /\ TheFinished \subseteq SchedIds
        /\ \A x \in TheFinished : TheUpdated.status[x] \in Finished
    BY <1>1, DeliverSchedulers DEF RunnerAgrees
  <2>2. \A x \in TheFinished : TheKind[x] # "none"
    BY <2>1 DEF TheKind
  <2> QED BY <2>1, <2>2 DEF TheDirect, StreamsOf
<1>4. /\ woken' = Wake(TheDirect)
      /\ \A x \in SchedIds : /\ x \in TheDirect /\ events[x] # NoReq => pending'[x] # "none"
                             /\ pending[x] # "none" => pending'[x] # "none"
  BY <1>1, <1>3
<1> QED BY <1>1, <1>2, <1>3, <1>4 DEF Answering

(* The abort branch of the driver answers at most those the batch reports  *)
(* finished.                                                               *)
LEMMA SurfaceAnswers ==
  ASSUME TypeOK, WaitersMatch, Surface
  PROVE  \E X \in SUBSET SchedIds : X \subseteq out.finished /\ Answering(X)
<1> DEFINE X == {x \in out.finished : pending[x] = "none" /\ sched.status[x] # "NONE"}
           direct == X \ StreamsOf(X)
<1>1. X \subseteq SchedIds /\ X \subseteq out.finished
  BY DEF TypeOK, SchedulerOutput
<1>2. /\ chan' = [r \in Reqs |-> IF \E x \in StreamsOf(X) : streams[x] = r
                                 THEN Append(chan[r], Final("aborted")) ELSE chan[r]]
      /\ streams' = ForgetStreams(X)
      /\ pending' = [x \in SchedIds |-> IF x \in direct THEN "aborted" ELSE pending[x]]
      /\ woken' = Wake(direct)
      /\ UNCHANGED <<clientVars, events>>
  BY DEF Surface
<1> HIDE DEF X
<1>3. ASSUME NEW r \in Reqs
      PROVE  \E e \in Seq(Items) :
               /\ chan'[r] = chan[r] \o e
               /\ r \notin Streaming \/ sid[r] = NoSched => e = <<>>
               /\ sid[r] \in X /\ streams[sid[r]] = r => e # <<>> /\ Answered(r)'
  <2>1. chan[r] \in Seq(Items)
    BY DEF TypeOK
  <2>2. CASE \E x \in StreamsOf(X) : streams[x] = r
    <3> DEFINE last == Final("aborted")
               e == <<last>>
    <3>1. last \in Items /\ last.final
      BY DEF Final, Item, Items, Kinds
    <3>2. r \in Streaming /\ sid[r] # NoSched
      BY <1>1, <2>2, RegisteredUnderOwnId, SchedulerAssumption DEF StreamsOf
    <3>3. chan'[r] = Append(chan[r], last)
      BY <1>2, <2>2
    <3> HIDE DEF last
    <3>4. e \in Seq(Items) /\ e # <<>> /\ e[1].final /\ chan'[r] = chan[r] \o e
      BY <2>1, <3>1, <3>3, AppendIsConcat
    <3> HIDE DEF e
    <3> QED BY <2>1, <3>2, <3>4, AnsweredStays
  <2>3. CASE ~ \E x \in StreamsOf(X) : streams[x] = r
    <3> DEFINE e == <<>>
    <3>1. chan'[r] = chan[r] /\ e \in Seq(Items) /\ chan[r] \o e = chan[r]
      BY <1>2, <2>1, <2>3, ConcatEmptySeq
    <3>2. ~(sid[r] \in X /\ streams[sid[r]] = r)
      BY <2>3, SchedulerAssumption DEF StreamsOf
    <3> QED BY <3>1, <3>2
  <2> QED BY <2>2, <2>3
<1>4. /\ direct \in SUBSET SchedIds
      /\ \A x \in X : streams[x] = NoReq => x \in direct
      /\ \A x \in SchedIds : /\ x \in direct /\ events[x] # NoReq => pending'[x] # "none"
                             /\ pending[x] # "none" => pending'[x] # "none"
  BY <1>1, <1>2 DEF StreamsOf
<1> HIDE DEF direct
<1>5. Answering(X)
  BY <1>2, <1>3, <1>4 DEF Answering
<1> QED BY <1>1, <1>5

(* The death signal answers whoever is registered, under any id.           *)
LEMMA SignalAnswers ==
  ASSUME TypeOK, WaitersMatch, SignalEngineDead, UNCHANGED <<clientVars, events>>
  PROVE  Answering(SchedIds)
<1>1. /\ \A r \in Reqs : chan'[r] = IF \E x \in SchedIds : streams[x] = r
                                    THEN Append(chan[r], Final("dead")) ELSE chan[r]
      /\ streams' = ForgetStreams(SchedIds)
      /\ woken' = Wake(SchedIds)
      /\ \A x \in SchedIds : /\ events[x] # NoReq => pending'[x] # "none"
                             /\ pending[x] # "none" => pending'[x] # "none"
  BY SignalSays DEF SignalEngineDead, ForgetStreams
<1>2. ASSUME NEW r \in Reqs
      PROVE  \E e \in Seq(Items) :
               /\ chan'[r] = chan[r] \o e
               /\ r \notin Streaming \/ sid[r] = NoSched => e = <<>>
               /\ sid[r] \in SchedIds /\ streams[sid[r]] = r => e # <<>> /\ Answered(r)'
  <2>1. chan[r] \in Seq(Items)
    BY DEF TypeOK
  <2>2. CASE \E x \in SchedIds : streams[x] = r
    <3> DEFINE last == Final("dead")
               e == <<last>>
    <3>1. last \in Items /\ last.final
      BY DEF Final, Item, Items, Kinds
    <3>2. r \in Streaming /\ sid[r] # NoSched
      BY <2>2, RegisteredUnderOwnId, SchedulerAssumption
    <3>3. chan'[r] = Append(chan[r], last)
      BY <1>1, <2>2
    <3> HIDE DEF last
    <3>4. e \in Seq(Items) /\ e # <<>> /\ e[1].final /\ chan'[r] = chan[r] \o e
      BY <2>1, <3>1, <3>3, AppendIsConcat
    <3> HIDE DEF e
    <3> QED BY <2>1, <3>2, <3>4, AnsweredStays
  <2>3. CASE ~ \E x \in SchedIds : streams[x] = r
    <3> DEFINE e == <<>>
    <3>1. chan'[r] = chan[r] /\ e \in Seq(Items) /\ chan[r] \o e = chan[r]
      BY <1>1, <2>1, <2>3, ConcatEmptySeq
    <3> QED BY <2>3, <3>1
  <2> QED BY <2>2, <2>3
<1> QED BY <1>1, <1>2 DEF Answering

(* Every step matches waiters and clients. *)
LEMMA AnsweringMatches ==
  ASSUME TypeOK, WaitersMatch, NEW X, Answering(X), driver' = "off" => driver = "off"
  PROVE  WaitersMatch'
<1>1. /\ client' = client /\ sid' = sid /\ reply' = reply /\ events' = events
      /\ \A x \in SchedIds : streams'[x] \in {NoReq, streams[x]}
  BY DEF Answering, clientVars, ForgetStreams
<1>2. ASSUME NEW r \in Reqs
      PROVE  /\ r \notin Streaming => chan'[r] = <<>>
             /\ sid[r] = NoSched => chan'[r] = <<>>
  <2>1. PICK e \in Seq(Items) : /\ chan'[r] = chan[r] \o e
                                /\ r \notin Streaming \/ sid[r] = NoSched => e = <<>>
    BY DEF Answering
  <2>2. chan[r] \in Seq(Items) /\ (r \notin Streaming \/ sid[r] = NoSched => chan[r] = <<>>)
    BY DEF TypeOK, WaitersMatch
  <2> QED BY <2>1, <2>2
<1>3. \A r \in Reqs : r \in woken' => r \in woken \/ (r \notin Streaming /\ sid[r] # NoSched)
  <2>1. PICK D \in SUBSET SchedIds : woken' = Wake(D)
    BY DEF Answering
  <2> QED BY <2>1, SchedulerAssumption DEF Wake, WaitersMatch
<1> QED BY <1>1, <1>2, <1>3 DEF WaitersMatch

(* Every step keeps waiters registered under their own ids and silent      *)
(* without one.                                                            *)
LEMMA StepWaitersMatch ==
  ASSUME SchedulingInvariant, TypeOK, WaitersMatch, RunnerAgrees, [Next]_vars
  PROVE  WaitersMatch'
<1>1. CASE UNCHANGED <<clientVars, waiterVars>> /\ (driver' = "off" => driver = "off")
  BY <1>1 DEF clientVars, waiterVars, WaitersMatch
<1>2. ASSUME NEW r \in Reqs, Submit(r)
      PROVE  WaitersMatch'
  <2>1. PICK x \in SchedIds :
          /\ IsSchedReqId(sched, r, x)
          /\ IF Accepts(sched, r)
             THEN /\ client' = [client EXCEPT ![r] = "waiting"]
                  /\ sid' = [sid EXCEPT ![r] = x]
                  /\ IF r \in Streaming
                     THEN /\ streams' = [streams EXCEPT ![x] = r]
                          /\ UNCHANGED events
                     ELSE /\ events' = [events EXCEPT ![x] = r]
                          /\ UNCHANGED streams
             ELSE /\ client' = [client EXCEPT ![r] = "rejected"]
                  /\ UNCHANGED <<sid, streams, events>>
    BY <1>2 DEF Submit
  <2>2. /\ client[r] = "idle" /\ driver' # "off" /\ UNCHANGED <<chan, woken, reply>>
        /\ x[1] = RequestIds[r][1] /\ x # NoSched /\ r # NoReq
    BY <1>2, <2>1, SchedulerAssumption DEF Submit, IsSchedReqId
  <2>3. sid[r] = NoSched /\ chan[r] = <<>> /\ r \notin woken /\ reply[r] = "none"
    BY <2>2 DEF WaitersMatch
  <2>4. CASE Accepts(sched, r)
    <3>1. \A q \in Reqs : /\ client'[q] = IF q = r THEN "waiting" ELSE client[q]
                          /\ sid'[q] = IF q = r THEN x ELSE sid[q]
      BY <2>1, <2>4 DEF TypeOK
    <3>2. \A y \in SchedIds : /\ streams'[y] = IF r \in Streaming /\ y = x THEN r ELSE streams[y]
                              /\ events'[y] = IF r \notin Streaming /\ y = x THEN r ELSE events[y]
      BY <2>1, <2>4 DEF TypeOK
    <3>3. \A y \in SchedIds : /\ streams[y] # NoReq => streams[y] # r /\ streams[y] \in Reqs
                              /\ events[y] # NoReq => events[y] # r /\ events[y] \in Reqs
      BY <2>2 DEF WaitersMatch, TypeOK
    <3> QED BY <2>2, <2>3, <3>1, <3>2, <3>3 DEF WaitersMatch
  <2>5. CASE ~Accepts(sched, r)
    BY <2>1, <2>2, <2>3, <2>5 DEF WaitersMatch, TypeOK
  <2> QED BY <2>4, <2>5
<1>3. ASSUME NEW r \in Reqs, Collect(r)
      PROVE  WaitersMatch'
  <2>1. /\ client[r] = "waiting" /\ r \in woken /\ r \notin Streaming
        /\ sid[r] \in SchedIds /\ sid[r] # NoSched
    BY <1>3 DEF Collect, WaitersMatch, TypeOK
  <2>2. /\ \A q \in Reqs : /\ client'[q] = IF q = r THEN "returned" ELSE client[q]
                           /\ q # r => reply'[q] = reply[q]
        /\ \A y \in SchedIds : events'[y] = IF y = sid[r] THEN NoReq ELSE events[y]
        /\ UNCHANGED <<sid, woken, streams, chan, driver>>
    BY <1>3 DEF Collect, TypeOK, driverVars
  <2>3. \A y \in SchedIds : /\ streams[y] # r
                            /\ y # sid[r] => events[y] # r
    BY <2>1, RegisteredUnderOwnId
  <2>4. \A y \in SchedIds : /\ streams[y] # NoReq => streams[y] \in Reqs
                            /\ events[y] # NoReq => events[y] \in Reqs
    BY DEF TypeOK
  <2> QED BY <2>1, <2>2, <2>3, <2>4 DEF WaitersMatch
<1>4. ASSUME NEW r \in Reqs, EndStream(r)
      PROVE  WaitersMatch'
  <2>1. /\ client[r] = "waiting" /\ r \in Streaming
        /\ sid[r] \in SchedIds /\ sid[r] # NoSched
    BY <1>4 DEF EndStream, WaitersMatch, TypeOK
  <2>2. /\ \A q \in Reqs : client'[q] = IF q = r THEN "returned" ELSE client[q]
        /\ \A y \in SchedIds : streams'[y] = IF y = sid[r] THEN NoReq ELSE streams[y]
        /\ UNCHANGED <<sid, woken, events, chan, reply, driver>>
    BY <1>4 DEF EndStream, TypeOK, driverVars
  <2>3. \A y \in SchedIds : /\ events[y] # r
                            /\ y # sid[r] => streams[y] # r
    BY <2>1, RegisteredUnderOwnId
  <2>4. \A y \in SchedIds : /\ streams[y] # NoReq => streams[y] \in Reqs
                            /\ events[y] # NoReq => events[y] \in Reqs
    BY DEF TypeOK
  <2> QED BY <2>1, <2>2, <2>3, <2>4 DEF WaitersMatch
<1>5. CASE Surface
  <2>1. driver' # "off"
    BY <1>5 DEF Surface
  <2> QED BY <1>5, <2>1, SurfaceAnswers, AnsweringMatches
<1>6. CASE Deliver
  <2>1. driver' # "off"
    BY <1>6 DEF Deliver
  <2> QED BY <1>6, <2>1, DeliverAnswers, AnsweringMatches
<1>7. CASE DriverDie \/ CloseSignal
  <2>1. SignalEngineDead /\ UNCHANGED <<clientVars, events>> /\ (driver' = "off" => driver = "off")
    BY <1>7 DEF DriverDie, CloseSignal, driverVars
  <2> QED BY <2>1, SignalAnswers, AnsweringMatches
<1>8. CASE \/ UNCHANGED vars \/ DriverTop \/ DriverSchedule \/ Execute \/ Die
           \/ CloseBegin \/ CloseShutdown \/ \E i \in Ids : Abort(i)
  <2>1. UNCHANGED <<clientVars, waiterVars>> /\ (driver' = "off" => driver = "off")
    BY <1>8 DEF vars, driverVars, DriverTop, DriverSchedule, Execute, Die, CloseBegin,
         CloseShutdown, Abort
  <2> QED BY <1>1, <2>1
<1> QED
  BY <1>2, <1>3, <1>4, <1>5, <1>6, <1>7, <1>8 DEF Next, Driver, Client

(* With first request ids of their own, clients never share a scheduler id. *)
LEMMA OwnSchedIds ==
  ASSUME DistinctIds, WaitersMatch, NEW r \in Reqs, NEW q \in Reqs,
         sid[r] # NoSched, sid[r] = sid[q]
  PROVE  r = q
BY DEF DistinctIds, WaitersMatch

(* Whom an answering step leaves unanswered was unanswered before, and its *)
(* id is not among those taken off.                                        *)
LEMMA StillUnanswered ==
  ASSUME DistinctIds, TypeOK, WaitersMatch, WaitersRegistered,
         NEW X \in SUBSET SchedIds, Answering(X),
         NEW r \in Reqs, Unanswered(r)'
  PROVE  Unanswered(r) /\ sid[r] \in SchedIds /\ sid[r] \notin X
<1>1. client' = client /\ sid' = sid /\ events' = events
  BY DEF Answering, clientVars
<1>2. client[r] = "waiting" /\ sid[r] \in SchedIds /\ sid[r] # NoSched
  BY <1>1 DEF Unanswered, WaitersMatch, TypeOK
<1>3. CASE r \in Streaming
  <2>1. PICK e \in Seq(Items) :
          /\ chan'[r] = chan[r] \o e
          /\ sid[r] \in X /\ streams[sid[r]] = r => Answered(r)'
    BY DEF Answering
  <2>2. ~Answered(r)' /\ chan[r] \in Seq(Items)
    BY <1>3 DEF Unanswered, TypeOK
  <2>3. ~Answered(r)
    BY <2>1, <2>2, AnsweredStays
  <2>4. Unanswered(r)
    BY <1>2, <1>3, <2>3 DEF Unanswered
  <2>5. streams[sid[r]] = r
    BY <1>3, <2>4 DEF WaitersRegistered
  <2> QED BY <1>2, <2>1, <2>2, <2>4, <2>5
<1>4. CASE r \notin Streaming
  <2>1. PICK D \in SUBSET SchedIds : /\ woken' = Wake(D)
                                     /\ \A x \in X : streams[x] = NoReq => x \in D
    BY DEF Answering
  <2>2. r \notin woken'
    BY <1>4 DEF Unanswered
  <2>3. r \notin woken
    BY <2>1, <2>2 DEF Wake
  <2>4. Unanswered(r)
    BY <1>2, <1>4, <2>3 DEF Unanswered
  <2>5. events[sid[r]] = r
    BY <1>4, <2>4 DEF WaitersRegistered
  <2>6. sid[r] \notin D
    BY <2>1, <2>2, <2>5, SchedulerAssumption DEF Wake
  <2>7. streams[sid[r]] = NoReq
    BY <1>2, <1>4, OwnSchedIds DEF WaitersMatch, TypeOK
  <2> QED BY <1>2, <2>1, <2>4, <2>6, <2>7
<1> QED BY <1>3, <1>4

(* Answering a set of ids leaves registered who still waits.               *)
LEMMA AnsweringRegistered ==
  ASSUME TypeOK, WaitersMatch, WaitersRegistered, NEW X \in SUBSET SchedIds, Answering(X)
  PROVE  WaitersRegistered'
<1> SUFFICES ASSUME DistinctIds, NEW r \in Reqs
             PROVE  /\ Unanswered(r)' =>
                         (IF r \in Streaming THEN streams'[sid'[r]] ELSE events'[sid'[r]]) = r
                    /\ client'[r] = "waiting" /\ r \in woken' => pending'[sid'[r]] # "none"
  BY DEF WaitersRegistered
<1>1. client' = client /\ sid' = sid /\ events' = events /\ streams' = ForgetStreams(X)
  BY DEF Answering, clientVars
<1>2. ASSUME Unanswered(r)'
      PROVE  (IF r \in Streaming THEN streams'[sid'[r]] ELSE events'[sid'[r]]) = r
  <2>1. Unanswered(r) /\ sid[r] \in SchedIds /\ sid[r] \notin X
    BY <1>2, StillUnanswered
  <2> QED BY <1>1, <2>1 DEF WaitersRegistered, ForgetStreams
<1>3. ASSUME client[r] = "waiting", r \in woken'
      PROVE  pending'[sid[r]] # "none"
  <2>1. PICK D \in SUBSET SchedIds :
          /\ woken' = Wake(D)
          /\ \A x \in SchedIds : /\ x \in D /\ events[x] # NoReq => pending'[x] # "none"
                                 /\ pending[x] # "none" => pending'[x] # "none"
    BY DEF Answering
  <2>2. sid[r] \in SchedIds
    BY <1>3 DEF WaitersMatch, TypeOK
  <2>3. CASE r \in woken
    BY <1>3, <2>1, <2>2, <2>3 DEF WaitersRegistered
  <2>4. CASE r \notin woken
    <3>1. PICK x \in D : events[x] = r
      BY <1>3, <2>1, <2>4 DEF Wake
    <3>2. sid[r] = x
      BY <3>1, RegisteredUnderOwnId
    <3> QED BY <2>1, <3>1, <3>2, SchedulerAssumption
  <2> QED BY <2>3, <2>4
<1> QED BY <1>1, <1>2, <1>3

(* Every step keeps who waits registered: only what answers a client       *)
(* removes its registration.                                               *)
LEMMA StepWaitersRegistered ==
  ASSUME SchedulingInvariant, TypeOK, WaitersMatch, WaitersRegistered, RunnerAgrees, [Next]_vars
  PROVE  WaitersRegistered'
<1>1. CASE UNCHANGED <<clientVars, waiterVars>>
  BY <1>1 DEF clientVars, waiterVars, WaitersRegistered, Unanswered, Answered, Finals
<1>2. ASSUME NEW r \in Reqs, Submit(r)
      PROVE  WaitersRegistered'
  <2>1. PICK x \in SchedIds :
          /\ IsSchedReqId(sched, r, x)
          /\ IF Accepts(sched, r)
             THEN /\ client' = [client EXCEPT ![r] = "waiting"]
                  /\ sid' = [sid EXCEPT ![r] = x]
                  /\ IF r \in Streaming
                     THEN /\ streams' = [streams EXCEPT ![x] = r]
                          /\ UNCHANGED events
                     ELSE /\ events' = [events EXCEPT ![x] = r]
                          /\ UNCHANGED streams
             ELSE /\ client' = [client EXCEPT ![r] = "rejected"]
                  /\ UNCHANGED <<sid, streams, events>>
    BY <1>2 DEF Submit
  <2>2. /\ client[r] = "idle" /\ UNCHANGED <<chan, woken, pending>> /\ x[1] = RequestIds[r][1]
    BY <1>2, <2>1 DEF Submit, IsSchedReqId
  <2>3. sid[r] = NoSched /\ r \notin woken
    BY <2>2 DEF WaitersMatch
  <2> SUFFICES ASSUME DistinctIds, NEW q \in Reqs
               PROVE  /\ Unanswered(q)' =>
                           (IF q \in Streaming THEN streams'[sid'[q]] ELSE events'[sid'[q]]) = q
                      /\ client'[q] = "waiting" /\ q \in woken' => pending'[sid'[q]] # "none"
    BY DEF WaitersRegistered
  <2>4. CASE q = r
    <3>1. CASE Accepts(sched, r)
      BY <2>1, <2>2, <2>3, <2>4, <3>1 DEF TypeOK
    <3>2. CASE ~Accepts(sched, r)
      BY <2>1, <2>2, <2>3, <2>4, <3>2 DEF TypeOK, Unanswered
    <3> QED BY <3>1, <3>2
  <2>5. CASE q # r
    <3>1. client'[q] = client[q] /\ sid'[q] = sid[q] /\ (Unanswered(q)' => Unanswered(q))
      BY <2>1, <2>2, <2>5 DEF TypeOK, Unanswered, Answered, Finals
    <3>2. sid[q] # x
      BY <2>2, <2>5, SchedulerAssumption DEF WaitersMatch, DistinctIds
    <3>3. \A y \in SchedIds : y # x => streams'[y] = streams[y] /\ events'[y] = events[y]
      BY <2>1 DEF TypeOK
    <3>4. client[q] = "waiting" => sid[q] \in SchedIds
      BY DEF TypeOK, WaitersMatch
    <3> QED BY <2>2, <3>1, <3>2, <3>3, <3>4 DEF WaitersRegistered, Unanswered
  <2> QED BY <2>4, <2>5
<1>3. ASSUME NEW r \in Reqs, Client(r)
      PROVE  WaitersRegistered'
  <2>1. /\ client[r] = "waiting" /\ sid[r] \in SchedIds /\ sid[r] # NoSched
        /\ client' = [client EXCEPT ![r] = "returned"]
        /\ UNCHANGED <<sid, woken, chan>>
        /\ \A y \in SchedIds : y # sid[r] =>
             streams'[y] = streams[y] /\ events'[y] = events[y] /\ pending'[y] = pending[y]
    BY <1>3 DEF Client, Collect, EndStream, WaitersMatch, TypeOK
  <2> SUFFICES ASSUME DistinctIds, NEW q \in Reqs
               PROVE  /\ Unanswered(q)' =>
                           (IF q \in Streaming THEN streams'[sid'[q]] ELSE events'[sid'[q]]) = q
                      /\ client'[q] = "waiting" /\ q \in woken' => pending'[sid'[q]] # "none"
    BY DEF WaitersRegistered
  <2>2. CASE q = r
    BY <2>1, <2>2 DEF TypeOK, Unanswered
  <2>3. CASE q # r
    <3>1. client'[q] = client[q] /\ (Unanswered(q)' => Unanswered(q))
      BY <2>1, <2>3 DEF TypeOK, Unanswered, Answered, Finals
    <3>2. client[q] = "waiting" => sid[q] # sid[r] /\ sid[q] \in SchedIds
      BY <2>1, <2>3, OwnSchedIds DEF TypeOK, WaitersMatch
    <3> QED BY <2>1, <3>1, <3>2 DEF WaitersRegistered, Unanswered
  <2> QED BY <2>2, <2>3
<1>4. CASE Surface
  BY <1>4, SurfaceAnswers, AnsweringRegistered
<1>5. CASE Deliver
  <2>1. driver = "deliver"
    BY <1>5 DEF Deliver
  <2> QED BY <1>5, <2>1, DeliverAnswers, DeliverSchedulers, AnsweringRegistered
<1>6. CASE DriverDie \/ CloseSignal
  <2>1. SignalEngineDead /\ UNCHANGED <<clientVars, events>>
    BY <1>6 DEF DriverDie, CloseSignal
  <2> QED BY <2>1, SignalAnswers, AnsweringRegistered
<1>7. CASE \/ UNCHANGED vars \/ DriverTop \/ DriverSchedule \/ Execute \/ Die
           \/ CloseBegin \/ CloseShutdown \/ \E i \in Ids : Abort(i)
  <2>1. UNCHANGED <<clientVars, waiterVars>>
    BY <1>7 DEF vars, driverVars, DriverTop, DriverSchedule, Execute, Die, CloseBegin,
         CloseShutdown, Abort
  <2> QED BY <1>1, <2>1
<1> QED
  BY <1>2, <1>3, <1>4, <1>5, <1>6, <1>7 DEF Next, Driver

-----------------------------------------------------------------------------
(* The requests of blocked clients keep their states. *)

(* Aborting leaves a queued request queued or aborted. *)
LEMMA AbortedKeepsStates ==
  ASSUME SchedulerOK(sched), NEW x \in SchedIds
  PROVE  /\ Aborted(sched).status[x] =
              IF x \in Live(sched, {sched.owner[i] : i \in {j \in aborts : sched.owner[j] # NoSched}})
              THEN "ABORTED" ELSE sched.status[x]
         /\ Aborted(sched).req = sched.req
BY FinishRequestsStatus, FinishRequestsKeeps DEF Aborted, SchedulerOK

(* What a delivery does to a request it does not finish. *)
LEMMA DeliverKeepsStates ==
  ASSUME SchedulingInvariant, driver = "deliver", NEW x \in SchedIds, x \notin TheFinished,
         sched.status[x] \in Queued \cup {"ABORTED"}
  PROVE  PopRequestStates(TheUpdated, TheFinished).status[x] \in Queued \cup {"ABORTED"}
<1>1. /\ SchedulerOK(sched) /\ Scheduled(out) \in Seq(SchedIds) /\ IsInjective(Scheduled(out))
  BY DEF SchedulingInvariant, SchedulerConsistent
<1>2. SchedulerOK(TheAborted) /\ SchedulerOK(TheUpdated)
  BY DeliverSchedulers
<1>3. TheAborted.status[x] \in Queued \cup {"ABORTED"}
  BY <1>1, AbortedKeepsStates DEF TheAborted
<1>4. LET live == x \in Live(TheAborted, Range(Scheduled(out)))
      IN  /\ ~live \/ ~(Failed(ro, x) \/ Completed(ro, x)) =>
               \/ TheUpdated.status[x] = TheAborted.status[x]
               \/ TheUpdated.status[x] = "PREEMPTED"
          /\ live /\ (Failed(ro, x) \/ Completed(ro, x)) => x \in TheFinished
  BY <1>1, <1>2, UpdateFromOutputFields DEF TheUpdated, TheFinished, Live
<1>5. PopRequestStates(TheUpdated, TheFinished).status[x] = TheUpdated.status[x]
  BY <1>2, PopRequestStatesFields DEF SchedulerOK
<1> QED BY <1>3, <1>4, <1>5 DEF Queued

(* Every step keeps the states of those who wait, unless it answers them or*)
(* the engine is on its way out.                                           *)
LEMMA StepWaitersHaveStates ==
  ASSUME SchedulingInvariant, TypeOK, WaitersMatch, WaitersRegistered, WaitersHaveStates,
         RunnerAgrees, [Next]_vars
  PROVE  WaitersHaveStates'
<1> SUFFICES ASSUME DistinctIds, driver' \notin {"dying", "dead", "stopped"}, closer' = "no",
                    NEW q \in Reqs, Unanswered(q)'
             PROVE  sched'.status[sid'[q]] \in Queued \cup {"ABORTED"}
  BY DEF WaitersHaveStates
<1> DEFINE alive == driver \notin {"dying", "dead", "stopped"} /\ closer = "no"
<1>1. SchedulerOK(sched) /\ sched \in Scheduler
  BY DEF SchedulingInvariant, SchedulerConsistent, SchedulerOK
<1>2. alive /\ Unanswered(q) => sid[q] \in SchedIds /\ sched.status[sid[q]] \in Queued \cup {"ABORTED"}
  BY DEF WaitersHaveStates, Unanswered, WaitersMatch, TypeOK
<1>3. CASE UNCHANGED <<clientVars, waiterVars>> /\ alive /\ sched' \in {sched, Aborted(sched), AfterSchedule(sched)}
  <2>1. Unanswered(q) /\ sid'[q] = sid[q]
    BY <1>3 DEF Unanswered, Answered, Finals, clientVars, waiterVars
  <2>2. sid[q] \in SchedIds /\ sched.status[sid[q]] \in Queued \cup {"ABORTED"}
    BY <1>2, <1>3, <2>1
  <2>3. /\ Aborted(sched).status[sid[q]] \in {"ABORTED", sched.status[sid[q]]}
        /\ AfterSchedule(sched).status[sid[q]] \in {"RUNNING", sched.status[sid[q]]}
    BY <1>1, <2>2, AbortedKeepsStates, AfterScheduleFields
  <2> QED BY <1>3, <2>1, <2>2, <2>3 DEF Queued
<1>4. ASSUME NEW r \in Reqs, Submit(r)
      PROVE  sched'.status[sid'[q]] \in Queued \cup {"ABORTED"}
  <2>1. PICK x \in SchedIds :
          /\ IsSchedReqId(sched, r, x)
          /\ sched' = AddRequest(sched, r, x)
          /\ IF Accepts(sched, r)
             THEN client' = [client EXCEPT ![r] = "waiting"] /\ sid' = [sid EXCEPT ![r] = x]
             ELSE client' = [client EXCEPT ![r] = "rejected"] /\ UNCHANGED sid
    BY <1>4 DEF Submit
  <2>2. UNCHANGED <<chan, woken>> /\ alive
    BY <1>4 DEF Submit
  <2>3. CASE q = r
    <3>1. sid'[q] = x
      BY <2>1, <2>3 DEF Unanswered, TypeOK
    <3> QED BY <1>1, <2>1, <3>1, AddRequestStatus DEF Queued
  <2>4. CASE q # r
    <3>1. Unanswered(q) /\ sid'[q] = sid[q]
      BY <2>1, <2>2, <2>4 DEF TypeOK, Unanswered, Answered, Finals
    <3> QED BY <1>1, <1>2, <2>1, <2>2, <3>1, AddRequestStatus DEF Queued
  <2> QED BY <2>3, <2>4
<1>5. ASSUME NEW r \in Reqs, Client(r)
      PROVE  sched'.status[sid'[q]] \in Queued \cup {"ABORTED"}
  <2>1. /\ client' = [client EXCEPT ![r] = "returned"]
        /\ UNCHANGED <<sched, sid, woken, chan, driver, closer>>
    BY <1>5 DEF Client, Collect, EndStream, driverVars
  <2>2. Unanswered(q)
    BY <2>1 DEF TypeOK, Unanswered, Answered, Finals
  <2> QED BY <1>2, <2>1, <2>2
<1>6. CASE Surface
  <2>1. PICK X \in SUBSET SchedIds : X \subseteq out.finished /\ Answering(X)
    BY <1>6, SurfaceAnswers
  <2>2. driver = "surface" /\ alive
    BY <1>6 DEF Surface
  <2>3. out.finished = {}
    BY <2>2 DEF SchedulingInvariant, FinishesTaken
  <2>4. \E Y \in SUBSET out.finished : sched' = PopRequestStates(sched, Y)
    BY <1>6 DEF Surface
  <2>5. sched' = PopRequestStates(sched, {})
    BY <2>3, <2>4
  <2>6. Unanswered(q) /\ sid'[q] = sid[q]
    BY <2>1, StillUnanswered DEF Answering, clientVars
  <2> QED BY <1>1, <1>2, <2>2, <2>5, <2>6, PopRequestStatesFields
<1>7. CASE Deliver
  <2>1. driver = "deliver" /\ closer = "no" /\ sched' = PopRequestStates(TheUpdated, TheFinished)
    BY <1>7, DeliverIs
  <2>2. Answering(TheFinished) /\ TheFinished \subseteq SchedIds
    BY <1>7, <2>1, DeliverAnswers, DeliverSchedulers
  <2>3. Unanswered(q) /\ sid'[q] = sid[q] /\ sid[q] \notin TheFinished
    BY <2>2, StillUnanswered DEF Answering, clientVars
  <2> QED BY <1>2, <2>1, <2>3, DeliverKeepsStates
<1>8. CASE \/ UNCHANGED vars \/ DriverTop \/ DriverSchedule \/ Execute
           \/ \E i \in Ids : Abort(i)
  <2>1. UNCHANGED <<clientVars, waiterVars, closer>> /\ sched' \in {sched, Aborted(sched), AfterSchedule(sched)}
    BY <1>8 DEF vars, driverVars, DriverTop, DriverSchedule, Execute, Abort
  <2>2. alive
    BY <1>8, <2>1 DEF vars, driverVars, DriverTop, DriverSchedule, Execute, Abort
  <2> QED BY <1>3, <2>1, <2>2
<1>9. ~Die /\ ~DriverDie /\ ~CloseBegin /\ ~CloseSignal /\ ~CloseShutdown
  BY DEF Die, DriverDie, CloseBegin, CloseSignal, CloseShutdown
<1> QED
  BY <1>4, <1>5, <1>6, <1>7, <1>8, <1>9 DEF Next, Driver

-----------------------------------------------------------------------------
(* The runner's output is about the batch it was given. *)

(* Every step keeps what the runner returned about the batch it was given. *)
LEMMA StepRunnerAgrees ==
  ASSUME SchedulingInvariant, TypeOK, RunnerAgrees, [Next]_vars
  PROVE  RunnerAgrees'
<1> DEFINE quiet(s) == \A x \in SchedIds : s.status[x] \notin Finished
<1>1. CASE /\ UNCHANGED <<driver, out, ro>>
           /\ closer' = "closed" => closer = "closed"
           /\ driver = "deliver" /\ closer = "closed" /\ quiet(sched) => quiet(sched')
  BY <1>1 DEF RunnerAgrees
<1>2. ASSUME NEW r \in Reqs, Submit(r)
      PROVE  RunnerAgrees'
  <2>1. /\ \E x \in SchedIds : sched' = AddRequest(sched, r, x)
        /\ UNCHANGED <<out, ro, closer>>
        /\ driver' = driver \/ driver' = "top"
    BY <1>2 DEF Submit
  <2>2. sched \in Scheduler
    BY DEF TypeOK
  <2>3. quiet(sched) => quiet(sched')
    BY <2>1, <2>2, AddRequestStatus DEF Finished
  <2>4. CASE driver' = "top"
    BY <2>4 DEF RunnerAgrees
  <2> HIDE DEF quiet
  <2> QED BY <1>1, <2>1, <2>3, <2>4
<1>3. CASE CloseShutdown
  <2>1. quiet(sched') /\ UNCHANGED <<driver, out, ro>>
    BY <1>3 DEF CloseShutdown, EmptyScheduler, Finished, driverVars
  <2> QED BY <2>1 DEF RunnerAgrees
<1>4. CASE Execute
  <2>1. UNCHANGED <<out, closer>> /\ driver = "execute"
    BY <1>4 DEF Execute
  <2> QED BY <1>4, <2>1, ExecuteOutput DEF RunnerAgrees
<1>5. CASE DriverSchedule
  <2>1. driver' = "execute" => Scheduled(out') # <<>>
    BY <1>5 DEF DriverSchedule
  <2>2. driver' # "deliver"
    BY <1>5 DEF DriverSchedule
  <2> QED BY <2>1, <2>2 DEF RunnerAgrees
<1>6. CASE DriverTop \/ Surface \/ Deliver \/ DriverDie \/ Die
  <2>1. driver' \notin {"execute", "deliver"}
    BY <1>6 DEF DriverTop, Surface, Deliver, DriverDie, Die
  <2> QED BY <2>1 DEF RunnerAgrees
<1>7. CASE \/ UNCHANGED vars \/ CloseBegin \/ CloseSignal \/ \E i \in Ids : Abort(i)
           \/ \E r \in Reqs : Client(r)
  <2>1. UNCHANGED <<sched, driver, out, ro>> /\ (closer' = "closed" => closer = "closed")
    BY <1>7 DEF vars, driverVars, CloseBegin, CloseSignal, Abort, Client, Collect, EndStream
  <2> QED BY <1>1, <2>1
<1> QED
  BY <1>2, <1>3, <1>4, <1>5, <1>6, <1>7 DEF Next, Driver

-----------------------------------------------------------------------------
(* The theorems. *)

(* Every step keeps the invariant of the clients.                          *)
LEMMA StepClients ==
  SchedulingInvariant /\ SchedulingInvariant' /\ ClientsInvariant /\ [Next]_vars => ClientsInvariant'
<1> SUFFICES ASSUME SchedulingInvariant, SchedulingInvariant', ClientsInvariant, [Next]_vars
             PROVE  ClientsInvariant'
  OBVIOUS
<1>1. TypeOK /\ WaitersMatch /\ WaitersRegistered /\ WaitersHaveStates /\ RunnerAgrees
  BY DEF ClientsInvariant
<1>2. TypeOK' /\ WaitersMatch' /\ WaitersRegistered' /\ WaitersHaveStates' /\ RunnerAgrees'
  BY <1>1, StepType, StepWaitersMatch, StepWaitersRegistered, StepWaitersHaveStates,
     StepRunnerAgrees
<1> QED BY <1>2 DEF ClientsInvariant

(* Through every interleaving of submissions, aborts, driver iterations,   *)
(* death and close, the waiters, the results and the requests' states      *)
(* agree, and the runner's output is about its batch.                      *)
THEOREM ClientsInvariantHolds == Spec => []ClientsInvariant
<1>1. Init => ClientsInvariant
  BY InitClients
<1>2. ClientsInvariant /\ SchedulingInvariant /\ SchedulingInvariant' /\ [Next]_vars => ClientsInvariant'
  BY StepClients
<1>3. Spec => []SchedulingInvariant
  BY SchedulingInvariantHolds
<1> QED BY <1>1, <1>2, <1>3, PTL DEF Spec

(* Every variable of the engine keeps its type. *)
THEOREM EngineTypes == Spec => []TypeOK
<1>1. ClientsInvariant => TypeOK
  BY DEF ClientsInvariant
<1> QED BY <1>1, ClientsInvariantHolds, PTL

(* Engines whose requests do not share their first request id: while the   *)
(* engine runs, a blocked client's request is queued, or it was aborted    *)
(* outside a batch (diffusion_engine.py:600).  Nothing else strands it.    *)
THEOREM OnlyAbortsLeaveBehind == ASSUME DistinctIds PROVE Spec => []OnlyAbortsStrand
<1>1. ClientsInvariant => OnlyAbortsStrand
  BY DEF ClientsInvariant, WaitersHaveStates, OnlyAbortsStrand
<1> QED BY <1>1, ClientsInvariantHolds, PTL

(* The same engines: death and close wake every client that is blocked at  *)
(* that moment, those stranded by an abort included                        *)
(* (diffusion_engine.py:745).                                              *)
THEOREM EveryoneIsWoken == ASSUME DistinctIds PROVE Spec => SignalWakesEveryone
<1>1. ASSUME ClientsInvariant, [Next]_vars, NEW r \in Reqs, Unanswered(r)',
             (driver = "dying" /\ driver' = "dead") \/ (closer = "signal" /\ closer' = "shutdown")
      PROVE  FALSE
  <2>1. DriverDie \/ CloseSignal
    <3>1. driver = "dying" /\ driver' = "dead" => DriverDie
      BY <1>1 DEF Next, Driver, Client, vars, driverVars, DriverTop, DriverSchedule, Surface, Execute,
           Deliver, Die, Submit, Collect, EndStream, Abort, CloseBegin, CloseSignal, CloseShutdown
    <3>2. closer = "signal" /\ closer' = "shutdown" => CloseSignal
      BY <1>1 DEF Next, Driver, Client, vars, driverVars, DriverTop, DriverSchedule, Surface, Execute,
           Deliver, DriverDie, Die, Submit, Collect, EndStream, Abort, CloseBegin, CloseShutdown
    <3> QED BY <1>1, <3>1, <3>2
  <2>2. SignalEngineDead /\ UNCHANGED <<clientVars, events>>
    BY <2>1 DEF DriverDie, CloseSignal
  <2>3. TypeOK /\ WaitersMatch /\ WaitersRegistered
    BY <1>1 DEF ClientsInvariant
  <2>4. Answering(SchedIds)
    BY <2>2, <2>3, SignalAnswers
  <2> QED BY <1>1, <2>3, <2>4, StillUnanswered
<1>2. ClientsInvariant /\ [Next]_vars =>
        [(driver = "dying" /\ driver' = "dead") \/ (closer = "signal" /\ closer' = "shutdown")
           => \A r \in Reqs : ~Unanswered(r)']_vars
  BY <1>1
<1> QED BY <1>2, ClientsInvariantHolds, PTL DEF Spec, SignalWakesEveryone

-----------------------------------------------------------------------------
(* An abort in the queue wins over the batch that comes back. *)

Silent(q) == \A k \in DOMAIN q : q[k].kind # "audio"

(* What a silent list adds to another carries no audio.                    *)
LEMMA SilentConcat ==
  ASSUME NEW c \in Seq(Items), NEW e \in Seq(Items), Silent(e)
  PROVE  /\ \A k \in (Len(c) + 1)..Len(c \o e) : (c \o e)[k].kind # "audio"
         /\ Silent(c) => Silent(c \o e)
<1>1. Len(c) \in Nat /\ Len(e) \in Nat /\ DOMAIN c = 1..Len(c) /\ DOMAIN e = 1..Len(e)
  BY LenProperties
<1>2. c \o e \in Seq(Items) /\ Len(c \o e) = Len(c) + Len(e)
      /\ \A i \in 1..(Len(c) + Len(e)) : (c \o e)[i] = IF i <= Len(c) THEN c[i] ELSE e[i - Len(c)]
  BY ConcatProperties
<1>3. DOMAIN (c \o e) = 1..(Len(c) + Len(e))
  BY <1>2, LenProperties
<1>4. ASSUME NEW k \in (Len(c) + 1)..Len(c \o e)
      PROVE  (c \o e)[k].kind # "audio"
  <2>1. k \in 1..(Len(c) + Len(e)) /\ ~(k <= Len(c)) /\ k - Len(c) \in 1..Len(e)
    BY <1>1, <1>2
  <2>2. (c \o e)[k] = e[k - Len(c)]
    BY <1>2, <2>1
  <2> QED BY <1>1, <2>1, <2>2 DEF Silent
<1>5. ASSUME Silent(c), NEW k \in 1..(Len(c) + Len(e))
      PROVE  (c \o e)[k].kind # "audio"
  <2>1. CASE k <= Len(c)
    <3>1. k \in 1..Len(c) /\ (c \o e)[k] = c[k]
      BY <1>1, <1>2, <2>1
    <3> QED BY <1>1, <1>5, <3>1 DEF Silent
  <2>2. CASE ~(k <= Len(c))
    <3>1. k \in (Len(c) + 1)..Len(c \o e)
      BY <1>1, <1>2, <2>2
    <3> QED BY <1>4, <3>1
  <2> QED BY <2>1, <2>2
<1> QED BY <1>3, <1>4, <1>5 DEF Silent

(* The abort of r is in the queue. *)
Aborting(r) == \E i \in aborts : client[r] = "waiting" /\ sched.owner[i] = sid[r]

(* A delivery has no audio for a client whose abort is in the queue. *)
LEMMA DeliverSilences ==
  ASSUME SchedulingInvariant, TypeOK, WaitersMatch, RunnerAgrees, driver = "deliver",
         NEW r \in Reqs, Aborting(r)
  PROVE  Silent(TheChunk(r)) /\ Silent(TheEnd(r))
<1> DEFINE x == sid[r]
           gone == {sched.owner[i] : i \in {j \in aborts : sched.owner[j] # NoSched}}
<1>1. /\ x \in SchedIds /\ x \in gone
      /\ \A y \in SchedIds : streams[y] = r => y = x
  <2>1. PICK i \in aborts : client[r] = "waiting" /\ sched.owner[i] = x
    BY DEF Aborting
  <2>2. x \in SchedIds /\ x # NoSched
    BY <2>1 DEF WaitersMatch, TypeOK
  <2> QED BY <2>1, <2>2, RegisteredUnderOwnId
<1>2. /\ SchedulerOK(sched) /\ sched \in Scheduler /\ SchedulerOK(TheAborted)
      /\ Scheduled(out) \in Seq(SchedIds) /\ IsInjective(Scheduled(out))
      /\ TheFinished \subseteq Range(Scheduled(out))
      /\ TheFinished \subseteq SchedIds
      /\ ro \in RunnerOutput
  BY DeliverSchedulers DEF SchedulingInvariant, SchedulerConsistent, SchedulerOK, RunnerAgrees
<1>3. sched.status[x] # "NONE"
  <2>1. PICK i \in Ids : sched.owner[i] = x /\ sched.owner[i] # NoSched
    BY <1>1 DEF SchedulingInvariant
  <2> QED BY <1>1, <1>2, <2>1, SchedulerAssumption DEF SchedulerOK, OwnersExist, StatesHaveRequests
<1>4. \A y \in TheProduced : y \in Range(Scheduled(out)) /\ y \in SchedIds
  BY <1>2, RangeOfSeq DEF TheProduced, RunnerAgrees, RunnerOutput
<1>5. \A y \in ThePublished : y \in TheProduced /\ ~(y \in TheFinished /\ TheUpdated.status[y] # "COMPLETED")
  BY DEF ThePublished, StreamsOf
<1>6. CASE x \in Range(Scheduled(out)) /\ sched.status[x] \in Queued
  <2>1. TheAborted.status[x] = "ABORTED" /\ x \in TheAborted.finished
    BY <1>1, <1>2, <1>6, FinishRequestsStatus, FinishRequestsFinished DEF TheAborted, Aborted, Live
  <2>2. x \notin Live(TheAborted, Range(Scheduled(out)))
    BY <2>1 DEF Live, Queued
  <2>3. x \in TheFinished /\ TheUpdated.status[x] = "ABORTED"
    BY <1>1, <1>2, <1>6, <2>1, <2>2, UpdateFromOutputFields DEF TheFinished, TheUpdated
  <2>4. TheChunk(r) = <<>>
    BY <1>1, <1>4, <1>5, <2>3 DEF TheChunk
  <2>5. TheKind[x] = "aborted"
    BY <2>3 DEF TheKind
  <2>6. TheEnd(r) = <<>> \/ TheEnd(r) = <<Final("aborted")>>
    BY <2>5 DEF TheEnd
  <2> QED BY <2>4, <2>6 DEF Silent, Final, Item
<1>7. CASE \A y \in SchedIds : ResultOf(ro, y) # "audio"
  <2>1. TheChunk(r) = <<>> \/ \E n, b : TheChunk(r) = <<Item(ResultOf(ro, x), n, b)>>
    BY DEF TheChunk
  <2>2. TheEnd(r) = <<>> \/ (x \in TheFinished /\ TheEnd(r) = <<Final(TheKind[x])>>)
    BY <1>1, <1>2 DEF TheEnd
  <2>3. x \in TheFinished => TheKind[x] # "audio"
    BY <1>1, <1>7 DEF TheKind
  <2> QED BY <1>1, <1>7, <2>1, <2>2, <2>3 DEF Silent, Final, Item
<1>8. CASE x \notin Range(Scheduled(out))
  <2>1. TheChunk(r) = <<>> /\ TheEnd(r) = <<>>
    BY <1>1, <1>2, <1>4, <1>5, <1>8 DEF TheChunk, TheEnd
  <2> QED BY <2>1 DEF Silent
<1>9. CASE closer # "closed" /\ x \in Range(Scheduled(out))
  <2>1. x \in Range(sched.running)
    BY <1>9 DEF SchedulingInvariant, BatchIsRunning
  <2>2. sched.status[x] = "RUNNING"
    BY <1>1, <1>2, <2>1 DEF SchedulerOK, StatusAgreesWithQueues
  <2> QED BY <1>6, <1>9, <2>2 DEF Queued
<1>10. CASE closer = "closed" /\ \A y \in SchedIds : sched.status[y] \notin Finished
  <2>1. sched.status[x] \in Queued
    BY <1>1, <1>2, <1>3, <1>10, SchedulerFields DEF Status
  <2> QED BY <1>6, <1>8, <2>1
<1> QED BY <1>7, <1>8, <1>9, <1>10 DEF RunnerAgrees

(* An abort that is in the queue when a batch comes back wins over the     *)
(* batch's output: its stream carries no audio any more                    *)
(* (diffusion_engine.py:630-646).                                          *)
THEOREM AbortsBeatLateAudio == Spec => AbortBeatsLateAudio
<1>1. ASSUME SchedulingInvariant, ClientsInvariant, [Next]_vars, NEW r \in Reqs, Aborting(r)
      PROVE  \A k \in (Len(chan[r]) + 1)..Len(chan'[r]) : chan'[r][k].kind # "audio"
  <2>1. TypeOK /\ WaitersMatch /\ RunnerAgrees /\ chan[r] \in Seq(Items)
    BY <1>1 DEF ClientsInvariant, TypeOK
  <2>2. ASSUME NEW e \in Seq(Items), Silent(e), chan'[r] = chan[r] \o e
        PROVE  \A k \in (Len(chan[r]) + 1)..Len(chan'[r]) : chan'[r][k].kind # "audio"
    BY <2>1, <2>2, SilentConcat
  <2>3. CASE chan'[r] = chan[r]
    <3>1. Len(chan[r]) \in Nat
      BY <2>1, LenProperties
    <3> QED BY <2>3, <3>1
  <2>4. ASSUME NEW kind \in {"aborted", "dead"}, chan'[r] = Append(chan[r], Final(kind))
        PROVE  \A k \in (Len(chan[r]) + 1)..Len(chan'[r]) : chan'[r][k].kind # "audio"
    <3> DEFINE last == Final(kind)
               e == <<last>>
    <3>1. last \in Items /\ last.kind # "audio"
      BY DEF Final, Item, Items, Kinds
    <3> HIDE DEF last
    <3>2. e \in Seq(Items) /\ Silent(e) /\ chan'[r] = chan[r] \o e
      BY <2>1, <2>4, <3>1, AppendIsConcat DEF last, Silent
    <3> HIDE DEF e
    <3> QED BY <2>2, <3>2
  <2>5. CASE Deliver
    <3>1. driver = "deliver" /\ chan'[r] = (chan[r] \o TheChunk(r)) \o TheEnd(r)
      BY <2>5, DeliverIs
    <3>2. TheChunk(r) \in Seq(Items) /\ TheEnd(r) \in Seq(Items)
          /\ Silent(TheChunk(r)) /\ Silent(TheEnd(r))
      BY <1>1, <2>1, <3>1, DeliverSays, DeliverSilences
    <3>3. chan'[r] = chan[r] \o (TheChunk(r) \o TheEnd(r))
      BY <2>1, <3>1, <3>2, ConcatTwice
    <3>4. TheChunk(r) \o TheEnd(r) \in Seq(Items) /\ Silent(TheChunk(r) \o TheEnd(r))
      BY <3>2, SilentConcat, ConcatProperties
    <3> QED BY <2>2, <3>3, <3>4
  <2>6. CASE Surface
    <3>1. chan'[r] = chan[r] \/ chan'[r] = Append(chan[r], Final("aborted"))
      BY <2>6 DEF Surface
    <3> QED BY <2>3, <2>4, <3>1
  <2>7. CASE DriverDie \/ CloseSignal
    <3>1. chan'[r] = chan[r] \/ chan'[r] = Append(chan[r], Final("dead"))
      BY <2>7 DEF DriverDie, CloseSignal, SignalEngineDead
    <3> QED BY <2>3, <2>4, <3>1
  <2>8. CASE ~Deliver /\ ~Surface /\ ~DriverDie /\ ~CloseSignal
    <3>1. chan' = chan
      BY <1>1, <2>8 DEF Next, Driver, Client, vars, waiterVars, DriverTop, DriverSchedule, Execute,
           Die, Submit, Collect, EndStream, Abort, CloseBegin, CloseShutdown
    <3> QED BY <2>3, <3>1
  <2> QED BY <2>5, <2>6, <2>7, <2>8
<1>2. SchedulingInvariant /\ ClientsInvariant /\ [Next]_vars =>
        [\A r \in Reqs :
           (\E i \in aborts : client[r] = "waiting" /\ sched.owner[i] = sid[r])
             => \A k \in (Len(chan[r]) + 1)..Len(chan'[r]) : chan'[r][k].kind # "audio"]_vars
  BY <1>1 DEF Aborting
<1> QED
  BY <1>2, ClientsInvariantHolds, SchedulingInvariantHolds, PTL DEF Spec, AbortBeatsLateAudio

-----------------------------------------------------------------------------
(* What the engine, its scheduler and its runner agree on about progress:  *)
(* the worker's cache follows the scheduler, no stream ends early, and so  *)
(* the engine implements the request lifecycle.                            *)

-----------------------------------------------------------------------------
(* What the driver's steps do to one request. *)

(* Processing aborts leaves a request alone, or aborts and reports it.     *)
LEMMA AbortedStates ==
  ASSUME SchedulingInvariant, NEW x \in SchedIds
  PROVE  /\ Aborted(sched).req = sched.req
         /\ \/ /\ Aborted(sched).status[x] = sched.status[x]
               /\ x \in Aborted(sched).finished <=> x \in sched.finished
            \/ Aborted(sched).status[x] = "ABORTED" /\ x \in Aborted(sched).finished
BY FinishRequestsStatus, FinishRequestsFinished, FinishRequestsKeeps
   DEF Aborted, SchedulingInvariant, SchedulerConsistent, SchedulerOK

(* So does a delivery, which in addition forgets what was in the batch and *)
(* is finished, and may preempt what runs.                                 *)
LEMMA DeliverStates ==
  ASSUME SchedulingInvariant, driver = "deliver", NEW x \in SchedIds
  PROVE  LET s == PopRequestStates(TheUpdated, TheFinished)
         IN  /\ s.req[x] = IF x \in TheFinished THEN NoReq ELSE sched.req[x]
             /\ x \in TheFinished => s.status[x] = "NONE" /\ x \in s.finished
             /\ x \notin TheFinished =>
                  \/ s.status[x] = sched.status[x] /\ x \notin s.finished
                  \/ sched.status[x] = "RUNNING" /\ s.status[x] = "PREEMPTED" /\ x \notin s.finished
                  \/ s.status[x] = "ABORTED" /\ x \in s.finished
<1>1. /\ Scheduled(out) \in Seq(SchedIds) /\ IsInjective(Scheduled(out)) /\ sched.finished = {}
      /\ SchedulerOK(TheAborted) /\ SchedulerOK(TheUpdated) /\ TheUpdated \in Scheduler
  BY DeliverSchedulers DEF SchedulingInvariant, SchedulerOK, FinishesTaken
<1>2. /\ TheAborted.req = sched.req
      /\ \/ TheAborted.status[x] = sched.status[x] /\ x \notin TheAborted.finished
         \/ TheAborted.status[x] = "ABORTED" /\ x \in TheAborted.finished
  BY <1>1, AbortedStates DEF TheAborted
<1>3. /\ TheUpdated.req = TheAborted.req
      /\ x \in TheAborted.finished => x \in TheUpdated.finished
      /\ x \in TheUpdated.finished => x \in TheAborted.finished \/ x \in TheFinished
      /\ x \in TheFinished => x \in TheUpdated.finished
      /\ LET live == x \in Live(TheAborted, Range(Scheduled(out)))
         IN  /\ ~live \/ ~(Failed(ro, x) \/ Completed(ro, x)) =>
                  \/ TheUpdated.status[x] = TheAborted.status[x]
                  \/ TheAborted.status[x] = "RUNNING" /\ TheUpdated.status[x] = "PREEMPTED"
             /\ live /\ (Failed(ro, x) \/ Completed(ro, x)) => x \in TheFinished
  BY <1>1, UpdateFromOutputFields DEF TheUpdated, TheFinished, Live
<1>4. LET s == PopRequestStates(TheUpdated, TheFinished)
      IN  /\ s.status[x] = IF x \in TheFinished THEN "NONE" ELSE TheUpdated.status[x]
          /\ s.req[x] = IF x \in TheFinished THEN NoReq ELSE TheUpdated.req[x]
          /\ s.finished = TheUpdated.finished
  BY <1>1, PopRequestStatesFields
<1> QED BY <1>2, <1>3, <1>4

(* A schedule starts or resumes what it selects, as new or as cached. *)
LEMMA ScheduleStates ==
  ASSUME NEW s, SchedulerOK(s), NEW x \in SchedIds
  PROVE  /\ AfterSchedule(s).req = s.req
         /\ AfterSchedule(s).finished = {}
         /\ \/ AfterSchedule(s).status[x] = s.status[x] /\ x \notin Range(Output(s).new)
            \/ /\ AfterSchedule(s).status[x] = "RUNNING" /\ x \in Range(Scheduled(Output(s)))
               /\ \/ s.status[x] = "WAITING" /\ x \in Range(Output(s).new)
                  \/ s.status[x] = "PREEMPTED" /\ x \notin Range(Output(s).new)
<1> DEFINE selected == SelectWaiting(s)
           new == {y \in Range(selected) : s.status[y] = "WAITING"}
<1>1. /\ selected \in Seq(SchedIds) /\ IsInjective(selected) /\ Range(selected) \subseteq Range(s.waiting)
      /\ s \in Scheduler
  BY SelectWaitingProperties DEF SchedulerOK
<1>2. Range(Output(s).new) = new
  BY <1>1, KeepProperties DEF Output
<1>3. AfterSchedule(s).status[x] = IF x \in Range(selected) THEN "RUNNING" ELSE s.status[x]
  BY <1>1, AfterScheduleFields
<1>4. /\ AfterSchedule(s).req = s.req /\ AfterSchedule(s).finished = {}
      /\ Range(Scheduled(Output(s))) = Range(s.running) \cup Range(selected)
  BY <1>1, AfterScheduleFields, AfterScheduleOK, OutputProperties
<1>5. x \in Range(s.waiting) => s.status[x] \in {"WAITING", "PREEMPTED"}
  BY DEF SchedulerOK, StatusAgreesWithQueues
<1> HIDE DEF selected
<1> QED BY <1>1, <1>2, <1>3, <1>4, <1>5

(* What surfaces is nothing. *)
LEMMA SurfaceNothing ==
  ASSUME SchedulingInvariant, TypeOK, Surface
  PROVE  /\ chan' = chan /\ streams' = streams
         /\ \A x \in SchedIds : /\ sched'.status[x] = sched.status[x]
                                /\ sched'.req[x] = sched.req[x]
         /\ sched'.finished = sched.finished
<1> DEFINE X == {x \in out.finished : pending[x] = "none" /\ sched.status[x] # "NONE"}
<1>1. out.finished = {}
  BY DEF Surface, SchedulingInvariant, FinishesTaken
<1>2. X = {}
  BY <1>1
<1>3. /\ sched' = PopRequestStates(sched, X)
      /\ chan' = [r \in Reqs |-> IF \E x \in StreamsOf(X) : streams[x] = r
                                 THEN Append(chan[r], Final("aborted")) ELSE chan[r]]
      /\ streams' = ForgetStreams(X)
  BY DEF Surface
<1> HIDE DEF X
<1>4. chan' = chan /\ streams' = streams
  BY <1>2, <1>3 DEF StreamsOf, ForgetStreams, TypeOK
<1>5. SchedulerOK(sched) /\ sched \in Scheduler
  BY DEF SchedulingInvariant, SchedulerConsistent, SchedulerOK
<1>6. sched'.finished = sched.finished
  BY <1>2, <1>3, <1>5, PopRequestStatesOK
<1>7. ASSUME NEW x \in SchedIds
      PROVE  sched'.status[x] = sched.status[x] /\ sched'.req[x] = sched.req[x]
  BY <1>2, <1>3, <1>5, PopRequestStatesFields
<1> QED BY <1>4, <1>6, <1>7

-----------------------------------------------------------------------------
(* Scheduler ids and stream queues belong to who has them. *)

(* Every step keeps scheduler ids with requests whose first id they extend.*)
LEMMA StepBearersMatch ==
  ASSUME SchedulingInvariant, TypeOK, WaitersMatch, RunnerAgrees, BearersMatch, [Next]_vars
  PROVE  BearersMatch'
<1>0. SchedulerOK(sched) /\ sched \in Scheduler
  BY DEF SchedulingInvariant, SchedulerConsistent, SchedulerOK
<1>1. CASE /\ \A x \in SchedIds : sched'.req[x] = sched.req[x]
           /\ \A x \in SchedIds : streams'[x] \in {streams[x], NoReq}
           /\ closer' # "closed" => closer # "closed"
  BY <1>1 DEF BearersMatch
<1>2. ASSUME NEW r \in Reqs, Submit(r)
      PROVE  BearersMatch'
  <2>1. PICK x \in SchedIds :
          /\ IsSchedReqId(sched, r, x)
          /\ sched' = AddRequest(sched, r, x)
          /\ streams' = streams \/ streams' = [streams EXCEPT ![x] = r]
          /\ closer' = closer
    BY <1>2 DEF Submit
  <2>2. \A y \in SchedIds : sched'.req[y] = IF y = x THEN r ELSE sched.req[y]
    BY <1>0, <2>1, AddRequestReq
  <2>3. sched.req[x] = NoReq
    BY <1>0, <2>1 DEF IsSchedReqId, SchedulerOK, StatesHaveRequests
  <2>4. closer # "closed" => streams[x] = NoReq
    BY <2>3 DEF BearersMatch
  <2> QED BY <2>1, <2>2, <2>4 DEF BearersMatch, IsSchedReqId, TypeOK
<1>3. CASE Deliver
  <2>1. /\ driver = "deliver" /\ sched' = PopRequestStates(TheUpdated, TheFinished)
        /\ streams' = ForgetStreams(TheFinished) /\ closer' = closer
    BY <1>3, DeliverIs
  <2>2. \A x \in SchedIds : sched'.req[x] = IF x \in TheFinished THEN NoReq ELSE sched.req[x]
    BY <2>1, DeliverStates
  <2>3. \A x \in SchedIds : streams'[x] = IF x \in TheFinished THEN NoReq ELSE streams[x]
    BY <2>1 DEF ForgetStreams
  <2> QED BY <2>1, <2>2, <2>3 DEF BearersMatch
<1>4. CASE Surface
  <2>1. closer' = closer
    BY <1>4 DEF Surface
  <2> QED BY <1>1, <1>4, <2>1, SurfaceNothing
<1>5. CASE DriverTop \/ DriverSchedule
  <2>1. sched' \in {sched, Aborted(sched), AfterSchedule(sched)} /\ UNCHANGED <<streams, closer>>
    BY <1>5 DEF DriverTop, DriverSchedule, waiterVars
  <2>2. \A x \in SchedIds : Aborted(sched).req = sched.req /\ AfterSchedule(sched).req = sched.req
    BY <1>0, AbortedStates, ScheduleStates
  <2> QED BY <1>1, <2>1, <2>2
<1>6. CASE DriverDie \/ CloseSignal
  <2>1. SignalEngineDead /\ sched' = sched
    BY <1>6 DEF DriverDie, CloseSignal
  <2>2. \A x \in SchedIds : streams'[x] = NoReq
    BY <2>1 DEF SignalEngineDead
  <2> QED BY <2>1, <2>2 DEF BearersMatch
<1>7. CASE CloseShutdown
  BY <1>7 DEF CloseShutdown, EmptyScheduler, BearersMatch
<1>8. CASE \/ UNCHANGED vars \/ Execute \/ Die \/ CloseBegin \/ \E i \in Ids : Abort(i)
           \/ \E r \in Reqs : Client(r)
  <2>1. sched' = sched /\ (closer' # "closed" => closer # "closed")
    BY <1>8 DEF vars, Execute, Die, CloseBegin, Abort, Client, Collect, EndStream
  <2>2. \A x \in SchedIds : streams'[x] \in {streams[x], NoReq}
    BY <1>8 DEF vars, waiterVars, Execute, Die, CloseBegin, Abort, Client, Collect, EndStream, TypeOK
  <2> QED BY <1>1, <2>1, <2>2
<1> QED
  BY <1>2, <1>3, <1>4, <1>5, <1>6, <1>7, <1>8 DEF Next, Driver

-----------------------------------------------------------------------------
(* The worker's cache. *)

(* What an execution does to the cache outside the batch: it drops what it *)
(* hears is finished.  Inside, it counts steps.                            *)
LEMMA ExecuteCache ==
  ASSUME SchedulingInvariant, TypeOK, RunnerAgrees, CacheFollows, Execute, StepExecution,
         closer # "closed", NEW x \in SchedIds
  PROVE  \/ x \notin Range(Scheduled(out)) /\ cache'[x] = Dropped[x]
         \/ /\ x \in Range(Scheduled(out)) /\ x \in ro'.finished
            /\ cache'[x] \in {Absent, 0, Dropped[x]}
         \/ /\ x \in Range(Scheduled(out)) /\ x \notin ro'.finished
            /\ cache'[x] # Absent /\ cache'[x] < Steps[sched.req[x]]
<1>1. /\ out.new \in Seq(SchedIds) /\ out.cached \in Seq(SchedIds)
      /\ Range(Scheduled(out)) = Range(out.new) \cup Range(out.cached)
  BY RangeConcatenation DEF TypeOK, SchedulerOutput, Scheduled
<1>2. CASE StepFailure
  <2>1. /\ ro'.finished = Range(Scheduled(out))
        /\ cache'[x] = IF x \in Range(out.new) THEN 0 ELSE Dropped[x]
    BY <1>2 DEF StepFailure, FailedBatch, NoRunnerOutput
  <2> QED BY <1>1, <2>1
<1>3. ASSUME NEW silent, StepBatch(silent)
      PROVE  \/ x \notin Range(Scheduled(out)) /\ cache'[x] = Dropped[x]
             \/ /\ x \in Range(Scheduled(out)) /\ x \in ro'.finished
                /\ cache'[x] \in {Absent, 0, Dropped[x]}
             \/ /\ x \in Range(Scheduled(out)) /\ x \notin ro'.finished
                /\ cache'[x] # Absent /\ cache'[x] < Steps[sched.req[x]]
  <2> DEFINE batch == Range(Scheduled(out))
             done == [y \in batch |-> 1 + (IF Dropped[y] = Absent THEN 0 ELSE Dropped[y])]
             ended == {y \in batch : done[y] >= Steps[sched.req[y]]}
  <2>1. /\ ro'.finished = ended
        /\ cache'[x] = IF x \in ended THEN Absent ELSE IF x \in batch THEN done[x] ELSE Dropped[x]
    BY <1>3 DEF StepBatch
  <2>2. CASE x \in batch
    <3>1. sched.req[x] \in Reqs
      <4>1. x \in Range(sched.running)
        BY <2>2 DEF SchedulingInvariant, BatchIsRunning, Execute
      <4> QED BY <4>1, SchedulerFields DEF SchedulingInvariant, SchedulerConsistent, SchedulerOK,
                StatusAgreesWithQueues, StatesHaveRequests
    <3>2. done[x] \in Nat \ {0} /\ Steps[sched.req[x]] \in Nat
      <4>1. Dropped[x] \in Nat \cup {Absent}
        BY DEF Dropped, TypeOK
      <4> QED BY <2>2, <3>1, <4>1, EngineAssumption DEF Absent
    <3> QED BY <2>1, <2>2, <3>2 DEF Absent
  <2>3. CASE x \notin batch
    BY <2>1, <2>3
  <2> QED BY <2>2, <2>3
<1> QED BY <1>2, <1>3 DEF Execute, ExecuteStep

(* What the runner reports finished after a step is finished by the        *)
(* delivery.                                                               *)
LEMMA FinishedReported ==
  ASSUME SchedulingInvariant, RunnerAgrees, RunnerExact, StepExecution, driver = "deliver",
         closer # "closed", NEW x \in SchedIds, x \in ro.finished
  PROVE  x \in TheFinished
<1>1. /\ Scheduled(out) \in Seq(SchedIds) /\ IsInjective(Scheduled(out)) /\ SchedulerOK(TheAborted)
      /\ x \in Range(Scheduled(out))
  BY DeliverSchedulers DEF SchedulingInvariant, RunnerAgrees
<1>2. sched.status[x] = "RUNNING"
  BY <1>1 DEF SchedulingInvariant, BatchIsRunning, SchedulerConsistent, SchedulerOK,
     StatusAgreesWithQueues
<1>3. \/ TheAborted.status[x] = "RUNNING"
      \/ TheAborted.status[x] = "ABORTED" /\ x \in TheAborted.finished
  BY <1>2, AbortedStates DEF TheAborted
<1>4. Failed(ro, x) \/ Completed(ro, x)
  BY <1>1 DEF RunnerExact, Failed, Completed
<1> QED BY <1>1, <1>3, <1>4, UpdateFromOutputFields DEF TheFinished, Live, Queued

(* Every step keeps what is cached in progress or about to be dropped.     *)
LEMMA StepCacheFollows ==
  ASSUME SchedulingInvariant, SchedulingInvariant', TypeOK, RunnerAgrees, CacheFollows, [Next]_vars
  PROVE  CacheFollows'
<1> SUFFICES ASSUME StepExecution, closer' # "closed", NEW x \in SchedIds, cache'[x] # Absent
             PROVE  \/ x \in sched'.finished
                    \/ driver' \in {"execute", "dying", "dead"} /\ x \in out'.finished
                    \/ sched'.status[x] \in InProgress /\ cache'[x] < Steps[sched'.req[x]]
  BY DEF CacheFollows
<1> DEFINE Goal == \/ x \in sched'.finished
                   \/ driver' \in {"execute", "dying", "dead"} /\ x \in out'.finished
                   \/ sched'.status[x] \in InProgress /\ cache'[x] < Steps[sched'.req[x]]
<1> SUFFICES Goal
  OBVIOUS
<1>0. SchedulerOK(sched) /\ sched \in Scheduler /\ closer # "closed"
  BY DEF SchedulingInvariant, SchedulerConsistent, SchedulerOK, Next, Driver, Client, vars, DriverTop,
     DriverSchedule, Surface, Execute, Deliver, DriverDie, Die, Submit, Collect, EndStream, Abort,
     CloseBegin, CloseSignal, CloseShutdown
<1>1. cache[x] # Absent =>
        \/ x \in sched.finished
        \/ driver \in {"execute", "dying", "dead"} /\ x \in out.finished
        \/ sched.status[x] \in InProgress /\ cache[x] < Steps[sched.req[x]]
  BY <1>0 DEF CacheFollows
<1>2. ASSUME NEW r \in Reqs, Submit(r)
      PROVE  Goal
  <2>1. PICK y \in SchedIds : IsSchedReqId(sched, r, y) /\ sched' = AddRequest(sched, r, y)
    BY <1>2 DEF Submit
  <2>2. sched'.finished = sched.finished
    BY <1>0, <2>1, AddRequestOK
  <2>3. x # y => sched'.status[x] = sched.status[x] /\ sched'.req[x] = sched.req[x]
    BY <1>0, <2>1, AddRequestStatus, AddRequestReq
  <2>4. x = y => sched.status[x] \notin InProgress
    BY <2>1 DEF IsSchedReqId, InProgress
  <2>5. cache' = cache /\ out' = out /\ (driver # "off" => driver' = driver)
    BY <1>2 DEF Submit
  <2> QED BY <1>1, <2>2, <2>3, <2>4, <2>5
<1>3. CASE DriverTop
  <2>1. driver = "top" /\ cache' = cache /\ sched' \in {sched, Aborted(sched)}
    BY <1>3 DEF DriverTop
  <2> QED BY <1>1, <2>1, AbortedStates
<1>4. CASE DriverSchedule
  <2>1. driver = "schedule" /\ cache' = cache
    BY <1>4 DEF DriverSchedule
  <2>2. CASE sched' = sched
    BY <1>1, <2>1, <2>2
  <2>3. CASE sched' # sched
    <3>1. /\ out' = Output(sched) /\ sched' = AfterSchedule(sched)
          /\ driver' = IF Scheduled(out') = <<>> THEN "surface" ELSE "execute"
      BY <1>4, <2>3 DEF DriverSchedule
    <3>2. out'.finished = sched.finished
      BY <1>0, <3>1, OutputProperties
    <3>3. driver' = "surface" => out'.finished = {}
      BY DEF SchedulingInvariant, FinishesTaken
    <3>4. /\ sched'.req = sched.req
          /\ sched.status[x] \in InProgress => sched'.status[x] \in InProgress
      BY <1>0, <3>1, ScheduleStates DEF InProgress
    <3> QED BY <1>1, <2>1, <3>1, <3>2, <3>3, <3>4
  <2> QED BY <2>2, <2>3
<1>5. CASE Surface
  <2>1. driver = "surface" /\ cache' = cache
    BY <1>5 DEF Surface
  <2> QED BY <1>1, <1>5, <2>1, SurfaceNothing
<1>6. CASE Execute
  <2>1. driver = "execute" /\ sched' = sched /\ sched.finished = {}
    BY <1>6 DEF Execute, SchedulingInvariant, FinishesTaken
  <2>2. x \in Range(Scheduled(out)) => sched.status[x] = "RUNNING" /\ sched.req[x] \in Reqs
    BY <1>0, <2>1, SchedulerFields DEF SchedulingInvariant, BatchIsRunning, SchedulerOK,
       StatusAgreesWithQueues, StatesHaveRequests
  <2>3. Dropped[x] # Absent => /\ Dropped[x] = cache[x] /\ cache[x] # Absent
                               /\ x \notin out.finished
    BY DEF Dropped
  <2>4. Dropped[x] # Absent => sched.status[x] \in InProgress /\ Dropped[x] < Steps[sched.req[x]]
    BY <1>1, <2>1, <2>3
  <2>5. x \in Range(Scheduled(out)) => 0 < Steps[sched.req[x]]
    BY <2>2, EngineAssumption
  <2> QED BY <1>0, <1>6, <2>1, <2>2, <2>4, <2>5, ExecuteCache DEF InProgress
<1>7. CASE Deliver
  <2>1. driver = "deliver" /\ cache' = cache /\ sched' = PopRequestStates(TheUpdated, TheFinished)
    BY <1>7, DeliverIs
  <2>2. sched.finished = {}
    BY <2>1 DEF SchedulingInvariant, FinishesTaken
  <2> QED BY <1>1, <2>1, <2>2, DeliverStates DEF InProgress
<1>8. CASE \/ UNCHANGED vars \/ Die \/ DriverDie \/ CloseBegin \/ CloseSignal
           \/ \E i \in Ids : Abort(i)
           \/ \E r \in Reqs : Client(r)
  <2>1. UNCHANGED <<sched, out, cache>> /\ (driver' = driver \/ Die \/ DriverDie)
    BY <1>8 DEF vars, driverVars, Die, DriverDie, CloseBegin, CloseSignal, Abort, Client, Collect, EndStream
  <2>2. driver \in {"execute", "dying", "dead"} => driver' \in {"execute", "dying", "dead"}
    BY <2>1 DEF Die, DriverDie
  <2> QED BY <1>1, <2>1, <2>2
<1>9. ~CloseShutdown
  BY DEF CloseShutdown
<1> QED
  BY <1>2, <1>3, <1>4, <1>5, <1>6, <1>7, <1>8, <1>9 DEF Next, Driver

(* Every step keeps what is in progress cached.                            *)
LEMMA StepCacheComplete ==
  ASSUME SchedulingInvariant, TypeOK, RunnerAgrees, CacheFollows, CacheComplete, RunnerExact,
         [Next]_vars
  PROVE  CacheComplete'
<1> SUFFICES ASSUME StepExecution, closer' # "closed", driver' \notin {"dying", "dead"},
                    NEW x \in SchedIds, sched'.status[x] \in InProgress
             PROVE  \/ /\ driver' = "execute" /\ x \in Range(out'.new)
                       /\ cache'[x] = Absent \/ x \in out'.finished
                    \/ driver' = "deliver" /\ x \in ro'.finished
                    \/ /\ cache'[x] # Absent /\ x \notin sched'.finished
                       /\ driver' = "execute" => x \notin out'.finished \cup Range(out'.new)
  BY DEF CacheComplete
<1> DEFINE Goal == \/ /\ driver' = "execute" /\ x \in Range(out'.new)
                      /\ cache'[x] = Absent \/ x \in out'.finished
                   \/ driver' = "deliver" /\ x \in ro'.finished
                   \/ /\ cache'[x] # Absent /\ x \notin sched'.finished
                      /\ driver' = "execute" => x \notin out'.finished \cup Range(out'.new)
<1> SUFFICES Goal
  OBVIOUS
<1>0. SchedulerOK(sched) /\ sched \in Scheduler
  BY DEF SchedulingInvariant, SchedulerConsistent, SchedulerOK
<1>1. /\ closer # "closed" /\ driver \notin {"dying", "dead"}
      /\ sched.status[x] \in InProgress =>
           \/ /\ driver = "execute" /\ x \in Range(out.new)
              /\ cache[x] = Absent \/ x \in out.finished
           \/ driver = "deliver" /\ x \in ro.finished
           \/ /\ cache[x] # Absent /\ x \notin sched.finished
              /\ driver = "execute" => x \notin out.finished \cup Range(out.new)
  <2>1. closer # "closed" /\ driver \notin {"dying", "dead"}
    BY DEF Next, Driver, Client, vars, driverVars, DriverTop, DriverSchedule, Surface, Execute,
       Deliver, DriverDie, Die, Submit, Collect, EndStream, Abort, CloseBegin, CloseSignal, CloseShutdown
  <2> QED BY <2>1 DEF CacheComplete
<1>2. ASSUME NEW r \in Reqs, Submit(r)
      PROVE  Goal
  <2>1. PICK y \in SchedIds : IsSchedReqId(sched, r, y) /\ sched' = AddRequest(sched, r, y)
    BY <1>2 DEF Submit
  <2>2. sched'.finished = sched.finished
    BY <1>0, <2>1, AddRequestOK
  <2>3. sched'.status[x] = sched.status[x]
    BY <1>0, <2>1, AddRequestStatus DEF InProgress
  <2>4. UNCHANGED <<cache, out, ro>> /\ (driver' = driver \/ (driver = "off" /\ driver' = "top"))
    BY <1>2 DEF Submit
  <2> QED BY <1>1, <2>2, <2>3, <2>4
<1>3. CASE DriverTop
  <2>1. driver = "top" /\ cache' = cache /\ driver' \in {"schedule", "stopped"}
        /\ sched' \in {sched, Aborted(sched)}
    BY <1>3 DEF DriverTop
  <2>2. sched'.status[x] = sched.status[x] /\ (x \in sched'.finished <=> x \in sched.finished)
    BY <2>1, AbortedStates DEF InProgress
  <2> QED BY <1>1, <2>1, <2>2
<1>4. CASE DriverSchedule
  <2>1. driver = "schedule" /\ cache' = cache
    BY <1>4 DEF DriverSchedule
  <2>2. CASE sched' = sched /\ driver' = "top"
    BY <1>1, <2>1, <2>2
  <2>3. CASE ~(sched' = sched /\ driver' = "top")
    <3>1. /\ out' = Output(sched) /\ sched' = AfterSchedule(sched)
          /\ driver' = IF Scheduled(out') = <<>> THEN "surface" ELSE "execute"
      BY <1>4, <2>3 DEF DriverSchedule
    <3>2. out'.finished = sched.finished /\ Scheduled(out') \in Seq(SchedIds)
      BY <1>0, <3>1, OutputProperties
    <3>3. x \in Range(Scheduled(out')) => driver' = "execute"
      BY <3>1 DEF Range
    <3>4. /\ sched'.finished = {}
          /\ \/ sched'.status[x] = sched.status[x] /\ x \notin Range(out'.new)
             \/ /\ x \in Range(Scheduled(out'))
                /\ \/ sched.status[x] = "WAITING" /\ x \in Range(out'.new)
                   \/ sched.status[x] = "PREEMPTED" /\ x \notin Range(out'.new)
      BY <1>0, <3>1, ScheduleStates
    <3>5. sched.status[x] = "WAITING" => cache[x] = Absent \/ x \in sched.finished
      BY <1>1, <2>1 DEF CacheFollows, InProgress
    <3> QED BY <1>1, <2>1, <3>1, <3>2, <3>3, <3>4, <3>5 DEF InProgress
  <2> QED BY <2>2, <2>3
<1>5. CASE Surface
  <2>1. driver = "surface" /\ cache' = cache /\ driver' = "top"
    BY <1>5 DEF Surface
  <2> QED BY <1>1, <1>5, <2>1, SurfaceNothing
<1>6. CASE Execute
  <2>1. driver = "execute" /\ driver' = "deliver" /\ sched' = sched /\ sched.finished = {}
    BY <1>6 DEF Execute, SchedulingInvariant, FinishesTaken
  <2>2. x \notin Range(Scheduled(out)) => x \notin Range(out.new)
    BY RangeConcatenation DEF TypeOK, SchedulerOutput, Scheduled
  <2>3. x \notin Range(Scheduled(out)) => Dropped[x] = cache[x] /\ cache[x] # Absent
    BY <1>1, <2>1, <2>2 DEF Dropped
  <2> QED BY <1>1, <1>6, <2>1, <2>3, ExecuteCache
<1>7. CASE Deliver
  <2>1. driver = "deliver" /\ driver' = "top" /\ cache' = cache
        /\ sched' = PopRequestStates(TheUpdated, TheFinished)
    BY <1>7, DeliverIs
  <2>2. sched.status[x] \in InProgress /\ x \notin TheFinished /\ x \notin sched'.finished
    BY <2>1, DeliverStates DEF InProgress
  <2>3. x \notin ro.finished
    BY <1>1, <2>1, <2>2, FinishedReported
  <2> QED BY <1>1, <2>1, <2>2, <2>3
<1>8. CASE \/ UNCHANGED vars \/ CloseBegin \/ CloseSignal
           \/ \E i \in Ids : Abort(i)
           \/ \E r \in Reqs : Client(r)
  <2>1. UNCHANGED <<sched, out, ro, cache, driver>>
    BY <1>8 DEF vars, driverVars, CloseBegin, CloseSignal, Abort, Client, Collect, EndStream
  <2> QED BY <1>1, <2>1
<1>9. ~CloseShutdown /\ ~Die /\ ~DriverDie
  BY DEF CloseShutdown, Die, DriverDie
<1> QED
  BY <1>2, <1>3, <1>4, <1>5, <1>6, <1>7, <1>8, <1>9 DEF Next, Driver

(* A batch without repetitions has nobody both new and cached. *)
LEMMA NewNotCached ==
  ASSUME out.new \in Seq(SchedIds), out.cached \in Seq(SchedIds), IsInjective(Scheduled(out)),
         NEW x \in Range(out.cached)
  PROVE  x \notin Range(out.new)
<1> DEFINE a == out.new
           b == out.cached
<1> SUFFICES ASSUME x \in Range(a) PROVE FALSE
  OBVIOUS
<1>1. /\ Len(a) \in Nat /\ Len(b) \in Nat /\ DOMAIN a = 1..Len(a) /\ DOMAIN b = 1..Len(b)
      /\ a \in Seq(SchedIds) /\ b \in Seq(SchedIds)
  BY LenProperties
<1>2. PICK i \in 1..Len(a), j \in 1..Len(b) : a[i] = x /\ b[j] = x
  BY <1>1 DEF Range
<1>3. /\ a \o b \in Seq(SchedIds) /\ Len(a \o b) = Len(a) + Len(b)
      /\ \A k \in 1..(Len(a) + Len(b)) : (a \o b)[k] = IF k <= Len(a) THEN a[k] ELSE b[k - Len(a)]
  BY <1>1, ConcatProperties
<1>4. DOMAIN (a \o b) = 1..(Len(a) + Len(b))
  BY <1>3, LenProperties
<1>5. IsInjective(a \o b)
  BY DEF Scheduled
<1> HIDE DEF a, b
<1>6. /\ i \in 1..(Len(a) + Len(b)) /\ i <= Len(a)
      /\ Len(a) + j \in 1..(Len(a) + Len(b)) /\ ~(Len(a) + j <= Len(a)) /\ (Len(a) + j) - Len(a) = j
  BY <1>1
<1>7. (a \o b)[i] = x /\ (a \o b)[Len(a) + j] = x
  BY <1>2, <1>3, <1>6
<1> QED BY <1>4, <1>5, <1>6, <1>7 DEF IsInjective

(* What is scheduled is what is cached, or not, as the scheduler thinks. *)
LEMMA PayloadsFit ==
  ASSUME SchedulingInvariant, TypeOK, CacheComplete, StepExecution, driver = "execute",
         closer # "closed"
  PROVE  PayloadFits
<1>1. /\ out.new \in Seq(SchedIds) /\ out.cached \in Seq(SchedIds)
      /\ Range(Scheduled(out)) = Range(out.new) \cup Range(out.cached)
  BY RangeConcatenation DEF TypeOK, SchedulerOutput, Scheduled
<1>2. \A x \in Range(Scheduled(out)) : x \in SchedIds /\ sched.status[x] = "RUNNING"
  BY RangeOfSeq DEF SchedulingInvariant, BatchIsRunning, SchedulerConsistent, SchedulerOK, StatusAgreesWithQueues
<1>3. \A x \in Range(Scheduled(out)) :
        \/ x \in Range(out.new) /\ (cache[x] = Absent \/ x \in out.finished)
        \/ cache[x] # Absent /\ x \notin out.finished \cup Range(out.new)
  BY <1>2 DEF CacheComplete, InProgress
<1>4. \A x \in Range(out.cached) : x \notin Range(out.new)
  BY <1>1, NewNotCached DEF SchedulingInvariant
<1> QED BY <1>1, <1>2, <1>3, <1>4 DEF PayloadFits, Dropped

-----------------------------------------------------------------------------
(* The steps of denoising a stream hears of. *)

(* What the runner returns is one step ahead of what the streams have      *)
(* heard.                                                                  *)
LEMMA ExecuteExact ==
  ASSUME SchedulingInvariant, TypeOK, WaitersMatch, RunnerAgrees, BearersMatch, CacheFollows,
         CacheComplete, StepsTaken, Execute
  PROVE  RunnerExact'
<1> SUFFICES ASSUME StepExecution
             PROVE  RunnerExact'
  BY DEF RunnerExact
<1>0. driver = "execute" /\ sched.finished = {} /\ SchedulerOK(sched) /\ sched \in Scheduler
      /\ UNCHANGED <<sched, out, streams, chan, closer>>
  BY DEF Execute, SchedulingInvariant, FinishesTaken, SchedulerConsistent, SchedulerOK, waiterVars
<1>1. CASE StepFailure
  <2>1. \A x \in SchedIds : ResultOf(ro', x) = "error"
    BY <1>1 DEF StepFailure, FailedBatch, NoRunnerOutput, ResultOf
  <2> QED BY <2>1 DEF RunnerExact
<1>2. ASSUME NEW silent, StepBatch(silent), PayloadFits, closer # "closed"
      PROVE  RunnerExact'
  <2> DEFINE batch == Range(Scheduled(out))
             done == [x \in batch |-> 1 + (IF Dropped[x] = Absent THEN 0 ELSE Dropped[x])]
             ended == {x \in batch : done[x] >= Steps[sched.req[x]]}
             emitting == {x \in batch : sched.req[x] \in Streaming /\ done[x] \in BlockEnds[sched.req[x]]}
             results == [x \in SchedIds |-> IF x \in ended \cup (emitting \ silent) THEN "audio" ELSE "none"]
             step == [x \in SchedIds |-> IF x \in batch THEN done[x] ELSE 0]
  <2>1. ro' = [req_id |-> Scheduled(out)[1], result |-> "none", results |-> results,
               batched |-> TRUE, finished |-> ended, step |-> step]
    BY <1>2 DEF StepBatch
  <2>2. /\ ro'.batched /\ ro'.result = "none" /\ ro'.results = results
        /\ ro'.finished = ended /\ ro'.step = step
    <3> HIDE DEF results, ended, step
    <3> QED BY <2>1
  <2>3. ASSUME NEW x \in batch
        PROVE  /\ x \in SchedIds /\ sched.status[x] = "RUNNING" /\ sched.req[x] \in Reqs
               /\ Dropped[x] = Absent \/ (Dropped[x] = cache[x] /\ cache[x] \in Nat
                                          /\ cache[x] < Steps[sched.req[x]])
               /\ done[x] \in Nat \ {0} /\ done[x] <= Steps[sched.req[x]]
               /\ Steps[sched.req[x]] \in Nat
               /\ streams[x] # NoReq => sched.req[x] = streams[x]
                                        /\ \A n \in AudioSteps(streams[x]) : n < done[x]
    <3>1. x \in SchedIds /\ sched.status[x] = "RUNNING" /\ sched.req[x] \in Reqs
      BY <1>0, <1>2, RangeOfSeq, SchedulerFields DEF SchedulingInvariant, BatchIsRunning, SchedulerOK,
         StatusAgreesWithQueues, StatesHaveRequests
    <3>2. Steps[sched.req[x]] \in Nat \ {0}
      BY <3>1, EngineAssumption
    <3>3. Dropped[x] # Absent => /\ Dropped[x] = cache[x] /\ cache[x] \in Nat
                                 /\ x \notin out.finished /\ cache[x] < Steps[sched.req[x]]
      BY <1>0, <1>2, <3>1 DEF Dropped, CacheFollows, TypeOK
    <3>4. done[x] = IF Dropped[x] = Absent THEN 1 ELSE 1 + cache[x]
      BY <3>3
    <3>5. done[x] \in Nat \ {0} /\ done[x] <= Steps[sched.req[x]]
      BY <3>2, <3>3, <3>4
    <3>6. ASSUME streams[x] # NoReq
          PROVE  sched.req[x] = streams[x] /\ \A n \in AudioSteps(streams[x]) : n < done[x]
      <4>1. sched.req[x] = streams[x]
        BY <1>2, <3>1, <3>6 DEF BearersMatch
      <4>2. CASE x \in Range(out.new)
        BY <1>0, <1>2, <3>1, <3>6, <4>1, <4>2 DEF StepsTaken
      <4>3. CASE x \notin Range(out.new)
        <5>1. x \in Range(out.cached)
          BY <4>3, RangeConcatenation DEF TypeOK, SchedulerOutput, Scheduled
        <5>2. done[x] = 1 + cache[x] /\ cache[x] \in Nat
          BY <1>2, <3>3, <3>4, <5>1 DEF PayloadFits
        <5>3. \A n \in AudioSteps(streams[x]) : n <= cache[x]
          BY <1>0, <1>2, <3>1, <3>6 DEF StepsTaken, InProgress
        <5>4. \A n \in AudioSteps(streams[x]) : n \in Nat
          <6>1. streams[x] \in Reqs
            BY <3>1, <3>6 DEF TypeOK
          <6>2. \A k \in DOMAIN chan[streams[x]] : chan[streams[x]][k] \in Items
            BY <6>1, ElementOfSeq, LenProperties DEF TypeOK
          <6> QED BY <6>2 DEF AudioSteps, Items
        <5> QED BY <4>1, <5>2, <5>3, <5>4
      <4> QED BY <4>2, <4>3
    <3> QED BY <3>1, <3>2, <3>3, <3>5, <3>6
  <2>4. \A x \in batch : step[x] = done[x] /\ results[x] # "error" /\ (x \in ended => results[x] = "audio")
    BY <2>3
  <2>5. ASSUME NEW x \in batch, x \notin ended
        PROVE  cache'[x] = step[x]
    <3>1. cache'[x] = IF x \in ended THEN Absent ELSE IF x \in batch THEN done[x] ELSE Dropped[x]
      BY <1>2, <2>3 DEF StepBatch
    <3> QED BY <2>4, <2>5, <3>1
  <2>6. ASSUME NEW x \in ended
        PROVE  /\ step[x] = Steps[sched.req[x]]
               /\ DistinctIds => \A r \in Reqs : RequestIds[r][1] = x[1] => step[x] = Steps[r]
    <3>1. x \in batch /\ step[x] = Steps[sched.req[x]] /\ x \in SchedIds /\ sched.req[x] \in Reqs
      BY <2>3, <2>4
    <3>2. RequestIds[sched.req[x]][1] = x[1]
      BY <3>1, SchedulerAssumption DEF BearersMatch
    <3> QED BY <3>1, <3>2 DEF DistinctIds
  <2>7. \A x \in Range(Scheduled(out)) : ro'.step[x] # 0
    BY <2>2, <2>3, <2>4
  <2> HIDE DEF batch, done, ended, emitting, results, step
  <2>8. \A x \in batch :
          /\ ro'.step[x] # 0 /\ ro'.results[x] # "error"
          /\ x \notin ro'.finished => cache'[x] = ro'.step[x]
          /\ streams[x] # NoReq => \A n \in AudioSteps(streams[x]) : n < ro'.step[x]
          /\ x \in ro'.finished =>
               /\ ro'.results[x] = "audio"
               /\ DistinctIds => \A r \in Reqs : RequestIds[r][1] = x[1] => ro'.step[x] = Steps[r]
               /\ streams[x] # NoReq => ro'.step[x] = Steps[streams[x]]
    BY <2>2, <2>3, <2>4, <2>5, <2>6, <2>7 DEF batch
  <2>9. \A r : AudioSteps(r)' = AudioSteps(r)
    BY <1>0 DEF AudioSteps
  <2> QED BY <1>0, <2>2, <2>8, <2>9 DEF RunnerExact, batch
<1> QED BY <1>1, <1>2 DEF Execute, ExecuteStep

(* Who submits has heard nothing. *)
LEMMA SubmitterHeardNothing ==
  ASSUME TypeOK, WaitersMatch, NEW r \in Reqs, client[r] = "idle"
  PROVE  chan[r] = <<>> /\ AudioSteps(r) = {}
<1>1. chan[r] = <<>>
  BY DEF WaitersMatch
<1> QED BY <1>1 DEF AudioSteps

(* Every step keeps what the runner returned ahead of the streams.         *)
LEMMA StepRunnerExact ==
  ASSUME SchedulingInvariant, TypeOK, WaitersMatch, RunnerAgrees, BearersMatch, CacheFollows,
         CacheComplete, StepsTaken, RunnerExact, [Next]_vars
  PROVE  RunnerExact'
<1> SUFFICES ASSUME StepExecution, driver' = "deliver"
             PROVE  RunnerExact'
  BY DEF RunnerExact
<1>1. CASE /\ UNCHANGED <<driver, out, ro, cache>>
           /\ closer' # "closed" => closer # "closed"
           /\ \A x \in Range(Scheduled(out)) : \A q : streams'[x] = q /\ q # NoReq =>
                \/ streams[x] = q /\ AudioSteps(q)' \subseteq AudioSteps(q)
                \/ closer' = "closed" /\ AudioSteps(q)' = {}
  BY <1>1 DEF RunnerExact
<1>2. ASSUME NEW r \in Reqs, Submit(r)
      PROVE  RunnerExact'
  <2>1. PICK y \in SchedIds :
          /\ IsSchedReqId(sched, r, y)
          /\ streams' = streams \/ streams' = [streams EXCEPT ![y] = r]
    BY <1>2 DEF Submit
  <2>2. UNCHANGED <<driver, out, ro, cache, closer, chan>> /\ client[r] = "idle"
    BY <1>2 DEF Submit
  <2>3. \A q : AudioSteps(q)' = AudioSteps(q)
    BY <2>2 DEF AudioSteps
  <2>4. AudioSteps(r) = {}
    BY <2>2, SubmitterHeardNothing
  <2>5. closer # "closed" => y \notin Range(Scheduled(out))
    BY <2>1, <2>2 DEF SchedulingInvariant, BatchIsRunning, SchedulerConsistent, SchedulerOK,
       StatusAgreesWithQueues, IsSchedReqId
  <2>6. ASSUME NEW x \in Range(Scheduled(out))
        PROVE  \/ streams'[x] = streams[x]
               \/ closer' = "closed" /\ streams'[x] = r
    <3>1. x \in SchedIds
      BY RangeOfSeq DEF SchedulingInvariant
    <3> QED BY <2>1, <2>2, <2>5, <3>1 DEF TypeOK
  <2>7. \A x \in Range(Scheduled(out)) : \A q : streams'[x] = q /\ q # NoReq =>
          \/ streams[x] = q /\ AudioSteps(q)' \subseteq AudioSteps(q)
          \/ closer' = "closed" /\ AudioSteps(q)' = {}
    BY <2>3, <2>4, <2>6
  <2> QED BY <1>1, <2>2, <2>7
<1>3. CASE Execute
  BY <1>3, ExecuteExact
<1>4. CASE CloseSignal
  <2>1. UNCHANGED <<driver, out, ro, cache>> /\ closer # "closed" /\ SignalEngineDead
    BY <1>4 DEF CloseSignal, driverVars
  <2>2. \A x \in Range(Scheduled(out)) : streams'[x] = NoReq
    BY <2>1, RangeOfSeq DEF SignalEngineDead, SchedulingInvariant
  <2> QED BY <1>1, <2>1, <2>2
<1>5. CASE \/ UNCHANGED vars \/ CloseBegin \/ CloseShutdown
           \/ \E i \in Ids : Abort(i)
           \/ \E r \in Reqs : Client(r)
  <2>1. /\ UNCHANGED <<driver, out, ro, cache, chan>>
        /\ closer' # "closed" => closer # "closed"
    BY <1>5 DEF vars, driverVars, waiterVars, CloseBegin, CloseShutdown, Abort, Client, Collect, EndStream
  <2>2. \A x \in SchedIds : streams'[x] \in {streams[x], NoReq}
    BY <1>5 DEF vars, waiterVars, CloseBegin, CloseShutdown, Abort, Client, Collect, EndStream, TypeOK
  <2>3. \A q : AudioSteps(q)' = AudioSteps(q)
    BY <2>1 DEF AudioSteps
  <2>4. \A x \in Range(Scheduled(out)) : streams'[x] \in {streams[x], NoReq}
    BY <2>2, RangeOfSeq DEF SchedulingInvariant
  <2> QED BY <1>1, <2>1, <2>3, <2>4
<1>6. ~DriverTop /\ ~DriverSchedule /\ ~Surface /\ ~Deliver /\ ~DriverDie /\ ~Die
  BY DEF DriverTop, DriverSchedule, Surface, Deliver, DriverDie, Die
<1> QED
  BY <1>2, <1>3, <1>4, <1>5, <1>6 DEF Next, Driver

(* An item of a concatenation is an item of one of the two lists.          *)
LEMMA ItemOfConcat ==
  ASSUME NEW c \in Seq(Items), NEW e \in Seq(Items), NEW k \in DOMAIN (c \o e)
  PROVE  \/ k \in DOMAIN c /\ (c \o e)[k] = c[k]
         \/ k - Len(c) \in DOMAIN e /\ (c \o e)[k] = e[k - Len(c)]
<1>1. Len(c) \in Nat /\ Len(e) \in Nat /\ DOMAIN c = 1..Len(c) /\ DOMAIN e = 1..Len(e)
  BY LenProperties
<1>2. c \o e \in Seq(Items) /\ Len(c \o e) = Len(c) + Len(e)
      /\ \A i \in 1..(Len(c) + Len(e)) : (c \o e)[i] = IF i <= Len(c) THEN c[i] ELSE e[i - Len(c)]
  BY ConcatProperties
<1>3. k \in 1..(Len(c) + Len(e))
  BY <1>2, LenProperties
<1> HIDE DEF Items
<1>4. CASE k <= Len(c)
  BY <1>1, <1>2, <1>3, <1>4
<1>5. CASE ~(k <= Len(c))
  BY <1>1, <1>2, <1>3, <1>5
<1> QED BY <1>4, <1>5

(* What a stream carries after a delivery was there before, or is its chunk*)
(* or its end.                                                             *)
LEMMA DeliveredItems ==
  ASSUME SchedulingInvariant, TypeOK, WaitersMatch, RunnerAgrees, Deliver, NEW r \in Reqs,
         NEW k \in DOMAIN chan'[r]
  PROVE  \/ k \in DOMAIN chan[r] /\ chan'[r][k] = chan[r][k]
         \/ \E j \in DOMAIN TheChunk(r) : chan'[r][k] = TheChunk(r)[j]
         \/ \E j \in DOMAIN TheEnd(r) : chan'[r][k] = TheEnd(r)[j]
<1> DEFINE c == TheChunk(r)
           d == TheEnd(r)
<1>1. /\ chan'[r] = (chan[r] \o c) \o d
      /\ chan[r] \in Seq(Items) /\ c \in Seq(Items) /\ d \in Seq(Items)
  BY DeliverIs, DeliverSays DEF TypeOK
<1> HIDE DEF c, d
<1>2. chan[r] \o c \in Seq(Items)
  BY <1>1, ConcatProperties
<1>3. CASE k \in DOMAIN (chan[r] \o c) /\ chan'[r][k] = (chan[r] \o c)[k]
  BY <1>1, <1>3, ItemOfConcat DEF c
<1>4. CASE k - Len(chan[r] \o c) \in DOMAIN d /\ chan'[r][k] = d[k - Len(chan[r] \o c)]
  BY <1>4 DEF d
<1> QED BY <1>1, <1>2, <1>3, <1>4, ItemOfConcat

(* The chunk a delivery has for r is what the runner gave its request; it  *)
(* has one only as a member of the batch, under its stream.                *)
LEMMA ChunkSays ==
  ASSUME SchedulingInvariant, TypeOK, WaitersMatch, RunnerAgrees, driver = "deliver",
         NEW r \in Reqs, NEW j \in DOMAIN TheChunk(r)
  PROVE  /\ sid[r] \in ThePublished /\ sid[r] \in Range(Scheduled(out)) /\ streams[sid[r]] = r
         /\ TheChunk(r)[j].kind = ResultOf(ro, sid[r]) /\ TheChunk(r)[j].step = ro.step[sid[r]]
         /\ TheChunk(r)[j].final => sid[r] \in ro.finished
         /\ j = 1 /\ TheChunk(r) = <<TheChunk(r)[1]>>
<1>1. \A x \in ThePublished : x \in SchedIds /\ x \in Range(Scheduled(out))
  BY RangeOfSeq DEF ThePublished, StreamsOf, TheProduced, RunnerAgrees, RunnerOutput
<1>2. \E x \in ThePublished : streams[x] = r
  BY DEF TheChunk
<1>3. sid[r] \in ThePublished /\ streams[sid[r]] = r
  BY <1>1, <1>2, RegisteredUnderOwnId
<1> DEFINE item == Item(ResultOf(ro, sid[r]), ro.step[sid[r]], sid[r] \in TheFinals)
<1>4. TheChunk(r) = <<item>>
  BY <1>2 DEF TheChunk
<1>5. item.kind = ResultOf(ro, sid[r]) /\ item.step = ro.step[sid[r]]
  BY Zenon DEF Item
<1>6. item.final <=> sid[r] \in TheFinals
  BY Zenon DEF Item
<1> HIDE DEF item
<1>7. j = 1 /\ TheChunk(r)[j] = item
  BY <1>4
<1> QED BY <1>1, <1>3, <1>4, <1>5, <1>6, <1>7 DEF TheFinals

(* A stream that ends without its last chunk ends with another outcome.    *)
LEMMA EndsQuietly ==
  ASSUME SchedulingInvariant, TypeOK, WaitersMatch, RunnerAgrees, RunnerExact, StepExecution,
         driver = "deliver", NEW r \in Reqs, NEW j \in DOMAIN TheEnd(r)
  PROVE  /\ TheEnd(r)[j].kind # "audio" /\ TheEnd(r)[j].final
         /\ sid[r] \in TheFinished /\ streams[sid[r]] = r
         /\ TheEnd(r)[j].kind \in Kinds
<1> DEFINE x == sid[r]
<1>1. /\ Scheduled(out) \in Seq(SchedIds) /\ IsInjective(Scheduled(out)) /\ SchedulerOK(TheAborted)
      /\ TheFinished \subseteq SchedIds /\ TheFinished \subseteq Range(Scheduled(out))
      /\ sched.finished = {}
      /\ \A y \in TheFinished : TheUpdated.status[y] \in Finished
      /\ ro \in RunnerOutput
  BY DeliverSchedulers DEF SchedulingInvariant, FinishesTaken, RunnerAgrees
<1>2. \E y \in TheFinished \ TheFinals : streams[y] = r
  BY DEF TheEnd
<1>3. x \in TheFinished /\ x \notin TheFinals /\ streams[x] = r /\ x \in SchedIds /\ r # NoReq
  BY <1>1, <1>2, RegisteredUnderOwnId, SchedulerAssumption
<1>4. TheEnd(r) = <<Final(TheKind[x])>>
  BY <1>2 DEF TheEnd
<1>5. TheEnd(r)[j].kind = TheKind[x] /\ TheEnd(r)[j].final
  BY <1>4 DEF Final, Item
<1>6. TheKind[x] \in Kinds
  BY <1>1, <1>3 DEF TheKind, Kinds, ResultOf, RunnerOutput, RunnerResult
<1>7. TheKind[x] # "audio"
  <2> SUFFICES ASSUME TheUpdated.status[x] # "ABORTED", ResultOf(ro, x) = "audio"
               PROVE  FALSE
    BY <1>3 DEF TheKind
  <2>1. /\ ro.batched /\ ro.results[x] = "audio" /\ ro.step[x] # 0
    BY <1>1, <1>3 DEF RunnerExact, ResultOf
  <2>2. ~Failed(ro, x)
    BY <2>1 DEF Failed, ResultOf
  <2>3. LET live == x \in Live(TheAborted, Range(Scheduled(out)))
        IN  /\ live /\ Completed(ro, x) => TheUpdated.status[x] = "COMPLETED"
            /\ ~live => \/ TheUpdated.status[x] = TheAborted.status[x]
                        \/ TheAborted.status[x] = "RUNNING"
            /\ x \in TheAborted.finished \/ (live /\ Completed(ro, x))
    BY <1>1, <1>3, <2>2, UpdateFromOutputFields DEF TheUpdated, TheFinished
  <2>4. x \in TheAborted.finished => TheAborted.status[x] = "ABORTED"
    BY <1>1, <1>3, AbortedStates DEF TheAborted
  <2>5. x \notin TheAborted.finished
    <3> SUFFICES ASSUME x \in TheAborted.finished PROVE FALSE
      OBVIOUS
    <3>1. x \notin Live(TheAborted, Range(Scheduled(out))) /\ TheAborted.status[x] = "ABORTED"
      BY <2>4 DEF Live, Queued
    <3> QED BY <2>3, <3>1
  <2>6. Completed(ro, x) /\ TheUpdated.status[x] = "COMPLETED"
    BY <2>3, <2>5
  <2>7. x \in TheProduced /\ x \in ThePublished
    BY <1>3, <2>1, <2>6 DEF TheProduced, ThePublished, StreamsOf
  <2>8. x \in ro.finished
    BY <2>6 DEF Completed
  <2> QED BY <1>3, <2>7, <2>8 DEF TheFinals
<1> QED BY <1>3, <1>5, <1>6, <1>7

(* What a stream has heard are step numbers. *)
LEMMA HeardSteps ==
  ASSUME TypeOK, NEW r \in Reqs
  PROVE  \A n \in AudioSteps(r) : n \in Nat
<1>1. \A k \in DOMAIN chan[r] : chan[r][k] \in Items
  BY ElementOfSeq, LenProperties DEF TypeOK
<1> QED BY <1>1 DEF AudioSteps, Items

(* Every step keeps the streams behind the worker.                         *)
LEMMA StepStepsTaken ==
  ASSUME SchedulingInvariant, TypeOK, WaitersMatch, RunnerAgrees, BearersMatch, CacheFollows,
         CacheComplete, StepsTaken, RunnerExact, RunnerExact', [Next]_vars
  PROVE  StepsTaken'
<1> SUFFICES ASSUME StepExecution, closer' # "closed", NEW x \in SchedIds, NEW r, r # NoReq, streams'[x] = r
             PROVE  /\ sched'.status[x] = "WAITING" \/ (driver' = "execute" /\ x \in Range(out'.new)) =>
                         AudioSteps(r)' = {}
                    /\ sched'.status[x] \in InProgress /\ ~(driver' = "deliver" /\ x \in ro'.finished) =>
                         \A n \in AudioSteps(r)' : n <= cache'[x]
  BY DEF StepsTaken
<1> DEFINE Goal == /\ sched'.status[x] = "WAITING" \/ (driver' = "execute" /\ x \in Range(out'.new)) =>
                        AudioSteps(r)' = {}
                   /\ sched'.status[x] \in InProgress /\ ~(driver' = "deliver" /\ x \in ro'.finished) =>
                        \A n \in AudioSteps(r)' : n <= cache'[x]
<1> SUFFICES Goal
  OBVIOUS
<1>0. SchedulerOK(sched) /\ sched \in Scheduler /\ closer # "closed"
  BY DEF SchedulingInvariant, SchedulerConsistent, SchedulerOK, Next, Driver, Client, vars, DriverTop,
     DriverSchedule, Surface, Execute, Deliver, DriverDie, Die, Submit, Collect, EndStream, Abort,
     CloseBegin, CloseSignal, CloseShutdown
<1>1. streams[x] = r =>
        /\ sched.status[x] = "WAITING" \/ (driver = "execute" /\ x \in Range(out.new)) =>
             AudioSteps(r) = {}
        /\ sched.status[x] \in InProgress /\ ~(driver = "deliver" /\ x \in ro.finished) =>
             \A n \in AudioSteps(r) : n <= cache[x]
  BY <1>0 DEF StepsTaken
<1>2. chan' = chan => AudioSteps(r)' = AudioSteps(r)
  BY DEF AudioSteps
<1>3. ASSUME NEW q \in Reqs, Submit(q)
      PROVE  Goal
  <2>1. PICK y \in SchedIds :
          /\ IsSchedReqId(sched, q, y) /\ sched' = AddRequest(sched, q, y)
          /\ streams' = streams \/ streams' = [streams EXCEPT ![y] = q]
    BY <1>3 DEF Submit
  <2>2. /\ client[q] = "idle" /\ UNCHANGED <<out, ro, cache, chan>>
        /\ driver' = driver \/ (driver = "off" /\ driver' = "top")
    BY <1>3 DEF Submit
  <2>3. sched'.status[x] = IF x = y THEN "WAITING" ELSE sched.status[x]
    BY <1>0, <2>1, AddRequestStatus
  <2>4. CASE x = y
    <3>1. sched.req[x] = NoReq
      BY <1>0, <2>1, <2>4 DEF IsSchedReqId, SchedulerOK, StatesHaveRequests
    <3>2. streams[x] = NoReq
      BY <1>0, <3>1 DEF BearersMatch
    <3>3. r = q
      BY <2>1, <2>4, <3>2 DEF TypeOK
    <3>4. AudioSteps(r)' = {}
      BY <1>2, <2>2, <3>3, SubmitterHeardNothing
    <3> QED BY <3>4
  <2>5. CASE x # y
    <3>1. streams[x] = r
      BY <2>1, <2>5 DEF TypeOK
    <3> QED BY <1>1, <1>2, <2>2, <2>3, <2>5, <3>1
  <2> QED BY <2>4, <2>5
<1>4. CASE DriverTop
  <2>1. UNCHANGED <<chan, cache, streams>> /\ driver = "top" /\ driver' \in {"schedule", "stopped"}
        /\ sched' \in {sched, Aborted(sched)}
    BY <1>4 DEF DriverTop, waiterVars
  <2>2. sched'.status[x] \in {sched.status[x], "ABORTED"}
    BY <2>1, AbortedStates
  <2> QED BY <1>1, <1>2, <2>1, <2>2 DEF InProgress
<1>5. CASE DriverSchedule
  <2>1. UNCHANGED <<chan, cache, streams>> /\ driver = "schedule"
    BY <1>5 DEF DriverSchedule, waiterVars
  <2>2. CASE sched' = sched /\ driver' = "top"
    BY <1>1, <1>2, <2>1, <2>2
  <2>3. CASE ~(sched' = sched /\ driver' = "top")
    <3>1. /\ out' = Output(sched) /\ sched' = AfterSchedule(sched)
          /\ driver' = IF Scheduled(out') = <<>> THEN "surface" ELSE "execute"
      BY <1>5, <2>3 DEF DriverSchedule
    <3>2. \/ sched'.status[x] = sched.status[x] /\ x \notin Range(out'.new)
          \/ /\ sched'.status[x] = "RUNNING"
             /\ \/ sched.status[x] = "WAITING"
                \/ sched.status[x] = "PREEMPTED" /\ x \notin Range(out'.new)
      BY <1>0, <3>1, ScheduleStates
    <3> QED BY <1>1, <1>2, <2>1, <3>2 DEF InProgress
  <2> QED BY <2>2, <2>3
<1>6. CASE Surface
  <2>1. driver = "surface" /\ driver' = "top" /\ cache' = cache
    BY <1>6 DEF Surface
  <2> QED BY <1>1, <1>2, <1>6, <2>1, SurfaceNothing
<1>7. CASE Execute
  <2>1. /\ driver = "execute" /\ driver' = "deliver" /\ sched.finished = {}
        /\ UNCHANGED <<sched, out, chan, streams, closer>>
    BY <1>7 DEF Execute, SchedulingInvariant, FinishesTaken, waiterVars
  <2>2. SUFFICES ASSUME sched.status[x] \in InProgress, x \notin ro'.finished
                 PROVE  \A n \in AudioSteps(r) : n <= cache'[x]
    BY <1>1, <1>2, <2>1
  <2>3. ro'.finished # Range(Scheduled(out)) \/ x \notin Range(Scheduled(out))
    BY <2>2
  <2>4. CASE x \in Range(Scheduled(out))
    <3>1. /\ \A n \in AudioSteps(r)' : n < ro'.step[x]
          /\ cache'[x] = ro'.step[x]
      <4>1. ~ \A y \in SchedIds : ResultOf(ro', y) = "error"
        <5>1. ~StepFailure
          BY <2>3, <2>4 DEF StepFailure, FailedBatch, NoRunnerOutput
        <5>2. PICK silent : StepBatch(silent)
          BY <1>7, <5>1 DEF Execute, ExecuteStep
        <5>3. ro'.result = "none" /\ \A y \in SchedIds : ro'.results[y] # "error"
          BY <5>2 DEF StepBatch
        <5> QED BY <5>3 DEF ResultOf
      <4> QED BY <2>1, <2>2, <2>4, <4>1 DEF RunnerExact
    <3>2. \A n \in AudioSteps(r) : n \in Int
      BY HeardSteps, <2>1 DEF TypeOK
    <3>3. ro'.step[x] \in Int
      BY <1>7, ExecuteOutput DEF RunnerOutput
    <3> QED BY <1>2, <2>1, <3>1, <3>2, <3>3
  <2>5. CASE x \notin Range(Scheduled(out))
    <3>1. x \notin Range(out.new)
      BY <2>5, RangeConcatenation DEF TypeOK, SchedulerOutput, Scheduled
    <3>2. x \notin out.finished
      BY <1>0, <2>1, <2>2, <3>1 DEF CacheComplete
    <3>3. cache'[x] = cache[x]
      BY <1>0, <1>7, <2>5, <3>2, ExecuteCache DEF Dropped
    <3> QED BY <1>1, <2>1, <2>2, <3>3
  <2> QED BY <2>4, <2>5
<1>8. CASE Deliver
  <2>1. /\ driver = "deliver" /\ driver' = "top" /\ cache' = cache
        /\ sched' = PopRequestStates(TheUpdated, TheFinished)
        /\ streams' = ForgetStreams(TheFinished)
    BY <1>8, DeliverIs
  <2>2. streams[x] = r /\ x \notin TheFinished /\ r \in Reqs
    BY <2>1 DEF ForgetStreams, TypeOK
  <2>3. sid[r] = x
    BY <2>2, RegisteredUnderOwnId
  <2>4. /\ sched'.status[x] = "WAITING" => sched.status[x] = "WAITING"
        /\ sched'.status[x] \in InProgress => sched.status[x] \in InProgress
    BY <2>1, <2>2, DeliverStates DEF InProgress
  <2>5. x \notin ro.finished
    BY <1>0, <2>1, <2>2, FinishedReported
  <2>6. ASSUME NEW n \in AudioSteps(r)', n \notin AudioSteps(r)
        PROVE  x \in Range(Scheduled(out)) /\ n <= cache[x]
    <3>1. PICK k \in DOMAIN chan'[r] : chan'[r][k].kind = "audio" /\ chan'[r][k].step = n
      BY <2>6 DEF AudioSteps
    <3>2. ~(k \in DOMAIN chan[r] /\ chan'[r][k] = chan[r][k])
      BY <2>6, <3>1 DEF AudioSteps
    <3>3. \A j \in DOMAIN TheEnd(r) : TheEnd(r)[j].kind # "audio"
      BY <2>1, <2>2, EndsQuietly
    <3>4. PICK j \in DOMAIN TheChunk(r) : chan'[r][k] = TheChunk(r)[j]
      BY <1>8, <2>2, <3>1, <3>2, <3>3, DeliveredItems
    <3>5. /\ x \in Range(Scheduled(out)) /\ ResultOf(ro, x) = "audio" /\ n = ro.step[x]
      BY <2>1, <2>2, <2>3, <3>1, <3>4, ChunkSays
    <3>6. cache[x] = ro.step[x]
      BY <1>0, <2>1, <2>5, <3>5 DEF RunnerExact
    <3>7. ro.step[x] \in Nat
      BY <2>1 DEF RunnerAgrees, RunnerOutput
    <3> QED BY <3>5, <3>6, <3>7
  <2>7. x \in Range(Scheduled(out)) => sched.status[x] = "RUNNING"
    BY <1>0, <2>1 DEF SchedulingInvariant, BatchIsRunning, SchedulerOK, StatusAgreesWithQueues
  <2>8. sched'.status[x] = "WAITING" => AudioSteps(r)' = {}
    BY <1>1, <2>2, <2>4, <2>6, <2>7
  <2>9. sched'.status[x] \in InProgress => \A n \in AudioSteps(r)' : n <= cache'[x]
    BY <1>1, <2>1, <2>2, <2>4, <2>5, <2>6
  <2> QED BY <2>1, <2>8, <2>9
<1>9. CASE DriverDie \/ CloseSignal
  <2>1. streams'[x] = NoReq
    BY <1>9 DEF DriverDie, CloseSignal, SignalEngineDead
  <2> QED BY <2>1
<1>10. CASE \/ UNCHANGED vars \/ Die \/ CloseBegin
            \/ \E i \in Ids : Abort(i)
            \/ \E q \in Reqs : Client(q)
  <2>1. UNCHANGED <<sched, out, ro, cache, chan>> /\ (driver' = driver \/ driver' = "dying")
    BY <1>10 DEF vars, driverVars, waiterVars, Die, CloseBegin, Abort, Client, Collect, EndStream
  <2>2. streams[x] = r
    BY <1>10 DEF vars, waiterVars, Die, CloseBegin, Abort, Client, Collect, EndStream, TypeOK
  <2>3. driver' = "dying" => driver = "execute" \/ driver = "dying"
    BY <1>10 DEF vars, driverVars, Die, CloseBegin, Abort, Client, Collect, EndStream
  <2> QED BY <1>1, <1>2, <2>1, <2>2, <2>3
<1>11. ~CloseShutdown
  BY DEF CloseShutdown
<1> QED
  BY <1>3, <1>4, <1>5, <1>6, <1>7, <1>8, <1>9, <1>10, <1>11 DEF Next, Driver

(* Every step keeps the audio that ends a stream that of the last step.    *)
LEMMA StepChunksExact ==
  ASSUME SchedulingInvariant, TypeOK, WaitersMatch, RunnerAgrees, RunnerExact, ChunksExact,
         [Next]_vars
  PROVE  ChunksExact'
<1> SUFFICES ASSUME StepExecution, closer' # "closed" \/ DistinctIds, NEW r \in Reqs,
                    NEW k \in DOMAIN chan'[r], chan'[r][k].final, chan'[r][k].kind = "audio"
             PROVE  chan'[r][k].step = Steps[r]
  BY DEF ChunksExact
<1>1. closer # "closed" \/ DistinctIds
  BY DEF Next, Driver, Client, vars, DriverTop, DriverSchedule, Surface, Execute, Deliver, DriverDie,
     Die, Submit, Collect, EndStream, Abort, CloseBegin, CloseSignal, CloseShutdown
<1>2. CASE k \in DOMAIN chan[r] /\ chan'[r][k] = chan[r][k]
  BY <1>1, <1>2 DEF ChunksExact
<1>3. CASE Deliver
  <2>1. driver = "deliver"
    BY <1>3, DeliverIs
  <2>2. \A j \in DOMAIN TheEnd(r) : TheEnd(r)[j].kind # "audio"
    BY <2>1, EndsQuietly
  <2>3. ASSUME NEW j \in DOMAIN TheChunk(r), chan'[r][k] = TheChunk(r)[j]
        PROVE  chan'[r][k].step = Steps[r]
    <3>1. /\ sid[r] \in Range(Scheduled(out)) /\ streams[sid[r]] = r /\ ResultOf(ro, sid[r]) = "audio"
          /\ chan'[r][k].step = ro.step[sid[r]] /\ sid[r] \in ro.finished
      BY <2>1, <2>3, ChunkSays
    <3>2. sid[r] \in SchedIds /\ sid[r] # NoSched
      BY <3>1, RangeOfSeq, SchedulerAssumption DEF SchedulingInvariant
    <3>3. sid[r][1] = RequestIds[r][1] /\ r # NoReq
      BY <3>2, SchedulerAssumption DEF WaitersMatch
    <3> QED BY <1>1, <2>1, <3>1, <3>2, <3>3 DEF RunnerExact
  <2> QED BY <1>2, <1>3, <2>2, <2>3, DeliveredItems
<1>4. CASE Surface
  BY <1>2, <1>4, SurfaceNothing
<1>5. CASE DriverDie \/ CloseSignal
  <2>1. chan'[r] = chan[r] \/ chan'[r] = Append(chan[r], Final("dead"))
    BY <1>5 DEF DriverDie, CloseSignal, SignalEngineDead
  <2>2. chan[r] \in Seq(Items) /\ Final("dead") \in Items /\ Final("dead").kind # "audio"
    BY DEF TypeOK, Final, Item, Items, Kinds
  <2>3. CASE chan'[r] = Append(chan[r], Final("dead"))
    <3> DEFINE last == Final("dead")
    <3>1. last \in Items /\ last.kind # "audio"
      BY <2>2
    <3> HIDE DEF last
    <3>2. /\ Len(chan'[r]) = Len(chan[r]) + 1 /\ chan'[r] \in Seq(Items)
          /\ \A i \in 1..Len(chan[r]) : chan'[r][i] = chan[r][i]
          /\ chan'[r][Len(chan[r]) + 1] = last
      BY <2>2, <2>3, <3>1, AppendProperties DEF last
    <3>3. /\ Len(chan[r]) \in Nat /\ DOMAIN chan[r] = 1..Len(chan[r])
          /\ DOMAIN chan'[r] = 1..Len(chan'[r])
      BY <2>2, <3>2, LenProperties
    <3>4. k # Len(chan[r]) + 1
      BY <3>1, <3>2
    <3>5. k \in 1..Len(chan[r])
      BY <3>2, <3>3, <3>4
    <3> QED BY <1>2, <3>2, <3>3, <3>5
  <2> QED BY <1>2, <2>1, <2>3
<1>6. CASE ~Deliver /\ ~Surface /\ ~DriverDie /\ ~CloseSignal
  <2>1. chan' = chan
    BY <1>6 DEF Next, Driver, Client, vars, waiterVars, DriverTop, DriverSchedule, Execute, Die,
       Submit, Collect, EndStream, Abort, CloseBegin, CloseShutdown
  <2> QED BY <1>2, <2>1
<1> QED BY <1>3, <1>4, <1>5, <1>6

-----------------------------------------------------------------------------
(* The theorems. *)

(* Nothing is cached, nothing was returned and nothing was heard.          *)
LEMMA InitAudio == Init => AudioInvariant
<1> SUFFICES ASSUME Init PROVE AudioInvariant
  OBVIOUS
<1>1. BearersMatch /\ CacheFollows /\ CacheComplete
  BY DEF Init, EmptyScheduler, BearersMatch, CacheFollows, CacheComplete, InProgress
<1>2. RunnerExact /\ StepsTaken /\ ChunksExact
  BY DEF Init, RunnerExact, StepsTaken, ChunksExact
<1> QED BY <1>1, <1>2 DEF AudioInvariant

(* Every step keeps the audio invariant.                                   *)
LEMMA StepAudio ==
  /\ SchedulingInvariant /\ SchedulingInvariant' /\ ClientsInvariant /\ AudioInvariant /\ [Next]_vars
  => AudioInvariant'
<1> SUFFICES ASSUME SchedulingInvariant, SchedulingInvariant', ClientsInvariant, AudioInvariant,
                    [Next]_vars
             PROVE  AudioInvariant'
  OBVIOUS
<1>1. /\ TypeOK /\ WaitersMatch /\ RunnerAgrees
      /\ BearersMatch /\ CacheFollows /\ CacheComplete /\ RunnerExact /\ StepsTaken /\ ChunksExact
  BY DEF ClientsInvariant, AudioInvariant
<1>2. BearersMatch' /\ CacheFollows' /\ CacheComplete' /\ ChunksExact'
  BY <1>1, StepBearersMatch, StepCacheFollows, StepCacheComplete, StepChunksExact
<1>3. RunnerExact'
  BY <1>1, StepRunnerExact
<1>4. StepsTaken'
  BY <1>1, <1>3, StepStepsTaken
<1> QED BY <1>2, <1>3, <1>4 DEF AudioInvariant

(* In every state of every engine the scheduler's books, the batch, the    *)
(* waiters, the worker's cache and what the streams have heard agree.      *)
THEOREM EngineInvariantHolds == Spec => []EngineInvariant
<1>1. Init => AudioInvariant
  BY InitAudio
<1>2. /\ SchedulingInvariant /\ SchedulingInvariant' /\ ClientsInvariant /\ AudioInvariant /\ [Next]_vars
      => AudioInvariant'
  BY StepAudio
<1>3. Spec => []SchedulingInvariant /\ []ClientsInvariant
  BY SchedulingInvariantHolds, ClientsInvariantHolds
<1>4. SchedulingInvariant /\ ClientsInvariant /\ AudioInvariant => EngineInvariant
  BY DEF EngineInvariant
<1> QED BY <1>1, <1>2, <1>3, <1>4, PTL DEF Spec

(* The verdict of who was answered is the first final item it heard.       *)
LEMMA VerdictIsFinal ==
  ASSUME TypeOK, NEW r \in Reqs, Answered(r)
  PROVE  Min(Finals(r)) \in Finals(r) /\ \A k \in Finals(r) : Min(Finals(r)) <= k
<1>1. Finals(r) \subseteq Nat /\ Finals(r) # {}
  BY LenProperties DEF Finals, Answered, TypeOK
<1>2. \E m \in Finals(r) : \A k \in Finals(r) : m <= k
  BY <1>1, LeastNat
<1> QED BY <1>2 DEF Min

(* When final audio is that of the last step, no verdict is truncated      *)
(* audio.                                                                  *)
LEMMA ExactMeansWhole ==
  TypeOK /\ ChunksExact /\ (closer # "closed" \/ DistinctIds) => NoTruncatedAudio
<1> SUFFICES ASSUME TypeOK, ChunksExact, closer # "closed" \/ DistinctIds, StepExecution,
                    NEW r \in Reqs, Answered(r), Verdict(r).kind = "audio"
             PROVE  Verdict(r).step = Steps[r]
  BY DEF NoTruncatedAudio
<1>1. Min(Finals(r)) \in Finals(r)
  BY VerdictIsFinal
<1> QED BY <1>1 DEF Finals, Verdict, ChunksExact

(* A stream that ends well has had its last step, whatever the batches,    *)
(* yields, aborts, death and close, for requests that do not share their   *)
(* first request id.                                                       *)
THEOREM AudioIsWhole == ASSUME DistinctIds PROVE Spec => []NoTruncatedAudio
<1>1. EngineInvariant => NoTruncatedAudio
  BY ExactMeansWhole DEF EngineInvariant, ClientsInvariant, AudioInvariant
<1> QED BY <1>1, EngineInvariantHolds, PTL

(* With any ids the same until the scheduler has been closed under the     *)
(* driver.                                                                 *)
THEOREM AudioIsWholeUntilClosed == Spec => [](closer # "closed" => NoTruncatedAudio)
<1>1. EngineInvariant => (closer # "closed" => NoTruncatedAudio)
  BY ExactMeansWhole DEF EngineInvariant, ClientsInvariant, AudioInvariant
<1> QED BY <1>1, EngineInvariantHolds, PTL

(* Neither ValueError of _update_states_batch is ever raised               *)
(* (diffusion_model_runner.py:317 and :323) until the scheduler is closed, *)
(* and no entry of the worker's cache is leaked.                           *)
THEOREM CacheStaysInSync ==
  Spec => [](closer # "closed" => CacheInSync /\ (StepExecution => CacheNotLeaked))
<1>1. EngineInvariant => (closer # "closed" => CacheInSync /\ (StepExecution => CacheNotLeaked))
  <2> SUFFICES ASSUME EngineInvariant, closer # "closed"
               PROVE  CacheInSync /\ (StepExecution => CacheNotLeaked)
    OBVIOUS
  <2>1. SchedulingInvariant /\ TypeOK /\ CacheComplete /\ CacheFollows
    BY DEF EngineInvariant, ClientsInvariant, AudioInvariant
  <2>2. CacheInSync
    BY <2>1, PayloadsFit DEF CacheInSync
  <2>3. StepExecution => CacheNotLeaked
    BY <2>1 DEF CacheFollows, CacheNotLeaked, InProgress
  <2> QED BY <2>2, <2>3
<1> QED BY <1>1, EngineInvariantHolds, PTL

-----------------------------------------------------------------------------
(* The engine implements the request lifecycle. *)

(* What a client has heard, of a stream that carries c.                    *)
FinalsIn(c) == {k \in DOMAIN c : c[k].final}
HeardIn(c) == {k \in DOMAIN c : c[k].kind = "audio" /\ \A j \in FinalsIn(c) : k <= j}
OutcomeIn(c) == IF FinalsIn(c) # {} THEN c[Min(FinalsIn(c))].kind ELSE "none"
StepIn(c) == IF HeardIn(c) = {} THEN 0 ELSE c[Max(HeardIn(c))].step

(* Nothing a stream carries later takes an outcome or a step back.         *)
Grows(c, d) ==
  /\ OutcomeIn(c) # "none" => OutcomeIn(d) = OutcomeIn(c) /\ StepIn(d) = StepIn(c)
  /\ StepIn(c) <= StepIn(d)

(* A set of positions of a list has a first and a last member.             *)
LEMMA FirstAndLast ==
  ASSUME NEW n \in Nat, NEW S \in SUBSET (1..n), S # {}
  PROVE  /\ Min(S) \in S /\ \A k \in S : Min(S) <= k
         /\ Max(S) \in S /\ \A k \in S : k <= Max(S)
<1>1. \E a \in S : \A b \in S : a <= b
  BY LeastNat
<1>2. \E a \in S : \A b \in S : a >= b
  <2> DEFINE T == {n - k : k \in S}
  <2>1. T \in SUBSET Nat /\ T # {}
    <3>1. \A k \in S : n - k \in Nat /\ n - k \in T
      OBVIOUS
    <3>2. PICK k : k \in S
      OBVIOUS
    <3> QED BY <3>1, <3>2
  <2>2. PICK m \in T : \A t \in T : m <= t
    <3> HIDE DEF T
    <3> QED BY <2>1, LeastNat
  <2>3. PICK a \in S : m = n - a
    BY <2>2
  <2>4. \A b \in S : n - a <= n - b
    BY <2>2, <2>3
  <2>5. a \in Nat /\ S \subseteq Nat
    BY <2>3
  <2>6. \A b \in S : a >= b
    <3> HIDE DEF T
    <3>1. \A i, j \in Nat : n - i <= n - j => i >= j
      OBVIOUS
    <3> QED BY <2>4, <2>5, <3>1
  <2> QED BY <2>3, <2>6
<1> QED BY <1>1, <1>2 DEF Min, Max

(* The least member of a set of positions is the only one.                 *)
LEMMA LeastIsMin ==
  ASSUME NEW n \in Nat, NEW S \in SUBSET (1..n), NEW a \in S, \A b \in S : a <= b
  PROVE  Min(S) = a
<1>1. Min(S) \in S /\ Min(S) <= a
  BY FirstAndLast
<1>2. a <= Min(S)
  BY <1>1
<1>3. \A k \in S : k \in Nat
  OBVIOUS
<1>4. a \in Nat /\ Min(S) \in Nat
  BY <1>1, <1>3
<1> QED BY <1>1, <1>2, <1>4

(* The greatest member of a set of positions is the only one.              *)
LEMMA GreatestIsMax ==
  ASSUME NEW n \in Nat, NEW S \in SUBSET (1..n), NEW a \in S, \A b \in S : b <= a
  PROVE  Max(S) = a
<1>1. Max(S) \in S /\ a <= Max(S)
  BY FirstAndLast
<1>2. Max(S) <= a
  BY <1>1
<1>3. \A k \in S : k \in Nat
  OBVIOUS
<1>4. a \in Nat /\ Max(S) \in Nat
  BY <1>1, <1>3
<1> QED BY <1>1, <1>2, <1>4

(* What one more item makes of a list.                                     *)
LEMMA OneMore ==
  ASSUME NEW c \in Seq(Items), NEW e \in Items
  PROVE  /\ Len(c) \in Nat /\ DOMAIN c = 1..Len(c)
         /\ \A k \in DOMAIN c : c[k] \in Items
         /\ c \o <<e>> \in Seq(Items)
         /\ DOMAIN (c \o <<e>>) = 1..(Len(c) + 1)
         /\ \A k \in 1..Len(c) : (c \o <<e>>)[k] = c[k]
         /\ (c \o <<e>>)[Len(c) + 1] = e
<1> HIDE DEF Items
<1>1. Len(c) \in Nat /\ DOMAIN c = 1..Len(c) /\ <<e>> \in Seq(Items) /\ Len(<<e>>) = 1 /\ <<e>>[1] = e
  BY LenProperties
<1>2. \A k \in DOMAIN c : c[k] \in Items
  BY ElementOfSeq, <1>1
<1> DEFINE u == <<e>>
<1>3. u \in Seq(Items) /\ Len(u) = 1 /\ u[1] = e
  BY <1>1
<1> HIDE DEF u
<1>4. /\ c \o u \in Seq(Items) /\ Len(c \o u) = Len(c) + 1
      /\ \A i \in 1..(Len(c) + 1) : (c \o u)[i] = IF i <= Len(c) THEN c[i] ELSE u[i - Len(c)]
  BY <1>3, ConcatProperties
<1>5. DOMAIN (c \o u) = 1..(Len(c) + 1)
  BY <1>4, LenProperties
<1>6. /\ \A k \in 1..Len(c) : (c \o u)[k] = c[k]
      /\ (c \o u)[Len(c) + 1] = e
  BY <1>1, <1>3, <1>4
<1> QED BY <1>1, <1>2, <1>4, <1>5, <1>6 DEF u

(* The step a stream has reached is 0 or that of one of its chunks, and it *)
(* has an outcome exactly when it carries a final item.                    *)
LEMMA StepsAreNat ==
  ASSUME NEW c \in Seq(Items)
  PROVE  /\ StepIn(c) \in Nat /\ OutcomeIn(c) \in Kinds \cup {"none"}
         /\ OutcomeIn(c) # "none" <=> FinalsIn(c) # {}
         /\ StepIn(c) = 0 \/ \E k \in DOMAIN c : c[k].kind = "audio" /\ c[k].step = StepIn(c)
<1>1. /\ Len(c) \in Nat /\ DOMAIN c = 1..Len(c)
      /\ \A k \in DOMAIN c : c[k] \in Items
  <2> HIDE DEF Items
  <2> QED BY LenProperties, ElementOfSeq
<1>2. \A k \in DOMAIN c : c[k].step \in Nat /\ c[k].kind \in Kinds
  BY <1>1 DEF Items
<1>3. HeardIn(c) # {} => Max(HeardIn(c)) \in HeardIn(c)
  BY <1>1, FirstAndLast DEF HeardIn
<1>4. FinalsIn(c) # {} => Min(FinalsIn(c)) \in FinalsIn(c)
  BY <1>1, FirstAndLast DEF FinalsIn
<1>5. OutcomeIn(c) \in Kinds \cup {"none"} /\ (OutcomeIn(c) # "none" <=> FinalsIn(c) # {})
  BY <1>2, <1>4 DEF OutcomeIn, FinalsIn, Kinds
<1>6. StepIn(c) = 0 \/ \E k \in DOMAIN c : c[k].kind = "audio" /\ c[k].step = StepIn(c)
  BY <1>3 DEF StepIn, HeardIn
<1> QED BY <1>2, <1>5, <1>6

(* Whatever is put into a stream after its final item is not heard.        *)
LEMMA HeardNoMore ==
  ASSUME NEW c \in Seq(Items), NEW e \in Items, FinalsIn(c) # {}, NEW d, d = c \o <<e>>
  PROVE  OutcomeIn(d) = OutcomeIn(c) /\ StepIn(d) = StepIn(c)
<1> DEFINE n == Len(c)
           f == Min(FinalsIn(c))
<1>1. /\ n \in Nat /\ DOMAIN c = 1..n /\ DOMAIN d = 1..(n + 1)
      /\ \A k \in 1..n : d[k] = c[k]
  BY OneMore
<1> HIDE DEF n
<1>2. f \in FinalsIn(c) /\ \A k \in FinalsIn(c) : f <= k
  BY <1>1, FirstAndLast DEF FinalsIn
<1> HIDE DEF f
<1>3. /\ f \in 1..n /\ f \in FinalsIn(d) /\ FinalsIn(d) \in SUBSET (1..(n + 1))
      /\ \A k \in FinalsIn(d) : k \in FinalsIn(c) \/ k = n + 1
      /\ FinalsIn(c) \subseteq FinalsIn(d)
  BY <1>1, <1>2 DEF FinalsIn
<1>4. \A k \in FinalsIn(d) : f <= k
  BY <1>1, <1>2, <1>3
<1>5. Min(FinalsIn(d)) = f
  <2>1. n + 1 \in Nat
    BY <1>1
  <2> QED BY <1>3, <1>4, <2>1, LeastIsMin
<1>6. HeardIn(d) = HeardIn(c)
  <2>1. \A k \in DOMAIN d : (\A j \in FinalsIn(d) : k <= j) <=> k <= f
    BY <1>1, <1>3, <1>4
  <2>2. \A k \in DOMAIN c : (\A j \in FinalsIn(c) : k <= j) <=> k <= f
    BY <1>1, <1>2, <1>3
  <2>3. \A k \in 1..(n + 1) : k <= f => k \in 1..n
    BY <1>1, <1>3
  <2>4. \A k : k \in HeardIn(d) <=> k \in HeardIn(c)
    BY <1>1, <2>1, <2>2, <2>3 DEF HeardIn
  <2> QED BY <2>4
<1>7. HeardIn(c) # {} => Max(HeardIn(c)) \in 1..n
  BY <1>1, FirstAndLast DEF HeardIn
<1>8. OutcomeIn(d) = OutcomeIn(c)
  BY <1>1, <1>2, <1>3, <1>5 DEF OutcomeIn, f
<1>9. StepIn(d) = StepIn(c)
  BY <1>1, <1>6, <1>7 DEF StepIn
<1> QED BY <1>8, <1>9

(* One more item, that is no audio or audio of a later step.               *)
LEMMA GrowsByOne ==
  ASSUME NEW c \in Seq(Items), NEW e \in Items,
         e.kind = "audio" => \A k \in DOMAIN c : c[k].kind = "audio" => c[k].step < e.step
  PROVE  c \o <<e>> \in Seq(Items) /\ Grows(c, c \o <<e>>)
<1> DEFINE d == c \o <<e>>
           n == Len(c)
<1>1. /\ n \in Nat /\ DOMAIN c = 1..n /\ DOMAIN d = 1..(n + 1)
      /\ \A k \in 1..n : d[k] = c[k]
      /\ d[n + 1] = e /\ d \in Seq(Items)
  BY OneMore
<1> SUFFICES d \in Seq(Items) /\ Grows(c, d)
  OBVIOUS
<1>0. FinalsIn(c) # {} => OutcomeIn(d) = OutcomeIn(c) /\ StepIn(d) = StepIn(c)
  BY HeardNoMore
<1> HIDE DEF d, n
<1>2. CASE FinalsIn(c) # {}
  <2>1. OutcomeIn(d) = OutcomeIn(c) /\ StepIn(d) = StepIn(c) /\ StepIn(c) \in Nat
    BY <1>0, <1>2, StepsAreNat
  <2>2. StepIn(c) <= StepIn(d)
    BY <2>1
  <2>3. Grows(c, d) /\ d \in Seq(Items)
    BY <1>1, <2>1, <2>2 DEF Grows
  <2> QED BY <2>3
<1>3. CASE FinalsIn(c) = {}
  <2>1. OutcomeIn(c) = "none"
    BY <1>3 DEF OutcomeIn
  <2>2. \A j \in FinalsIn(d) : j = n + 1
    BY <1>1, <1>3 DEF FinalsIn
  <2>3. /\ \A k : k \in HeardIn(c) <=> k \in 1..n /\ c[k].kind = "audio"
        /\ \A k : k \in HeardIn(d) <=> k \in 1..(n + 1) /\ d[k].kind = "audio"
    BY <1>1, <1>3, <2>2 DEF HeardIn
  <2>4. CASE e.kind = "audio"
    <3>1. n + 1 \in HeardIn(d) /\ HeardIn(d) \in SUBSET (1..(n + 1))
      BY <1>1, <2>3, <2>4
    <3>2. Max(HeardIn(d)) = n + 1
      BY <1>1, <3>1, GreatestIsMax
    <3>3. StepIn(d) = e.step
      BY <1>1, <3>1, <3>2 DEF StepIn
    <3>4. StepIn(c) <= e.step
      <4>1. StepIn(c) = 0 \/ \E k \in DOMAIN c : c[k].kind = "audio" /\ c[k].step = StepIn(c)
        BY StepsAreNat
      <4>2. e.step \in Nat /\ StepIn(c) \in Nat
        BY StepsAreNat DEF Items
      <4>3. CASE StepIn(c) = 0
        BY <4>2, <4>3
      <4>4. CASE StepIn(c) # 0
        <5>1. StepIn(c) < e.step
          BY <2>4, <4>1, <4>4
        <5> QED BY <4>2, <5>1
      <4> QED BY <4>3, <4>4
    <3> QED BY <1>1, <2>1, <3>3, <3>4 DEF Grows
  <2>5. CASE e.kind # "audio"
    <3>1. HeardIn(d) = HeardIn(c)
      <4>1. \A k : k \in HeardIn(d) <=> k \in HeardIn(c)
        BY <1>1, <2>3, <2>5
      <4> QED BY <4>1
    <3>2. HeardIn(c) # {} => Max(HeardIn(c)) \in 1..n
      BY <1>1, FirstAndLast DEF HeardIn
    <3>3. StepIn(d) = StepIn(c)
      BY <1>1, <3>1, <3>2 DEF StepIn
    <3>4. StepIn(c) <= StepIn(d)
      BY <3>3, StepsAreNat
    <3> QED BY <1>1, <2>1, <3>3, <3>4 DEF Grows
  <2> QED BY <2>4, <2>5
<1> QED BY <1>2, <1>3

(* Growing is transitive.                                                  *)
LEMMA GrowsOn ==
  ASSUME NEW a \in Seq(Items), NEW b \in Seq(Items), NEW c \in Seq(Items),
         Grows(a, b), Grows(b, c)
  PROVE  Grows(a, c)
<1>1. StepIn(a) \in Nat /\ StepIn(b) \in Nat /\ StepIn(c) \in Nat
  BY StepsAreNat
<1> QED BY <1>1 DEF Grows

(* A delivery never takes back what a client has heard.                    *)
LEMMA DeliveryGrows ==
  ASSUME SchedulingInvariant, TypeOK, WaitersMatch, RunnerAgrees, RunnerExact, StepExecution,
         Deliver, NEW r \in Reqs
  PROVE  chan'[r] \in Seq(Items) /\ Grows(chan[r], chan'[r])
<1> DEFINE c == TheChunk(r)
           d == TheEnd(r)
           mid == chan[r] \o c
<1>1. /\ driver = "deliver" /\ chan[r] \in Seq(Items) /\ chan'[r] = mid \o d
      /\ c \in Seq(Items) /\ d \in Seq(Items)
  BY DeliverIs, DeliverSays DEF TypeOK
<1>2. mid \in Seq(Items) /\ Grows(chan[r], mid)
  <2>1. CASE c = <<>>
    <3>1. mid = chan[r]
      BY <1>1, <2>1, ConcatEmptySeq
    <3>2. StepIn(chan[r]) \in Nat
      BY <1>1, StepsAreNat
    <3> QED BY <1>1, <3>1, <3>2 DEF Grows
  <2>2. CASE c # <<>>
    <3>1. 1 \in DOMAIN c /\ c[1] \in Items
      BY <1>1, <2>2, LenProperties, ElementOfSeq, EmptySeq
    <3>2. /\ sid[r] \in Range(Scheduled(out)) /\ streams[sid[r]] = r
          /\ c[1].kind = ResultOf(ro, sid[r]) /\ c[1].step = ro.step[sid[r]]
          /\ c = <<c[1]>>
      BY <1>1, <3>1, ChunkSays
    <3>3. sid[r] \in SchedIds /\ r # NoReq
      BY <3>2, RangeOfSeq, SchedulerAssumption DEF SchedulingInvariant
    <3>4. ASSUME c[1].kind = "audio", NEW k \in DOMAIN chan[r], chan[r][k].kind = "audio"
          PROVE  chan[r][k].step < c[1].step
      <4>1. chan[r][k].step \in AudioSteps(r)
        BY <3>4 DEF AudioSteps
      <4>2. \A n \in AudioSteps(r) : n < ro.step[sid[r]]
        BY <1>1, <3>2, <3>3, <3>4 DEF RunnerExact
      <4> QED BY <3>2, <4>1, <4>2
    <3> HIDE DEF c
    <3> QED BY <1>1, <3>1, <3>2, <3>4, GrowsByOne
  <2> QED BY <2>1, <2>2
<1> HIDE DEF mid
<1>3. chan'[r] \in Seq(Items) /\ Grows(mid, chan'[r])
  <2>1. CASE d = <<>>
    <3>1. mid \o d = mid
      BY <1>2, <2>1, ConcatEmptySeq
    <3>2. StepIn(mid) \in Nat
      BY <1>2, StepsAreNat
    <3> QED BY <1>1, <1>2, <3>1, <3>2 DEF Grows
  <2>2. CASE d # <<>>
    <3>1. 1 \in DOMAIN d /\ d[1] \in Items
      BY <1>1, <2>2, LenProperties, ElementOfSeq, EmptySeq
    <3>2. d[1].kind # "audio"
      BY <1>1, <3>1, EndsQuietly
    <3>3. d = <<d[1]>>
      BY <2>2 DEF TheEnd
    <3> HIDE DEF d
    <3> QED BY <1>1, <1>2, <3>1, <3>2, <3>3, GrowsByOne
  <2> QED BY <2>1, <2>2
<1> QED BY <1>1, <1>2, <1>3, GrowsOn

(* The life of a request, from where its client is, what its stream        *)
(* carries and what its step() returned.                                   *)
LifeFrom(r, where, c, answer) ==
  LET outcome == IF r \in Streaming THEN OutcomeIn(c) ELSE answer
  IN  [phase |-> CASE where = "idle" -> "new"
                   [] where = "rejected" -> "refused"
                   [] where \in {"waiting", "returned"} ->
                        IF outcome = "none" THEN "active" ELSE "answered",
       step |-> StepIn(c),
       outcome |-> outcome]

(* The life of a request depends on nothing else.                          *)
LEMMA LifeIs ==
  ASSUME NEW r
  PROVE  /\ LifeOf(r) = LifeFrom(r, client[r], chan[r], reply[r])
         /\ LifeOf(r)' = LifeFrom(r, client'[r], chan'[r], reply'[r])
BY DEF LifeOf, LifeFrom, Outcome, OutcomeIn, StepIn, HeardIn, FinalsIn, Finals, Verdict, Answered

(* A stream that grows is progress of the life of who waits for it.        *)
LEMMA GrowthIsProgress ==
  ASSUME NEW r \in Streaming, NEW where \in {"waiting", "returned"}, NEW answer,
         NEW c \in Seq(Items), NEW d \in Seq(Items), Grows(c, d)
  PROVE  LET from == LifeFrom(r, where, c, answer)
             to == LifeFrom(r, where, d, answer)
         IN  to = from \/ Lifecycle!Progress(r, from, to)
<1> DEFINE from == LifeFrom(r, where, c, answer)
           to == LifeFrom(r, where, d, answer)
<1>1. /\ from = [phase |-> IF OutcomeIn(c) = "none" THEN "active" ELSE "answered",
                 step |-> StepIn(c), outcome |-> OutcomeIn(c)]
      /\ to = [phase |-> IF OutcomeIn(d) = "none" THEN "active" ELSE "answered",
               step |-> StepIn(d), outcome |-> OutcomeIn(d)]
  BY DEF LifeFrom
<1>2. /\ StepIn(c) \in Nat /\ StepIn(d) \in Nat /\ StepIn(c) <= StepIn(d)
      /\ OutcomeIn(d) \in Kinds \cup {"none"}
      /\ OutcomeIn(c) # "none" => OutcomeIn(d) = OutcomeIn(c) /\ StepIn(d) = StepIn(c)
  BY StepsAreNat DEF Grows
<1> HIDE DEF from, to
<1>3. CASE OutcomeIn(c) # "none"
  <2>1. to = from
    BY <1>1, <1>2, <1>3
  <2> QED BY <2>1 DEF from, to
<1>4. CASE OutcomeIn(c) = "none" /\ OutcomeIn(d) # "none"
  <2>1. Lifecycle!AnsweredWith(from, to)
    BY <1>1, <1>2, <1>4 DEF Lifecycle!AnsweredWith
  <2> QED BY <2>1 DEF Lifecycle!Progress, from, to
<1>5. CASE OutcomeIn(c) = "none" /\ OutcomeIn(d) = "none"
  <2>1. CASE StepIn(c) = StepIn(d)
    BY <1>1, <1>5, <2>1 DEF from, to
  <2>2. CASE StepIn(c) # StepIn(d)
    <3>1. Lifecycle!Chunk(from, to)
      BY <1>1, <1>2, <1>5, <2>2 DEF Lifecycle!Chunk
    <3> QED BY <3>1 DEF Lifecycle!Progress, from, to
  <2> QED BY <2>1, <2>2
<1> QED BY <1>3, <1>4, <1>5 DEF from, to

(* Every step of the engine is progress of some lives, or none.            *)
LEMMA StepProgress ==
  ASSUME DistinctIds, SchedulingInvariant, ClientsInvariant, ClientsInvariant', RunnerExact,
         [Next]_vars, NEW r \in Reqs
  PROVE  LifeOf(r)' = LifeOf(r) \/ Lifecycle!Progress(r, LifeOf(r), LifeOf(r)')
<1> DEFINE from == LifeFrom(r, client[r], chan[r], reply[r])
           to == LifeFrom(r, client'[r], chan'[r], reply'[r])
<1> SUFFICES to = from \/ Lifecycle!Progress(r, from, to)
  BY LifeIs
<1>0. /\ TypeOK /\ WaitersMatch /\ WaitersRegistered /\ RunnerAgrees
      /\ chan[r] \in Seq(Items) /\ chan'[r] \in Seq(Items)
  BY DEF ClientsInvariant, TypeOK
<1>1. CASE client'[r] = client[r] /\ chan'[r] = chan[r] /\ reply'[r] = reply[r]
  BY <1>1
<1>2. ASSUME r \in Streaming, client'[r] = client[r], client[r] \in {"waiting", "returned"},
             reply'[r] = reply[r], Grows(chan[r], chan'[r])
      PROVE  to = from \/ Lifecycle!Progress(r, from, to)
  BY <1>0, <1>2, GrowthIsProgress
<1>3. CASE Submit(r)
  <2>1. /\ client[r] = "idle" /\ client'[r] \in {"waiting", "rejected"}
        /\ chan' = chan /\ reply' = reply
    BY <1>0, <1>3 DEF Submit, TypeOK
  <2>2. chan[r] = <<>> /\ reply[r] = "none"
    BY <1>0, <2>1 DEF WaitersMatch
  <2>3. StepIn(<<>>) = 0 /\ OutcomeIn(<<>>) = "none"
    BY DEF StepIn, OutcomeIn, HeardIn, FinalsIn
  <2>4. /\ from = [phase |-> "new", step |-> 0, outcome |-> "none"]
        /\ to = [phase |-> IF client'[r] = "waiting" THEN "active" ELSE "refused",
                 step |-> 0, outcome |-> "none"]
    BY <2>1, <2>2, <2>3 DEF LifeFrom
  <2> HIDE DEF from, to
  <2>5. Lifecycle!Admitted(from, to) \/ Lifecycle!Refused(from, to)
    BY <2>1, <2>4 DEF Lifecycle!Admitted, Lifecycle!Refused, Lifecycle!New
  <2> QED BY <2>5 DEF Lifecycle!Progress
<1>4. CASE Collect(r)
  <2>1. /\ client[r] = "waiting" /\ client'[r] = "returned" /\ r \in woken /\ chan' = chan
        /\ reply'[r] = IF pending[sid[r]] = "none" THEN "lost" ELSE pending[sid[r]]
    BY <1>0, <1>4 DEF Collect, TypeOK
  <2>2. /\ reply[r] = "none" /\ r \notin Streaming /\ chan[r] = <<>> /\ sid[r] \in SchedIds
    BY <1>0, <2>1 DEF WaitersMatch, TypeOK
  <2>3. pending[sid[r]] # "none" /\ pending[sid[r]] \in Kinds
    BY <1>0, <2>1, <2>2 DEF WaitersRegistered, TypeOK
  <2>4. StepIn(<<>>) = 0
    BY DEF StepIn, HeardIn
  <2>5. reply'[r] \in Kinds /\ reply'[r] # "none"
    BY <2>1, <2>3 DEF Kinds
  <2>6. /\ from = [phase |-> "active", step |-> 0, outcome |-> "none"]
        /\ to = [phase |-> "answered", step |-> 0, outcome |-> reply'[r]]
    BY <2>1, <2>2, <2>4, <2>5 DEF LifeFrom
  <2> HIDE DEF from, to
  <2>7. Lifecycle!AnsweredWith(from, to)
    BY <2>5, <2>6 DEF Lifecycle!AnsweredWith
  <2> QED BY <2>7 DEF Lifecycle!Progress
<1>5. CASE EndStream(r)
  <2>1. /\ client[r] = "waiting" /\ client'[r] = "returned" /\ chan' = chan /\ reply' = reply
    BY <1>0, <1>5 DEF EndStream, TypeOK
  <2> QED BY <2>1 DEF LifeFrom
<1>6. ASSUME NEW q \in Reqs, q # r, Submit(q) \/ Collect(q) \/ EndStream(q)
      PROVE  to = from
  <2>1. client'[r] = client[r] /\ chan'[r] = chan[r] /\ reply'[r] = reply[r]
    BY <1>0, <1>6 DEF Submit, Collect, EndStream, TypeOK
  <2> QED BY <2>1
<1>7. CASE Deliver
  <2>1. client' = client /\ reply' = reply /\ driver = "deliver"
    BY <1>7, DeliverIs DEF clientVars
  <2>2. CASE r \notin Streaming \/ sid[r] = NoSched
    <3>1. TheChunk(r) = <<>> /\ TheEnd(r) = <<>>
      BY <1>0, <2>1, <2>2, DeliverSays
    <3>2. chan'[r] = chan[r]
      BY <1>0, <1>7, <3>1, DeliverIs, ConcatEmptySeq
    <3> QED BY <1>1, <2>1, <3>2
  <2>3. CASE r \in Streaming /\ sid[r] # NoSched
    <3>1. client[r] \in {"waiting", "returned"}
      BY <1>0, <2>3 DEF WaitersMatch
    <3>2. StepExecution
      BY <2>3, EngineAssumption
    <3>3. Grows(chan[r], chan'[r])
      BY <1>0, <1>7, <3>2, DeliveryGrows
    <3> QED BY <1>2, <2>1, <2>3, <3>1, <3>3
  <2> QED BY <2>2, <2>3
<1>8. CASE Surface
  <2>1. chan' = chan /\ client' = client /\ reply' = reply
    BY <1>0, <1>8, SurfaceNothing DEF Surface, clientVars
  <2> QED BY <1>1, <2>1
<1>9. CASE DriverDie \/ CloseSignal
  <2>1. /\ client' = client /\ reply' = reply
        /\ chan'[r] = IF \E x \in SchedIds : streams[x] = r
                      THEN Append(chan[r], Final("dead")) ELSE chan[r]
    BY <1>9 DEF DriverDie, CloseSignal, SignalEngineDead, clientVars
  <2>2. CASE \E x \in SchedIds : streams[x] = r
    <3>1. r \in Streaming /\ client[r] = "waiting"
      BY <1>0, <2>2, SchedulerAssumption DEF WaitersMatch
    <3> DEFINE last == Final("dead")
    <3>2. last \in Items /\ last.kind # "audio"
      BY DEF Final, Item, Items, Kinds
    <3> HIDE DEF last
    <3>3. chan'[r] = chan[r] \o <<last>>
      BY <1>0, <2>1, <2>2, <3>2, AppendIsConcat DEF last
    <3>4. Grows(chan[r], chan'[r])
      BY <1>0, <3>2, <3>3, GrowsByOne
    <3> QED BY <1>2, <2>1, <3>1, <3>4
  <2> QED BY <1>1, <2>1, <2>2
<1>10. CASE /\ ~Deliver /\ ~Surface /\ ~DriverDie /\ ~CloseSignal
            /\ \A q \in Reqs : ~Submit(q) /\ ~Collect(q) /\ ~EndStream(q)
  <2>1. client' = client /\ chan' = chan /\ reply' = reply
    BY <1>10 DEF Next, Driver, Client, vars, clientVars, waiterVars, DriverTop, DriverSchedule,
       Execute, Die, Abort, CloseBegin, CloseShutdown
  <2> QED BY <1>1, <2>1
<1> QED BY <1>3, <1>4, <1>5, <1>6, <1>7, <1>8, <1>9, <1>10

(* The engine implements the request lifecycle, for requests that do not   *)
(* share their first request id: one outcome, not lost on the way, and     *)
(* before it chunks of ever later steps.                                   *)
THEOREM LifecycleImplemented == ASSUME DistinctIds PROVE Spec => ImplementsLifecycle
<1>1. Init => Lifecycle!Init
  <2> SUFFICES ASSUME Init, NEW r \in Reqs
               PROVE  LifeOf(r) = Lifecycle!New
    BY DEF Lifecycle!Init
  <2>1. client[r] = "idle" /\ chan[r] = <<>> /\ reply[r] = "none"
    BY DEF Init
  <2>2. StepIn(<<>>) = 0 /\ OutcomeIn(<<>>) = "none"
    BY DEF StepIn, OutcomeIn, HeardIn, FinalsIn
  <2>3. LifeFrom(r, client[r], chan[r], reply[r]) = [phase |-> "new", step |-> 0, outcome |-> "none"]
    BY <2>1, <2>2 DEF LifeFrom
  <2> QED BY <2>3, LifeIs DEF Lifecycle!New
<1>2. EngineInvariant /\ EngineInvariant' /\ [Next]_vars
      => [Lifecycle!Next]_([r \in Reqs |-> LifeOf(r)])
  <2> SUFFICES ASSUME EngineInvariant, EngineInvariant', [Next]_vars
               PROVE  Lifecycle!Next
    OBVIOUS
  <2>1. /\ SchedulingInvariant /\ ClientsInvariant /\ ClientsInvariant' /\ RunnerExact
    BY DEF EngineInvariant, AudioInvariant
  <2>2. \A r \in Reqs : LifeOf(r)' = LifeOf(r) \/ Lifecycle!Progress(r, LifeOf(r), LifeOf(r)')
    BY <2>1, StepProgress
  <2> QED BY <2>2 DEF Lifecycle!Next
<1> QED BY <1>1, <1>2, EngineInvariantHolds, PTL DEF Spec, ImplementsLifecycle, Lifecycle!Spec
===============================================================================
