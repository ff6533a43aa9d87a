------------------------ MODULE SchedulerMachine_proofs ------------------------
(***************************************************************************)
(* Whoever drives the scheduler by its protocol, its bookkeeping stays     *)
(* consistent and update_from_output surfaces exactly what ended.          *)
(***************************************************************************)
EXTENDS SchedulerMachine, DiffusionScheduler_proofs

(* For a request in the batch, ending and being recorded as finished are   *)
(* one thing, so that the update can rely on the record.                   *)
BatchInvariant ==
  /\ Consistent
  /\ Scheduled(batch) \in Seq(SchedIds)
  /\ IsInjective(Scheduled(batch))
  /\ \A x \in InFlight : x \in sched.finished <=> sched.status[x] \in Finished

(* A fresh scheduler has no batch. *)
LEMMA InitBatchInvariant == Init => BatchInvariant
<1> SUFFICES ASSUME Init PROVE BatchInvariant
  OBVIOUS
<1>1. Scheduled(batch) = <<>>
  BY DEF Init, NoBatch, Scheduled
<1>2. Scheduled(batch) \in Seq(SchedIds) /\ IsInjective(Scheduled(batch)) /\ InFlight = {}
  BY <1>1 DEF IsInjective, InFlight, Range
<1>3. Consistent
  BY EmptySchedulerOK DEF Init, Consistent
<1> QED BY <1>2, <1>3 DEF BatchInvariant

(* Taking in a batch's output surfaces exactly the scheduled ids that are  *)
(* over.                                                                   *)
LEMMA UpdateSurfaces ==
  ASSUME BatchInvariant, Update
  PROVE  /\ SchedulerOK(sched')
         /\ batch' = NoBatch
         /\ surfaced' = {x \in InFlight : sched'.status[x] \in Finished}
<1>1. /\ SchedulerOK(sched) /\ Scheduled(batch) \in Seq(SchedIds)
      /\ IsInjective(Scheduled(batch))
      /\ \A x \in InFlight : x \in sched.finished <=> sched.status[x] \in Finished
  BY DEF BatchInvariant, Consistent
<1>2. PICK ro \in BatchOutputs \cup SingleOutputs :
        /\ sched' = UpdateFromOutput(sched, batch, ro)
        /\ surfaced' = FinishedBy(sched, batch, ro)
  BY DEF Update
<1>3. /\ SchedulerOK(sched')
      /\ surfaced' \subseteq InFlight
      /\ \A x \in InFlight : x \in surfaced' <=> sched'.status[x] \in Finished
  BY <1>1, <1>2, UpdateFromOutputOK DEF InFlight
<1> QED BY <1>3 DEF Update

(* Every call that follows the protocol keeps the invariant. *)
LEMMA StepBatchInvariant == BatchInvariant /\ [Next]_vars => BatchInvariant'
<1> SUFFICES ASSUME BatchInvariant, [Next]_vars
             PROVE  BatchInvariant'
  OBVIOUS
<1>0. /\ SchedulerOK(sched) /\ Scheduled(batch) \in Seq(SchedIds)
      /\ IsInjective(Scheduled(batch)) /\ InFlight \subseteq SchedIds
      /\ \A x \in InFlight : x \in sched.finished <=> sched.status[x] \in Finished
  BY RangeOfSeq DEF BatchInvariant, Consistent, InFlight
<1> DEFINE Kept == /\ SchedulerOK(sched')
                   /\ batch' = batch
                   /\ \A x \in InFlight : x \in sched'.finished <=> sched'.status[x] \in Finished
<1>1. ASSUME Kept
      PROVE  BatchInvariant'
  BY <1>0, <1>1 DEF BatchInvariant, Consistent, InFlight
<1>2. CASE UNCHANGED vars
  BY <1>0, <1>1, <1>2 DEF vars
<1>3. ASSUME NEW r \in Reqs, Add(r)
      PROVE  BatchInvariant'
  <2>1. PICK x \in SchedIds : IsSchedReqId(sched, r, x) /\ sched' = AddRequest(sched, r, x)
    BY <1>3 DEF Add
  <2>2. SchedulerOK(sched') /\ sched'.finished = sched.finished
    BY <1>0, <2>1, AddRequestOK
  <2>3. sched.status[x] = "NONE"
    BY <2>1 DEF IsSchedReqId
  <2>4. \A y \in SchedIds : sched'.status[y] = IF y = x THEN "WAITING" ELSE sched.status[y]
    BY <1>0, <2>1, AddRequestStatus DEF SchedulerOK
  <2>5. \A y \in InFlight : y \in sched'.finished <=> sched'.status[y] \in Finished
    BY <1>0, <2>2, <2>3, <2>4 DEF Finished
  <2> QED BY <1>1, <1>3, <2>2, <2>5 DEF Add
<1>4. CASE Schedule
  <2>1. SchedulerOK(sched') /\ sched'.finished = {}
    BY <1>0, <1>4, AfterScheduleOK DEF Schedule
  <2>2. /\ Scheduled(batch') \in Seq(SchedIds) /\ IsInjective(Scheduled(batch'))
        /\ Range(Scheduled(batch')) = Range(sched'.running)
    BY <1>0, <1>4, OutputProperties DEF Schedule
  <2>3. \A x \in Range(sched'.running) : sched'.status[x] = "RUNNING"
    <3>1. Range(sched'.running) \subseteq SchedIds
      BY <2>1, SchedulerFields, RangeOfSeq DEF SchedulerOK
    <3> QED BY <2>1, <3>1 DEF SchedulerOK, StatusAgreesWithQueues
  <2> QED BY <2>1, <2>2, <2>3 DEF BatchInvariant, Consistent, InFlight, Finished
<1>5. CASE Update
  <2>1. SchedulerOK(sched') /\ batch' = NoBatch
    BY <1>5, UpdateSurfaces
  <2>2. Scheduled(batch') = <<>>
    BY <2>1 DEF NoBatch, Scheduled
  <2>3. Scheduled(batch') \in Seq(SchedIds) /\ IsInjective(Scheduled(batch')) /\ InFlight' = {}
    BY <2>2 DEF IsInjective, InFlight, Range
  <2> QED BY <2>1, <2>3 DEF BatchInvariant, Consistent
<1>6. ASSUME NEW x \in SchedIds, Finish(x)
      PROVE  BatchInvariant'
  <2>1. sched' = FinishRequests(sched, {x}, "ABORTED") /\ batch' = batch
    BY <1>6 DEF Finish
  <2>2. "ABORTED" \in Finished /\ {x} \in SUBSET SchedIds /\ sched \in Scheduler
    BY <1>0 DEF Finished, SchedulerOK
  <2>3. SchedulerOK(sched')
    BY <1>0, <2>1, <2>2, FinishRequestsOK
  <2>4. /\ sched'.finished = sched.finished \cup Live(sched, {x})
        /\ \A y \in SchedIds : sched'.status[y] =
             IF y \in Live(sched, {x}) THEN "ABORTED" ELSE sched.status[y]
    BY <2>1, <2>2, FinishRequestsFinished, FinishRequestsStatus
  <2>5. \A y \in InFlight : y \in sched'.finished <=> sched'.status[y] \in Finished
    BY <1>0, <2>2, <2>4
  <2> QED BY <1>1, <2>1, <2>3, <2>5
<1>7. ASSUME NEW x \in SchedIds, Preempt(x)
      PROVE  BatchInvariant'
  <2>1. sched' = PreemptRequest(sched, x) /\ batch' = batch
    BY <1>7 DEF Preempt
  <2>2. SchedulerOK(sched')
    BY <1>0, <2>1, PreemptRequestOK
  <2>3. sched \in Scheduler /\ (x \in Range(sched.running) => sched.status[x] = "RUNNING")
    BY <1>0 DEF SchedulerOK, StatusAgreesWithQueues
  <2>4. /\ sched'.finished = sched.finished
        /\ \A y \in SchedIds : \/ sched'.status[y] = sched.status[y]
                               \/ sched.status[y] = "RUNNING" /\ sched'.status[y] = "PREEMPTED"
    BY <2>1, <2>3 DEF PreemptRequest, Scheduler
  <2>5. \A y \in InFlight : y \in sched'.finished <=> sched'.status[y] \in Finished
    BY <1>0, <2>4 DEF Finished
  <2> QED BY <1>1, <2>1, <2>2, <2>5
<1>8. ASSUME NEW x \in SchedIds, Pop(x)
      PROVE  BatchInvariant'
  <2>1. sched' = PopRequestStates(sched, {x}) /\ batch' = batch /\ x \notin InFlight
    BY <1>8 DEF Pop
  <2>2. \A y \in {x} : sched.status[y] \notin Queued
    BY <1>8 DEF Pop, Finished, Queued
  <2>3. SchedulerOK(sched') /\ sched'.finished = sched.finished
    BY <1>0, <2>1, <2>2, PopRequestStatesOK
  <2>4. \A y \in SchedIds : y # x => sched'.status[y] = sched.status[y]
    BY <1>0, <2>1 DEF PopRequestStates, Scheduler, SchedulerOK
  <2>5. \A y \in InFlight : y \in sched'.finished <=> sched'.status[y] \in Finished
    BY <1>0, <2>1, <2>3, <2>4
  <2> QED BY <1>1, <2>1, <2>3, <2>5
<1>9. CASE Close
  <2>1. SchedulerOK(sched') /\ batch' = batch
    BY <1>9, EmptySchedulerOK DEF Close
  <2>2. \A y \in InFlight : y \in sched'.finished <=> sched'.status[y] \in Finished
    BY <1>0, <1>9 DEF Close, EmptyScheduler, Finished
  <2> QED BY <1>1, <2>1, <2>2
<1> QED BY <1>2, <1>3, <1>4, <1>5, <1>6, <1>7, <1>8, <1>9 DEF Next

(* The invariant of the protocol holds in every reachable state. *)
THEOREM BatchInvariantHolds == Spec => []BatchInvariant
BY InitBatchInvariant, StepBatchInvariant, PTL DEF Spec

(* No sequence of legal calls makes the scheduler's queues, states and ids *)
(* disagree, preemption and close included.                                *)
THEOREM ConsistentForAnyCaller == Spec => []Consistent
<1>1. BatchInvariant => Consistent
  BY DEF BatchInvariant
<1> QED BY <1>1, BatchInvariantHolds, PTL

(* update_from_output returns every scheduled request that is over, and no *)
(* other, so that the engine answers whom it should.                       *)
THEOREM SurfacesWhatEnded == Spec => UpdateSurfacesTerminal
<1>1. BatchInvariant /\ [Next]_vars => [SurfacesTerminal]_vars
  <2> SUFFICES ASSUME BatchInvariant, Next, InFlight # {}, InFlight' = {}
               PROVE  surfaced' = {x \in InFlight : sched'.status[x] \in Finished}
    BY DEF SurfacesTerminal
  <2>1. batch' # batch
    BY DEF InFlight
  <2>2. ~Schedule
    BY DEF Schedule
  <2>3. Update
    BY <2>1, <2>2 DEF Next, Add, Finish, Preempt, Pop, Close
  <2> QED BY <2>3, UpdateSurfaces
<1> QED BY <1>1, BatchInvariantHolds, PTL DEF Spec, UpdateSurfacesTerminal

(* In fifo order a selection takes no waiting request without those that   *)
(* never ran and stand ahead of it.                                        *)
LEMMA SelectionInOrder ==
  ASSUME NEW s, SchedulerOK(s), Strategy = "fifo",
         NEW j \in DOMAIN s.waiting, NEW i \in 1..(j - 1),
         s.status[s.waiting[i]] = "WAITING",
         s.waiting[j] \in Range(SelectWaiting(s))
  PROVE  s.waiting[i] \in Range(SelectWaiting(s))
<1> DEFINE S == Anchors(s) \cup Joining(s)
           kept == Keep(s.waiting, S)
           room == MaxRunning - Len(s.running)
           selected == FirstOf(kept, room)
<1>1. /\ s.waiting \in Seq(SchedIds) /\ s.running \in Seq(SchedIds)
      /\ IsInjective(s.waiting) /\ Len(s.running) <= MaxRunning
  BY SchedulerFields DEF SchedulerOK, QueuedOnce, WithinCapacity
<1>2. j \in Nat /\ i \in DOMAIN s.waiting /\ i < j
  BY <1>1, LenProperties
<1>3. s.waiting[i] \in S
  <2>1. s.waiting[i] \in Range(s.waiting) /\ s.waiting[i] \notin Deferred(s)
    BY <1>2 DEF Deferred, Range
  <2>2. s.waiting[i] \in Range(Candidates(s))
    BY <1>1, <2>1, WithoutProperties DEF Candidates
  <2> QED BY <2>2 DEF Joining
<1>4. kept \in Seq(SchedIds) /\ room \in Nat
  BY <1>1, KeepProperties, LenProperties, SchedulerAssumption
<1>5. SelectWaiting(s) = selected
  BY DEF SelectWaiting
<1> HIDE DEF S, room
<1>6. /\ DOMAIN selected \subseteq DOMAIN kept
      /\ \A k \in DOMAIN selected : selected[k] = kept[k] /\ 1..k \subseteq DOMAIN selected
  <2> HIDE DEF kept
  <2> QED BY <1>4, FirstOfProperties
<1>7. PICK b \in DOMAIN selected : selected[b] = s.waiting[j]
  BY <1>5 DEF Range
<1>8. b \in DOMAIN kept /\ kept[b] = s.waiting[j]
  BY <1>6, <1>7
<1>9. PICK a \in DOMAIN kept : a < b /\ kept[a] = s.waiting[i]
  BY <1>1, <1>2, <1>3, <1>8, KeepOrder
<1>10. DOMAIN kept = 1..Len(kept) /\ Len(kept) \in Nat
  BY <1>4, LenProperties
<1>11. a \in 1..b
  <2> HIDE DEF kept
  <2> QED BY <1>8, <1>9, <1>10
<1>12. a \in DOMAIN selected /\ selected[a] = s.waiting[i]
  BY <1>6, <1>7, <1>9, <1>11
<1> HIDE DEF selected
<1> QED BY <1>5, <1>12 DEF Range

(* Only schedule() sets a request running. *)
LEMMA OnlyScheduleStarts ==
  ASSUME BatchInvariant, [Next]_vars, ~Schedule,
         NEW y \in SchedIds, sched.status[y] # "RUNNING"
  PROVE  sched'.status[y] # "RUNNING"
<1>1. /\ SchedulerOK(sched) /\ Scheduled(batch) \in Seq(SchedIds)
      /\ IsInjective(Scheduled(batch)) /\ sched \in Scheduler
  BY DEF BatchInvariant, Consistent, SchedulerOK
<1>2. CASE UNCHANGED vars
  BY <1>2 DEF vars
<1>3. ASSUME NEW r \in Reqs, Add(r)
      PROVE  sched'.status[y] # "RUNNING"
  <2>1. PICK x \in SchedIds : sched' = AddRequest(sched, r, x)
    BY <1>3 DEF Add
  <2> QED BY <1>1, <2>1, AddRequestStatus
<1>4. CASE Update
  <2>1. PICK ro : sched' = UpdateFromOutput(sched, batch, ro)
    BY <1>4 DEF Update
  <2> QED BY <1>1, <2>1, UpdateFromOutputFields
<1>5. ASSUME NEW x \in SchedIds, Finish(x)
      PROVE  sched'.status[y] # "RUNNING"
  BY <1>1, <1>5, FinishRequestsStatus DEF Finish
<1>6. ASSUME NEW x \in SchedIds, Preempt(x)
      PROVE  sched'.status[y] # "RUNNING"
  BY <1>1, <1>6 DEF Preempt, PreemptRequest, Scheduler
<1>7. ASSUME NEW x \in SchedIds, Pop(x)
      PROVE  sched'.status[y] # "RUNNING"
  BY <1>1, <1>7, PopRequestStatesFields DEF Pop
<1>8. CASE Close
  BY <1>8 DEF Close, EmptyScheduler
<1> QED BY <1>2, <1>3, <1>4, <1>5, <1>6, <1>7, <1>8 DEF Next

(* In fifo order no request is started while one that never ran stays      *)
(* queued ahead of it, for every batch size and either execution mode.     *)
THEOREM StartsInQueueOrder == Spec => NoOvertaking
<1>1. BatchInvariant /\ [Next]_vars => [StartsInOrder]_vars
  <2> SUFFICES ASSUME BatchInvariant, [Next]_vars, Strategy = "fifo",
                      NEW j \in DOMAIN sched.waiting, NEW i \in 1..(j - 1),
                      sched.status[sched.waiting[i]] = "WAITING",
                      sched'.status[sched.waiting[j]] = "RUNNING"
               PROVE  sched'.status[sched.waiting[i]] # "WAITING"
    BY DEF StartsInOrder
  <2>1. SchedulerOK(sched) /\ sched \in Scheduler /\ sched.waiting \in Seq(SchedIds)
    BY SchedulerFields DEF BatchInvariant, Consistent, SchedulerOK
  <2>2. /\ sched.waiting[j] \in SchedIds /\ sched.waiting[j] \in Range(sched.waiting)
        /\ sched.waiting[i] \in SchedIds
    BY <2>1, LenProperties DEF Range
  <2>3. sched.status[sched.waiting[j]] # "RUNNING"
    BY <2>1, <2>2 DEF SchedulerOK, StatusAgreesWithQueues
  <2>4. Schedule
    BY <2>2, <2>3, OnlyScheduleStarts
  <2>5. sched' = AfterSchedule(sched)
    BY <2>4 DEF Schedule
  <2>6. sched.waiting[j] \in Range(SelectWaiting(sched))
    BY <2>1, <2>2, <2>3, <2>5, AfterScheduleFields
  <2>7. sched.waiting[i] \in Range(SelectWaiting(sched))
    BY <2>1, <2>6, SelectionInOrder
  <2> QED BY <2>1, <2>2, <2>5, <2>7, AfterScheduleFields
<1> QED BY <1>1, BatchInvariantHolds, PTL DEF Spec, NoOvertaking
===============================================================================
