----------------------- MODULE DiffusionScheduler_proofs -----------------------
(***************************************************************************)
(* Every method of the scheduler keeps SchedulerOK, for any set of         *)
(* requests, ids, capacity and strategy.  The lemmas are used by the       *)
(* proofs about the state machines that call the methods.                  *)
(***************************************************************************)
EXTENDS DiffusionScheduler, QueueOps_proofs

(* What the fields of a scheduler hold. *)
LEMMA SchedulerFields ==
  ASSUME NEW s, s \in Scheduler
  PROVE  /\ s.status \in [SchedIds -> Status]
         /\ s.req \in [SchedIds -> Reqs \cup {NoReq}]
         /\ s.owner \in [Ids -> SchedIds \cup {NoSched}]
         /\ s.waiting \in Seq(SchedIds)
         /\ s.running \in Seq(SchedIds)
         /\ s.finished \in SUBSET SchedIds
         /\ s = [status |-> s.status, req |-> s.req, owner |-> s.owner,
                 waiting |-> s.waiting, running |-> s.running, finished |-> s.finished]
BY DEF Scheduler

(* A method that leaves requests and ids alone keeps SchedulerOK when it   *)
(* keeps the queues in order.                                              *)
LEMMA QueuesSuffice ==
  ASSUME NEW s, SchedulerOK(s),
         NEW status \in [SchedIds -> Status],
         NEW waiting \in Seq(SchedIds), NEW running \in Seq(SchedIds),
         NEW finished \in SUBSET SchedIds,
         NEW t, t = [s EXCEPT !.status = status, !.waiting = waiting,
                              !.running = running, !.finished = finished],
         QueuedOnce(t), StatusAgreesWithQueues(t), WithinCapacity(t),
         \A x \in SchedIds : status[x] = "NONE" <=> s.status[x] = "NONE"
  PROVE  SchedulerOK(t)
<1>1. s \in Scheduler /\ OwnersExist(s) /\ StatesHaveRequests(s)
  BY DEF SchedulerOK
<1>2. t = [status |-> status, req |-> s.req, owner |-> s.owner,
           waiting |-> waiting, running |-> running, finished |-> finished]
  BY <1>1 DEF Scheduler
<1>3. t \in Scheduler
  BY <1>1, <1>2, SchedulerFields DEF Scheduler
<1>4. OwnersExist(t) /\ StatesHaveRequests(t)
  BY <1>1, <1>2 DEF OwnersExist, StatesHaveRequests
<1> QED BY <1>3, <1>4 DEF SchedulerOK

(* _finish_requests changes the status of the live ones it is given only,  *)
(* records them as finished, and keeps SchedulerOK.                        *)
LEMMA FinishRequestsStatus ==
  ASSUME NEW s, s \in Scheduler, NEW X, NEW status, NEW x \in SchedIds
  PROVE  FinishRequests(s, X, status).status[x] =
           IF x \in Live(s, X) THEN status ELSE s.status[x]
BY DEF FinishRequests, Scheduler

(* The ids it finishes are added to those the next schedule reports.       *)
LEMMA FinishRequestsFinished ==
  ASSUME NEW s, s \in Scheduler, NEW X, NEW status
  PROVE  FinishRequests(s, X, status).finished = s.finished \cup Live(s, X)
BY DEF FinishRequests, Scheduler

(* Finishing requests keeps the scheduler consistent.                      *)
LEMMA FinishRequestsOK ==
  ASSUME NEW s, SchedulerOK(s), NEW X \in SUBSET SchedIds, NEW status \in Finished
  PROVE  SchedulerOK(FinishRequests(s, X, status))
<1> DEFINE live == Live(s, X)
           t == FinishRequests(s, X, status)
           st == [x \in SchedIds |-> IF x \in live THEN status ELSE s.status[x]]
           w == Without(s.waiting, live)
           r == Without(s.running, live)
<1>1. s \in Scheduler /\ QueuedOnce(s) /\ StatusAgreesWithQueues(s) /\ WithinCapacity(s)
  BY DEF SchedulerOK
<1>2. /\ s.waiting \in Seq(SchedIds) /\ s.running \in Seq(SchedIds)
      /\ s.status \in [SchedIds -> Status] /\ s.finished \in SUBSET SchedIds
  BY <1>1, SchedulerFields
<1>3. t = [s EXCEPT !.status = st, !.waiting = w, !.running = r, !.finished = s.finished \cup live]
  BY <1>1 DEF FinishRequests, Scheduler
<1>4. /\ t.status = st /\ t.waiting = w /\ t.running = r
      /\ t.finished = s.finished \cup live
  BY <1>1, <1>3 DEF Scheduler
<1>5. /\ w \in Seq(SchedIds) /\ Range(w) = Range(s.waiting) \ live
      /\ r \in Seq(SchedIds) /\ Range(r) = Range(s.running) \ live
      /\ IsInjective(w) /\ IsInjective(r)
  BY <1>1, <1>2, WithoutProperties DEF QueuedOnce
<1>6. st \in [SchedIds -> Status] /\ live \in SUBSET SchedIds
  BY <1>2 DEF Status, Live
<1> HIDE DEF t, w, r
<1>7. QueuedOnce(t)
  BY <1>1, <1>4, <1>5 DEF QueuedOnce
<1>8. StatusAgreesWithQueues(t)
  BY <1>1, <1>2, <1>4, <1>5 DEF StatusAgreesWithQueues, Finished, Queued, Status, Live
<1>9. WithinCapacity(t)
  <2>1. Len(r) <= Len(s.running)
    BY <1>1, <1>2, <1>5, ShorterByRange DEF QueuedOnce
  <2>2. Len(r) \in Nat /\ Len(s.running) \in Nat /\ MaxRunning \in Nat
    BY <1>2, <1>5, LenProperties, SchedulerAssumption
  <2> QED BY <1>1, <1>4, <2>1, <2>2 DEF WithinCapacity
<1>10. \A x \in SchedIds : st[x] = "NONE" <=> s.status[x] = "NONE"
  BY DEF Finished, Queued, Live
<1>11. SchedulerOK(t)
  <2>1. s.finished \cup live \in SUBSET SchedIds
    BY <1>2, <1>6
  <2> HIDE DEF st, live
  <2> QED BY <1>3, <1>5, <1>6, <1>7, <1>8, <1>9, <1>10, <2>1, QueuesSuffice
<1> QED BY <1>4, <1>11 DEF t

(* initialize and close *)
LEMMA EmptySchedulerOK == SchedulerOK(EmptyScheduler)
<1> DEFINE s == EmptyScheduler
<1>1. /\ s.status = [x \in SchedIds |-> "NONE"] /\ s.req = [x \in SchedIds |-> NoReq]
      /\ s.owner = [i \in Ids |-> NoSched]
      /\ s.waiting = <<>> /\ s.running = <<>> /\ s.finished = {}
      /\ s \in Scheduler
  BY DEF EmptyScheduler, Scheduler, Status
<1> HIDE DEF s
<1>2. Range(s.waiting) = {} /\ Range(s.running) = {}
  BY <1>1 DEF Range
<1>3. QueuedOnce(s)
  BY <1>1, <1>2 DEF QueuedOnce, IsInjective
<1>4. StatusAgreesWithQueues(s)
  BY <1>1, <1>2 DEF StatusAgreesWithQueues
<1>5. WithinCapacity(s)
  BY <1>1, SchedulerAssumption DEF WithinCapacity
<1>6. OwnersExist(s) /\ StatesHaveRequests(s)
  BY <1>1 DEF OwnersExist, StatesHaveRequests
<1> QED BY <1>1, <1>3, <1>4, <1>5, <1>6 DEF SchedulerOK, s

(* add_request, whether it succeeds or raises: no id in use is given out. *)
LEMMA AddRequestOK ==
  ASSUME NEW s, SchedulerOK(s), NEW r \in Reqs, NEW x, IsSchedReqId(s, r, x)
  PROVE  /\ SchedulerOK(AddRequest(s, r, x))
         /\ HasRequests(s) => HasRequests(AddRequest(s, r, x))
         /\ AddRequest(s, r, x).finished = s.finished
         /\ AddRequest(s, r, x).running = s.running
<1> DEFINE ids == RequestIds[r]
           mapped == {ids[k] : k \in {j \in DOMAIN ids : \A c \in Conflicts(s, r) : j < c}}
           t == AddRequest(s, r, x)
           w == IF Accepts(s, r) THEN Append(s.waiting, x) ELSE s.waiting
<1>1. /\ s \in Scheduler /\ QueuedOnce(s) /\ StatusAgreesWithQueues(s) /\ WithinCapacity(s)
      /\ OwnersExist(s) /\ StatesHaveRequests(s)
  BY DEF SchedulerOK
<1>2. /\ s.waiting \in Seq(SchedIds) /\ s.running \in Seq(SchedIds)
      /\ s.status \in [SchedIds -> Status] /\ s.finished \in SUBSET SchedIds
      /\ s.req \in [SchedIds -> Reqs \cup {NoReq}]
      /\ s.owner \in [Ids -> SchedIds \cup {NoSched}]
  BY <1>1, SchedulerFields
<1>3. x \in SchedIds /\ s.status[x] = "NONE" /\ s.req[x] = NoReq
  BY <1>1 DEF IsSchedReqId, StatesHaveRequests
<1>4. t = [status |-> [s.status EXCEPT ![x] = "WAITING"], req |-> [s.req EXCEPT ![x] = r],
           owner |-> [i \in Ids |-> IF i \in mapped THEN x ELSE s.owner[i]],
           waiting |-> w, running |-> s.running, finished |-> s.finished]
  <2> DEFINE st == [s.status EXCEPT ![x] = "WAITING"]
             rq == [s.req EXCEPT ![x] = r]
             ow == [i \in Ids |-> IF i \in mapped THEN x ELSE s.owner[i]]
  <2>1. t = [s EXCEPT !.status = st, !.req = rq, !.owner = ow, !.waiting = w]
    BY <1>1 DEF AddRequest, Scheduler
  <2> HIDE DEF st, rq, ow, w, t
  <2>2. t = [status |-> st, req |-> rq, owner |-> ow, waiting |-> w,
             running |-> s.running, finished |-> s.finished]
    BY <1>1, <2>1 DEF Scheduler
  <2> QED BY <2>2 DEF st, rq, ow
<1>5. mapped \subseteq Range(RequestIds[r])
  BY DEF Range
<1>6. x \notin Range(s.waiting) /\ x \notin Range(s.running)
  BY <1>1, <1>3 DEF StatusAgreesWithQueues
<1>7. /\ w \in Seq(SchedIds) /\ IsInjective(w)
      /\ Range(w) = Range(s.waiting) \cup (IF Accepts(s, r) THEN {x} ELSE {})
  BY <1>1, <1>2, <1>3, <1>6, AppendQueueProperties DEF QueuedOnce
<1>8. HasRequests(s) => w # <<>> \/ s.running # <<>>
  BY <1>2, <1>3, AppendProperties DEF HasRequests
<1> HIDE DEF w, t, mapped
<1>9. t \in Scheduler
  BY <1>2, <1>3, <1>4, <1>7 DEF Scheduler, Status, Queued
<1>10. QueuedOnce(t)
  BY <1>1, <1>4, <1>6, <1>7 DEF QueuedOnce
<1>11. StatusAgreesWithQueues(t)
  BY <1>1, <1>2, <1>3, <1>4, <1>6, <1>7 DEF StatusAgreesWithQueues
<1>12. WithinCapacity(t)
  BY <1>1, <1>4 DEF WithinCapacity
<1>13. StatesHaveRequests(t)
  BY <1>1, <1>2, <1>3, <1>4, SchedulerAssumption DEF StatesHaveRequests
<1>14. OwnersExist(t)
  <2> SUFFICES ASSUME NEW i \in Ids, t.owner[i] # NoSched
               PROVE  /\ t.req[t.owner[i]] \in Reqs
                      /\ i \in Range(RequestIds[t.req[t.owner[i]]])
    BY DEF OwnersExist
  <2>1. CASE i \in mapped
    BY <1>2, <1>3, <1>4, <1>5, <2>1
  <2>2. CASE i \notin mapped
    <3>1. t.owner[i] = s.owner[i] /\ s.owner[i] \in SchedIds
      BY <1>2, <1>4, <2>2
    <3>2. s.req[s.owner[i]] \in Reqs /\ i \in Range(RequestIds[s.req[s.owner[i]]])
      BY <1>1, <3>1 DEF OwnersExist
    <3>3. s.owner[i] # x
      BY <1>3, <3>2, SchedulerAssumption
    <3> QED BY <1>2, <1>4, <3>1, <3>2, <3>3
  <2> QED BY <2>1, <2>2
<1>15. SchedulerOK(t)
  BY <1>9, <1>10, <1>11, <1>12, <1>13, <1>14 DEF SchedulerOK
<1> QED BY <1>4, <1>8, <1>15 DEF t, HasRequests

(* It changes no other status. *)
LEMMA AddRequestStatus ==
  ASSUME NEW s, s \in Scheduler, NEW r, NEW x \in SchedIds, NEW y \in SchedIds
  PROVE  AddRequest(s, r, x).status[y] = IF y = x THEN "WAITING" ELSE s.status[y]
BY DEF AddRequest, Scheduler

(* pop_request_state, of requests that are over *)
LEMMA PopRequestStatesOK ==
  ASSUME NEW s, SchedulerOK(s), NEW X \in SUBSET SchedIds,
         \A x \in X : s.status[x] \notin Queued
  PROVE  /\ SchedulerOK(PopRequestStates(s, X))
         /\ PopRequestStates(s, X).finished = s.finished
<1> DEFINE t == PopRequestStates(s, X)
<1>1. /\ s \in Scheduler /\ QueuedOnce(s) /\ StatusAgreesWithQueues(s) /\ WithinCapacity(s)
      /\ OwnersExist(s) /\ StatesHaveRequests(s)
  BY DEF SchedulerOK
<1>2. /\ s.waiting \in Seq(SchedIds) /\ s.running \in Seq(SchedIds)
      /\ s.status \in [SchedIds -> Status] /\ s.finished \in SUBSET SchedIds
      /\ s.req \in [SchedIds -> Reqs \cup {NoReq}]
      /\ s.owner \in [Ids -> SchedIds \cup {NoSched}]
  BY <1>1, SchedulerFields
<1>3. t = [status |-> [x \in SchedIds |-> IF x \in X THEN "NONE" ELSE s.status[x]],
           req |-> [x \in SchedIds |-> IF x \in X THEN NoReq ELSE s.req[x]],
           owner |-> [i \in Ids |-> IF s.owner[i] \in X THEN NoSched ELSE s.owner[i]],
           waiting |-> s.waiting, running |-> s.running, finished |-> s.finished]
  <2> DEFINE st == [x \in SchedIds |-> IF x \in X THEN "NONE" ELSE s.status[x]]
             rq == [x \in SchedIds |-> IF x \in X THEN NoReq ELSE s.req[x]]
             ow == [i \in Ids |-> IF s.owner[i] \in X THEN NoSched ELSE s.owner[i]]
  <2>1. t = [s EXCEPT !.status = st, !.req = rq, !.owner = ow]
    BY DEF PopRequestStates
  <2> HIDE DEF st, rq, ow, t
  <2>2. t = [status |-> st, req |-> rq, owner |-> ow, waiting |-> s.waiting,
             running |-> s.running, finished |-> s.finished]
    BY <1>1, <2>1 DEF Scheduler
  <2> QED BY <2>2 DEF st, rq, ow
<1> HIDE DEF t
<1>4. t \in Scheduler
  BY <1>2, <1>3 DEF Scheduler, Status
<1>5. QueuedOnce(t) /\ WithinCapacity(t)
  BY <1>1, <1>3 DEF QueuedOnce, WithinCapacity
<1>6. StatusAgreesWithQueues(t)
  BY <1>1, <1>2, <1>3 DEF StatusAgreesWithQueues, Queued
<1>7. StatesHaveRequests(t)
  BY <1>1, <1>2, <1>3 DEF StatesHaveRequests
<1>8. OwnersExist(t)
  <2> SUFFICES ASSUME NEW i \in Ids, t.owner[i] # NoSched
               PROVE  /\ t.req[t.owner[i]] \in Reqs
                      /\ i \in Range(RequestIds[t.req[t.owner[i]]])
    BY DEF OwnersExist
  <2>1. t.owner[i] = s.owner[i] /\ s.owner[i] \in SchedIds /\ s.owner[i] \notin X
    BY <1>2, <1>3
  <2> QED BY <1>1, <1>3, <2>1 DEF OwnersExist
<1> QED BY <1>3, <1>4, <1>5, <1>6, <1>7, <1>8 DEF SchedulerOK, t

(* preempt_request *)
LEMMA PreemptRequestOK ==
  ASSUME NEW s, SchedulerOK(s), NEW x \in SchedIds
  PROVE  SchedulerOK(PreemptRequest(s, x))
<1>1. CASE x \notin Range(s.running)
  BY <1>1 DEF PreemptRequest
<1>2. CASE x \in Range(s.running)
  <2> DEFINE t == PreemptRequest(s, x)
             st == [s.status EXCEPT ![x] = "PREEMPTED"]
             r == Without(s.running, {x})
             front == <<x>>
             w == front \o s.waiting
  <2>1. /\ s \in Scheduler /\ QueuedOnce(s) /\ StatusAgreesWithQueues(s) /\ WithinCapacity(s)
        /\ s.waiting \in Seq(SchedIds) /\ s.running \in Seq(SchedIds)
        /\ s.status \in [SchedIds -> Status] /\ s.finished \in SUBSET SchedIds
    BY SchedulerFields DEF SchedulerOK
  <2>2. t = [s EXCEPT !.status = st, !.waiting = w, !.running = r, !.finished = s.finished]
    BY <1>2, <2>1 DEF PreemptRequest, Scheduler
  <2>3. t.status = st /\ t.waiting = w /\ t.running = r
    BY <2>1, <2>2 DEF Scheduler
  <2>4. front \in Seq(SchedIds) /\ Range(front) = {x} /\ IsInjective(front)
    BY DEF Range, IsInjective
  <2>5. x \notin Range(s.waiting) /\ s.status[x] = "RUNNING"
    BY <1>2, <2>1 DEF QueuedOnce, StatusAgreesWithQueues
  <2> HIDE DEF front
  <2>6. w \in Seq(SchedIds) /\ Range(w) = {x} \cup Range(s.waiting) /\ IsInjective(w)
    <3>1. w \in Seq(SchedIds) /\ Range(w) = {x} \cup Range(s.waiting)
      BY <2>1, <2>4, ConcatProperties, RangeConcatenation
    <3>2. IsInjective(w)
      BY <2>1, <2>4, <2>5, ConcatInjective DEF QueuedOnce
    <3> QED BY <3>1, <3>2
  <2>7. r \in Seq(SchedIds) /\ Range(r) = Range(s.running) \ {x} /\ IsInjective(r)
    BY <2>1, WithoutProperties DEF QueuedOnce
  <2>8. st \in [SchedIds -> Status]
    BY <2>1 DEF Status, Queued
  <2> HIDE DEF t, w, r
  <2>9. QueuedOnce(t)
    BY <2>1, <2>3, <2>5, <2>6, <2>7 DEF QueuedOnce
  <2>10. StatusAgreesWithQueues(t)
    BY <2>1, <2>3, <2>5, <2>6, <2>7 DEF StatusAgreesWithQueues
  <2>11. WithinCapacity(t)
    <3>1. Len(r) <= Len(s.running)
      BY <2>1, <2>7, ShorterByRange DEF QueuedOnce
    <3>2. Len(r) \in Nat /\ Len(s.running) \in Nat /\ MaxRunning \in Nat
      BY <2>1, <2>7, LenProperties, SchedulerAssumption
    <3> QED BY <2>1, <2>3, <3>1, <3>2 DEF WithinCapacity
  <2>12. \A y \in SchedIds : st[y] = "NONE" <=> s.status[y] = "NONE"
    BY <2>1, <2>5
  <2>13. SchedulerOK(t)
    <3> HIDE DEF st
    <3> QED BY <2>1, <2>2, <2>6, <2>7, <2>8, <2>9, <2>10, <2>11, <2>12, QueuesSuffice
  <2> QED BY <2>13 DEF t
<1> QED BY <1>1, <1>2

(* What is selected waits, is there once, and fits. *)
LEMMA SelectWaitingProperties ==
  ASSUME NEW s, SchedulerOK(s)
  PROVE  /\ SelectWaiting(s) \in Seq(SchedIds)
         /\ IsInjective(SelectWaiting(s))
         /\ Range(SelectWaiting(s)) \subseteq Range(s.waiting)
         /\ Len(SelectWaiting(s)) + Len(s.running) <= MaxRunning
<1> DEFINE kept == Keep(s.waiting, Anchors(s) \cup Joining(s))
           room == MaxRunning - Len(s.running)
<1>1. /\ s.waiting \in Seq(SchedIds) /\ s.running \in Seq(SchedIds)
      /\ IsInjective(s.waiting) /\ Len(s.running) <= MaxRunning
  BY SchedulerFields DEF SchedulerOK, QueuedOnce, WithinCapacity
<1>2. kept \in Seq(SchedIds) /\ Range(kept) \subseteq Range(s.waiting) /\ IsInjective(kept)
  BY <1>1, KeepProperties
<1>3. room \in Nat /\ Len(s.running) \in Nat /\ MaxRunning \in Nat
  BY <1>1, LenProperties, SchedulerAssumption
<1>4. SelectWaiting(s) = FirstOf(kept, room)
  BY DEF SelectWaiting
<1> HIDE DEF kept, room
<1>5. /\ SelectWaiting(s) \in Seq(SchedIds)
      /\ IsInjective(SelectWaiting(s))
      /\ Range(SelectWaiting(s)) \subseteq Range(s.waiting)
      /\ Len(SelectWaiting(s)) <= room
  BY <1>2, <1>3, <1>4, FirstOfProperties
<1>6. Len(SelectWaiting(s)) \in Nat
  BY <1>5, LenProperties
<1> QED BY <1>3, <1>5, <1>6 DEF room

(* schedule *)
LEMMA AfterScheduleOK ==
  ASSUME NEW s, SchedulerOK(s)
  PROVE  /\ SchedulerOK(AfterSchedule(s))
         /\ AfterSchedule(s).finished = {}
         /\ Range(AfterSchedule(s).running) = Range(s.running) \cup Range(SelectWaiting(s))
<1> DEFINE sel == SelectWaiting(s)
           t == AfterSchedule(s)
           st == [x \in SchedIds |-> IF x \in Range(sel) THEN "RUNNING" ELSE s.status[x]]
           w == Without(s.waiting, Range(sel))
           r == s.running \o sel
           none == {}
<1>1. /\ s \in Scheduler /\ QueuedOnce(s) /\ StatusAgreesWithQueues(s) /\ WithinCapacity(s)
      /\ s.waiting \in Seq(SchedIds) /\ s.running \in Seq(SchedIds)
      /\ s.status \in [SchedIds -> Status]
  BY SchedulerFields DEF SchedulerOK
<1>2. /\ sel \in Seq(SchedIds) /\ IsInjective(sel) /\ Range(sel) \subseteq Range(s.waiting)
      /\ Len(sel) + Len(s.running) <= MaxRunning
  BY SelectWaitingProperties
<1>3. t = [s EXCEPT !.status = st, !.waiting = w, !.running = r, !.finished = none]
  BY <1>1 DEF AfterSchedule, Scheduler
<1>4. t.status = st /\ t.waiting = w /\ t.running = r /\ t.finished = {}
  BY <1>1, <1>3 DEF Scheduler
<1>5. st \in [SchedIds -> Status] /\ none \in SUBSET SchedIds
  BY <1>1 DEF Status, Queued
<1> HIDE DEF sel, t
<1>6. w \in Seq(SchedIds) /\ Range(w) = Range(s.waiting) \ Range(sel) /\ IsInjective(w)
  BY <1>1, WithoutProperties DEF QueuedOnce
<1>7. r \in Seq(SchedIds) /\ Range(r) = Range(s.running) \cup Range(sel)
      /\ Len(r) = Len(s.running) + Len(sel)
  BY <1>1, <1>2, ConcatProperties, RangeConcatenation
<1>8. IsInjective(r)
  BY <1>1, <1>2, ConcatInjective DEF QueuedOnce
<1> HIDE DEF w, r
<1>9. QueuedOnce(t)
  BY <1>1, <1>2, <1>4, <1>6, <1>7, <1>8 DEF QueuedOnce
<1>10. StatusAgreesWithQueues(t)
  BY <1>1, <1>2, <1>4, <1>6, <1>7 DEF StatusAgreesWithQueues
<1>11. WithinCapacity(t)
  <2>1. Len(s.running) \in Nat /\ Len(sel) \in Nat
    BY <1>1, <1>2, LenProperties
  <2> QED BY <1>2, <1>4, <1>7, <2>1 DEF WithinCapacity
<1>12. \A y \in SchedIds : st[y] = "NONE" <=> s.status[y] = "NONE"
  BY <1>1, <1>2 DEF StatusAgreesWithQueues
<1>13. SchedulerOK(t)
  <2> HIDE DEF st, none
  <2> QED BY <1>3, <1>5, <1>6, <1>7, <1>9, <1>10, <1>11, <1>12, QueuesSuffice
<1> QED BY <1>4, <1>7, <1>13 DEF t, sel

(* The output of schedule names exactly the requests that run from now on, *)
(* each once.                                                              *)
LEMMA OutputProperties ==
  ASSUME NEW s, SchedulerOK(s)
  PROVE  /\ Output(s) \in SchedulerOutput
         /\ Output(s).finished = s.finished
         /\ Scheduled(Output(s)) \in Seq(SchedIds)
         /\ IsInjective(Scheduled(Output(s)))
         /\ Range(Scheduled(Output(s))) = Range(AfterSchedule(s).running)
<1> DEFINE sel == SelectWaiting(s)
           fresh == {x \in Range(sel) : s.status[x] = "WAITING"}
           new == Keep(sel, fresh)
           again == Without(sel, fresh)
           cached == s.running \o again
<1>1. /\ s \in Scheduler /\ QueuedOnce(s)
      /\ s.waiting \in Seq(SchedIds) /\ s.running \in Seq(SchedIds)
      /\ s.finished \in SUBSET SchedIds
  BY SchedulerFields DEF SchedulerOK
<1>2. sel \in Seq(SchedIds) /\ IsInjective(sel) /\ Range(sel) \subseteq Range(s.waiting)
  BY SelectWaitingProperties
<1>3. Output(s) = [new |-> new, cached |-> cached, finished |-> s.finished]
  BY DEF Output
<1> HIDE DEF sel
<1>4. /\ new \in Seq(SchedIds) /\ IsInjective(new) /\ Range(new) = Range(sel) \cap fresh
      /\ again \in Seq(SchedIds) /\ IsInjective(again) /\ Range(again) = Range(sel) \ fresh
  BY <1>2, KeepProperties, WithoutProperties
<1> HIDE DEF new, again, fresh
<1>5. /\ cached \in Seq(SchedIds) /\ Range(cached) = Range(s.running) \cup Range(again)
      /\ IsInjective(cached)
  <2>1. cached \in Seq(SchedIds) /\ Range(cached) = Range(s.running) \cup Range(again)
    BY <1>1, <1>4, ConcatProperties, RangeConcatenation
  <2>2. Range(s.running) \cap Range(again) = {}
    BY <1>1, <1>2, <1>4 DEF QueuedOnce
  <2>3. IsInjective(cached)
    BY <1>1, <1>4, <2>2, ConcatInjective DEF QueuedOnce
  <2> QED BY <2>1, <2>3
<1> HIDE DEF cached
<1>6. Range(new) \cap Range(cached) = {}
  BY <1>1, <1>2, <1>4, <1>5 DEF QueuedOnce
<1>7. /\ new \o cached \in Seq(SchedIds) /\ IsInjective(new \o cached)
      /\ Range(new \o cached) = Range(new) \cup Range(cached)
  BY <1>4, <1>5, <1>6, ConcatProperties, RangeConcatenation, ConcatInjective
<1>8. Range(new) \cup Range(cached) = Range(s.running) \cup Range(sel)
  BY <1>4, <1>5
<1>9. Range(AfterSchedule(s).running) = Range(s.running) \cup Range(sel)
  BY AfterScheduleOK DEF sel
<1>10. Output(s) \in SchedulerOutput /\ Scheduled(Output(s)) = new \o cached
  BY <1>1, <1>3, <1>4, <1>5 DEF SchedulerOutput, Scheduled
<1>11. Output(s).finished = s.finished
  BY <1>3
<1> QED BY <1>7, <1>8, <1>9, <1>10, <1>11, Zenon

(* schedule never comes back empty-handed while there are requests: the    *)
(* driver would otherwise spin on them.                                    *)
LEMMA ScheduleProgress ==
  ASSUME NEW s, SchedulerOK(s), HasRequests(s)
  PROVE  Scheduled(Output(s)) # <<>>
<1>1. /\ s.waiting \in Seq(SchedIds) /\ s.running \in Seq(SchedIds)
      /\ IsInjective(s.waiting)
  BY SchedulerFields DEF SchedulerOK, QueuedOnce
<1>2. Scheduled(Output(s)) \in Seq(SchedIds)
      /\ Range(Scheduled(Output(s))) = Range(s.running) \cup Range(SelectWaiting(s))
  BY OutputProperties, AfterScheduleOK
<1>3. CASE s.running # <<>>
  <2>1. Range(s.running) # {}
    BY <1>1, <1>3, NonEmptyQueue
  <2>2. Range(<<>>) = {}
    BY DEF Range
  <2> QED BY <1>2, <2>1, <2>2
<1>4. CASE s.running = <<>>
  <2> DEFINE cand == Candidates(s)
             kept == Keep(s.waiting, Anchors(s) \cup Joining(s))
             first == cand[1]
  <2>1. s.waiting # <<>> /\ Range(s.waiting) # {}
    BY <1>1, <1>4, NonEmptyQueue DEF HasRequests
  <2>2. Range(s.waiting) \ Deferred(s) # {}
    BY <2>1 DEF Deferred, HasPreferredWaiting
  <2>3. cand \in Seq(SchedIds) /\ Range(cand) = Range(s.waiting) \ Deferred(s)
    BY <1>1, WithoutProperties DEF Candidates
  <2> HIDE DEF cand
  <2>4. cand # <<>> /\ first \in Range(cand)
    BY <2>2, <2>3, NonEmptyQueue
  <2>5. first \in Anchors(s)
    BY <1>4, <2>4 DEF Anchors, cand
  <2>6. kept \in Seq(SchedIds) /\ first \in Range(kept)
    BY <1>1, <2>3, <2>4, <2>5, KeepProperties
  <2>7. Len(kept) \in Nat \ {0}
    <3>1. Range(kept) # {}
      BY <2>6
    <3> HIDE DEF kept
    <3> QED BY <2>6, <3>1, NonEmptyQueue
  <2> HIDE DEF kept
  <2>8. Len(s.running) = 0
    BY <1>4
  <2>9. SelectWaiting(s) = FirstOf(kept, MaxRunning)
    BY <2>8, SchedulerAssumption DEF SelectWaiting, kept
  <2>10. FirstOf(kept, MaxRunning) # <<>>
    BY <2>6, <2>7, FirstOfProperties, SchedulerAssumption
  <2>11. Range(SelectWaiting(s)) # {}
    <3>1. SelectWaiting(s) \in Seq(SchedIds) /\ SelectWaiting(s) # <<>>
      BY <2>9, <2>10, SelectWaitingProperties
    <3> QED BY <3>1, NonEmptyQueue
  <2>12. Range(<<>>) = {}
    BY DEF Range
  <2> QED BY <1>2, <2>11, <2>12
<1> QED BY <1>3, <1>4

(* The finishing half of update_from_output: being recorded as finished    *)
(* and having a terminal status go together when they did so before.       *)
LEMMA TerminatedOK ==
  ASSUME NEW s, SchedulerOK(s), NEW out, Scheduled(out) \in Seq(SchedIds), NEW ro
  PROVE  /\ SchedulerOK(Terminated(s, out, ro))
         /\ \A x \in SchedIds :
              /\ (x \in s.finished => s.status[x] \in Finished) =>
                   (x \in Terminated(s, out, ro).finished =>
                      Terminated(s, out, ro).status[x] \in Finished)
              /\ (s.status[x] \in Finished => x \in s.finished) =>
                   (Terminated(s, out, ro).status[x] \in Finished =>
                      x \in Terminated(s, out, ro).finished)
<1> DEFINE live == Live(s, Range(Scheduled(out)))
           failed == {x \in live : Failed(ro, x)}
           completed == {x \in live : Completed(ro, x)}
           f == FinishRequests(s, failed, "ERROR")
           t == FinishRequests(f, completed, "COMPLETED")
<1>1. live \in SUBSET SchedIds
  BY RangeOfSeq DEF Live
<1>2. failed \in SUBSET SchedIds /\ completed \in SUBSET SchedIds
  BY <1>1
<1>3. "ERROR" \in Finished /\ "COMPLETED" \in Finished
  BY DEF Finished
<1>4. Terminated(s, out, ro) = t
  BY DEF Terminated
<1> HIDE DEF failed, completed
<1>5. SchedulerOK(f) /\ f \in Scheduler /\ s \in Scheduler
  BY <1>2, <1>3, FinishRequestsOK DEF SchedulerOK
<1>6. /\ f.finished = s.finished \cup Live(s, failed)
      /\ \A x \in SchedIds : f.status[x] = IF x \in Live(s, failed) THEN "ERROR" ELSE s.status[x]
  BY <1>5, FinishRequestsFinished, FinishRequestsStatus
<1> HIDE DEF f
<1>7. SchedulerOK(t)
  BY <1>2, <1>3, <1>5, FinishRequestsOK
<1>8. /\ t.finished = f.finished \cup Live(f, completed)
      /\ \A x \in SchedIds : t.status[x] =
           IF x \in Live(f, completed) THEN "COMPLETED" ELSE f.status[x]
  BY <1>5, FinishRequestsFinished, FinishRequestsStatus
<1> HIDE DEF t
<1>9. ASSUME NEW x \in SchedIds
      PROVE  /\ (x \in s.finished => s.status[x] \in Finished) =>
                  (x \in t.finished => t.status[x] \in Finished)
             /\ (s.status[x] \in Finished => x \in s.finished) =>
                  (t.status[x] \in Finished => x \in t.finished)
  BY <1>3, <1>6, <1>8
<1> QED BY <1>4, <1>7, <1>9

(* The yielding half. *)
LEMMA YieldIntermediateResultsOK ==
  ASSUME NEW s, SchedulerOK(s), NEW emitters \in Seq(SchedIds), IsInjective(emitters)
  PROVE  /\ SchedulerOK(YieldIntermediateResults(s, emitters))
         /\ \A x \in SchedIds : YieldIntermediateResults(s, emitters).status[x] # s.status[x] =>
              /\ s.status[x] = "RUNNING"
              /\ YieldIntermediateResults(s, emitters).status[x] = "PREEMPTED"
<1> DEFINE gone == Yielded(s, emitters)
           back == Keep(emitters, gone)
           t == YieldIntermediateResults(s, emitters)
           st == [x \in SchedIds |-> IF x \in gone THEN "PREEMPTED" ELSE s.status[x]]
           w == s.waiting \o back
           r == Without(s.running, gone)
<1>1. /\ s \in Scheduler /\ QueuedOnce(s) /\ StatusAgreesWithQueues(s) /\ WithinCapacity(s)
      /\ s.waiting \in Seq(SchedIds) /\ s.running \in Seq(SchedIds)
      /\ s.status \in [SchedIds -> Status] /\ s.finished \in SUBSET SchedIds
  BY SchedulerFields DEF SchedulerOK
<1>2. gone \subseteq Range(s.running) /\ gone \subseteq Range(emitters)
  BY DEF Yielded, Range
<1>3. t = [s EXCEPT !.status = st, !.waiting = w, !.running = r, !.finished = s.finished]
  BY <1>1 DEF YieldIntermediateResults, Scheduler
<1>4. t.status = st /\ t.waiting = w /\ t.running = r /\ t.finished = s.finished
  BY <1>1, <1>3 DEF Scheduler
<1>5. st \in [SchedIds -> Status]
  BY <1>1 DEF Status, Queued
<1> HIDE DEF gone, t
<1>6. back \in Seq(SchedIds) /\ Range(back) = gone /\ IsInjective(back)
  <2>1. back \in Seq(SchedIds) /\ Range(back) = Range(emitters) \cap gone /\ IsInjective(back)
    BY KeepProperties
  <2> QED BY <1>2, <2>1
<1> HIDE DEF back
<1>7. w \in Seq(SchedIds) /\ Range(w) = Range(s.waiting) \cup gone
  BY <1>1, <1>6, ConcatProperties, RangeConcatenation
<1>8. IsInjective(w)
  BY <1>1, <1>2, <1>6, ConcatInjective DEF QueuedOnce
<1>9. r \in Seq(SchedIds) /\ Range(r) = Range(s.running) \ gone /\ IsInjective(r)
  BY <1>1, WithoutProperties DEF QueuedOnce
<1> HIDE DEF w, r
<1>10. QueuedOnce(t)
  BY <1>1, <1>4, <1>7, <1>8, <1>9 DEF QueuedOnce
<1>11. StatusAgreesWithQueues(t)
  BY <1>1, <1>2, <1>4, <1>7, <1>9 DEF StatusAgreesWithQueues
<1>12. WithinCapacity(t)
  <2>1. Len(r) <= Len(s.running)
    BY <1>1, <1>9, ShorterByRange DEF QueuedOnce
  <2>2. Len(r) \in Nat /\ Len(s.running) \in Nat /\ MaxRunning \in Nat
    BY <1>1, <1>9, LenProperties, SchedulerAssumption
  <2> QED BY <1>1, <1>4, <2>1, <2>2 DEF WithinCapacity
<1>13. \A y \in SchedIds : st[y] = "NONE" <=> s.status[y] = "NONE"
  BY <1>1, <1>2 DEF StatusAgreesWithQueues
<1>14. SchedulerOK(t)
  <2> HIDE DEF st
  <2> QED BY <1>1, <1>3, <1>5, <1>7, <1>9, <1>10, <1>11, <1>12, <1>13, QueuesSuffice
<1>15. \A x \in SchedIds : st[x] # s.status[x] => s.status[x] = "RUNNING" /\ st[x] = "PREEMPTED"
  BY <1>1, <1>2 DEF StatusAgreesWithQueues
<1> QED BY <1>4, <1>14, <1>15 DEF t

(* update_from_output returns scheduled ids that are over, and all of them *)
(* when every scheduled id that was over before was recorded as finished.  *)
LEMMA UpdateFromOutputOK ==
  ASSUME NEW s, SchedulerOK(s), NEW out,
         Scheduled(out) \in Seq(SchedIds), IsInjective(Scheduled(out)), NEW ro
  PROVE  /\ SchedulerOK(UpdateFromOutput(s, out, ro))
         /\ FinishedBy(s, out, ro) \subseteq Range(Scheduled(out))
         /\ \A x \in Range(Scheduled(out)) :
              /\ (x \in s.finished => s.status[x] \in Finished) =>
                   (x \in FinishedBy(s, out, ro) =>
                      UpdateFromOutput(s, out, ro).status[x] \in Finished)
              /\ (s.status[x] \in Finished => x \in s.finished) =>
                   (UpdateFromOutput(s, out, ro).status[x] \in Finished =>
                      x \in FinishedBy(s, out, ro))
<1> DEFINE t == Terminated(s, out, ro)
           reporting == {x \in Live(t, Range(Scheduled(out))) : ro.results[x] # "none"}
           emitters == Keep(Scheduled(out), reporting)
           u == UpdateFromOutput(s, out, ro)
<1>1. /\ SchedulerOK(t)
      /\ \A x \in SchedIds :
           /\ (x \in s.finished => s.status[x] \in Finished) =>
                (x \in t.finished => t.status[x] \in Finished)
           /\ (s.status[x] \in Finished => x \in s.finished) =>
                (t.status[x] \in Finished => x \in t.finished)
  BY TerminatedOK
<1>2. u = IF StepExecution THEN YieldIntermediateResults(t, emitters) ELSE t
  BY DEF UpdateFromOutput
<1>3. FinishedBy(s, out, ro) = Range(Scheduled(out)) \cap t.finished
  BY DEF FinishedBy
<1> HIDE DEF t, reporting
<1>4. emitters \in Seq(SchedIds) /\ IsInjective(emitters)
  BY KeepProperties
<1> HIDE DEF emitters, u
<1>5. SchedulerOK(u) /\ \A x \in SchedIds : u.status[x] \in Finished <=> t.status[x] \in Finished
  <2>1. CASE StepExecution
    <3>1. /\ SchedulerOK(YieldIntermediateResults(t, emitters))
          /\ \A x \in SchedIds : YieldIntermediateResults(t, emitters).status[x] # t.status[x] =>
               /\ t.status[x] = "RUNNING"
               /\ YieldIntermediateResults(t, emitters).status[x] = "PREEMPTED"
      BY <1>1, <1>4, YieldIntermediateResultsOK
    <3> QED BY <1>2, <2>1, <3>1 DEF Finished
  <2>2. CASE ~StepExecution
    BY <1>1, <1>2, <2>2
  <2> QED BY <2>1, <2>2
<1>6. Range(Scheduled(out)) \subseteq SchedIds
  BY RangeOfSeq
<1> QED BY <1>1, <1>3, <1>5, <1>6 DEF u

-----------------------------------------------------------------------------
(* What the methods do to single entries. *)

(* add_request gives x to r and to nobody else. *)
LEMMA AddRequestReq ==
  ASSUME NEW s, s \in Scheduler, NEW r, NEW x \in SchedIds, NEW y \in SchedIds
  PROVE  AddRequest(s, r, x).req[y] = IF y = x THEN r ELSE s.req[y]
BY DEF AddRequest, Scheduler

(* Finishing changes neither requests nor the id map. *)
LEMMA FinishRequestsKeeps ==
  ASSUME NEW s, s \in Scheduler, NEW X, NEW status
  PROVE  /\ FinishRequests(s, X, status).req = s.req
         /\ FinishRequests(s, X, status).owner = s.owner
BY DEF FinishRequests, Scheduler

(* Popping empties the entries it is given and only them. *)
LEMMA PopRequestStatesFields ==
  ASSUME NEW s, s \in Scheduler, NEW X, NEW y \in SchedIds
  PROVE  /\ PopRequestStates(s, X).status[y] = IF y \in X THEN "NONE" ELSE s.status[y]
         /\ PopRequestStates(s, X).req[y] = IF y \in X THEN NoReq ELSE s.req[y]
         /\ PopRequestStates(s, X).finished = s.finished
         /\ PopRequestStates(s, X).running = s.running
BY DEF PopRequestStates, Scheduler

(* schedule() sets what it selects running. *)
LEMMA AfterScheduleFields ==
  ASSUME NEW s, s \in Scheduler, NEW y \in SchedIds
  PROVE  /\ AfterSchedule(s).status[y] =
              IF y \in Range(SelectWaiting(s)) THEN "RUNNING" ELSE s.status[y]
         /\ AfterSchedule(s).req = s.req
BY DEF AfterSchedule, Scheduler

(* Yielding only turns running requests into preempted ones. *)
LEMMA YieldFields ==
  ASSUME NEW s, SchedulerOK(s), NEW emitters \in Seq(SchedIds), IsInjective(emitters)
  PROVE  /\ YieldIntermediateResults(s, emitters).req = s.req
         /\ YieldIntermediateResults(s, emitters).finished = s.finished
         /\ Range(YieldIntermediateResults(s, emitters).running) \subseteq Range(s.running)
<1>1. s \in Scheduler /\ s.running \in Seq(SchedIds)
  BY SchedulerFields DEF SchedulerOK
<1>2. /\ YieldIntermediateResults(s, emitters).req = s.req
      /\ YieldIntermediateResults(s, emitters).finished = s.finished
      /\ YieldIntermediateResults(s, emitters).running = Without(s.running, Yielded(s, emitters))
  BY <1>1 DEF YieldIntermediateResults, Scheduler
<1> QED BY <1>1, <1>2, WithoutProperties

(* Terminating marks the failed and the completed of the live batch.       *)
LEMMA TerminatedFields ==
  ASSUME NEW s, s \in Scheduler, NEW out, Scheduled(out) \in Seq(SchedIds), NEW ro
  PROVE  /\ Terminated(s, out, ro).req = s.req
         /\ \A x \in SchedIds :
              LET live == x \in Live(s, Range(Scheduled(out)))
              IN  /\ Terminated(s, out, ro).status[x] =
                       IF live /\ Failed(ro, x) THEN "ERROR"
                       ELSE IF live /\ Completed(ro, x) THEN "COMPLETED" ELSE s.status[x]
                  /\ x \in Terminated(s, out, ro).finished <=>
                       x \in s.finished \/ (live /\ (Failed(ro, x) \/ Completed(ro, x)))
<1> DEFINE live == Live(s, Range(Scheduled(out)))
           failed == {x \in live : Failed(ro, x)}
           completed == {x \in live : Completed(ro, x)}
           f == FinishRequests(s, failed, "ERROR")
           t == FinishRequests(f, completed, "COMPLETED")
<1>1. Terminated(s, out, ro) = t
  BY DEF Terminated
<1>2. live \in SUBSET SchedIds /\ \A x \in live : s.status[x] \in Queued
  BY RangeOfSeq DEF Live
<1>3. f \in Scheduler /\ f.req = s.req
  <2>1. s.status \in [SchedIds -> Status] /\ s.waiting \in Seq(SchedIds)
        /\ s.running \in Seq(SchedIds) /\ s.finished \in SUBSET SchedIds
    BY SchedulerFields
  <2>2. [x \in SchedIds |-> IF x \in Live(s, failed) THEN "ERROR" ELSE s.status[x]]
          \in [SchedIds -> Status]
    BY <2>1 DEF Status, Finished
  <2>3. s.finished \cup Live(s, failed) \in SUBSET SchedIds
    BY <1>2, <2>1 DEF Live
  <2>4. Without(s.waiting, Live(s, failed)) \in Seq(SchedIds)
        /\ Without(s.running, Live(s, failed)) \in Seq(SchedIds)
    BY <2>1, WithoutProperties
  <2>5. f \in Scheduler
    BY <2>2, <2>3, <2>4 DEF FinishRequests, Scheduler
  <2> QED BY <2>5, FinishRequestsKeeps
<1>4. Live(s, failed) = failed
  BY <1>2 DEF Live
<1>5. /\ \A x \in SchedIds : f.status[x] = IF x \in failed THEN "ERROR" ELSE s.status[x]
      /\ f.finished = s.finished \cup failed
  BY <1>4, FinishRequestsStatus, FinishRequestsFinished
<1>6. Live(f, completed) = completed
  <2>1. \A x \in completed : x \in SchedIds /\ x \notin failed /\ s.status[x] \in Queued
    BY <1>2 DEF Completed
  <2> QED BY <1>5, <2>1 DEF Live
<1> HIDE DEF f
<1>7. /\ \A x \in SchedIds : t.status[x] = IF x \in completed THEN "COMPLETED" ELSE f.status[x]
      /\ t.finished = f.finished \cup completed
      /\ t.req = s.req
  BY <1>3, <1>6, FinishRequestsStatus, FinishRequestsFinished, FinishRequestsKeeps
<1> HIDE DEF t, live
<1>8. \A x \in SchedIds :
        /\ t.status[x] = IF x \in live /\ Failed(ro, x) THEN "ERROR"
                         ELSE IF x \in live /\ Completed(ro, x) THEN "COMPLETED" ELSE s.status[x]
        /\ x \in t.finished <=> x \in s.finished \/ (x \in live /\ (Failed(ro, x) \/ Completed(ro, x)))
  BY <1>5, <1>7 DEF Completed
<1> QED BY <1>1, <1>7, <1>8 DEF live

(* update_from_output ends what is live and failed or completed, leaves    *)
(* what is over alone, and at most preempts the rest.                      *)
LEMMA UpdateFromOutputFields ==
  ASSUME NEW s, SchedulerOK(s), NEW out,
         Scheduled(out) \in Seq(SchedIds), IsInjective(Scheduled(out)), NEW ro
  PROVE  /\ UpdateFromOutput(s, out, ro).req = s.req
         /\ Range(UpdateFromOutput(s, out, ro).running) \subseteq Range(s.running)
         /\ s.finished \subseteq UpdateFromOutput(s, out, ro).finished
         /\ UpdateFromOutput(s, out, ro).finished \subseteq s.finished \cup FinishedBy(s, out, ro)
         /\ FinishedBy(s, out, ro) \subseteq UpdateFromOutput(s, out, ro).finished
         /\ \A x \in SchedIds :
              LET live == x \in Live(s, Range(Scheduled(out)))
                  status == UpdateFromOutput(s, out, ro).status[x]
              IN  /\ live /\ Failed(ro, x) => status = "ERROR"
                  /\ live /\ Completed(ro, x) => status = "COMPLETED"
                  /\ ~live \/ ~(Failed(ro, x) \/ Completed(ro, x)) =>
                       status = s.status[x] \/ (s.status[x] = "RUNNING" /\ status = "PREEMPTED")
                  /\ x \in FinishedBy(s, out, ro) <=>
                       /\ x \in Range(Scheduled(out))
                       /\ x \in s.finished \/ (live /\ (Failed(ro, x) \/ Completed(ro, x)))
<1> DEFINE t == Terminated(s, out, ro)
           reporting == {x \in Live(t, Range(Scheduled(out))) : ro.results[x] # "none"}
           emitters == Keep(Scheduled(out), reporting)
           y == YieldIntermediateResults(t, emitters)
           u == UpdateFromOutput(s, out, ro)
<1>1. SchedulerOK(t)
  BY TerminatedOK
<1>2. u = IF StepExecution THEN y ELSE t
  BY DEF UpdateFromOutput
<1>3. FinishedBy(s, out, ro) = Range(Scheduled(out)) \cap t.finished
  BY DEF FinishedBy
<1>4. Live(s, Range(Scheduled(out))) \subseteq Range(Scheduled(out))
  BY DEF Live
<1>5. s \in Scheduler
  BY DEF SchedulerOK
<1>6. /\ t.req = s.req
      /\ \A x \in SchedIds :
           LET live == x \in Live(s, Range(Scheduled(out)))
           IN  /\ t.status[x] = IF live /\ Failed(ro, x) THEN "ERROR"
                                ELSE IF live /\ Completed(ro, x) THEN "COMPLETED" ELSE s.status[x]
               /\ x \in t.finished <=> x \in s.finished \/ (live /\ (Failed(ro, x) \/ Completed(ro, x)))
  BY <1>5, TerminatedFields
<1>7. Range(t.running) \subseteq Range(s.running)
  <2>1. t.running \in Seq(SchedIds) /\ s.running \in Seq(SchedIds)
    BY <1>1, <1>5, SchedulerFields DEF SchedulerOK
  <2>2. Range(t.running) \subseteq SchedIds
    BY <2>1, RangeOfSeq
  <2>3. \A x \in SchedIds : (x \in Range(t.running) <=> t.status[x] = "RUNNING")
                         /\ (x \in Range(s.running) <=> s.status[x] = "RUNNING")
    BY <1>1 DEF SchedulerOK, StatusAgreesWithQueues
  <2>4. \A x \in SchedIds : t.status[x] = "RUNNING" => s.status[x] = "RUNNING"
    BY <1>6
  <2> HIDE DEF t
  <2> QED BY <2>2, <2>3, <2>4
<1> HIDE DEF t, reporting
<1>8. emitters \in Seq(SchedIds) /\ IsInjective(emitters)
  BY KeepProperties
<1> HIDE DEF emitters
<1>9. /\ y.req = t.req /\ y.finished = t.finished /\ Range(y.running) \subseteq Range(t.running)
      /\ \A x \in SchedIds : y.status[x] # t.status[x] =>
           t.status[x] = "RUNNING" /\ y.status[x] = "PREEMPTED"
  BY <1>1, <1>8, YieldFields, YieldIntermediateResultsOK
<1> HIDE DEF y, u
<1>10. /\ u.req = t.req /\ u.finished = t.finished /\ Range(u.running) \subseteq Range(t.running)
       /\ \A x \in SchedIds : u.status[x] # t.status[x] =>
            t.status[x] = "RUNNING" /\ u.status[x] = "PREEMPTED"
  BY <1>2, <1>9
<1>11. t.finished \in SUBSET SchedIds /\ s.finished \in SUBSET SchedIds
  BY <1>1, <1>5, SchedulerFields DEF SchedulerOK
<1>12. Range(Scheduled(out)) \subseteq SchedIds
  BY RangeOfSeq
<1>13. /\ s.finished \subseteq u.finished
       /\ u.finished \subseteq s.finished \cup FinishedBy(s, out, ro)
       /\ FinishedBy(s, out, ro) \subseteq u.finished
  BY <1>3, <1>4, <1>6, <1>10, <1>11
<1>14. ASSUME NEW x \in SchedIds
       PROVE  LET live == x \in Live(s, Range(Scheduled(out)))
                  status == u.status[x]
              IN  /\ live /\ Failed(ro, x) => status = "ERROR"
                  /\ live /\ Completed(ro, x) => status = "COMPLETED"
                  /\ ~live \/ ~(Failed(ro, x) \/ Completed(ro, x)) =>
                       status = s.status[x] \/ (s.status[x] = "RUNNING" /\ status = "PREEMPTED")
                  /\ x \in FinishedBy(s, out, ro) <=>
                       /\ x \in Range(Scheduled(out))
                       /\ x \in s.finished \/ (live /\ (Failed(ro, x) \/ Completed(ro, x)))
  BY <1>3, <1>6, <1>10 DEF Completed
<1> QED BY <1>6, <1>7, <1>10, <1>13, <1>14 DEF u

-----------------------------------------------------------------------------
(* A duration-bucketed batch is homogeneous. *)

(* The extremes of the values of a finite list. *)
LEMMA Extremes ==
  ASSUME NEW n \in Nat \ {0}, NEW f \in [1..n -> Nat],
         NEW A, A = {f[i] : i \in 1..n}
  PROVE  /\ Min(A) \in A /\ Max(A) \in A /\ A \subseteq Nat
         /\ \A a \in A : Min(A) <= a /\ a <= Max(A)
<1>1. f[1] \in A /\ A \in SUBSET Nat
  OBVIOUS
<1>2. \E a \in A : \A b \in A : a <= b
  BY <1>1, LeastNat
<1>3. \E a \in A : \A b \in A : a >= b
  <2>1. PICK j \in 1..n : \A i \in 1..n : f[i] <= f[j]
    BY GreatestOfMany
  <2> QED BY <1>1, <2>1
<1>4. Min(A) \in A /\ \A b \in A : Min(A) <= b
  BY <1>2 DEF Min
<1>5. Max(A) \in A /\ \A b \in A : Max(A) >= b
  BY <1>3 DEF Max
<1> QED BY <1>1, <1>4, <1>5

(* What is queued has a request, and that a target length.                 *)
LEMMA TargetsAreNat ==
  ASSUME NEW s, SchedulerOK(s), NEW x \in Range(s.waiting) \cup Range(s.running)
  PROVE  s.req[x] \in Reqs /\ TargetTokens(s, x) \in Nat /\ PadTokens(s, x) \in Nat
<1>1. /\ x \in SchedIds /\ s.status[x] # "NONE" /\ s.req[x] \in Reqs \cup {NoReq}
  <2>1. Range(s.waiting) \subseteq SchedIds /\ Range(s.running) \subseteq SchedIds
    BY SchedulerFields, LenProperties DEF SchedulerOK, Range
  <2> QED BY <2>1, SchedulerFields DEF SchedulerOK, StatusAgreesWithQueues
<1>2. s.req[x] \in Reqs
  BY <1>1 DEF SchedulerOK, StatesHaveRequests
<1> QED BY <1>2, SchedulerAssumption DEF TargetTokens, PadTokens

(* The candidates wait; the anchors wait or run.                           *)
LEMMA CandidatesWait ==
  ASSUME NEW s, SchedulerOK(s)
  PROVE  /\ Candidates(s) \in Seq(SchedIds)
         /\ Range(Candidates(s)) \subseteq Range(s.waiting)
         /\ Anchors(s) \subseteq Range(s.waiting) \cup Range(s.running)
<1>1. Candidates(s) \in Seq(SchedIds) /\ Range(Candidates(s)) \subseteq Range(s.waiting)
  BY SchedulerFields, WithoutProperties DEF SchedulerOK, Candidates
<1>2. Candidates(s) # <<>> => Candidates(s)[1] \in Range(Candidates(s))
  BY <1>1, NonEmptyQueue
<1> QED BY <1>1, <1>2 DEF Anchors

(* The recursion by which a tolerant batch grows has the values its        *)
(* equation gives, all of them extents.                                    *)
LEMMA TolerantRecursion ==
  ASSUME NEW s, SchedulerOK(s), Candidates(s) # <<>>
  PROVE  LET cand == Candidates(s)
             anchors == {PadTokens(s, x) : x \in Anchors(s)}
         IN  \E e \in [0..Len(cand) -> Nat \X Nat] :
               /\ e[0] = <<Min(anchors), Max(anchors)>>
               /\ \A i \in 1..Len(cand) :
                    e[i] = IF WithinTolerance(Widen(e[i - 1], PadTokens(s, cand[i])))
                           THEN Widen(e[i - 1], PadTokens(s, cand[i])) ELSE e[i - 1]
               /\ TolerantCandidates(s) =
                    {cand[i] : i \in {j \in DOMAIN cand :
                       /\ WithinTolerance(e[0])
                       /\ WithinTolerance(Widen(e[j - 1], PadTokens(s, cand[j])))}}
               /\ \A a \in anchors : Min(anchors) <= a /\ a <= Max(anchors)
<1> DEFINE cand == Candidates(s)
           anchors == {PadTokens(s, x) : x \in Anchors(s)}
           n == Len(cand)
           b == <<Min(anchors), Max(anchors)>>
           Grown(d, i) == IF WithinTolerance(Widen(d, PadTokens(s, cand[i])))
                          THEN Widen(d, PadTokens(s, cand[i])) ELSE d
           Body(e) == [i \in 0..n |-> IF i = 0 THEN b ELSE Grown(e[i - 1], i)]
           extent == CHOOSE e : e = Body(e)
<1>1. TolerantCandidates(s) =
        {cand[i] : i \in {j \in DOMAIN cand :
           /\ WithinTolerance(extent[0])
           /\ WithinTolerance(Widen(extent[j - 1], PadTokens(s, cand[j])))}}
  BY Zenon DEF TolerantCandidates
<1>2. /\ cand \in Seq(SchedIds) /\ n \in Nat /\ DOMAIN cand = 1..n
      /\ \A i \in 1..n : cand[i] \in Range(s.waiting)
      /\ cand[1] \in Range(s.waiting)
  <2>1. cand \in Seq(SchedIds) /\ Range(cand) \subseteq Range(s.waiting)
    BY CandidatesWait
  <2>2. n \in Nat /\ DOMAIN cand = 1..n /\ cand[1] \in Range(cand)
    BY <2>1, LenProperties, NonEmptyQueue
  <2>3. \A i \in 1..n : cand[i] \in Range(cand)
    BY <2>2 DEF Range
  <2> HIDE DEF cand, n
  <2> QED BY <2>1, <2>2, <2>3
<1>3. \A i \in 1..n : PadTokens(s, cand[i]) \in Nat
  BY <1>2, TargetsAreNat
<1>4. /\ Min(anchors) \in Nat /\ Max(anchors) \in Nat
      /\ \A a \in anchors : Min(anchors) <= a /\ a <= Max(anchors)
  <2>1. \E m \in Nat \ {0} : \E f \in [1..m -> Nat] : anchors = {f[i] : i \in 1..m}
    <3>1. CASE s.running # <<>>
      <4> DEFINE m == Len(s.running)
                 f == [i \in 1..m |-> PadTokens(s, s.running[i])]
      <4>1. /\ m \in Nat \ {0} /\ DOMAIN s.running = 1..m
            /\ \A i \in 1..m : s.running[i] \in Range(s.running)
            /\ Range(s.running) = {s.running[i] : i \in 1..m}
        BY <3>1, SchedulerFields, NonEmptyQueue, LenProperties DEF SchedulerOK, Range
      <4>2. f \in [1..m -> Nat]
        BY <4>1, TargetsAreNat
      <4>3. Anchors(s) = Range(s.running)
        BY <3>1 DEF Anchors
      <4>4. anchors = {f[i] : i \in 1..m}
        <5>1. \A i \in 1..m : f[i] = PadTokens(s, s.running[i])
          OBVIOUS
        <5>2. anchors = {PadTokens(s, x) : x \in {s.running[i] : i \in 1..m}}
          BY <4>1, <4>3
        <5> HIDE DEF f, m
        <5> QED BY <5>1, <5>2
      <4> QED BY <4>1, <4>2, <4>4
    <3>2. CASE s.running = <<>>
      <4> DEFINE f == [i \in 1..1 |-> PadTokens(s, cand[1])]
      <4>1. Anchors(s) = {cand[1]}
        BY <3>2 DEF Anchors
      <4>2. f \in [1..1 -> Nat] /\ anchors = {f[i] : i \in 1..1}
        BY <1>2, <4>1, TargetsAreNat
      <4>3. 1 \in Nat \ {0}
        OBVIOUS
      <4> HIDE DEF f, anchors
      <4> QED BY <4>2, <4>3
    <3> QED BY <3>1, <3>2
  <2> HIDE DEF anchors
  <2>2. PICK m \in Nat \ {0} : \E f \in [1..m -> Nat] : anchors = {f[i] : i \in 1..m}
    BY <2>1
  <2> QED BY <2>2, Extremes
<1>5. \E e \in [0..n -> Nat \X Nat] : e = Body(e)
  <2> DEFINE D == Nat \X Nat
             Follows(e, m) == /\ e \in [0..m -> D]
                              /\ e[0] = b
                              /\ \A i \in 1..m : e[i] = Grown(e[i - 1], i)
             T == {m \in 0..n : \E e : Follows(e, m)}
  <2>1. \A i \in 1..n, d \in D : Grown(d, i) \in D
    BY <1>3 DEF Widen
  <2>2. b \in D
    BY <1>4
  <2> HIDE DEF Grown, b, n, D
  <2>3. 0 \in T
    <3> DEFINE e == [i \in 0..0 |-> b]
    <3>1. Follows(e, 0)
      BY <2>2
    <3>2. 0 \in 0..n
      BY <1>2
    <3> HIDE DEF e, Follows
    <3> QED BY <3>1, <3>2
  <2>4. ASSUME NEW m \in 1..n, m - 1 \in T
        PROVE  m \in T
    <3>1. PICK d : Follows(d, m - 1)
      BY <2>4
    <3> DEFINE e == [i \in 0..m |-> IF i = m THEN Grown(d[m - 1], m) ELSE d[i]]
    <3>2. /\ m \in Nat \ {0} /\ m \in 0..n /\ m - 1 \in 0..(m - 1)
          /\ \A i \in 0..m : i # m => i \in 0..(m - 1)
          /\ \A i \in 1..m : i # m => i \in 1..(m - 1) /\ i - 1 # m /\ i \in 0..(m - 1)
          /\ \A i \in 1..m : i - 1 \in 0..m /\ i \in 0..m
          /\ m - 1 # m /\ 0 # m /\ 0 \in 0..m
      BY <1>2
    <3>3. d[m - 1] \in D /\ Grown(d[m - 1], m) \in D
      BY <2>1, <3>1, <3>2
    <3>4. e \in [0..m -> D]
      BY <3>1, <3>2, <3>3
    <3>5. e[0] = b /\ e[m - 1] = d[m - 1] /\ e[m] = Grown(d[m - 1], m)
      BY <3>1, <3>2
    <3>6. ASSUME NEW i \in 1..m
          PROVE  e[i] = Grown(e[i - 1], i)
      <4>1. CASE i = m
        BY <3>5, <4>1
      <4>2. CASE i # m
        <5>1. e[i] = d[i] /\ e[i - 1] = d[i - 1]
          BY <3>2, <4>2
        <5> QED BY <3>1, <3>2, <4>2, <5>1
      <4> QED BY <4>1, <4>2
    <3> HIDE DEF e
    <3>7. Follows(e, m)
      BY <3>4, <3>5, <3>6
    <3> QED BY <3>2, <3>7
  <2> HIDE DEF T
  <2>5. n \in T
    <3>1. \A m \in 1..n : m - 1 \in T => m \in T
      BY <2>4
    <3>2. n \in Nat /\ n \in 0..n
      BY <1>2
    <3>3. 0..n \subseteq T
      BY <2>3, <3>1, <3>2, StepsReachAll
    <3> QED BY <3>2, <3>3
  <2>6. PICK e : Follows(e, n)
    BY <2>5 DEF T
  <2>7. \A i \in 0..n : e[i] = IF i = 0 THEN b ELSE Grown(e[i - 1], i)
    <3>1. \A i \in 0..n : i = 0 \/ i \in 1..n
      BY <1>2
    <3>2. \A i \in 1..n : i # 0
      BY <1>2
    <3> QED BY <2>6, <3>1, <3>2
  <2> QED BY <2>6, <2>7 DEF D
<1> HIDE DEF extent, b, Grown, anchors, cand, n
<1>6. extent = Body(extent)
  BY <1>5 DEF extent
<1>7. /\ extent \in [0..n -> Nat \X Nat]
      /\ extent[0] = b
      /\ \A i \in 1..n : extent[i] = Grown(extent[i - 1], i)
  <2> DEFINE T == {i \in 0..n : extent[i] \in Nat \X Nat}
  <2>1. DOMAIN extent = 0..n /\ extent = [i \in 0..n |-> extent[i]]
    BY <1>6
  <2>2. \A i \in 0..n : extent[i] = IF i = 0 THEN b ELSE Grown(extent[i - 1], i)
    BY <1>6
  <2>3. /\ 0 \in 0..n
        /\ \A i \in 1..n : i \in 0..n /\ i - 1 \in 0..n /\ i # 0
    BY <1>2
  <2>4. \A d \in Nat \X Nat, i \in 1..n : Grown(d, i) \in Nat \X Nat
    BY <1>2, <1>3 DEF Grown, Widen, n, cand
  <2>5. b \in Nat \X Nat
    BY <1>4 DEF b
  <2>6. 0 \in T /\ \A i \in 1..n : i - 1 \in T => i \in T
    BY <2>2, <2>3, <2>4, <2>5
  <2> HIDE DEF T
  <2>7. 0..n \subseteq T
    BY <1>2, <2>6, StepsReachAll
  <2>8. extent \in [0..n -> Nat \X Nat]
    BY <2>1, <2>7 DEF T
  <2> QED BY <2>2, <2>3, <2>8
<1> QED BY <1>1, <1>2, <1>4, <1>7 DEF b, Grown, anchors, cand, n

(* Widening an extent covers the old one and the new length.               *)
LEMMA WidenCovers ==
  ASSUME NEW d \in Nat \X Nat, NEW t \in Nat
  PROVE  /\ Widen(d, t) \in Nat \X Nat
         /\ Widen(d, t)[1] <= d[1] /\ Widen(d, t)[1] <= t
         /\ d[2] <= Widen(d, t)[2] /\ t <= Widen(d, t)[2]
BY DEF Widen

(* When anyone joins a tolerant batch, one extent within the tolerance     *)
(* spans those it is grown from and all who join.                          *)
LEMMA TolerantExtent ==
  ASSUME NEW s, SchedulerOK(s), NEW joined \in TolerantCandidates(s)
  PROVE  \E d \in Nat \X Nat :
           /\ WithinTolerance(d)
           /\ \A x \in Anchors(s) \cup TolerantCandidates(s) :
                d[1] <= PadTokens(s, x) /\ PadTokens(s, x) <= d[2]
<1> DEFINE cand == Candidates(s)
           n == Len(cand)
           p(i) == PadTokens(s, cand[i])
           anchors == {PadTokens(s, x) : x \in Anchors(s)}
           b == <<Min(anchors), Max(anchors)>>
           Spans(d, c) == d[1] <= c[1] /\ c[2] <= d[2]
<1>1. /\ cand \in Seq(SchedIds) /\ n \in Nat /\ DOMAIN cand = 1..n
      /\ \A i \in 1..n : cand[i] \in Range(s.waiting)
  <2>1. cand \in Seq(SchedIds) /\ Range(cand) \subseteq Range(s.waiting)
    BY CandidatesWait
  <2>2. n \in Nat /\ DOMAIN cand = 1..n
    BY <2>1, LenProperties
  <2>3. \A i \in 1..n : cand[i] \in Range(cand)
    BY <2>2 DEF Range
  <2> HIDE DEF cand, n
  <2> QED BY <2>1, <2>2, <2>3
<1>2. \A i \in 1..n : p(i) \in Nat
  BY <1>1, TargetsAreNat
<1>3. cand # <<>>
  <2>1. CASE cand = <<>>
    <3>1. DOMAIN cand = {}
      BY <2>1
    <3>2. TolerantCandidates(s) = {}
      BY <3>1, Zenon DEF TolerantCandidates
    <3> QED BY <3>2
  <2> QED BY <2>1
<1>4. PICK e \in [0..n -> Nat \X Nat] :
        /\ e[0] = b
        /\ \A i \in 1..n : e[i] = IF WithinTolerance(Widen(e[i - 1], p(i)))
                                  THEN Widen(e[i - 1], p(i)) ELSE e[i - 1]
        /\ TolerantCandidates(s) =
             {cand[i] : i \in {j \in DOMAIN cand :
                /\ WithinTolerance(e[0])
                /\ WithinTolerance(Widen(e[j - 1], PadTokens(s, cand[j])))}}
        /\ \A a \in anchors : Min(anchors) <= a /\ a <= Max(anchors)
  BY <1>3, TolerantRecursion
<1>5. /\ WithinTolerance(e[0])
      /\ \A x \in TolerantCandidates(s) : \E j \in 1..n :
           x = cand[j] /\ WithinTolerance(Widen(e[j - 1], p(j)))
  BY <1>1, <1>4
<1> HIDE DEF cand, n, p, anchors, b
<1>6. /\ 0 \in 0..n /\ n \in 0..n
      /\ \A i \in 1..n : i \in 0..n /\ i - 1 \in 0..n
  BY <1>1
<1>7. \A i \in 1..n : /\ Spans(e[i], e[i - 1])
                      /\ WithinTolerance(e[i - 1]) => WithinTolerance(e[i])
  <2> SUFFICES ASSUME NEW i \in 1..n
               PROVE  /\ Spans(e[i], e[i - 1])
                      /\ WithinTolerance(e[i - 1]) => WithinTolerance(e[i])
    OBVIOUS
  <2>1. e[i - 1] \in Nat \X Nat /\ p(i) \in Nat
    BY <1>2, <1>4, <1>6
  <2>2. Spans(Widen(e[i - 1], p(i)), e[i - 1])
    BY <2>1, WidenCovers
  <2>3. Spans(e[i - 1], e[i - 1])
    BY <2>1
  <2>4. e[i] = IF WithinTolerance(Widen(e[i - 1], p(i)))
               THEN Widen(e[i - 1], p(i)) ELSE e[i - 1]
    BY <1>4
  <2> HIDE DEF Spans
  <2> QED BY <2>2, <2>3, <2>4
<1> DEFINE T == {i \in 0..n : WithinTolerance(e[i]) /\ \A j \in 0..i : Spans(e[i], e[j])}
<1>8. n \in T
  <2>1. 0 \in T
    <3>1. Spans(e[0], e[0]) /\ \A j \in 0..0 : j = 0
      BY <1>4, <1>6
    <3> HIDE DEF Spans
    <3> QED BY <1>5, <1>6, <3>1
  <2>2. ASSUME NEW i \in 1..n, i - 1 \in T
        PROVE  i \in T
    <3>1. \A j \in 0..i : j \in 0..(i - 1) \/ j = i
      OBVIOUS
    <3>2. /\ e[i] \in Nat \X Nat /\ e[i - 1] \in Nat \X Nat
          /\ \A j \in 0..i : e[j] \in Nat \X Nat
      <4>1. \A j \in 0..i : j \in 0..n
        BY <1>1
      <4> QED BY <1>4, <1>6, <4>1
    <3>3. Spans(e[i], e[i])
      BY <3>2
    <3>4. \A j \in 0..(i - 1) : Spans(e[i - 1], e[j])
      BY <2>2
    <3>5. Spans(e[i], e[i - 1])
      BY <1>7
    <3>6. \A j \in 0..(i - 1) : Spans(e[i], e[j])
      <4> SUFFICES ASSUME NEW j \in 0..(i - 1)
                   PROVE  Spans(e[i], e[j])
        OBVIOUS
      <4>1. Spans(e[i - 1], e[j]) /\ e[j] \in Nat \X Nat
        BY <1>6, <3>2, <3>4
      <4> QED BY <3>2, <3>5, <4>1
    <3> HIDE DEF Spans
    <3> QED BY <1>6, <1>7, <2>2, <3>1, <3>3, <3>6
  <2> HIDE DEF T
  <2>3. 0..n \subseteq T
    <3>1. \A i \in 1..n : i - 1 \in T => i \in T
      BY <2>2
    <3> QED BY <1>1, <2>1, <3>1, StepsReachAll
  <2> QED BY <1>6, <2>3
<1>9. e[n] \in Nat \X Nat /\ WithinTolerance(e[n]) /\ \A j \in 0..n : Spans(e[n], e[j])
  BY <1>4, <1>6, <1>8
<1>10. ASSUME NEW x \in Anchors(s)
       PROVE  e[n][1] <= PadTokens(s, x) /\ PadTokens(s, x) <= e[n][2]
  <2>1. PadTokens(s, x) \in Nat
    BY CandidatesWait, TargetsAreNat
  <2>2. b[1] <= PadTokens(s, x) /\ PadTokens(s, x) <= b[2]
    BY <1>4 DEF anchors, b
  <2>3. Spans(e[n], b) /\ b \in Nat \X Nat
    BY <1>4, <1>6, <1>9
  <2> QED BY <1>9, <2>1, <2>2, <2>3
<1>11. ASSUME NEW x \in TolerantCandidates(s)
       PROVE  e[n][1] <= PadTokens(s, x) /\ PadTokens(s, x) <= e[n][2]
  <2>1. PICK j \in 1..n : x = cand[j] /\ WithinTolerance(Widen(e[j - 1], p(j)))
    BY <1>5
  <2>2. e[j] = Widen(e[j - 1], p(j)) /\ e[j] \in Nat \X Nat /\ e[j - 1] \in Nat \X Nat
    BY <1>4, <1>6, <2>1
  <2>3. p(j) \in Nat /\ PadTokens(s, x) = p(j)
    BY <1>2, <2>1 DEF p
  <2>4. e[j][1] <= p(j) /\ p(j) <= e[j][2]
    BY <2>2, <2>3, WidenCovers
  <2>5. Spans(e[n], e[j])
    BY <1>6, <1>9
  <2> QED BY <1>9, <2>2, <2>3, <2>4, <2>5
<1> QED BY <1>9, <1>10, <1>11

(* Two lengths within an extent that is within the tolerance may be padded *)
(* to one another.                                                         *)
LEMMA ToleranceNarrows ==
  ASSUME NEW d \in Nat \X Nat, WithinTolerance(d), NEW p \in Nat, NEW q \in Nat,
         d[1] <= p, q <= d[2]
  PROVE  WithinTolerance(<<p, q>>)
<1> DEFINE N == PadTolerance[1]
           D == PadTolerance[2]
<1>1. N \in Nat /\ D \in Nat
  BY SchedulerAssumption
<1> HIDE DEF N, D
<1>2. q * D <= d[2] * D /\ N * d[1] <= N * p
  BY <1>1, Scale
<1>3. d[2] * D <= N * d[1]
  BY DEF WithinTolerance, N, D
<1>4. /\ q * D \in Nat /\ d[2] * D \in Nat /\ N * d[1] \in Nat /\ N * p \in Nat
  BY <1>1
<1>5. q * D <= N * p
  BY <1>2, <1>3, <1>4
<1> QED BY <1>5 DEF WithinTolerance, N, D

(* Whoever leaves it, a homogeneous batch stays so.                        *)
LEMMA LeavingKeepsHomogeneous ==
  ASSUME NEW s, Homogeneous(s), NEW t, Range(t.running) \subseteq Range(s.running),
         \A x \in Range(t.running) : t.req[x] = s.req[x]
  PROVE  Homogeneous(t)
<1>1. \A x \in Range(t.running) : TargetTokens(t, x) = TargetTokens(s, x)
  BY DEF TargetTokens
<1>2. \A x \in Range(t.running) : /\ PadTokens(t, x) = PadTokens(s, x)
                                  /\ DurationBucket(t, x) = DurationBucket(s, x)
  BY <1>1 DEF PadTokens, DurationBucket
<1> QED BY <1>2 DEF Homogeneous

(* A batch that schedule() forms or completes is homogeneous.              *)
LEMMA AfterScheduleHomogeneous ==
  ASSUME NEW s, SchedulerOK(s), Homogeneous(s)
  PROVE  Homogeneous(AfterSchedule(s))
<1> DEFINE t == AfterSchedule(s)
           all == Anchors(s) \cup Joining(s)
           OK(x, y) == IF UseTolerance
                       THEN WithinTolerance(<<PadTokens(s, x), PadTokens(s, y)>>)
                       ELSE DurationBucket(s, x) = DurationBucket(s, y)
<1> SUFFICES ASSUME Strategy = "duration_bucket" PROVE Homogeneous(t)
  BY DEF Homogeneous
<1>1. Range(t.running) \subseteq all
  <2>1. Range(t.running) = Range(s.running) \cup Range(SelectWaiting(s))
    BY AfterScheduleOK
  <2>2. Range(SelectWaiting(s)) \subseteq all
    <3>1. /\ s.waiting \in Seq(SchedIds) /\ MaxRunning - Len(s.running) \in Nat
      BY SchedulerFields, SchedulerAssumption, LenProperties
         DEF SchedulerOK, WithinCapacity
    <3>2. /\ Keep(s.waiting, all) \in Seq(SchedIds)
          /\ Range(Keep(s.waiting, all)) \subseteq all
      BY <3>1, KeepProperties
    <3> HIDE DEF all
    <3>3. Range(FirstOf(Keep(s.waiting, all), MaxRunning - Len(s.running))) \subseteq
            Range(Keep(s.waiting, all))
      BY <3>1, <3>2, FirstOfProperties
    <3> QED BY <3>2, <3>3 DEF SelectWaiting, all
  <2>3. Range(s.running) \subseteq all
    <3>1. CASE s.running = <<>>
      <4>1. Range(s.running) = {}
        BY <3>1 DEF Range
      <4> QED BY <4>1
    <3>2. CASE s.running # <<>>
      BY <3>2 DEF Anchors
    <3> QED BY <3>1, <3>2
  <2> QED BY <2>1, <2>2, <2>3
<1>2. \A x \in Anchors(s) : PadTokens(s, x) \in Nat
  BY CandidatesWait, TargetsAreNat
<1>3. ASSUME NEW x \in Anchors(s), NEW y \in Anchors(s)
      PROVE  OK(x, y)
  <2>1. CASE s.running # <<>>
    BY <2>1 DEF Homogeneous, Anchors
  <2>2. CASE s.running = <<>>
    <3>1. x = y
      BY <2>2 DEF Anchors
    <3>2. WithinTolerance(<<PadTokens(s, x), PadTokens(s, x)>>)
      <4>1. PadTokens(s, x) * PadTolerance[2] <= PadTolerance[1] * PadTokens(s, x)
        <5>1. /\ PadTolerance[2] \in Nat /\ PadTolerance[1] \in Nat
              /\ PadTolerance[2] <= PadTolerance[1] /\ PadTokens(s, x) \in Nat
          BY <1>2, SchedulerAssumption
        <5>2. PadTokens(s, x) * PadTolerance[2] <= PadTokens(s, x) * PadTolerance[1]
          BY <5>1, Scale
        <5> QED BY <5>1, <5>2
      <4> QED BY <4>1 DEF WithinTolerance
    <3> QED BY <3>1, <3>2
  <2> QED BY <2>1, <2>2
<1>4. ASSUME NEW x \in all, NEW y \in all
      PROVE  OK(x, y)
  <2>1. CASE UseTolerance
    <3>1. Joining(s) = TolerantCandidates(s)
      BY <2>1 DEF Joining
    <3>2. CASE TolerantCandidates(s) = {}
      BY <1>3, <3>1, <3>2
    <3>3. CASE TolerantCandidates(s) # {}
      <4>1. PICK d \in Nat \X Nat :
              /\ WithinTolerance(d)
              /\ \A z \in all : d[1] <= PadTokens(s, z) /\ PadTokens(s, z) <= d[2]
        BY <3>1, <3>3, TolerantExtent
      <4>2. PadTokens(s, x) \in Nat /\ PadTokens(s, y) \in Nat
        <5>1. TolerantCandidates(s) \subseteq Range(s.waiting)
          <6>1. TolerantCandidates(s) \subseteq Range(Candidates(s))
            BY Zenon DEF TolerantCandidates, Range
          <6> QED BY <6>1, CandidatesWait
        <5> QED BY <1>2, <3>1, <5>1, TargetsAreNat
      <4> QED BY <2>1, <4>1, <4>2, ToleranceNarrows
    <3> QED BY <3>2, <3>3
  <2>2. CASE ~UseTolerance
    <3>1. Joining(s) = SameBucketCandidates(s)
      BY <2>2 DEF Joining
    <3>2. \A z \in Joining(s) : {DurationBucket(s, a) : a \in Anchors(s)} = {DurationBucket(s, z)}
      BY <3>1 DEF SameBucketCandidates
    <3>3. \A z \in Joining(s), a \in Anchors(s) : DurationBucket(s, a) = DurationBucket(s, z)
      BY <3>2
    <3>4. ASSUME NEW v \in Joining(s), NEW w \in Joining(s)
          PROVE  DurationBucket(s, v) = DurationBucket(s, w)
      BY <3>2
    <3>5. \A a, c \in Anchors(s) : DurationBucket(s, a) = DurationBucket(s, c)
      BY <1>3, <2>2
    <3>6. DurationBucket(s, x) = DurationBucket(s, y)
      BY <3>3, <3>4, <3>5
    <3> QED BY <2>2, <3>6
  <2> QED BY <2>1, <2>2
<1>5. t.req = s.req
  BY AfterScheduleFields DEF SchedulerOK, AfterSchedule, Scheduler
<1>6. \A x \in all : /\ PadTokens(t, x) = PadTokens(s, x)
                     /\ DurationBucket(t, x) = DurationBucket(s, x)
  BY <1>5 DEF PadTokens, DurationBucket, TargetTokens
<1> HIDE DEF t, all
<1> QED BY <1>1, <1>4, <1>6 DEF Homogeneous
===============================================================================
