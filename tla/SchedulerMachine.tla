--------------------------- MODULE SchedulerMachine ---------------------------
(***************************************************************************)
(* The scheduler behind its interface, driven by any caller that follows   *)
(* the protocol of SchedulerInterface: one batch in flight at a time, its  *)
(* output of any shape handed to update_from_output, and in between        *)
(* requests added, aborted, preempted and, once over, popped.  The engine  *)
(* is one such caller; preempt_request has none in the repository yet.     *)
(***************************************************************************)
EXTENDS DiffusionScheduler

VARIABLES
  sched,     \* the scheduler
  batch,     \* the output of schedule() that is being executed
  surfaced   \* what the last update_from_output returned

vars == <<sched, batch, surfaced>>

NoBatch == [new |-> <<>>, cached |-> <<>>, finished |-> {}]
InFlight == Range(Scheduled(batch))

Init ==
  /\ sched = EmptyScheduler
  /\ batch = NoBatch
  /\ surfaced = {}

Add(r) ==
  /\ \E x \in SchedIds : IsSchedReqId(sched, r, x) /\ sched' = AddRequest(sched, r, x)
  /\ UNCHANGED <<batch, surfaced>>

Schedule ==
  /\ InFlight = {}
  /\ HasRequests(sched)
  /\ batch' = Output(sched)
  /\ sched' = AfterSchedule(sched)
  /\ UNCHANGED surfaced

(* Per-request results, or one result for the whole batch. *)
BatchOutputs ==
  [req_id : {Scheduled(batch)[1]}, result : {"none"},
   results : {[x \in SchedIds |-> IF x \in InFlight THEN f[x] ELSE "none"] :
                f \in [InFlight -> RunnerResult]},
   batched : {TRUE}, finished : SUBSET InFlight,
   step : {[x \in SchedIds |-> IF x \in stepped THEN 1 ELSE 0] : stepped \in SUBSET InFlight}]

SingleOutputs ==
  [req_id : {Scheduled(batch)[1]}, result : RunnerResult,
   results : {[x \in SchedIds |-> "none"]}, batched : {FALSE},
   finished : {{}, InFlight}, step : {[x \in SchedIds |-> 0]}]

Update ==
  /\ InFlight # {}
  /\ \E ro \in BatchOutputs \cup SingleOutputs :
       /\ sched' = UpdateFromOutput(sched, batch, ro)
       /\ surfaced' = FinishedBy(sched, batch, ro)
  /\ batch' = NoBatch

(* Also while the batch that runs it is in flight. *)
Finish(x) ==
  /\ sched.status[x] \in Queued
  /\ sched' = FinishRequests(sched, {x}, "ABORTED")
  /\ UNCHANGED <<batch, surfaced>>

Preempt(x) ==
  /\ sched.status[x] # "NONE"
  /\ sched' = PreemptRequest(sched, x)
  /\ UNCHANGED <<batch, surfaced>>

Pop(x) ==
  /\ sched.status[x] \in Finished
  /\ x \notin InFlight
  /\ sched' = PopRequestStates(sched, {x})
  /\ UNCHANGED <<batch, surfaced>>

Close ==
  /\ sched # EmptyScheduler
  /\ sched' = EmptyScheduler
  /\ UNCHANGED <<batch, surfaced>>

Next ==
  \/ \E r \in Reqs : Add(r)
  \/ Schedule
  \/ Update
  \/ \E x \in SchedIds : Finish(x) \/ Preempt(x) \/ Pop(x)
  \/ Close

Spec == Init /\ [][Next]_vars

-----------------------------------------------------------------------------

(* No sequence of legal calls makes the queues, the states and the id map  *)
(* disagree, or overfills the batch (base_scheduler.py).                   *)
Consistent == SchedulerOK(sched)

(* Whoever was in the batch and is over when its output has been taken in, *)
(* through the output or by an abort in between, is in the set             *)
(* update_from_output returns, and nobody else is: the engine wakes the    *)
(* waiters of that set and of no other (base_scheduler.py:269).            *)
SurfacesTerminal ==
  InFlight # {} /\ InFlight' = {} =>
    surfaced' = {x \in InFlight : sched'.status[x] \in Finished}

UpdateSurfacesTerminal == [][SurfacesTerminal]_vars

(* In fifo order a never-run request does not start while another that     *)
(* was queued ahead of it stays behind (base_scheduler.py:308).            *)
StartsInOrder ==
  Strategy = "fifo" =>
    \A j \in DOMAIN sched.waiting : \A i \in 1..(j - 1) :
      LET first == sched.waiting[i]
          second == sched.waiting[j]
      IN  /\ sched.status[first] = "WAITING"
          /\ sched'.status[second] = "RUNNING"
          => sched'.status[first] # "WAITING"

NoOvertaking == [][StartsInOrder]_vars
===============================================================================
