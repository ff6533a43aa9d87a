------------------------------ MODULE InlineStage ------------------------------
(***************************************************************************)
(* A diffusion stage in the orchestrator's own process:                    *)
(* InlineStageDiffusionClient.  One event loop runs its coroutines, a pool *)
(* of threads the engine calls; threads reach the loop only through        *)
(* callbacks, which run in the order they were scheduled.                  *)
(*                                                                         *)
(* As in StageDiffusion, a request is the number of its submission, and    *)
(* the engine call of an aborted request ends without a reply or never.    *)
(***************************************************************************)
EXTENDS Naturals, Sequences, FiniteSets, QueueOps

CONSTANTS
  Rid,         \* request ids
  MaxRequests, \* bound: submissions
  MaxChunks,   \* bound: chunks of a stream
  Rpc,         \* calls of collective_rpc_async: numbers above MaxRequests
  MaxCalls,    \* bound: submissions and calls together
  Workers      \* pool_size

VARIABLES
  submitted, \* the requests: their id and kind
  given_up,  \* requests whose id was aborted after they were submitted
  task,      \* the tasks of the requests
  cancelled, \* tasks that were cancelled
  tasks,     \* _tasks: a request for each id, or None
  caller,    \* where each collective_rpc_async is
  queue,     \* jobs waiting for a thread of the pool
  job,       \* what became of the jobs
  chunks,    \* chunks each stream has scheduled
  aborting,  \* abort_queue of the engine
  hit,       \* running jobs whose engine request was aborted
  callbacks, \* what the threads have scheduled on the loop
  outputs,   \* everything ever put into _output_queue
  closing    \* where shutdown() is

inline_vars == <<submitted, given_up, task, cancelled, tasks, caller, queue, job, chunks,
                 aborting, hit, callbacks, outputs, closing>>

None == 0
Request == 1 .. MaxRequests
Job == Request \cup Rpc
Kind == {"single", "batch", "stream"}

Output(type, t) == [type |-> type, of |-> t]
IdOf(t) == submitted[t].rid
IsStream(t) == submitted[t].kind = "stream"
Known == DOMAIN submitted
LoopRuns == closing # "waiting"

InlineInit ==
  /\ submitted = <<>>
  /\ given_up = {}
  /\ task = [t \in Request |-> "none"]
  /\ cancelled = {}
  /\ tasks = [r \in Rid |-> None]
  /\ caller = [n \in Rpc |-> "idle"]
  /\ queue = <<>>
  /\ job = [j \in Job |-> "none"]
  /\ chunks = [t \in Request |-> 0]
  /\ aborting = {}
  /\ hit = {}
  /\ callbacks = <<>>
  /\ outputs = <<>>
  /\ closing = "no"

-------------------------------------------------------------------------------
(* The loop.                                                               *)

Calls == Len(submitted) + Cardinality({n \in Rpc : caller[n] # "idle"})

(* Ids are numbered in the order in which they are first used.             *)
AddRequest(r, kind) ==
  /\ closing = "no"
  /\ Len(submitted) < MaxRequests /\ Calls < MaxCalls
  /\ r = 1 \/ \E t \in Known : IdOf(t) = r - 1
  /\ LET t == Len(submitted) + 1 IN
       /\ submitted' = Append(submitted, [rid |-> r, kind |-> kind])
       /\ task' = [task EXCEPT ![t] = "created"]
       /\ tasks' = [tasks EXCEPT ![r] = t]
  /\ UNCHANGED <<given_up, cancelled, caller, queue, job, chunks, aborting, hit, callbacks,
                 outputs, closing>>

(* Mutant of Cancelled: left to the engine's abort.                        *)
CancelledNone(r) == cancelled
Cancelled(r) == cancelled \cup ({tasks[r]} \ {None})

AbortRequests(r) ==
  /\ closing = "no"
  /\ LET live == {t \in Known : IdOf(t) = r} IN
       /\ live \ given_up # {}
       /\ given_up' = given_up \cup live
  /\ cancelled' = Cancelled(r)
  /\ tasks' = [tasks EXCEPT ![r] = None]
  /\ aborting' = aborting \cup {r}
  /\ UNCHANGED <<submitted, task, caller, queue, job, chunks, hit, callbacks, outputs, closing>>

StartTask(t) ==
  /\ LoopRuns
  /\ task[t] = "created"
  /\ cancelled' = cancelled \ {t}
  /\ IF t \in cancelled
     THEN task' = [task EXCEPT ![t] = "ended"] /\ UNCHANGED <<queue, job>>
     ELSE /\ task' = [task EXCEPT ![t] = "waiting"]
          /\ queue' = Append(queue, t)
          /\ job' = [job EXCEPT ![t] = "queued"]
  /\ UNCHANGED <<submitted, given_up, tasks, caller, chunks, aborting, hit,
                 callbacks, outputs, closing>>

(* tasks.pop(request_id) in its finally clause, whoever the entry is for.  *)
Popped(t) == [tasks EXCEPT ![IdOf(t)] = None]

(* Cancelling the task cancels its job only while that waits for a thread. *)
CancelTask(t) ==
  /\ LoopRuns
  /\ task[t] \in {"waiting", "woken"}
  /\ t \in cancelled
  /\ task' = [task EXCEPT ![t] = "ended"]
  /\ tasks' = Popped(t)
  /\ queue' = Without(queue, {t})
  /\ job' = [job EXCEPT ![t] = IF @ = "running" THEN @ ELSE "none"]
  /\ cancelled' = cancelled \ {t}
  /\ UNCHANGED <<submitted, given_up, caller, chunks, aborting, hit, callbacks,
                 outputs, closing>>

(* A stream has put its outputs already; an aborted request has none.      *)
Reply(t) ==
  IF job[t] = "aborted" \/ (job[t] = "result" /\ IsStream(t)) THEN <<>> ELSE <<Output(job[t], t)>>

FinishTask(t) ==
  /\ LoopRuns
  /\ task[t] = "woken"
  /\ t \notin cancelled
  /\ task' = [task EXCEPT ![t] = "ended"]
  /\ tasks' = Popped(t)
  /\ outputs' = outputs \o Reply(t)
  /\ UNCHANGED <<submitted, given_up, cancelled, caller, queue, job, chunks, aborting, hit,
                 callbacks, closing>>

CollectiveRpc(n) ==
  /\ closing = "no"
  /\ Calls < MaxCalls
  /\ caller[n] = "idle"
  /\ caller' = [caller EXCEPT ![n] = "waiting"]
  /\ queue' = Append(queue, n)
  /\ job' = [job EXCEPT ![n] = "queued"]
  /\ UNCHANGED <<submitted, given_up, task, cancelled, tasks, chunks, aborting, hit, callbacks,
                 outputs, closing>>

(* A chunk is put into the queue; the end of a job wakes who awaits it.    *)
RunCallback ==
  /\ LoopRuns
  /\ callbacks # <<>>
  /\ callbacks' = Tail(callbacks)
  /\ LET c == Head(callbacks) IN
       /\ outputs' = IF c.type = "chunk" THEN Append(outputs, c) ELSE outputs
       /\ task' = IF c.type = "end" /\ c.of \in Request /\ task[c.of] = "waiting"
                  THEN [task EXCEPT ![c.of] = "woken"] ELSE task
       /\ caller' = IF c.type = "end" /\ c.of \in Rpc
                    THEN [caller EXCEPT ![c.of] = "returned"] ELSE caller
  /\ UNCHANGED <<submitted, given_up, cancelled, tasks, queue, job, chunks, aborting, hit, closing>>

(* shutdown() blocks the loop until no thread runs a job, and only then    *)
(* closes the engine, which would wake those that wait in it.              *)
Shutdown ==
  /\ closing = "no"
  /\ cancelled' = cancelled \cup ({tasks[r] : r \in Rid} \ {None})
  /\ queue' = <<>>
  /\ job' = [j \in Job |-> IF job[j] = "queued" THEN "none" ELSE job[j]]
  /\ closing' = "waiting"
  /\ UNCHANGED <<submitted, given_up, task, tasks, caller, chunks, aborting, hit, callbacks, outputs>>

Busy == {j \in Job : job[j] = "running"}
(* Mutant of NoneRuns: the tasks are waited for, too.                      *)
NoneRunsOrWaits == Busy = {} /\ \A t \in Request : task[t] \in {"none", "ended"}
NoneRuns == Busy = {}

CloseEngine ==
  /\ closing = "waiting"
  /\ NoneRuns
  /\ closing' = "closed"
  /\ UNCHANGED <<submitted, given_up, task, cancelled, tasks, caller, queue, job, chunks,
                 aborting, hit, callbacks, outputs>>

-------------------------------------------------------------------------------
(* The threads of the pool and the engine.                                 *)

TakeJob ==
  /\ queue # <<>>
  /\ Cardinality(Busy) < Workers
  /\ queue' = Tail(queue)
  /\ job' = [job EXCEPT ![Head(queue)] = "running"]
  /\ UNCHANGED <<submitted, given_up, task, cancelled, tasks, caller, chunks, aborting, hit,
                 callbacks, outputs, closing>>

(* call_soon_threadsafe.                                                   *)
Scheduled(c) == Append(callbacks, c)

(* run_stream hands a chunk to the loop, whoever still awaits it.          *)
EmitChunk(t) ==
  /\ job[t] = "running"
  /\ IsStream(t)
  /\ chunks[t] < MaxChunks
  /\ chunks' = [chunks EXCEPT ![t] = @ + 1]
  /\ callbacks' = Scheduled(Output("chunk", t))
  /\ UNCHANGED <<submitted, given_up, task, cancelled, tasks, caller, queue, job, aborting,
                 hit, outputs, closing>>

(* The ids of a batch are not its id: no abort finds it.                   *)
DrainAborts ==
  /\ aborting # {}
  /\ \E found \in SUBSET {t \in Known : job[t] = "running" /\ IdOf(t) \in aborting
                                           /\ submitted[t].kind # "batch"} :
       hit' = hit \cup found
  /\ aborting' = {}
  /\ UNCHANGED <<submitted, given_up, task, cancelled, tasks, caller, queue, job, chunks,
                 callbacks, outputs, closing>>

(* Nobody is told of the end of a job whose task was cancelled.            *)
EndJob(j, outcome) ==
  /\ job[j] = "running"
  /\ (outcome = "aborted") = (j \in hit)
  /\ hit' = hit \ {j}
  /\ IF j \in Request /\ task[j] = "ended"
     THEN job' = [job EXCEPT ![j] = "none"] /\ UNCHANGED callbacks
     ELSE /\ job' = [job EXCEPT ![j] = outcome]
          /\ callbacks' = Scheduled(Output("end", j))
  /\ UNCHANGED <<submitted, given_up, task, cancelled, tasks, caller, queue, chunks, aborting,
                 outputs, closing>>

-------------------------------------------------------------------------------
TaskRuns(t) == StartTask(t) \/ CancelTask(t) \/ FinishTask(t)

InlineNext ==
  \/ \E r \in Rid, kind \in Kind : AddRequest(r, kind)
  \/ \E r \in Rid : AbortRequests(r)
  \/ \E t \in Known : TaskRuns(t) \/ EmitChunk(t)
  \/ \E n \in Rpc : CollectiveRpc(n)
  \/ RunCallback
  \/ Shutdown \/ CloseEngine
  \/ TakeJob
  \/ DrainAborts
  \/ \E j \in Job, outcome \in {"result", "error", "aborted"} : EndJob(j, outcome)

-------------------------------------------------------------------------------
Reused(t) == t \in Known /\ \E u \in Known \ {t} : IdOf(u) = IdOf(t)
Replied(t, s) == \E k \in DOMAIN s : s[k].of = t /\ s[k].type \in {"result", "error"}

(* An error is the last that its request puts into the queue: no chunk     *)
(* that a thread scheduled before it failed comes after.                   *)
ErrorIsLast ==
  \A k, l \in DOMAIN outputs :
    outputs[k].of = outputs[l].of /\ outputs[k].type \in {"result", "error"} => l <= k

(* A failed request that nobody gave up does not end in silence: its       *)
(* caller finds the error in the queue, streamed or not.                   *)
FailuresReported ==
  \A t \in Known \ given_up :
    task[t] = "ended" /\ job[t] = "error" /\ closing = "no" => Replied(t, outputs)

(* Once its abort was called, a request puts no result or error into the   *)
(* queue, unless its id was used twice.  A stream may: its chunks come     *)
(* from the thread, until the engine stops it.                             *)
QuietAfterAbort ==
  [][\A t \in given_up : ~Reused(t) =>
       (Replied(t, outputs') => Replied(t, outputs))]_inline_vars

-------------------------------------------------------------------------------
(* The inductive invariant (Parts_proofs).                                 *)

(* The calls are told from the requests by their numbers.                  *)
InlineAssumption ==
  /\ MaxRequests \in Nat /\ MaxChunks \in Nat /\ Rid \subseteq Nat
  /\ Rpc \cap Request = {}

Ended == {"result", "error", "aborted"}
Callback == [type : {"chunk"}, of : Request] \cup [type : {"end"}, of : Job]
Putting == [type : {"chunk"} \cup Ended, of : Request]
TypeOK ==
  /\ submitted \in Seq([rid : Rid, kind : Kind]) /\ Len(submitted) =< MaxRequests
  /\ given_up \subseteq Known
  /\ task \in [Request -> {"none", "created", "waiting", "woken", "ended"}]
  /\ cancelled \subseteq Request
  /\ tasks \in [Rid -> Request \cup {None}]
  /\ caller \in [Rpc -> {"idle", "waiting", "returned"}]
  /\ queue \in Seq(Job)
  /\ job \in [Job -> {"none", "queued", "running"} \cup Ended]
  /\ chunks \in [Request -> 0 .. MaxChunks]
  /\ aborting \subseteq Rid
  /\ hit \subseteq Job
  /\ callbacks \in Seq(Callback)
  /\ outputs \in Seq(Putting)
  /\ closing \in {"no", "waiting", "closed"}

(* What waits for a thread is queued, once.                                *)
QueueMatches ==
  /\ IsInjective(queue)
  /\ \A j \in Range(queue) : job[j] = "queued"

Unstarted(j) == IF j \in Request THEN task[j] \in {"none", "created"} ELSE caller[j] = "idle"
Scheduling(j) == \E k \in DOMAIN callbacks : callbacks[k].of = j

(* What has not begun has no job, and a woken task's job has ended: in     *)
(* both cases no callback is due.                                          *)
JobMatches(j) ==
  /\ Unstarted(j) => job[j] = "none"
  /\ j \in Request /\ task[j] = "woken" => job[j] \in Ended
  /\ Unstarted(j) \/ (j \in Request /\ task[j] = "woken") => ~Scheduling(j)

(* The job's end was scheduled, and perhaps forgotten with its task.       *)
Finished(j) ==
  job[j] \in Ended \/ (j \in Request /\ task[j] = "ended" /\ job[j] = "none")

(* The end of a job is the last callback of it, and when a request has its *)
(* reply no callback of it is due nor will be.                             *)
EndIsLast ==
  \A k \in DOMAIN callbacks : callbacks[k].type = "end" =>
    /\ Finished(callbacks[k].of)
    /\ \A l \in DOMAIN callbacks : callbacks[l].of = callbacks[k].of => l =< k
ReplyIsLast ==
  \A t \in Request : Replied(t, outputs) =>
    task[t] = "ended" /\ job[t] \in {"result", "error"} /\ ~Scheduling(t)

FailureMatches ==
  \A t \in Request : task[t] = "ended" /\ job[t] = "error" => Replied(t, outputs)

(* While it lives, the task of an id that is used once is found under that *)
(* id unless it was cancelled; and cancelled it was if it is given up.     *)
Lives(t) == task[t] \in {"created", "waiting", "woken"}
TasksMatch ==
  \A t \in Known : Lives(t) /\ ~Reused(t) =>
    /\ tasks[IdOf(t)] = t \/ t \in cancelled
    /\ t \in given_up => t \in cancelled

InlineInvariant ==
  /\ TypeOK
  /\ \A t \in Request : task[t] = "none" <=> t \notin Known
  /\ QueueMatches
  /\ \A j \in Job : JobMatches(j)
  /\ EndIsLast
  /\ ReplyIsLast
  /\ ErrorIsLast
  /\ FailureMatches
  /\ TasksMatch

-------------------------------------------------------------------------------
Held == {t \in Known : job[t] = "running" /\ t \in hit}

(* shutdown() ends, though it waits for the running jobs before it closes  *)
(* the engine they may wait for: an aborted job may hold it up for ever.   *)
ShutdownWaits == closing = "waiting"
ShutdownOver == closing = "closed" \/ Held # {}
ShutdownEnds == ShutdownWaits ~> ShutdownOver
===============================================================================
