----------------------------- MODULE StageDiffusion -----------------------------
(***************************************************************************)
(* A diffusion stage in a process of its own: StageDiffusionClient, which  *)
(* the orchestrator polls, StageDiffusionProc, whose event loop reads one  *)
(* message at a time and runs requests and control RPCs on a thread pool,  *)
(* and the two sockets between them.                                       *)
(*                                                                         *)
(* A request is the number of its submission, so that two submissions      *)
(* under one id are told apart.  DiffusionEngine.step is a job that ends   *)
(* with a result or an error; one that the engine has aborted ends without *)
(* a reply, or never (see AbortsSurface of DiffusionEngine).               *)
(***************************************************************************)
EXTENDS QueueOps

CONSTANTS
  Rid,         \* request ids
  MaxRequests, \* bound: submissions
  Rpc,         \* calls of collective_rpc_async: numbers above MaxRequests
  TimedRpc,    \* those with a timeout
  MaxCalls,    \* bound: submissions and calls together
  Workers      \* max_workers of the thread pool

ASSUME StageAssumption ==
  /\ Rid \subseteq Nat
  /\ MaxRequests \in Nat /\ MaxCalls \in Nat
  /\ Rpc \subseteq {n \in Nat : n > MaxRequests} /\ IsFiniteSet(Rpc)
  /\ TimedRpc \subseteq Rpc
  /\ Workers \in Nat \ {0}

VARIABLES
  submitted,     \* the requests: their id, and whether they are a batch
  given_up,      \* requests whose id was aborted after they were submitted
  unsent,        \* batch requests whose sending task has not run
  requests,      \* messages on the request socket
  responses,     \* messages on the response socket
  outputs,       \* _output_queue
  returned,      \* requests whose output get_diffusion_output_nowait returned
  caller,        \* where each collective_rpc_async is
  rpc_results,   \* _rpc_results
  engine_dead,   \* _engine_dead
  shutting_down, \* _shutting_down
  client_at,     \* the synchronous section the client's thread is in
  told,          \* get_diffusion_output_nowait raised EngineDeadError
  process,       \* the subprocess
  awaiting,      \* the RPC run_loop awaits, or None
  task,          \* the tasks of the requests
  cancelled,     \* tasks that were cancelled
  tasks,         \* the table of run_loop: a request for each id, or None
  queue,         \* jobs waiting for a thread of the pool
  job,           \* what became of the jobs
  aborting,      \* abort_queue of the engine
  hit            \* running jobs whose engine request was aborted

client_vars == <<submitted, given_up, unsent, outputs, returned, caller, rpc_results,
                 engine_dead, shutting_down, client_at, told>>
process_vars == <<process, awaiting, task, cancelled, tasks, queue, job, aborting, hit>>
stage_vars == <<client_vars, process_vars, requests, responses>>

None == 0
Request == 1 .. MaxRequests
Job == Request \cup Rpc
Polling == -1

Message(type, n) == [type |-> type, of |-> n]
RequestMessage ==
  [type : {"add"}, of : Request] \cup [type : {"abort"}, of : Rid]
    \cup [type : {"rpc"}, of : Rpc] \cup {Message("shutdown", None)}
ReplyMessage == [type : {"result", "error"}, of : Request]
ResponseMessage ==
  ReplyMessage \cup [type : {"rpc_result", "rpc_error"}, of : Rpc] \cup {Message("dead", None)}

IdOf(t) == submitted[t].rid
Known == DOMAIN submitted
Min(S) == CHOOSE k \in S : \A l \in S : k <= l

StageInit ==
  /\ submitted = <<>>
  /\ given_up = {}
  /\ unsent = <<>>
  /\ requests = <<>>
  /\ responses = <<>>
  /\ outputs = <<>>
  /\ returned = {}
  /\ caller = [n \in Rpc |-> "idle"]
  /\ rpc_results = {}
  /\ engine_dead = FALSE
  /\ shutting_down = FALSE
  /\ client_at = None
  /\ told = FALSE
  /\ process = "running"
  /\ awaiting = None
  /\ task = [t \in Request |-> "none"]
  /\ cancelled = {}
  /\ tasks = [r \in Rid |-> None]
  /\ queue = <<>>
  /\ job = [j \in Job |-> "none"]
  /\ aborting = {}
  /\ hit = {}

-------------------------------------------------------------------------------
(* The client.                                                             *)

(* What is sent to a process that has ended is lost.                       *)
Send(m) == requests' = IF process = "running" THEN Append(requests, m) ELSE requests

Free == client_at = None /\ ~shutting_down

Calls == Len(submitted) + Cardinality({n \in Rpc : caller[n] # "idle"})

(* Ids are numbered in the order in which they are first used.             *)
(* add_request_async sends at once, add_batch_request_async leaves the     *)
(* sending to a task.                                                      *)
AddRequest(r, batch) ==
  /\ Free
  /\ ~engine_dead
  /\ Len(submitted) < MaxRequests /\ Calls < MaxCalls
  /\ r = 1 \/ \E t \in Known : IdOf(t) = r - 1
  /\ LET t == Len(submitted) + 1 IN
       /\ submitted' = Append(submitted, [rid |-> r, batch |-> batch])
       /\ IF batch THEN unsent' = Append(unsent, t) /\ UNCHANGED requests
          ELSE Send(Message("add", t)) /\ UNCHANGED unsent
  /\ UNCHANGED <<given_up, outputs, returned, caller, rpc_results, engine_dead, shutting_down,
                 client_at, told, process_vars, responses>>

RunBatch ==
  /\ Free
  /\ unsent # <<>>
  /\ Send(Message("add", Head(unsent)))
  /\ unsent' = Tail(unsent)
  /\ UNCHANGED <<submitted, given_up, outputs, returned, caller, rpc_results, engine_dead,
                 shutting_down, client_at, told, process_vars, responses>>

AbortRequests(r) ==
  /\ Free
  /\ LET live == {t \in Known : IdOf(t) = r} IN
       /\ live \ given_up # {}
       /\ given_up' = given_up \cup live
  /\ Send(Message("abort", r))
  /\ UNCHANGED <<submitted, unsent, outputs, returned, caller, rpc_results, engine_dead,
                 shutting_down, client_at, told, process_vars, responses>>

CollectiveRpc(n) ==
  /\ Free
  /\ ~engine_dead
  /\ Calls < MaxCalls
  /\ caller[n] = "idle"
  /\ caller' = [caller EXCEPT ![n] = "waiting"]
  /\ Send(Message("rpc", n))
  /\ UNCHANGED <<submitted, given_up, unsent, outputs, returned, rpc_results, engine_dead,
                 shutting_down, client_at, told, process_vars, responses>>

(* _drain_responses reads up to the death sentinel.  An RPC's result is    *)
(* kept whether or not its caller still waits, an error only if it does.   *)
Kept(m) == m.type = "rpc_result" \/ (m.type = "rpc_error" /\ caller[m.of] = "waiting")
Drained ==
  LET stops == {k \in DOMAIN responses : responses[k].type = "dead"}
  IN SubSeq(responses, 1, IF stops = {} THEN Len(responses) ELSE Min(stops))
Arrived == outputs \o Keep(Drained, ReplyMessage)
DrainResponses ==
  /\ responses' = SubSeq(responses, Len(Drained) + 1, Len(responses))
  /\ rpc_results' = rpc_results \cup {m.of : m \in {m \in Range(Drained) : Kept(m)}}

(* get_diffusion_output_nowait: the next output if there is one ...        *)
ReturnNext ==
  /\ returned' = returned \cup {Head(Arrived).of}
  /\ outputs' = Tail(Arrived)

Poll ==
  /\ Free
  /\ ~told
  /\ DrainResponses
  /\ engine_dead' = (engine_dead \/ Message("dead", None) \in Range(Drained))
  /\ IF Arrived # <<>>
     THEN ReturnNext /\ UNCHANGED client_at
     ELSE client_at' = Polling /\ UNCHANGED <<returned, outputs>>
  /\ UNCHANGED <<submitted, given_up, unsent, caller, shutting_down, told, process_vars, requests>>

(* ... or the news that there will be none.  A process that a signal ended *)
(* is taken to be shut down from outside.                                  *)
PollDead ==
  /\ client_at = Polling
  /\ engine_dead
  /\ told' = TRUE
  /\ client_at' = None
  /\ UNCHANGED <<submitted, given_up, unsent, outputs, returned, caller, rpc_results,
                 engine_dead, shutting_down, process_vars, requests, responses>>

PollGone ==
  /\ client_at = Polling
  /\ ~engine_dead
  /\ process # "running"
  /\ DrainResponses
  /\ engine_dead' = TRUE
  /\ client_at' = None
  /\ IF Arrived # <<>>
     THEN ReturnNext /\ UNCHANGED <<told, shutting_down>>
     ELSE /\ told' = (process # "signalled")
          /\ shutting_down' = (process = "signalled")
          /\ UNCHANGED <<returned, outputs>>
  /\ UNCHANGED <<submitted, given_up, unsent, caller, process_vars, requests>>

PollNothing ==
  /\ client_at = Polling
  /\ ~engine_dead
  /\ process = "running"
  /\ client_at' = None
  /\ UNCHANGED <<submitted, given_up, unsent, outputs, returned, caller, rpc_results,
                 engine_dead, shutting_down, told, process_vars, requests, responses>>

(* One turn of the waiting loop of collective_rpc_async.                   *)
RpcDrain(n) ==
  /\ Free
  /\ caller[n] = "waiting"
  /\ DrainResponses
  /\ engine_dead' = (engine_dead \/ Message("dead", None) \in Range(Drained))
  /\ outputs' = Arrived
  /\ client_at' = n
  /\ UNCHANGED <<submitted, given_up, unsent, returned, caller, shutting_down, told,
                 process_vars, requests>>

RpcReturns(n) ==
  /\ client_at = n
  /\ n \in rpc_results
  /\ rpc_results' = rpc_results \ {n}
  /\ caller' = [caller EXCEPT ![n] = "returned"]
  /\ client_at' = None
  /\ UNCHANGED <<submitted, given_up, unsent, outputs, returned, engine_dead, shutting_down,
                 told, process_vars, requests, responses>>

RpcFindsDead(n) ==
  /\ client_at = n
  /\ n \notin rpc_results
  /\ engine_dead \/ process # "running"
  /\ engine_dead' = TRUE
  /\ caller' = [caller EXCEPT ![n] = "dead"]
  /\ client_at' = None
  /\ UNCHANGED <<submitted, given_up, unsent, outputs, returned, rpc_results, shutting_down,
                 told, process_vars, requests, responses>>

RpcWaits(n) ==
  /\ client_at = n
  /\ n \notin rpc_results
  /\ ~engine_dead /\ process = "running"
  /\ \/ caller' = caller
     \/ n \in TimedRpc /\ caller' = [caller EXCEPT ![n] = "timed out"]
  /\ client_at' = None
  /\ UNCHANGED <<submitted, given_up, unsent, outputs, returned, rpc_results, engine_dead,
                 shutting_down, told, process_vars, requests, responses>>

(* The monitor thread.                                                     *)
MonitorSeesDeath ==
  /\ process # "running"
  /\ ~shutting_down
  /\ ~engine_dead
  /\ engine_dead' = TRUE
  /\ UNCHANGED <<submitted, given_up, unsent, outputs, returned, caller, rpc_results,
                 shutting_down, client_at, told, process_vars, requests, responses>>

Shutdown ==
  /\ Free
  /\ shutting_down' = TRUE
  /\ Send(Message("shutdown", None))
  /\ UNCHANGED <<submitted, given_up, unsent, outputs, returned, caller, rpc_results,
                 engine_dead, client_at, told, process_vars, responses>>

-------------------------------------------------------------------------------
(* The process.  Until run_loop yields, it handles messages back to back,  *)
(* and no task runs.                                                       *)

Running == process = "running"
Live(t) == task[t] \in {"created", "waiting"}

ReceiveAdd ==
  /\ Running /\ awaiting = None
  /\ requests # <<>>
  /\ Head(requests).type = "add"
  /\ LET t == Head(requests).of IN
       /\ task' = [task EXCEPT ![t] = "created"]
       /\ tasks' = [tasks EXCEPT ![IdOf(t)] = t]
  /\ requests' = Tail(requests)
  /\ UNCHANGED <<client_vars, process, awaiting, cancelled, queue, job, aborting, hit, responses>>

(* Mutant of Cancelled: left to the engine's abort.                        *)
CancelledNone(r) == cancelled
Cancelled(r) == cancelled \cup ({tasks[r]} \ {None})
ReceiveAbort ==
  /\ Running /\ awaiting = None
  /\ requests # <<>>
  /\ Head(requests).type = "abort"
  /\ LET r == Head(requests).of IN
       /\ cancelled' = Cancelled(r)
       /\ tasks' = [tasks EXCEPT ![r] = None]
       /\ aborting' = aborting \cup {r}
  /\ requests' = Tail(requests)
  /\ UNCHANGED <<client_vars, process, awaiting, task, queue, job, hit, responses>>

ReceiveRpc ==
  /\ Running /\ awaiting = None
  /\ requests # <<>>
  /\ Head(requests).type = "rpc"
  /\ awaiting' = Head(requests).of
  /\ queue' = Append(queue, Head(requests).of)
  /\ job' = [job EXCEPT ![Head(requests).of] = "queued"]
  /\ requests' = Tail(requests)
  /\ UNCHANGED <<client_vars, process, task, cancelled, tasks, aborting, hit, responses>>

(* What the process leaves behind: its tasks are cancelled and send no     *)
(* reply, close() ends the engine under the jobs.                          *)
Ends(how) ==
  /\ process' = how
  /\ awaiting' = None
  /\ task' = [t \in Request |-> "none"]
  /\ cancelled' = {}
  /\ tasks' = [r \in Rid |-> None]
  /\ queue' = <<>>
  /\ job' = [j \in Job |-> "none"]
  /\ aborting' = {}
  /\ hit' = {}
  /\ requests' = <<>>
  /\ UNCHANGED client_vars

ReceiveShutdown ==
  /\ Running /\ awaiting = None
  /\ requests # <<>>
  /\ Head(requests).type = "shutdown"
  /\ Ends("exited")
  /\ UNCHANGED responses

(* A message that cannot be decoded, or a call of the engine that raises.  *)
LoopFails ==
  /\ Running /\ awaiting = None
  /\ requests # <<>>
  /\ Ends("failed")
  /\ responses' = Append(responses, Message("dead", None))

(* SIGTERM raises SystemExit, which no handler of run_loop catches;        *)
(* SIGKILL or a crash may lose what the socket still buffers.              *)
Signalled == Running /\ Ends("signalled") /\ UNCHANGED responses
Killed ==
  /\ Running
  /\ Ends("killed")
  /\ \E n \in 0 .. Len(responses) : responses' = SubSeq(responses, 1, n)

(* A task starts: its job goes to the pool.  One that was cancelled before *)
(* does not run at all.                                                    *)
StartTask(t) ==
  /\ Running
  /\ task[t] = "created"
  /\ cancelled' = cancelled \ {t}
  /\ IF t \in cancelled
     THEN task' = [task EXCEPT ![t] = "ended"] /\ UNCHANGED <<queue, job>>
     ELSE /\ task' = [task EXCEPT ![t] = "waiting"]
          /\ queue' = Append(queue, t)
          /\ job' = [job EXCEPT ![t] = "queued"]
  /\ UNCHANGED <<client_vars, process, awaiting, tasks, aborting, hit, requests, responses>>

(* tasks.pop(request_id) in its finally clause, whoever the entry is for.  *)
Popped(t) == [tasks EXCEPT ![IdOf(t)] = None]

CancelTask(t) ==
  /\ Running
  /\ task[t] = "waiting"
  /\ t \in cancelled
  /\ task' = [task EXCEPT ![t] = "ended"]
  /\ tasks' = Popped(t)
  /\ queue' = Without(queue, {t})
  /\ job' = [job EXCEPT ![t] = IF @ = "running" THEN @ ELSE "none"]
  /\ cancelled' = cancelled \ {t}
  /\ UNCHANGED <<client_vars, process, awaiting, aborting, hit, requests, responses>>

(* Mutant of Reply: one that failed is not replied to.                     *)
ReplyIfGood(t) == IF job[t] = "result" THEN <<Message("result", t)>> ELSE <<>>
(* An aborted request is not replied to.                                   *)
Reply(t) == IF job[t] = "aborted" THEN <<>> ELSE <<Message(job[t], t)>>

FinishTask(t) ==
  /\ Running
  /\ task[t] = "waiting"
  /\ t \notin cancelled
  /\ job[t] \in {"result", "error", "aborted"}
  /\ task' = [task EXCEPT ![t] = "ended"]
  /\ tasks' = Popped(t)
  /\ responses' = responses \o Reply(t)
  /\ job' = [job EXCEPT ![t] = "none"]
  /\ UNCHANGED <<client_vars, process, awaiting, cancelled, queue, aborting, hit, requests>>

FinishRpc ==
  /\ Running
  /\ awaiting # None
  /\ job[awaiting] \in {"result", "error"}
  /\ responses' = Append(responses,
       Message(IF job[awaiting] = "result" THEN "rpc_result" ELSE "rpc_error", awaiting))
  /\ awaiting' = None
  /\ job' = [job EXCEPT ![awaiting] = "none"]
  /\ UNCHANGED <<client_vars, process, task, cancelled, tasks, queue, aborting, hit, requests>>

Busy == {j \in Job : job[j] = "running"}

TakeJob ==
  /\ Running
  /\ queue # <<>>
  /\ Cardinality(Busy) < Workers
  /\ queue' = Tail(queue)
  /\ job' = [job EXCEPT ![Head(queue)] = "running"]
  /\ UNCHANGED <<client_vars, process, awaiting, task, cancelled, tasks, aborting, hit,
                 requests, responses>>

(* The engine drains its abort queue: it finds the request of a job that   *)
(* has been added and is not finished.  The ids of a batch are not its id. *)
DrainAborts ==
  /\ Running
  /\ aborting # {}
  /\ \E found \in SUBSET {t \in Known : job[t] = "running" /\ IdOf(t) \in aborting
                                           /\ ~submitted[t].batch} :
       hit' = hit \cup found
  /\ aborting' = {}
  /\ UNCHANGED <<client_vars, process, awaiting, task, cancelled, tasks, queue, job,
                 requests, responses>>

EndJob(j, outcome) ==
  /\ Running
  /\ job[j] = "running"
  /\ (outcome = "aborted") = (j \in hit)
  /\ job' = [job EXCEPT ![j] = IF j \in Request /\ task[j] = "ended" THEN "none" ELSE outcome]
  /\ hit' = hit \ {j}
  /\ UNCHANGED <<client_vars, process, awaiting, task, cancelled, tasks, queue, aborting,
                 requests, responses>>

-------------------------------------------------------------------------------
Client ==
  \/ \E r \in Rid, batch \in BOOLEAN : AddRequest(r, batch)
  \/ RunBatch
  \/ \E r \in Rid : AbortRequests(r)
  \/ \E n \in Rpc : CollectiveRpc(n)
  \/ Poll \/ PollDead \/ PollGone \/ PollNothing
  \/ \E n \in Rpc : RpcDrain(n) \/ RpcReturns(n) \/ RpcFindsDead(n) \/ RpcWaits(n)
  \/ Shutdown

Receive == ReceiveAdd \/ ReceiveAbort \/ ReceiveRpc \/ ReceiveShutdown
TaskRuns(t) == StartTask(t) \/ CancelTask(t) \/ FinishTask(t)

Process ==
  \/ Receive
  \/ LoopFails \/ Signalled \/ Killed
  \/ \E t \in Known : TaskRuns(t)
  \/ FinishRpc
  \/ TakeJob
  \/ DrainAborts
  \/ \E j \in Job, outcome \in {"result", "error", "aborted"} : EndJob(j, outcome)

StageNext == Client \/ MonitorSeesDeath \/ Process

Spec == StageInit /\ [][StageNext]_stage_vars

(* The event loop and the threads run, the orchestrator goes on polling,   *)
(* and an engine call ends, but for those whose request was aborted.  The  *)
(* client's coroutines take turns, so that theirs is strong fairness.      *)
Fairness ==
  /\ SF_stage_vars(RunBatch)
  /\ SF_stage_vars(Poll)
  /\ WF_stage_vars(PollDead \/ PollGone \/ PollNothing)
  /\ \A n \in Rpc : /\ SF_stage_vars(RpcDrain(n))
                    /\ WF_stage_vars(RpcReturns(n) \/ RpcFindsDead(n) \/ RpcWaits(n))
  /\ WF_stage_vars(Receive)
  /\ \A t \in Request : WF_stage_vars(t \in Known /\ TaskRuns(t))
  /\ WF_stage_vars(FinishRpc)
  /\ WF_stage_vars(TakeJob)
  /\ WF_stage_vars(MonitorSeesDeath)
  /\ \A j \in Job : WF_stage_vars(\E o \in {"result", "error"} : EndJob(j, o))

FairSpec == Spec /\ Fairness

-------------------------------------------------------------------------------
(* Another request has the id of t.                                        *)
Reused(t) == t \in Known /\ \E u \in Known \ {t} : IdOf(u) = IdOf(t)

TypeOK ==
  /\ submitted \in Seq([rid : Rid, batch : BOOLEAN]) /\ Len(submitted) <= MaxRequests
  /\ given_up \in SUBSET Request
  /\ unsent \in Seq(Request)
  /\ requests \in Seq(RequestMessage)
  /\ responses \in Seq(ResponseMessage)
  /\ outputs \in Seq(ReplyMessage)
  /\ returned \in SUBSET Request
  /\ caller \in [Rpc -> {"idle", "waiting", "returned", "timed out", "dead"}]
  /\ rpc_results \in SUBSET Rpc
  /\ engine_dead \in BOOLEAN /\ shutting_down \in BOOLEAN /\ told \in BOOLEAN
  /\ client_at \in {None, Polling} \cup Rpc
  /\ process \in {"running", "failed", "signalled", "killed", "exited"}
  /\ awaiting \in {None} \cup Rpc
  /\ task \in [Request -> {"none", "created", "waiting", "ended"}]
  /\ cancelled \in SUBSET Request
  /\ tasks \in [Rid -> {None} \cup Request]
  /\ queue \in Seq(Job)
  /\ job \in [Job -> {"none", "queued", "running", "result", "error", "aborted"}]
  /\ aborting \in SUBSET Rid
  /\ hit \in SUBSET Request

(* The requests whose reply is on its way to the caller, or has reached it.*)
Replies(s) == {s[k].of : k \in {k \in DOMAIN s : s[k].type \in {"result", "error"}}}

(* While the process runs, a request that nobody aborted is in one place:  *)
(* not yet sent, on the wire, with a task, or replied to; an error does    *)
(* not make it vanish.  An id used twice is excluded: the abort of the     *)
(* first, late in the engine's queue, may silence the second.              *)
NothingLost ==
  Running => \A t \in Known \ given_up : ~Reused(t) =>
    \/ t \in Range(unsent) \/ Message("add", t) \in Range(requests) \/ Live(t)
    \/ t \in Replies(responses) \cup Replies(outputs) \cup returned

(* No reply is sent for a request once its abort has been read, whatever   *)
(* its task and its job were doing: the table of tasks finds it.  A batch  *)
(* is excluded, its abort may be sent before it is; and so is an id used   *)
(* twice, whose entry the first task takes away when it ends.              *)
NoReplyAfterAbort ==
  [][\A t \in given_up :
       /\ ~Reused(t) /\ ~submitted[t].batch
       /\ Message("abort", IdOf(t)) \notin Range(requests)
       => (t \in Replies(responses') => t \in Replies(responses))]_stage_vars

-------------------------------------------------------------------------------
(* Why nothing is lost and aborts are heeded: the parts of an inductive    *)
(* invariant.                                                              *)

(* What the client or the process refers to has been submitted; a task is  *)
(* filed under its own id, and only batches wait to be sent.               *)
OnlyKnown ==
  /\ given_up \subseteq Known
  /\ \A t \in Request : Message("add", t) \in Range(requests) => t \in Known
  /\ \A t \in Request : task[t] # "none" => t \in Known
  /\ \A t \in Range(unsent) : t \in Known /\ submitted[t].batch
  /\ \A r \in Rid : tasks[r] # None => tasks[r] \in Known /\ IdOf(tasks[r]) = r

(* Someone aborted the id of whatever is cancelled or silenced.            *)
AbortsAreMeant ==
  /\ \A r \in Rid :
       Message("abort", r) \in Range(requests) \/ r \in aborting =>
         \E t \in given_up : IdOf(t) = r
  /\ \A t \in Request :
       t \in cancelled \cup hit \/ job[t] = "aborted" =>
         t \in Known /\ (t \in given_up \/ Reused(t))

(* The table finds a task that lives and is not cancelled.                 *)
TasksAreFound ==
  \A t \in Known :
    Running /\ Live(t) /\ ~Reused(t) => t \in cancelled \/ tasks[IdOf(t)] = t

(* On the request socket, an abort of its id is behind every copy of t.    *)
AbortFollows(t) ==
  \A k \in DOMAIN requests : requests[k] = Message("add", t) =>
    \E l \in DOMAIN requests : k < l /\ requests[l] = Message("abort", IdOf(t))

(* An abort is read after the request it means, and cancels its task.      *)
AbortsAreHeeded ==
  \A t \in given_up :
    Running /\ ~Reused(t) /\ ~submitted[t].batch =>
      /\ AbortFollows(t)
      /\ Live(t) => t \in cancelled \/ Message("abort", IdOf(t)) \in Range(requests)

StageInvariant ==
  TypeOK /\ OnlyKnown /\ AbortsAreMeant /\ TasksAreFound /\ AbortsAreHeeded /\ NothingLost

-------------------------------------------------------------------------------
(* Threads of the pool held by requests that the engine aborted and may    *)
(* never answer.                                                           *)
Held == {t \in Known : job[t] = "running" /\ t \in hit}

(* A submitted request is answered, aborted, or the caller learns that the *)
(* engine is dead: unless aborted requests hold every thread of the pool.  *)
RequestsEnd ==
  \A t \in Request :
    t \in Known ~> \/ t \in returned \cup given_up \/ Reused(t)
                   \/ told \/ shutting_down
                   \/ Cardinality(Held) = Workers

(* So does every control RPC: through its result, its error, its timeout   *)
(* or the death of the process, though the loop that serves it reads       *)
(* nothing else meanwhile.                                                 *)
RpcsEnd ==
  \A n \in Rpc :
    caller[n] = "waiting" ~> \/ caller[n] # "waiting" \/ shutting_down
                            \/ Cardinality(Held) = Workers

(* Every call to the stage ends (stage_diffusion_client.py:365, :443).     *)
CallsEnd == RequestsEnd /\ RpcsEnd
===============================================================================
