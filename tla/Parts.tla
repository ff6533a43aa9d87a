--------------------------------- MODULE Parts ---------------------------------
(***************************************************************************)
(* Small machines that share nothing, explored one at a time: part says    *)
(* which of them a behaviour runs, the others stay where they begin.  In   *)
(* most of these somebody waits for an answer.  The machines that are      *)
(* proved about (Parts_proofs) take their constants from the configuration.*)
(***************************************************************************)
EXTENDS Integers, Sequences

CONSTANTS
  Rid, MaxRequests, MaxChunks, RpcJob, MaxJobs, Workers, \* InlineStage
  Parent, CompanionsOf, MayDie, MayShutDown, \* Orchestrator
  Guided,                             \* the parents of the part where nothing fails
  RpcId, TimedRpc,                    \* EngineRpc
  Req, Block, Prompt, MaxTokens, MaxRunning, Criteria, \* KvTransfer
  MaxQueries, MaxOutputs,             \* VideoSession
  Video, Deletes, MaxIo,              \* VideoJobs
  Engine, Control, Timed, MaxCalls,   \* ExecutorRpc
  NumStages, Diffusion, Remote, Uses, \* StageStartup
  Instance, StartIndex                \* LoadBalancer

VARIABLES
  part,
  submitted, given_up, task, cancelled, tasks, caller, queue, job,
  chunks, aborting, hit, callbacks, outputs, closing,     \* InlineStage
  generate, expanding, inbox, final_output_task,          \* Orchestrator
  request_queue, output_queue, thread, async_chunk, handler, routing, request_states,
  forwarded, tracker, running, stage_outputs, produced, attached, submissions, answers,
  engine_dead,
  call, reply, rpc_lock, rpc_requests, rpc_output_queue, serving, rpc_thread, \* EngineRpc
  made, over, saves, codes, put, shm, loads, polled, revoked, loaded, got, final,
  ready, origin, requests, status, waiting, running_queue, prompt, computed, flight,
  heard,                                                  \* ChunkTransfer
  criteria, kv_status, kv_requests, kv_waiting, kv_running, held, kv_computed, generated, needing,
  active, keeping, triggered, stopping, leaving, scheduled, executed, content, resident, shipped,
  told, turn,                                             \* KvTransfer
  link, asked, msg_queue, processor, query_task, active_request_id, prev_request_id,
  prev_was_interrupted, interrupt_event, begun, query_turn, query_cancelled, request, query_outputs,
  dropped, wire,                                          \* VideoSession
  video_store, video_task, video_cancel, saving, files, deleting, created, \* VideoJobs
  pc, calls, outcome, lock, broadcast, results, busy, worker, rpc_executed, closed, failed, gone,
  finalized, shutting,                                    \* ExecutorRpc
  main, position, launch_lock, visible, previous, launch, todo, lock_fds, skipped, device_lock,
  process, sees, started_proc, attach, stage_clients, registered, future, constructor,
  queue_closed,                                           \* StageStartup
  instances, next_index, picks                            \* LoadBalancer

inline == <<submitted, given_up, task, cancelled, tasks, caller, queue, job, chunks,
            aborting, hit, callbacks, outputs, closing>>
orchestrator ==
  <<generate, expanding, inbox, final_output_task, request_queue, output_queue, thread,
    async_chunk, handler, routing, request_states, forwarded, tracker, running, stage_outputs,
    produced, attached, submissions, answers, engine_dead>>
rpcs == <<call, reply, rpc_lock, rpc_requests, rpc_output_queue, serving, rpc_thread>>
chunked ==
  <<made, over, saves, codes, put, shm, loads, polled, revoked, loaded, got, final, ready,
    origin, requests, status, waiting, running_queue, prompt, computed, flight, heard>>
transfer ==
  <<criteria, kv_status, kv_requests, kv_waiting, kv_running, held, kv_computed, generated, needing,
    active, keeping, triggered, stopping, leaving, scheduled, executed, content, resident, shipped,
    told, turn>>

session ==
  <<link, asked, msg_queue, processor, query_task, active_request_id, prev_request_id,
    prev_was_interrupted, interrupt_event, begun, query_turn, query_cancelled, request, query_outputs,
    dropped, wire>>
videos == <<video_store, video_task, video_cancel, saving, files, deleting, created>>
executor ==
  <<pc, calls, outcome, lock, broadcast, results, busy, worker, rpc_executed, closed, failed, gone,
    finalized, shutting>>
startup ==
  <<main, position, launch_lock, visible, previous, launch, todo, lock_fds, skipped, device_lock,
    process, sees, started_proc, attach, stage_clients, registered, future, constructor,
    queue_closed>>
balancer == <<instances, next_index, picks>>

vars == <<part, inline, orchestrator, rpcs, chunked, transfer, session, videos, executor, startup,
          balancer>>

(* A request meets another, its own id again, or a control RPC.            *)
Inline == INSTANCE InlineStage WITH Rpc <- RpcJob, MaxCalls <- MaxJobs
ASSUME InlineConstants == Inline!InlineAssumption

(* Parents with companions, for which all goes well or anything may fail.  *)
Requests == INSTANCE Orchestrator
ASSUME RequestsConstants == Requests!OrchestratorAssumption

(* Calls with a timeout and without.                                       *)
Rpcs == INSTANCE EngineRpc WITH Rpc <- RpcId
ASSUME RpcConstants == Rpcs!RpcAssumption

(* Two requests, one slot, a step at a time.                               *)
Chunks == INSTANCE ChunkTransfer WITH
  Req <- {1, 2}, Outputs <- 2, ChunkSize <- 1, Live <- FALSE, Flat <- FALSE, PutsFail <- FALSE,
  MaxRunning <- 1, MaxFlight <- 1, running <- running_queue

(* Requests with too few blocks, so that one of them is preempted; the     *)
(* cache goes out after the prompt or at a token, with and without a stop. *)
Kv == INSTANCE KvTransfer WITH
  status <- kv_status, requests <- kv_requests, waiting <- kv_waiting, running <- kv_running,
  computed <- kv_computed
ASSUME KvConstants == Kv!KvAssumption

(* A query interrupts another, or the session ends under it.               *)
Session == INSTANCE VideoSession WITH
  turn <- query_turn, cancelled <- query_cancelled, outputs <- query_outputs
ASSUME SessionConstants == Session!SessionAssumption

(* Jobs that share the places at the disk with calls of DELETE.            *)
Videos == INSTANCE VideoJobs

(* The engine in its legacy mode and control calls, some with a timeout.   *)
Executor == INSTANCE ExecutorRpc WITH EngineLocks <- TRUE, executed <- rpc_executed
ASSUME ExecutorConstants == Executor!ExecutorAssumption

(* Language-model stages, local and remote, and diffusion stages.          *)
Startup == INSTANCE StageStartup
ASSUME StartupConstants == Startup!StartupAssumption

(* The hub's list changes under the balancer.                              *)
Balancer == INSTANCE LoadBalancer
ASSUME BalancerConstants == Balancer!BalancerAssumption

Init ==
  /\ part \in {"inline", "guidance", "failing", "rpcs", "chunks", "transfer", "session",
                "videos", "executor", "startup", "balancer"}
  /\ Inline!InlineInit
  /\ Requests!OrchestratorInit
  /\ Rpcs!RpcInit
  /\ Chunks!ChunkInit
  /\ Kv!KvInit
  /\ part # "transfer" => criteria = Kv!AnyCriteria
  /\ Session!SessionInit
  /\ Videos!VideoInit
  /\ Executor!Init
  /\ Startup!StartupInit
  /\ Balancer!Init

(* The requests that are made, and what may befall them.                   *)
Called(parents) == \A p \in Parent \ parents : generate[p] = "new"
AllWell == Called(Guided) /\ engine_dead = {} /\ final_output_task # "cancelled"

Next ==
  /\ UNCHANGED part
  /\ \/ part = "inline" /\ Inline!InlineNext
        /\ UNCHANGED <<orchestrator, rpcs, chunked, transfer, session, videos, executor,
                       startup, balancer>>
     \/ part = "guidance" /\ Requests!OrchestratorNext /\ AllWell'
        /\ UNCHANGED <<inline, rpcs, chunked, transfer, session, videos, executor,
                       startup, balancer>>
     \/ part = "failing" /\ Requests!OrchestratorNext /\ Called(Parent \ Guided)'
        /\ UNCHANGED <<inline, rpcs, chunked, transfer, session, videos, executor,
                       startup, balancer>>
     \/ part = "rpcs" /\ Rpcs!RpcNext
        /\ UNCHANGED <<inline, orchestrator, chunked, transfer, session, videos,
                       executor,
                       startup, balancer>>
     \/ part = "chunks" /\ Chunks!ChunkNext
        /\ UNCHANGED <<inline, orchestrator, rpcs, transfer, session, videos, executor,
                       startup, balancer>>
     \/ part = "transfer" /\ Kv!KvNext
        /\ UNCHANGED <<inline, orchestrator, rpcs, chunked, session, videos, executor,
                       startup, balancer>>
     \/ part = "session" /\ Session!SessionNext
        /\ UNCHANGED <<inline, orchestrator, rpcs, chunked, transfer, videos, executor,
                       startup, balancer>>
     \/ part = "videos" /\ Videos!VideoNext
        /\ UNCHANGED <<inline, orchestrator, rpcs, chunked, transfer, session, executor,
                       startup, balancer>>
     \/ part = "executor" /\ Executor!Next
        /\ UNCHANGED <<inline, orchestrator, rpcs, chunked, transfer, session, videos,
                       startup, balancer>>
     \/ part = "startup" /\ Startup!StartupNext
        /\ UNCHANGED <<inline, orchestrator, rpcs, chunked, transfer, session, videos,
                       executor, balancer>>
     \/ part = "balancer" /\ Balancer!Next
        /\ UNCHANGED <<inline, orchestrator, rpcs, chunked, transfer, session, videos,
                       executor, startup>>

(* What the machine of this behaviour changes: its own variables.          *)
own ==
  CASE part = "inline" -> inline
    [] part \in {"guidance", "failing"} -> orchestrator
    [] part = "rpcs" -> rpcs
    [] part = "chunks" -> chunked
    [] part = "transfer" -> transfer
    [] part = "session" -> session
    [] part = "videos" -> videos
    [] part = "executor" -> executor
    [] part = "startup" -> startup
    [] part = "balancer" -> balancer

(* What goes on by itself: the threads of the inline client, and the       *)
(* engine with a job that it was not asked to abort; both tasks of the     *)
(* orchestrator's loop, its dispatcher and the stages; the thread that     *)
(* puts chunks, which can be put; and the steps of the others.             *)
Step ==
  /\ UNCHANGED part
  /\ \/ part = "inline" /\ (\/ Inline!TakeJob
                             \/ Inline!CloseEngine
                             \/ \E j \in Inline!Job, o \in {"result", "error"} :
                                  Inline!EndJob(j, o))
     \/ part \in {"guidance", "failing"} /\ Requests!Orchestrate
     \/ part = "rpcs" /\ Rpcs!RpcStep
     \/ part = "chunks" /\ Chunks!Save(TRUE)
     \/ part = "transfer" /\ Kv!KvStep
     \/ part = "session" /\ Session!SessionStep
     \/ part = "videos" /\ Videos!VideoStep
     \/ part = "executor" /\ Executor!Step
     \/ part = "startup" /\ Startup!StartupStep

(* The other two threads of the second stage: the receiver, and the engine *)
(* whose blocks can be had and whose steps come back.                      *)
ChunkFairness ==
  /\ WF_chunked(part = "chunks" /\ (Chunks!Poll \/ Chunks!Deliver))
  /\ WF_chunked(part = "chunks" /\ (Chunks!ScheduleAll \/ Chunks!Update))

(* One machine runs in a behaviour: fairness of Step is that of its own.   *)
Fairness == WF_own(Step) /\ ChunkFairness

Spec == Init /\ [][Next]_vars /\ Fairness

(* The properties of the parts, stated in their modules.                   *)

(* An error is the last word on a request, a failure is reported, and what *)
(* was aborted stays quiet (inline_stage_diffusion_client.py:114, :272),   *)
(* with the inductive invariant that makes it so.                          *)
InlineSound ==
  /\ [](part = "inline" => Inline!InlineInvariant)
  /\ []Inline!ErrorIsLast
  /\ []Inline!FailuresReported
  /\ Inline!QuietAfterAbort

(* A request is forwarded once, with its guidance, answered once and then  *)
(* forgotten (orchestrator.py); a control RPC returns its own results      *)
(* (async_omni_engine.py:1664); with the inductive invariants that make    *)
(* them so.                                                                *)
RequestsSound ==
  /\ Rpcs!OwnResults
  /\ part = "rpcs" => Rpcs!RpcInvariant
  /\ part \in {"guidance", "failing"} =>
       Requests!RequestsSound /\ Requests!OrchestratorInvariant

(* A call of the workers gets its own reply as long as no call gave up     *)
(* before, and no reply is spare                                           *)
(* (diffusion/executor/multiproc_executor.py:127, :453): the executor's    *)
(* soundness with the rest of its inductive invariant.                     *)
ExecutorSound == part = "executor" => Executor!ExecutorInvariant

(* It is executed at most once, and ends once, with its result or an       *)
(* exception (diffusion/executor/multiproc_executor.py:129).               *)
ImplementsService == Executor!ImplementsService

(* Audio crosses the stages whole and in order, with a step out at a time  *)
(* (distributed/omni_connectors/transfer_adapter/).                        *)
ChunksSound == part = "chunks" => Chunks!ChunksSound

(* The next stage gets the cache of a request, its own, whole and once,    *)
(* and the blocks come back (core/sched/omni_ar_scheduler.py), with the    *)
(* inductive invariant that makes it so.                                   *)
KvSound == part = "transfer" => Kv!KvInvariant

(* The engine does not work for an interrupted turn, nor for a session     *)
(* that is over (entrypoints/openai/serving_video_stream.py:320), with the *)
(* inductive invariant that makes it so.                                   *)
SessionSound == Session!OneRequest /\ Session!SessionInvariant

(* An interrupted turn does not speak up again                             *)
(* (entrypoints/openai/serving_video_stream.py:330).                       *)
SpeaksInOrder == Session!SpeaksInOrder

(* A completed video has its file, and a deleted one is gone for good      *)
(* (entrypoints/openai/api_server.py:2372, :2720): the soundness of the    *)
(* jobs with the rest of their inductive invariant.                        *)
VideosSound == Videos!VideosInvariant

(* Processes are spawned with their own devices and load in turn; the      *)
(* engine is ready with all of its stages, and what a failed start leaves  *)
(* behind is known (engine/async_omni_engine.py:682); with the inductive   *)
(* invariant that makes it so.                                             *)
StartupSound == part = "startup" => Startup!StartupSound /\ Startup!StartupInvariant

(* While the list stands each instance has its turn, wherever the index    *)
(* was left (distributed/omni_coordinator/load_balancer.py:110), with what *)
(* is known of the turns.                                                  *)
RoundsAreFair ==
  part = "balancer" => Balancer!RoundsAreFair /\ Balancer!BalancerInvariant

(* Whoever waits is answered: in each machine what its module states, for  *)
(* the call that no timeout would save.                                    *)
Waits ==
  \/ part = "inline" /\ Inline!ShutdownWaits
  \/ part \in {"guidance", "failing"} /\ \E p \in Parent : Requests!CallWaits(p)
  \/ part = "rpcs" /\ Rpcs!RpcWaits(3)
  \/ part = "chunks" /\ Chunks!AudioWaits(1)
  \/ part = "transfer" /\ Kv!KvWaits(1)
  \/ part = "session" /\ Session!SessionWaits
  \/ part = "videos" /\ Videos!VideoWaits(1)
  \/ part = "executor" /\ Executor!ExecutorWaits("driver")
  \/ part = "startup" /\ Startup!StartupWaits

Over ==
  \/ part = "inline" /\ Inline!ShutdownOver
  \/ part \in {"guidance", "failing"} /\ \A p \in Parent : Requests!CallOver(p)
  \/ part = "rpcs" /\ Rpcs!RpcOver(3)
  \/ part = "chunks" /\ Chunks!AudioOver(1)
  \/ part = "transfer" /\ Kv!KvOver(1)
  \/ part = "session" /\ Session!SessionOver
  \/ part = "videos" /\ Videos!VideoOver(1)
  \/ part = "executor" /\ Executor!ExecutorOver("driver")
  \/ part = "startup" /\ Startup!StartupOver

(* A wait lasts until it is over: that it ends again and again is that it  *)
(* ends whenever there is one.                                             *)
EveryoneEnds == []<>(Waits => Over)
===============================================================================
