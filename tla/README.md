# TLA+ verification of omnivoice-fast

omnivoice-fast serves the OmniVoice text-to-speech diffusion model, and the
multi-stage models around it, on a fork of vllm-omni. This directory models the
code that makes its serving hard: batches that are rebuilt at every denoise step,
threads and processes that submit, abort, fail and shut down around them, and
stages that hand audio, caches and answers to each other. TLC checks the models
on small instances; TLAPS proves the central invariants for every value of the
constants.

All source paths below are relative to `src/vllm_omni/`.

## 1. The system

A speech request travels

    HTTP (entrypoints/openai/serving_speech.py, serving_*_stream.py, api_server.py)
      -> AsyncOmni.generate (entrypoints/async_omni.py): one asyncio queue per request
      -> AsyncOmniEngine (engine/async_omni_engine.py): janus queues to a thread
      -> Orchestrator (engine/orchestrator.py): request state over stages, CFG companions
      -> language-model stages (vLLM's engine with core/sched/*), which hand on
           chunks of codes (distributed/omni_connectors/transfer_adapter) or the
           key/value cache (omni_ar_scheduler.py, distributed/omni_connectors)
      -> inline_stage_diffusion_client.py (thread pool) or
         stage_diffusion_client.py + stage_diffusion_proc.py (ZeroMQ, own process)
      -> DiffusionEngine (diffusion/diffusion_engine.py): events and stream queues, driver thread
      -> scheduler (diffusion/sched/*): queues, states, batches
      -> executor (diffusion/executor/multiproc_executor.py): broadcast/result queues
      -> worker and model runner (diffusion/worker/*): cache of request states, LoRA, offloading
      -> OmniVoice pipeline (diffusion/models/omnivoice/*): one denoise step of a batch

### Inventory

| component | state it keeps | operations | what is hard | what makes it correct | modules |
|---|---|---|---|---|---|
| schedulers (`diffusion/sched`) | request states, public-id map, waiting deque, running list, finished ids | add, schedule, update_from_output, finish, preempt, pop, close | batches rebuilt each step; conflicts raise half-way; aborts between schedule and update | books agree; capacity; fifo; homogeneous batches; whoever ended is reported | `QueueOps`, `DiffusionScheduler`, `SchedulerMachine` |
| engine, concurrent mode (`diffusion_engine.py`) | abort queue, events, pending results, stream queues, driver flags | submit, collect, stream, abort, driver iteration, death, close | everything interleaves; the lock is released during the forward pass | each client gets one outcome, its own; an abort beats late audio; nobody is left blocked | `DiffusionEngine`, `RequestLifecycle` |
| executor, worker process | two message queues, worker, failed flag | collective_rpc, monitor, shutdown | one result queue without correlation; late replies; death in a call | a call gets its own reply; it runs at most once | `ExecutorRpc`, `RpcService` |
| model runner | `state_cache` | update states, execute a step | learns of ended requests one schedule late | follows the scheduler, no leak | in `DiffusionEngine` |
| OmniVoice generator | step plan, masked counts, audio emitted | build plan, unmask, emit | unequal blocks, rounding | blocks cover the frames once; what is emitted is decided | `OmniVoiceSteps` |
| inline stage client | tasks, output queue, thread pool | add, batch, abort, RPC, shutdown | blocked calls hold pool threads | one output per task | `InlineStage` |
| stage client and process | tasks, RPC results | the same over ZeroMQ, monitor thread, signals | RPC awaited in the receive loop, death at any moment | answered once or known to be lost; every call ends | `StageDiffusion` |
| orchestrator, CFG tracker, AsyncOmni | request states, companion maps, queues | add, route, companion done, abort, error, RPC, shutdown | several paths forward a parent; books cleared between awaits | forwarded once, answered once, forgotten | `Orchestrator`, `EngineRpc` |
| engine start-up (`async_omni_engine.py`, `stage_init_utils.py`) | launch lock, device variable, lock files, started processes | launch, handshake, attach, clean up | parallel launches, one of which raises | own devices, loading in turn, nothing unknown left behind | `StageStartup` |
| output processing | accumulated tensors per key | add, consolidate, drain, attach; split into deltas | entries change their form with the kind of output | audio is heard once, the final output is complete | `OutputStream` |
| OmniCoordinator, its clients, load balancer | registry, pending flag, hub's cached list, next index | events, heartbeats, time-outs, publication, select | flag cleared after the publication; dropped events; shrinking lists | hubs eventually see the registry; rounds are fair | `OmniCoordinator`, `LoadBalancer` |
| chunk transfer adapter, generation scheduler, stage input processors | chunk counters, ready sets, save/load threads | put, poll, park, restore, schedule, finish | threads and scheduler share sets | no frame lost or repeated, in order | `ChunkTransfer`, `ChunkPlan` |
| AR scheduler's KV transfer | triggers, blocks kept | mark, schedule, extract, acknowledge, preempt | blocks freed between mark and read | the next stage gets the request's own cache, whole | `KvTransfer` |
| cache between ranks | shards by key, caches of a request | send, receive, merge, slice, collect companions, hand out | stages of different width, shards in any order, deadlines | a rank runs with its own heads, or without | `KvRanks` |
| Mooncake connector | sender's and receiver's pools | put, get, query, write, TTL | time-outs while a write is under way | get returns what was put; ranges given once | `MooncakeTransfer` |
| LoRA manager | adapter cache, replaced layers, active adapter | add, set active, evict, deactivate | raising half-way through the layers | an operation that returns leaves the right weights | `LoraManager` |
| layerwise offloader | storages, two streams | hooks before and after a block | memory freed under queued kernels | a kernel reads its own weights | `LayerwiseOffload` |
| sleep and wake-up | stages asleep, workers' memory, watched tasks | sleep, wake up, one RPC over the stages | calls overlap; ranks meet in collectives and may raise | rank 0 answers for all; memory comes back; the server knows | `SleepMode` |
| hidden-state prefix cache | rows by slot | write, read for hits | shared, evicted and reused blocks | a prompt's delivered rows are its own | `PrefixCache` |
| video question sessions | message queue, turn, frame buffer | reader, processor, turn, interrupt | coroutines meeting at awaits | one request at work; turns speak in order | `VideoSession`, `VideoFrames` |
| video jobs | store, background task, file | create, write, delete, list | DELETE against a writing job | completed means a file, deleted means gone | `VideoJobs` |
| speech streaming sessions | splitter buffer, session | text, done, disconnect | sentences across messages | same sentences however split, in order | `SpeechStream` |
| uploaded voices | speakers, files | upload, delete, clone | awaits between test and registration | each voice its own file; no orphan by itself | `VoiceUploads` |
| HTTP chat/images, stage configuration, full-payload transfer, diffusion caches, parallel state, models, kernels, quantization, platforms, benchmarks | | | | see section 7 | - |

`PROJECT.json` lists each with its status and, under "hazards", the places
where this code is hard to test, at their lines.

## 2. Plan

Done, in this order: the schedulers and the engine with their refinement and
proofs, up to the audio its streams carry; the coordinator with its clients and proofs; the executor as a
proved implementation of an RPC service; the stage client and its process with proofs;
the inline client; orchestrator and control RPCs; chunks, their plans, KV transfer and RDMA; step plans; LoRA, offloading
and the prefix cache; HTTP sessions, jobs, outputs and voices; the start-up.

Left, in order of what it would add:

1. `ChunksSound` as a theorem: the transport of chunks is a small machine, but its
   invariant has to say of each frame which thread holds it, or between which it is.
2. The engine's legacy single-flight path on top of `ExecutorRpc`, the prefill /
   decode split and streamed inputs in `Orchestrator`, `close()` of the
   connectors.
3. Composition of `DiffusionEngine` under `StageDiffusion`: today a job of the
   stage is answered, fails, or is stranded, which is what the engine's model shows it to be.

## 3. Modules

| module | models | role |
|---|---|---|
| `QueueOps` | list and deque filters of `base_scheduler.py` | closed-form filters that keep the order; TLC compares them with `SelectSeq` |
| `DiffusionScheduler` | `sched/interface.py`, `base_scheduler.py`, `step_scheduler.py`, `request_scheduler.py` | a scheduler is a record of the object's fields and each method an operator from record to record, so that the engine can run several in one critical section |
| `SchedulerMachine` | the same, behind `SchedulerInterface` | one action per method, any runner output; includes `preempt_request` |
| `DiffusionEngine` | `diffusion_engine.py` in concurrent mode, the model runner's cache, `execute_step_batch` | one action per critical section of `_engine_lock` or stretch between two |
| `RequestLifecycle` | abstract | what the engine promises a client |
| `ExecutorRpc`, `RpcService` | `executor/multiproc_executor.py`, the worker's busy loop; the abstract call | the queues, deadlines, death and shutdown, refined to a call that runs at most once and ends once |
| `InlineStage` | `inline_stage_diffusion_client.py` | event loop, pool and callbacks |
| `StageDiffusion` | `stage_diffusion_client.py`, `stage_diffusion_proc.py` | both ends of the sockets |
| `Orchestrator`, `EngineRpc` | `orchestrator.py`, `cfg_companion_tracker.py`, `async_omni.py`, `async_omni_engine.py` | requests; control RPCs |
| `StageStartup` | `async_omni_engine.py`, `stage_init_utils.py`, `stage_engine_core_proc.py`, `stage_engine_startup.py` | start and failed start |
| `OutputStream` | `output_processor.py`, `data_entry_keys.py`, `realtime_connection.py` | outputs of one request |
| `OmniCoordinator`, `LoadBalancer` | `distributed/omni_coordinator/*` | registry, clients, balancer |
| `ChunkTransfer`, `ChunkPlan` | `omni_connectors/transfer_adapter/*`, `omni_generation_scheduler.py`, `stage_input_processors/*` | transport of chunks; which frames a chunk has |
| `KvTransfer`, `KvRanks`, `MooncakeTransfer` | `omni_ar_scheduler.py`, `kv_transfer_manager.py`, `utils/kv_utils.py`; the RDMA connector | caches between stages, and between their ranks |
| `OmniVoiceSteps` | `omnivoice_generator.py`, `pipeline_omnivoice.py` | step plans and emission |
| `LoraManager`, `LayerwiseOffload`, `PrefixCache` | `diffusion/lora/manager.py`, `offloader/layerwise_backend.py`, `core/prefix_cache.py` | what workers keep |
| `SleepMode` | `api_server.py`, `async_omni.py`, `orchestrator.py`, `diffusion_worker.py`, `worker/base.py` | stages put to sleep and woken |
| `VideoSession`, `VideoFrames`, `VideoJobs`, `SpeechStream`, `VoiceUploads` | `entrypoints/openai/*` | HTTP services with state |
| `Parts`, `MC*` | - | machines side by side, and values of the constants: described below |
| `QueueOps_proofs`, `DiffusionScheduler_proofs`, `SchedulerMachine_proofs`, `StageDiffusion_proofs`, `OmniCoordinator_proofs`, `ExecutorRpc_proofs` | - | lemmas and theorems about the module they are named after |
| `DiffusionEngine_proofs` | - | the three layers of the engine's invariant, each on the one before: scheduling, waiters, cache and audio; the refinement |
| `Parts_proofs` | - | video sessions, video jobs, the start-up, the balancer, the inline client, the orchestrator, control RPCs, the executor and the transfer of caches, as parts of `Parts` |

### How the state corresponds

Conventions. A variable has the name of the field or local it stands for,
where it can. Two machines of one process that share nothing are two modules. An
action ends where the code gives up its lock, awaits, or blocks. Requests are
numbered by submission where one id may be submitted twice. Tensors, audio and
texts are short sequences, or absent.

Schedulers and engine:

- `sched.status/req` is `_request_states`, `sched.owner` is
  `_request_id_to_sched_req_id`, `sched.waiting/running/finished` are the deque, the
  list and the set. A scheduler id is the pair of its base and its `#n` suffix;
  `MaxSuffix` bounds the suffixes at the most the submissions can reach.
- The driver's locals (`has_reqs`, `sched_output`, `runner_output`) are variables,
  because they are read in one critical section and used in the next.
  `DriverTop` is lines 555-561, `DriverSchedule` 587-607, `Execute` the call at
  610 with its `except`, `Deliver` all of 630-647 with both dispatch functions,
  `Surface` `_driver_dispatch_aborts`. The coalescing wait only delays.
- `events`, `pending`, `streams` are the three dictionaries. `chan[r]` is
  everything ever put into the queue of `r`; the client reads it up to its first final item.
- The abort queue is drained whole, so it is a set; any id may be aborted at
  any time, before its submission too.
- `cache` is the model runner's `state_cache`, with the number of steps done. A
  request has `Steps` steps and ends a block after those in `BlockEnds`; a
  call that raises before, in or after the worker fails the batch.
- `CloseShutdown` is `scheduler.close()` and `executor.shutdown()` in one (lines 880-883). The batch
  that is out when they are called returns as it does before or after both. What is left out is a batch that is
  scheduled between the two calls and succeeds: in the model it fails, as it does when the
  second call comes first.
- A stream's consumer reads to the final item: one that closes the generator
  early is not modelled, nor is a second `close()`.

Executor: `broadcast` and `results` are the message queues. A caller goes through `pc`:
lock, enqueue, wait with a deadline, answer. `lock` is `_rpc_lock`, taken by the
engine only in legacy mode (`EngineLocks`). The workers are one process, since
only rank 0 replies. `RpcService` knows for each call whether it was executed and
how it ended; the refinement maps the caller's program counter and the queues to that.

Stage clients: `StageDiffusion` keeps both sockets as sequences, the
process's receive loop with the control RPC it awaits, tasks, pool threads,
the client's output queue, the monitor thread, and how the process ended. A job
of the engine that was aborted ends without a reply or never: that is what
`AbortsSurface` shows of `DiffusionEngine`. `InlineStage` has the same calls
with callbacks in the order in which threads scheduled them.

Orchestrator: `handler` and `routing` say at which await each of the two
tasks stands; `tracker` is the companion tracker; `forwarded` counts what reached stage 1.
The stages appear by what they promise.

Start-up: `visible` is the device environment variable, `launch_lock`
the lock around it, `device_lock` the lock files, `started_proc` the stages whose
`StartedLlmStage` still owns its process, `stage_clients` the list the clean-up reads.

Chunks: `put`/`shm` are the store, `loads` and `polled` the receive thread's
lists, `ready` and `got` what it has announced and delivered, `flight` the steps that are
out. `ChunkPlan` has the decision of six processors as records of parameters. KV: `held` are
a request's blocks, `needing`, `active`, `triggered`, `keeping` the
scheduler's sets, `content` what a block holds now; `turn` is the engine loop's
alternation of schedule and update. `KvRanks` follows one receiving rank and its
guidance group: `topo` has the sizes of both stages, `request_kv` what rank 0 of the group
collected, `rank_kv` what each of the group runs with; a cache is its request and its list of
heads, and what is sent is a function, because a put may come at any time or never. Mooncake: two pools with lists of free
ranges; a get is query, allocation, trigger, remote write, answer, or time-out in between.

Workers: `LoraManager` has one record, each operation a function of it with
`ok` for whether it returned. `LayerwiseOffload` issues kernels and copies on
two queues that advance on their own; freed memory is given to the next copy
at once. `PrefixCache` adds rows by slot to a small block pool with hashes, hits,
eviction and preemption. `SleepMode` has a record per rank: its task, how many collective
operations it has before it and has joined, and what its memory holds; a call ends in two
steps, its RPC and its coroutine.

HTTP: `VideoSession` lets coroutines interleave only at awaits. `VoiceUploads`
has time in whole seconds (`time`, at most `MaxTime`), files by path, and the place of each upload
and request in its handler. `OutputStream` keeps entries as a tensor or a list of
tensors, as the code does, because the difference is what goes wrong.

### Parts and MCDataParts

Most of these machines are small. Each of the two modules instantiates many of
them over variables of their own; `part`, chosen at the start, says which
one moves, the others stay at their initial values. The state space is the
sum of theirs, the properties are those of the modules, and fairness holds for the
machine that moves. `Parts` has the machines in which somebody waits, so that
one property (`EveryoneEnds`) speaks about all: a wait, as each machine defines it, lasts until it is
over, so that it leads to its end if it ends again and again, which is cheaper to check; and the balancer, about which `Parts_proofs` proves; `MCDataParts` those of which only safety is asked.
The machines of `Parts` that are proved about take their constants as constants of `Parts`, to which
`MCParts` and `Parts.cfg` give the values of the run; for the others they are written into
the instance.

## 4. Runs

| run | question | bounds | result |
|---|---|---|---|
| `SchedulerMachine` | do the books, the fifo order and the reporting survive any legal calls and any output? | three symmetric requests, capacity two | holds |
| `EngineStep` | step mode with duration buckets and tolerance 3/2: consistency, complete audio, homogeneous batches, abort against audio | lengths 2, 3, 4, where neighbours fit and extremes do not; two streams, one plain | holds |
| `EngineFailures` | death of the executor and `close()` at any point: the inductive invariant that is proved, lifecycle, all blocked clients woken | two requests, capacity one | holds |
| `EngineAbortStrands` | comment `diffusion_engine.py:600`: are aborts without scheduled work surfaced? | two requests | violated |
| `CoordinatorHubs` | is the published list the registry's except after a race, does a hub whose socket fails keep it, does a living instance come back, does a dead one leave? | one instance, two ages, one hub | holds |
| `ExecutorSharedQueue` | docstring `diffusion_engine.py:832`: does a control call get its result beside the driver? | driver and one control call | violated |
| `Stage` | is every request answered once or known to be lost, and does every call end? | two calls of requests, batches, aborts, RPCs; pool of one | holds |
| `ChunkEmpty` | comment `chunk_transfer_adapter.py:185`: is a request with an empty chunk polled on? | one request with flat keys | violated |
| `Parts` | are the machines of `Parts` sound, and is everyone answered? | below | holds |
| `DataParts` | are the machines of `MCDataParts` sound? | below | holds |
| `VideoSession` | comment `serving_video_stream.py:315`: are only interrupted turns aborted? | three queries | violated |
| `LoraLeaks` | comment `diffusion_worker.py:269`: does no LoRA state leak? | as in `DataParts` | violated |

Properties of the sums, and what they join:

| property | of | says |
|---|---|---|
| `RequestsSound` | `Orchestrator` as two parts: a parent with two companions and no failure, one with one where anything may fail; `EngineRpc` with two timed calls and one that waits | a request is forwarded once, with its guidance, answered once, then forgotten; an RPC returns its own results; with the invariants that are proved |
| `ChunksSound` | `ChunkTransfer`, a step out | audio crosses whole and in order |
| `KvSound` | `KvTransfer`, one step out and two | the cache shipped is the request's own, once, and whole with one step out; blocks come back; with the invariant that is proved |
| `VideosSound` | `VideoJobs` | a completed job has its file, a deleted one is gone |
| `SessionSound`, `SpeaksInOrder` | `VideoSession` | no work for an interrupted turn or an ended session; no interrupted turn speaks again; with the invariant that is proved |
| `ExecutorSound`, `ImplementsService` | `ExecutorRpc` in legacy mode | own replies unless a call gave up before, with the invariant that is proved; refinement of `RpcService` |
| `StartupSound` | `StageStartup`, two local stages on one device, a remote and a diffusion one on two, | own devices, loading in turn, ready means all, only uncollected stages outlive |
| `InlineSound` | `InlineStage` | an error is the last word, failures are reported, aborted requests stay quiet; with the invariant that is proved |
| `EveryoneEnds` | all of `Parts` | who waits is answered |
| `RoundsAreFair` | `LoadBalancer`, up to four addresses | a round reaches each instance once while the list stands; with the invariant that is proved |
| `PlansSound` | `OmniVoiceSteps`, `ChunkPlan` | blocks partition the frames, nothing decided is overwritten, all is emitted; chunks cover the frames once |
| `OverlappedSound` | `ChunkTransfer`, two steps out | order holds although the end may be lost |
| `RdmaSound` | `MooncakeTransfer`, `KvRanks` | get returns what put was called with; ranges are given out once; a rank runs with its own heads of the request's caches, or without |
| `RunnersSound` | `DiffusionEngine` with an id used three times, `PrefixCache` | workers' caches follow the schedulers |
| `RequestModeSound` | `DiffusionEngine` in request mode | books and waiters survive conflicting ids |
| `HttpSound` | `VideoFrames`, `SpeechStream`, `OutputStream`, `VoiceUploads` | bad frames leave; sentences do not depend on how text is cut; audio is heard once; voices keep their files |
| `DownSticks` | `OmniCoordinator`, two connections | DOWN lasts until a new registration |
| `LoraSound` | `LoraManager` | the cache keeps its limit; only an exception tears the weights |
| `OffloadSound` | `LayerwiseOffload`, `SleepMode` (three instances) | a kernel reads its own block, few blocks reside; rank 0 answers for all ranks, what level 1 took comes back, the server knows who sleeps, an RPC moves on |

Bounds. Two requests, or two and the capacity for one, are what makes
one wait, be aborted and be overtaken; two steps make them emit, yield and
finish at different steps; three blocks of cache for two requests force a
preemption; three adapters with room for two force an eviction (a fourth does not fit
its layers); a pool of two small payloads or a large one makes allocation fail; two uploads
and a name collision make files meet. Where an identifier may come twice, it does.
`PlansSound` enumerates parameters: 9 frames, blocks of 1 to 5, chunks of
1 to 5, first chunks up to 6, which covers divisible and indivisible cases on both
sides of each boundary. Counters that would grow for ever are bounded by
constants in guards (`MaxCalls`, `MaxSteps`, `MaxFrames`, `MaxSent`, `MaxTime`,
`MaxPreemptions`, `MaxPuts`, ...), and ages saturate one above `GcTtl`.

Deadlock is checked in `SchedulerMachine`, `EngineStep`, `EngineAbortStrands` and
`CoordinatorHubs`. The other machines end: an engine is closed, a session is over,
every bounded call was made.

### Fairness

- Engine: the driver is a daemon thread that loops without blocking on anything
  but the executor, so its actions are weakly fair together; `close()` once begun
  runs on; a client whose event is set or whose queue has a final item runs on.
  Nobody is obliged to submit, abort, fail or close.
- Coordinator: both of its loops run; a client's heartbeat thread sends
  again and again, and the receive loop takes turns among connections and
  actions that others disable for a moment, hence strong fairness for those.
- Stage: coroutines take turns, so what is enabled again and again by others'
  awaits happens (strong); threads and the sockets' ends run on (weak). The engine ends a job it was
  not asked to abort, nothing is said of one that it was.
- Inline client (pool threads take jobs, the engine ends them, shutdown runs on),
  orchestrator, `EngineRpc`, executor, start-up, KV transfer, sessions and
  jobs: the machines' own steps are weakly fair together (`Step`). These machines
  are acyclic, or a cycle contains a choice of the environment, so that a fair
  disjunction drives each step; the callers' and the environment's actions are
  excluded from it.
- Chunks: each of the three threads runs. The save thread can put its chunks, the receive thread
  polls or delivers, and the engine, which finds blocks, schedules or takes back a step.

`ClientsAnswered` exempts the aborts that `EngineAbortStrands` shows;
`CallsEnd` exempts callers behind stranded jobs that hold the whole pool, and
shutdown; `ShutdownOver` a stranded job that holds the inline client's pool up;
`StartupOver` a remote handshake, which has no timeout; `CallWaits` only
counts calls that a dispatcher serves or has served, and `RpcWaits` those for which the thread
lives or its last words are still to be read; `CallOver` a request without prompt tokens in
async-chunk mode, which later stages were never told of (`Unarmed`). Each of these is a wait that the code has no way out of.

### What the guarantees exempt

Some hazards are real failures of the code that no document of the repository denies. The
property about them then says what the code does guarantee, and exempts the failure:

| hazard | property | exempt |
|---|---|---|
| order of events across two connections of an instance (`omni_coord_client_for_stage.py:82`) | `DownSticks` | everything but one connection |
| stranded aborts that hold the whole pool (`stage_diffusion_proc.py:62`) | `CallsEnd` | the callers behind them; the cause is finding 1 |
| a batch overtaken by its abort (`stage_diffusion_client.py:327`) | `NoReplyAfterAbort` | batches |
| shutdown behind a stranded engine call (`inline_stage_diffusion_client.py:377`) | `EveryoneEnds` | stranded calls |
| a write that comes after the time-out of its pull (`mooncake_transfer_engine_connector.py:941`) | `RdmaSound` | data of pulls that were crossed (`RightData`); not where it may be written |
| a voice changed between its validation and its time stamp (`serving_speech.py:1652`) | `HttpSound` | requests so disturbed (`StampNamesVoice`); not the files |
| a sleep within a wake-up of the same stage (`async_omni.py:831`) | `OffloadSound` | what the server then believes (`ServerKnows`); not what the ranks do |

Conflicting request ids (`base_scheduler.py:133`) occur only in `RequestModeSound`: in the
runs of the other scheduler properties every request has ids of its own.

### Mutants

Every property of a passing run has a mutant, an operator beside the original
marked "Mutant of" that changes it as a plausible bug would and makes the
property fail under the same configuration.

## 5. Proofs

The assumptions are `SchedulerAssumption`, `EngineAssumption`,
`CoordinatorAssumption`, `ExecutorAssumption`, `StageAssumption`, `SessionAssumption`,
`StartupAssumption`, `BalancerAssumption`, `InlineAssumption`,
`OrchestratorAssumption`, `RpcAssumption` and `KvAssumption`:
finitely many requests with at least one id each, a positive
capacity and bucket size, a tolerance of at least one; natural timeouts, bounds and buffer sizes; remote
and diffusion stages that are stages, and numbered devices; finitely many addresses and a natural start index;
control calls that are told from requests; companions of one parent each, and none a parent itself; no
RPC that is the mark of a free lock; numbered blocks and a prompt of a token at least.

### Queues and schedulers

- `QueueOps_proofs`: `Keep` preserves membership, injectivity and order (`KeepOrder`) and does
  not lengthen a queue; what a tail, an append, a cut and a joining of queues hold; `Rank` is a bijection from a finite set of indices to an interval.
  `LeastNat` and `StepsReachAll` are induction over the naturals stated as facts about
  sets of naturals (from the well-foundedness of `<`): an induction over the
  definition domain of a recursive function needs no operator parameter that way.
- `DiffusionScheduler_proofs`: each operator preserves `SchedulerOK`, with
  what it does to status, finished set and length; `ScheduleProgress`: a scheduler with
  requests always fills a batch. This is where the capacity, the anchor and the
  preference for never-run requests have to fit together.
- The same module shows that batches are homogeneous. `TolerantRecursion` unfolds the
  greedy selection of `_select_tolerant`, `TolerantExtent` proves by induction over the
  candidates that the shortest and the longest member chosen so far are those the loop
  keeps, hence that any two members fit (`ToleranceNarrows`);
  `LeavingKeepsHomogeneous` that whoever leaves or yields does not disturb it, and
  `AfterScheduleHomogeneous` that a resumed or admitted one does not either.
- `SchedulerMachine_proofs`: `ConsistentForAnyCaller`, `SurfacesWhatEnded` and
  `StartsInQueueOrder` (`NoOvertaking`). The last holds because only `schedule()` sets a request
  running (`OnlyScheduleStarts`), and what it selects in fifo order is a prefix of the
  candidates, among which is every never-run request (`SelectionInOrder`). The
  invariant adds that for a member of the batch, having a finished status and being in the finished
  set are one thing: without it an aborted member could have been reported already.

### The engine

`EngineInvariant` is inductive and holds for any requests, ids, lengths, steps, capacity and
strategy (`EngineInvariantHolds`); `EngineFailures` checks it on an instance. It has three layers.

- `SchedulingInvariant` (`DiffusionEngine_proofs`), from which
  `SchedulerStaysConsistent`, `BatchStaysRunning` and `NothingToSurface` follow.
  `BatchIsRunning` needs `FinishesTaken` and both need the consistency of the
  scheduler: that the finished set is empty while a batch is out comes from
  `schedule()` clearing it and from aborts being processed only at the two ends
  of an iteration. `NothingToSurface` is the surprising one: the
  branch of the driver that is to surface aborted-only finishes can never see
  one, for any parameters. `BatchesStayHomogeneous` is proved beside it.
- `ClientsInvariant` (same module). `WaitersMatch` ties a registered event or queue to
  one waiting client, `WaitersRegistered` the converse, `WaitersHaveStates` the client
  to the state of its request. `RunnerAgrees` is what they need of the runner:
  between the return of `execute_fn` and the delivery the output speaks of the batch only, also when
  the scheduler was closed in between. From it `EngineTypes`,
  `OnlyAbortsLeaveBehind`, `EveryoneIsWoken` and `AbortsBeatLateAudio`.
- `AudioInvariant` (`DiffusionEngine_proofs`). What the worker has cached is in progress or
  its end is on the way (`CacheFollows`), and the converse (`CacheComplete`): both
  name exactly where the news of an end may be, the scheduler's finished set or the batch in flight.
  `RunnerExact` and `StepsTaken` order the steps computed and the steps
  heard, so that the last chunk is the last step (`ChunksExact`). From it `AudioIsWhole`,
  `AudioIsWholeUntilClosed` and `CacheStaysInSync`.

`LifecycleImplemented` proves the refinement of `RequestLifecycle`. What a client has
heard, its stream or its reply, only grows (`DeliveryGrows`); growth by audio of later steps and at
most one final item is a step of the abstract request (`GrowthIsProgress`); and every
action either leaves a client's part alone or makes it grow (`StepProgress`).

`OnlyAbortsLeaveBehind`, `EveryoneIsWoken`, `AudioIsWhole` and `LifecycleImplemented` assume
`DistinctIds`: no two requests have the same first id. The speech endpoint makes one for each
request. Without it the first two are false: a client that was woken but has not yet
collected pops the event under its scheduler id (`diffusion_engine.py:546`), which by then may be the
event of a second bearer of the id, and that one is no longer woken by anything. What holds for
any ids is stated without the assumption. The run `DataParts` lets ids meet and checks
properties that need no distinct ones.

### The coordinator

- `OmniCoordinator_proofs`: `CoordinatorTyped` (`TypeOK`, what the other two start from), and
  `PublicationOnlyLosesRaces` (`OnlyRacesAreLost`): for any instances, hubs, time-outs and
  buffers, a change of the active instances that is not published either has
  its broadcast requested or fell between the snapshot and the clearing of
  `_pending_broadcast`. The property alone is not inductive: `PublicationInv` adds what each stretch of
  the loop has caught - the snapshot about to be sent, or the list just
  published, is the registry's unless a broadcast was asked for or raced.
- `HubsFollowRegistry` (`HubsFollow`): a hub that has read all it was sent routes on the active instances,
  whatever its socket did, with the exceptions of the first theorem and of a last list that
  was dropped for it or sent while it had no socket. `HubInv` adds what a hub
  still has to read: the last of it is the last list published.

### The executor

- `ExecutorRpc_proofs`: `ExecutorInvariantHolds`, from which `RepliesAreSound`
  (`ExecutorSound`), and the refinement `ServiceImplemented` (`ImplementsService`), for any callers,
  time-outs, deaths and two threads that shut down. The hypotheses are
  `ExecutorAssumption` (finitely many callers, none of them the mark of a free lock) and, for the
  refinement, the legacy mode in which every caller takes `_rpc_lock`; in concurrent mode the
  run `ExecutorSharedQueue` shows it false. `Parts` evaluates the assumption and checks the invariant.
- `NoSpareReply` is a count and needs only that shutdown is announced first (`ClosedFirst`).
  `OwnReply` needs to know where each call is: `MessagesMatch` has a call in one of the
  broadcast queue, the worker and the result queue, `LockHeld` leaves one caller, and
  `OnlyOwnTravels` says that before a call gives up only the waiting caller's call
  travels. Its second alternative is the interesting one: a caller that leaves because of a dead worker or
  cleared queues does leave a reply behind, but then `_closed` is already set and nobody gets past
  `_ensure_open` to take it. A misdelivery in the refinement therefore has a late call before it.

### The stage client and its process

- `StageDiffusion_proofs`: `RequestsAreNotLost` (`NothingLost`) and `AbortsAreObeyed`
  (`NoReplyAfterAbort`), for any number of requests, ids, RPCs and threads, with every way the process can
  end. `StageAssumption` only says that the numbers of requests and RPCs differ, and that the bounds
  are numbers. Both rest on `StageInvariantHolds`, whose parts say what neither end can see alone.
- `NothingLost` needs `AbortsAreMeant`: a task is cancelled, or a job silenced by the engine, only if someone
  gave its id up, or if the id was used twice. The abort travels by id through the socket, the table and the
  engine's queue, and may find another submission than was meant; hence the exclusion of reused ids, which
  is not a convenience of the proof: with it dropped the statement is false.
- `NoReplyAfterAbort` needs the order on the socket (`AbortFollows`: an abort is behind every copy of
  its request) and `TasksAreFound`: the table entry of a living task is its own or the task is already
  cancelled. From both `AbortsAreHeeded`: once the abort is off the socket, a living task is
  cancelled. A batch is excluded: its sending is a task of its own, so its abort may be sent before it.

### The machines of `Parts`

`Parts_proofs` proves about the machines as they stand in `Parts`: a step of any other machine leaves their
variables alone (`MachineSteps`), so an invariant that their own steps keep is one of the whole.

- `SessionsAreSound` (`SessionSound`) and `TurnsSpeakInOrder` (`SpeaksInOrder`), for any number of queries.
  `OneTurn` is the core: a turn that lives is the last one begun, the processor's `query_task` and the
  active request at once, and none lives while the processor asks, aborts or is over. `GeneratorHeld` says
  that a running request is awaited, or its generator dropped and not yet closed, and `SpokeLast` that
  nothing on the wire is later than the turns begun. `QueriesCounted` is there for the numbering: a turn
  begins for a query that was read, and the message that ends the reading is the last of the queue.
- `VideosAreSound` (`VideosSound`), for any jobs and calls of DELETE. The store, the task, the cancellation
  flag, the file and the calls that hold a copy of the entry are related pairwise: `EntryMatches` (entry and task),
  `FileMatches` (file and who may still write or remove it), `DeleteMatches` (what a call of DELETE
  knows of the entry it read, and which calls may still be before the removal).
- `StartsAreSound` (`StartupSound`), for any stages, devices, remote stages and failures. Each of
  `LaunchMatches`, `DevicesMatch`, `ProcessMatches`, `AttachMatches` ties the place of one launch to what it holds:
  the lock around the device variable, the lock files, its process, its client. `EnvironmentHeld` is what makes
  processes see their own devices: between setting the variable and the spawn the lock is held by the stage that
  set it. That devices are locked in ascending order is `NextDeviceInTodo`, by the well-foundedness of `<`.
- `RoundsStayFair` (`RoundsAreFair`), for any addresses and any sequence of lists: `PicksInTurn` places each pick
  relative to `next_index`, so that the round before it, as long as the list, is a rotation of the list. What an
  index left by a longer list does is in `TurnAfter`, from the uniqueness of the remainder.
- `InlineIsSound` (`InlineSound`), for any requests, ids, control calls and threads. A callback that puts a chunk and the
  task that puts the reply meet in the output queue: `EndIsLast` says that the end of a job is the last
  callback of it, so a woken task has none due (`JobMatches`), and after its reply none comes (`ReplyIsLast`).
  `FailureMatches` keeps the reply of a task that failed. For `QuietAfterAbort`, `TasksMatch` says that the task
  of an id used once is found under that id until it is cancelled: an abort cannot miss it.
- `RequestsAreSound` (`RequestsSound`), for any parents, companions, failures and aborts.
  That a parent is forwarded once is its being in `forwarded` (`SubmittedOnce`), which each of the three ways
  looks at before it goes on - also the one that awaited in between, hence the third line of
  `AnswersMatch`: what the loop is in the middle of routing is forwarded or not answered. Guidance is complete
  since only what was produced counts as done (`DoneIsProduced`). That all is forgotten in the end needs the most:
  no message follows the abort of its request (`AbortIsLast`), nothing is known of what was not asked for
  (`NothingEarly`), a call that raised has its abort before it (`AbortIsDue`), a returned one took an answer
  that had cleared the books (`CallersMatch`), and a companion that is waited for is still at the model or in
  its outputs (`CompanionsMatch`, `PendingMatches`). Of the RPCs: one caller waits, and holds the lock.
- `KvIsSound` (`KvSound`), for any requests, blocks, criteria, preemptions, aborts and number of steps out. What is
  read for a mark depends on every step that was scheduled before it and has not run. `Contents` says so: a block
  of a living request, or of a mark, holds the token it was allotted for once the steps ahead of it have
  written (`HoldsToken`), and the runner still knows the request then (`Knows`). It holds although an abort gives marked blocks
  back, because who gets them next writes with a later step or with the same one, which reads first
  (`omni_ar_scheduler.py:624`). `Marks` puts the one mark of a request in one place - waiting, in a step, in an output, or
  shipped - and `Heard` finds it from the scheduler's sets, hence no blocks are kept for nothing. That the
  cache is the whole prompt is stated and proved for one step out (`OneOut`); with two it is false:
  a request that the later step preempted, and that the output of the earlier one ends, is marked without a
  block. Four blocks are needed to see it, one more than the run has, so it was the attempt at the proof that found it.
- `ExecutorIsSound` and `ExecutorServes` carry the executor's theorems over to `Parts`: the instance of
  `ExecutorRpc_proofs` is the same machine by another name (`SameExecutor`, `SameService`).

### Only model-checked

Liveness is out of the prover's reach, as is `ENABLED`: `ClientsAnswered`, `CallsEnd`,
`EveryoneEnds` and the other properties of that kind stay with TLC, as does `CacheAgrees` beyond
step mode. Of safety,
`ChunksSound` and the sums of `DataParts` are not proved. Two recursive functions are
used only by what they choose from: `Yielded` (any subset of the running members), and the
step plans of `OmniVoiceSteps`, whose arithmetic `PlansSound` enumerates.

## 6. Findings

Disagreements between the code and what the repository says of it, each with a
run that shows it:

1. `EngineAbortStrands` (`diffusion_engine.py:603`): an abort processed while its request
   is not in the batch being delivered leaves its client blocked, and with a stage
   client also one of the pool's threads, for good.
2. `ExecutorSharedQueue` (`executor/multiproc_executor.py:458`): the driver calls the executor
   without `_rpc_lock`, so a control call and a batch may get each other's reply.
3. `ChunkEmpty` (`chunk_transfer_adapter.py:187`): a request whose chunk looks empty is
   not polled again; every chunk of voxcpm, with its legacy flat keys, looks so.
4. `VideoSession` (`serving_video_stream.py:320`): a turn cancelled before it ran makes the
   next query abort a request that had ended by itself.
5. `LoraLeaks` (`lora/manager.py:221`): an activation that raises half-way leaves
   weights that requests without LoRA then run with.

Noticed while modelling, without a run of their own:

- Engine: after `EngineDeadError` new submissions are accepted and never
  answered (`diffusion_engine.py:537`); a resubmission under a caller's own id can share a
  scheduler id with a request whose client has not collected its result
  (`sched/interface.py:118`); sustained arrivals starve continuations
  (`step_scheduler.py:68`); an abort drained before its request is added is lost
  (`diffusion_engine.py:906`); a merged request-mode batch runs with its first request's
  sampling parameters (`multiproc_executor.py:338`).
- Stage client: the monitor thread's flag makes `get_diffusion_output_nowait` raise
  without its final drain (`stage_diffusion_client.py:375`); with an id used again, a task's
  `finally` pops the newer entry (`stage_diffusion_proc.py:367`); a batch's abort can overtake it.
- Coordinator: an update does not refresh the heartbeat; a hub that joins late, or
  again after its socket failed, hears nothing until the next change; a list may be torn between two updates.
- Orchestrator: `generate()` after the dispatcher ended waits for ever
  (`async_omni.py:555`); a dead diffusion stage raises outside the handler of
  `EngineDeadError` (`orchestrator.py:284`); lines 304-320 are dead code; a companion
  registered late is not waited for; in async-chunk mode a request without prompt tokens, such as
  one of embeddings, is not submitted to the later stages (`:993`) and nothing answers it; an abort between two awaits of
  `_route_output` lets a request run on in stage 1.
- Start-up: when one attach raises, stages whose attach ended but was not yet
  collected keep their process (`stage_init_utils.py:780`); the clean-up indexes clients by
  configured id, not position (`:797`); `_launch_diffusion_stage` calls
  `complete_diffusion_handshake` without its timeout argument (`async_omni_engine.py:566`);
  when a lock file cannot be opened, the descriptor of the device before it is closed, and
  with it that device's lock is lost (`stage_init_utils.py:567`).
- Chunks: an abort while the first chunk's step is out leaves an entry in `running`
  that is polled for ever; aborted requests leave counters, from which a reused id then
  starts; processors that read live flags defeat the snapshot of `save_async`; a failed put is
  not retried; with two steps out a request can end before its last chunk is heard.
- KV: an abort between mark and schedule frees marked blocks at once, and only the
  order of hand-over, read and forward pass keeps the data right; an
  acknowledgement does not say whether the put succeeded. With two steps out a request may end
  preempted, and then leaves without its cache having been sent.
- Ranks: if one shard misses the deadline, those that came are dropped; companions are
  collected even if the request's own cache timed out; if only the text branch times out,
  guidance rank 1 runs the image branch; the runner ignores what the receiver returns
  (`diffusion_model_runner.py:246`).
- Mooncake: after a time-out the buffer goes back to the pool although the
  sender may still write; the clean-up after a write may remove a newer buffer of the key.
- LoRA: after a failed activation the old adapter is still taken for active; an
  adapter whose rank is too large is registered by the failed add and then "activates" with no layers;
  weights in one piece that are not as long as a layer's slices together leave the layer without
  LoRA, silently (`lora/manager.py:585`), where other weights that do not fit raise.
- Offloader: skips may leave up to half of the blocks resident (the docstring says
  a small number); a raising block leaves its copy unwaited for.
- Sleep: a sleep that meets a wake-up of its stage can leave it asleep and forgotten, and
  `/v1/omni/wakeup` then skips it (`async_omni.py:831`, `api_server.py:2848`); `_is_sleeping` is one flag for
  all stages, set even if every worker raised; an error of a diffusion rank other than 0
  is never seen; if some ranks of a language model raise in a sleep the others wait in
  a collective for ever, and with them the control RPC; level 2, the endpoint's
  default, discards weights that no wake-up reloads; with several ranks a language
  model's watched task is never resolved; running requests are neither paused nor aborted.
- Prefix cache: rows a preempted request recomputes are delivered again, and
  those between its delivered rows and a longer hit never (`prefix_cache.py:220`).
- Outputs: with cumulative outputs only the last step's nested hidden states are kept; the
  realtime connection's test by common prefix drops the start of a chunk that repeats
  all audio before it, such as silence (`realtime_connection.py:56`).
- Voices: an uploaded embedding never becomes usable, because validation looks for a
  `cache_file` that its upload does not store (`serving_speech.py:800`); two overlapping
  uploads of a name both succeed and orphan a file; two names with one
  sanitized form and the same second share a path; deleting an upload under a
  built-in's name removes the built-in.
- Video: an interrupted turn gets `response.start` without `response.text.done`;
  after `video.done` nobody notices a disconnect until something is sent. A DELETE
  while a thread writes leaves the file.
- Sentences: the splitter's docstring says short sentences like "Dr." are kept, with the default
  minimum of two characters they are split.

## 7. Not modelled

- The engine's legacy single-flight path and synchronous pre/post-processing; worker
  launch; start-up handshake of the diffusion process beyond success and failure.
- vLLM's engine, scheduler core and block pool are outside the repository: they appear
  by how this code uses them and are marked external in `PROJECT.json`.
- `worker/omni_connector_model_runner_mixin.py` and
  `core/sched/omni_scheduling_coordinator.py` (full-payload transfer): nothing in the
  repository starts them, `init_omni_connectors` has no caller.
- Streamed inputs, prefill/decode pairing and a language model as second stage in the
  orchestrator; `close()` of connectors.
- Chat, image and non-streaming speech endpoints parse and format around one
  `generate()`; stage configuration is read once, by code without state; diffusion
  caches decide from tensor norms inside a library; parallel state is collectives on
  tensors; models, kernels, quantization, platforms, benchmarks, metrics and the CLI hold no
  state whose order of change could go wrong. They are most of the lines of the
  repository, which is why the map covers a small share of it.
