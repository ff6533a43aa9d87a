------------------------------ MODULE MCDataParts -----------------------------
(***************************************************************************)
(* Small machines that share nothing, explored one at a time as in         *)
(* MCParts, of which only safety is asked: data structures, plans and      *)
(* protocols in which nobody has to be answered.                           *)
(***************************************************************************)
EXTENDS Integers, Sequences

CONSTANTS r1, r2, r3, NoReq, NoSched

VARIABLES
  part,
  request, step, masked, overwritten, emitted, finished,  \* OmniVoiceSteps
  plan, length, puts, hop, covered, chunk, done,          \* ChunkPlan
  made, over, saves, codes, put, shm, loads, polled, revoked, loaded, got, final,
  ready, origin, requests, status, waiting, running_queue, prompt, computed, flight,
  heard,                                                  \* ChunkTransfer
  rdma_made, buffers, source, source_free, sink, sink_free, phase, wanted, room, inbox,
  job, answer, crossed,                                   \* MooncakeTransfer
  registry, heartbeat, broadcast_pending, scheduling, loop, snapshot, published, raced,
  registry_running, stage_client, connection, wire, hub, hub_inbox, view, missed, \* OmniCoordinator
  sched, aborts, driver, driver_running, hasReqs, out, ro, client, sid, events, woken,
  pending, streams, chan, reply, cache, closer,           \* DiffusionEngine
  frame_buffer, frame_pil_cache, prewarm_tasks, frame_queue, sent, lost, \* VideoFrames
  stream_audio, typed, text_buffer, sentences, said, answered, speech_at, speech_request,
  left,                                                   \* SpeechStream
  output_kind, grows, samples, rows, mm_accumulated, mm_outputs, output_finished, audio_ref,
  played, prev_count, spoken,                             \* OutputStream
  time, upload_at, begun, uploaded_speakers, supported_speakers, files, cloning, voice,
  ref_audio, created_at, rivals, deleted, disturbed,      \* VoiceUploads
  lora,                                                   \* LoraManager
  at, host, storage, content, compute, copies, skipped, raised, \* LayerwiseOffload
  place, num_computed, tables, free_queue, block_hash, draft, finished_ids, dispatched,
  worker_tables, hit_ids, forwarded, hidden_cache, delivered, preempted, \* PrefixCache
  topo, turn, pending_pairs, received_payloads, request_kv, rank_kv, \* KvRanks
  calls, sleeping_stages, is_sleeping, unresolved, rpc, stages_left, stage, workers, troubled,
  overlapped                                              \* SleepMode

steps == <<request, step, masked, overwritten, emitted, finished>>
plans == <<plan, length, puts, hop, covered, chunk, done>>
chunked ==
  <<made, over, saves, codes, put, shm, loads, polled, revoked, loaded, got, final, ready,
    origin, requests, status, waiting, running_queue, prompt, computed, flight, heard>>
rdma ==
  <<rdma_made, buffers, source, source_free, sink, sink_free, phase, wanted, room, inbox, job,
    answer, crossed>>
coordinator ==
  <<registry, heartbeat, broadcast_pending, scheduling, loop, snapshot, published, raced,
    registry_running, stage_client, connection, wire, hub, hub_inbox, view, missed>>
engine ==
  <<sched, aborts, driver, driver_running, hasReqs, out, ro, client, sid, events, woken, pending,
    streams, chan, reply, cache, closer>>
frames == <<frame_buffer, frame_pil_cache, prewarm_tasks, frame_queue, sent, lost>>
speech ==
  <<stream_audio, typed, text_buffer, sentences, said, answered, speech_at, speech_request, left>>
outputs ==
  <<output_kind, grows, samples, rows, mm_accumulated, mm_outputs, output_finished, audio_ref,
    played, prev_count, spoken>>
prefix ==
  <<place, num_computed, tables, free_queue, block_hash, draft, finished_ids, dispatched,
    worker_tables, hit_ids, forwarded, hidden_cache, delivered, preempted>>
voices ==
  <<time, upload_at, begun, uploaded_speakers, supported_speakers, files, cloning, voice,
    ref_audio, created_at, rivals, deleted, disturbed>>
ranked == <<topo, turn, pending_pairs, received_payloads, request_kv, rank_kv>>
sleeps ==
  <<calls, sleeping_stages, is_sleeping, unresolved, rpc, stages_left, stage, workers, troubled,
    overlapped>>
offload == <<at, host, storage, content, compute, copies, skipped, raised>>

(* Blocks of 1 to 5 frames or one block; t_shift 0.1, as configured, and 1. *)
StepPlan == INSTANCE OmniVoiceSteps WITH
  MaxLen <- 9, Codebooks <- 2, BlockSizes <- 0 .. 5, StepCounts <- {1, 3, 4}, FirstCounts <- {0, 2},
  Shifts <- {<<1, 10>>, <<1, 1>>}, Holdbacks <- {0, 2}

(* Chunks of up to 5 frames, initial ones of up to 6.                      *)
Plans == INSTANCE ChunkPlan WITH
  ChunkSizes <- {1, 2, 4, 5}, InitialSizes <- {0, 1, 2, 3, 6}, Lookaheads <- {0, 2},
  Pads <- {0, 1}, MaxFrames <- 12, Burst <- 2

(* Two requests, one slot, and two steps out.                              *)
Overlapped == INSTANCE ChunkTransfer WITH
  Req <- {1, 2}, Outputs <- 3, ChunkSize <- 2, Live <- FALSE, Flat <- FALSE, PutsFail <- FALSE,
  MaxRunning <- 1, MaxFlight <- 2, running <- running_queue

(* Two keys and two calls of get(); a pool holds two small payloads or a   *)
(* large one.                                                              *)
Rdma == INSTANCE MooncakeTransfer WITH
  Key <- {1, 2}, Get <- {1, 2}, PoolSize <- 2, Sizes <- {1, 2}, MaxPuts <- 2,
  made <- rdma_made

(* One instance that drains or closes, on two connections, and no hub.     *)
Registry == INSTANCE OmniCoordinator WITH
  Instance <- {"a"}, Hub <- {}, Reported <- {"DOWN"}, MaxQueue <- 0, HeartbeatTimeout <- 1,
  GcTtl <- 2, MaxConnections <- 2, SndHwm <- 1, CanClose <- TRUE, pending <- broadcast_pending,
  running <- registry_running, client <- stage_client, inbox <- hub_inbox

(* Three submissions with one public id: a scheduler id is given out again *)
(* while the worker still has to hear that its bearer ended.               *)
Reuse == INSTANCE DiffusionEngine WITH
  Reqs <- {r1, r2, r3}, RequestIds <- [r \in {r1, r2, r3} |-> <<"id">>], MaxSuffix <- 2,
  MaxRunning <- 2, StepExecution <- TRUE, Strategy <- "fifo", BucketTokens <- 2,
  PadTolerance <- <<1, 1>>, Tokens <- [r \in {r1, r2, r3} |-> 1], Streaming <- {r1},
  Steps <- [r \in {r1, r2, r3} |-> 2], BlockEnds <- [r \in {r1, r2, r3} |-> {1, 2}],
  Failures <- {}, running <- driver_running

(* Request execution in exact duration buckets; r1 is a batch request of   *)
(* two prompts, whose second id r2 carries too.                            *)
Requests == INSTANCE DiffusionEngine WITH
  Reqs <- {r1, r2, r3}, RequestIds <- [r \in {r1, r2, r3} |-> IF r = r1 THEN <<r1, r2>> ELSE <<r>>],
  MaxSuffix <- 0, MaxRunning <- 2, StepExecution <- FALSE, Strategy <- "duration_bucket",
  BucketTokens <- 2, PadTolerance <- <<1, 1>>,
  Tokens <- [r \in {r1, r2, r3} |-> IF r = r1 THEN 1 ELSE 3], Streaming <- {},
  Steps <- [r \in {r1, r2, r3} |-> 2], BlockEnds <- [r \in {r1, r2, r3} |-> {1, 2}],
  Failures <- {}, running <- driver_running

(* Two frames, of which one does not decode; what is sent twice, too.      *)
Frames == INSTANCE VideoFrames WITH
  Frame <- {1, 2}, BadFrame <- {2}, MaxFrames <- 3, NumFrames <- 2, QueueSize <- 2, MaxSent <- 5

(* Texts of four characters, in pieces, with audio streamed or not.        *)
Speech == INSTANCE SpeechStream WITH
  MaxText <- 4, MinSentenceLength <- 2, Streams <- BOOLEAN

(* Three steps; audio of samples 0, silence, and 1.                        *)
OutputsOf == INSTANCE OutputStream WITH
  Piece <- {<<0>>, <<1>>, <<0, 1>>}, MaxSteps <- 3,
  Payloads <- {{}, {"latent", "sr"}, {"latent", "hidden_states.layer_0"}, {"hidden_states.layer_0"}}

(* Names that a file name does not tell apart, one of them a built-in      *)
(* voice's, audio and an embedding; and two requests with one name.        *)
Voices == INSTANCE VoiceUploads WITH
  Name <- {"a b", "a_b"}, Builtin <- {"a_b"}, Sanitized <- [n \in {"a b", "a_b"} |-> "a_b"],
  Upload <- {"u", "v", "e"}, Embedded <- {"e"}, SpeechRequest <- {"s"}, MaxTime <- 2
Stamps == INSTANCE VoiceUploads WITH
  Name <- {"a"}, Builtin <- {}, Sanitized <- [n \in {"a"} |-> n],
  Upload <- {"u", "v"}, Embedded <- {}, SpeechRequest <- {"s", "t"}, MaxTime <- 2

(* Two adapters that share a layer, which the second leaves reset, one     *)
(* that needs larger buffers than there are, and one with weights that do  *)
(* not fit.                                                                *)
Lora == INSTANCE LoraManager WITH
  Adapter <- {"a", "b", "wide", "misfit"}, Layer <- <<"q", "k", "v">>,
  Targets <- [a |-> {"q", "k"}, b |-> {"k", "v"}, wide |-> {"k"}, misfit |-> {"q", "k"}],
  Skips <- [a |-> {}, b |-> {"k"}, wide |-> {}, misfit |-> {}],
  Misfits <- [a |-> {}, b |-> {}, wide |-> {}, misfit |-> {"k"}],
  AdapterRank <- [a |-> 8, b |-> 16, wide |-> 32, misfit |-> 8], ValidRanks <- {8, 16},
  MaxCachedAdapters <- 2, Scales <- {0, 4, 10000}

(* As many pieces of memory as blocks.                                     *)
Offload == INSTANCE LayerwiseOffload WITH Blocks <- 3, Slots <- 3, MaxQueue <- 3

(* Two prompts that share two blocks, and memory for three.                *)
Prefix == INSTANCE PrefixCache WITH
  Request <- {1, 2}, Text <- <<<<"a", "b", "c", "d", "e">>, <<"a", "b", "c", "d", "f">>>>,
  BlockSize <- 2, NumBlocks <- 3, Budget <- 4, MaxFlight <- 1, MaxPreemptions <- 1

(* A cache of four heads between stages of one to four ranks each, and up  *)
(* to three guidance ranks for up to two companions.                       *)
Ranks == INSTANCE KvRanks WITH
  Widths <- {<<1, 1>>, <<2, 2>>, <<4, 1>>, <<4, 2>>, <<1, 4>>, <<2, 4>>}, NumHeads <- 4,
  CfgSizes <- {1, 2, 3}, Companions <- {<<>>, <<"cfg_text">>, <<"cfg_text", "cfg_img">>}

(* A stage of each kind, two ranks each, two calls and errors; and one     *)
(* stage with three calls and no error of its own.                         *)
Asleep == INSTANCE SleepMode WITH
  Caller <- {1, 2}, Diffusion <- {1}, Llm <- {0}, NumRanks <- 2,
  Targets <- {{1}, {0, 1}}, MayRaise <- TRUE
AsleepDiffusion == INSTANCE SleepMode WITH
  Caller <- {1, 2, 3}, Diffusion <- {1}, Llm <- {}, NumRanks <- 2, Targets <- {{1}},
  MayRaise <- FALSE
AsleepLlm == INSTANCE SleepMode WITH
  Caller <- {1, 2, 3}, Diffusion <- {}, Llm <- {0}, NumRanks <- 2, Targets <- {{0}},
  MayRaise <- FALSE

Init ==
  /\ part \in {"steps", "plans", "overlapped", "rdma", "coordinator", "reuse",
                "requests", "frames", "speech", "lora", "offload", "prefix", "outputs",
                "voices", "stamps", "ranks", "asleep", "asleep_diffusion", "asleep_llm"}
  /\ StepPlan!SInit
  /\ Plans!PlanInit
  /\ part # "plans" => plan = Plans!AnyPlan
  /\ Overlapped!ChunkInit
  /\ Rdma!RdmaInit
  /\ Registry!Init
  /\ IF part = "requests" THEN Requests!Init ELSE Reuse!Init
  /\ Frames!FramesInit
  /\ Speech!SpeechInit
  /\ part # "speech" => stream_audio
  /\ Lora!LoraInit
  /\ Offload!OffloadInit
  /\ Prefix!PrefixInit
  /\ OutputsOf!OutputInit
  /\ part # "outputs" => output_kind = "DELTA" /\ ~grows
  /\ IF part = "voices" THEN Voices!VoicesInit ELSE Stamps!VoicesInit
  /\ Ranks!KvRanksInit
  /\ part # "ranks" => topo = Ranks!AnyTopo
  /\ IF part = "asleep" THEN Asleep!SleepInit
     ELSE IF part = "asleep_llm" THEN AsleepLlm!SleepInit ELSE AsleepDiffusion!SleepInit

Next ==
  /\ UNCHANGED part
  /\ \/ part = "steps" /\ StepPlan!SNext
        /\ UNCHANGED <<plans, chunked, rdma, coordinator, engine, frames, speech,
                       lora, offload, prefix, outputs, voices, ranked, sleeps>>
     \/ part = "plans" /\ Plans!PlanNext
        /\ UNCHANGED <<steps, chunked, rdma, coordinator, engine, frames, speech,
                       lora, offload, prefix, outputs, voices, ranked, sleeps>>
     \/ part = "overlapped" /\ Overlapped!ChunkNext
        /\ UNCHANGED <<steps, plans, rdma, coordinator, engine, frames, speech, lora,
                       offload, prefix, outputs, voices, ranked, sleeps>>
     \/ part = "rdma" /\ Rdma!RdmaNext
        /\ UNCHANGED <<steps, plans, chunked, coordinator, engine, frames, speech,
                       lora, offload, prefix, outputs, voices, ranked, sleeps>>
     \/ part = "coordinator" /\ Registry!Next
        /\ UNCHANGED <<steps, plans, chunked, rdma, engine, frames, speech, lora,
                       offload, prefix, outputs, voices, ranked, sleeps>>
     \/ part = "reuse" /\ Reuse!Next
        /\ UNCHANGED <<steps, plans, chunked, rdma, coordinator, frames, speech, lora,
                       offload, prefix, outputs, voices, ranked, sleeps>>
     \/ part = "requests" /\ Requests!Next
        /\ UNCHANGED <<steps, plans, chunked, rdma, coordinator, frames, speech, lora,
                       offload, prefix, outputs, voices, ranked, sleeps>>
     \/ part = "frames" /\ Frames!FramesNext
        /\ UNCHANGED <<steps, plans, chunked, rdma, coordinator, engine, speech, lora,
                       offload, prefix, outputs, voices, ranked, sleeps>>
     \/ part = "speech" /\ Speech!SpeechNext
        /\ UNCHANGED <<steps, plans, chunked, rdma, coordinator, engine, frames, lora,
                       offload, prefix, outputs, voices, ranked, sleeps>>
     \/ part = "lora" /\ Lora!LoraNext
        /\ UNCHANGED <<steps, plans, chunked, rdma, coordinator, engine, frames,
                       speech, offload, prefix, outputs, voices, ranked, sleeps>>
     \/ part = "offload" /\ Offload!OffloadNext
        /\ UNCHANGED <<steps, plans, chunked, rdma, coordinator, engine, frames,
                       speech, lora, prefix, outputs, voices, ranked, sleeps>>
     \/ part = "prefix" /\ Prefix!PrefixNext
        /\ UNCHANGED <<steps, plans, chunked, rdma, coordinator, engine, frames,
                       speech, lora, offload, outputs, voices, ranked, sleeps>>
     \/ part = "outputs" /\ OutputsOf!OutputNext
        /\ UNCHANGED <<steps, plans, chunked, rdma, coordinator, engine, frames,
                       speech, lora, offload, prefix, voices, ranked, sleeps>>
     \/ part = "voices" /\ Voices!VoicesNext
        /\ UNCHANGED <<steps, plans, chunked, rdma, coordinator, engine, frames,
                       speech, lora, offload, prefix, outputs, ranked, sleeps>>
     \/ part = "stamps" /\ Stamps!VoicesNext
        /\ UNCHANGED <<steps, plans, chunked, rdma, coordinator, engine, frames,
                       speech, lora, offload, prefix, outputs, ranked, sleeps>>
     \/ part = "ranks" /\ Ranks!KvRanksNext
        /\ UNCHANGED <<steps, plans, chunked, rdma, coordinator, engine, frames,
                       speech, lora, offload, prefix, outputs, voices, sleeps>>
     \/ part = "asleep" /\ Asleep!SleepNext
        /\ UNCHANGED <<steps, plans, chunked, rdma, coordinator, engine, frames,
                       speech, lora, offload, prefix, outputs, voices, ranked>>
     \/ part = "asleep_diffusion" /\ AsleepDiffusion!SleepNext
        /\ UNCHANGED <<steps, plans, chunked, rdma, coordinator, engine, frames,
                       speech, lora, offload, prefix, outputs, voices, ranked>>
     \/ part = "asleep_llm" /\ AsleepLlm!SleepNext
        /\ UNCHANGED <<steps, plans, chunked, rdma, coordinator, engine, frames,
                       speech, lora, offload, prefix, outputs, voices, ranked>>

(* The parts.                                                              *)
Spec ==
  /\ Init /\ [][Next]_<<part, steps, plans, chunked, rdma, coordinator, engine, frames, speech,
                   lora, offload, prefix, outputs, voices, ranked, sleeps>>

(* The properties of the parts, stated in their modules.                   *)
(* The plan of a request covers its frames once, never unmasks what is     *)
(* decided, and audio is emitted from decided frames, all of them in the   *)
(* end (omnivoice_generator.py:404, pipeline_omnivoice.py:578); the chunks *)
(* of every processor cover the frames of the first stage once, up to the  *)
(* last (model_executor/stage_input_processors/).                          *)
PlansSound ==
  /\ part = "steps" => /\ StepPlan!BlocksPartition
                       /\ StepPlan!NothingOverwritten
                       /\ StepPlan!EmittedIsDecided
                       /\ StepPlan!FinishedIsComplete
  /\ part = "plans" => Plans!PlanCovers

(* Audio crosses the stages in order even with two steps out, though its   *)
(* end may then be lost: the receive thread announces the end before it    *)
(* hands over the frames (chunk_transfer_adapter.py:163, :183).            *)
OverlappedSound ==
  part = "overlapped" => Overlapped!InOrder /\ Overlapped!OneLoad /\ Overlapped!InOneQueue

(* A DOWN instance stays out of the list until it registers anew          *)
(* (omni_coordinator.py:260, omni_coord_client_for_stage.py:82).           *)
DownSticks == Registry!DownSticks

(* get() returns what put() was called with, from pools whose ranges are   *)
(* given out once (connectors/mooncake_transfer_engine_connector.py); and  *)
(* whatever the widths of two stages, a rank runs with its own heads of    *)
(* the request's caches, or without (kv_transfer_manager.py:968, :1226).   *)
RdmaSound ==
  /\ part = "rdma" => Rdma!RdmaSound
  /\ part = "ranks" => Ranks!RanksSound

(* A frame known not to decode is on its way out of the buffer, and what a *)
(* query shows is bounded and new; sentences are found whatever the pieces *)
(* the text comes in, spoken in turn, and nothing runs for a client that   *)
(* is gone; audio is heard once whatever kind of outputs carries it; and   *)
(* voices keep their files (serving_video_stream.py,                       *)
(* serving_speech_stream.py, output_processor.py:110,                      *)
(* realtime_connection.py:56, serving_speech.py:643).                      *)
HttpSound ==
  /\ part = "frames" => Frames!FramesSound
  /\ part = "speech" => Speech!SpeechSound
  /\ part = "outputs" => OutputsOf!OutputsSound
  /\ part = "voices" => Voices!VoicesSound
  /\ part = "stamps" => Stamps!VoicesSound

(* The adapter cache keeps to its limit, and an operation that returns     *)
(* leaves the weights of the active adapter in the layers                  *)
(* (diffusion/lora/manager.py:449, :604).                                  *)
LoraSound == []Lora!CacheBounded /\ Lora!OnlyExceptionsTear

(* "Clear any previously active adapter first so worker-local LoRA state   *)
(* cannot leak in" (diffusion/worker/diffusion_worker.py:269).             *)
NothingLeaks == Lora!NothingLeaks

(* A kernel reads the weights of its own block, whatever was skipped, and  *)
(* few blocks reside (diffusion/offloader/layerwise_backend.py:185); and a *)
(* stage that is put to sleep and woken has the memory of before, on all   *)
(* its ranks, and the server knows (openai/api_server.py:2832).            *)
OffloadSound ==
  /\ part = "offload" => Offload!OffloadSound
  /\ part = "asleep" => Asleep!SleepSound
  /\ part = "asleep_diffusion" => AsleepDiffusion!SleepSound
  /\ part = "asleep_llm" => AsleepLlm!SleepSound

(* What the workers keep between steps follows the schedulers: the states  *)
(* of step mode, and the hidden states of a shared prefix                  *)
(* (diffusion_model_runner.py:304, core/prefix_cache.py:220).              *)
RunnersSound ==
  /\ part = "reuse" => Reuse!CacheAgrees
  /\ part = "prefix" => Prefix!PrefixSound

(* In request mode too the books agree when ids conflict, and a blocked    *)
(* client keeps its way to its own outcome (diffusion_engine.py:537, :643).*)
RequestModeSound == part = "requests" => Requests!SchedulerConsistent /\ Requests!WaitersReachable
===============================================================================
