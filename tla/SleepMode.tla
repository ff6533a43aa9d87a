-------------------------------- MODULE SleepMode -------------------------------
(***************************************************************************)
(* Stages put to sleep and woken by HTTP calls: the weights of a stage are *)
(* copied to the host (level 1) or discarded (level 2), its device memory  *)
(* is unmapped, and mapped again.  A call becomes one control RPC, of      *)
(* which the engine runs one at a time; its orchestrator serves the stages *)
(* in turn; the ranks of a stage run the task, meet in collective          *)
(* operations, and answer.                                                 *)
(*                                                                         *)
(* Collective operations match by their order (a barrier is one, too).     *)
(* A rank may raise at its allocator, before or after the memory moved.    *)
(* An allocator asked to sleep twice, or to wake memory that is mapped,    *)
(* raises or does nothing: it is vLLM's (CuMemAllocator).                  *)
(***************************************************************************)
EXTENDS Integers, Sequences, FiniteSets, FiniteSetsExt

CONSTANTS
  Caller,    \* calls of the two endpoints: numbers from 1
  Diffusion, \* stages, numbers in the order they are served: of diffusion engines,
  Llm,       \* and of language-model engines
  NumRanks,  \* how many ranks a stage has
  Targets,   \* the sets of stages a call may name
  MayRaise   \* whether the workers or the client of one stage may raise

VARIABLES
  calls,           \* the calls
  sleeping_stages, \* app.state.sleeping_stages
  is_sleeping,     \* AsyncOmni._is_sleeping
  unresolved,      \* acknowledgements each call's watched task still misses
  rpc,             \* the call whose RPC the engine runs, or NoRpc
  stages_left,     \* stages the RPC has not begun
  stage,           \* the stage whose answer it awaits, or NoStage
  workers,         \* the worker of each rank of each stage
  troubled,        \* history: stages that raised or were given a task out of turn
  overlapped       \* history: stages with a sleep and a wake-up under way at once

sleep_vars ==
  <<calls, sleeping_stages, is_sleeping, unresolved, rpc, stages_left, stage, workers, troubled,
    overlapped>>

Stage == Diffusion \cup Llm
Rank == 0 .. NumRanks - 1
NoCall == [kind |-> "none", stages |-> {}, level |-> 0, at |-> "idle"]
NoRpc == 0
NoStage == -1

(* A worker: the task it has not begun, if any; how many collective        *)
(* operations of its task it has still to pass, and how many it has joined *)
(* that are not complete; whether its task raised, and whether it ended    *)
(* for the RPC at hand.  Its memory: whether the weights and the buffers   *)
(* in it, or in its backup, are as loaded, and _sleep_saved_buffers.       *)
Loaded ==
  [inbox |-> <<>>, to_pass |-> 0, joined |-> 0, raised |-> FALSE, ended |-> FALSE,
   mapped |-> TRUE, weights |-> TRUE, buffers |-> TRUE, saved |-> "none"]

SleepInit ==
  /\ calls = [c \in Caller |-> NoCall]
  /\ sleeping_stages = {}
  /\ is_sleeping = FALSE
  /\ unresolved = [c \in Caller |-> 0]
  /\ rpc = NoRpc
  /\ stages_left = {}
  /\ stage = NoStage
  /\ workers = [s \in Stage |-> [r \in Rank |-> Loaded]]
  /\ troubled = {}
  /\ overlapped = {}

-------------------------------------------------------------------------------
(* The endpoints and AsyncOmni: coroutines of one event loop.              *)

UnderWay(c) == calls[c].at \in {"waiting", "served"}

(* The task is watched for an acknowledgement of each diffusion stage and  *)
(* of each rank of a language model, and a thread waits for _rpc_lock.     *)
Expected(ss) == Cardinality(ss \cap Diffusion) + NumRanks * Cardinality(ss \cap Llm)
Begin(c, kind, ss, level) ==
  /\ calls' = [calls EXCEPT ![c] =
       [kind |-> kind, stages |-> ss, level |-> level, at |-> "waiting"]]
  /\ unresolved' = [unresolved EXCEPT ![c] = Expected(ss)]
  /\ overlapped' = overlapped \cup
       UNION {ss \cap calls[d].stages : d \in {e \in Caller : UnderWay(e) /\ calls[e].kind # kind}}
  /\ UNCHANGED <<sleeping_stages, is_sleeping, rpc, stages_left, stage, workers, troubled>>

(* Calls come in the order of their numbers.                               *)
Comes(c) == calls[c] = NoCall /\ \A d \in Caller : d < c => calls[d] # NoCall

OmniSleep(c) ==
  /\ Comes(c)
  /\ \E ss \in Targets, level \in {1, 2} : Begin(c, "sleep", ss, level)

OmniWakeup(c) ==
  /\ Comes(c)
  /\ \E ss \in Targets :
       \/ ss \cap sleeping_stages # {} /\ Begin(c, "wakeup", ss, 0)
       \/ /\ ss \cap sleeping_stages = {}
          /\ calls' = [calls EXCEPT ![c] =
               [kind |-> "wakeup", stages |-> ss, level |-> 0, at |-> "skipped"]]
          /\ UNCHANGED <<sleeping_stages, is_sleeping, unresolved, rpc, stages_left, stage, workers,
                         troubled, overlapped>>

(* The acknowledgements are in: the coroutine goes on, for a wake-up after *)
(* another wait, while other calls go on.                                  *)
EndSleep(c) ==
  /\ calls[c].at = "served" /\ calls[c].kind = "sleep"
  /\ calls' = [calls EXCEPT ![c].at = "done"]
  /\ is_sleeping' = TRUE
  /\ sleeping_stages' = sleeping_stages \cup calls[c].stages
  /\ UNCHANGED <<unresolved, rpc, stages_left, stage, workers, troubled, overlapped>>

EndWakeup(c) ==
  /\ calls[c].at = "served" /\ calls[c].kind = "wakeup"
  /\ calls' = [calls EXCEPT ![c].at = "done"]
  /\ is_sleeping' = FALSE
  /\ sleeping_stages' = sleeping_stages \ calls[c].stages
  /\ UNCHANGED <<unresolved, rpc, stages_left, stage, workers, troubled, overlapped>>

-------------------------------------------------------------------------------
(* The engine's RPC and its orchestrator.                                  *)

Acquire(c) ==
  /\ calls[c].at = "waiting" /\ rpc = NoRpc
  /\ rpc' = c
  /\ stages_left' = calls[c].stages
  /\ UNCHANGED <<calls, sleeping_stages, is_sleeping, unresolved, stage, workers, troubled,
                 overlapped>>

(* The next stage's workers are sent the task.                             *)
Send ==
  /\ rpc # NoRpc /\ stage = NoStage /\ stages_left # {}
  /\ stage' = Min(stages_left)
  /\ stages_left' = stages_left \ {stage'}
  /\ workers' = [workers EXCEPT ![stage'] = [r \in Rank |->
       [@[r] EXCEPT !.inbox = <<[kind |-> calls[rpc].kind, level |-> calls[rpc].level]>>,
                    !.ended = FALSE]]]
  /\ UNCHANGED <<calls, sleeping_stages, is_sleeping, unresolved, rpc, troubled, overlapped>>

(* After the last stage the results go to the caller.                      *)
MoveOn ==
  IF stages_left' = {}
    THEN rpc' = NoRpc /\ calls' = [calls EXCEPT ![rpc].at = "served"]
    ELSE UNCHANGED <<rpc, calls>>

(* Or its client raises first: the error is the stage's result, which      *)
(* acknowledges nothing.                                                   *)
CanRaise(s) == MayRaise /\ troubled \subseteq {s}
Refuse ==
  /\ rpc # NoRpc /\ stage = NoStage /\ stages_left # {}
  /\ CanRaise(Min(stages_left))
  /\ troubled' = troubled \cup {Min(stages_left)}
  /\ stages_left' = stages_left \ {Min(stages_left)}
  /\ MoveOn
  /\ UNCHANGED <<sleeping_stages, is_sleeping, unresolved, stage, workers, overlapped>>

(* A diffusion executor returns rank 0's acknowledgement, a language       *)
(* model's those of all ranks, of which rank 0's and errors are not None.  *)
Awaited(s) == IF s \in Diffusion THEN {0} ELSE Rank
Acks(s) == {r \in Awaited(s) : r = 0 \/ workers[s][r].raised}
Answer ==
  /\ stage # NoStage
  /\ \A r \in Awaited(stage) : workers[stage][r].ended
  /\ unresolved' = [unresolved EXCEPT ![rpc] = Max({0, @ - Cardinality(Acks(stage))})]
  /\ stage' = NoStage
  /\ UNCHANGED stages_left
  /\ MoveOn
  /\ UNCHANGED <<sleeping_stages, is_sleeping, workers, troubled, overlapped>>

-------------------------------------------------------------------------------
(* The workers.                                                            *)

(* A diffusion worker saves the buffers before level 2 discards memory, and *)
(* restores what it saved after the memory is mapped.                      *)
Saved(s, w, task) ==
  IF task.level = 2 /\ s \in Diffusion /\ w.mapped
    THEN [w EXCEPT !.saved = IF w.buffers THEN "loaded" ELSE "lost"]
    ELSE w
Unmapped(w, task) ==
  IF w.mapped THEN [w EXCEPT !.mapped = FALSE, !.weights = @ /\ task.level = 1,
                             !.buffers = @ /\ task.level = 1] ELSE w
Mapped(w) == [w EXCEPT !.mapped = TRUE]
Restored(w) ==
  IF w.saved = "none" THEN w ELSE [w EXCEPT !.buffers = w.saved = "loaded", !.saved = "none"]

(* What a worker goes through in a task; one that raises stops in between. *)
Passes(s, w, task) ==
  IF task.kind = "sleep" THEN <<w, Saved(s, w, task), Unmapped(Saved(s, w, task), task)>>
  ELSE <<w, Mapped(w), Restored(Mapped(w))>>
InTurn(w, task) == w.mapped = (task.kind = "sleep")

(* all_reduce, and a language model's sleep a barrier too; a task that     *)
(* raised has the barrier.                                                 *)
Collectives(s, task, raised) ==
  IF s \in Llm /\ task.kind = "sleep" /\ ~raised THEN 2 ELSE 1

(* A rank joins an operation; the last one completes it for all.           *)
Joining(ws, r, w) ==
  LET all == [ws EXCEPT ![r] = [w EXCEPT !.joined = @ + 1]] IN
  IF \A q \in Rank : all[q].joined > 0
    THEN [q \in Rank |-> [all[q] EXCEPT !.joined = @ - 1]]
    ELSE all

RunTask(s, r) ==
  LET w == workers[s][r] IN
  /\ w.inbox # <<>> /\ w.to_pass = 0
  /\ LET task == w.inbox[1] IN
     \E raised \in BOOLEAN, k \in 1 .. 3 :
       /\ IF raised THEN CanRaise(s) \/ ~InTurn(w, task) ELSE k = 3
       /\ workers' = [workers EXCEPT ![s] = Joining(@, r,
            [Passes(s, w, task)[k] EXCEPT
               !.inbox = <<>>, !.raised = raised, !.to_pass = Collectives(s, task, raised)])]
       /\ troubled' = IF raised \/ ~InTurn(w, task) THEN troubled \cup {s} ELSE troubled
  /\ UNCHANGED <<calls, sleeping_stages, is_sleeping, unresolved, rpc, stages_left, stage,
                 overlapped>>

(* An operation it joined is complete: the next one, or the answer.        *)
Pass(s, r) ==
  LET w == workers[s][r] IN
  /\ w.to_pass > 0 /\ w.joined = 0
  /\ workers' = [workers EXCEPT ![s] =
       IF w.to_pass = 1
         THEN [@ EXCEPT ![r] = [w EXCEPT !.to_pass = 0, !.ended = TRUE]]
         ELSE Joining(@, r, [w EXCEPT !.to_pass = @ - 1])]
  /\ UNCHANGED <<calls, sleeping_stages, is_sleeping, unresolved, rpc, stages_left, stage, troubled,
                 overlapped>>

SleepNext ==
  \/ \E c \in Caller :
       OmniSleep(c) \/ OmniWakeup(c) \/ EndSleep(c) \/ EndWakeup(c) \/ Acquire(c)
  \/ Send \/ Refuse \/ Answer
  \/ \E s \in Stage, r \in Rank : RunTask(s, r) \/ Pass(s, r)

-------------------------------------------------------------------------------
(* Rank 0 answers for all: no rank of a stage that answered has still to   *)
(* run its task (diffusion_worker.py:393 "Ensure all ranks have completed  *)
(* sleep"), and unless one raised they agree.                              *)
AnswersForAll ==
  \A s \in Stage :
    (s # stage \/ workers[s][0].ended) =>
      /\ \A r \in Rank : workers[s][r].inbox = <<>>
      /\ s \notin troubled => \A r \in Rank : workers[s][r].mapped = workers[s][0].mapped

(* When no call is under way the server knows which stages sleep, unless a *)
(* sleep met a wake-up of the stage, or the stage raised; and is_sleeping  *)
(* is right about a stage all calls named (openai/api_server.py:2847,      *)
(* async_omni.py:835).                                                     *)
ServerKnows ==
  (\A c \in Caller : ~UnderWay(c)) =>
    \A s \in Stage \ (troubled \cup overlapped) :
      /\ s \in sleeping_stages <=> ~workers[s][0].mapped
      /\ (\A c \in Caller : calls[c] = NoCall \/ calls[c].stages = {s})
           => (is_sleeping <=> ~workers[s][0].mapped)

(* What level 1 took comes back; of level 2 the buffers of a diffusion     *)
(* stage do (diffusion_worker.py:320, :367).                                     *)
MemoryComesBack ==
  \A s \in Stage, r \in Rank :
    LET w == workers[s][r] IN
    /\ (\A c \in Caller : calls[c].level < 2) => w.weights /\ w.buffers
    /\ s \in Diffusion \ troubled => IF w.mapped THEN w.buffers ELSE w.buffers \/ w.saved = "loaded"

(* An RPC under way moves on, unless a language model's rank raised while  *)
(* another went to sleep: that one waits in its second operation.          *)
Moves ==
  rpc # NoRpc /\ stage # NoStage =>
    \/ \A r \in Awaited(stage) : workers[stage][r].ended
    \/ \E r \in Rank : LET w == workers[stage][r] IN
         \/ w.inbox # <<>> /\ w.to_pass = 0
         \/ w.to_pass > 0 /\ w.joined = 0
    \/ stage \in Llm /\ \E r \in Rank : workers[stage][r].raised

(* A call that ended leaves a watched task behind only if a stage refused  *)
(* or a language model has several ranks (async_omni.py:77).               *)
TasksResolved ==
  \A c \in Caller :
    calls[c].at = "done" /\ (NumRanks = 1 \/ calls[c].stages \subseteq Diffusion)
      /\ calls[c].stages \cap troubled = {} => unresolved[c] = 0

SleepSound == AnswersForAll /\ ServerKnows /\ MemoryComesBack /\ Moves /\ TasksResolved
================================================================================
