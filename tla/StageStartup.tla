------------------------------ MODULE StageStartup ------------------------------
(***************************************************************************)
(* Bringing the engine up: AsyncOmniEngine's constructor starts the        *)
(* orchestrator thread and waits for it with a deadline; the thread brings *)
(* up diffusion stages itself, one after the other, and language-model     *)
(* stages on threads of their own, joins those, attaches a client to each  *)
(* on threads again, and either serves or cleans up.  A process is spawned *)
(* with the devices that an environment variable of the whole process      *)
(* names at that moment, under a lock; stages that share a device take     *)
(* turns through lock files while they load.                               *)
(***************************************************************************)
EXTENDS Integers, FiniteSets

CONSTANTS
  NumStages, \* stages are the positions 0 .. NumStages - 1
  Diffusion, \* the diffusion stages, each in a process of its own
  Remote,    \* language-model stages that run elsewhere (single-stage mode)
  Uses       \* the devices each stage uses

VARIABLES
  main,          \* where the orchestrator thread is
  position,      \* the stage its loop has come to
  launch_lock,   \* who has llm_stage_launch_lock
  visible,       \* whose devices the environment variable names
  previous,      \* previous_visible_devices of each launch
  launch,        \* the launch thread of each stage
  todo,          \* devices a launch has still to lock
  lock_fds,      \* devices it has locked
  skipped,       \* devices it went on without, or whose lock it lost again
  device_lock,   \* the lock files
  process,       \* the process of each stage
  sees,          \* whose devices the process was spawned with
  started_proc,  \* stages whose StartedLlmStage still has the process
  attach,        \* the attach thread of each stage
  stage_clients, \* the stages with a client in the list
  registered,    \* remote stages that have registered
  future,        \* startup_future
  constructor,   \* the caller of the constructor
  queue_closed   \* the shutdown message was sent and the queues were closed

startup_vars ==
  <<main, position, launch_lock, visible, previous, launch, todo, lock_fds, skipped, device_lock,
    process, sees, started_proc, attach, stage_clients, registered, future, constructor,
    queue_closed>>
main_vars == <<main, position>>
env_vars == <<launch_lock, visible, previous>>
device_vars == <<todo, lock_fds, skipped, device_lock>>
process_vars == <<process, sees>>
attach_vars == <<started_proc, attach, stage_clients>>
caller_vars == <<future, constructor, queue_closed>>

Stage == 0 .. NumStages - 1
Llm == Stage \ Diffusion
Local == Llm \ Remote
Device == UNION {Uses[s] : s \in Stage}

Outer == -1   \* what the variable named before; the lock's holder: nobody
Foreign == -2 \* an initialization in another process holds the file

StartupInit ==
  /\ main = "stages"
  /\ position = 0
  /\ launch_lock = Outer
  /\ visible = Outer
  /\ previous = [s \in Stage |-> Outer]
  /\ launch = [s \in Stage |-> "no"]
  /\ todo = [s \in Stage |-> {}]
  /\ lock_fds = [s \in Stage |-> {}]
  /\ skipped = [s \in Stage |-> {}]
  /\ device_lock = [d \in Device |-> Outer]
  /\ process = [s \in Stage |-> "no"]
  /\ sees = [s \in Stage |-> Outer]
  /\ started_proc = {}
  /\ attach = [s \in Stage |-> "no"]
  /\ stage_clients = {}
  /\ registered = {}
  /\ future = "pending"
  /\ constructor = "waits"
  /\ queue_closed = FALSE

-------------------------------------------------------------------------------
(* The launch lock and the environment.                                    *)

Enter(s) ==
  /\ launch_lock = Outer
  /\ launch_lock' = s
  /\ previous' = [previous EXCEPT ![s] = visible]
  /\ visible' = s

Leave(s) ==
  /\ launch_lock' = Outer
  /\ visible' = previous[s]
  /\ UNCHANGED previous

Spawn(s) ==
  /\ process' = [process EXCEPT ![s] = "runs"]
  /\ sees' = [sees EXCEPT ![s] = visible]

Ended(S) == process' = [s \in Stage |-> IF s \in S /\ process[s] = "runs" THEN "ended"
                                         ELSE process[s]]

-------------------------------------------------------------------------------
(* Launch threads.                                                         *)

StepTo(s, place) == launch' = [launch EXCEPT ![s] = place]

EnterLaunch(s) ==
  /\ launch[s] = "submitted" /\ s \in Local
  /\ Enter(s)
  /\ todo' = [todo EXCEPT ![s] = Uses[s]]
  /\ StepTo(s, "locking")
  /\ UNCHANGED <<main_vars, lock_fds, skipped, device_lock, process_vars, attach_vars, registered,
                 caller_vars>>

(* Devices are locked in ascending order.                                  *)
NextDevice(s) == CHOOSE d \in todo[s] : \A e \in todo[s] : d <= e

LockDevice(s) ==
  /\ launch[s] = "locking" /\ todo[s] # {}
  /\ LET d == NextDevice(s) IN
       /\ device_lock[d] = Outer
       /\ device_lock' = [device_lock EXCEPT ![d] = s]
       /\ lock_fds' = [lock_fds EXCEPT ![s] = @ \cup {d}]
       /\ todo' = [todo EXCEPT ![s] = @ \ {d}]
  /\ UNCHANGED <<main_vars, env_vars, launch, skipped, process_vars, attach_vars, registered,
                 caller_vars>>

(* "Timeout waiting for device ... lock, proceeding anyway"; or the file   *)
(* cannot be opened or locked, "continuing anyway".  An open that fails    *)
(* closes the descriptor opened before, and with it the lock of the device *)
(* before this one, if that is held.                                       *)
HeldBefore(s) == {e \in lock_fds[s] : \A d \in Uses[s] \ todo[s] : d <= e}

SkipDevice(s) ==
  /\ launch[s] = "locking" /\ todo[s] # {}
  /\ \E lost \in SUBSET HeldBefore(s) :
       /\ skipped' = [skipped EXCEPT ![s] = @ \cup {NextDevice(s)} \cup lost]
       /\ lock_fds' = [lock_fds EXCEPT ![s] = @ \ lost]
       /\ device_lock' = [d \in Device |-> IF d \in lost THEN Outer ELSE device_lock[d]]
  /\ todo' = [todo EXCEPT ![s] = @ \ {NextDevice(s)}]
  /\ UNCHANGED <<main_vars, env_vars, launch, process_vars, attach_vars, registered, caller_vars>>

SpawnStage(s) ==
  /\ launch[s] = "locking" /\ todo[s] = {}
  /\ Spawn(s)
  /\ started_proc' = started_proc \cup {s}
  /\ Leave(s)
  /\ StepTo(s, "handshake")
  /\ UNCHANGED <<main_vars, device_vars, attach, stage_clients, registered, caller_vars>>

(* The configuration cannot be built, or the process not be started.       *)
LaunchRaises(s) ==
  /\ launch[s] = "locking"
  /\ todo[s] \in {{}, Uses[s]}
  /\ Leave(s)
  /\ todo' = [todo EXCEPT ![s] = {}]
  /\ StepTo(s, "broken")
  /\ UNCHANGED <<main_vars, lock_fds, skipped, device_lock, process_vars, attach_vars, registered,
                 caller_vars>>

Ready(s) ==
  /\ launch[s] = "handshake" /\ s \in Local
  /\ StepTo(s, "ready")
  /\ UNCHANGED <<main_vars, env_vars, device_vars, process_vars, attach_vars, registered,
                 caller_vars>>

(* Too late, a wrong message, or the process died.                         *)
HandshakeFails(s) ==
  /\ launch[s] = "handshake" /\ s \in Local
  /\ Ended({s})
  /\ StepTo(s, "broken")
  /\ UNCHANGED <<main_vars, env_vars, device_vars, sees, attach_vars, registered, caller_vars>>

LeaveLaunch(s) ==
  /\ launch[s] \in {"ready", "broken"}
  /\ device_lock' = [d \in Device |-> IF d \in lock_fds[s] THEN Outer ELSE device_lock[d]]
  /\ lock_fds' = [lock_fds EXCEPT ![s] = {}]
  /\ StepTo(s, IF launch[s] = "ready" THEN "done" ELSE "failed")
  /\ UNCHANGED <<main_vars, env_vars, todo, skipped, process_vars, attach_vars, registered,
                 caller_vars>>

(* A remote stage registers with OmniMasterServer, which stops with the    *)
(* clean-up; its launch thread waits for that with a timeout, and then for *)
(* the handshake without one.                                              *)
Register(s) ==
  /\ s \in Remote \ registered
  /\ ~queue_closed /\ main # "over"
  /\ registered' = registered \cup {s}
  /\ UNCHANGED <<main_vars, env_vars, launch, device_vars, process_vars, attach_vars, caller_vars>>

RemoteLaunch(s) ==
  /\ launch[s] = "submitted" /\ s \in Remote
  /\ StepTo(s, IF s \in registered THEN "handshake" ELSE "failed")
  /\ UNCHANGED <<main_vars, env_vars, device_vars, process_vars, attach_vars, registered,
                 caller_vars>>

RemoteHandshake(s) ==
  /\ launch[s] = "handshake" /\ s \in Remote
  /\ \/ StepTo(s, "done")
     \/ StepTo(s, "failed")
  /\ UNCHANGED <<main_vars, env_vars, device_vars, process_vars, attach_vars, registered,
                 caller_vars>>

-------------------------------------------------------------------------------
(* The orchestrator thread.                                                *)

SubmitLaunch ==
  /\ main = "stages" /\ position \in Llm
  /\ launch' = [launch EXCEPT ![position] = "submitted"]
  /\ position' = position + 1
  /\ UNCHANGED <<main, env_vars, device_vars, process_vars, attach_vars, registered, caller_vars>>

(* Mutant of EnterDiffusion: the orchestrator thread does not take the lock. *)
EnterUnlocked ==
  /\ main = "stages" /\ position \in Diffusion
  /\ previous' = [previous EXCEPT ![position] = visible]
  /\ visible' = position
  /\ main' = "spawning"
  /\ UNCHANGED <<position, launch_lock, launch, device_vars, process_vars, attach_vars,
                 registered, caller_vars>>

EnterDiffusion ==
  /\ main = "stages" /\ position \in Diffusion
  /\ Enter(position)
  /\ main' = "spawning"
  /\ UNCHANGED <<position, launch, device_vars, process_vars, attach_vars, registered, caller_vars>>

SpawnDiffusion ==
  /\ main = "spawning"
  /\ Spawn(position)
  /\ main' = "diffusion"
  /\ UNCHANGED <<position, env_vars, launch, device_vars, attach_vars, registered, caller_vars>>

DiffusionReady ==
  /\ main = "diffusion"
  /\ stage_clients' = stage_clients \cup {position}
  /\ Leave(position)
  /\ main' = "stages"
  /\ position' = position + 1
  /\ UNCHANGED <<launch, device_vars, process_vars, started_proc, attach, registered, caller_vars>>

(* complete_diffusion_handshake ends the process before it raises.         *)
DiffusionFails ==
  /\ main \in {"spawning", "diffusion"}
  /\ Ended({position})
  /\ Leave(position)
  /\ main' = "raised"
  /\ UNCHANGED <<position, launch, device_vars, sees, attach_vars, registered, caller_vars>>

(* The executor is left only when its threads have ended, whether the loop *)
(* ended or raised; the first launch that failed raises.                   *)
JoinLaunches ==
  /\ main = "raised" \/ (main = "stages" /\ position = NumStages)
  /\ \A s \in Stage : launch[s] \in {"no", "done", "failed"}
  /\ IF main = "raised" \/ \E s \in Llm : launch[s] = "failed"
       THEN main' = "cleanup" /\ UNCHANGED attach
       ELSE /\ main' = "attaching"
            /\ attach' = [s \in Stage |-> IF s \in Llm THEN "runs" ELSE "no"]
  /\ UNCHANGED <<position, env_vars, launch, device_vars, process_vars, started_proc,
                 stage_clients, registered, caller_vars>>

(* as_completed: the futures that are done, in any order.                  *)
CollectAttached(s) ==
  /\ main = "attaching"
  /\ attach[s] = "done" /\ s \notin stage_clients
  /\ stage_clients' = stage_clients \cup {s}
  /\ UNCHANGED <<main_vars, env_vars, launch, device_vars, process_vars, started_proc, attach,
                 registered, caller_vars>>

AttachRaised ==
  /\ main = "attaching"
  /\ \E s \in Llm : attach[s] = "failed"
  /\ main' = "leaving"
  /\ UNCHANGED <<position, env_vars, launch, device_vars, process_vars, attach_vars, registered,
                 caller_vars>>

JoinAttaches ==
  /\ main = "leaving"
  /\ \A s \in Llm : attach[s] # "runs"
  /\ main' = "cleanup"
  /\ UNCHANGED <<position, env_vars, launch, device_vars, process_vars, attach_vars, registered,
                 caller_vars>>

Resolve(value) == future' = IF future = "pending" THEN value ELSE future

(* finalize_initialized_stages finds every client.                         *)
StartServing ==
  /\ main = "attaching"
  /\ stage_clients = Stage
  /\ main' = "serving"
  /\ Resolve("ready")
  /\ UNCHANGED <<position, env_vars, launch, device_vars, process_vars, attach_vars, registered,
                 constructor, queue_closed>>

(* Stages whose launch returned a StartedLlmStage that has its process.    *)
Launched == {s \in Llm : launch[s] = "done"} \cap started_proc

(* Clients in the list are shut down, and of the other launched stages the *)
(* process, where StartedLlmStage still has it.                            *)
CleanUp ==
  /\ main = "cleanup"
  /\ Ended(stage_clients \cup Launched)
  /\ main' = "over"
  /\ Resolve("error")
  /\ UNCHANGED <<position, env_vars, launch, device_vars, sees, attach_vars, registered,
                 constructor, queue_closed>>

(* The request handler finds the shutdown message, or the queue closed.    *)
StopServing ==
  /\ main = "serving"
  /\ queue_closed
  /\ Ended(stage_clients)
  /\ main' = "over"
  /\ UNCHANGED <<position, env_vars, launch, device_vars, sees, attach_vars, registered,
                 caller_vars>>

-------------------------------------------------------------------------------
(* Attach threads: making the client takes the process from the            *)
(* StartedLlmStage; a thread that raises ends it, through the one or the   *)
(* other.                                                                  *)

Attached(s) ==
  /\ attach[s] = "runs"
  /\ started_proc' = started_proc \ {s}
  /\ attach' = [attach EXCEPT ![s] = "done"]
  /\ UNCHANGED <<main_vars, env_vars, launch, device_vars, process_vars, stage_clients, registered,
                 caller_vars>>

AttachFails(s) ==
  /\ attach[s] = "runs"
  /\ Ended({s})
  /\ started_proc' = started_proc \ {s}
  /\ attach' = [attach EXCEPT ![s] = "failed"]
  /\ UNCHANGED <<main_vars, env_vars, launch, device_vars, sees, stage_clients, registered,
                 caller_vars>>

-------------------------------------------------------------------------------
(* Outside: the caller of the constructor, and other engines on the        *)
(* machine.                                                                *)

ConstructorReturns ==
  /\ constructor = "waits" /\ future = "ready"
  /\ constructor' = "returned"
  /\ UNCHANGED <<main_vars, env_vars, launch, device_vars, process_vars, attach_vars, registered,
                 future, queue_closed>>

(* The deadline, which may pass just before the result is looked at, or    *)
(* the error of the thread: shut down and raise.                           *)
ConstructorRaises ==
  /\ constructor = "waits"
  /\ constructor' = "raised"
  /\ queue_closed' = TRUE
  /\ UNCHANGED <<main_vars, env_vars, launch, device_vars, process_vars, attach_vars, registered,
                 future>>

ForeignLock(d) ==
  /\ device_lock[d] = Outer
  /\ device_lock' = [device_lock EXCEPT ![d] = Foreign]
  /\ UNCHANGED <<main_vars, env_vars, launch, todo, lock_fds, skipped, process_vars, attach_vars,
                 registered, caller_vars>>

ForeignUnlock(d) ==
  /\ device_lock[d] = Foreign
  /\ device_lock' = [device_lock EXCEPT ![d] = Outer]
  /\ UNCHANGED <<main_vars, env_vars, launch, todo, lock_fds, skipped, process_vars, attach_vars,
                 registered, caller_vars>>

LaunchStep(s) ==
  \/ EnterLaunch(s) \/ LockDevice(s) \/ SkipDevice(s) \/ SpawnStage(s) \/ LaunchRaises(s)
  \/ Ready(s) \/ HandshakeFails(s) \/ LeaveLaunch(s) \/ RemoteLaunch(s)

AttachStep(s) == Attached(s) \/ AttachFails(s)

MainStep ==
  \/ SubmitLaunch \/ EnterDiffusion \/ SpawnDiffusion \/ DiffusionReady \/ DiffusionFails
  \/ JoinLaunches \/ \E s \in Llm : CollectAttached(s)
  \/ AttachRaised \/ JoinAttaches \/ StartServing \/ CleanUp \/ StopServing

(* What threads of the engine do by themselves: none does it twice.        *)
StartupStep ==
  \/ MainStep \/ ConstructorReturns \/ ConstructorRaises
  \/ \E s \in Llm : LaunchStep(s) \/ AttachStep(s)

StartupNext ==
  \/ StartupStep
  \/ \E s \in Remote : RemoteHandshake(s) \/ Register(s)
  \/ \E d \in Device : ForeignLock(d) \/ ForeignUnlock(d)

-------------------------------------------------------------------------------
(* Each process was spawned with the devices of its own stage, although    *)
(* the threads share the environment, and outside of the lock the variable *)
(* is what it was.                                                         *)
OwnDevices ==
  /\ \A s \in Stage : process[s] # "no" => sees[s] = s
  /\ launch_lock = Outer => visible = Outer

(* Two stages load on one device at a time only if one of them went on     *)
(* without its lock, after a wait in vain or an error, or lost it by one.  *)
Loading(s) == launch[s] \in {"handshake", "ready"} /\ process[s] = "runs"
LoadInTurn ==
  \A s \in Local : \A t \in Local \ {s} :
    Loading(s) /\ Loading(t) => Uses[s] \cap Uses[t] \subseteq skipped[s] \cup skipped[t]

(* The engine is ready only when every stage has its client, and no local  *)
(* stage is served whose process was ended.                                *)
ReadyMeansAll ==
  future = "ready" => stage_clients = Stage
                        /\ (main = "serving" => \A s \in Stage \ Remote : process[s] = "runs")

(* What an engine that is down leaves behind: no process but those of      *)
(* stages whose attach had ended well when another raised, and was not     *)
(* collected: their client is not in the list, their StartedLlmStage gave  *)
(* its process away, so that neither half of the clean-up knows of them.   *)
Outlives == {s \in Stage : main = "over" /\ process[s] = "runs"}
OnlyUncollectedOutlive == \A s \in Outlives : attach[s] = "done" /\ s \notin stage_clients

StartupSound == OwnDevices /\ LoadInTurn /\ ReadyMeansAll /\ OnlyUncollectedOutlive

(* What the proofs assume of the constants. *)
StartupAssumption ==
  /\ NumStages \in Nat
  /\ Diffusion \subseteq Stage /\ Remote \subseteq Llm
  /\ Uses \in [Stage -> SUBSET Nat]

TypeOK ==
  /\ main \in {"stages", "spawning", "diffusion", "raised", "attaching", "leaving", "cleanup",
               "serving", "over"}
  /\ position \in 0 .. NumStages
  /\ {launch_lock, visible} \subseteq Stage \cup {Outer}
  /\ previous \in [Stage -> Stage \cup {Outer}] /\ sees \in [Stage -> Stage \cup {Outer}]
  /\ launch \in [Stage -> {"no", "submitted", "locking", "handshake", "ready", "broken", "done",
                           "failed"}]
  /\ todo \in [Stage -> SUBSET Device] /\ lock_fds \in [Stage -> SUBSET Device]
  /\ skipped \in [Stage -> SUBSET Device]
  /\ device_lock \in [Device -> Stage \cup {Outer, Foreign}]
  /\ process \in [Stage -> {"no", "runs", "ended"}]
  /\ attach \in [Stage -> {"no", "runs", "done", "failed"}]
  /\ started_proc \in SUBSET Stage /\ stage_clients \in SUBSET Stage /\ registered \in SUBSET Stage
  /\ future \in {"pending", "ready", "error"} /\ constructor \in {"waits", "returned", "raised"}
  /\ queue_closed \in BOOLEAN

(* Whoever has the launch lock has the environment, and restores it.       *)
Spawning(s) == launch[s] = "locking" \/ (main \in {"spawning", "diffusion"} /\ position = s)
EnvironmentHeld ==
  /\ launch_lock # Outer => visible = launch_lock /\ previous[launch_lock] = Outer
  /\ \A s \in Stage : launch_lock = s <=> Spawning(s)
  /\ main \in {"spawning", "diffusion"} => position \in Diffusion

(* Language-model stages are launched in their turn, by their own threads, *)
(* which are joined.                                                       *)
LaunchMatches(s) ==
  /\ launch[s] # "no" <=> s \in Llm /\ s < position
  /\ launch[s] \in {"locking", "ready", "broken"} => s \in Local
  /\ main \notin {"stages", "spawning", "diffusion", "raised"} => launch[s] \in {"no", "done", "failed"}
  /\ main \in {"attaching", "leaving", "serving"} /\ s \in Llm => launch[s] = "done"

(* A lock file that is held is held by the launch that counts on it.       *)
DevicesMatch(s) ==
  /\ \A d \in lock_fds[s] : device_lock[d] = s
  /\ launch[s] = "locking" => Uses[s] \subseteq todo[s] \cup lock_fds[s] \cup skipped[s]
  /\ launch[s] \in {"handshake", "ready"} /\ s \in Local => Uses[s] \subseteq lock_fds[s] \cup skipped[s]

(* A process runs for a launch that did not break, until its attach fails  *)
(* or the engine is over; a diffusion stage's while its client lives.      *)
ProcessMatches(s) ==
  /\ s \in Remote => process[s] = "no"
  /\ s \in Local =>
       /\ process[s] = "runs" => launch[s] \in {"handshake", "ready", "done"}
       /\ launch[s] \in {"handshake", "ready", "done"} /\ attach[s] # "failed" /\ main # "over"
            => process[s] = "runs"
  /\ s \in Diffusion =>
       /\ process[s] = "runs" => s \in stage_clients \/ (s = position /\ main = "diffusion")
       /\ s \in stage_clients => s < position
       /\ s \in stage_clients /\ main # "over" => process[s] = "runs"
       /\ s = position /\ main = "diffusion" => process[s] = "runs"

(* Its owner is the StartedLlmStage, then the client.                      *)
AttachMatches(s) ==
  /\ attach[s] # "no" => s \in Llm /\ main \in {"attaching", "leaving", "cleanup", "serving", "over"}
  /\ attach[s] = "runs" => main \in {"attaching", "leaving"}
  /\ attach[s] = "failed" => process[s] # "runs"
  /\ s \in Llm /\ s \in stage_clients => attach[s] = "done"
  /\ s \in Local /\ process[s] = "runs" => s \in started_proc \/ attach[s] = "done"

ServingMatches ==
  /\ main = "serving" => stage_clients = Stage
  /\ future = "ready" => main \in {"serving", "over"} /\ stage_clients = Stage

(* Inductive.                                                              *)
StartupInvariant ==
  /\ TypeOK
  /\ EnvironmentHeld
  /\ \A s \in Stage :
       LaunchMatches(s) /\ DevicesMatch(s) /\ ProcessMatches(s) /\ AttachMatches(s)
  /\ ServingMatches
  /\ OwnDevices
  /\ OnlyUncollectedOutlive

(* A constructor that waits returns or raises; when it has raised, the     *)
(* thread comes to an end too, unless a remote stage keeps it: that        *)
(* handshake has no timeout.                                               *)
StartupWaits == constructor = "waits" \/ (constructor = "raised" /\ main # "over")
StartupOver ==
  \/ constructor = "returned"
  \/ constructor = "raised" /\ (main = "over" \/ \E s \in Remote : launch[s] = "handshake")
================================================================================
