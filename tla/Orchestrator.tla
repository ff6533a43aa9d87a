------------------------------ MODULE Orchestrator ------------------------------
(***************************************************************************)
(* Requests through the stages: callers of AsyncOmni.generate, the         *)
(* dispatcher that reads the output queue for them, and the orchestrator's *)
(* thread, where a request handler and an output loop take turns at every  *)
(* await.  Two stages: a language model, then diffusion.  A parent request *)
(* may have companions for classifier-free guidance, which only produce    *)
(* caches in stage 0 that the parent needs in stage 1.                     *)
(*                                                                         *)
(* An output is a signal that the caches are ready ("kv") or the end of a  *)
(* request in a stage; unfinished text, metrics, streamed inputs and the   *)
(* split of a language model into prefill and decode are left out.  The    *)
(* stages are vLLM's engine and StageDiffusion, by what they promise.      *)
(***************************************************************************)
EXTENDS Naturals, Sequences, FiniteSets

CONSTANTS
  Parent,         \* requests of the callers
  CompanionsOf,   \* the companions each of them may be expanded to: numbers
  MayDie,         \* bound: stages that may die
  MayShutDown     \* bound: whether shutdown() may be called

VARIABLES
  generate,       \* what became of each call of generate()
  expanding,      \* companions the calling thread has still to submit
  inbox,          \* what the dispatcher put into the queue of each call
  final_output_task,
  request_queue, output_queue,
  thread,         \* the orchestrator's thread
  async_chunk,    \* whether later stages are armed from the start
  handler,        \* an abort that the request handler is in the middle of
  routing,        \* an output that the output loop is in the middle of
  request_states,
  forwarded,      \* requests with a submission time for stage 1
  tracker,        \* CfgCompanionTracker
  running,        \* requests in each stage
  stage_outputs,  \* what each stage has put out and nobody polled
  produced,       \* companions whose caches are there
  attached,       \* the companions each parent was forwarded with
  submissions,    \* how often each parent was submitted to stage 1
  answers,        \* how many finished outputs were put out for each parent
  engine_dead     \* stages that died

client == <<generate, expanding, inbox, final_output_task>>
loop == <<routing, forwarded, tracker, attached, answers>>
stages == <<running, stage_outputs, produced, submissions, engine_dead>>
orchestrator_vars ==
  <<client, request_queue, output_queue, thread, async_chunk, handler, request_states, loop, stages>>

Stage == {0, 1}
Companions == UNION {CompanionsOf[p] : p \in Parent}
Id == Parent \cup Companions
ParentOf(c) == CHOOSE p \in Parent : c \in CompanionsOf[p]
Nothing == <<>>

OrchestratorInit ==
  /\ generate = [p \in Parent |-> "new"]
  /\ expanding = {}
  /\ inbox = [p \in Parent |-> "empty"]
  /\ final_output_task = "none"
  /\ request_queue = <<>> /\ output_queue = <<>>
  /\ thread = "new"
  /\ async_chunk = FALSE
  /\ handler = Nothing
  /\ routing = Nothing
  /\ request_states = {}
  /\ forwarded = {}
  /\ tracker = [companions |-> {}, done |-> {}, pending |-> {}]
  /\ running = [s \in Stage |-> {}]
  /\ stage_outputs = [s \in Stage |-> <<>>]
  /\ produced = {}
  /\ attached = [p \in Parent |-> {}]
  /\ submissions = [p \in Parent |-> 0]
  /\ answers = [p \in Parent |-> 0]
  /\ engine_dead = {}

Start ==
  /\ thread = "new"
  /\ thread' = "running"
  /\ async_chunk' \in BOOLEAN
  /\ UNCHANGED <<client, request_queue, output_queue, handler, request_states, loop, stages>>

-------------------------------------------------------------------------------
(* The callers' thread.                                                    *)

Waiting == {p \in Parent : generate[p] = "waiting"}

(* generate() submits the request and, in the same breath, the companions  *)
(* its prompt expands to, if that does not fail; the orchestrator may be   *)
(* quicker.                                                                *)
Generate(p, companions) ==
  /\ thread # "new" /\ expanding = {}
  /\ final_output_task # "cancelled"
  /\ generate[p] = "new"
  /\ generate' = [generate EXCEPT ![p] = "waiting"]
  /\ final_output_task' = IF final_output_task = "none" THEN "running" ELSE final_output_task
  /\ request_queue' = Append(request_queue, <<"add", p>>)
  /\ expanding' = companions
  /\ UNCHANGED <<inbox, output_queue, thread, async_chunk, handler, request_states, loop, stages>>

Expand(c) ==
  /\ c \in expanding /\ \A d \in expanding : c <= d
  /\ expanding' = expanding \ {c}
  /\ request_queue' = Append(request_queue, <<"companion", c>>)
  /\ UNCHANGED <<generate, inbox, final_output_task, output_queue, thread, async_chunk, handler,
                 request_states, loop, stages>>

(* The dispatcher: the first fatal error is passed on to everyone and ends *)
(* it for good; final_output_task stays set, so nobody starts another.     *)
Deliver(who, what) ==
  inbox' = [p \in Parent |-> IF p \in who \cap Waiting /\ inbox[p] = "empty" THEN what ELSE inbox[p]]

Dispatch ==
  /\ final_output_task = "running" /\ expanding = {}
  /\ output_queue # <<>>
  /\ output_queue' = Tail(output_queue)
  /\ IF Head(output_queue) = <<"fatal">>
       THEN Deliver(Parent, "fatal") /\ final_output_task' = "ended"
       ELSE /\ Deliver({Head(output_queue)[2]}, Head(output_queue)[1])
            /\ UNCHANGED final_output_task
  /\ UNCHANGED <<generate, expanding, request_queue, thread, async_chunk, handler, request_states,
                 loop, stages>>

SendAbort(p) == request_queue' = Append(request_queue, <<"abort", p>>)

(* generate() takes its last result; an error makes it abort the request.  *)
Return(p) ==
  /\ p \in Waiting /\ expanding = {}
  /\ \/ inbox[p] = "finished" /\ generate' = [generate EXCEPT ![p] = "returned"]
        /\ UNCHANGED request_queue
     \/ inbox[p] \in {"error", "fatal"} /\ generate' = [generate EXCEPT ![p] = "raised"]
        /\ SendAbort(p)
  /\ UNCHANGED <<expanding, inbox, final_output_task, output_queue, thread, async_chunk, handler,
                 request_states, loop, stages>>

Cancel(p) ==
  /\ p \in Waiting /\ expanding = {}
  /\ generate' = [generate EXCEPT ![p] = "cancelled"]
  /\ SendAbort(p)
  /\ UNCHANGED <<expanding, inbox, final_output_task, output_queue, thread, async_chunk, handler,
                 request_states, loop, stages>>

Shutdown ==
  /\ MayShutDown /\ thread # "new" /\ final_output_task # "cancelled" /\ expanding = {}
  /\ final_output_task' = "cancelled"
  /\ request_queue' = Append(request_queue, <<"shutdown">>)
  /\ UNCHANGED <<generate, expanding, inbox, output_queue, thread, async_chunk, handler,
                 request_states, loop, stages>>

-------------------------------------------------------------------------------
(* The orchestrator's thread.                                              *)

CompanionsTracked(t, p) == t.companions \cap CompanionsOf[p]
AnyCompanionDone(t, p) == CompanionsTracked(t, p) \cap t.done # {}
AllCompanionsDone(t, p) == CompanionsTracked(t, p) \subseteq t.done

CleanupParent(t, p) ==
  [companions |-> t.companions \ CompanionsOf[p],
   done |-> t.done \ CompanionsOf[p],
   pending |-> t.pending \ {p}]

(* An exception in either task ends the thread; its last act is to tell    *)
(* the dispatcher, which tells everyone.                                   *)
Crash ==
  /\ thread' = "ended"
  /\ output_queue' = Append(output_queue, <<"fatal">>)

PutOutput(p, what) ==
  /\ output_queue' = Append(output_queue, <<what, p>>)
  /\ answers' = [answers EXCEPT ![p] = @ + 1]

(* Hand a parent to stage 1, with the tracker t and the states known as    *)
(* they are by then.  Without valid inputs it ends here with an error.     *)
ForwardToNextStage(p, t, known) ==
  \/ /\ 1 \notin engine_dead
     /\ running' = [running EXCEPT ![1] = @ \cup {p}]
     /\ submissions' = [submissions EXCEPT ![p] = @ + 1]
     /\ attached' = [attached EXCEPT ![p] = CompanionsTracked(t, p)]
     /\ forwarded' = forwarded \cup {p}
     /\ tracker' = t /\ request_states' = known
     /\ UNCHANGED <<output_queue, answers, thread>>
  \/ /\ 1 \in engine_dead
     /\ Crash
     /\ tracker' = t /\ request_states' = known
     /\ UNCHANGED <<running, submissions, attached, forwarded, answers>>
  \/ /\ PutOutput(p, "error")
     /\ tracker' = CleanupParent(t, p)
     /\ request_states' = known \ {p}
     /\ UNCHANGED <<running, submissions, attached, forwarded, thread>>

(* Wait for companions that are on their way, or forward.                  *)
DeferOrForward(p, known) ==
  IF CompanionsTracked(tracker, p) # {} /\ ~AllCompanionsDone(tracker, p)
    THEN /\ tracker' = [tracker EXCEPT !.pending = @ \cup {p}]
         /\ request_states' = known
         /\ UNCHANGED <<running, submissions, attached, forwarded, output_queue, answers, thread>>
    ELSE ForwardToNextStage(p, tracker, known)

Untouched ==
  UNCHANGED <<running, submissions, attached, forwarded, output_queue, answers, thread>>

(* A companion is ready: the last one releases its parent, once.           *)
CompanionReady(c, known) ==
  LET p == ParentOf(c)
      t == [tracker EXCEPT !.done = @ \cup {c}]
      released == c \notin tracker.done /\ p \in t.pending /\ AllCompanionsDone(t, p)
      u == [t EXCEPT !.pending = @ \ {p}] IN
    IF ~released THEN tracker' = t /\ request_states' = known /\ Untouched
    ELSE IF p \in known /\ p \notin forwarded THEN ForwardToNextStage(p, u, known)
    ELSE tracker' = u /\ request_states' = known /\ Untouched

(* The request handler.                                                    *)
HandlerRuns == thread \in {"running", "dying"} /\ handler = Nothing /\ request_queue # <<>>
Message == Head(request_queue)

(* Submit to stage 0, in async_chunk mode to every stage of a parent: but  *)
(* for one whose prompt is embeddings without token ids, with which later  *)
(* stages are not armed, then or ever.                                     *)
AddRequest(id, t, to) ==
  IF to \cap engine_dead # {}
    THEN Crash /\ UNCHANGED <<request_states, tracker, running, submissions, forwarded>>
    ELSE /\ request_states' = request_states \cup {id}
         /\ tracker' = t
         /\ running' = [s \in Stage |-> IF s \in to THEN running[s] \cup {id} ELSE running[s]]
         /\ submissions' = [p \in Parent |-> submissions[p] + (IF p = id /\ 1 \in to THEN 1 ELSE 0)]
         /\ forwarded' = IF 1 \in to THEN forwarded \cup {id} ELSE forwarded
         /\ UNCHANGED <<output_queue, thread>>

HandleAddRequest ==
  /\ HandlerRuns /\ Message[1] = "add"
  /\ request_queue' = Tail(request_queue)
  /\ \E to \in {{0}} \cup (IF async_chunk THEN {Stage} ELSE {}) :
       AddRequest(Message[2], tracker, to)
  /\ UNCHANGED <<client, async_chunk, handler, routing, attached, answers, stage_outputs, produced,
                 engine_dead>>

HandleAddCompanion ==
  /\ HandlerRuns /\ Message[1] = "companion"
  /\ request_queue' = Tail(request_queue)
  /\ AddRequest(Message[2], [tracker EXCEPT !.companions = @ \cup {Message[2]}], {0})
  /\ UNCHANGED <<client, async_chunk, handler, routing, attached, answers, stage_outputs, produced,
                 engine_dead>>

(* An abort clears the tracker at once, then goes through the stages, and  *)
(* forgets the states last; the output loop may run at every await.        *)
AbortedIds(p) == {p} \cup CompanionsTracked(tracker, p)

HandleAbort ==
  /\ HandlerRuns /\ Message[1] = "abort"
  /\ request_queue' = Tail(request_queue)
  /\ handler' = <<"stage 1", AbortedIds(Message[2])>>
  /\ tracker' = CleanupParent(tracker, Message[2])
  /\ running' = [running EXCEPT ![0] = @ \ AbortedIds(Message[2])]
  /\ UNCHANGED <<client, output_queue, thread, async_chunk, request_states, routing, forwarded,
                 attached, answers, stage_outputs, produced, submissions, engine_dead>>

AbortNextStage ==
  /\ thread \in {"running", "dying"} /\ handler # Nothing /\ handler[1] = "stage 1"
  /\ handler' = <<"forget", handler[2]>>
  /\ running' = [running EXCEPT ![1] = @ \ handler[2]]
  /\ UNCHANGED <<client, request_queue, output_queue, thread, async_chunk, request_states, loop,
                 stage_outputs, produced, submissions, engine_dead>>

ForgetAborted ==
  /\ thread \in {"running", "dying"} /\ handler # Nothing /\ handler[1] = "forget"
  /\ handler' = Nothing
  /\ request_states' = request_states \ handler[2]
  /\ UNCHANGED <<client, request_queue, output_queue, thread, async_chunk, loop, stages>>

HandleShutdown ==
  /\ HandlerRuns /\ Message[1] = "shutdown"
  /\ request_queue' = Tail(request_queue)
  /\ thread' = IF thread = "dying" THEN thread ELSE "stopping"
  /\ UNCHANGED <<client, output_queue, async_chunk, handler, request_states, loop, stages>>

(* The output loop.                                                        *)
LoopPolls == thread = "running" /\ routing = Nothing
Polled(s) == Head(stage_outputs[s])
TakeOutput(s) == stage_outputs' = [stage_outputs EXCEPT ![s] = Tail(@)]

(* The caches of a request are ready before its text is complete.          *)
HandleKvReady(id) ==
  IF async_chunk \/ id \notin request_states
    THEN UNCHANGED <<tracker, request_states>> /\ Untouched
  ELSE IF id \in tracker.companions THEN CompanionReady(id, request_states)
  ELSE IF id \notin Parent \/ id \in forwarded
    THEN UNCHANGED <<tracker, request_states>> /\ Untouched
  ELSE DeferOrForward(id, request_states)

PollKvReady ==
  /\ LoopPolls /\ stage_outputs[0] # <<>> /\ Polled(0)[1] = "kv"
  /\ TakeOutput(0)
  /\ HandleKvReady(Polled(0)[2])
  /\ UNCHANGED <<client, request_queue, async_chunk, handler, routing, produced, engine_dead>>

(* Outputs of unknown requests are dropped, a finished companion frees its *)
(* parent, any other is put out or measured first.                         *)
PollFinished ==
  /\ LoopPolls /\ stage_outputs[0] # <<>> /\ Polled(0)[1] = "finished"
  /\ TakeOutput(0)
  /\ LET id == Polled(0)[2] IN
       \/ /\ id \notin request_states
          /\ UNCHANGED <<routing, tracker, request_states>> /\ Untouched
       \/ /\ id \in request_states \cap tracker.companions
          /\ CompanionReady(id, request_states \ {id})
          /\ UNCHANGED routing
       \/ /\ id \in request_states \ tracker.companions
          /\ routing' = <<id>>
          /\ UNCHANGED <<tracker, request_states>> /\ Untouched
  /\ UNCHANGED <<client, request_queue, async_chunk, handler, produced, engine_dead>>

(* The rest of _route_output, after its await: whatever the handler did    *)
(* meanwhile, it goes on with the state it looked up before.  A companion  *)
(* whose parent is gone ends in stage 0.                                   *)
RouteOutput ==
  /\ thread \in {"running", "stopping"} /\ routing # Nothing
  /\ routing' = Nothing
  /\ LET id == routing[1] IN
       IF id \notin Parent
         THEN request_states' = request_states \ {id} /\ UNCHANGED tracker /\ Untouched
       ELSE IF async_chunk \/ id \in forwarded
         THEN UNCHANGED <<tracker, request_states>> /\ Untouched
       ELSE DeferOrForward(id, request_states)
  /\ UNCHANGED <<client, request_queue, async_chunk, handler, stage_outputs, produced, engine_dead>>

(* A result of the diffusion stage ends its request, if it is still known; *)
(* an error is put out in any case.                                        *)
PollDiffusion ==
  /\ LoopPolls /\ 1 \notin engine_dead /\ stage_outputs[1] # <<>>
  /\ TakeOutput(1)
  /\ LET p == Polled(1)[2] IN
       \/ /\ Polled(1)[1] = "error"
          /\ PutOutput(p, "error")
          /\ request_states' = request_states \ {p}
          /\ UNCHANGED tracker
       \/ /\ Polled(1)[1] = "finished" /\ p \in request_states
          /\ PutOutput(p, "finished")
          /\ request_states' = request_states \ {p}
          /\ tracker' = CleanupParent(tracker, p)
       \/ /\ Polled(1)[1] = "finished" /\ p \notin request_states
          /\ UNCHANGED <<output_queue, answers, request_states, tracker>>
  /\ UNCHANGED <<client, request_queue, thread, async_chunk, handler, routing, forwarded, attached,
                 running, produced, submissions, engine_dead>>

(* A dead language model is fatal in good order: those it served are told, *)
(* the rest when the thread drains its queue.  A dead diffusion stage      *)
(* raises out of the loop.                                                 *)
PollDeadModel ==
  /\ LoopPolls /\ 0 \in engine_dead /\ stage_outputs[0] = <<>>
  /\ thread' = "dying"
  /\ output_queue' = IF request_states = {} THEN output_queue ELSE Append(output_queue, <<"fatal">>)
  /\ request_states' = {}
  /\ UNCHANGED <<client, request_queue, async_chunk, handler, loop, stages>>

PollDeadDiffusion ==
  /\ LoopPolls /\ 1 \in engine_dead
  /\ Crash
  /\ UNCHANGED <<client, request_queue, async_chunk, handler, request_states, loop, stages>>

(* One message stands for all that are put out here, and for the last act  *)
(* of the thread: the dispatcher does not read past the first.             *)
DrainPendingRequests ==
  /\ thread = "dying"
  /\ Crash
  /\ request_queue' = <<>> /\ request_states' = {}
  /\ UNCHANGED <<client, async_chunk, handler, loop, stages>>

Stop ==
  /\ thread = "stopping" /\ routing = Nothing
  /\ thread' = "ended"
  /\ UNCHANGED <<client, request_queue, output_queue, async_chunk, handler, request_states, loop, stages>>

-------------------------------------------------------------------------------
(* The stages.                                                             *)

PutOut(s, what, id) == stage_outputs' = [stage_outputs EXCEPT ![s] = Append(@, <<what, id>>)]

ModelReady(id) ==
  /\ id \in running[0] \ produced /\ 0 \notin engine_dead
  /\ PutOut(0, "kv", id)
  /\ produced' = produced \cup {id}
  /\ UNCHANGED <<client, request_queue, output_queue, thread, async_chunk, handler, request_states,
                 loop, running, submissions, engine_dead>>

ModelFinishes(id) ==
  /\ id \in running[0] /\ 0 \notin engine_dead
  /\ PutOut(0, "finished", id)
  /\ produced' = produced \cup {id}
  /\ running' = [running EXCEPT ![0] = @ \ {id}]
  /\ UNCHANGED <<client, request_queue, output_queue, thread, async_chunk, handler, request_states,
                 loop, submissions, engine_dead>>

DiffusionEnds(p, what) ==
  /\ p \in running[1] /\ 1 \notin engine_dead
  /\ PutOut(1, what, p)
  /\ running' = [running EXCEPT ![1] = @ \ {p}]
  /\ UNCHANGED <<client, request_queue, output_queue, thread, async_chunk, handler, request_states,
                 loop, produced, submissions, engine_dead>>

Die(s) ==
  /\ s \in MayDie \ engine_dead /\ thread # "new"
  /\ engine_dead' = engine_dead \cup {s}
  /\ UNCHANGED <<client, request_queue, output_queue, thread, async_chunk, handler, request_states,
                 loop, running, stage_outputs, produced, submissions>>

-------------------------------------------------------------------------------
Handler ==
  \/ HandleAddRequest \/ HandleAddCompanion \/ HandleAbort \/ HandleShutdown
  \/ AbortNextStage \/ ForgetAborted

Loop ==
  \/ PollKvReady \/ PollFinished \/ RouteOutput \/ PollDiffusion
  \/ PollDeadModel \/ PollDeadDiffusion

Orchestrate ==
  \/ Start \/ Handler \/ Loop \/ DrainPendingRequests \/ Stop
  \/ Dispatch
  \/ \E p \in Parent : Return(p)
  \/ \E c \in Companions : Expand(c)
  \/ \E id \in Id : ModelFinishes(id)
  \/ \E p \in Parent, what \in {"finished", "error"} : DiffusionEnds(p, what)

OrchestratorNext ==
  \/ Orchestrate
  \/ \E p \in Parent : Cancel(p) \/ \E C \in {{}, CompanionsOf[p]} : Generate(p, C)
  \/ \E id \in Id : ModelReady(id)
  \/ \E s \in Stage : Die(s)
  \/ Shutdown

-------------------------------------------------------------------------------
(* Properties.                                                             *)

(* Three paths forward a parent: its caches, its end and its last          *)
(* companion.  However they race with each other and with aborts, stage 1  *)
(* gets it once, and with no companion whose cache is missing              *)
(* (orchestrator.py:459, :517).                                            *)
ForwardedOnce == \A p \in Parent : submissions[p] <= 1
GuidanceReady == \A p \in Parent : attached[p] \subseteq produced

(* A caller never finds a second end behind the first: one finished output *)
(* for each request (orchestrator.py:288, :710).                           *)
AnsweredOnce == \A p \in Parent : answers[p] <= 1

(* When all is quiet nothing is kept of requests that are over, whichever  *)
(* way they ended, but for companions that came after the end of a parent  *)
(* that did not wait for them (cfg_companion_tracker.py:97).               *)
Quiet ==
  /\ thread = "running" /\ handler = Nothing /\ routing = Nothing
  /\ request_queue = <<>> /\ expanding = {} /\ Waiting = {}
  /\ \A s \in Stage : running[s] = {} /\ stage_outputs[s] = <<>>

Forgotten ==
  Quiet =>
    /\ request_states = {} /\ tracker.pending = {}
    /\ \A c \in tracker.companions :
         generate[ParentOf(c)] = "returned" /\ c \notin attached[ParentOf(c)]

RequestsSound == ForwardedOnce /\ GuidanceReady /\ AnsweredOnce /\ Forgotten

-------------------------------------------------------------------------------
(* The inductive invariant (Parts_proofs).                                 *)

(* A companion has one parent and is none itself.                          *)
OrchestratorAssumption ==
  /\ Companions \cap Parent = {}
  /\ \A p, q \in Parent : p # q => CompanionsOf[p] \cap CompanionsOf[q] = {}

Requested == ({"add", "abort"} \X Parent) \cup ({"companion"} \X Companions) \cup {<<"shutdown">>}
Told == ({"finished", "error"} \X Parent) \cup {<<"fatal">>}
TypeOK ==
  /\ generate \in [Parent -> {"new", "waiting", "returned", "raised", "cancelled"}]
  /\ expanding \subseteq Companions
  /\ inbox \in [Parent -> {"empty", "finished", "error", "fatal"}]
  /\ final_output_task \in {"none", "running", "ended", "cancelled"}
  /\ request_queue \in Seq(Requested) /\ output_queue \in Seq(Told)
  /\ thread \in {"new", "running", "dying", "stopping", "ended"}
  /\ async_chunk \in BOOLEAN
  /\ handler \in {Nothing} \cup ({"stage 1", "forget"} \X SUBSET Id)
  /\ routing \in {Nothing} \cup {<<id>> : id \in Id}
  /\ request_states \subseteq Id /\ forwarded \subseteq Parent
  /\ tracker \in [companions : SUBSET Companions, done : SUBSET Companions, pending : SUBSET Parent]
  /\ running \in [Stage -> SUBSET Id] /\ running[1] \subseteq Parent
  /\ stage_outputs \in [Stage -> Seq({"kv", "finished", "error"} \X Id)]
  /\ stage_outputs[1] \in Seq({"finished", "error"} \X Parent)
  /\ produced \subseteq Id
  /\ attached \in [Parent -> SUBSET Companions]
  /\ submissions \in [Parent -> Nat] /\ answers \in [Parent -> Nat]

Queued(m) == \E k \in DOMAIN request_queue : request_queue[k] = m
PutOutBy(s, m) == \E k \in DOMAIN stage_outputs[s] : stage_outputs[s][k] = m
AnswerQueued(p, what) == \E k \in DOMAIN output_queue : output_queue[k] = <<what, p>>
Aborting == IF handler = Nothing THEN {} ELSE handler[2]
Serves == thread \in {"new", "running"}

(* No message is sent twice, and none of a request after its abort.        *)
MessagesMatch ==
  /\ \A i, j \in DOMAIN request_queue : request_queue[i] = request_queue[j] => i = j
  /\ Queued(<<"shutdown">>) => final_output_task = "cancelled"
  /\ \A p \in Parent :
       /\ Queued(<<"add", p>>) => generate[p] # "new"
       /\ Queued(<<"abort", p>>) => generate[p] \in {"raised", "cancelled"}
       /\ \A c \in CompanionsOf[p] :
            /\ Queued(<<"companion", c>>) => generate[p] # "new" /\ c \notin expanding
            /\ c \in expanding => generate[p] = "waiting"
AbortIsLast ==
  \A p \in Parent : \A i, j \in DOMAIN request_queue :
    /\ request_queue[j] = <<"abort", p>>
    /\ request_queue[i] \in {<<"add", p>>} \cup {<<"companion", c>> : c \in CompanionsOf[p]}
    => i < j

(* What the orchestrator has not been told of leaves no trace in it.       *)
Unknown(p) == generate[p] = "new" \/ Queued(<<"add", p>>)
UnknownCompanion(p, c) ==
  generate[p] = "new" \/ c \in expanding \/ Queued(<<"companion", c>>)
NothingEarly ==
  \A p \in Parent :
    /\ Unknown(p) =>
         p \notin request_states /\ p \notin forwarded /\ answers[p] = 0 /\ routing # <<p>>
    /\ \A c \in CompanionsOf[p] : UnknownCompanion(p, c) =>
         /\ c \notin request_states /\ routing # <<c>>
         /\ c \notin tracker.companions /\ c \notin attached[p]
    /\ attached[p] \subseteq CompanionsOf[p]

SubmittedOnce == \A p \in Parent : submissions[p] = IF p \in forwarded THEN 1 ELSE 0

(* Whatever counts as done has been produced.                              *)
DoneIsProduced ==
  /\ \A k \in DOMAIN stage_outputs[0] : stage_outputs[0][k][2] \in produced
  /\ tracker.done \subseteq produced

(* Stage 1 has a request that was forwarded and not answered, once.        *)
InDiffusion(p) == \E k \in DOMAIN stage_outputs[1] : stage_outputs[1][k][2] = p
DiffusionMatches ==
  /\ \A p \in Parent : p \in running[1] \/ InDiffusion(p) => p \in forwarded /\ answers[p] = 0
  /\ \A p \in running[1] : ~InDiffusion(p)
  /\ \A i, j \in DOMAIN stage_outputs[1] :
       stage_outputs[1][i][2] = stage_outputs[1][j][2] => i = j

(* What was answered is forgotten, and on no other way to an answer.       *)
AnswersMatch ==
  \A p \in Parent :
    /\ answers[p] <= 1
    /\ answers[p] = 1 => p \notin request_states
    /\ routing = <<p>> /\ p \notin forwarded => answers[p] = 0

(* A caller learns of answers, or that the thread is at its end.           *)
CallersMatch ==
  /\ \A k \in DOMAIN output_queue : output_queue[k] = <<"fatal">> => ~Serves
  /\ \A p \in Parent :
       /\ \A what \in {"finished", "error"} :
            AnswerQueued(p, what) \/ inbox[p] = what => answers[p] = 1
       /\ inbox[p] = "fatal" => ~Serves
       /\ generate[p] = "returned" => inbox[p] = "finished"
       /\ generate[p] = "raised" => inbox[p] \in {"error", "fatal"}
       /\ AnswerQueued(p, "finished") \/ inbox[p] = "finished" =>
            p \in forwarded /\ attached[p] \cap tracker.companions = {}

(* A call that raised or was cancelled is cleaned up by its abort.         *)
AbortIsDue ==
  Serves =>
    \A p \in Parent : generate[p] \in {"raised", "cancelled"} =>
      /\ \/ Queued(<<"add", p>>)
         \/ \E c \in CompanionsOf[p] : c \in tracker.companions \/ Queued(<<"companion", c>>)
         => Queued(<<"abort", p>>)
      /\ p \in request_states => Queued(<<"abort", p>>) \/ p \in Aborting

(* A parent waits for a companion that is not done, which the model works  *)
(* on or has finished; a companion that is known ends in one way.          *)
PendingMatches ==
  \A p \in tracker.pending : CompanionsTracked(tracker, p) \ tracker.done # {}
AtModel(c) == c \in running[0] \/ PutOutBy(0, <<"finished", c>>)
CompanionsMatch ==
  Serves =>
    \A c \in Companions :
      /\ c \in tracker.companions => c \notin Aborting /\ routing # <<c>>
      /\ c \in tracker.companions \ tracker.done => c \in request_states /\ AtModel(c)
      /\ c \in request_states => AtModel(c) \/ routing = <<c>> \/ c \in Aborting

OrchestratorInvariant ==
  /\ TypeOK
  /\ MessagesMatch
  /\ AbortIsLast
  /\ NothingEarly
  /\ SubmittedOnce
  /\ DoneIsProduced
  /\ GuidanceReady
  /\ DiffusionMatches
  /\ AnswersMatch
  /\ CallersMatch
  /\ AbortIsDue
  /\ PendingMatches
  /\ CompanionsMatch

-------------------------------------------------------------------------------
(* A call that a dispatcher serves returns, raises or is cancelled: a      *)
(* parent that waits for companions, a stage that dies, a thread that      *)
(* crashes in any state leave nobody waiting.  A call made after the       *)
(* dispatcher ended is not served, nor one that shutdown overtakes         *)
(* (async_omni.py:549), nor one that async_chunk mode did not arm: the     *)
(* output of its stage 0 is forwarded to no other (orchestrator.py:993).   *)
CallWaits(p) == p \in Waiting /\ (final_output_task = "running" \/ inbox[p] # "empty")
Unarmed(p) == async_chunk /\ p \in request_states \ forwarded
CallOver(p) == p \notin Waiting \/ final_output_task = "cancelled" \/ Unarmed(p)
CallsReturn == \A p \in Parent : CallWaits(p) ~> CallOver(p)
===============================================================================
