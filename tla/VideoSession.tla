------------------------------ MODULE VideoSession ------------------------------
(***************************************************************************)
(* A WebSocket session that asks questions about a video: a reader that    *)
(* queues the client's messages, a processor that handles them in order,   *)
(* and a task for the turn of each query, which the next query interrupts. *)
(* They are coroutines of one loop: one goes on until an await suspends it.*)
(*                                                                         *)
(* Turns are numbered; what a turn sends is its number, text and audio     *)
(* alike.  Whether frames are buffered is a free choice (see VideoFrames). *)
(* The engine is AsyncOmni.generate, which aborts its request when its     *)
(* caller is cancelled or drops the generator.                             *)
(***************************************************************************)
EXTENDS Naturals, Sequences

CONSTANTS
  MaxQueries, \* bound: queries the client sends
  MaxOutputs  \* bound: outputs of a request before its end

(* What the proofs assume of the constants. *)
SessionAssumption == MaxQueries \in Nat /\ MaxOutputs \in Nat

VARIABLES
  link,       \* what the reader hears from the client
  asked,      \* queries it has read
  msg_queue,
  processor,  \* the await the processor is suspended in
  query_task, active_request_id, prev_request_id, prev_was_interrupted, interrupt_event,
  begun,      \* turns that have begun
  turn,       \* the await the task of each turn is suspended in, or how it ended
  cancelled,  \* turns whose task is cancelled but has not run since
  request,    \* what became of the engine request of each turn
  outputs,    \* outputs of each turn that are still to come
  dropped,    \* turns whose generator was dropped half-way and is not closed yet
  wire        \* the turn that spoke last

session_vars ==
  <<link, asked, msg_queue, processor, query_task, active_request_id, prev_request_id,
    prev_was_interrupted, interrupt_event, begun, turn, cancelled, request, outputs, dropped, wire>>
reading == <<link, asked>>
ids == <<active_request_id, prev_request_id, prev_was_interrupted, interrupt_event>>
speaking == <<outputs, dropped, wire>>

None == 0
Turn == 1 .. MaxQueries
SessionDone == MaxQueries + 1   \* on the wire
Over == {"none", "ended", "cancelled"}
Live(q) == q # None /\ turn[q] \notin Over

SessionInit ==
  /\ link = "open"
  /\ asked = 0
  /\ msg_queue = <<>>
  /\ processor = "get"
  /\ query_task = None
  /\ active_request_id = None /\ prev_request_id = None
  /\ prev_was_interrupted = FALSE /\ interrupt_event = FALSE
  /\ begun = 0
  /\ turn = [q \in Turn |-> "none"]
  /\ cancelled = {}
  /\ request = [q \in Turn |-> "none"]
  /\ outputs = [q \in Turn |-> MaxOutputs]
  /\ dropped = {}
  /\ wire = None

(* The reader ends with video.done, an idle timeout or a disconnect; a     *)
(* malformed field makes the processor raise.                              *)
Read(m) ==
  /\ link = "open" /\ processor # "over"
  /\ m = "query" => asked < MaxQueries
  /\ asked' = IF m = "query" THEN asked + 1 ELSE asked
  /\ msg_queue' = Append(msg_queue, m)
  /\ link' = CASE m = "query" -> "open" [] m = "disconnect" -> "gone" [] OTHER -> "closed"
  /\ UNCHANGED <<processor, query_task, ids, begun, turn, cancelled, request, speaking>>

-------------------------------------------------------------------------------
(* The processor.                                                          *)

Handles(m) ==
  /\ processor = "get"
  /\ msg_queue # <<>>
  /\ Head(msg_queue) = m
  /\ msg_queue' = Tail(msg_queue)

Aborted(q) == [request EXCEPT ![q] = IF @ = "running" THEN "aborted" ELSE @]

(* Mutant of Interrupt: the event alone is to quiet the turn.              *)
InterruptByEvent(next) ==
  /\ interrupt_event' = TRUE
  /\ processor' = IF next = "interrupting" THEN "asking" ELSE next
  /\ UNCHANGED cancelled
Interrupt(next) ==
  /\ interrupt_event' = TRUE
  /\ processor' = next
  /\ cancelled' = IF Live(query_task) THEN cancelled \cup {query_task} ELSE cancelled

Query ==
  /\ Handles("query")
  /\ IF active_request_id # None
       THEN Interrupt("interrupting") /\ prev_was_interrupted' = TRUE
       ELSE processor' = "asking" /\ UNCHANGED <<cancelled, interrupt_event, prev_was_interrupted>>
  /\ UNCHANGED <<reading, query_task, active_request_id, prev_request_id, begun, turn, request,
                 speaking>>

Interrupted ==
  /\ processor = "interrupting"
  /\ ~Live(query_task)
  /\ query_task' = None
  /\ processor' = "asking"
  /\ UNCHANGED <<reading, msg_queue, ids, begun, turn, cancelled, request, speaking>>

(* Without frames there is no turn.                                        *)
Refuse ==
  /\ processor = "asking"
  /\ processor' = "get"
  /\ UNCHANGED <<reading, msg_queue, query_task, ids, begun, turn, cancelled, request, speaking>>

(* The engine hears once more of a turn that was interrupted.              *)
MustAbort == prev_was_interrupted /\ prev_request_id # None

AbortPrevious ==
  /\ processor = "asking" /\ MustAbort
  /\ request' = Aborted(prev_request_id)
  /\ processor' = "aborting"
  /\ UNCHANGED <<reading, msg_queue, query_task, ids, begun, turn, cancelled, speaking>>

Begin ==
  /\ processor = "aborting" \/ (processor = "asking" /\ ~MustAbort)
  /\ begun' = begun + 1
  /\ turn' = [turn EXCEPT ![begun'] = "created"]
  /\ query_task' = begun'
  /\ active_request_id' = begun'
  /\ prev_was_interrupted' = FALSE
  /\ interrupt_event' = FALSE
  /\ processor' = "get"
  /\ UNCHANGED <<reading, msg_queue, prev_request_id, cancelled, request, speaking>>

(* video.done waits for the turn, ...                                      *)
Finish ==
  /\ Handles("done")
  /\ processor' = "finishing"
  /\ UNCHANGED <<reading, query_task, ids, begun, turn, cancelled, request, speaking>>

SayDone ==
  /\ processor = "finishing"
  /\ ~Live(query_task)
  /\ query_task' = None
  /\ wire' = SessionDone
  /\ processor' = "over"
  /\ UNCHANGED <<reading, msg_queue, ids, begun, turn, cancelled, request, outputs, dropped>>

(* ... any other end aborts its request, waits a moment and cancels it.    *)
Leave(m) ==
  /\ Handles(m)
  /\ IF active_request_id # None
       THEN /\ processor' = "leaving"
            /\ interrupt_event' = TRUE /\ prev_was_interrupted' = TRUE
            /\ request' = Aborted(active_request_id)
       ELSE processor' = "over" /\ UNCHANGED <<interrupt_event, prev_was_interrupted, request>>
  /\ UNCHANGED <<reading, query_task, active_request_id, prev_request_id, begun, turn, cancelled,
                 speaking>>

CancelLast ==
  /\ processor = "leaving"
  /\ Interrupt("left")
  /\ UNCHANGED <<reading, msg_queue, query_task, active_request_id, prev_request_id,
                 prev_was_interrupted, begun, turn, request, speaking>>

Left ==
  /\ processor = "left"
  /\ ~Live(query_task)
  /\ query_task' = None
  /\ processor' = "over"
  /\ UNCHANGED <<reading, msg_queue, ids, begun, turn, cancelled, request, speaking>>

Process ==
  \/ Query \/ Interrupted \/ Refuse \/ AbortPrevious \/ Begin
  \/ Finish \/ SayDone
  \/ (\E m \in {"timeout", "disconnect", "malformed"} : Leave(m)) \/ CancelLast \/ Left

-------------------------------------------------------------------------------
(* The task of a turn.                                                     *)

At(q, await) == turn[q] = await /\ q \notin cancelled
Goes(q, await) == turn' = [turn EXCEPT ![q] = await]

(* Its finally clause.                                                     *)
Ends(q, how) ==
  /\ Goes(q, how)
  /\ IF active_request_id = q
       THEN prev_request_id' = q /\ active_request_id' = None
       ELSE UNCHANGED <<prev_request_id, active_request_id>>
  /\ UNCHANGED <<prev_was_interrupted, interrupt_event>>

(* It starts when the processor, which made it, is suspended: not while    *)
(* there are messages to get.  (One that is read just now might as well    *)
(* have been there before.)                                                *)
StartTurn(q) ==
  /\ At(q, "created")
  /\ processor = "get" => msg_queue = <<>>
  /\ Goes(q, "preparing")
  /\ UNCHANGED <<ids, request, speaking>>

(* The prompt is built, response.start sent; or an error ends the turn.    *)
Prepared(q) ==
  /\ At(q, "preparing")
  /\ wire' = q
  /\ \/ Goes(q, "starting") /\ UNCHANGED ids
     \/ Ends(q, "ended")
  /\ UNCHANGED <<request, outputs, dropped>>

Submit(q) ==
  /\ At(q, "starting")
  /\ Goes(q, "streaming")
  /\ request' = [request EXCEPT ![q] = "running"]
  /\ UNCHANGED <<ids, speaking>>

(* An output is sent, unless there was an interrupt.                       *)
Output(q) ==
  /\ At(q, "streaming")
  /\ request[q] \in {"running", "finished"}
  /\ outputs[q] > 0
  /\ outputs' = [outputs EXCEPT ![q] = @ - 1]
  /\ IF interrupt_event THEN UNCHANGED <<turn, wire>> ELSE Goes(q, "sending") /\ wire' = q
  /\ UNCHANGED <<ids, request, dropped>>

Sent(q) ==
  /\ At(q, "sending")
  /\ Goes(q, "streaming")
  /\ UNCHANGED <<ids, request, speaking>>

(* Nobody is there to send to: the generator is left as it is.             *)
SendFails(q) ==
  /\ link = "gone"
  /\ \E await \in {"starting", "sending", "finishing"} : At(q, await)
  /\ Ends(q, "ended")
  /\ dropped' = IF turn[q] = "sending" THEN dropped \cup {q} ELSE dropped
  /\ UNCHANGED <<request, outputs, wire>>

(* After its last output, or an error, the end is sent.                    *)
StreamEnds(q) ==
  /\ At(q, "streaming")
  /\ request[q] \in {"finished", "failed"}
  /\ Goes(q, "finishing")
  /\ wire' = q
  /\ UNCHANGED <<ids, request, outputs, dropped>>

EndTurn(q) ==
  /\ At(q, "finishing")
  /\ Ends(q, "ended")
  /\ UNCHANGED <<request, speaking>>

(* CancelledError: a task that never ran does not reach its finally; one   *)
(* that awaits an output takes it into generate(), which aborts; one that  *)
(* awaits a send drops the generator.                                      *)
Cancelled(q) ==
  /\ q \in cancelled /\ Live(q)
  /\ IF turn[q] = "created" THEN Goes(q, "cancelled") /\ UNCHANGED ids ELSE Ends(q, "cancelled")
  /\ request' = IF turn[q] = "streaming" THEN Aborted(q) ELSE request
  /\ dropped' = IF turn[q] = "sending" THEN dropped \cup {q} ELSE dropped
  /\ UNCHANGED <<outputs, wire>>

TurnStep(q) ==
  /\ \/ StartTurn(q) \/ Prepared(q) \/ Submit(q) \/ Output(q) \/ Sent(q) \/ SendFails(q)
     \/ StreamEnds(q) \/ EndTurn(q) \/ Cancelled(q)
  /\ UNCHANGED <<reading, msg_queue, processor, query_task, begun, cancelled>>

-------------------------------------------------------------------------------
EngineEnds(q, how) ==
  /\ request[q] = "running"
  /\ request' = [request EXCEPT ![q] = how]
  /\ UNCHANGED <<reading, msg_queue, processor, query_task, ids, begun, turn, cancelled, speaking>>

(* The loop closes a generator nobody holds: GeneratorExit.                *)
CloseGenerator(q) ==
  /\ q \in dropped
  /\ dropped' = dropped \ {q}
  /\ request' = Aborted(q)
  /\ UNCHANGED <<reading, msg_queue, processor, query_task, ids, begun, turn, cancelled,
                 outputs, wire>>

SessionStep ==
  \/ Process
  \/ \E q \in 1 .. begun : TurnStep(q) \/ CloseGenerator(q)
  \/ \E q \in 1 .. begun, how \in {"finished", "failed"} : EngineEnds(q, how)

SessionNext ==
  \/ \E m \in {"query", "done", "timeout", "disconnect", "malformed"} : Read(m)
  \/ SessionStep

SessionSpec == SessionInit /\ [][SessionNext]_session_vars

-------------------------------------------------------------------------------
(* What is sent of a turn is sent before anything of the next, and         *)
(* session.done comes last: an interrupted turn does not speak up again    *)
(* when the event that quieted it is cleared for its successor             *)
(* (serving_video_stream.py:330).                                          *)
SpeaksInOrder == [][wire' >= wire]_session_vars

(* The engine works on the turn under way only, and on nothing when the    *)
(* session is over; a generator that was dropped is still to be closed.    *)
OneRequest ==
  /\ \A q \in Turn : request[q] = "running" => q = active_request_id \/ q \in dropped
  /\ processor = "over" => \A q \in Turn : ~Live(q)

Message == {"query", "done", "timeout", "disconnect", "malformed"}

TypeOK ==
  /\ link \in {"open", "closed", "gone"}
  /\ asked \in 0 .. MaxQueries
  /\ msg_queue \in Seq(Message)
  /\ processor \in {"get", "interrupting", "asking", "aborting", "finishing", "leaving", "left",
                    "over"}
  /\ {query_task, active_request_id, prev_request_id, begun} \subseteq 0 .. MaxQueries
  /\ prev_was_interrupted \in BOOLEAN /\ interrupt_event \in BOOLEAN
  /\ turn \in [Turn -> Over \cup {"created", "preparing", "starting", "streaming", "sending",
                                  "finishing"}]
  /\ cancelled \in SUBSET Turn
  /\ request \in [Turn -> {"none", "running", "finished", "failed", "aborted"}]
  /\ outputs \in [Turn -> 0 .. MaxOutputs]
  /\ dropped \in SUBSET Turn
  /\ wire \in 0 .. SessionDone

(* A turn is begun for a query that was read, and the end of the messages, *)
(* if it was read, is the last of them.                                    *)
EndQueued == link # "open" /\ msg_queue # <<>>
QueryInHand == processor \in {"interrupting", "asking", "aborting"}
QueriesCounted ==
  /\ begun + Len(msg_queue) + (IF QueryInHand THEN 1 ELSE 0) =< asked + (IF EndQueued THEN 1 ELSE 0)
  /\ \A k \in DOMAIN msg_queue :
       msg_queue[k] # "query" <=> link # "open" /\ k = Len(msg_queue)

(* The last turn is the only one under way, and the processor knows it;    *)
(* none is when it goes on to the next or is over.                         *)
OneTurn ==
  /\ \A q \in Turn : Live(q) => q = begun /\ query_task = q /\ active_request_id = q
  /\ \A q \in Turn : q > begun => turn[q] = "none"
  /\ processor \in {"asking", "aborting", "over"} => \A q \in Turn : ~Live(q)

(* Whoever holds the generator of a request the engine works on.           *)
GeneratorHeld ==
  \A q \in Turn : request[q] = "running" => q \in dropped \/ turn[q] \in {"streaming", "sending"}

SpokeLast == wire =< begun \/ (wire = SessionDone /\ processor = "over")

(* Inductive.                                                              *)
SessionInvariant ==
  /\ TypeOK
  /\ QueriesCounted
  /\ OneTurn
  /\ GeneratorHeld
  /\ SpokeLast

(* "Abort only if the previous turn was interrupted mid-flight.  A         *)
(* naturally-finished request is already released by the scheduler;        *)
(* aborting it again can race with stage-1/2 tear-down"                    *)
(* (serving_video_stream.py:313).                                          *)
AbortsInterrupted ==
  processor = "aborting" =>
    ~(turn[prev_request_id] = "ended" /\ request[prev_request_id] = "finished")

(* The session ends once its last message was read.                        *)
SessionWaits == link # "open"
SessionOver == processor = "over"
===============================================================================
