------------------------------ MODULE VideoFrames ------------------------------
(***************************************************************************)
(* The frames of a video session: a buffer of the newest frames, a cache   *)
(* of decoded images by frame, tasks that decode ahead of the query, and   *)
(* the events with which they report, through the queue of the client's    *)
(* messages, that a frame cannot be decoded.                               *)
(*                                                                         *)
(* A frame is its data; the client may send one twice.  The similarity     *)
(* filter may drop any frame.                                              *)
(***************************************************************************)
EXTENDS Naturals, Sequences, FiniteSets, SequencesExt

CONSTANTS
  Frame, BadFrame, \* frames the client may send, and those that do not decode
  MaxFrames,       \* max_frames
  NumFrames,       \* num_frames
  QueueSize,       \* _MAX_MSG_QUEUE
  MaxSent          \* bound: frames sent

VARIABLES
  frame_buffer,
  frame_pil_cache, \* "absent", "decoded" or "bad" for each frame
  prewarm_tasks,   \* how many tasks decode each frame
  frame_queue,     \* the messages in the queue: frames, and failures
  sent,            \* how many messages the client sent
  lost             \* frames whose failure found the queue full

frame_vars == <<frame_buffer, frame_pil_cache, prewarm_tasks, frame_queue, sent, lost>>

Failure(f) == <<"_internal.frame_decode_failed", f>>
Arrival(f) == <<"video.frame", f>>

FramesInit ==
  /\ frame_buffer = <<>>
  /\ frame_pil_cache = [f \in Frame |-> "absent"]
  /\ prewarm_tasks = [f \in Frame |-> 0]
  /\ frame_queue = <<>>
  /\ sent = 0
  /\ lost = {}

(* The reader waits for room in the queue.                                 *)
ReadFrame(f) ==
  /\ sent < MaxSent
  /\ Len(frame_queue) < QueueSize
  /\ sent' = sent + 1
  /\ frame_queue' = Append(frame_queue, Arrival(f))
  /\ UNCHANGED <<frame_buffer, frame_pil_cache, prewarm_tasks, lost>>

Full == Len(frame_buffer) >= MaxFrames
Evicted == IF Full THEN [frame_pil_cache EXCEPT ![Head(frame_buffer)] = "absent"]
           ELSE frame_pil_cache

(* A frame is buffered in the place of the oldest, and decoded ahead if    *)
(* the cache does not know it; or the filter drops it.                     *)
BufferFrame(f) ==
  /\ frame_queue # <<>> /\ Head(frame_queue) = Arrival(f)
  /\ frame_queue' = Tail(frame_queue)
  /\ \/ /\ frame_pil_cache' = Evicted
        /\ frame_buffer' = Append(IF Full THEN Tail(frame_buffer) ELSE frame_buffer, f)
        /\ prewarm_tasks' =
             [prewarm_tasks EXCEPT ![f] = IF Evicted[f] = "absent" THEN @ + 1 ELSE @]
     \/ UNCHANGED <<frame_pil_cache, frame_buffer, prewarm_tasks>>
  /\ UNCHANGED <<sent, lost>>

(* _prewarm ends.                                                          *)
Reported(f) ==
  IF Len(frame_queue) < QueueSize
    THEN frame_queue' = Append(frame_queue, Failure(f)) /\ UNCHANGED lost
    ELSE lost' = lost \cup {f} /\ UNCHANGED frame_queue

Prewarmed(f) ==
  /\ prewarm_tasks[f] > 0
  /\ prewarm_tasks' = [prewarm_tasks EXCEPT ![f] = @ - 1]
  /\ frame_pil_cache' = [frame_pil_cache EXCEPT ![f] = IF f \in BadFrame THEN "bad" ELSE "decoded"]
  /\ IF f \in BadFrame THEN Reported(f) ELSE UNCHANGED <<frame_queue, lost>>
  /\ UNCHANGED <<frame_buffer, sent>>

(* The processor removes every copy of a frame that does not decode.       *)
RemoveFrame(f) ==
  /\ frame_queue # <<>> /\ Head(frame_queue) = Failure(f)
  /\ frame_queue' = Tail(frame_queue)
  /\ frame_buffer' = SelectSeq(frame_buffer, LAMBDA g : g # f)
  /\ frame_pil_cache' = [frame_pil_cache EXCEPT ![f] = IF @ = "bad" THEN "absent" ELSE @]
  /\ UNCHANGED <<prewarm_tasks, sent, lost>>

FramesNext ==
  \E f \in Frame : ReadFrame(f) \/ BufferFrame(f) \/ Prewarmed(f) \/ RemoveFrame(f)

(* Which of n buffered frames a query shows the model, but for those known *)
(* to be bad: strided samples and the newest.                              *)
Samples(n) ==
  IF n <= NumFrames THEN 1 .. n
  ELSE LET stride == n \div NumFrames
       IN {i * stride + 1 : i \in 0 .. NumFrames - 2} \cup {n}

-------------------------------------------------------------------------------
(* A frame that was found not to decode is in the buffer only as long as   *)
(* the event that removes it is queued, or because the queue was full for  *)
(* it; the model is shown as many frames as it may be, the newest among    *)
(* them (serving_video_stream.py:264, :684).                               *)
FramesSound ==
  /\ \A f \in Frame :
       frame_pil_cache[f] = "bad" /\ Contains(frame_buffer, f)
         => Contains(frame_queue, Failure(f)) \/ f \in lost
  /\ \A n \in 1 .. MaxFrames :
       /\ Samples(n) \subseteq 1 .. n
       /\ n \in Samples(n)
       /\ Cardinality(Samples(n)) = IF n <= NumFrames THEN n ELSE NumFrames
===============================================================================
