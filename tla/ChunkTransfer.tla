----------------------------- MODULE ChunkTransfer -----------------------------
(***************************************************************************)
(* Chunks between two stages.  The first stage's scheduler hands each      *)
(* output to a save thread, which puts chunks under ascending keys; the    *)
(* second stage's scheduler parks a request until its receive thread has   *)
(* got the next chunk, feeds it to the model, and finishes the request     *)
(* with the chunk that carries the final mark.                             *)
(***************************************************************************)
EXTENDS Integers, Sequences, FiniteSets

CONSTANTS
  Req,
  Outputs,     \* bound on the outputs of the first stage for a request
  ChunkSize,   \* codec_chunk_frames
  Live,        \* the processor also asks request.is_finished()
  Flat,        \* the processor names its fields code_predictor_codes and finished
  PutsFail,    \* connector.put may fail
  MaxRunning,  \* max_num_seqs
  MaxFlight    \* steps out at the same time: 2 with async scheduling

VARIABLES
  made,        \* made[r]: outputs of r so far
  over,        \* over[r]: is_finished() of r in the first stage
  saves,       \* _pending_save_reqs
  codes,       \* code_prompt_token_ids
  put,         \* put_req_chunk
  shm,         \* the segments of the connector
  loads,       \* _pending_load_reqs
  polled,      \* what the receive thread has got and is still delivering
  revoked,     \* _cancelled_load_reqs
  loaded,      \* _finished_load_reqs
  got,         \* get_req_chunk
  final,       \* finished_requests
  ready,       \* requests_with_ready_chunks
  origin,      \* requests_origin_status
  requests,    \* the scheduler's requests
  status,
  waiting,
  running,
  prompt,      \* prompt_token_ids, one for each new frame
  computed,    \* num_computed_tokens
  flight,      \* the steps that are out: the frames fed to each request
  heard        \* heard[r]: the frames whose audio was returned

senderVars == <<made, over, saves, codes, put>>
loadVars == <<loads, polled, revoked, loaded, got, final>>
schedVars == <<ready, origin, requests, status, waiting, running, flight, heard>>
chunkVars == <<senderVars, shm, loadVars, schedVars, prompt, computed>>

Nothing == [req |-> 0, frames |-> <<>>, final |-> FALSE]
Pad == 0
Elements(s) == {s[k] : k \in DOMAIN s}
First(s, n) == SubSeq(s, 1, IF n <= Len(s) THEN n ELSE Len(s))
Drop(s, r) == SelectSeq(s, LAMBDA x : x # r)
None == "none"

ChunkInit ==
  /\ made = [r \in Req |-> 0]
  /\ over = [r \in Req |-> FALSE]
  /\ saves = <<>>
  /\ codes = [r \in Req |-> <<>>]
  /\ put = [r \in Req |-> 0]
  /\ shm = {}
  /\ loads = <<>>
  /\ polled = Nothing
  /\ revoked = {}
  /\ loaded = {}
  /\ got = [r \in Req |-> 0]
  /\ final = {}
  /\ ready = {}
  /\ origin = [r \in Req |-> None]
  /\ requests = {}
  /\ status = [r \in Req |-> None]
  /\ waiting = <<>>
  /\ running = <<>>
  /\ prompt = [r \in Req |-> <<Pad>>]   \* the placeholder it is submitted with
  /\ computed = [r \in Req |-> 0]
  /\ flight = <<>>
  /\ heard = [r \in Req |-> <<>>]

-----------------------------------------------------------------------------
(* The first stage. *)

(* update_from_output: an output, perhaps the last, is queued for saving,  *)
(* with what is_finished() says at that time.                              *)
Generate(r, last) ==
  /\ ~over[r]
  /\ made[r] < Outputs
  /\ made[r] + 1 = Outputs => last
  /\ made' = [made EXCEPT ![r] = @ + 1]
  /\ over' = [over EXCEPT ![r] = last]
  /\ saves' = Append(saves, [req |-> r, frame |-> made[r] + 1, final |-> last])
  /\ UNCHANGED <<codes, put, shm, loadVars, schedVars, prompt, computed>>

(* The request is aborted here: no output says so. *)
AbortSource(r) ==
  /\ ~over[r]
  /\ over' = [over EXCEPT ![r] = TRUE]
  /\ UNCHANGED <<made, saves, codes, put, shm, loadVars, schedVars, prompt, computed>>

(* Mutant of FinalMark: is_finished() when the task is handled. *)
FinalMarkLive(t) == over[t.req]

(* The final mark that the processor puts on the chunk of a task. *)
FinalMark(t) == t.final \/ (Live /\ over[t.req])

(* The save thread handles a task: the processor keeps its frame and makes *)
(* a chunk when one is due.  A chunk that cannot be put is gone.  The one  *)
(* with the final mark takes what the sender knows of the request with it. *)
Save(ok) ==
  /\ saves # <<>>
  /\ ok \/ PutsFail
  /\ LET t == Head(saves)
         r == t.req
         all == Append(codes[r], t.frame)
         rest == Len(all) % ChunkSize
         new == IF rest = 0 THEN ChunkSize ELSE rest
         due == rest = 0 \/ FinalMark(t)
         seg == [req |-> r, id |-> put[r], frames |-> SubSeq(all, Len(all) - new + 1, Len(all)),
                 final |-> FinalMark(t)]
     IN /\ saves' = Tail(saves)
        /\ IF due /\ ok
           THEN /\ shm' = {s \in shm : s.req # r \/ s.id # put[r]} \cup {seg}
                /\ put' = [put EXCEPT ![r] = IF seg.final THEN 0 ELSE @ + 1]
           ELSE UNCHANGED <<shm, put>>
        /\ codes' = [codes EXCEPT ![r] = IF t.final \/ (due /\ ok /\ seg.final) THEN <<>> ELSE all]
  /\ UNCHANGED <<made, over, loadVars, schedVars, prompt, computed>>

-----------------------------------------------------------------------------
(* The receive thread of the second stage. *)

(* A chunk as the receiver reads it, under the names it knows. *)
Seen(s) == [req |-> s.req, frames |-> IF Flat THEN <<>> ELSE s.frames, final |-> ~Flat /\ s.final]

(* The next request in turn: its load was revoked, its chunk is there, or  *)
(* it goes to the back.                                                    *)
Poll ==
  /\ polled = Nothing
  /\ loads # <<>>
  /\ LET r == Head(loads)
         segs == {s \in shm : s.req = r /\ s.id = got[r]}
     IN \/ /\ r \in revoked
           /\ revoked' = revoked \ {r}
           /\ loads' = Tail(loads)
           /\ UNCHANGED <<shm, polled, got, final>>
        \/ /\ r \notin revoked
           /\ segs = {}
           /\ loads' = Append(Tail(loads), r)
           /\ UNCHANGED <<shm, polled, revoked, got, final>>
        \/ /\ r \notin revoked
           /\ \E s \in segs :
                /\ shm' = shm \ {s}
                /\ polled' = Seen(s)
                /\ final' = IF Seen(s).final THEN final \cup {r} ELSE final
           /\ got' = [got EXCEPT ![r] = @ + 1]
           /\ loads' = Tail(loads)
           /\ UNCHANGED revoked
  /\ UNCHANGED <<senderVars, loaded, schedVars, prompt, computed>>

(* Mutant of Deliver: num_computed_tokens is not reset. *)
DeliverComputed ==
  /\ polled # Nothing
  /\ LET r == polled.req IN
       /\ prompt' = [prompt EXCEPT ![r] = polled.frames]
       /\ loaded' = IF polled.frames = <<>> /\ ~polled.final THEN loaded ELSE loaded \cup {r}
  /\ polled' = Nothing
  /\ UNCHANGED <<senderVars, shm, loads, revoked, got, final, schedVars, computed>>

(* An empty chunk that is not the final one is not handed to the scheduler,*)
(* nor is the request polled again.                                        *)
Deliver ==
  /\ polled # Nothing
  /\ LET r == polled.req IN
       /\ prompt' = [prompt EXCEPT ![r] = polled.frames]
       /\ computed' = [computed EXCEPT ![r] = 0]
       /\ loaded' = IF polled.frames = <<>> /\ ~polled.final THEN loaded ELSE loaded \cup {r}
  /\ polled' = Nothing
  /\ UNCHANGED <<senderVars, shm, loads, revoked, got, final, schedVars>>

-----------------------------------------------------------------------------
(* The scheduler of the second stage. *)

Arrive(r) ==
  /\ status[r] = None
  /\ status' = [status EXCEPT ![r] = "WAITING"]
  /\ requests' = requests \cup {r}
  /\ waiting' = Append(waiting, r)
  /\ UNCHANGED <<senderVars, shm, loadVars, ready, origin, running, flight, heard, prompt, computed>>

(* _process_chunk_queue: who stays in its queue, and who is parked. *)
Parked == "WAITING_FOR_CHUNK"
Stays(r) ==
  IF status[r] = Parked THEN r \in loaded ELSE r \in ready \/ r \in final
Leaves(r) == ~Stays(r)
StartsLoading(r) == Leaves(r) /\ status[r] # Parked

(* The tokens of r that the model has not computed. *)
Missing(r) == Len(prompt[r]) - computed[r]

(* A final mark without frames is fed as one padding token. *)
Fed(r) == IF prompt[r] = <<>> \/ (Missing(r) = 0 /\ r \in final) THEN Append(prompt[r], Pad) ELSE prompt[r]

(* The running requests that schedule() looks at, those that it preempts   *)
(* above the limit, and the waiting ones, the preempted first.             *)
Kept == SelectSeq(running, Stays)
Run == First(Kept, MaxRunning)
Trimmed == SubSeq(Kept, MaxRunning + 1, Len(Kept))
Wait == Trimmed \o SelectSeq(waiting, Stays)

(* Who still runs after schedule() went through the first n of Run, and    *)
(* who is admitted from the first n of Wait: those that are gone drop out. *)
StillRunning(n) ==
  SelectSeq(Run, LAMBDA r : r \notin Elements(First(Run, n)) \/ r \in requests)
Admitted(n) ==
  SelectSeq(First(Wait, n), LAMBDA r : r \in requests /\ (prompt[r] # <<>> \/ r \in final))
HasRoom(at, upto) == Len(StillRunning(at)) + Len(Admitted(upto)) <= MaxRunning

(* schedule(): park who has no chunk, feed the running requests and admit  *)
(* waiting ones as far as blocks can be had (up to places at and upto),    *)
(* and bring the parked ones back.                                         *)
Schedule(at, upto) ==
  LET all == Elements(waiting \o running)
      parked == {r \in all : Leaves(r)}
      unparked == {r \in all \ parked : status[r] = Parked}
      reached == Elements(First(Run, at)) \cap requests
      step == {r \in reached : Missing(r) > 0 \/ r \in final} \cup Elements(Admitted(upto))
      taken == Elements(Admitted(upto)) \cup (Elements(First(Wait, upto)) \ requests)
  IN /\ all # {}
     /\ Len(flight) < MaxFlight
     /\ at <= Len(Run)
     /\ upto <= Len(Wait)
     /\ HasRoom(at, upto)
     /\ loads' = loads \o SelectSeq(waiting, StartsLoading) \o SelectSeq(running, StartsLoading)
     /\ revoked' = revoked \ {r \in all : StartsLoading(r)}
     /\ loaded' = loaded \ unparked
     /\ ready' = (ready \cup unparked) \ step
     /\ origin' = [r \in Req |->
          IF r \in parked THEN (IF r \in Elements(waiting) THEN "WAITING" ELSE "RUNNING")
          ELSE origin[r]]
     /\ status' = [r \in Req |->
          IF r \in Elements(Trimmed) THEN "PREEMPTED"
          ELSE IF r \in parked THEN Parked
          ELSE IF r \in unparked THEN (IF r \in Elements(waiting) THEN "WAITING" ELSE "RUNNING")
          ELSE status[r]]
     /\ prompt' = [r \in Req |-> IF r \in step THEN Fed(r) ELSE prompt[r]]
     /\ computed' = [r \in Req |-> IF r \in step THEN Len(Fed(r)) ELSE computed[r]]
     /\ waiting' = SelectSeq(Wait, LAMBDA r : r \notin taken) \o SelectSeq(waiting, Leaves)
     /\ running' = StillRunning(at) \o Admitted(upto) \o SelectSeq(running, Leaves)
     /\ flight' = IF step = {} THEN flight ELSE Append(flight, [r \in step |-> Fed(r)])
     /\ UNCHANGED <<senderVars, shm, polled, got, final, requests, heard>>

(* update_from_output: the audio of a step is returned for the requests    *)
(* that are still there, and those whose last chunk is computed end.       *)
Update ==
  /\ flight # <<>>
  /\ LET fed == Head(flight)
         alive == DOMAIN fed \cap requests
         ended == {r \in alive : r \in final /\ Missing(r) <= 0}
     IN /\ heard' = [r \in Req |->
             IF r \in alive THEN heard[r] \o Drop(fed[r], Pad) ELSE heard[r]]
        /\ requests' = requests \ ended
        /\ status' = [r \in Req |-> IF r \in ended THEN "FINISHED_STOPPED" ELSE status[r]]
        /\ running' = SelectSeq(running, LAMBDA r : r \notin ended)
        /\ waiting' = SelectSeq(waiting, LAMBDA r : ~(r \in ended /\ status[r] = Parked))
        (* cleanup_receiver *)
        /\ final' = final \ ended
        /\ got' = [r \in Req |-> IF r \in ended THEN 0 ELSE got[r]]
        /\ ready' = ready \ ended
        /\ origin' = [r \in Req |-> IF r \in ended THEN None ELSE origin[r]]
        /\ revoked' = revoked \cup ended
        /\ loaded' = loaded \ ended
  /\ flight' = Tail(flight)
  /\ UNCHANGED <<senderVars, shm, loads, polled, prompt, computed>>

(* finish_requests: the status before parking says to the scheduler which  *)
(* queue the request is in.                                                *)
AbortSink(r) ==
  LET was == IF origin[r] # None THEN origin[r] ELSE status[r] IN
  /\ r \in requests
  /\ requests' = requests \ {r}
  /\ status' = [status EXCEPT ![r] = "FINISHED_ABORTED"]
  /\ origin' = [origin EXCEPT ![r] = None]
  /\ running' = IF was = "RUNNING" THEN Drop(running, r) ELSE running
  /\ waiting' = IF was = "RUNNING" THEN waiting ELSE Drop(waiting, r)
  /\ UNCHANGED <<senderVars, shm, loadVars, ready, flight, heard, prompt, computed>>

ChunkNext ==
  \/ \E r \in Req : Arrive(r) \/ AbortSource(r) \/ AbortSink(r)
  \/ \E r \in Req, last \in BOOLEAN : Generate(r, last)
  \/ \E ok \in BOOLEAN : Save(ok)
  \/ Poll
  \/ Deliver
  \/ \E at, upto \in 0 .. Cardinality(Req) : Schedule(at, upto)
  \/ Update

ChunkSpec == ChunkInit /\ [][ChunkNext]_chunkVars

-----------------------------------------------------------------------------
Copies(s, r) == Len(SelectSeq(s, LAMBDA x : x = r))

(* The audio of a request is that of its frames, each once and in order,   *)
(* whatever the threads do (chunk_transfer_adapter.py:166, :231).          *)
InOrder == \A r \in Req : heard[r] = [k \in 1 .. Len(heard[r]) |-> k]

(* A request that ended by itself returned all that was generated: the     *)
(* final mark does not overtake the frames that come with it.              *)
Complete == \A r \in Req : status[r] = "FINISHED_STOPPED" => Len(heard[r]) = made[r]

(* A request is polled once at a time, and while it is parked it is being  *)
(* polled, or its chunk is on the way to the scheduler.                    *)
Loads(r) == Copies(loads, r) + Cardinality({polled.req} \cap {r})
              + Cardinality(loaded \cap {r})
OneLoad ==
  \A r \in Req :
    /\ Loads(r) <= 1
    /\ status[r] = Parked /\ r \in requests => Loads(r) = 1

(* "Empty chunk with more data expected: keep polling."                    *)
(* (chunk_transfer_adapter.py:185)                                         *)
KeepsPolling == \A r \in requests : status[r] = Parked => Loads(r) > 0

(* A request is in one queue, parked or not, until it ends by itself.      *)
InOneQueue ==
  \A r \in Req :
    /\ Copies(waiting \o running, r) <= 1
    /\ r \in requests => Copies(waiting \o running, r) = 1
    /\ status[r] = "FINISHED_STOPPED" => Copies(waiting \o running, r) = 0

ChunksSound ==
  /\ InOrder
  /\ Complete
  /\ OneLoad
  /\ InOneQueue

-----------------------------------------------------------------------------
(* Both threads run, chunks can be put and blocks be had.                  *)
ScheduleAll ==
  \E upto \in 0 .. Cardinality(Req) :
    /\ Schedule(Len(Run), upto)
    /\ \A n \in upto + 1 .. Len(Wait) : ~HasRoom(Len(Run), n)

(* Once its last output is queued for saving, a request ends.              *)
FinalIsComing(r) ==
  \/ \E k \in DOMAIN saves : saves[k].req = r /\ saves[k].final
  \/ \E s \in shm : s.req = r /\ s.final
  \/ r \in final
AudioWaits(r) == r \in requests /\ FinalIsComing(r)
AudioOver(r) == r \notin requests
================================================================================
