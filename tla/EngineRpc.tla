------------------------------- MODULE EngineRpc -------------------------------
(***************************************************************************)
(* Control RPCs from the callers' threads to the orchestrator:             *)
(* AsyncOmniEngine.collective_rpc.  They share a queue of replies, so one  *)
(* caller at a time holds _rpc_lock; the reply to a caller that timed out  *)
(* comes nonetheless.                                                      *)
(***************************************************************************)
EXTENDS Naturals, Sequences

CONSTANTS
  Rpc,      \* calls, by the rpc_id each draws
  TimedRpc  \* calls with a timeout

VARIABLES
  call,             \* where each call is
  reply,            \* the call whose results each of them returned
  rpc_lock,         \* who holds _rpc_lock
  rpc_requests,     \* their messages on the request queue
  rpc_output_queue,
  serving,          \* the call _handle_collective_rpc is serving
  rpc_thread        \* the orchestrator's thread

rpc_vars == <<call, reply, rpc_lock, rpc_requests, rpc_output_queue, serving, rpc_thread>>

Nobody == 0

RpcInit ==
  /\ call = [r \in Rpc |-> "idle"]
  /\ reply = [r \in Rpc |-> Nobody]
  /\ rpc_lock = Nobody
  /\ rpc_requests = <<>> /\ rpc_output_queue = <<>>
  /\ serving = Nobody
  /\ rpc_thread = "alive"

Call(r) ==
  /\ call[r] = "idle"
  /\ call' = [call EXCEPT ![r] = "lock"]
  /\ UNCHANGED <<reply, rpc_lock, rpc_requests, rpc_output_queue, serving, rpc_thread>>

Acquire(r) ==
  /\ call[r] = "lock" /\ rpc_lock = Nobody
  /\ rpc_lock' = r
  /\ call' = [call EXCEPT ![r] = "waiting"]
  /\ rpc_requests' = Append(rpc_requests, r)
  /\ UNCHANGED <<reply, rpc_output_queue, serving, rpc_thread>>

Leave(r, how) ==
  /\ call' = [call EXCEPT ![r] = how]
  /\ rpc_lock' = Nobody

(* Only the reply with the caller's own rpc_id counts.                     *)
Accepts(r, from) == from = r

Receive(r) ==
  /\ call[r] = "waiting" /\ rpc_output_queue # <<>>
  /\ rpc_output_queue' = Tail(rpc_output_queue)
  /\ LET result == Head(rpc_output_queue) IN
       \/ /\ result[1] = "error"
          /\ Leave(r, "raised") /\ UNCHANGED reply
       \/ /\ result[1] = "result" /\ Accepts(r, result[2])
          /\ Leave(r, "returned") /\ reply' = [reply EXCEPT ![r] = result[2]]
       \/ /\ result[1] = "result" /\ ~Accepts(r, result[2])
          /\ UNCHANGED <<call, rpc_lock, reply>>
  /\ UNCHANGED <<rpc_requests, serving, rpc_thread>>

Timeout(r) ==
  /\ r \in TimedRpc /\ call[r] = "waiting" /\ rpc_output_queue = <<>>
  /\ Leave(r, "timed out")
  /\ UNCHANGED <<reply, rpc_requests, rpc_output_queue, serving, rpc_thread>>

(* The request handler serves one message at a time; what a stage raises   *)
(* becomes part of the results.                                            *)
Serve ==
  /\ rpc_thread = "alive" /\ serving = Nobody /\ rpc_requests # <<>>
  /\ serving' = Head(rpc_requests)
  /\ rpc_requests' = Tail(rpc_requests)
  /\ UNCHANGED <<call, reply, rpc_lock, rpc_output_queue, rpc_thread>>

Answer ==
  /\ rpc_thread = "alive" /\ serving # Nobody
  /\ rpc_output_queue' = Append(rpc_output_queue, <<"result", serving>>)
  /\ serving' = Nobody
  /\ UNCHANGED <<call, reply, rpc_lock, rpc_requests, rpc_thread>>

(* A thread that crashes leaves one error for whoever reads next.          *)
CrashThread ==
  /\ rpc_thread = "alive"
  /\ rpc_thread' = "dead"
  /\ rpc_output_queue' = Append(rpc_output_queue, <<"error">>)
  /\ UNCHANGED <<call, reply, rpc_lock, rpc_requests, serving>>

RpcStep == Serve \/ Answer \/ \E r \in Rpc : Acquire(r) \/ Receive(r)

RpcNext == RpcStep \/ CrashThread \/ \E r \in Rpc : Call(r) \/ Timeout(r)

-------------------------------------------------------------------------------
(* A call returns the results of its own method, whatever replies of       *)
(* earlier calls that timed out are still on their way                     *)
(* (async_omni_engine.py:1713).                                            *)
OwnResults == \A r \in Rpc : call[r] = "returned" => reply[r] = r

(* One caller at a time waits, and it holds the lock.                      *)
RpcAssumption == Nobody \notin Rpc
RpcInvariant ==
  /\ call \in [Rpc -> {"idle", "lock", "waiting", "returned", "raised", "timed out"}]
  /\ reply \in [Rpc -> Rpc \cup {Nobody}]
  /\ \A r \in Rpc : call[r] = "waiting" <=> rpc_lock = r
  /\ OwnResults

(* A call that the thread outlives, or that waits when it crashes, ends;   *)
(* those behind it find an empty queue.                                    *)
RpcWaits(r) == call[r] = "waiting" /\ (rpc_thread = "alive" \/ rpc_output_queue # <<>>)
RpcOver(r) == call[r] # "waiting"
RpcsEnd == \A r \in Rpc : RpcWaits(r) ~> RpcOver(r)
===============================================================================
