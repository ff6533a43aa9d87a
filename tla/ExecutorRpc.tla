------------------------------ MODULE ExecutorRpc ------------------------------
(***************************************************************************)
(* The RPC layer of the multiprocess executor: one broadcast queue to the  *)
(* workers, one result queue back from rank 0, no correlation of replies   *)
(* with calls.  The callers are the engine (its driver thread in           *)
(* concurrent mode, a client holding _rpc_lock in the legacy mode) and     *)
(* control calls (profiling, LoRA, sleep).  A monitor thread watches the   *)
(* workers; shutdown is run by it, by close(), or by both.                 *)
(*                                                                         *)
(* The workers are one process here: rank 0 is the only one that replies.  *)
(***************************************************************************)
EXTENDS Naturals, Sequences, FiniteSets

CONSTANTS
  Engine,      \* the callers of execute_fn
  Control,     \* the callers of DiffusionEngine.collective_rpc
  EngineLocks, \* whether the engine holds _rpc_lock: the legacy mode
  Timed,       \* control callers that pass a timeout
  MaxCalls     \* bound: calls a caller makes

Caller == Engine \cup Control
Call == Caller \X (1 .. MaxCalls)

(* What the proofs assume of the constants. *)
ExecutorAssumption ==
  IsFiniteSet(Caller) /\ "free" \notin Caller /\ MaxCalls \in Nat /\ EngineLocks \in BOOLEAN

VARIABLES
  pc,         \* where each caller is
  calls,      \* calls it has begun
  outcome,    \* how each call ended: the call whose reply it got, or an exception
  lock,       \* the holder of _rpc_lock
  broadcast,  \* _broadcast_mq
  results,    \* _result_mq
  busy,       \* the call the workers execute
  worker,     \* the worker processes
  executed,   \* calls the workers took
  closed,     \* _closed
  failed,     \* is_failed
  gone,       \* whether the queue attributes are None
  finalized,  \* whether the finalizer was called
  shutting    \* where the two threads that may shut down are

callers == <<pc, calls, outcome, lock>>
processes == <<busy, worker, executed>>
life == <<closed, failed, gone, finalized, shutting>>
vars == <<callers, broadcast, results, processes, life>>

Nobody == <<>>
Exception == {"timeout", "late", "dead", "closed", "broken"}
Thread == {"monitor", "closer"}

Init ==
  /\ pc = [c \in Caller |-> "idle"]
  /\ calls = [c \in Caller |-> 0]
  /\ outcome = [x \in Call |-> Nobody]
  /\ lock = "free"
  /\ broadcast = <<>>
  /\ results = <<>>
  /\ busy = Nobody
  /\ worker = "alive"
  /\ executed = {}
  /\ closed = FALSE
  /\ failed = FALSE
  /\ gone = FALSE
  /\ finalized = FALSE
  /\ shutting = [t \in Thread |-> "no"]

Locks(c) == c \in Control \/ EngineLocks
Current(c) == <<c, calls[c]>>

-------------------------------------------------------------------------------
(* A caller.                                                               *)

Begin(c) ==
  /\ pc[c] = "idle"
  /\ calls[c] < MaxCalls
  /\ calls' = [calls EXCEPT ![c] = @ + 1]
  /\ pc' = [pc EXCEPT ![c] = IF Locks(c) THEN "lock" ELSE "check"]
  /\ UNCHANGED <<outcome, lock, broadcast, results, processes, life>>

(* Mutant of LockFree: the lock excludes nobody.                           *)
LockAny == TRUE
LockFree == lock = "free"

Acquire(c) ==
  /\ pc[c] = "lock"
  /\ LockFree
  /\ lock' = c
  /\ pc' = [pc EXCEPT ![c] = "check"]
  /\ UNCHANGED <<calls, outcome, broadcast, results, processes, life>>

Released(c) == IF lock = c THEN "free" ELSE lock

(* The call ends, with a reply or an exception, and releases the lock.     *)
End(c, o) ==
  /\ pc' = [pc EXCEPT ![c] = "idle"]
  /\ outcome' = [outcome EXCEPT ![Current(c)] = o]
  /\ lock' = Released(c)
  /\ UNCHANGED calls

(* The deadline passes before the lock is free, or before its turn.        *)
LockTimeout(c) ==
  /\ c \in Timed
  /\ pc[c] \in {"lock", "check"}
  /\ End(c, <<"timeout">>)
  /\ UNCHANGED <<broadcast, results, processes, life>>

EnsureOpen(c) ==
  /\ pc[c] = "check"
  /\ IF closed \/ gone THEN End(c, <<"closed">>)
     ELSE pc' = [pc EXCEPT ![c] = "send"] /\ UNCHANGED <<calls, outcome, lock>>
  /\ UNCHANGED <<broadcast, results, processes, life>>

(* Between the check and the enqueue, shutdown may have set the attribute  *)
(* to None.                                                                *)
Enqueue(c) ==
  /\ pc[c] = "send"
  /\ IF gone THEN End(c, <<"broken">>) /\ UNCHANGED broadcast
     ELSE /\ broadcast' = Append(broadcast, Current(c))
          /\ pc' = [pc EXCEPT ![c] = "wait"]
          /\ UNCHANGED <<calls, outcome, lock>>
  /\ UNCHANGED <<results, processes, life>>

(* One message of the result queue, whosever it is.  A dequeue that began  *)
(* before the attribute was cleared still holds the queue.                 *)
Dequeue(c) ==
  /\ pc[c] = "wait"
  /\ results # <<>>
  /\ End(c, Head(results))
  /\ results' = Tail(results)
  /\ UNCHANGED <<broadcast, processes, life>>

(* A chunk of _DEQUEUE_TIMEOUT_S without a message.                        *)
PollFailed(c) ==
  /\ pc[c] = "wait"
  /\ results = <<>>
  /\ failed
  /\ End(c, <<"dead">>)
  /\ UNCHANGED <<broadcast, results, processes, life>>

PollGone(c) ==
  /\ pc[c] = "wait"
  /\ gone
  /\ End(c, <<"broken">>)
  /\ UNCHANGED <<broadcast, results, processes, life>>

(* The reply, if it comes, stays in the queue.                             *)
Deadline(c) ==
  /\ c \in Timed
  /\ pc[c] = "wait"
  /\ End(c, <<"late">>)
  /\ UNCHANGED <<broadcast, results, processes, life>>

-------------------------------------------------------------------------------
(* The workers.                                                            *)

IsShutdown(message) == message = <<"shutdown">>

WorkerTake ==
  /\ worker = "alive"
  /\ busy = Nobody
  /\ broadcast # <<>>
  /\ broadcast' = Tail(broadcast)
  /\ IF IsShutdown(Head(broadcast))
     THEN worker' = "exited" /\ UNCHANGED <<busy, executed>>
     ELSE busy' = Head(broadcast) /\ executed' = executed \cup {Head(broadcast)} /\ UNCHANGED worker
  /\ UNCHANGED <<callers, results, life>>

(* The result, or the DiffusionOutput that carries the error: one reply.   *)
Replies(x) == <<x>>

WorkerReply ==
  /\ busy # Nobody
  /\ results' = results \o Replies(busy)
  /\ busy' = Nobody
  /\ UNCHANGED <<callers, broadcast, worker, executed, life>>

WorkerDie ==
  /\ worker = "alive"
  /\ worker' = "dead"
  /\ busy' = Nobody
  /\ UNCHANGED <<callers, broadcast, results, executed, life>>

-------------------------------------------------------------------------------
(* Shutdown: _closed first, then the finalizer, once, then the attributes. *)

ShutdownBegin(t) ==
  /\ closed' = TRUE
  /\ shutting' = [shutting EXCEPT ![t] = "closed"]

(* The monitor returns if the workers ended because somebody closed.       *)
MonitorWakes ==
  /\ shutting["monitor"] = "no"
  /\ worker # "alive"
  /\ IF closed THEN shutting' = [shutting EXCEPT !["monitor"] = "done"] /\ UNCHANGED <<closed, failed>>
     ELSE failed' = TRUE /\ ShutdownBegin("monitor")
  /\ UNCHANGED <<callers, broadcast, results, processes, gone, finalized>>

CloserBegins ==
  /\ shutting["closer"] = "no"
  /\ ShutdownBegin("closer")
  /\ UNCHANGED <<callers, broadcast, results, processes, failed, gone, finalized>>

(* The second call of the finalizer does nothing and does not wait.        *)
Finalize(t) ==
  /\ shutting[t] = "closed"
  /\ finalized' = TRUE
  /\ shutting' = [shutting EXCEPT ![t] = IF finalized THEN "clear" ELSE "join"]
  /\ broadcast' = IF finalized THEN broadcast ELSE Append(broadcast, <<"shutdown">>)
  /\ UNCHANGED <<callers, results, processes, closed, failed, gone>>

(* A worker that has not exited after 30 s is terminated.                  *)
Join(t) ==
  /\ shutting[t] = "join"
  /\ worker' = IF worker = "alive" THEN "exited" ELSE worker
  /\ busy' = Nobody
  /\ shutting' = [shutting EXCEPT ![t] = "clear"]
  /\ UNCHANGED <<callers, broadcast, results, executed, closed, failed, gone, finalized>>

ClearQueues(t) ==
  /\ shutting[t] = "clear"
  /\ gone' = TRUE
  /\ shutting' = [shutting EXCEPT ![t] = "done"]
  /\ UNCHANGED <<callers, broadcast, results, processes, closed, failed, finalized>>

-------------------------------------------------------------------------------
Advance(c) ==
  \/ Acquire(c) \/ EnsureOpen(c) \/ Enqueue(c) \/ Dequeue(c) \/ PollFailed(c) \/ PollGone(c)

Worker == WorkerTake \/ WorkerReply
Shut(t) == Finalize(t) \/ Join(t) \/ ClearQueues(t)

Next ==
  \/ \E c \in Caller : Begin(c) \/ Advance(c) \/ LockTimeout(c) \/ Deadline(c)
  \/ Worker
  \/ WorkerDie
  \/ MonitorWakes
  \/ CloserBegins
  \/ \E t \in Thread : Shut(t)

Spec == Init /\ [][Next]_vars

(* What keeps running: callers, workers and the threads that shut down.    *)
(* Deadlines and deaths may or may not come.                               *)
Step ==
  \/ \E c \in Caller : Advance(c)
  \/ Worker
  \/ MonitorWakes
  \/ \E t \in Thread : Shut(t)

-------------------------------------------------------------------------------
TypeOK ==
  /\ pc \in [Caller -> {"idle", "lock", "check", "send", "wait"}]
  /\ calls \in [Caller -> 0 .. MaxCalls]
  /\ outcome \in [Call -> {Nobody} \cup Call \cup {<<e>> : e \in Exception}]
  /\ lock \in Caller \cup {"free"}
  /\ broadcast \in Seq(Call \cup {<<"shutdown">>})
  /\ results \in Seq(Call)
  /\ busy \in Call \cup {Nobody}
  /\ worker \in {"alive", "exited", "dead"}
  /\ executed \in SUBSET Call
  /\ closed \in BOOLEAN /\ failed \in BOOLEAN /\ gone \in BOOLEAN /\ finalized \in BOOLEAN
  /\ shutting \in [Thread -> {"no", "closed", "join", "clear", "done"}]

(* What DiffusionEngine.collective_rpc promises: to call a method on the   *)
(* workers and get its result.                                             *)
OwnReply == \A x \in Call : outcome[x] \in Call => outcome[x] = x

(* A call that gave up while its reply was due.                            *)
Late == {x \in Call : outcome[x] = <<"late">>}

(* While every caller holds _rpc_lock, a reply is only ever taken by a     *)
(* call that is not its own after some call gave up on its deadline        *)
(* (multiproc_executor.py:127): worker deaths and racing shutdowns do not  *)
(* misdeliver one.                                                         *)
OwnReplyUnlessLate == EngineLocks /\ Late = {} => OwnReply

(* "Only rank 0 has a result_mq, so we always expect exactly 1 response"   *)
(* (multiproc_executor.py:453): the replies due or waiting to be taken are *)
(* at most one for every call that waits, and one for every call that gave *)
(* up: until a shutdown begins nothing else leaves a spare reply.          *)
Due == Len(results) + (IF busy = Nobody THEN 0 ELSE 1)
         + Cardinality({k \in DOMAIN broadcast : broadcast[k] # <<"shutdown">>})
NoSpareReply == ~closed => Due =< Cardinality({c \in Caller : pc[c] = "wait"}) + Cardinality(Late)

(* The replies of callers that hold the lock.                              *)
ExecutorSound == OwnReplyUnlessLate /\ NoSpareReply

(* What is on its way to the workers, with them, or on its way back.       *)
Travelling == {x \in Call : \/ busy = x
                            \/ \E k \in DOMAIN broadcast : broadcast[k] = x
                            \/ \E k \in DOMAIN results : results[k] = x}
Waiting(x) == pc[x[1]] = "wait" /\ x = Current(x[1])

(* A call not yet ended has no outcome, one not yet sent is nowhere.       *)
CallsMatch ==
  /\ \A c \in Caller : pc[c] # "idle" => calls[c] # 0
  /\ \A c \in Caller, n \in 1 .. MaxCalls :
       /\ n > calls[c] \/ (n = calls[c] /\ pc[c] # "idle") => outcome[<<c, n>>] = Nobody
       /\ n > calls[c] \/ (n = calls[c] /\ pc[c] \in {"lock", "check", "send"})
            => <<c, n>> \notin executed \cup Travelling

(* A call is in one place at most, it is executed when it leaves the       *)
(* broadcast queue, and its caller waits for it or has left.               *)
MessagesMatch ==
  /\ \A j, k \in DOMAIN broadcast : broadcast[j] = broadcast[k] /\ ~IsShutdown(broadcast[j]) => j = k
  /\ \A j, k \in DOMAIN results : results[j] = results[k] => j = k
  /\ \A k \in DOMAIN broadcast : broadcast[k] \notin executed
  /\ \A k \in DOMAIN results : results[k] \in executed /\ results[k] # busy
  /\ busy # Nobody => busy \in executed
  /\ \A x \in Travelling : outcome[x] # Nobody \/ Waiting(x)

(* In the legacy mode the caller that talks to the workers has the lock.   *)
LockHeld == EngineLocks => \A c \in Caller : pc[c] \in {"check", "send", "wait"} <=> lock = c

(* A shutdown is announced before anything of it happens.                  *)
ClosedFirst ==
  /\ failed \/ gone \/ finalized => closed
  /\ \A t \in Thread : shutting[t] # "no" => closed
  /\ \A k \in DOMAIN broadcast : IsShutdown(broadcast[k]) => closed

(* In the legacy mode, until a call gives up, what travels is waited for;  *)
(* what a shutdown leaves behind nobody comes to take.                     *)
OnlyOwnTravels ==
  EngineLocks /\ Late = {} => \A x \in Travelling :
    Waiting(x) \/ (closed /\ \A c \in Caller : pc[c] \notin {"send", "wait"})

(* Inductive.                                                              *)
ExecutorInvariant ==
  /\ TypeOK
  /\ CallsMatch
  /\ MessagesMatch
  /\ LockHeld
  /\ ClosedFirst
  /\ OnlyOwnTravels
  /\ ExecutorSound

(* Every call ends: with its reply, a dead worker, a passed deadline or a  *)
(* shutdown, whichever thread runs it and however far it got               *)
(* (multiproc_executor.py:129, :494).                                      *)
ExecutorWaits(c) == pc[c] # "idle"
ExecutorOver(c) == pc[c] = "idle"

(* How the call x sees the outcome o.                                      *)
AnswerTo(x, o) ==
  CASE o = Nobody -> "none"
    [] o = x -> "own"
    [] o \in Call \ {x} -> "foreign"
    [] o = <<"late">> -> "late"
    [] OTHER -> "failed"

Invoked == {x \in Call : x[2] =< calls[x[1]]}
Answers == [x \in Call |-> AnswerTo(x, outcome[x])]

(* With one caller at a time the executor is the service: a call is        *)
(* executed at most once, ends once, and gets its own result or an         *)
(* exception, unless a call gave up before.                                *)
Service == INSTANCE RpcService WITH invoked <- Invoked, answer <- Answers
ImplementsService == Service!Spec

===============================================================================
