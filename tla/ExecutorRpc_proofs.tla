-------------------------- MODULE ExecutorRpc_proofs --------------------------
(***************************************************************************)
(* Proofs about ExecutorRpc: replies are never spare and, while every      *)
(* caller holds the lock and none has given up, never another call's; and  *)
(* the executor implements RpcService.                                     *)
(***************************************************************************)
EXTENDS ExecutorRpc, SequenceTheorems, FiniteSetTheorems, TLAPS

Ended == {Nobody} \cup Call \cup {<<e>> : e \in Exception}
Message == Call \cup {<<"shutdown">>}

(* A call is a pair, so it is none of the marks.                           *)
LEMMA CallsAreNoMarks ==
  /\ \A x \in Call : x # Nobody /\ ~IsShutdown(x) /\ (\A e : x # <<e>>)
  /\ \A e : <<e>> # Nobody
  /\ \A x \in Call : x[1] \in Caller /\ x[2] \in 1 .. MaxCalls /\ x = <<x[1], x[2]>>
  /\ \A c \in Caller, n \in 1 .. MaxCalls : <<c, n>> \in Call
<1>1. ASSUME NEW x \in Call
      PROVE  x[1] \in Caller /\ x[2] \in 1 .. MaxCalls /\ x = <<x[1], x[2]>>
  BY DEF Call
<1>2. ASSUME NEW a, NEW b, NEW e
      PROVE  <<a, b>> # <<>> /\ <<a, b>> # <<e>> /\ <<e>> # <<>>
  OBVIOUS
<1>3. ASSUME NEW x \in Call PROVE x # Nobody /\ ~IsShutdown(x) /\ (\A e : x # <<e>>)
  BY <1>1, <1>2 DEF Nobody, IsShutdown
<1>4. ASSUME NEW e PROVE <<e>> # Nobody
  BY DEF Nobody
<1>5. ASSUME NEW c \in Caller, NEW n \in 1 .. MaxCalls PROVE <<c, n>> \in Call
  BY DEF Call
<1> QED BY <1>1, <1>3, <1>4, <1>5

(* The call a busy caller is in.                                           *)
LEMMA CurrentIsCall ==
  ASSUME ExecutorAssumption, TypeOK, CallsMatch, NEW c \in Caller, pc[c] # "idle"
  PROVE  /\ Current(c) \in Call
         /\ Current(c)[1] = c
         /\ Current(c) = <<c, calls[c]>>
         /\ calls[c] \in 1 .. MaxCalls
         /\ outcome[Current(c)] = Nobody
<1>1. calls[c] \in 0 .. MaxCalls
  BY DEF TypeOK
<1>2. calls[c] # 0
  BY DEF CallsMatch
<1> QED BY <1>1, <1>2, CallsAreNoMarks DEF CallsMatch, ExecutorAssumption, Current

(* What a queue without its first message holds.                           *)
LEMMA TailHolds ==
  ASSUME NEW S, NEW s \in Seq(S), s # <<>>
  PROVE  /\ Head(s) \in S /\ Tail(s) \in Seq(S)
         /\ 1 \in DOMAIN s /\ Head(s) = s[1] /\ Len(Tail(s)) = Len(s) - 1
         /\ \A k \in DOMAIN Tail(s) : k \in Nat /\ k # 0 /\ k + 1 \in DOMAIN s /\ Tail(s)[k] = s[k + 1]
<1>1. Len(s) \in Nat /\ Len(s) # 0 /\ DOMAIN s = 1 .. Len(s) /\ Head(s) = s[1]
  BY EmptySeq, LenProperties
<1>2. /\ Head(s) \in S /\ Tail(s) \in Seq(S) /\ Len(Tail(s)) = Len(s) - 1
      /\ \A k \in 1 .. Len(Tail(s)) : Tail(s)[k] = s[k + 1]
  BY HeadTailProperties
<1>3. DOMAIN Tail(s) = 1 .. Len(Tail(s))
  BY <1>2, LenProperties
<1> QED BY <1>1, <1>2, <1>3

(* What a queue with one message more holds.                               *)
LEMMA AppendHolds ==
  ASSUME NEW S, NEW s \in Seq(S), NEW e \in S
  PROVE  /\ Append(s, e) \in Seq(S) /\ Len(Append(s, e)) = Len(s) + 1
         /\ \A k \in DOMAIN Append(s, e) :
              \/ k \in DOMAIN s /\ Append(s, e)[k] = s[k]
              \/ k = Len(s) + 1 /\ k \notin DOMAIN s /\ Append(s, e)[k] = e
<1>1. Len(s) \in Nat /\ DOMAIN s = 1 .. Len(s)
  BY LenProperties
<1>2. DOMAIN Append(s, e) = 1 .. Len(Append(s, e))
  BY AppendProperties, LenProperties
<1> QED BY <1>1, <1>2, AppendProperties

(* The result queue after a reply.                                         *)
LEMMA ReplyAppends ==
  ASSUME TypeOK, WorkerReply
  PROVE  busy \in Call /\ results' = Append(results, busy)
<1>1. busy \in Call /\ results \in Seq(Call)
  BY DEF TypeOK, WorkerReply
<1> QED BY <1>1, AppendIsConcat DEF WorkerReply, Replies

(* Every variable keeps its type.                                          *)
LEMMA StepType ==
  ASSUME ExecutorAssumption, TypeOK, CallsMatch, [Next]_vars
  PROVE  TypeOK'
<1> USE DEF Message, Ended
<1>1. ASSUME NEW c \in Caller, NEW o \in Ended, End(c, o)
      PROVE  /\ pc' \in [Caller -> {"idle", "lock", "check", "send", "wait"}]
             /\ calls' \in [Caller -> 0 .. MaxCalls]
             /\ outcome' \in [Call -> Ended]
             /\ lock' \in Caller \cup {"free"}
  BY <1>1 DEF TypeOK, End, Released
<1>2. \A e \in Exception : <<e>> \in Ended
  OBVIOUS
<1>3. ASSUME NEW c \in Caller, Begin(c) PROVE TypeOK'
  BY <1>3 DEF Begin, TypeOK, ExecutorAssumption, processes, life
<1>4. ASSUME NEW c \in Caller, Acquire(c) PROVE TypeOK'
  BY <1>4 DEF Acquire, TypeOK, processes, life
<1>5. ASSUME NEW c \in Caller, EnsureOpen(c) PROVE TypeOK'
  <2>1. CASE closed \/ gone
    BY <1>5, <2>1, <1>1, <1>2 DEF EnsureOpen, TypeOK, processes, life, Exception
  <2>2. CASE ~(closed \/ gone)
    BY <1>5, <2>2 DEF EnsureOpen, TypeOK, processes, life
  <2> QED BY <2>1, <2>2
<1>6. ASSUME NEW c \in Caller, Enqueue(c) PROVE TypeOK'
  <2>1. CASE gone
    BY <1>6, <2>1, <1>1, <1>2 DEF Enqueue, TypeOK, processes, life, Exception
  <2>2. CASE ~gone
    <3>1. Current(c) \in Message
      BY <1>6, CurrentIsCall DEF Enqueue
    <3>2. broadcast' \in Seq(Message)
      <4>1. broadcast \in Seq(Message) /\ broadcast' = Append(broadcast, Current(c))
        BY <1>6, <2>2 DEF Enqueue, TypeOK
      <4> HIDE DEF Message
      <4> QED BY <3>1, <4>1, AppendHolds
    <3> QED BY <1>6, <2>2, <3>2 DEF Enqueue, TypeOK, processes, life
  <2> QED BY <2>1, <2>2
<1>7. ASSUME NEW c \in Caller, Dequeue(c) PROVE TypeOK'
  <2>1. Head(results) \in Call /\ Tail(results) \in Seq(Call)
    BY <1>7, TailHolds DEF Dequeue, TypeOK
  <2> QED BY <1>7, <2>1, <1>1 DEF Dequeue, TypeOK, processes, life
<1>8. ASSUME NEW c \in Caller, PollFailed(c) \/ PollGone(c) \/ LockTimeout(c) \/ Deadline(c) PROVE TypeOK'
  <2>1. PICK o \in Ended : End(c, o)
    BY <1>8, <1>2 DEF PollFailed, PollGone, LockTimeout, Deadline, Exception
  <2> QED BY <1>8, <2>1, <1>1 DEF PollFailed, PollGone, LockTimeout, Deadline, TypeOK, processes, life
<1>9. CASE WorkerTake
  <2>1. Head(broadcast) \in Message /\ Tail(broadcast) \in Seq(Message)
    BY <1>9, TailHolds DEF WorkerTake, TypeOK
  <2>2. CASE IsShutdown(Head(broadcast))
    BY <1>9, <2>1, <2>2 DEF WorkerTake, TypeOK, callers, life
  <2>3. CASE ~IsShutdown(Head(broadcast))
    <3>1. Head(broadcast) \in Call
      BY <2>1, <2>3 DEF IsShutdown
    <3> QED BY <1>9, <2>1, <2>3, <3>1 DEF WorkerTake, TypeOK, callers, life
  <2> QED BY <2>2, <2>3
<1>10. CASE WorkerReply
  <2>1. results' \in Seq(Call)
    <3>1. results \in Seq(Call)
      BY DEF TypeOK
    <3> QED BY <1>10, <3>1, ReplyAppends, AppendHolds
  <2> QED BY <1>10, <2>1 DEF WorkerReply, TypeOK, callers, life
<1>11. CASE WorkerDie
  BY <1>11 DEF WorkerDie, TypeOK, callers, life
<1>12. CASE MonitorWakes
  BY <1>12 DEF MonitorWakes, ShutdownBegin, TypeOK, callers, processes, Thread
<1>13. CASE CloserBegins
  BY <1>13 DEF CloserBegins, ShutdownBegin, TypeOK, callers, processes, Thread
<1>14. ASSUME NEW t \in Thread, Finalize(t) PROVE TypeOK'
  <2>1. broadcast' \in Seq(Message)
    BY <1>14, AppendHolds DEF Finalize, TypeOK
  <2> QED BY <1>14, <2>1 DEF Finalize, TypeOK, callers, processes
<1>15. ASSUME NEW t \in Thread, Join(t) PROVE TypeOK'
  BY <1>15 DEF Join, TypeOK, callers
<1>16. ASSUME NEW t \in Thread, ClearQueues(t) PROVE TypeOK'
  BY <1>16 DEF ClearQueues, TypeOK, callers, processes
<1>17. CASE UNCHANGED vars
  BY <1>17 DEF TypeOK, vars, callers, processes, life
<1> QED
  BY <1>3, <1>4, <1>5, <1>6, <1>7, <1>8, <1>9, <1>10, <1>11, <1>12, <1>13, <1>14, <1>15, <1>16, <1>17
  DEF Next, Advance, Worker, Shut

(* A shutdown stays announced before anything of it happens.               *)
LEMMA StepClosedFirst ==
  ASSUME ExecutorAssumption, TypeOK, CallsMatch, ClosedFirst, [Next]_vars
  PROVE  ClosedFirst' /\ (closed => closed')
<1>1. CASE UNCHANGED <<broadcast, life>>
  BY <1>1 DEF ClosedFirst, life
<1>2. ASSUME NEW c \in Caller, Enqueue(c) PROVE ClosedFirst' /\ (closed => closed')
  <2>1. CASE gone
    BY <1>1, <1>2, <2>1 DEF Enqueue
  <2>2. CASE ~gone
    <3>1. Current(c) \in Message /\ ~IsShutdown(Current(c))
      BY <1>2, CurrentIsCall, CallsAreNoMarks DEF Enqueue, Message
    <3>2. \A k \in DOMAIN broadcast' : \/ k \in DOMAIN broadcast /\ broadcast'[k] = broadcast[k]
                                       \/ broadcast'[k] = Current(c)
      BY <1>2, <2>2, <3>1, AppendHolds DEF Enqueue, TypeOK, Message
    <3> QED BY <1>2, <3>1, <3>2 DEF Enqueue, ClosedFirst, life
  <2> QED BY <2>1, <2>2
<1>3. CASE WorkerTake
  <2>1. \A k \in DOMAIN broadcast' : k + 1 \in DOMAIN broadcast /\ broadcast'[k] = broadcast[k + 1]
    BY <1>3, TailHolds DEF WorkerTake, TypeOK
  <2> QED BY <1>3, <2>1 DEF WorkerTake, ClosedFirst, life
<1>4. CASE MonitorWakes
  BY <1>4 DEF MonitorWakes, ShutdownBegin, ClosedFirst, TypeOK
<1>5. CASE CloserBegins
  BY <1>5 DEF CloserBegins, ShutdownBegin, ClosedFirst, TypeOK
<1>6. ASSUME NEW t \in Thread, Finalize(t) PROVE ClosedFirst' /\ (closed => closed')
  BY <1>6 DEF Finalize, ClosedFirst, TypeOK
<1>7. ASSUME NEW t \in Thread, Join(t) PROVE ClosedFirst' /\ (closed => closed')
  BY <1>7 DEF Join, ClosedFirst, TypeOK
<1>8. ASSUME NEW t \in Thread, ClearQueues(t) PROVE ClosedFirst' /\ (closed => closed')
  BY <1>8 DEF ClearQueues, ClosedFirst, TypeOK
<1>9. ASSUME NEW c \in Caller,
             Begin(c) \/ Acquire(c) \/ EnsureOpen(c) \/ Dequeue(c) \/ PollFailed(c) \/ PollGone(c)
               \/ LockTimeout(c) \/ Deadline(c)
      PROVE  UNCHANGED <<broadcast, life>>
  BY <1>9 DEF Begin, Acquire, EnsureOpen, Dequeue, PollFailed, PollGone, LockTimeout, Deadline
<1>10. WorkerReply \/ WorkerDie \/ UNCHANGED vars => UNCHANGED <<broadcast, life>>
  BY DEF WorkerReply, WorkerDie, vars
<1> QED
  BY <1>1, <1>2, <1>3, <1>4, <1>5, <1>6, <1>7, <1>8, <1>9, <1>10 DEF Next, Advance, Worker, Shut

(* In the legacy mode exactly the caller past the lock holds it.           *)
LEMMA StepLockHeld ==
  ASSUME ExecutorAssumption, TypeOK, LockHeld, [Next]_vars
  PROVE  LockHeld'
<1> SUFFICES ASSUME EngineLocks PROVE LockHeld'
  BY DEF LockHeld
<1>1. ASSUME NEW c \in Caller, NEW o, End(c, o), pc[c] # "idle" PROVE LockHeld'
  BY <1>1 DEF LockHeld, End, Released, TypeOK, ExecutorAssumption
<1>2. ASSUME NEW c \in Caller, Begin(c) PROVE LockHeld'
  BY <1>2 DEF Begin, LockHeld, Locks, TypeOK
<1>3. ASSUME NEW c \in Caller, Acquire(c) PROVE LockHeld'
  BY <1>3 DEF Acquire, LockFree, LockHeld, TypeOK, ExecutorAssumption
<1>4. ASSUME NEW c \in Caller, EnsureOpen(c) PROVE LockHeld'
  <2>1. CASE closed \/ gone
    BY <1>1, <1>4, <2>1 DEF EnsureOpen
  <2>2. CASE ~(closed \/ gone)
    BY <1>4, <2>2 DEF EnsureOpen, LockHeld, TypeOK
  <2> QED BY <2>1, <2>2
<1>5. ASSUME NEW c \in Caller, Enqueue(c) PROVE LockHeld'
  <2>1. CASE gone
    BY <1>1, <1>5, <2>1 DEF Enqueue
  <2>2. CASE ~gone
    BY <1>5, <2>2 DEF Enqueue, LockHeld, TypeOK
  <2> QED BY <2>1, <2>2
<1>6. ASSUME NEW c \in Caller, Dequeue(c) \/ PollFailed(c) \/ PollGone(c) \/ LockTimeout(c) \/ Deadline(c)
      PROVE  LockHeld'
  BY <1>1, <1>6 DEF Dequeue, PollFailed, PollGone, LockTimeout, Deadline
<1>7. CASE UNCHANGED callers
  BY <1>7 DEF callers, LockHeld
<1>8. Worker \/ WorkerDie \/ MonitorWakes \/ CloserBegins \/ (\E t \in Thread : Shut(t)) \/ UNCHANGED vars
        => UNCHANGED callers
  BY DEF Worker, WorkerTake, WorkerReply, WorkerDie, MonitorWakes, CloserBegins, Shut, Finalize, Join,
         ClearQueues, vars
<1> QED BY <1>2, <1>3, <1>4, <1>5, <1>6, <1>7, <1>8 DEF Next, Advance

(* A caller on its way to a reply.                                         *)
Moves(c) ==
  /\ pc[c] \in {"lock", "check", "send"}
  /\ \E p \in {"check", "send", "wait"} : pc' = [pc EXCEPT ![c] = p]
  /\ UNCHANGED <<calls, outcome>>

(* What a step does to the callers: nothing, or one begins, moves or ends. *)
LEMMA CallerStep ==
  ASSUME ExecutorAssumption, TypeOK, CallsMatch, [Next]_vars
  PROVE  \/ UNCHANGED <<pc, calls, outcome>>
         \/ \E c \in Caller : Begin(c)
         \/ \E c \in Caller : Moves(c)
         \/ \E c \in Caller : \E o \in Ended \ {Nobody} : pc[c] # "idle" /\ End(c, o)
<1>1. \A e \in Exception : <<e>> \in Ended \ {Nobody}
  BY CallsAreNoMarks DEF Ended
<1>2. ASSUME NEW c \in Caller, EnsureOpen(c) \/ Enqueue(c) \/ Acquire(c)
      PROVE  Moves(c) \/ \E o \in Ended \ {Nobody} : pc[c] # "idle" /\ End(c, o)
  <2>1. <<"closed">> \in Ended \ {Nobody} /\ <<"broken">> \in Ended \ {Nobody}
    BY <1>1 DEF Exception
  <2>2. CASE EnsureOpen(c)
    BY <2>1, <2>2 DEF EnsureOpen, Moves
  <2>3. CASE Enqueue(c)
    BY <2>1, <2>3 DEF Enqueue, Moves
  <2>4. CASE Acquire(c)
    BY <2>4 DEF Acquire, Moves
  <2> QED BY <1>2, <2>2, <2>3, <2>4
<1>3. ASSUME NEW c \in Caller, PollFailed(c) \/ PollGone(c) \/ LockTimeout(c) \/ Deadline(c)
      PROVE  \E o \in Ended \ {Nobody} : pc[c] # "idle" /\ End(c, o)
  <2>1. /\ <<"dead">> \in Ended \ {Nobody} /\ <<"broken">> \in Ended \ {Nobody}
        /\ <<"timeout">> \in Ended \ {Nobody} /\ <<"late">> \in Ended \ {Nobody}
    BY <1>1 DEF Exception
  <2> QED BY <1>3, <2>1 DEF PollFailed, PollGone, LockTimeout, Deadline
<1>4. ASSUME NEW c \in Caller, Dequeue(c)
      PROVE  \E o \in Ended \ {Nobody} : pc[c] # "idle" /\ End(c, o)
  <2>1. Head(results) \in Ended \ {Nobody}
    BY <1>4, TailHolds, CallsAreNoMarks DEF Dequeue, TypeOK, Ended
  <2> QED BY <1>4, <2>1 DEF Dequeue
<1>5. Worker \/ WorkerDie \/ MonitorWakes \/ CloserBegins \/ (\E t \in Thread : Shut(t)) \/ UNCHANGED vars
        => UNCHANGED <<pc, calls, outcome>>
  BY DEF Worker, WorkerTake, WorkerReply, WorkerDie, MonitorWakes, CloserBegins, Shut, Finalize, Join,
         ClearQueues, vars, callers
<1> QED BY <1>2, <1>3, <1>4, <1>5 DEF Next, Advance

(* Nothing travels or is executed that did not before, but what a caller   *)
(* sends and what the workers take.                                        *)
LEMMA SentStep ==
  ASSUME ExecutorAssumption, TypeOK, CallsMatch, [Next]_vars
  PROVE  /\ \A x \in Travelling' : \/ x \in Travelling
                                   \/ \E c \in Caller : Enqueue(c) /\ ~gone /\ x = Current(c)
         /\ executed \subseteq executed'
         /\ executed' \subseteq executed \cup Travelling
<1> DEFINE Goal == /\ \A x \in Travelling' : \/ x \in Travelling
                                             \/ \E c \in Caller : Enqueue(c) /\ ~gone /\ x = Current(c)
                   /\ executed \subseteq executed'
                   /\ executed' \subseteq executed \cup Travelling
<1>0. broadcast \in Seq(Message) /\ results \in Seq(Call)
  BY DEF TypeOK, Message
<1>1. CASE UNCHANGED <<broadcast, results, busy, executed>>
  BY <1>1 DEF Travelling
<1>2. ASSUME NEW c \in Caller, Enqueue(c) PROVE Goal
  <2>1. CASE gone
    BY <1>1, <1>2, <2>1 DEF Enqueue, processes
  <2>2. CASE ~gone
    <3>1. Current(c) \in Message
      BY <1>2, CurrentIsCall DEF Enqueue, Message
    <3>2. \A k \in DOMAIN broadcast' : \/ k \in DOMAIN broadcast /\ broadcast'[k] = broadcast[k]
                                       \/ broadcast'[k] = Current(c)
      BY <1>0, <1>2, <2>2, <3>1, AppendHolds DEF Enqueue
    <3> QED BY <1>2, <2>2, <3>2 DEF Enqueue, Travelling, processes
  <2> QED BY <2>1, <2>2
<1>3. ASSUME NEW c \in Caller, Dequeue(c) PROVE Goal
  <2>1. \A k \in DOMAIN results' : k + 1 \in DOMAIN results /\ results'[k] = results[k + 1]
    BY <1>0, <1>3, TailHolds DEF Dequeue
  <2> QED BY <1>3, <2>1 DEF Dequeue, Travelling, processes
<1>4. CASE WorkerTake
  <2>1. \A k \in DOMAIN broadcast' : k + 1 \in DOMAIN broadcast /\ broadcast'[k] = broadcast[k + 1]
    BY <1>0, <1>4, TailHolds DEF WorkerTake
  <2>2. 1 \in DOMAIN broadcast /\ Head(broadcast) = broadcast[1] /\ Head(broadcast) \in Message
    BY <1>0, <1>4, TailHolds DEF WorkerTake
  <2>3. ~IsShutdown(Head(broadcast)) => Head(broadcast) \in Call
    BY <2>2 DEF Message, IsShutdown
  <2> QED BY <1>4, <2>1, <2>2, <2>3 DEF WorkerTake, Travelling
<1>5. CASE WorkerReply
  <2>1. \A k \in DOMAIN results' : \/ k \in DOMAIN results /\ results'[k] = results[k]
                                   \/ results'[k] = busy
    BY <1>0, <1>5, ReplyAppends, AppendHolds
  <2> QED BY <1>5, <2>1, CallsAreNoMarks DEF WorkerReply, Travelling
<1>6. CASE WorkerDie \/ \E t \in Thread : Join(t)
  BY <1>6, CallsAreNoMarks DEF WorkerDie, Join, Travelling
<1>7. ASSUME NEW t \in Thread, Finalize(t) PROVE Goal
  <2>1. \A k \in DOMAIN broadcast' : \/ k \in DOMAIN broadcast /\ broadcast'[k] = broadcast[k]
                                     \/ broadcast'[k] = <<"shutdown">>
    BY <1>0, <1>7, AppendHolds DEF Finalize, Message
  <2> QED BY <1>7, <2>1, CallsAreNoMarks DEF Finalize, Travelling, processes
<1>8. ASSUME NEW c \in Caller,
             Begin(c) \/ Acquire(c) \/ EnsureOpen(c) \/ PollFailed(c) \/ PollGone(c)
               \/ LockTimeout(c) \/ Deadline(c)
      PROVE  UNCHANGED <<broadcast, results, busy, executed>>
  BY <1>8 DEF Begin, Acquire, EnsureOpen, PollFailed, PollGone, LockTimeout, Deadline, processes
<1>9. MonitorWakes \/ CloserBegins \/ (\E t \in Thread : ClearQueues(t)) \/ UNCHANGED vars
        => UNCHANGED <<broadcast, results, busy, executed>>
  BY DEF MonitorWakes, CloserBegins, ClearQueues, vars, processes
<1> QED
  BY <1>1, <1>2, <1>3, <1>4, <1>5, <1>6, <1>7, <1>8, <1>9 DEF Next, Advance, Worker, Shut

(* A call that ended stays as it ended.                                    *)
LEMMA OutcomesStay ==
  ASSUME ExecutorAssumption, TypeOK, CallsMatch, [Next]_vars
  PROVE  /\ \A x \in Call : outcome[x] # Nobody => outcome'[x] = outcome[x]
         /\ Late \subseteq Late'
<1>1. ASSUME NEW c \in Caller, NEW o, pc[c] # "idle", End(c, o), NEW x \in Call, outcome[x] # Nobody
      PROVE  outcome'[x] = outcome[x]
  BY <1>1, CurrentIsCall DEF End, TypeOK
<1>2. \A x \in Call : outcome[x] # Nobody => outcome'[x] = outcome[x]
  BY <1>1, CallerStep DEF Begin, Moves
<1> QED BY <1>2, CallsAreNoMarks DEF Late

(* What was not sent is nowhere, what has not ended has no outcome.        *)
LEMMA StepCallsMatch ==
  ASSUME ExecutorAssumption, TypeOK, TypeOK', CallsMatch, [Next]_vars
  PROVE  CallsMatch'
<1>1. ASSUME NEW c \in Caller PROVE pc'[c] # "idle" => calls'[c] # 0
  <2>1. ASSUME NEW d \in Caller, Begin(d) PROVE pc'[c] # "idle" => calls'[c] # 0
    BY <2>1 DEF Begin, CallsMatch, TypeOK, ExecutorAssumption
  <2>2. ASSUME NEW d \in Caller, Moves(d) PROVE pc'[c] # "idle" => calls'[c] # 0
    BY <2>2 DEF Moves, CallsMatch, TypeOK
  <2>3. ASSUME NEW d \in Caller, NEW o, End(d, o) PROVE pc'[c] # "idle" => calls'[c] # 0
    BY <2>3 DEF End, CallsMatch, TypeOK
  <2> QED BY <2>1, <2>2, <2>3, CallerStep DEF CallsMatch
<1>2. ASSUME NEW c \in Caller, NEW n \in 1 .. MaxCalls, n > calls'[c] \/ (n = calls'[c] /\ pc'[c] # "idle")
      PROVE  outcome'[<<c, n>>] = Nobody
  <2>1. ASSUME NEW d \in Caller, Begin(d) PROVE outcome'[<<c, n>>] = Nobody
    <3>1. n > calls[c] \/ (n = calls[c] /\ pc[c] # "idle")
      BY <1>2, <2>1 DEF Begin, TypeOK, ExecutorAssumption
    <3> QED BY <2>1, <3>1 DEF Begin, CallsMatch
  <2>2. ASSUME NEW d \in Caller, Moves(d) PROVE outcome'[<<c, n>>] = Nobody
    BY <1>2, <2>2 DEF Moves, CallsMatch, TypeOK
  <2>3. ASSUME NEW d \in Caller, NEW o, pc[d] # "idle", End(d, o) PROVE outcome'[<<c, n>>] = Nobody
    <3>1. n > calls[c] \/ (n = calls[c] /\ pc[c] # "idle")
      BY <1>2, <2>3 DEF End, TypeOK
    <3>2. <<c, n>> # Current(d)
      BY <1>2, <2>3, CurrentIsCall DEF End, TypeOK, Current
    <3>3. <<c, n>> \in Call
      BY CallsAreNoMarks
    <3> QED BY <2>3, <3>1, <3>2, <3>3 DEF End, CallsMatch, TypeOK
  <2> QED BY <1>2, <2>1, <2>2, <2>3, CallerStep DEF CallsMatch
<1>3. ASSUME NEW c \in Caller, NEW n \in 1 .. MaxCalls,
             n > calls'[c] \/ (n = calls'[c] /\ pc'[c] \in {"lock", "check", "send"})
      PROVE  <<c, n>> \notin executed' \cup Travelling'
  <2> DEFINE Unsent == n > calls[c] \/ (n = calls[c] /\ pc[c] \in {"lock", "check", "send"})
  <2>1. Unsent
    <3>1. ASSUME NEW d \in Caller, Begin(d) PROVE Unsent
      BY <1>3, <3>1 DEF Begin, TypeOK, ExecutorAssumption
    <3>2. ASSUME NEW d \in Caller, Moves(d) PROVE Unsent
      BY <1>3, <3>2 DEF Moves, TypeOK
    <3>3. ASSUME NEW d \in Caller, NEW o, End(d, o) PROVE Unsent
      BY <1>3, <3>3 DEF End, TypeOK
    <3> QED BY <1>3, <3>1, <3>2, <3>3, CallerStep
  <2>2. <<c, n>> \notin executed \cup Travelling
    BY <2>1 DEF CallsMatch
  <2>3. ASSUME NEW d \in Caller, Enqueue(d), ~gone, <<c, n>> = Current(d) PROVE FALSE
    <3>1. d = c /\ n = calls[c]
      BY <2>3 DEF Current
    <3> QED BY <1>3, <2>3, <3>1 DEF Enqueue, TypeOK
  <2> QED BY <2>2, <2>3, SentStep
<1> QED BY <1>1, <1>2, <1>3 DEF CallsMatch

(* A call is in one place at most, and leaves the broadcast queue only to  *)
(* be executed.                                                            *)
OnePlace ==
  /\ \A j, k \in DOMAIN broadcast : broadcast[j] = broadcast[k] /\ ~IsShutdown(broadcast[j]) => j = k
  /\ \A j, k \in DOMAIN results : results[j] = results[k] => j = k
  /\ \A k \in DOMAIN broadcast : broadcast[k] \notin executed
  /\ \A k \in DOMAIN results : results[k] \in executed /\ results[k] # busy
  /\ busy # Nobody => busy \in executed

LEMMA StepOnePlace ==
  ASSUME ExecutorAssumption, TypeOK, CallsMatch, OnePlace, [Next]_vars
  PROVE  OnePlace'
<1>0. broadcast \in Seq(Message) /\ results \in Seq(Call) /\ executed \subseteq Call
  BY DEF TypeOK, Message
<1>1. CASE UNCHANGED <<broadcast, results, busy, executed>>
  BY <1>1 DEF OnePlace
<1>2. ASSUME NEW c \in Caller, Enqueue(c) PROVE OnePlace'
  <2>1. CASE gone
    BY <1>1, <1>2, <2>1 DEF Enqueue, processes
  <2>2. CASE ~gone
    <3>1. Current(c) \in Message
      BY <1>2, CurrentIsCall DEF Enqueue, Message
    <3>2. \A k \in DOMAIN broadcast' :
            \/ k \in DOMAIN broadcast /\ broadcast'[k] = broadcast[k]
            \/ k = Len(broadcast) + 1 /\ k \notin DOMAIN broadcast /\ broadcast'[k] = Current(c)
      BY <1>0, <1>2, <2>2, <3>1, AppendHolds DEF Enqueue
    <3>3. Current(c) \notin executed \cup Travelling /\ Current(c) \in Call
      BY <1>2, CurrentIsCall DEF Enqueue, CallsMatch
    <3>4. \A k \in DOMAIN broadcast : broadcast[k] # Current(c)
      BY <3>3 DEF Travelling
    <3> QED BY <1>2, <2>2, <3>2, <3>3, <3>4 DEF Enqueue, OnePlace, processes
  <2> QED BY <2>1, <2>2
<1>3. ASSUME NEW c \in Caller, Dequeue(c) PROVE OnePlace'
  <2>1. \A k \in DOMAIN results' : k \in Nat /\ k + 1 \in DOMAIN results /\ results'[k] = results[k + 1]
    BY <1>0, <1>3, TailHolds DEF Dequeue
  <2>2. \A j, k \in Nat : j + 1 = k + 1 => j = k
    OBVIOUS
  <2> QED BY <1>3, <2>1, <2>2 DEF Dequeue, OnePlace, processes
<1>4. CASE WorkerTake
  <2>1. \A k \in DOMAIN broadcast' :
          k \in Nat /\ k # 0 /\ k + 1 \in DOMAIN broadcast /\ broadcast'[k] = broadcast[k + 1]
    BY <1>0, <1>4, TailHolds DEF WorkerTake
  <2>2. 1 \in DOMAIN broadcast /\ Head(broadcast) = broadcast[1]
    BY <1>0, <1>4, TailHolds DEF WorkerTake
  <2>3. \A j, k \in Nat : (j + 1 = k + 1 => j = k) /\ (k # 0 => k + 1 # 1)
    OBVIOUS
  <2>4. \A j, k \in DOMAIN broadcast' :
          broadcast'[j] = broadcast'[k] /\ ~IsShutdown(broadcast'[j]) => j = k
    BY <2>1, <2>3 DEF OnePlace
  <2>5. CASE IsShutdown(Head(broadcast))
    BY <1>4, <2>1, <2>4, <2>5 DEF WorkerTake, OnePlace
  <2>6. CASE ~IsShutdown(Head(broadcast))
    <3>1. \A k \in DOMAIN broadcast' : broadcast'[k] # Head(broadcast) /\ broadcast'[k] \notin executed
      BY <2>1, <2>2, <2>3, <2>6 DEF OnePlace
    <3>2. Head(broadcast) \notin executed
      BY <2>2 DEF OnePlace
    <3> QED BY <1>4, <2>4, <2>6, <3>1, <3>2 DEF WorkerTake, OnePlace
  <2> QED BY <2>5, <2>6
<1>5. CASE WorkerReply
  <2>1. \A k \in DOMAIN results' : \/ k \in DOMAIN results /\ results'[k] = results[k]
                                   \/ k = Len(results) + 1 /\ k \notin DOMAIN results /\ results'[k] = busy
    BY <1>0, <1>5, ReplyAppends, AppendHolds
  <2>2. busy \in executed /\ busy # Nobody
    BY <1>5 DEF WorkerReply, OnePlace
  <2>3. \A x \in executed : x # Nobody
    BY <1>0, CallsAreNoMarks
  <2> QED BY <1>5, <2>1, <2>2, <2>3 DEF WorkerReply, OnePlace
<1>6. CASE WorkerDie \/ \E t \in Thread : Join(t)
  <2>1. \A x \in executed : x # Nobody
    BY <1>0, CallsAreNoMarks
  <2> QED BY <1>6, <2>1 DEF WorkerDie, Join, OnePlace
<1>7. ASSUME NEW t \in Thread, Finalize(t) PROVE OnePlace'
  <2>1. \A k \in DOMAIN broadcast' :
          \/ k \in DOMAIN broadcast /\ broadcast'[k] = broadcast[k]
          \/ broadcast'[k] = <<"shutdown">>
    BY <1>0, <1>7, AppendHolds DEF Finalize, Message
  <2>2. <<"shutdown">> \notin executed
    BY <1>0, CallsAreNoMarks
  <2> QED BY <1>7, <2>1, <2>2 DEF Finalize, OnePlace, IsShutdown, processes
<1>8. ASSUME NEW c \in Caller,
             Begin(c) \/ Acquire(c) \/ EnsureOpen(c) \/ PollFailed(c) \/ PollGone(c)
               \/ LockTimeout(c) \/ Deadline(c)
      PROVE  UNCHANGED <<broadcast, results, busy, executed>>
  BY <1>8 DEF Begin, Acquire, EnsureOpen, PollFailed, PollGone, LockTimeout, Deadline, processes
<1>9. MonitorWakes \/ CloserBegins \/ (\E t \in Thread : ClearQueues(t)) \/ UNCHANGED vars
        => UNCHANGED <<broadcast, results, busy, executed>>
  BY DEF MonitorWakes, CloserBegins, ClearQueues, vars, processes
<1> QED
  BY <1>1, <1>2, <1>3, <1>4, <1>5, <1>6, <1>7, <1>8, <1>9 DEF Next, Advance, Worker, Shut

(* What a caller took has left the queues.                                 *)
LEMMA TakenIsGone ==
  ASSUME TypeOK, OnePlace, NEW c \in Caller, Dequeue(c)
  PROVE  Head(results) \in Travelling /\ Head(results) \notin Travelling'
<1>0. results \in Seq(Call)
  BY DEF TypeOK
<1>1. \A k \in DOMAIN results' :
        k \in Nat /\ k # 0 /\ k + 1 \in DOMAIN results /\ results'[k] = results[k + 1]
  BY <1>0, TailHolds DEF Dequeue
<1>2. 1 \in DOMAIN results /\ Head(results) = results[1] /\ Head(results) \in Call
  BY <1>0, TailHolds DEF Dequeue
<1>3. \A k \in Nat : k # 0 => k + 1 # 1
  OBVIOUS
<1>4. \A k \in DOMAIN results' : results'[k] # Head(results)
  BY <1>1, <1>2, <1>3 DEF OnePlace
<1>5. Head(results) \in executed /\ Head(results) # busy
  BY <1>2 DEF OnePlace
<1> QED BY <1>2, <1>4, <1>5 DEF Dequeue, OnePlace, Travelling, processes

(* Whoever waited and does not any more has an outcome.                    *)
LEMMA WaitingEnds ==
  ASSUME ExecutorAssumption, TypeOK, CallsMatch, [Next]_vars, NEW x \in Call, Waiting(x)
  PROVE  Waiting(x)' \/ outcome'[x] # Nobody
<1> DEFINE c == x[1]
<1>1. c \in Caller /\ pc[c] = "wait" /\ x = Current(c) /\ x[1] = c
  BY CallsAreNoMarks DEF Waiting
<1>2. ASSUME NEW d \in Caller, Begin(d) PROVE Waiting(x)'
  BY <1>1, <1>2 DEF Begin, Waiting, Current, TypeOK
<1>3. ASSUME NEW d \in Caller, Moves(d) PROVE Waiting(x)'
  BY <1>1, <1>3 DEF Moves, Waiting, Current, TypeOK
<1>4. ASSUME NEW d \in Caller, NEW o \in Ended \ {Nobody}, End(d, o)
      PROVE  Waiting(x)' \/ outcome'[x] # Nobody
  BY <1>1, <1>4 DEF End, Waiting, Current, TypeOK
<1> QED BY <1>1, <1>2, <1>3, <1>4, CallerStep DEF Waiting, Current

(* Every call on its way is waited for or was given up.                    *)
LEMMA StepMessagesMatch ==
  ASSUME ExecutorAssumption, TypeOK, CallsMatch, MessagesMatch, [Next]_vars
  PROVE  MessagesMatch'
<1>1. OnePlace'
  BY StepOnePlace DEF MessagesMatch, OnePlace
<1>2. ASSUME NEW x \in Travelling' PROVE outcome'[x] # Nobody \/ Waiting(x)'
  <2>1. CASE x \in Travelling
    <3>1. x \in Call
      BY <2>1 DEF Travelling
    <3> QED BY <2>1, <3>1, OutcomesStay, WaitingEnds DEF MessagesMatch
  <2>2. ASSUME NEW c \in Caller, Enqueue(c), ~gone, x = Current(c) PROVE Waiting(x)'
    BY <2>2, CurrentIsCall DEF Enqueue, Waiting, Current, TypeOK
  <2> QED BY <2>1, <2>2, SentStep
<1> QED BY <1>1, <1>2 DEF MessagesMatch, OnePlace

(* In the legacy mode a caller takes its own reply, unless a call gave up. *)
LEMMA TakesItsOwn ==
  ASSUME ExecutorAssumption, TypeOK, CallsMatch, MessagesMatch, LockHeld, OnlyOwnTravels,
         EngineLocks, Late = {}, NEW c \in Caller, Dequeue(c)
  PROVE  Head(results) = Current(c)
<1>1. Head(results) \in Travelling
  BY TakenIsGone DEF MessagesMatch, OnePlace
<1>2. Waiting(Head(results))
  BY <1>1 DEF OnlyOwnTravels, Dequeue
<1>3. Head(results)[1] \in Caller
  BY <1>1, CallsAreNoMarks DEF Travelling
<1>4. Head(results)[1] = c
  BY <1>2, <1>3 DEF Waiting, LockHeld, Dequeue
<1> QED BY <1>2, <1>4 DEF Waiting

(* In the legacy mode, until a call gives up, nobody else's reply travels. *)
LEMMA StepOnlyOwnTravels ==
  ASSUME ExecutorAssumption, TypeOK, CallsMatch, MessagesMatch, LockHeld, LockHeld', ClosedFirst,
         OnlyOwnTravels, [Next]_vars
  PROVE  OnlyOwnTravels'
<1> SUFFICES ASSUME EngineLocks, Late' = {}, NEW x \in Travelling'
             PROVE  Waiting(x)' \/ (closed' /\ \A c \in Caller : pc'[c] \notin {"send", "wait"})
  BY DEF OnlyOwnTravels
<1>1. Late = {}
  BY OutcomesStay
<1>2. CASE ~(x \in Travelling)
  <2>1. ASSUME NEW c \in Caller, Enqueue(c), ~gone, x = Current(c) PROVE Waiting(x)'
    BY <2>1, CurrentIsCall DEF Enqueue, Waiting, Current, TypeOK
  <2> QED BY <1>2, <2>1, SentStep
<1>3. CASE x \in Travelling /\ closed /\ \A c \in Caller : pc[c] \notin {"send", "wait"}
  <2>1. closed'
    BY <1>3, StepClosedFirst
  <2>2. \A c \in Caller : ~Enqueue(c) /\ ~Dequeue(c) /\ ~PollFailed(c) /\ ~PollGone(c) /\ ~Deadline(c)
    BY <1>3 DEF Enqueue, Dequeue, PollFailed, PollGone, Deadline
  <2>3. ASSUME NEW c \in Caller, Begin(c) \/ Acquire(c) \/ EnsureOpen(c) \/ LockTimeout(c)
        PROVE  \A d \in Caller : pc'[d] \notin {"send", "wait"}
    BY <1>3, <2>3 DEF Begin, Acquire, EnsureOpen, LockTimeout, End, TypeOK
  <2>4. Worker \/ WorkerDie \/ MonitorWakes \/ CloserBegins \/ (\E t \in Thread : Shut(t)) \/ UNCHANGED vars
          => UNCHANGED pc
    BY DEF Worker, WorkerTake, WorkerReply, WorkerDie, MonitorWakes, CloserBegins, Shut, Finalize, Join,
           ClearQueues, vars, callers
  <2> QED BY <1>3, <2>1, <2>2, <2>3, <2>4 DEF Next, Advance
<1>4. CASE x \in Travelling /\ Waiting(x)
  <2>1. x \in Call /\ x[1] \in Caller /\ x = Current(x[1]) /\ pc[x[1]] = "wait"
    BY <1>4, CallsAreNoMarks DEF Travelling, Waiting
  <2>2. \A c \in Caller : pc[c] \in {"check", "send", "wait"} => c = x[1]
    BY <2>1 DEF LockHeld
  <2>3. ASSUME NEW c \in Caller, Dequeue(c) PROVE FALSE
    <3>1. c = x[1]
      BY <2>2, <2>3 DEF Dequeue
    <3>2. Head(results) = x
      BY <1>1, <2>1, <2>3, <3>1, TakesItsOwn
    <3> QED BY <2>3, <3>2, TakenIsGone DEF MessagesMatch, OnePlace
  <2>4. ASSUME NEW c \in Caller, PollFailed(c) \/ PollGone(c)
        PROVE  closed' /\ \A d \in Caller : pc'[d] \notin {"send", "wait"}
    BY <2>2, <2>4 DEF PollFailed, PollGone, End, ClosedFirst, TypeOK, life
  <2>5. ASSUME NEW c \in Caller, Deadline(c) PROVE FALSE
    <3>1. Current(c) \in Call
      BY <2>5, CurrentIsCall DEF Deadline
    <3>2. outcome'[Current(c)] = <<"late">>
      BY <2>5, <3>1 DEF Deadline, End, TypeOK
    <3> QED BY <3>1, <3>2 DEF Late
  <2>6. ASSUME NEW c \in Caller, Begin(c) \/ Acquire(c) \/ EnsureOpen(c) \/ Enqueue(c) \/ LockTimeout(c)
        PROVE  Waiting(x)'
    <3>1. c # x[1]
      BY <2>1, <2>6 DEF Begin, Acquire, EnsureOpen, Enqueue, LockTimeout
    <3>2. pc'[x[1]] = pc[x[1]] /\ calls'[x[1]] = calls[x[1]]
      BY <2>1, <2>6, <3>1 DEF Begin, Acquire, EnsureOpen, Enqueue, LockTimeout, End, TypeOK
    <3> QED BY <2>1, <3>2 DEF Waiting, Current
  <2>7. Worker \/ WorkerDie \/ MonitorWakes \/ CloserBegins \/ (\E t \in Thread : Shut(t)) \/ UNCHANGED vars
          => UNCHANGED <<pc, calls>>
    BY DEF Worker, WorkerTake, WorkerReply, WorkerDie, MonitorWakes, CloserBegins, Shut, Finalize, Join,
           ClearQueues, vars, callers
  <2>8. UNCHANGED <<pc, calls>> => Waiting(x)'
    BY <1>4 DEF Waiting, Current
  <2> QED BY <2>3, <2>4, <2>5, <2>6, <2>7, <2>8 DEF Next, Advance
<1> QED BY <1>1, <1>2, <1>3, <1>4 DEF OnlyOwnTravels

(* In the legacy mode, until a call gives up, replies go where they belong.*)
LEMMA StepOwnReply ==
  ASSUME ExecutorAssumption, TypeOK, CallsMatch, MessagesMatch, LockHeld, OnlyOwnTravels,
         OwnReplyUnlessLate, [Next]_vars
  PROVE  OwnReplyUnlessLate'
<1> SUFFICES ASSUME EngineLocks, Late' = {}, NEW x \in Call, outcome'[x] \in Call
             PROVE  outcome'[x] = x
  BY DEF OwnReplyUnlessLate, OwnReply
<1>1. Late = {}
  BY OutcomesStay
<1>2. CASE outcome'[x] = outcome[x]
  BY <1>1, <1>2 DEF OwnReplyUnlessLate, OwnReply
<1>3. ASSUME NEW c \in Caller, NEW e, End(c, <<e>>) PROVE outcome'[x] = outcome[x]
  <2>1. <<e>> \notin Call
    BY CallsAreNoMarks
  <2> QED BY <1>3, <2>1 DEF End, TypeOK
<1>4. ASSUME NEW c \in Caller, Dequeue(c) PROVE outcome'[x] = outcome[x] \/ outcome'[x] = x
  BY <1>1, <1>4, TakesItsOwn DEF Dequeue, End, TypeOK
<1>5. ASSUME NEW c \in Caller, EnsureOpen(c) \/ Enqueue(c) \/ PollFailed(c) \/ PollGone(c)
                               \/ LockTimeout(c) \/ Deadline(c)
      PROVE  outcome'[x] = outcome[x]
  BY <1>3, <1>5 DEF EnsureOpen, Enqueue, PollFailed, PollGone, LockTimeout, Deadline
<1>6. (\E c \in Caller : Begin(c) \/ Acquire(c)) \/ Worker \/ WorkerDie \/ MonitorWakes \/ CloserBegins
        \/ (\E t \in Thread : Shut(t)) \/ UNCHANGED vars => UNCHANGED outcome
  BY DEF Begin, Acquire, Worker, WorkerTake, WorkerReply, WorkerDie, MonitorWakes, CloserBegins, Shut,
         Finalize, Join, ClearQueues, vars, callers
<1> QED BY <1>2, <1>4, <1>5, <1>6 DEF Next, Advance

WaitingSet == {c \in Caller : pc[c] = "wait"}

(* Callers and calls are finitely many.                                    *)
LEMMA FinitelyMany ==
  ASSUME ExecutorAssumption, NEW W \in SUBSET Caller, NEW L \in SUBSET Call
  PROVE  /\ IsFiniteSet(W) /\ Cardinality(W) \in Nat
         /\ IsFiniteSet(L) /\ Cardinality(L) \in Nat
<1>1. IsFiniteSet(Caller) /\ IsFiniteSet(1 .. MaxCalls)
  BY FS_Interval DEF ExecutorAssumption
<1>2. IsFiniteSet(Call)
  BY <1>1, FS_Product DEF Call
<1> QED BY <1>1, <1>2, FS_Subset, FS_CardinalityType

(* An interval from one has as many members as it has numbers.            *)
LEMMA CountUpTo == ASSUME NEW n \in Nat PROVE Cardinality(1 .. n) = n
<1>1. 1 \in Int /\ n \in Int
  OBVIOUS
<1>2. Cardinality(1 .. n) = IF 1 > n THEN 0 ELSE n - 1 + 1
  BY <1>1, FS_Interval
<1> QED BY <1>2

(* Until a shutdown begins, what is due is what is in the three places.    *)
LEMMA DueIs ==
  ASSUME TypeOK, ClosedFirst, ~closed
  PROVE  Due = Len(results) + (IF busy = Nobody THEN 0 ELSE 1) + Len(broadcast)
<1>1. Len(broadcast) \in Nat /\ DOMAIN broadcast = 1 .. Len(broadcast)
  BY LenProperties DEF TypeOK
<1>2. {k \in DOMAIN broadcast : broadcast[k] # <<"shutdown">>} = 1 .. Len(broadcast)
  BY <1>1 DEF ClosedFirst, IsShutdown
<1>3. Cardinality(1 .. Len(broadcast)) = Len(broadcast)
  BY <1>1, CountUpTo
<1> QED BY <1>2, <1>3 DEF Due

(* Until a shutdown begins no reply is spare.                              *)
LEMMA StepNoSpareReply ==
  ASSUME ExecutorAssumption, TypeOK, TypeOK', CallsMatch, ClosedFirst, ClosedFirst', NoSpareReply,
         [Next]_vars
  PROVE  NoSpareReply'
<1> SUFFICES ASSUME ~closed' PROVE NoSpareReply'
  BY DEF NoSpareReply
<1> DEFINE W == Cardinality(WaitingSet)
           L == Cardinality(Late)
           B == IF busy = Nobody THEN 0 ELSE 1
<1>1. ~closed /\ ~failed /\ ~gone
  BY StepClosedFirst DEF ClosedFirst
<1>2. /\ Due = Len(results) + B + Len(broadcast)
      /\ Due' = Len(results') + B' + Len(broadcast')
  <2>1. Due = Len(results) + B + Len(broadcast)
    BY <1>1, DueIs
  <2>2. Due' = Len(results') + B' + Len(broadcast')
    <3>1. Len(broadcast') \in Nat /\ DOMAIN broadcast' = 1 .. Len(broadcast')
      BY LenProperties DEF TypeOK
    <3>2. {k \in DOMAIN broadcast' : broadcast'[k] # <<"shutdown">>} = 1 .. Len(broadcast')
      BY <3>1 DEF ClosedFirst, IsShutdown
    <3>3. Cardinality(1 .. Len(broadcast')) = Len(broadcast')
      BY <3>1, CountUpTo
    <3> QED BY <3>2, <3>3 DEF Due
  <2> QED BY <2>1, <2>2
<1>3. Due =< W + L
  BY <1>1 DEF NoSpareReply, WaitingSet
<1>4. /\ W \in Nat /\ L \in Nat /\ W' \in Nat /\ L' \in Nat /\ L =< L'
      /\ IsFiniteSet(WaitingSet) /\ IsFiniteSet(Late)
  <2>1. WaitingSet \in SUBSET Caller /\ WaitingSet' \in SUBSET Caller
    BY DEF WaitingSet
  <2>2. Late \in SUBSET Call /\ Late' \in SUBSET Call /\ Late \in SUBSET Late'
    BY OutcomesStay DEF Late
  <2>3. IsFiniteSet(Late')
    BY <2>1, <2>2, FinitelyMany
  <2>4. L =< L'
    BY <2>2, <2>3, FS_Subset
  <2> QED BY <2>1, <2>2, <2>4, FinitelyMany
<1>5. Len(results) \in Nat /\ Len(broadcast) \in Nat /\ B \in {0, 1}
      /\ Len(results') \in Nat /\ Len(broadcast') \in Nat /\ B' \in {0, 1}
  BY LenProperties DEF TypeOK
<1>6. results \in Seq(Call) /\ broadcast \in Seq(Message)
  BY DEF TypeOK, Message
<1>7. Due' =< W' + L' => NoSpareReply'
  BY DEF NoSpareReply, WaitingSet
<1> HIDE DEF W, L, B
<1>8. CASE W' = W /\ B' = B /\ Len(results') = Len(results) /\ Len(broadcast') = Len(broadcast)
  BY <1>2, <1>3, <1>4, <1>5, <1>7, <1>8
<1>9. ASSUME NEW c \in Caller, Enqueue(c) PROVE NoSpareReply'
  <2>1. Current(c) \in Message
    BY <1>9, CurrentIsCall DEF Enqueue, Message
  <2>2. Len(broadcast') = Len(broadcast) + 1 /\ B' = B /\ results' = results
    BY <1>1, <1>6, <1>9, <2>1, AppendHolds DEF Enqueue, B, processes
  <2>3. WaitingSet' = WaitingSet \cup {c} /\ c \notin WaitingSet
    BY <1>1, <1>9 DEF Enqueue, WaitingSet, TypeOK
  <2>4. W' = W + 1
    BY <1>4, <2>3, FS_AddElement DEF W
  <2> QED BY <1>2, <1>3, <1>4, <1>5, <1>7, <2>2, <2>4
<1>10. ASSUME NEW c \in Caller, NEW o, End(c, o), pc[c] = "wait" PROVE W' = W - 1
  <2>1. WaitingSet' = WaitingSet \ {c} /\ c \in WaitingSet
    BY <1>10 DEF End, WaitingSet, TypeOK
  <2> QED BY <1>4, <2>1, FS_RemoveElement DEF W
<1>11. ASSUME NEW c \in Caller, Dequeue(c) PROVE NoSpareReply'
  <2>1. Len(results') = Len(results) - 1 /\ B' = B /\ broadcast' = broadcast
    BY <1>6, <1>11, TailHolds DEF Dequeue, B, processes
  <2>2. W' = W - 1
    BY <1>10, <1>11 DEF Dequeue
  <2> QED BY <1>2, <1>3, <1>4, <1>5, <1>7, <2>1, <2>2
<1>12. ASSUME NEW c \in Caller, Deadline(c) PROVE NoSpareReply'
  <2>1. results' = results /\ B' = B /\ broadcast' = broadcast
    BY <1>12 DEF Deadline, B, processes
  <2>2. W' = W - 1
    BY <1>10, <1>12 DEF Deadline
  <2>3. Current(c) \in Call /\ outcome[Current(c)] = Nobody
    BY <1>12, CurrentIsCall DEF Deadline
  <2>4. Late' = Late \cup {Current(c)} /\ Current(c) \notin Late
    <3>1. Current(c) \notin Late
      BY <2>3, CallsAreNoMarks DEF Late
    <3>2. outcome' = [outcome EXCEPT ![Current(c)] = <<"late">>] /\ outcome \in [Call -> Ended]
      BY <1>12 DEF Deadline, End, TypeOK, Ended
    <3>3. \A x \in Call : outcome'[x] = IF x = Current(c) THEN <<"late">> ELSE outcome[x]
      BY <3>2
    <3> QED BY <2>3, <3>1, <3>3 DEF Late
  <2>5. L' = L + 1
    BY <1>4, <2>4, FS_AddElement DEF L
  <2> QED BY <1>2, <1>3, <1>4, <1>5, <1>7, <2>1, <2>2, <2>5
<1>13. CASE WorkerTake
  <2>1. ~IsShutdown(Head(broadcast))
    BY <1>1, <1>6, <1>13, TailHolds DEF WorkerTake, ClosedFirst
  <2>2. Len(broadcast') = Len(broadcast) - 1 /\ results' = results
    BY <1>6, <1>13, TailHolds DEF WorkerTake
  <2>3. B = 0 /\ W' = W
    BY <1>13 DEF WorkerTake, B, W, WaitingSet, callers
  <2> QED BY <1>2, <1>3, <1>4, <1>5, <1>7, <2>2, <2>3
<1>14. CASE WorkerReply
  <2>1. Len(results') = Len(results) + 1
    BY <1>6, <1>14, ReplyAppends, AppendHolds
  <2>2. B = 1 /\ B' = 0 /\ W' = W /\ broadcast' = broadcast
    BY <1>14 DEF WorkerReply, B, W, WaitingSet, callers
  <2> QED BY <1>2, <1>3, <1>4, <1>5, <1>7, <2>1, <2>2
<1>15. CASE WorkerDie
  <2>1. B' = 0 /\ W' = W /\ broadcast' = broadcast /\ results' = results
    BY <1>15 DEF WorkerDie, B, W, WaitingSet, callers
  <2> QED BY <1>2, <1>3, <1>4, <1>5, <1>7, <2>1
<1>16. (\E c \in Caller : PollFailed(c) \/ PollGone(c)) \/ MonitorWakes \/ CloserBegins
         \/ (\E t \in Thread : Shut(t)) => UNCHANGED <<callers, broadcast, results, processes>>
  <2>1. \A c \in Caller : ~PollFailed(c) /\ ~PollGone(c)
    BY <1>1 DEF PollFailed, PollGone
  <2>2. \A t \in Thread : ~Shut(t)
    BY <1>1 DEF Shut, Finalize, Join, ClearQueues, ClosedFirst
  <2> QED BY <2>1, <2>2 DEF MonitorWakes, CloserBegins
<1>17. ASSUME NEW c \in Caller, Begin(c) \/ Acquire(c) \/ EnsureOpen(c) \/ LockTimeout(c)
       PROVE  WaitingSet' = WaitingSet /\ UNCHANGED <<broadcast, results, processes>>
  <2>1. WaitingSet' = WaitingSet
    BY <1>17 DEF Begin, Acquire, EnsureOpen, LockTimeout, End, WaitingSet, TypeOK
  <2> QED BY <1>17, <2>1 DEF Begin, Acquire, EnsureOpen, LockTimeout
<1>18. UNCHANGED vars => UNCHANGED <<callers, broadcast, results, processes>>
  BY DEF vars
<1>19. CASE WaitingSet' = WaitingSet /\ UNCHANGED <<broadcast, results, processes>>
  BY <1>8, <1>19 DEF W, B, processes
<1>20. CASE UNCHANGED <<callers, broadcast, results, processes>>
  BY <1>19, <1>20 DEF callers, WaitingSet
<1> QED
  BY <1>9, <1>11, <1>12, <1>13, <1>14, <1>15, <1>16, <1>17, <1>18, <1>19, <1>20
  DEF Next, Advance, Worker

(* Nothing was called, sent or answered yet.                               *)
LEMMA InitExecutor == ASSUME ExecutorAssumption PROVE Init => ExecutorInvariant
<1> SUFFICES ASSUME Init PROVE ExecutorInvariant
  OBVIOUS
<1>1. TypeOK
  <2>1. broadcast \in Seq(Call \cup {<<"shutdown">>}) /\ results \in Seq(Call)
    BY EmptySeq DEF Init
  <2>2. 0 \in 0 .. MaxCalls
    BY DEF ExecutorAssumption
  <2> QED BY <2>1, <2>2 DEF Init, TypeOK, Thread
<1>2. Len(broadcast) = 0 /\ Len(results) = 0 /\ DOMAIN broadcast = {} /\ DOMAIN results = {}
  BY DEF Init
<1>3. Travelling = {}
  BY <1>2, CallsAreNoMarks DEF Init, Travelling
<1>4. CallsMatch
  BY <1>3, CallsAreNoMarks DEF Init, CallsMatch
<1>5. MessagesMatch
  BY <1>2, <1>3 DEF Init, MessagesMatch
<1>6. LockHeld /\ ClosedFirst /\ OnlyOwnTravels
  BY <1>2, <1>3 DEF Init, LockHeld, ClosedFirst, OnlyOwnTravels, ExecutorAssumption
<1>7. OwnReplyUnlessLate
  BY CallsAreNoMarks DEF Init, OwnReplyUnlessLate, OwnReply
<1>8. NoSpareReply
  <2>1. Due = 0
    <3>1. ~closed /\ busy = Nobody
      BY DEF Init
    <3> QED BY <1>1, <1>2, <1>6, <3>1, DueIs
  <2>2. Cardinality(WaitingSet) \in Nat /\ Cardinality(Late) \in Nat
    <3>1. WaitingSet \in SUBSET Caller /\ Late \in SUBSET Call
      BY DEF WaitingSet, Late
    <3> QED BY <3>1, FinitelyMany
  <2> QED BY <2>1, <2>2 DEF NoSpareReply, WaitingSet
<1> QED BY <1>1, <1>4, <1>5, <1>6, <1>7, <1>8 DEF ExecutorInvariant, ExecutorSound

(* Every step keeps every part.                                            *)
LEMMA StepExecutor ==
  ASSUME ExecutorAssumption PROVE ExecutorInvariant /\ [Next]_vars => ExecutorInvariant'
<1> SUFFICES ASSUME ExecutorInvariant, [Next]_vars PROVE ExecutorInvariant'
  OBVIOUS
<1>0. /\ TypeOK /\ CallsMatch /\ MessagesMatch /\ LockHeld /\ ClosedFirst /\ OnlyOwnTravels
      /\ OwnReplyUnlessLate /\ NoSpareReply
  BY DEF ExecutorInvariant, ExecutorSound
<1>1. TypeOK'
  BY <1>0, StepType
<1>2. LockHeld' /\ ClosedFirst' /\ CallsMatch' /\ MessagesMatch'
  BY <1>0, <1>1, StepLockHeld, StepClosedFirst, StepCallsMatch, StepMessagesMatch
<1>3. OnlyOwnTravels'
  BY <1>0, <1>2, StepOnlyOwnTravels
<1>4. OwnReplyUnlessLate' /\ NoSpareReply'
  BY <1>0, <1>1, <1>2, StepOwnReply, StepNoSpareReply
<1> QED BY <1>1, <1>2, <1>3, <1>4 DEF ExecutorInvariant, ExecutorSound

(* For any callers, with or without the lock, with deaths, deadlines and   *)
(* two threads that shut down.                                             *)
THEOREM ExecutorInvariantHolds == ASSUME ExecutorAssumption PROVE Spec => []ExecutorInvariant
<1>1. Init => ExecutorInvariant
  BY InitExecutor
<1>2. ExecutorInvariant /\ [Next]_vars => ExecutorInvariant'
  BY StepExecutor
<1> QED BY <1>1, <1>2, PTL DEF Spec

(* "Only rank 0 has a result_mq, so we always expect exactly 1 response"   *)
(* (multiproc_executor.py:453) and, in the legacy mode, a caller's reply   *)
(* is its own as long as no call gave up on its deadline.                  *)
THEOREM RepliesAreSound == ASSUME ExecutorAssumption PROVE Spec => []ExecutorSound
<1>1. ExecutorInvariant => ExecutorSound
  BY DEF ExecutorInvariant
<1> QED BY <1>1, ExecutorInvariantHolds, PTL

-------------------------------------------------------------------------------
(* The executor implements RpcService.                                     *)

(* The answers that outcomes stand for.                                    *)
LEMMA AnswerKinds ==
  ASSUME NEW x \in Call
  PROVE  /\ AnswerTo(x, Nobody) = "none"
         /\ AnswerTo(x, x) = "own"
         /\ \A y \in Call : y # x => AnswerTo(x, y) = "foreign"
         /\ AnswerTo(x, <<"late">>) = "late"
         /\ \A e \in Exception \ {"late"} : AnswerTo(x, <<e>>) = "failed"
         /\ \A o \in Ended \ {Nobody} : AnswerTo(x, o) # "none"
<1>1. AnswerTo(x, Nobody) = "none"
  <2>1. x # Nobody /\ Nobody \notin Call /\ <<"late">> # Nobody
    BY CallsAreNoMarks
  <2> QED BY <2>1 DEF AnswerTo
<1>2. \A y \in Call : AnswerTo(x, y) = IF y = x THEN "own" ELSE "foreign"
  BY CallsAreNoMarks DEF AnswerTo
<1>3. AnswerTo(x, <<"late">>) = "late"
  BY CallsAreNoMarks DEF AnswerTo
<1>4. ASSUME NEW e \in Exception \ {"late"} PROVE AnswerTo(x, <<e>>) = "failed"
  <2>1. <<e>> # Nobody /\ <<e>> # x /\ <<e>> \notin Call /\ <<e>> # <<"late">>
    BY CallsAreNoMarks
  <2> QED BY <2>1 DEF AnswerTo
<1>5. ASSUME NEW o \in Ended \ {Nobody} PROVE AnswerTo(x, o) # "none"
  BY <1>2, <1>3, <1>4 DEF Ended
<1> QED BY <1>1, <1>2, <1>3, <1>4, <1>5

(* One call gets its answer, everything else of the service stays.         *)
Answered(x, a) ==
  /\ Answers' = [Answers EXCEPT ![x] = a]
  /\ Invoked' = Invoked
  /\ executed' = executed

(* How the actions of the service read in the executor.                    *)
LEMMA ServiceSteps ==
  ASSUME NEW x \in Call
  PROVE  /\ x \notin Invoked /\ Invoked' = Invoked \cup {x} /\ UNCHANGED <<executed, Answers>>
              => Service!Next
         /\ x \in Invoked \ executed /\ executed' = executed \cup {x} /\ UNCHANGED <<Invoked, Answers>>
              => Service!Next
         /\ x \in executed /\ Answers[x] = "none" /\ Answered(x, "own") => Service!Next
         /\ x \in Invoked /\ Answers[x] = "none" /\ Answered(x, "failed") => Service!Next
         /\ x \in Invoked /\ Answers[x] = "none" /\ Answered(x, "late") => Service!Next
         /\ x \in Invoked /\ Answers[x] = "none" /\ Answered(x, "foreign")
              /\ (\E y \in executed : y # x /\ Answers[y] # "none")
              /\ (\E y \in Call : Answers[y] = "late")
              => Service!Next
<1>1. Service!Invoke(x) \/ Service!Execute(x) \/ Service!Return(x) \/ Service!Fail(x)
        \/ Service!GiveUp(x) \/ Service!Misdeliver(x) => Service!Next
  BY DEF Service!Next
<1>2. x \notin Invoked /\ Invoked' = Invoked \cup {x} /\ UNCHANGED <<executed, Answers>>
        => Service!Invoke(x)
  BY DEF Service!Invoke
<1>3. x \in Invoked \ executed /\ executed' = executed \cup {x} /\ UNCHANGED <<Invoked, Answers>>
        => Service!Execute(x)
  BY DEF Service!Execute
<1>4. x \in executed /\ Answers[x] = "none" /\ Answered(x, "own") => Service!Return(x)
  BY DEF Service!Return, Answered
<1>5. x \in Invoked /\ Answers[x] = "none" /\ Answered(x, "failed") => Service!Fail(x)
  BY DEF Service!Fail, Answered
<1>6. x \in Invoked /\ Answers[x] = "none" /\ Answered(x, "late") => Service!GiveUp(x)
  BY DEF Service!GiveUp, Answered
<1>7. x \in Invoked /\ Answers[x] = "none" /\ Answered(x, "foreign")
        /\ (\E y \in executed : y # x /\ Answers[y] # "none")
        /\ (\E y \in Call : Answers[y] = "late")
        => Service!Misdeliver(x)
  BY DEF Service!Misdeliver, Answered
<1> QED BY <1>1, <1>2, <1>3, <1>4, <1>5, <1>6, <1>7

(* A call that ends is one that was made and not answered before.          *)
LEMMA EndAnswers ==
  ASSUME ExecutorAssumption, TypeOK, CallsMatch, NEW c \in Caller, NEW o \in Ended, pc[c] # "idle",
         End(c, o), executed' = executed
  PROVE  /\ Current(c) \in Invoked
         /\ Answers[Current(c)] = "none"
         /\ Answered(Current(c), AnswerTo(Current(c), o))
<1>1. /\ Current(c) \in Call /\ outcome[Current(c)] = Nobody /\ Current(c)[1] = c
      /\ Current(c)[2] = calls[c] /\ calls[c] \in 1 .. MaxCalls
  BY CurrentIsCall
<1>2. Current(c) \in Invoked
  BY <1>1 DEF Invoked
<1>3. Answers[Current(c)] = "none"
  BY <1>1, AnswerKinds DEF Answers
<1>4. outcome' = [outcome EXCEPT ![Current(c)] = o] /\ outcome \in [Call -> Ended] /\ calls' = calls
  BY DEF End, TypeOK, Ended
<1>5. Invoked' = Invoked
  BY <1>4 DEF Invoked
<1>6. \A x \in Call : outcome'[x] = IF x = Current(c) THEN o ELSE outcome[x]
  BY <1>4
<1>7. Answers' = [Answers EXCEPT ![Current(c)] = AnswerTo(Current(c), o)]
  BY <1>1, <1>6 DEF Answers
<1> QED BY <1>2, <1>3, <1>5, <1>7 DEF Answered

(* The service has not been called.                                        *)
LEMMA InitService == Init => Service!Init
<1> SUFFICES ASSUME Init PROVE Service!Init
  OBVIOUS
<1>1. Invoked = {}
  BY CallsAreNoMarks DEF Init, Invoked
<1>2. Answers = [x \in Call |-> "none"]
  BY AnswerKinds DEF Init, Answers
<1> QED BY <1>1, <1>2 DEF Init, Service!Init

(* Every step of the executor is a step of the service or none.            *)
LEMMA StepService ==
  ASSUME ExecutorAssumption, EngineLocks, ExecutorInvariant, [Next]_vars
  PROVE  Service!Next \/ UNCHANGED Service!vars
<1>0. TypeOK /\ CallsMatch /\ MessagesMatch /\ LockHeld /\ OnlyOwnTravels
  BY DEF ExecutorInvariant
<1>1. CASE UNCHANGED <<calls, outcome, executed>>
  BY <1>1 DEF Service!vars, Invoked, Answers
<1>2. ASSUME NEW c \in Caller, Begin(c) PROVE Service!Next
  <2> DEFINE n == calls[c] + 1
  <2>1. n \in 1 .. MaxCalls /\ calls' = [calls EXCEPT ![c] = n] /\ calls \in [Caller -> 0 .. MaxCalls]
    BY <1>0, <1>2 DEF Begin, TypeOK, ExecutorAssumption
  <2>2. <<c, n>> \in Call /\ <<c, n>>[1] = c /\ <<c, n>>[2] = n
    BY <2>1, CallsAreNoMarks
  <2>3. <<c, n>> \notin Invoked
    BY <2>1, <2>2 DEF Invoked, ExecutorAssumption
  <2>4. Invoked' = Invoked \cup {<<c, n>>}
    <3>1. ASSUME NEW x \in Call PROVE x \in Invoked' <=> x \in Invoked \/ x = <<c, n>>
      <4>1. x[1] \in Caller /\ x[2] \in 1 .. MaxCalls /\ x = <<x[1], x[2]>>
        BY CallsAreNoMarks
      <4>2. CASE x[1] = c
        <5>1. x[2] =< n <=> x[2] =< calls[c] \/ x[2] = n
          BY <2>1, <4>1 DEF ExecutorAssumption
        <5> QED BY <2>1, <2>2, <4>1, <4>2, <5>1 DEF Invoked
      <4>3. CASE x[1] # c
        BY <2>1, <2>2, <4>1, <4>3 DEF Invoked
      <4> QED BY <4>2, <4>3
    <3> QED BY <2>2, <3>1 DEF Invoked
  <2>5. UNCHANGED <<executed, Answers>>
    BY <1>2 DEF Begin, processes, Answers
  <2> HIDE DEF n
  <2> QED BY <2>2, <2>3, <2>4, <2>5, ServiceSteps
<1>3. CASE WorkerTake
  <2>1. CASE IsShutdown(Head(broadcast))
    BY <1>1, <1>3, <2>1 DEF WorkerTake, callers
  <2>2. CASE ~IsShutdown(Head(broadcast))
    <3> DEFINE x == Head(broadcast)
    <3>1. broadcast \in Seq(Message)
      BY <1>0 DEF TypeOK, Message
    <3>2. 1 \in DOMAIN broadcast /\ x = broadcast[1] /\ x \in Message
      BY <1>3, <3>1, TailHolds DEF WorkerTake
    <3>3. x \in Call /\ x \in Travelling /\ x \notin executed
      BY <1>0, <2>2, <3>2 DEF Message, IsShutdown, Travelling, MessagesMatch
    <3>4. x \in Invoked
      <4> HIDE DEF x
      <4>1. x[1] \in Caller /\ x[2] \in 1 .. MaxCalls /\ x = <<x[1], x[2]>>
        BY <3>3, CallsAreNoMarks
      <4>2. ~(x[2] > calls[x[1]])
        BY <1>0, <3>3, <4>1 DEF CallsMatch
      <4>3. calls[x[1]] \in Nat /\ x[2] \in Nat
        BY <1>0, <4>1 DEF TypeOK
      <4> QED BY <3>3, <4>2, <4>3 DEF Invoked
    <3>5. executed' = executed \cup {x} /\ UNCHANGED <<Invoked, Answers>>
      BY <1>3, <2>2 DEF WorkerTake, callers, Invoked, Answers
    <3> HIDE DEF x
    <3> QED BY <3>3, <3>4, <3>5, ServiceSteps
  <2> QED BY <2>1, <2>2
<1>4. ASSUME NEW c \in Caller, NEW e \in Exception, pc[c] # "idle", End(c, <<e>>), executed' = executed
      PROVE  Service!Next
  <2>1. <<e>> \in Ended
    BY DEF Ended
  <2>2. /\ Current(c) \in Call /\ Current(c) \in Invoked /\ Answers[Current(c)] = "none"
        /\ Answered(Current(c), AnswerTo(Current(c), <<e>>))
    BY <1>0, <1>4, <2>1, EndAnswers, CurrentIsCall
  <2>3. AnswerTo(Current(c), <<e>>) \in {"late", "failed"}
    BY <2>2, AnswerKinds
  <2> QED BY <2>2, <2>3, ServiceSteps
<1>5. ASSUME NEW c \in Caller, Dequeue(c) PROVE Service!Next
  <2> DEFINE x == Current(c)
             y == Head(results)
  <2>1. y \in Call /\ y \in Travelling /\ y \in executed
    <3>1. results \in Seq(Call)
      BY <1>0 DEF TypeOK
    <3>2. 1 \in DOMAIN results /\ y = results[1] /\ y \in Call
      BY <1>5, <3>1, TailHolds DEF Dequeue
    <3> QED BY <1>0, <3>2 DEF Travelling, MessagesMatch
  <2>2. /\ x \in Call /\ x \in Invoked /\ Answers[x] = "none" /\ Answered(x, AnswerTo(x, y))
    BY <1>0, <1>5, <2>1, EndAnswers, CurrentIsCall DEF Dequeue, Ended, processes
  <2>3. CASE y = x
    <3>1. AnswerTo(x, y) = "own"
      BY <2>2, <2>3, AnswerKinds
    <3> QED BY <2>1, <2>2, <2>3, <3>1, ServiceSteps
  <2>4. CASE y # x
    <3>1. AnswerTo(x, y) = "foreign"
      BY <2>1, <2>2, <2>4, AnswerKinds
    <3>2. Answers[y] # "none"
      <4>1. outcome[y] # Nobody
        <5>1. ASSUME Waiting(y) PROVE FALSE
          <6>1. y[1] \in Caller /\ pc[y[1]] = "wait" /\ y = Current(y[1])
            BY <2>1, <5>1, CallsAreNoMarks DEF Waiting
          <6>2. y[1] = c
            BY <1>0, <1>5, <6>1 DEF LockHeld, Dequeue
          <6> QED BY <2>4, <6>1, <6>2
        <5> QED BY <1>0, <2>1, <5>1 DEF MessagesMatch
      <4>2. outcome[y] \in Ended
        BY <1>0, <2>1 DEF TypeOK, Ended
      <4> QED BY <2>1, <4>1, <4>2, AnswerKinds DEF Answers
    <3>3. PICK z \in Late : TRUE
      BY <1>0, <1>5, <2>4, TakesItsOwn
    <3>4. z \in Call /\ Answers[z] = "late"
      BY <3>3, AnswerKinds DEF Late, Answers
    <3> QED BY <2>1, <2>2, <2>4, <3>1, <3>2, <3>4, ServiceSteps
  <2> QED BY <2>3, <2>4
<1>6. ASSUME NEW c \in Caller, EnsureOpen(c) \/ Enqueue(c) \/ PollFailed(c) \/ PollGone(c)
                               \/ LockTimeout(c) \/ Deadline(c)
      PROVE  Service!Next \/ UNCHANGED <<calls, outcome, executed>>
  <2>1. /\ "closed" \in Exception /\ "broken" \in Exception /\ "dead" \in Exception
        /\ "timeout" \in Exception /\ "late" \in Exception
    BY DEF Exception
  <2>2. executed' = executed
    BY <1>6 DEF EnsureOpen, Enqueue, PollFailed, PollGone, LockTimeout, Deadline, processes
  <2>3. CASE EnsureOpen(c)
    BY <1>4, <2>1, <2>2, <2>3 DEF EnsureOpen
  <2>4. CASE Enqueue(c)
    BY <1>4, <2>1, <2>2, <2>4 DEF Enqueue
  <2>5. CASE PollFailed(c) \/ PollGone(c) \/ LockTimeout(c) \/ Deadline(c)
    BY <1>4, <2>1, <2>2, <2>5 DEF PollFailed, PollGone, LockTimeout, Deadline
  <2> QED BY <1>6, <2>3, <2>4, <2>5
<1>7. (\E c \in Caller : Acquire(c)) \/ WorkerReply \/ WorkerDie \/ MonitorWakes \/ CloserBegins
        \/ (\E t \in Thread : Shut(t)) \/ UNCHANGED vars => UNCHANGED <<calls, outcome, executed>>
  BY DEF Acquire, WorkerReply, WorkerDie, MonitorWakes, CloserBegins, Shut, Finalize, Join, ClearQueues,
         vars, callers, processes
<1> QED BY <1>1, <1>2, <1>3, <1>5, <1>6, <1>7 DEF Next, Advance, Worker

(* In the legacy mode the executor is the service: a call is executed at   *)
(* most once and ends once, with its own result or an exception, unless a  *)
(* call gave up before.                                                    *)
THEOREM ServiceImplemented ==
  ASSUME ExecutorAssumption, EngineLocks PROVE Spec => ImplementsService
<1>1. Init => Service!Init
  BY InitService
<1>2. ExecutorInvariant /\ [Next]_vars => [Service!Next]_(Service!vars)
  BY StepService
<1>3. Spec => []ExecutorInvariant
  BY ExecutorInvariantHolds
<1> QED BY <1>1, <1>2, <1>3, PTL DEF Spec, ImplementsService, Service!Spec

===============================================================================
