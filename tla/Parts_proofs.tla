------------------------------ MODULE Parts_proofs ------------------------------
(***************************************************************************)
(* Proofs about the small machines of Parts: the turns of a video session, *)
(* the jobs that make videos, the start of the engine, the turns of the    *)
(* balancer, the inline stage client, the requests of the orchestrator and *)
(* its control RPCs, the executor's calls and the transfer of caches.      *)
(* Each keeps an inductive invariant, for every value of its constants.    *)
(* Of the others nothing is used: a step of theirs leaves a machine's      *)
(* variables alone.                                                        *)
(***************************************************************************)
EXTENDS Parts, QueueOps_proofs, NaturalsInduction

-------------------------------------------------------------------------------
(* The session of questions about a video.                                 *)

LEMMA InitSession == ASSUME Session!SessionAssumption, Session!SessionInit
  PROVE Session!SessionInvariant
<1> USE DEF Session!SessionAssumption, Session!SessionInit
<1>1. Session!TypeOK
  <2>1. msg_queue \in Seq(Session!Message)
    BY EmptySeq
  <2>2. /\ 0 \in 0 .. MaxQueries /\ 0 \in 0 .. Session!SessionDone
        /\ {query_task, active_request_id, prev_request_id, begun} \subseteq 0 .. MaxQueries
    BY DEF Session!None, Session!SessionDone
  <2>3. /\ query_outputs \in [Session!Turn -> 0 .. MaxOutputs]
        /\ query_turn \in [Session!Turn -> Session!Over] /\ request \in [Session!Turn -> {"none"}]
    BY DEF Session!Over
  <2> QED BY <2>1, <2>2, <2>3 DEF Session!TypeOK, Session!None
<1>2. Session!QueriesCounted
  <2>1. Len(msg_queue) = 0 /\ DOMAIN msg_queue = {}
    OBVIOUS
  <2> QED BY <2>1 DEF Session!QueriesCounted, Session!QueryInHand, Session!EndQueued
<1>3. Session!OneTurn /\ Session!GeneratorHeld /\ Session!SpokeLast
  BY DEF Session!OneTurn, Session!GeneratorHeld, Session!SpokeLast, Session!Live, Session!Turn,
    Session!Over, Session!None
<1> QED BY <1>1, <1>2, <1>3 DEF Session!SessionInvariant

(* What the processor takes is a query, or the end and the last.           *)
LEMMA MessageHandled ==
  ASSUME Session!SessionAssumption, Session!TypeOK, Session!QueriesCounted, NEW m,
         Session!Handles(m)
  PROVE  /\ msg_queue' \in Seq(Session!Message)
         /\ Len(msg_queue) \in Nat /\ Len(msg_queue') \in Nat
         /\ Len(msg_queue') = Len(msg_queue) - 1
         /\ msg_queue # <<>>
         /\ msg_queue' # <<>> => Len(msg_queue') > 0
         /\ m # "query" => msg_queue' = <<>> /\ Len(msg_queue') = 0
         /\ \A k \in DOMAIN msg_queue' :
              msg_queue'[k] # "query" <=> link # "open" /\ k = Len(msg_queue')
<1>1. /\ msg_queue \in Seq(Session!Message) /\ msg_queue # <<>> /\ msg_queue[1] = m
      /\ msg_queue' = Tail(msg_queue)
  BY DEF Session!Handles, Session!TypeOK
<1>2. /\ Len(msg_queue) \in Nat /\ Len(msg_queue) # 0 /\ DOMAIN msg_queue = 1 .. Len(msg_queue)
  BY <1>1, EmptySeq, LenProperties
<1>3. /\ Tail(msg_queue) \in Seq(Session!Message) /\ Len(Tail(msg_queue)) = Len(msg_queue) - 1
      /\ \A k \in 1 .. Len(Tail(msg_queue)) : Tail(msg_queue)[k] = msg_queue[k + 1]
  BY <1>1, HeadTailProperties
<1>4. DOMAIN Tail(msg_queue) = 1 .. Len(Tail(msg_queue)) /\ Len(Tail(msg_queue)) \in Nat
  BY <1>3, LenProperties
<1>5. Len(Tail(msg_queue)) = 0 <=> Tail(msg_queue) = <<>>
  BY <1>3, EmptySeq
<1>6. m # "query" => Len(msg_queue) = 1
  BY <1>1, <1>2 DEF Session!QueriesCounted
<1>7. \A k \in DOMAIN msg_queue' : msg_queue'[k] # "query" <=>
        link # "open" /\ k = Len(msg_queue')
  <2> SUFFICES ASSUME NEW k \in DOMAIN msg_queue'
               PROVE  msg_queue'[k] # "query" <=> link # "open" /\ k = Len(msg_queue')
    OBVIOUS
  <2>1. k + 1 \in DOMAIN msg_queue /\ msg_queue'[k] = msg_queue[k + 1] /\ k \in Nat
    BY <1>1, <1>2, <1>3, <1>4
  <2>2. k + 1 = Len(msg_queue) <=> k = Len(msg_queue')
    BY <1>1, <1>2, <1>3, <1>4, <2>1
  <2> QED BY <2>1, <2>2 DEF Session!QueriesCounted
<1> QED BY <1>1, <1>2, <1>3, <1>4, <1>5, <1>6, <1>7

(* A read message is the last, and ends the reading unless it is a query.  *)
LEMMA ReadKeeps ==
  ASSUME Session!SessionAssumption, Session!SessionInvariant, NEW m \in Session!Message,
         Session!Read(m)
  PROVE  Session!SessionInvariant'
<1> USE DEF Session!SessionInvariant
<1>1. /\ msg_queue \in Seq(Session!Message) /\ Len(msg_queue) \in Nat
      /\ DOMAIN msg_queue = 1 .. Len(msg_queue) /\ msg_queue' = Append(msg_queue, m)
  BY LenProperties DEF Session!TypeOK, Session!Read
<1>2. /\ msg_queue' \in Seq(Session!Message) /\ Len(msg_queue') = Len(msg_queue) + 1
      /\ \A k \in 1 .. Len(msg_queue) : msg_queue'[k] = msg_queue[k]
      /\ msg_queue'[Len(msg_queue) + 1] = m
      /\ msg_queue' # <<>>
  BY <1>1, AppendProperties
<1>3. DOMAIN msg_queue' = 1 .. Len(msg_queue) + 1
  BY <1>2, LenProperties
<1>4. Session!TypeOK'
  <2>1. /\ link' \in {"open", "closed", "gone"} /\ asked' \in 0 .. MaxQueries
        /\ msg_queue' \in Seq(Session!Message)
    BY <1>2 DEF Session!TypeOK, Session!Read, Session!SessionAssumption
  <2>2. UNCHANGED <<processor, query_task, Session!ids, begun, query_turn, query_cancelled,
          request, Session!speaking>>
    BY DEF Session!Read
  <2> QED BY <2>1, <2>2 DEF Session!TypeOK, Session!ids, Session!speaking
<1>5. Session!QueriesCounted'
  <2>1. link = "open" /\ (link' = "open" <=> m = "query") /\ processor' = processor /\
          begun' = begun
    BY DEF Session!Read, Session!Message
  <2>2. \A k \in DOMAIN msg_queue' : msg_queue'[k] # "query" <=>
          link' # "open" /\ k = Len(msg_queue')
    BY <1>1, <1>2, <1>3, <2>1 DEF Session!QueriesCounted
  <2>3. /\ begun + Len(msg_queue) + (IF Session!QueryInHand THEN 1 ELSE 0) =< asked
        /\ begun \in Nat /\ asked \in Nat /\ (Session!QueryInHand' <=> Session!QueryInHand)
    BY <2>1 DEF Session!QueriesCounted, Session!EndQueued, Session!TypeOK, Session!QueryInHand
  <2>4. asked' + (IF Session!EndQueued' THEN 1 ELSE 0) = asked + 1
    BY <1>2, <2>1, <2>3 DEF Session!EndQueued, Session!Read
  <2>5. begun' + Len(msg_queue') + (IF Session!QueryInHand' THEN 1 ELSE 0) =<
          asked' + (IF Session!EndQueued' THEN 1 ELSE 0)
    BY <1>1, <1>2, <2>1, <2>3, <2>4
  <2> QED BY <2>2, <2>5 DEF Session!QueriesCounted
<1>6. Session!OneTurn' /\ Session!GeneratorHeld' /\ Session!SpokeLast'
  BY DEF Session!Read, Session!OneTurn, Session!GeneratorHeld, Session!SpokeLast, Session!Live,
    Session!ids, Session!speaking
<1> QED BY <1>4, <1>5, <1>6

(* The processor keeps count of the queries.                               *)
LEMMA QueriesCountedKept ==
  ASSUME Session!SessionAssumption, Session!SessionInvariant, Session!Process
  PROVE  Session!QueriesCounted' /\ msg_queue' \in Seq(Session!Message) /\
         begun' \in 0 .. MaxQueries
<1> USE DEF Session!SessionInvariant
<1>t. /\ msg_queue \in Seq(Session!Message) /\ begun \in 0 .. MaxQueries /\
           asked \in 0 .. MaxQueries
      /\ Len(msg_queue) \in Nat
      /\ (Len(msg_queue) = 0 <=> msg_queue = <<>>)
  BY EmptySeq, LenProperties DEF Session!TypeOK
<1>1. CASE Session!Query
  <2>1. Session!Handles("query")
    BY <1>1 DEF Session!Query
  <2>2. /\ processor = "get" /\ processor' \in {"interrupting", "asking"} /\ begun' = begun
        /\ asked' = asked /\ link' = link
    BY <1>1 DEF Session!Query, Session!Handles, Session!Interrupt, Session!reading
  <2>3. Session!TypeOK /\ Session!QueriesCounted
    BY DEF Session!SessionInvariant
  <2> HIDE DEF Session!SessionInvariant
  <2>4. /\ msg_queue' \in Seq(Session!Message) /\ msg_queue # <<>> /\
             Len(msg_queue') = Len(msg_queue) - 1
        /\ msg_queue' # <<>> => Len(msg_queue') > 0
        /\ \A k \in DOMAIN msg_queue' : msg_queue'[k] # "query" <=>
             link # "open" /\ k = Len(msg_queue')
    BY <2>1, <2>3, MessageHandled
  <2>5. CASE link = "open"
    BY <1>t, <2>2, <2>3, <2>4, <2>5 DEF Session!QueriesCounted, Session!QueryInHand,
      Session!EndQueued
  <2>6. CASE link # "open"
    <3>1. msg_queue[1] = "query" /\ 1 \in DOMAIN msg_queue
      BY <1>t, <2>1, <2>4 DEF Session!Handles
    <3>2. Len(msg_queue) # 1
      BY <2>3, <2>6, <3>1 DEF Session!QueriesCounted
    <3> QED BY <1>t, <2>2, <2>3, <2>4, <2>6, <3>2 DEF Session!QueriesCounted, Session!QueryInHand,
      Session!EndQueued
  <2> QED BY <2>5, <2>6
<1>2. ASSUME NEW m \in {"done", "timeout", "disconnect", "malformed"},
             (Session!Finish /\ m = "done") \/ Session!Leave(m)
      PROVE  Session!QueriesCounted' /\ msg_queue' \in Seq(Session!Message) /\
             begun' \in 0 .. MaxQueries
  <2>1. Session!Handles(m)
    BY <1>2 DEF Session!Finish, Session!Leave
  <2>2. /\ processor = "get" /\ processor' \notin {"interrupting", "asking", "aborting"}
        /\ begun' = begun /\ asked' = asked /\ link' = link
    BY <1>2 DEF Session!Finish, Session!Leave, Session!Handles, Session!reading
  <2>3. /\ msg_queue' \in Seq(Session!Message) /\ msg_queue' = <<>> /\ Len(msg_queue') = 0 /\
             Len(msg_queue) = 1
        /\ \A k \in DOMAIN msg_queue' : msg_queue'[k] # "query" <=>
             link # "open" /\ k = Len(msg_queue')
    <3>1. m # "query"
      OBVIOUS
    <3> HIDE DEF Session!SessionInvariant
    <3>2. Session!TypeOK /\ Session!QueriesCounted
      BY DEF Session!SessionInvariant
    <3>3. msg_queue' \in Seq(Session!Message) /\ msg_queue' = <<>> /\ Len(msg_queue') = 0 /\
            Len(msg_queue') = Len(msg_queue) - 1
      BY <2>1, <3>1, <3>2, MessageHandled
    <3> QED BY <1>t, <2>1, <3>2, <3>3, MessageHandled
  <2>4. begun =< asked /\ ~Session!QueryInHand' /\ ~Session!EndQueued'
    BY <1>t, <2>2, <2>3 DEF Session!QueriesCounted, Session!QueryInHand, Session!EndQueued
  <2> QED BY <1>t, <2>2, <2>3, <2>4 DEF Session!QueriesCounted
<1>3. CASE Session!Begin
  <2>1. /\ Session!QueryInHand /\ ~Session!QueryInHand' /\ begun' = begun + 1
        /\ UNCHANGED <<asked, link, msg_queue>>
    BY <1>3 DEF Session!Begin, Session!QueryInHand, Session!reading
  <2>2. begun + 1 =< asked
    BY <1>t, <2>1 DEF Session!QueriesCounted, Session!EndQueued
  <2> QED BY <1>t, <2>1, <2>2 DEF Session!QueriesCounted, Session!EndQueued,
    Session!SessionAssumption
<1>4. CASE Session!Interrupted \/ Session!Refuse \/ Session!AbortPrevious \/ Session!SayDone \/
           Session!CancelLast \/ Session!Left
  <2>1. UNCHANGED <<asked, link, msg_queue, begun>> /\ (Session!QueryInHand' =>
          Session!QueryInHand)
    BY <1>4 DEF Session!Interrupted, Session!Refuse, Session!AbortPrevious, Session!SayDone,
      Session!CancelLast, Session!Left, Session!QueryInHand, Session!reading, Session!Interrupt
  <2> QED BY <1>t, <2>1 DEF Session!QueriesCounted, Session!EndQueued
<1> QED BY <1>1, <1>2, <1>3, <1>4 DEF Session!Process

LEMMA ProcessKeepsTypes ==
  ASSUME Session!SessionAssumption, Session!SessionInvariant, Session!Process
  PROVE  Session!TypeOK'
<1> USE DEF Session!SessionInvariant
<1>1. msg_queue' \in Seq(Session!Message) /\ begun' \in 0 .. MaxQueries
  BY QueriesCountedKept
<1>u. /\ link' = link /\ asked' = asked /\ query_outputs' = query_outputs /\ dropped' = dropped
      /\ (prev_request_id' = prev_request_id)
  BY DEF Session!Process, Session!Query, Session!Interrupted, Session!Refuse,
    Session!AbortPrevious, Session!Begin, Session!Finish, Session!SayDone, Session!Leave,
    Session!CancelLast, Session!Left, Session!reading, Session!speaking, Session!ids
<1>2. query_cancelled' \in SUBSET Session!Turn
  <2>1. Session!Live(query_task) => query_task \in Session!Turn
    BY DEF Session!Live, Session!None, Session!Turn, Session!TypeOK, Session!SessionAssumption
  <2> QED BY <2>1 DEF Session!TypeOK, Session!Process, Session!Query, Session!Interrupted,
    Session!Refuse, Session!AbortPrevious, Session!Begin, Session!Finish, Session!SayDone,
    Session!Leave, Session!CancelLast, Session!Left, Session!Interrupt
<1>3. request' \in [Session!Turn -> {"none", "running", "finished", "failed", "aborted"}]
  BY DEF Session!TypeOK, Session!Process, Session!Query, Session!Interrupted, Session!Refuse,
    Session!AbortPrevious, Session!Begin, Session!Finish, Session!SayDone, Session!Leave,
    Session!CancelLast, Session!Left, Session!Aborted
<1>4. query_turn' \in [Session!Turn -> Session!Over \cup {"created", "preparing", "starting",
        "streaming", "sending",
                                  "finishing"}]
  BY DEF Session!TypeOK, Session!Process, Session!Query, Session!Interrupted, Session!Refuse,
    Session!AbortPrevious, Session!Begin, Session!Finish, Session!SayDone, Session!Leave,
    Session!CancelLast, Session!Left
<1>5. /\ processor' \in {"get", "interrupting", "asking", "aborting", "finishing", "leaving",
           "left",
                    "over"}
      /\ {query_task', active_request_id'} \subseteq 0 .. MaxQueries
      /\ prev_was_interrupted' \in BOOLEAN /\ interrupt_event' \in BOOLEAN
      /\ wire' \in 0 .. Session!SessionDone
  <2>1. 0 \in 0 .. MaxQueries /\ Session!SessionDone \in 0 .. Session!SessionDone
    BY DEF Session!SessionAssumption, Session!SessionDone
  <2>2. query_task' \in {query_task, begun', 0} /\ active_request_id' \in {active_request_id,
          begun'}
    BY DEF Session!Process, Session!Query, Session!Interrupted, Session!Refuse,
      Session!AbortPrevious, Session!Begin, Session!Finish, Session!SayDone, Session!Leave,
      Session!CancelLast, Session!Left, Session!Interrupt, Session!ids, Session!None
  <2>3. wire' \in {wire, Session!SessionDone}
    BY DEF Session!Process, Session!Query, Session!Interrupted, Session!Refuse,
      Session!AbortPrevious, Session!Begin, Session!Finish, Session!SayDone, Session!Leave,
      Session!CancelLast, Session!Left, Session!speaking
  <2>4. /\ processor' \in {"get", "interrupting", "asking", "aborting", "finishing", "leaving",
             "left",
                           "over"}
        /\ prev_was_interrupted' \in BOOLEAN /\ interrupt_event' \in BOOLEAN
    BY DEF Session!TypeOK, Session!Process, Session!Query, Session!Interrupted, Session!Refuse,
      Session!AbortPrevious, Session!Begin, Session!Finish, Session!SayDone, Session!Leave,
      Session!CancelLast, Session!Left, Session!Interrupt, Session!ids
  <2> QED BY <1>1, <2>1, <2>2, <2>3, <2>4 DEF Session!TypeOK
<1> QED BY <1>1, <1>u, <1>2, <1>3, <1>4, <1>5 DEF Session!TypeOK

LEMMA ProcessKeepsTurns ==
  ASSUME Session!SessionAssumption, Session!SessionInvariant, Session!Process
  PROVE  Session!OneTurn' /\ Session!GeneratorHeld' /\ Session!SpokeLast'
<1> USE DEF Session!SessionInvariant
<1>0. begun' \in 0 .. MaxQueries
  BY QueriesCountedKept
<1>1. CASE Session!Begin
  <2>1. \A q \in Session!Turn : ~Session!Live(q)
    BY <1>1 DEF Session!Begin, Session!OneTurn
  <2>2. begun \in Nat /\ begun' = begun + 1 /\ begun' \in Session!Turn /\ begun' # Session!None
    BY <1>0, <1>1 DEF Session!Begin, Session!TypeOK, Session!Turn, Session!None,
      Session!SessionAssumption
  <2>a. begun' > begun
    BY <2>2
  <2>3. query_turn' = [query_turn EXCEPT ![begun'] = "created"] /\ query_turn[begun'] = "none"
    BY <1>1, <2>2, <2>a DEF Session!Begin, Session!OneTurn
  <2>4. \A q \in Session!Turn : q # begun' => query_turn'[q] = query_turn[q]
    BY <2>3 DEF Session!TypeOK
  <2>5. Session!OneTurn'
    <3>1. \A q \in Session!Turn : Session!Live(q)' => q = begun'
      BY <2>1, <2>4 DEF Session!Live
    <3>2. query_task' = begun' /\ active_request_id' = begun' /\ processor' = "get"
      BY <1>1 DEF Session!Begin
    <3>3. \A q \in Session!Turn : q > begun' => query_turn'[q] = "none"
      BY <2>2, <2>4 DEF Session!OneTurn, Session!Turn, Session!SessionAssumption
    <3> QED BY <3>1, <3>2, <3>3 DEF Session!OneTurn
  <2>6. Session!GeneratorHeld'
    BY <1>1, <2>2, <2>3, <2>4 DEF Session!GeneratorHeld, Session!Begin, Session!speaking
  <2>7. Session!SpokeLast'
    BY <1>1, <2>2 DEF Session!SpokeLast, Session!Begin, Session!TypeOK, Session!speaking,
      Session!SessionDone, Session!SessionAssumption
  <2> QED BY <2>5, <2>6, <2>7
<1>2. CASE ~Session!Begin
  <2>1. /\ UNCHANGED <<begun, query_turn, active_request_id>> /\ dropped' = dropped
        /\ \A q \in Session!Turn : request'[q] = "running" => request[q] = "running"
    BY <1>2 DEF Session!Process, Session!Query, Session!Interrupted, Session!Refuse,
      Session!AbortPrevious, Session!Finish, Session!SayDone, Session!Leave, Session!CancelLast,
      Session!Left, Session!ids, Session!speaking, Session!Aborted, Session!TypeOK
  <2>2. Session!GeneratorHeld'
    BY <2>1 DEF Session!GeneratorHeld
  <2>3. Session!SpokeLast'
    BY <1>2, <2>1 DEF Session!SpokeLast, Session!Process, Session!Query, Session!Interrupted,
      Session!Refuse, Session!AbortPrevious, Session!Finish, Session!SayDone, Session!Leave,
      Session!CancelLast, Session!Left, Session!Interrupt, Session!Handles, Session!speaking
  <2>4. \A q \in Session!Turn : Session!Live(q)' <=> Session!Live(q)
    BY <2>1 DEF Session!Live
  <2>5. ASSUME \A q \in Session!Turn : ~Session!Live(q) PROVE Session!OneTurn'
    <3>1. \A q \in Session!Turn : ~Session!Live(q)'
      BY <2>4, <2>5
    <3>2. \A q \in Session!Turn : q > begun' => query_turn'[q] = "none"
      BY <2>1 DEF Session!OneTurn
    <3> QED BY <3>1, <3>2 DEF Session!OneTurn
  <2>6. ASSUME \E q \in Session!Turn : Session!Live(q) PROVE Session!OneTurn'
    <3>1. PICK q \in Session!Turn : Session!Live(q)
      BY <2>6
    <3>2. query_task = q /\ active_request_id = q /\ q # Session!None /\ Session!Live(query_task)
      BY <3>1 DEF Session!OneTurn, Session!Live
    <3>3. query_task' = query_task /\ processor' \notin {"asking", "aborting", "over"}
      BY <1>2, <3>1, <3>2 DEF Session!OneTurn, Session!Process, Session!Query,
        Session!Interrupted, Session!Refuse, Session!AbortPrevious, Session!Finish,
        Session!SayDone, Session!Leave, Session!CancelLast, Session!Left, Session!Interrupt
    <3>4. \A r \in Session!Turn : Session!Live(r)' =>
            r = begun' /\ query_task' = r /\ active_request_id' = r
      BY <2>1, <2>4, <3>3 DEF Session!OneTurn
    <3>5. \A r \in Session!Turn : r > begun' => query_turn'[r] = "none"
      BY <2>1 DEF Session!OneTurn
    <3> QED BY <3>3, <3>4, <3>5 DEF Session!OneTurn
  <2> QED BY <2>2, <2>3, <2>5, <2>6
<1> QED BY <1>1, <1>2

(* A step of a turn under way.                                             *)
LEMMA TurnKeeps ==
  ASSUME Session!SessionAssumption, Session!SessionInvariant, NEW q \in Session!Turn,
         Session!TurnStep(q)
  PROVE  Session!SessionInvariant'
<1> USE DEF Session!SessionInvariant
<1>1. UNCHANGED <<link, asked, msg_queue, processor, query_task, begun, query_cancelled>>
  BY DEF Session!TurnStep, Session!reading
<1>2. /\ Session!Live(q) /\ q = begun /\ query_task = q /\ active_request_id = q /\
           q # Session!None /\ q \in 1 .. MaxQueries
      /\ processor \notin {"asking", "aborting", "over"}
  <2>1. Session!Live(q)
    BY DEF Session!TurnStep, Session!StartTurn, Session!Prepared, Session!Submit, Session!Output,
      Session!Sent, Session!SendFails, Session!StreamEnds, Session!EndTurn, Session!Cancelled,
      Session!At, Session!Live, Session!Turn, Session!None, Session!SessionAssumption,
      Session!Over
  <2> QED BY <2>1 DEF Session!OneTurn, Session!Live, Session!Turn
<1>3. Session!TypeOK'
  <2>1. query_turn' \in [Session!Turn -> Session!Over \cup {"created", "preparing", "starting",
          "streaming", "sending",
                                  "finishing"}]
    BY DEF Session!TurnStep, Session!StartTurn, Session!Prepared, Session!Submit, Session!Output,
      Session!Sent, Session!SendFails, Session!StreamEnds, Session!EndTurn, Session!Cancelled,
      Session!Goes, Session!Ends, Session!TypeOK, Session!Over
  <2>2. request' \in [Session!Turn -> {"none", "running", "finished", "failed", "aborted"}]
    BY DEF Session!TurnStep, Session!StartTurn, Session!Prepared, Session!Submit, Session!Output,
      Session!Sent, Session!SendFails, Session!StreamEnds, Session!EndTurn, Session!Cancelled,
      Session!Aborted, Session!TypeOK
  <2>3. query_outputs' \in [Session!Turn -> 0 .. MaxOutputs]
    <3>1. CASE Session!Output(q)
      <4>1. query_outputs[q] - 1 \in 0 .. MaxOutputs
        BY <3>1 DEF Session!Output, Session!TypeOK, Session!SessionAssumption
      <4> QED BY <3>1, <4>1 DEF Session!Output, Session!TypeOK
    <3>2. CASE ~Session!Output(q)
      BY <3>2 DEF Session!TurnStep, Session!StartTurn, Session!Prepared, Session!Submit,
        Session!Sent, Session!SendFails, Session!StreamEnds, Session!EndTurn, Session!Cancelled,
        Session!speaking, Session!TypeOK
    <3> QED BY <3>1, <3>2
  <2>4. /\ dropped' \in SUBSET Session!Turn /\ wire' \in 0 .. Session!SessionDone
        /\ {active_request_id', prev_request_id'} \subseteq 0 .. MaxQueries
        /\ prev_was_interrupted' \in BOOLEAN /\ interrupt_event' \in BOOLEAN
    <3>1. 0 \in 0 .. MaxQueries /\ q \in 0 .. MaxQueries /\ q \in 0 .. Session!SessionDone
      BY <1>2 DEF Session!SessionAssumption, Session!SessionDone
    <3>2. /\ wire' \in {wire, q} /\ dropped' \in {dropped, dropped \cup {q}}
          /\ prev_was_interrupted' = prev_was_interrupted /\ interrupt_event' = interrupt_event
          /\ active_request_id' \in {active_request_id, 0} /\
               prev_request_id' \in {prev_request_id, q}
      BY DEF Session!TurnStep, Session!StartTurn, Session!Prepared, Session!Submit,
        Session!Output, Session!Sent, Session!SendFails, Session!StreamEnds, Session!EndTurn,
        Session!Cancelled, Session!Goes, Session!Ends, Session!speaking, Session!ids, Session!None
    <3> QED BY <3>1, <3>2 DEF Session!TypeOK
  <2> QED BY <1>1, <2>1, <2>2, <2>3, <2>4 DEF Session!TypeOK
<1>4. Session!QueriesCounted'
  BY <1>1 DEF Session!QueriesCounted, Session!QueryInHand, Session!EndQueued
<1>5. \A r \in Session!Turn : r # q => query_turn'[r] = query_turn[r] /\ request'[r] = request[r]
  BY DEF Session!TurnStep, Session!StartTurn, Session!Prepared, Session!Submit, Session!Output,
    Session!Sent, Session!SendFails, Session!StreamEnds, Session!EndTurn, Session!Cancelled,
    Session!Goes, Session!Ends, Session!Aborted, Session!TypeOK
<1>6. Session!OneTurn'
  <2>1. Session!Live(q)' => active_request_id' = q
    BY <1>2 DEF Session!TurnStep, Session!StartTurn, Session!Prepared, Session!Submit,
      Session!Output, Session!Sent, Session!SendFails, Session!StreamEnds, Session!EndTurn,
      Session!Cancelled, Session!Goes, Session!Ends, Session!Live, Session!Over, Session!ids,
      Session!TypeOK
  <2>2. \A r \in Session!Turn : r # q => ~Session!Live(r)'
    BY <1>2, <1>5 DEF Session!OneTurn, Session!Live
  <2>3. \A r \in Session!Turn : r > begun => r # q
    BY <1>2 DEF Session!Turn, Session!SessionAssumption
  <2> QED BY <1>1, <1>2, <1>5, <2>1, <2>2, <2>3 DEF Session!OneTurn
<1>7. Session!GeneratorHeld'
  <2>1. dropped \subseteq dropped'
    BY DEF Session!TurnStep, Session!StartTurn, Session!Prepared, Session!Submit, Session!Output,
      Session!Sent, Session!SendFails, Session!StreamEnds, Session!EndTurn, Session!Cancelled,
      Session!speaking
  <2>2. request'[q] = "running" => q \in dropped' \/ query_turn'[q] \in {"streaming", "sending"}
    BY DEF Session!TurnStep, Session!StartTurn, Session!Prepared, Session!Submit, Session!Output,
      Session!Sent, Session!SendFails, Session!StreamEnds, Session!EndTurn, Session!Cancelled,
      Session!Goes, Session!Ends, Session!Aborted, Session!TypeOK, Session!speaking, Session!At,
      Session!GeneratorHeld
  <2> QED BY <1>5, <2>1, <2>2 DEF Session!GeneratorHeld
<1>8. Session!SpokeLast'
  <2>1. wire' \in {wire, q}
    BY DEF Session!TurnStep, Session!StartTurn, Session!Prepared, Session!Submit, Session!Output,
      Session!Sent, Session!SendFails, Session!StreamEnds, Session!EndTurn, Session!Cancelled,
      Session!speaking
  <2> QED BY <1>1, <1>2, <2>1 DEF Session!SpokeLast
<1> QED BY <1>3, <1>4, <1>6, <1>7, <1>8

LEMMA EngineKeeps ==
  ASSUME Session!SessionAssumption, Session!SessionInvariant, NEW q \in Session!Turn,
         Session!CloseGenerator(q) \/ \E how \in {"finished", "failed"} :
           Session!EngineEnds(q, how)
  PROVE  Session!SessionInvariant'
<1> USE DEF Session!SessionInvariant
<1>1. /\ UNCHANGED <<link, asked, msg_queue, processor, query_task, begun, query_cancelled,
           query_turn, query_outputs, wire>>
      /\ UNCHANGED Session!ids /\ dropped' \in SUBSET Session!Turn
      /\ \A r \in Session!Turn : r # q => request'[r] = request[r] /\ (r \in dropped =>
           r \in dropped')
      /\ request'[q] # "running"
      /\ request' \in [Session!Turn -> {"none", "running", "finished", "failed", "aborted"}]
  BY DEF Session!CloseGenerator, Session!EngineEnds, Session!reading, Session!speaking,
    Session!Aborted, Session!TypeOK
<1>2. Session!TypeOK'
  BY <1>1 DEF Session!TypeOK, Session!ids
<1>3. Session!QueriesCounted' /\ Session!OneTurn' /\ Session!GeneratorHeld' /\ Session!SpokeLast'
  BY <1>1 DEF Session!QueriesCounted, Session!QueryInHand, Session!EndQueued, Session!OneTurn,
    Session!Live, Session!ids, Session!GeneratorHeld, Session!SpokeLast
<1> QED BY <1>2, <1>3

LEMMA StepSession ==
  ASSUME Session!SessionAssumption, Session!SessionInvariant,
         [Session!SessionNext]_Session!session_vars
  PROVE  Session!SessionInvariant'
<1>1. ASSUME NEW m \in Session!Message, Session!Read(m) PROVE Session!SessionInvariant'
  BY <1>1, ReadKeeps
<1>2. CASE Session!Process
  BY <1>2, QueriesCountedKept, ProcessKeepsTypes, ProcessKeepsTurns DEF Session!SessionInvariant
<1>t. 1 .. begun \subseteq Session!Turn
  BY DEF Session!SessionInvariant, Session!TypeOK, Session!Turn, Session!SessionAssumption
<1>3. ASSUME NEW q \in 1 .. begun, Session!TurnStep(q) PROVE Session!SessionInvariant'
  BY <1>t, <1>3, TurnKeeps
<1>4. ASSUME NEW q \in 1 .. begun, Session!CloseGenerator(q) \/ \E how \in {"finished",
             "failed"} : Session!EngineEnds(q, how)
      PROVE  Session!SessionInvariant'
  BY <1>t, <1>4, EngineKeeps
<1>5. CASE UNCHANGED Session!session_vars
  BY <1>5 DEF Session!SessionInvariant, Session!TypeOK, Session!session_vars,
    Session!QueriesCounted, Session!QueryInHand, Session!EndQueued, Session!OneTurn, Session!Live,
    Session!GeneratorHeld, Session!SpokeLast
<1> QED BY <1>1, <1>2, <1>3, <1>4, <1>5 DEF Session!SessionNext, Session!SessionStep,
  Session!Message

LEMMA SessionIsSound == ASSUME Session!SessionAssumption, Session!SessionInvariant
  PROVE Session!OneRequest
<1>1. \A q \in Session!Turn : request[q] = "running" => q = active_request_id \/ q \in dropped
  <2> SUFFICES ASSUME NEW q \in Session!Turn, request[q] = "running", q \notin dropped
                      PROVE q = active_request_id
    OBVIOUS
  <2>1. Session!Live(q)
    BY DEF Session!SessionInvariant, Session!GeneratorHeld, Session!Live, Session!Over,
      Session!Turn, Session!None
  <2> QED BY <2>1 DEF Session!SessionInvariant, Session!OneTurn
<1> QED BY <1>1 DEF Session!SessionInvariant, Session!OneTurn, Session!OneRequest

(* What speaks is the turn under way, and session.done after all of them.  *)
LEMMA StepSpeaksInOrder ==
  ASSUME Session!SessionAssumption, Session!SessionInvariant,
         [Session!SessionNext]_Session!session_vars
  PROVE  wire' >= wire
<1>0. wire \in Nat /\ begun \in 0 .. MaxQueries /\ Session!SessionDone = MaxQueries + 1
  BY DEF Session!SessionInvariant, Session!TypeOK, Session!SessionDone, Session!SessionAssumption
<1>1. ASSUME NEW q \in 1 .. begun, Session!TurnStep(q) PROVE wire' >= wire
  <2>1. Session!Live(q) /\ q \in Session!Turn
    BY <1>0, <1>1 DEF Session!TurnStep, Session!StartTurn, Session!Prepared, Session!Submit,
      Session!Output, Session!Sent, Session!SendFails, Session!StreamEnds, Session!EndTurn,
      Session!Cancelled, Session!At, Session!Live, Session!Turn, Session!None,
      Session!SessionAssumption, Session!Over
  <2>2. q = begun /\ processor # "over"
    BY <2>1 DEF Session!SessionInvariant, Session!OneTurn
  <2>3. wire' \in {wire, q}
    BY <1>1 DEF Session!TurnStep, Session!StartTurn, Session!Prepared, Session!Submit,
      Session!Output, Session!Sent, Session!SendFails, Session!StreamEnds, Session!EndTurn,
      Session!Cancelled, Session!speaking
  <2> QED BY <1>0, <2>2, <2>3 DEF Session!SessionInvariant, Session!SpokeLast
<1>2. CASE Session!SayDone
  BY <1>0, <1>2 DEF Session!SayDone, Session!SessionInvariant, Session!SpokeLast,
    Session!SessionAssumption
<1>3. CASE wire' = wire
  BY <1>0, <1>3
<1>4. [Session!SessionNext]_Session!session_vars =>
       wire' = wire \/ Session!SayDone \/ (\E q \in 1 .. begun : Session!TurnStep(q))
  BY DEF Session!SessionNext, Session!SessionStep, Session!Process, Session!Read, Session!Query,
    Session!Interrupted, Session!Refuse, Session!AbortPrevious, Session!Begin, Session!Finish,
    Session!Leave, Session!CancelLast, Session!Left, Session!speaking, Session!EngineEnds,
    Session!CloseGenerator, Session!session_vars
<1> QED BY <1>1, <1>2, <1>3, <1>4

-------------------------------------------------------------------------------
(* The jobs that make videos, and calls of DELETE.                         *)

LEMMA InitVideos == ASSUME Videos!VideoInit PROVE Videos!VideosInvariant
  BY DEF Videos!VideoInit, Videos!VideosInvariant, Videos!TypeOK, Videos!EntryMatches,
    Videos!FileMatches, Videos!DeleteMatches, Videos!VideosSound, Videos!Being, Videos!NoCall

Where == {"cancelling", "slot", "removing", "removed", "deleted", "conflict", "not found"}

(* Where a call of DELETE is.                                              *)
LEMMA CallOf ==
  ASSUME Videos!TypeOK, NEW d \in Deletes, deleting[d] # Videos!NoCall
  PROVE  /\ deleting[d] \in Video \X Where
         /\ deleting[d][1] \in Video
         /\ deleting[d][2] \in Where
<1>1. deleting[d] \in Video \X Where
  BY DEF Videos!TypeOK, Where
<1>2. \A x \in Video \X Where : x[1] \in Video /\ x[2] \in Where
  OBVIOUS
<1> QED BY <1>1, <1>2

(* A call has gone on.                                                     *)
LEMMA CallGone ==
  ASSUME Videos!TypeOK, NEW d \in Deletes, NEW v \in Video, NEW where \in Where, Videos!Goes(d,
         v, where)
  PROVE  /\ deleting' \in [Deletes -> {Videos!NoCall} \cup (Video \X Where)]
         /\ deleting'[d] = <<v, where>> /\ deleting'[d][1] = v /\ deleting'[d][2] = where
         /\ \A e \in Deletes \ {d} : deleting'[e] = deleting[e]
<1>1. deleting \in [Deletes -> {Videos!NoCall} \cup (Video \X Where)]
  BY DEF Videos!TypeOK, Where
<1>2. <<v, where>> \in Video \X Where
  OBVIOUS
<1> QED BY <1>1, <1>2 DEF Videos!Goes

(* A step of a job keeps what is said of the others, ...                   *)
LEMMA OthersKept ==
  ASSUME Videos!VideosInvariant, NEW v \in Video, Videos!CreateVideo(v) \/ Videos!JobStep(v)
  PROVE  /\ Videos!TypeOK'
         /\ deleting' = deleting /\ created \subseteq created'
         /\ \A w \in Video \ {v} :
              /\ video_store'[w] = video_store[w] /\ video_task'[w] = video_task[w]
              /\ saving'[w] = saving[w] /\ (w \in files' <=> w \in files)
              /\ (w \in video_cancel' <=> w \in video_cancel) /\ (w \in created' <=>
                   w \in created)
<1> USE DEF Videos!VideosInvariant
<1>1. /\ deleting' = deleting /\ created \subseteq created' /\ created' \in SUBSET Video
      /\ \A w \in Video \ {v} : (w \in created' <=> w \in created)
  BY DEF Videos!TypeOK, Videos!CreateVideo, Videos!JobStep, Videos!Generate, Videos!Generated,
    Videos!BeginSave, Videos!Complete, Videos!Fail, Videos!CancelJob, Videos!BeginWrite,
    Videos!EndWrite
<1>2. /\ video_store' \in [Video -> {"absent", "queued", "in_progress", "completed", "failed"}]
      /\ \A w \in Video \ {v} : video_store'[w] = video_store[w]
  <2>1. \/ video_store' = video_store
        \/ \E t \in {"absent", "queued", "in_progress", "completed", "failed"} :
             video_store' = [video_store EXCEPT ![v] = t]
    BY DEF Videos!CreateVideo, Videos!JobStep, Videos!Generate, Videos!Generated,
      Videos!BeginSave, Videos!Complete, Videos!Fail, Videos!CancelJob, Videos!BeginWrite,
      Videos!EndWrite, Videos!Updated
  <2> QED BY <2>1 DEF Videos!TypeOK
<1>3. /\ video_task' \in [Video -> {"none", "created", "generating", "slot", "saving", "ended"}]
      /\ \A w \in Video \ {v} : video_task'[w] = video_task[w]
  <2>1. \/ video_task' = video_task
        \/ \E t \in {"none", "created", "generating", "slot", "saving", "ended"} :
             video_task' = [video_task EXCEPT ![v] = t]
    BY DEF Videos!CreateVideo, Videos!JobStep, Videos!Generate, Videos!Generated,
      Videos!BeginSave, Videos!Complete, Videos!Fail, Videos!CancelJob, Videos!BeginWrite,
      Videos!EndWrite
  <2> QED BY <2>1 DEF Videos!TypeOK
<1>4. /\ saving' \in [Video -> {"none", "queued", "writing", "written", "failed", "abandoned"}]
      /\ \A w \in Video \ {v} : saving'[w] = saving[w]
  <2>1. \E s \in {"none", "queued", "writing", "written", "failed", "abandoned"} :
          saving' = [saving EXCEPT ![v] = s]
    <3>1. saving[v] \in {"none", "queued", "writing", "written", "failed", "abandoned"}
      BY DEF Videos!TypeOK
    <3>2. CASE saving' = saving
      BY <3>1, <3>2 DEF Videos!TypeOK
    <3>3. CASE Videos!CancelJob(v)
      BY <3>1, <3>3 DEF Videos!CancelJob
    <3>4. CASE Videos!EndWrite(v)
      BY <3>1, <3>4 DEF Videos!EndWrite
    <3>5. CASE Videos!BeginSave(v) \/ Videos!BeginWrite(v)
      BY <3>5 DEF Videos!BeginSave, Videos!BeginWrite
    <3> QED BY <3>2, <3>3, <3>4, <3>5 DEF Videos!CreateVideo, Videos!JobStep, Videos!Generate,
      Videos!Generated, Videos!Complete, Videos!Fail
  <2> QED BY <2>1 DEF Videos!TypeOK
<1>5. /\ files' \in SUBSET Video /\ video_cancel' \in SUBSET Video
      /\ \A w \in Video \ {v} : (w \in files' <=> w \in files) /\ (w \in video_cancel' <=>
           w \in video_cancel)
  BY DEF Videos!TypeOK, Videos!CreateVideo, Videos!JobStep, Videos!Generate, Videos!Generated,
    Videos!BeginSave, Videos!Complete, Videos!Fail, Videos!CancelJob, Videos!BeginWrite,
    Videos!EndWrite
<1> QED BY <1>1, <1>2, <1>3, <1>4, <1>5 DEF Videos!TypeOK

(* ... its own match, ...                                                  *)
LEMMA OwnKept ==
  ASSUME Videos!VideosInvariant, NEW v \in Video, Videos!CreateVideo(v) \/ Videos!JobStep(v)
  PROVE  Videos!EntryMatches(v)' /\ Videos!FileMatches(v)'
<1>1. Videos!TypeOK /\ Videos!EntryMatches(v) /\ Videos!FileMatches(v)
  BY DEF Videos!VideosInvariant
<1>2. CASE Videos!CreateVideo(v)
  BY <1>1, <1>2 DEF Videos!TypeOK, Videos!CreateVideo, Videos!EntryMatches, Videos!FileMatches
<1>3. CASE Videos!Generate(v)
  BY <1>1, <1>3 DEF Videos!TypeOK, Videos!Generate, Videos!Runs, Videos!Updated,
    Videos!EntryMatches, Videos!FileMatches
<1>4. CASE Videos!Generated(v)
  BY <1>1, <1>4 DEF Videos!TypeOK, Videos!Generated, Videos!Runs, Videos!EntryMatches,
    Videos!FileMatches
<1>5. CASE Videos!BeginSave(v)
  BY <1>1, <1>5 DEF Videos!TypeOK, Videos!BeginSave, Videos!Runs, Videos!EntryMatches,
    Videos!FileMatches
<1>6. CASE Videos!Complete(v)
  BY <1>1, <1>6 DEF Videos!TypeOK, Videos!Complete, Videos!Runs, Videos!Updated,
    Videos!EntryMatches, Videos!FileMatches
<1>7. CASE Videos!Fail(v)
  BY <1>1, <1>7 DEF Videos!TypeOK, Videos!Fail, Videos!Runs, Videos!Updated, Videos!EntryMatches,
    Videos!FileMatches
<1>8. CASE Videos!CancelJob(v)
  BY <1>1, <1>8 DEF Videos!TypeOK, Videos!CancelJob, Videos!EntryMatches, Videos!FileMatches
<1>9. CASE Videos!BeginWrite(v)
  BY <1>1, <1>9 DEF Videos!TypeOK, Videos!BeginWrite, Videos!EntryMatches, Videos!FileMatches
<1>10. CASE Videos!EndWrite(v)
  BY <1>1, <1>10 DEF Videos!TypeOK, Videos!EndWrite, Videos!EntryMatches, Videos!FileMatches
<1> QED BY <1>2, <1>3, <1>4, <1>5, <1>6, <1>7, <1>8, <1>9, <1>10 DEF Videos!JobStep

(* ... and what the calls of DELETE found: a task that ended does nothing, *)
(* and a thread that is left behind does not finish its save.              *)
LEMMA CallsKept ==
  ASSUME Videos!VideosInvariant, NEW v \in Video, Videos!CreateVideo(v) \/ Videos!JobStep(v),
         NEW d \in Deletes
  PROVE  Videos!DeleteMatches(d)'
<1>1. Videos!TypeOK /\ Videos!EntryMatches(v) /\ Videos!FileMatches(v) /\ Videos!DeleteMatches(d)
  BY DEF Videos!VideosInvariant
<1>2. /\ deleting' = deleting /\ created \subseteq created'
      /\ \A w \in Video \ {v} :
              /\ video_store'[w] = video_store[w] /\ video_task'[w] = video_task[w]
              /\ saving'[w] = saving[w] /\ (w \in files' <=> w \in files)
              /\ (w \in video_cancel' <=> w \in video_cancel)
  BY OthersKept
<1>3. deleting[d] # Videos!NoCall => deleting[d][1] \in Video
  BY <1>1, CallOf
<1>4. CASE deleting[d] = Videos!NoCall
  BY <1>2, <1>4 DEF Videos!DeleteMatches
<1>5. CASE deleting[d] # Videos!NoCall /\ deleting[d][1] # v
  BY <1>1, <1>2, <1>3, <1>5 DEF Videos!DeleteMatches
<1>6. CASE deleting[d] # Videos!NoCall /\ deleting[d][1] = v
  <2>0. ~Videos!CreateVideo(v)
    BY <1>1, <1>6 DEF Videos!DeleteMatches, Videos!CreateVideo
  <2>1. video_task[v] = "ended" => /\ video_task'[v] = "ended" /\ v \notin video_cancel
                                   /\ saving[v] = "written" => saving'[v] = "written"
                                   /\ saving[v] # "written" => saving'[v] # "written"
                                   /\ saving[v] = "written" => files' = files
    BY <1>1, <2>0 DEF Videos!TypeOK, Videos!EntryMatches, Videos!FileMatches, Videos!JobStep,
      Videos!Generate, Videos!Generated, Videos!BeginSave, Videos!Complete, Videos!Fail,
      Videos!CancelJob, Videos!BeginWrite, Videos!EndWrite, Videos!Runs
  <2>2. v \in video_cancel /\ v \notin video_cancel' =>
          video_task'[v] = "ended" /\ saving'[v] # "written"
    BY <1>1, <2>0 DEF Videos!TypeOK, Videos!JobStep, Videos!Generate, Videos!Generated,
      Videos!BeginSave, Videos!Complete, Videos!Fail, Videos!CancelJob, Videos!BeginWrite,
      Videos!EndWrite, Videos!Runs
  <2>3. v \notin video_cancel' \/ v \in video_cancel'
    OBVIOUS
  <2> QED BY <1>1, <1>2, <1>6, <2>1, <2>2 DEF Videos!DeleteMatches
<1> QED BY <1>4, <1>5, <1>6

(* A job keeps its promises through its own steps.                         *)
LEMMA SoundKept ==
  ASSUME Videos!VideosInvariant, NEW v \in Video, Videos!CreateVideo(v) \/ Videos!JobStep(v)
  PROVE  Videos!VideosSound'
<1>1. Videos!TypeOK /\ Videos!EntryMatches(v) /\ Videos!FileMatches(v) /\ Videos!VideosSound
  BY DEF Videos!VideosInvariant
<1>2. /\ Videos!TypeOK' /\ deleting' = deleting
      /\ \A w \in Video \ {v} :
              /\ video_store'[w] = video_store[w] /\ video_task'[w] = video_task[w]
              /\ saving'[w] = saving[w] /\ (w \in files' <=> w \in files)
  BY OthersKept
<1>3. Videos!EntryMatches(v)' /\ Videos!FileMatches(v)'
  BY OwnKept
<1>4. \A w, s : Videos!Being(w, s)' <=> Videos!Being(w, s)
  BY <1>2 DEF Videos!Being
<1>5. Videos!Being(v, {"deleted"}) => video_store'[v] = "absent" /\ video_task'[v] = "ended"
  BY <1>1 DEF Videos!VideosSound, Videos!CreateVideo, Videos!EntryMatches, Videos!TypeOK,
    Videos!JobStep, Videos!Generate, Videos!Generated, Videos!BeginSave, Videos!Complete,
    Videos!Fail, Videos!CancelJob, Videos!BeginWrite, Videos!EndWrite, Videos!Runs, Videos!Updated
<1>6. video_store'[v] = "completed" => v \in files' \/ Videos!Being(v, {"removed", "deleted"})
  BY <1>1 DEF Videos!VideosSound, Videos!FileMatches, Videos!EntryMatches, Videos!TypeOK,
    Videos!CreateVideo, Videos!JobStep, Videos!Generate, Videos!Generated, Videos!BeginSave,
    Videos!Complete, Videos!Fail, Videos!CancelJob, Videos!BeginWrite, Videos!EndWrite,
    Videos!Runs, Videos!Updated
<1>7. v \in files' => \/ video_store'[v] \in {"in_progress", "completed"}
                      \/ saving'[v] = "abandoned"
  BY <1>2, <1>3 DEF Videos!EntryMatches, Videos!FileMatches, Videos!TypeOK
<1>8. ASSUME NEW w \in Video
      PROVE /\ video_store'[w] = "completed" => w \in files' \/ Videos!Being(w, {"removed",
               "deleted"})
            /\ w \in files' => \/ video_store'[w] \in {"in_progress", "completed"}
                               \/ saving'[w] = "abandoned"
            /\ Videos!Being(w, {"deleted"}) => video_store'[w] = "absent" /\
                 video_task'[w] = "ended"
  <2>1. CASE w = v
    BY <1>5, <1>6, <1>7, <2>1
  <2>2. CASE w # v
    BY <1>1, <1>2, <2>2 DEF Videos!VideosSound
  <2> QED BY <2>1, <2>2
<1> QED BY <1>4, <1>8 DEF Videos!VideosSound

(* What a step of a call of DELETE on the job v may change.                *)
LEMMA DeleteChanges ==
  ASSUME Videos!VideosInvariant, NEW d \in Deletes, NEW v \in Video,
         Videos!Delete(d, v) \/ (Videos!DeleteStep(d) /\ v = deleting[d][1])
  PROVE  /\ \E where \in Where : Videos!Goes(d, v, where)
         /\ Videos!TypeOK'
         /\ UNCHANGED <<video_task, saving, created>>
         /\ \A w \in Video \ {v} : /\ video_store'[w] = video_store[w]
                                   /\ (w \in files' <=> w \in files)
                                   /\ (w \in video_cancel' <=> w \in video_cancel)
<1> USE DEF Videos!VideosInvariant
<1>1. UNCHANGED <<video_task, saving, created>>
  BY DEF Videos!Delete, Videos!DeleteStep, Videos!Cancelled, Videos!BeginRemove, Videos!Remove,
    Videos!Removed
<1>2. PICK where \in Where : Videos!Goes(d, v, where)
  BY DEF Videos!Delete, Videos!DeleteStep, Videos!Cancelled, Videos!BeginRemove, Videos!Remove,
    Videos!Removed, Where
<1>3. /\ video_store' \in [Video -> {"absent", "queued", "in_progress", "completed", "failed"}]
      /\ \A w \in Video \ {v} : video_store'[w] = video_store[w]
  <2>1. video_store' \in {video_store, [video_store EXCEPT ![v] = "absent"]}
    BY DEF Videos!Delete, Videos!DeleteStep, Videos!Cancelled, Videos!BeginRemove, Videos!Remove,
      Videos!Removed
  <2> QED BY <2>1 DEF Videos!TypeOK
<1>4. /\ files' \in SUBSET Video /\ video_cancel' \in SUBSET Video
      /\ \A w \in Video \ {v} : (w \in files' <=> w \in files) /\ (w \in video_cancel' <=>
           w \in video_cancel)
  <2>1. files' \in {files, files \ {v}} /\ video_cancel' \in {video_cancel, video_cancel \cup {v}}
    BY DEF Videos!Delete, Videos!DeleteStep, Videos!Cancelled, Videos!BeginRemove, Videos!Remove,
      Videos!Removed, Videos!CancelTask
  <2> QED BY <2>1 DEF Videos!TypeOK
<1>5. deleting' \in [Deletes -> {Videos!NoCall} \cup (Video \X Where)]
  BY <1>2, CallGone
<1>6. Videos!TypeOK'
  BY <1>1, <1>3, <1>4, <1>5 DEF Videos!TypeOK, Where
<1> QED BY <1>1, <1>2, <1>3, <1>4, <1>6

(* What it does to the job, and what it leaves for itself and the others.  *)
LEMMA DeleteOwn ==
  ASSUME Videos!VideosInvariant, NEW d \in Deletes, NEW v \in Video,
         Videos!Delete(d, v) \/ (Videos!DeleteStep(d) /\ v = deleting[d][1])
  PROVE  /\ Videos!EntryMatches(v)' /\ Videos!FileMatches(v)' /\ Videos!DeleteMatches(d)'
         /\ video_store'[v] = "completed" => v \in files' \/ deleting'[d][2] = "removed"
                                            \/ (video_store[v] = "completed" /\ v \notin files)
         /\ files' \subseteq files /\ video_cancel \subseteq video_cancel'
         /\ v \in files' => \/ video_store'[v] \in {"in_progress", "completed"}
                            \/ saving'[v] = "abandoned"
         /\ deleting'[d][2] = "deleted" => video_store'[v] = "absent" /\ video_task'[v] = "ended"
         /\ video_store[v] = "absent" => video_store'[v] = "absent"
         /\ deleting[d][2] \in {"removed", "deleted"} =>
              deleting[d][1] = v /\ deleting'[d][2] = "deleted"
<1>1. Videos!TypeOK /\ Videos!EntryMatches(v) /\ Videos!FileMatches(v) /\ Videos!DeleteMatches(d)
  BY DEF Videos!VideosInvariant
<1>u. UNCHANGED <<video_task, saving, created>> /\ Videos!TypeOK'
  BY DeleteChanges
<1>2. PICK where \in Where : Videos!Goes(d, v, where)
  BY DeleteChanges
<1>3. deleting'[d][2] = where /\ deleting'[d][1] = v
  BY <1>1, <1>2, CallGone
<1>4. \A w \in Where : Videos!Goes(d, v, w) => w = where
  BY <1>1, <1>3, CallGone
<1>5. DEFINE same == video_store' = video_store /\ video_cancel' = video_cancel /\ files' = files
<1>6. /\ where = "cancelling" => /\ video_store' = video_store /\ files' = files
                                /\ video_cancel' = Videos!CancelTask(v) /\
                                     video_store[v] \in {"queued", "in_progress"}
      /\ where \in {"conflict", "not found"} => same
      /\ where = "deleted" => /\ video_store' = [video_store EXCEPT ![v] = "absent"]
                              /\ video_cancel' = video_cancel /\ files' = files
                              /\ \/ deleting[d] = Videos!NoCall /\ video_store[v] = "failed"
                                 \/ deleting[d][2] = "cancelling" /\ v \notin video_cancel
                                 \/ deleting[d][2] = "removed"
      /\ where = "slot" => same /\ video_store[v] = "completed"
      /\ where = "removing" => same /\ deleting[d][2] = "slot"
      /\ where = "removed" => /\ video_store' = video_store /\ video_cancel' = video_cancel
                              /\ files' = files \ {v} /\ deleting[d][2] = "removing"
  <2> USE DEF Where
  <2>1. CASE Videos!Delete(d, v)
    BY <1>4, <2>1 DEF Videos!Delete
  <2>2. CASE Videos!Cancelled(d) /\ v = deleting[d][1]
    BY <1>4, <2>2 DEF Videos!Cancelled
  <2>3. CASE Videos!BeginRemove(d) /\ v = deleting[d][1]
    BY <1>4, <2>3 DEF Videos!BeginRemove
  <2>4. CASE Videos!Remove(d) /\ v = deleting[d][1]
    BY <1>4, <2>4 DEF Videos!Remove
  <2>5. CASE Videos!Removed(d) /\ v = deleting[d][1]
    BY <1>4, <2>5 DEF Videos!Removed
  <2> QED BY <2>1, <2>2, <2>3, <2>4, <2>5 DEF Videos!DeleteStep
<1>7. /\ v \in created
      /\ deleting[d] # Videos!NoCall => deleting[d][1] = v
  <2>1. CASE Videos!Delete(d, v)
    BY <2>1 DEF Videos!Delete
  <2>2. CASE Videos!DeleteStep(d) /\ v = deleting[d][1]
    <3>1. deleting[d] # Videos!NoCall
      BY <2>2 DEF Videos!DeleteStep, Videos!Cancelled, Videos!BeginRemove, Videos!Remove,
        Videos!Removed, Videos!NoCall
    <3> QED BY <1>1, <2>2, <3>1 DEF Videos!DeleteMatches
  <2> QED BY <2>1, <2>2
<1>f. /\ deleting[d][2] \in {"cancelling", "slot", "removing", "removed"} =>
           deleting[d] # Videos!NoCall
      /\ deleting'[d] # Videos!NoCall => deleting'[d][1] = v
  BY <1>3 DEF Videos!NoCall
<1>c. /\ where = "cancelling" /\ v \notin video_cancel' =>
           video_task[v] = "ended" /\ saving[v] # "written"
      /\ where \in {"slot", "removing", "removed"} =>
           video_task[v] = "ended" /\ saving[v] = "written"
      /\ where = "deleted" => /\ video_task[v] = "ended"
                              /\ saving[v] = "written" => v \notin files
  <2>1. CASE where = "cancelling"
    BY <1>1, <1>6, <2>1 DEF Videos!CancelTask, Videos!FileMatches
  <2>2. CASE where = "slot"
    BY <1>1, <1>6, <2>2 DEF Videos!TypeOK, Videos!EntryMatches, Videos!FileMatches
  <2>3. CASE where \in {"removing", "removed"}
    BY <1>1, <1>6, <1>7, <1>f, <2>3 DEF Videos!DeleteMatches
  <2>4. CASE where = "deleted"
    <3>1. CASE video_store[v] = "failed"
      BY <1>1, <2>4, <3>1 DEF Videos!TypeOK, Videos!EntryMatches, Videos!FileMatches
    <3>2. CASE deleting[d] # Videos!NoCall
      BY <1>1, <1>6, <1>7, <2>4, <3>2 DEF Videos!DeleteMatches
    <3> QED BY <1>6, <1>f, <2>4, <3>1, <3>2
  <2> QED BY <2>1, <2>2, <2>3, <2>4
<1>g. /\ video_store'[v] = video_store[v] \/ (video_store'[v] = "absent" /\ where = "deleted")
      /\ files' = files \/ (files' = files \ {v} /\ where = "removed")
      /\ video_cancel' = video_cancel \/ (video_cancel' = video_cancel \cup {v} /\
           video_task[v] # "ended")
      /\ video_store[v] = "absent" => video_store'[v] = "absent"
      /\ where = "deleted" => video_store'[v] = "absent"
  BY <1>1, <1>2, <1>6 DEF Videos!TypeOK, Where, Videos!CancelTask
<1>8. Videos!EntryMatches(v)' /\ Videos!FileMatches(v)'
  <2>1. Videos!EntryMatches(v)'
    BY <1>1, <1>u, <1>7, <1>c, <1>g DEF Videos!EntryMatches
  <2>2. Videos!FileMatches(v)'
    BY <1>1, <1>u, <1>7, <1>c, <1>g DEF Videos!FileMatches
  <2> QED BY <2>1, <2>2
<1>9. Videos!DeleteMatches(d)'
  <2>1. where = "removed" => v \notin files'
    BY <1>6
  <2> QED BY <1>u, <1>3, <1>7, <1>c, <2>1 DEF Videos!DeleteMatches
<1>10. /\ video_store'[v] = "completed" => v \in files' \/ deleting'[d][2] = "removed"
                                          \/ (video_store[v] = "completed" /\ v \notin files)
       /\ files' \subseteq files /\ video_cancel \subseteq video_cancel'
       /\ v \in files' => \/ video_store'[v] \in {"in_progress", "completed"}
                          \/ saving'[v] = "abandoned"
       /\ deleting'[d][2] = "deleted" => video_store'[v] = "absent" /\ video_task'[v] = "ended"
       /\ video_store[v] = "absent" => video_store'[v] = "absent"
  <2>1. v \in files' => \/ video_store'[v] \in {"in_progress", "completed"}
                         \/ saving'[v] = "abandoned"
    BY <1>8, <1>u DEF Videos!EntryMatches, Videos!FileMatches, Videos!TypeOK
  <2>2. video_store'[v] = "completed" => v \in files' \/ deleting'[d][2] = "removed"
                                          \/ (video_store[v] = "completed" /\ v \notin files)
    BY <1>3, <1>g
  <2>3. files' \subseteq files /\ video_cancel \subseteq video_cancel'
    BY <1>g
  <2>4. deleting'[d][2] = "deleted" => video_store'[v] = "absent" /\ video_task'[v] = "ended"
    BY <1>3, <1>u, <1>c, <1>g
  <2> QED BY <1>g, <2>1, <2>2, <2>3, <2>4
<1>11. deleting[d][2] \in {"removed", "deleted"} =>
         deleting[d][1] = v /\ deleting'[d][2] = "deleted"
  <2>1. deleting[d][2] \in {"removed", "deleted"} => deleting[d] # Videos!NoCall
    BY DEF Videos!NoCall
  <2>2. deleting[d] # Videos!NoCall => Videos!DeleteStep(d)
    BY DEF Videos!Delete
  <2>3. where # "removed" \/ deleting[d][2] = "removing"
    BY <1>6
  <2>4. Videos!DeleteStep(d) /\ deleting[d][2] \in {"removed", "deleted"} => where = "deleted"
    BY <1>4, <1>7, <2>1 DEF Videos!DeleteStep, Videos!Cancelled, Videos!BeginRemove,
      Videos!Remove, Videos!Removed, Where
  <2> QED BY <1>3, <1>7, <2>1, <2>2, <2>4
<1> QED BY <1>8, <1>9, <1>10, <1>11

LEMMA DeleteKeeps ==
  ASSUME Videos!VideosInvariant, NEW d \in Deletes, NEW v \in Video,
         Videos!Delete(d, v) \/ (Videos!DeleteStep(d) /\ v = deleting[d][1])
  PROVE  Videos!VideosInvariant'
<1>1. Videos!TypeOK /\ Videos!VideosSound /\ (\A w \in Video :
        Videos!EntryMatches(w) /\ Videos!FileMatches(w))
      /\ (\A e \in Deletes : Videos!DeleteMatches(e))
  BY DEF Videos!VideosInvariant
<1>2. PICK where \in Where : Videos!Goes(d, v, where)
  BY DeleteChanges
<1>3. /\ deleting'[d] = <<v, where>> /\ deleting'[d][1] = v /\ deleting'[d][2] = where
      /\ \A e \in Deletes \ {d} : deleting'[e] = deleting[e]
  BY <1>1, <1>2, CallGone
<1>4. /\ Videos!TypeOK'
      /\ UNCHANGED <<video_task, saving, created>>
      /\ \A w \in Video \ {v} : /\ video_store'[w] = video_store[w]
                                /\ (w \in files' <=> w \in files)
                                /\ (w \in video_cancel' <=> w \in video_cancel)
  BY DeleteChanges
<1>5. /\ Videos!EntryMatches(v)' /\ Videos!FileMatches(v)' /\ Videos!DeleteMatches(d)'
      /\ video_store'[v] = "completed" => v \in files' \/ deleting'[d][2] = "removed"
                                         \/ (video_store[v] = "completed" /\ v \notin files)
      /\ files' \subseteq files /\ video_cancel \subseteq video_cancel'
      /\ v \in files' => \/ video_store'[v] \in {"in_progress", "completed"}
                         \/ saving'[v] = "abandoned"
      /\ deleting'[d][2] = "deleted" => video_store'[v] = "absent" /\ video_task'[v] = "ended"
      /\ video_store[v] = "absent" => video_store'[v] = "absent"
      /\ deleting[d][2] \in {"removed", "deleted"} =>
           deleting[d][1] = v /\ deleting'[d][2] = "deleted"
  BY DeleteOwn
<1>6. \A w \in Video : Videos!EntryMatches(w)' /\ Videos!FileMatches(w)'
  BY <1>1, <1>4, <1>5 DEF Videos!EntryMatches, Videos!FileMatches
<1>7. ASSUME NEW e \in Deletes PROVE Videos!DeleteMatches(e)'
  <2>1. CASE e = d
    BY <1>5, <2>1
  <2>2. CASE e # d
    <3>1. Videos!DeleteMatches(e) /\ deleting'[e] = deleting[e]
      BY <1>1, <1>3, <2>2
    <3>2. CASE deleting[e] = Videos!NoCall
      BY <3>1, <3>2 DEF Videos!DeleteMatches
    <3>3. CASE deleting[e] # Videos!NoCall
      <4>1. deleting[e][1] \in Video
        BY <1>1, <3>3, CallOf
      <4>2. \A w : w \in files' => w \in files
        BY <1>5
      <4>3. \A w : w \notin video_cancel' => w \notin video_cancel
        BY <1>5
      <4> QED BY <1>4, <3>1, <3>3, <4>1, <4>2, <4>3 DEF Videos!DeleteMatches
    <3> QED BY <3>2, <3>3
  <2> QED BY <2>1, <2>2
<1>8. Videos!VideosSound'
  <2> SUFFICES ASSUME NEW w \in Video
               PROVE /\ video_store'[w] = "completed" =>
                        w \in files' \/ Videos!Being(w, {"removed", "deleted"})'
                     /\ w \in files' => \/ video_store'[w] \in {"in_progress", "completed"}
                                        \/ saving'[w] = "abandoned"
                     /\ Videos!Being(w, {"deleted"})' =>
                          video_store'[w] = "absent" /\ video_task'[w] = "ended"
    BY DEF Videos!VideosSound
  <2>1. ASSUME NEW e \in Deletes, deleting[e][1] = w, deleting[e][2] \in {"removed", "deleted"}
        PROVE  Videos!Being(w, {"removed", "deleted"})'
    BY <1>3, <1>5, <2>1 DEF Videos!Being
  <2>2. Videos!Being(w, {"deleted"})' => Videos!Being(w, {"deleted"}) \/ (w = v /\
          where = "deleted")
    BY <1>3 DEF Videos!Being
  <2>3. Videos!Being(w, {"removed", "deleted"}) => Videos!Being(w, {"removed", "deleted"})'
    BY <2>1 DEF Videos!Being
  <2>4. /\ video_store[w] = "completed" => w \in files \/ Videos!Being(w, {"removed", "deleted"})
        /\ w \in files => video_store[w] \in {"in_progress", "completed"} \/
             saving[w] = "abandoned"
        /\ Videos!Being(w, {"deleted"}) => video_store[w] = "absent" /\ video_task[w] = "ended"
    BY <1>1 DEF Videos!VideosSound
  <2>5. CASE w # v
    BY <1>4, <2>2, <2>3, <2>4, <2>5
  <2>6. CASE w = v
    <3>1. deleting'[d][2] = "removed" => Videos!Being(v, {"removed", "deleted"})'
      BY <1>3 DEF Videos!Being
    <3>2. video_store'[v] = "completed" => v \in files' \/ Videos!Being(v, {"removed",
            "deleted"})'
      BY <1>5, <2>3, <2>4, <2>6, <3>1
    <3>3. Videos!Being(v, {"deleted"})' => video_store'[v] = "absent" /\ video_task'[v] = "ended"
      BY <1>3, <1>4, <1>5, <2>2, <2>4, <2>6
    <3> QED BY <1>5, <2>6, <3>2, <3>3
  <2> QED BY <2>5, <2>6
<1> QED BY <1>4, <1>6, <1>7, <1>8 DEF Videos!VideosInvariant

LEMMA StepVideos ==
  ASSUME Videos!VideosInvariant, [Videos!VideoNext]_Videos!video_vars
  PROVE  Videos!VideosInvariant'
<1>1. ASSUME NEW v \in Video, Videos!CreateVideo(v) \/ Videos!JobStep(v)
             PROVE Videos!VideosInvariant'
  <2>1. \A w \in Video : Videos!EntryMatches(w)' /\ Videos!FileMatches(w)'
    <3>1. \A w \in Video \ {v} : Videos!EntryMatches(w)' /\ Videos!FileMatches(w)'
      BY <1>1, OthersKept DEF Videos!VideosInvariant, Videos!EntryMatches, Videos!FileMatches
    <3> QED BY <1>1, <3>1, OwnKept
  <2> QED BY <1>1, <2>1, OthersKept, CallsKept, SoundKept DEF Videos!VideosInvariant
<1>2. ASSUME NEW d \in Deletes, NEW v \in Video, Videos!Delete(d, v) PROVE Videos!VideosInvariant'
  BY <1>2, DeleteKeeps
<1>3. ASSUME NEW d \in Deletes, Videos!DeleteStep(d) PROVE Videos!VideosInvariant'
  <2>1. deleting[d] # Videos!NoCall
    BY <1>3 DEF Videos!DeleteStep, Videos!Cancelled, Videos!BeginRemove, Videos!Remove,
      Videos!Removed, Videos!NoCall
  <2>2. deleting[d][1] \in Video
    BY <2>1, CallOf DEF Videos!VideosInvariant
  <2> QED BY <1>3, <2>2, DeleteKeeps
<1>4. CASE UNCHANGED Videos!video_vars
  <2> USE <1>4 DEF Videos!VideosInvariant, Videos!video_vars
  <2>1. Videos!TypeOK'
    BY DEF Videos!TypeOK
  <2>2. \A v \in Video : Videos!EntryMatches(v)' /\ Videos!FileMatches(v)'
    BY DEF Videos!EntryMatches, Videos!FileMatches
  <2>3. \A d \in Deletes : Videos!DeleteMatches(d)'
    BY DEF Videos!DeleteMatches
  <2>4. Videos!VideosSound'
    BY DEF Videos!VideosSound, Videos!Being
  <2> QED BY <2>1, <2>2, <2>3, <2>4
<1> QED BY <1>1, <1>2, <1>3, <1>4 DEF Videos!VideoNext, Videos!VideoStep

-------------------------------------------------------------------------------
(* The start of the engine: an invariant of several parts, and each action *)
(* keeps them.                                                             *)

LEMMA StartupSets ==
  ASSUME Startup!StartupAssumption
  PROVE  /\ Startup!Outer \notin Startup!Stage /\ Startup!Foreign \notin Startup!Stage /\
            Startup!Outer # Startup!Foreign
         /\ Startup!Stage \subseteq Int
         /\ \A s \in Startup!Stage : (s \in Startup!Local \/ s \in Remote \/ s \in Diffusion)
         /\ \A s \in Startup!Local : s \in Startup!Stage /\ s \in Startup!Llm /\
              s \notin Remote /\ s \notin Diffusion
         /\ \A s \in Remote : s \in Startup!Stage /\ s \in Startup!Llm /\
              s \notin Startup!Local /\ s \notin Diffusion
         /\ \A s \in Diffusion : s \in Startup!Stage /\ s \notin Startup!Llm /\
              s \notin Startup!Local /\ s \notin Remote
         /\ \A s \in Startup!Llm : s \in Startup!Stage
         /\ \A s \in Startup!Stage : Uses[s] \subseteq Startup!Device /\ s + 1 \in 0 .. NumStages
         /\ Startup!Device \subseteq Nat
  BY DEF Startup!StartupAssumption, Startup!Outer, Startup!Foreign, Startup!Stage, Startup!Local,
    Startup!Llm, Startup!Device

LEMMA InitStartup == ASSUME Startup!StartupAssumption, Startup!StartupInit
  PROVE Startup!StartupInvariant
<1> USE DEF Startup!StartupInit
<1>1. Startup!TypeOK
  <2>1. 0 \in 0 .. NumStages
    BY DEF Startup!StartupAssumption
  <2> QED BY <2>1, StartupSets DEF Startup!TypeOK
<1>2. Startup!EnvironmentHeld /\ Startup!OwnDevices /\ Startup!ServingMatches /\
        Startup!OnlyUncollectedOutlive
  BY StartupSets DEF Startup!EnvironmentHeld, Startup!OwnDevices, Startup!ServingMatches,
    Startup!OnlyUncollectedOutlive, Startup!Outlives, Startup!Spawning
<1>3. ASSUME NEW s \in Startup!Stage PROVE Startup!LaunchMatches(s) /\ Startup!DevicesMatch(s) /\
             Startup!ProcessMatches(s) /\ Startup!AttachMatches(s)
  BY StartupSets DEF Startup!LaunchMatches, Startup!DevicesMatch, Startup!ProcessMatches,
    Startup!AttachMatches, Startup!Stage
<1> QED BY <1>1, <1>2, <1>3 DEF Startup!StartupInvariant

(* The lowest device that is still to be locked.                           *)
LEMMA NextDeviceInTodo ==
  ASSUME Startup!StartupAssumption, Startup!TypeOK, NEW s \in Startup!Stage, todo[s] # {}
  PROVE  Startup!NextDevice(s) \in todo[s] /\ Startup!NextDevice(s) \in Startup!Device
<1>1. todo[s] \subseteq Startup!Device /\ todo[s] \subseteq Nat
  BY StartupSets DEF Startup!TypeOK
<1> DEFINE R == {ss \in Nat \X Nat : ss[1] < ss[2]}
<1>a. IsWellFoundedOn(R, Nat)
  BY NatLessThanWellFounded DEF OpToRel
<1> HIDE DEF R
<1>2. PICK d \in todo[s] : \A e \in todo[s] : ~(<<e, d>> \in R)
  BY <1>1, <1>a, WFMin
<1>b. \A e \in todo[s] : ~(e < d)
  BY <1>1, <1>2 DEF R
<1>3. \A e \in todo[s] : d <= e
  BY <1>1, <1>b
<1>4. Startup!NextDevice(s) \in todo[s]
  BY <1>3 DEF Startup!NextDevice
<1> QED BY <1>1, <1>4

LEMMA EnterLaunchKeeps ==
  ASSUME Startup!StartupAssumption, Startup!StartupInvariant, NEW s \in Startup!Llm,
         Startup!EnterLaunch(s)
  PROVE  Startup!StartupInvariant'
<1> USE StartupSets DEF Startup!StartupInvariant, Startup!TypeOK, Startup!EnterLaunch,
    Startup!Enter, Startup!StepTo, Startup!main_vars, Startup!process_vars, Startup!attach_vars,
    Startup!caller_vars
<1>1. Startup!TypeOK'
  OBVIOUS
<1>2. (\A t \in Startup!Stage : Startup!AttachMatches(t)') /\ Startup!ServingMatches' /\
        Startup!OnlyUncollectedOutlive'
  BY DEF Startup!AttachMatches, Startup!ServingMatches, Startup!OnlyUncollectedOutlive,
    Startup!Outlives
<1>3. Startup!EnvironmentHeld'
  BY DEF Startup!EnvironmentHeld, Startup!Spawning, Startup!OwnDevices
<1>4. \A t \in Startup!Stage : Startup!LaunchMatches(t)'
  BY DEF Startup!LaunchMatches
<1>5. \A t \in Startup!Stage : Startup!DevicesMatch(t)'
  BY DEF Startup!DevicesMatch
<1>6. \A t \in Startup!Stage : Startup!ProcessMatches(t)'
  BY DEF Startup!ProcessMatches
<1>7. Startup!OwnDevices'
  BY DEF Startup!OwnDevices
<1> QED BY <1>1, <1>2, <1>3, <1>4, <1>5, <1>6, <1>7

LEMMA LockDeviceKeeps ==
  ASSUME Startup!StartupAssumption, Startup!StartupInvariant, NEW s \in Startup!Llm,
         Startup!LockDevice(s)
  PROVE  Startup!StartupInvariant'
<1> USE StartupSets DEF Startup!StartupInvariant, Startup!LockDevice, Startup!TypeOK,
    Startup!main_vars, Startup!env_vars, Startup!process_vars, Startup!attach_vars,
    Startup!caller_vars
<1>0. Startup!NextDevice(s) \in todo[s] /\ Startup!NextDevice(s) \in Startup!Device
  BY NextDeviceInTodo
<1>1. Startup!TypeOK'
  BY <1>0
<1>2. Startup!EnvironmentHeld' /\ (\A t \in Startup!Stage :
        Startup!LaunchMatches(t)') /\ (\A t \in Startup!Stage :
          Startup!ProcessMatches(t)') /\ (\A t \in Startup!Stage :
            Startup!AttachMatches(t)') /\ Startup!ServingMatches' /\ Startup!OwnDevices' /\
              Startup!OnlyUncollectedOutlive'
  BY DEF Startup!EnvironmentHeld, Startup!Spawning, Startup!LaunchMatches, Startup!ProcessMatches,
    Startup!AttachMatches, Startup!ServingMatches, Startup!OwnDevices,
    Startup!OnlyUncollectedOutlive, Startup!Outlives
<1>3. \A t \in Startup!Stage : Startup!DevicesMatch(t)'
  BY <1>0 DEF Startup!DevicesMatch
<1> QED BY <1>1, <1>2, <1>3

LEMMA SkipDeviceKeeps ==
  ASSUME Startup!StartupAssumption, Startup!StartupInvariant, NEW s \in Startup!Llm,
         Startup!SkipDevice(s)
  PROVE  Startup!StartupInvariant'
<1> USE StartupSets DEF Startup!StartupInvariant, Startup!SkipDevice, Startup!HeldBefore,
    Startup!TypeOK,
    Startup!main_vars, Startup!env_vars, Startup!process_vars, Startup!attach_vars,
    Startup!caller_vars
<1>0. Startup!NextDevice(s) \in todo[s] /\ Startup!NextDevice(s) \in Startup!Device
  BY NextDeviceInTodo
<1>1. Startup!TypeOK'
  BY <1>0
<1>2. Startup!EnvironmentHeld' /\ (\A t \in Startup!Stage :
        Startup!LaunchMatches(t)') /\ (\A t \in Startup!Stage :
          Startup!ProcessMatches(t)') /\ (\A t \in Startup!Stage :
            Startup!AttachMatches(t)') /\ Startup!ServingMatches' /\ Startup!OwnDevices' /\
              Startup!OnlyUncollectedOutlive'
  BY DEF Startup!EnvironmentHeld, Startup!Spawning, Startup!LaunchMatches, Startup!ProcessMatches,
    Startup!AttachMatches, Startup!ServingMatches, Startup!OwnDevices,
    Startup!OnlyUncollectedOutlive, Startup!Outlives
<1>3. \A t \in Startup!Stage : Startup!DevicesMatch(t)'
  BY <1>0 DEF Startup!DevicesMatch
<1> QED BY <1>1, <1>2, <1>3

LEMMA SpawnStageKeeps ==
  ASSUME Startup!StartupAssumption, Startup!StartupInvariant, NEW s \in Startup!Llm,
         Startup!SpawnStage(s)
  PROVE  Startup!StartupInvariant'
<1> USE StartupSets DEF Startup!StartupInvariant, Startup!TypeOK, Startup!SpawnStage,
    Startup!Spawn, Startup!Leave, Startup!StepTo, Startup!main_vars, Startup!device_vars,
    Startup!caller_vars
<1>1. Startup!TypeOK'
  OBVIOUS
<1>2. Startup!ServingMatches'
  BY DEF Startup!ServingMatches
<1>3. Startup!EnvironmentHeld'
  BY DEF Startup!EnvironmentHeld, Startup!Spawning
<1>4. \A t \in Startup!Stage : Startup!LaunchMatches(t)'
  BY DEF Startup!LaunchMatches
<1>5. \A t \in Startup!Stage : Startup!DevicesMatch(t)'
  BY DEF Startup!DevicesMatch
<1>6. \A t \in Startup!Stage : Startup!ProcessMatches(t)'
  BY DEF Startup!ProcessMatches, Startup!LaunchMatches
<1>7. \A t \in Startup!Stage : Startup!AttachMatches(t)'
  BY DEF Startup!AttachMatches, Startup!LaunchMatches
<1>8. Startup!OwnDevices'
  BY DEF Startup!OwnDevices, Startup!EnvironmentHeld, Startup!Spawning
<1>9. Startup!OnlyUncollectedOutlive'
  BY DEF Startup!OnlyUncollectedOutlive, Startup!Outlives, Startup!LaunchMatches
<1> QED BY <1>1, <1>2, <1>3, <1>4, <1>5, <1>6, <1>7, <1>8, <1>9

LEMMA LaunchRaisesKeeps ==
  ASSUME Startup!StartupAssumption, Startup!StartupInvariant, NEW s \in Startup!Llm,
         Startup!LaunchRaises(s)
  PROVE  Startup!StartupInvariant'
<1> USE StartupSets DEF Startup!StartupInvariant, Startup!TypeOK, Startup!LaunchRaises,
    Startup!Leave, Startup!StepTo, Startup!main_vars, Startup!process_vars, Startup!attach_vars,
    Startup!caller_vars
<1>1. Startup!TypeOK'
  OBVIOUS
<1>2. (\A t \in Startup!Stage : Startup!AttachMatches(t)') /\ Startup!ServingMatches' /\
        Startup!OnlyUncollectedOutlive'
  BY DEF Startup!AttachMatches, Startup!ServingMatches, Startup!OnlyUncollectedOutlive,
    Startup!Outlives
<1>3. Startup!EnvironmentHeld'
  BY DEF Startup!EnvironmentHeld, Startup!Spawning
<1>4. \A t \in Startup!Stage : Startup!LaunchMatches(t)'
  BY DEF Startup!LaunchMatches
<1>5. \A t \in Startup!Stage : Startup!DevicesMatch(t)'
  BY DEF Startup!DevicesMatch
<1>6. \A t \in Startup!Stage : Startup!ProcessMatches(t)'
  BY DEF Startup!ProcessMatches
<1>7. Startup!OwnDevices'
  BY DEF Startup!OwnDevices, Startup!EnvironmentHeld, Startup!Spawning
<1> QED BY <1>1, <1>2, <1>3, <1>4, <1>5, <1>6, <1>7

LEMMA ReadyKeeps ==
  ASSUME Startup!StartupAssumption, Startup!StartupInvariant, NEW s \in Startup!Llm,
         Startup!Ready(s)
  PROVE  Startup!StartupInvariant'
<1> USE StartupSets DEF Startup!StartupInvariant, Startup!TypeOK, Startup!Ready, Startup!StepTo,
    Startup!main_vars, Startup!env_vars, Startup!device_vars, Startup!process_vars,
    Startup!attach_vars, Startup!caller_vars
<1>1. Startup!TypeOK'
  OBVIOUS
<1>2. (\A t \in Startup!Stage : Startup!AttachMatches(t)') /\ Startup!ServingMatches' /\
        Startup!OwnDevices' /\ Startup!OnlyUncollectedOutlive'
  BY DEF Startup!AttachMatches, Startup!ServingMatches, Startup!OwnDevices,
    Startup!OnlyUncollectedOutlive, Startup!Outlives
<1>3. Startup!EnvironmentHeld'
  BY DEF Startup!EnvironmentHeld, Startup!Spawning
<1>4. \A t \in Startup!Stage : Startup!LaunchMatches(t)'
  BY DEF Startup!LaunchMatches
<1>5. \A t \in Startup!Stage : Startup!DevicesMatch(t)'
  BY DEF Startup!DevicesMatch
<1>6. \A t \in Startup!Stage : Startup!ProcessMatches(t)'
  BY DEF Startup!ProcessMatches
<1> QED BY <1>1, <1>2, <1>3, <1>4, <1>5, <1>6

LEMMA HandshakeFailsKeeps ==
  ASSUME Startup!StartupAssumption, Startup!StartupInvariant, NEW s \in Startup!Llm,
         Startup!HandshakeFails(s)
  PROVE  Startup!StartupInvariant'
<1> USE StartupSets DEF Startup!StartupInvariant, Startup!TypeOK, Startup!HandshakeFails,
    Startup!Ended, Startup!StepTo, Startup!main_vars, Startup!env_vars, Startup!device_vars,
    Startup!attach_vars, Startup!caller_vars
<1>1. Startup!TypeOK'
  OBVIOUS
<1>2. Startup!ServingMatches'
  BY DEF Startup!ServingMatches
<1>3. Startup!EnvironmentHeld'
  BY DEF Startup!EnvironmentHeld, Startup!Spawning
<1>4. \A t \in Startup!Stage : Startup!LaunchMatches(t)'
  BY DEF Startup!LaunchMatches
<1>5. \A t \in Startup!Stage : Startup!DevicesMatch(t)'
  BY DEF Startup!DevicesMatch
<1>6. \A t \in Startup!Stage : Startup!ProcessMatches(t)'
  BY DEF Startup!ProcessMatches
<1>7. \A t \in Startup!Stage : Startup!AttachMatches(t)'
  BY DEF Startup!AttachMatches
<1>8. Startup!OwnDevices'
  BY DEF Startup!OwnDevices
<1>9. Startup!OnlyUncollectedOutlive'
  BY DEF Startup!OnlyUncollectedOutlive, Startup!Outlives
<1> QED BY <1>1, <1>2, <1>3, <1>4, <1>5, <1>6, <1>7, <1>8, <1>9

LEMMA LeaveLaunchKeeps ==
  ASSUME Startup!StartupAssumption, Startup!StartupInvariant, NEW s \in Startup!Llm,
         Startup!LeaveLaunch(s)
  PROVE  Startup!StartupInvariant'
<1> USE StartupSets DEF Startup!StartupInvariant, Startup!TypeOK, Startup!LeaveLaunch,
    Startup!StepTo, Startup!main_vars, Startup!env_vars, Startup!process_vars,
    Startup!attach_vars, Startup!caller_vars
<1>1. Startup!TypeOK'
  OBVIOUS
<1>2. (\A t \in Startup!Stage : Startup!AttachMatches(t)') /\ Startup!ServingMatches' /\
        Startup!OwnDevices' /\ Startup!OnlyUncollectedOutlive'
  BY DEF Startup!AttachMatches, Startup!ServingMatches, Startup!OwnDevices,
    Startup!OnlyUncollectedOutlive, Startup!Outlives
<1>3. Startup!EnvironmentHeld'
  BY DEF Startup!EnvironmentHeld, Startup!Spawning
<1>4. \A t \in Startup!Stage : Startup!LaunchMatches(t)'
  BY DEF Startup!LaunchMatches
<1>5. \A t \in Startup!Stage : Startup!DevicesMatch(t)'
  BY DEF Startup!DevicesMatch
<1>6. \A t \in Startup!Stage : Startup!ProcessMatches(t)'
  BY DEF Startup!ProcessMatches
<1> QED BY <1>1, <1>2, <1>3, <1>4, <1>5, <1>6

LEMMA RemoteLaunchKeeps ==
  ASSUME Startup!StartupAssumption, Startup!StartupInvariant, NEW s \in Startup!Llm,
         Startup!RemoteLaunch(s)
  PROVE  Startup!StartupInvariant'
<1> USE StartupSets DEF Startup!StartupInvariant, Startup!TypeOK, Startup!RemoteLaunch,
    Startup!StepTo, Startup!main_vars, Startup!env_vars, Startup!device_vars,
    Startup!process_vars, Startup!attach_vars, Startup!caller_vars
<1>1. Startup!TypeOK'
  OBVIOUS
<1>2. (\A t \in Startup!Stage : Startup!AttachMatches(t)') /\ Startup!ServingMatches' /\
        Startup!OwnDevices' /\ Startup!OnlyUncollectedOutlive'
  BY DEF Startup!AttachMatches, Startup!ServingMatches, Startup!OwnDevices,
    Startup!OnlyUncollectedOutlive, Startup!Outlives
<1>3. Startup!EnvironmentHeld'
  BY DEF Startup!EnvironmentHeld, Startup!Spawning
<1>4. \A t \in Startup!Stage : Startup!LaunchMatches(t)'
  BY DEF Startup!LaunchMatches
<1>5. \A t \in Startup!Stage : Startup!DevicesMatch(t)'
  BY DEF Startup!DevicesMatch
<1>6. \A t \in Startup!Stage : Startup!ProcessMatches(t)'
  BY DEF Startup!ProcessMatches
<1> QED BY <1>1, <1>2, <1>3, <1>4, <1>5, <1>6

LEMMA RemoteHandshakeKeeps ==
  ASSUME Startup!StartupAssumption, Startup!StartupInvariant, NEW s \in Remote,
         Startup!RemoteHandshake(s)
  PROVE  Startup!StartupInvariant'
<1> USE StartupSets DEF Startup!StartupInvariant, Startup!TypeOK, Startup!RemoteHandshake,
    Startup!StepTo, Startup!main_vars, Startup!env_vars, Startup!device_vars,
    Startup!process_vars, Startup!attach_vars, Startup!caller_vars
<1>1. Startup!TypeOK'
  OBVIOUS
<1>2. (\A t \in Startup!Stage : Startup!AttachMatches(t)') /\ Startup!ServingMatches' /\
        Startup!OwnDevices' /\ Startup!OnlyUncollectedOutlive'
  BY DEF Startup!AttachMatches, Startup!ServingMatches, Startup!OwnDevices,
    Startup!OnlyUncollectedOutlive, Startup!Outlives
<1>3. Startup!EnvironmentHeld'
  BY DEF Startup!EnvironmentHeld, Startup!Spawning
<1>4. \A t \in Startup!Stage : Startup!LaunchMatches(t)'
  BY DEF Startup!LaunchMatches
<1>5. \A t \in Startup!Stage : Startup!DevicesMatch(t)'
  BY DEF Startup!DevicesMatch
<1>6. \A t \in Startup!Stage : Startup!ProcessMatches(t)'
  BY DEF Startup!ProcessMatches
<1> QED BY <1>1, <1>2, <1>3, <1>4, <1>5, <1>6

LEMMA SubmitLaunchKeeps ==
  ASSUME Startup!StartupAssumption, Startup!StartupInvariant, Startup!SubmitLaunch
  PROVE  Startup!StartupInvariant'
<1> USE StartupSets DEF Startup!StartupInvariant, Startup!TypeOK, Startup!SubmitLaunch,
    Startup!env_vars, Startup!device_vars, Startup!process_vars, Startup!attach_vars,
    Startup!caller_vars
<1>1. Startup!TypeOK'
  OBVIOUS
<1>2. (\A t \in Startup!Stage : Startup!AttachMatches(t)') /\ Startup!ServingMatches' /\
        Startup!OwnDevices' /\ Startup!OnlyUncollectedOutlive'
  BY DEF Startup!AttachMatches, Startup!ServingMatches, Startup!OwnDevices,
    Startup!OnlyUncollectedOutlive, Startup!Outlives
<1>3. Startup!EnvironmentHeld'
  BY DEF Startup!EnvironmentHeld, Startup!Spawning, Startup!LaunchMatches
<1>4. \A t \in Startup!Stage : Startup!LaunchMatches(t)'
  BY DEF Startup!LaunchMatches
<1>5. \A t \in Startup!Stage : Startup!DevicesMatch(t)'
  BY DEF Startup!DevicesMatch
<1>6. \A t \in Startup!Stage : Startup!ProcessMatches(t)'
  BY DEF Startup!ProcessMatches, Startup!LaunchMatches
<1> QED BY <1>1, <1>2, <1>3, <1>4, <1>5, <1>6

LEMMA EnterDiffusionKeeps ==
  ASSUME Startup!StartupAssumption, Startup!StartupInvariant, Startup!EnterDiffusion
  PROVE  Startup!StartupInvariant'
<1> USE StartupSets DEF Startup!StartupInvariant, Startup!TypeOK, Startup!EnterDiffusion,
    Startup!Enter, Startup!device_vars, Startup!process_vars, Startup!attach_vars,
    Startup!caller_vars
<1>1. Startup!TypeOK'
  OBVIOUS
<1>2. (\A t \in Startup!Stage : Startup!DevicesMatch(t)')
  BY DEF Startup!DevicesMatch
<1>3. Startup!EnvironmentHeld'
  BY DEF Startup!EnvironmentHeld, Startup!Spawning, Startup!OwnDevices
<1>4. \A t \in Startup!Stage : Startup!LaunchMatches(t)'
  BY DEF Startup!LaunchMatches
<1>5. \A t \in Startup!Stage : Startup!ProcessMatches(t)'
  BY DEF Startup!ProcessMatches
<1>6. \A t \in Startup!Stage : Startup!AttachMatches(t)'
  BY DEF Startup!AttachMatches
<1>7. Startup!ServingMatches'
  BY DEF Startup!ServingMatches
<1>8. Startup!OwnDevices'
  BY DEF Startup!OwnDevices
<1>9. Startup!OnlyUncollectedOutlive'
  BY DEF Startup!OnlyUncollectedOutlive, Startup!Outlives
<1> QED BY <1>1, <1>2, <1>3, <1>4, <1>5, <1>6, <1>7, <1>8, <1>9

LEMMA SpawnDiffusionKeeps ==
  ASSUME Startup!StartupAssumption, Startup!StartupInvariant, Startup!SpawnDiffusion
  PROVE  Startup!StartupInvariant'
<1> USE StartupSets DEF Startup!StartupInvariant, Startup!TypeOK, Startup!SpawnDiffusion,
    Startup!Spawn, Startup!env_vars, Startup!device_vars, Startup!attach_vars, Startup!caller_vars
<1>1. Startup!TypeOK'
  OBVIOUS
<1>2. (\A t \in Startup!Stage : Startup!DevicesMatch(t)')
  BY DEF Startup!DevicesMatch
<1>3. Startup!EnvironmentHeld'
  BY DEF Startup!EnvironmentHeld, Startup!Spawning
<1>4. \A t \in Startup!Stage : Startup!LaunchMatches(t)'
  BY DEF Startup!LaunchMatches
<1>5. \A t \in Startup!Stage : Startup!ProcessMatches(t)'
  BY DEF Startup!ProcessMatches, Startup!EnvironmentHeld, Startup!Spawning
<1>6. \A t \in Startup!Stage : Startup!AttachMatches(t)'
  BY DEF Startup!AttachMatches, Startup!EnvironmentHeld, Startup!Spawning
<1>7. Startup!ServingMatches'
  BY DEF Startup!ServingMatches
<1>8. Startup!OwnDevices'
  BY DEF Startup!OwnDevices, Startup!EnvironmentHeld, Startup!Spawning
<1>9. Startup!OnlyUncollectedOutlive'
  BY DEF Startup!OnlyUncollectedOutlive, Startup!Outlives
<1> QED BY <1>1, <1>2, <1>3, <1>4, <1>5, <1>6, <1>7, <1>8, <1>9

LEMMA DiffusionReadyKeeps ==
  ASSUME Startup!StartupAssumption, Startup!StartupInvariant, Startup!DiffusionReady
  PROVE  Startup!StartupInvariant'
<1> USE StartupSets DEF Startup!StartupInvariant, Startup!TypeOK, Startup!DiffusionReady,
    Startup!Leave, Startup!device_vars, Startup!process_vars, Startup!caller_vars
<1>1. Startup!TypeOK'
  BY DEF Startup!EnvironmentHeld
<1>2. (\A t \in Startup!Stage : Startup!DevicesMatch(t)')
  BY DEF Startup!DevicesMatch
<1>3. Startup!EnvironmentHeld'
  BY DEF Startup!EnvironmentHeld, Startup!Spawning, Startup!LaunchMatches
<1>4. \A t \in Startup!Stage : Startup!LaunchMatches(t)'
  BY DEF Startup!LaunchMatches, Startup!EnvironmentHeld, Startup!Spawning
<1>5. \A t \in Startup!Stage : Startup!ProcessMatches(t)'
  BY DEF Startup!ProcessMatches
<1>6. \A t \in Startup!Stage : Startup!AttachMatches(t)'
  BY DEF Startup!AttachMatches, Startup!EnvironmentHeld, Startup!Spawning
<1>7. Startup!ServingMatches'
  BY DEF Startup!ServingMatches
<1>8. Startup!OwnDevices'
  BY DEF Startup!OwnDevices, Startup!EnvironmentHeld, Startup!Spawning
<1>9. Startup!OnlyUncollectedOutlive'
  BY DEF Startup!OnlyUncollectedOutlive, Startup!Outlives
<1> QED BY <1>1, <1>2, <1>3, <1>4, <1>5, <1>6, <1>7, <1>8, <1>9

LEMMA DiffusionFailsKeeps ==
  ASSUME Startup!StartupAssumption, Startup!StartupInvariant, Startup!DiffusionFails
  PROVE  Startup!StartupInvariant'
<1> USE StartupSets DEF Startup!StartupInvariant, Startup!TypeOK, Startup!DiffusionFails,
    Startup!Leave, Startup!Ended, Startup!device_vars, Startup!attach_vars, Startup!caller_vars
<1>1. Startup!TypeOK'
  BY DEF Startup!EnvironmentHeld
<1>2. (\A t \in Startup!Stage : Startup!DevicesMatch(t)')
  BY DEF Startup!DevicesMatch
<1>3. Startup!EnvironmentHeld'
  BY DEF Startup!EnvironmentHeld, Startup!Spawning, Startup!LaunchMatches
<1>4. \A t \in Startup!Stage : Startup!LaunchMatches(t)'
  BY DEF Startup!LaunchMatches
<1>5. \A t \in Startup!Stage : Startup!ProcessMatches(t)'
  BY DEF Startup!ProcessMatches, Startup!LaunchMatches
<1>6. \A t \in Startup!Stage : Startup!AttachMatches(t)'
  BY DEF Startup!AttachMatches
<1>7. Startup!ServingMatches'
  BY DEF Startup!ServingMatches
<1>8. Startup!OwnDevices'
  BY DEF Startup!OwnDevices, Startup!EnvironmentHeld, Startup!Spawning
<1>9. Startup!OnlyUncollectedOutlive'
  BY DEF Startup!OnlyUncollectedOutlive, Startup!Outlives
<1> QED BY <1>1, <1>2, <1>3, <1>4, <1>5, <1>6, <1>7, <1>8, <1>9

LEMMA JoinLaunchesKeeps ==
  ASSUME Startup!StartupAssumption, Startup!StartupInvariant, Startup!JoinLaunches
  PROVE  Startup!StartupInvariant'
<1> USE StartupSets DEF Startup!StartupInvariant, Startup!TypeOK, Startup!JoinLaunches,
    Startup!env_vars, Startup!device_vars, Startup!process_vars, Startup!caller_vars
<1>1. Startup!TypeOK'
  OBVIOUS
<1>2. (\A t \in Startup!Stage : Startup!DevicesMatch(t)') /\ Startup!OwnDevices'
  BY DEF Startup!DevicesMatch, Startup!OwnDevices
<1>3. Startup!EnvironmentHeld'
  BY DEF Startup!EnvironmentHeld, Startup!Spawning
<1>4. \A t \in Startup!Stage : Startup!LaunchMatches(t)'
  BY DEF Startup!LaunchMatches
<1>5. \A t \in Startup!Stage : Startup!ProcessMatches(t)'
  BY DEF Startup!ProcessMatches, Startup!AttachMatches
<1>6. \A t \in Startup!Stage : Startup!AttachMatches(t)'
  BY DEF Startup!AttachMatches
<1>7. Startup!ServingMatches'
  BY DEF Startup!ServingMatches
<1>8. Startup!OnlyUncollectedOutlive'
  BY DEF Startup!OnlyUncollectedOutlive, Startup!Outlives
<1> QED BY <1>1, <1>2, <1>3, <1>4, <1>5, <1>6, <1>7, <1>8

LEMMA CollectAttachedKeeps ==
  ASSUME Startup!StartupAssumption, Startup!StartupInvariant, NEW s \in Startup!Llm,
         Startup!CollectAttached(s)
  PROVE  Startup!StartupInvariant'
<1> USE StartupSets DEF Startup!StartupInvariant, Startup!TypeOK, Startup!CollectAttached,
    Startup!main_vars, Startup!env_vars, Startup!device_vars, Startup!process_vars,
    Startup!caller_vars
<1>1. Startup!TypeOK'
  OBVIOUS
<1>2. Startup!EnvironmentHeld' /\ (\A t \in Startup!Stage :
        Startup!LaunchMatches(t)') /\ (\A t \in Startup!Stage :
          Startup!DevicesMatch(t)') /\ Startup!OwnDevices'
  BY DEF Startup!EnvironmentHeld, Startup!Spawning, Startup!LaunchMatches, Startup!DevicesMatch,
    Startup!OwnDevices
<1>3. \A t \in Startup!Stage : Startup!ProcessMatches(t)'
  BY DEF Startup!ProcessMatches
<1>4. \A t \in Startup!Stage : Startup!AttachMatches(t)'
  BY DEF Startup!AttachMatches
<1>5. Startup!ServingMatches'
  BY DEF Startup!ServingMatches
<1>6. Startup!OnlyUncollectedOutlive'
  BY DEF Startup!OnlyUncollectedOutlive, Startup!Outlives
<1> QED BY <1>1, <1>2, <1>3, <1>4, <1>5, <1>6

LEMMA AttachRaisedKeeps ==
  ASSUME Startup!StartupAssumption, Startup!StartupInvariant, Startup!AttachRaised
  PROVE  Startup!StartupInvariant'
<1> USE StartupSets DEF Startup!StartupInvariant, Startup!TypeOK, Startup!AttachRaised,
    Startup!env_vars, Startup!device_vars, Startup!process_vars, Startup!attach_vars,
    Startup!caller_vars
<1>1. Startup!TypeOK'
  OBVIOUS
<1>2. (\A t \in Startup!Stage : Startup!DevicesMatch(t)') /\ Startup!OwnDevices'
  BY DEF Startup!DevicesMatch, Startup!OwnDevices
<1>3. Startup!EnvironmentHeld'
  BY DEF Startup!EnvironmentHeld, Startup!Spawning
<1>4. \A t \in Startup!Stage : Startup!LaunchMatches(t)'
  BY DEF Startup!LaunchMatches
<1>5. \A t \in Startup!Stage : Startup!ProcessMatches(t)'
  BY DEF Startup!ProcessMatches
<1>6. \A t \in Startup!Stage : Startup!AttachMatches(t)'
  BY DEF Startup!AttachMatches
<1>7. Startup!ServingMatches'
  BY DEF Startup!ServingMatches
<1>8. Startup!OnlyUncollectedOutlive'
  BY DEF Startup!OnlyUncollectedOutlive, Startup!Outlives
<1> QED BY <1>1, <1>2, <1>3, <1>4, <1>5, <1>6, <1>7, <1>8

LEMMA JoinAttachesKeeps ==
  ASSUME Startup!StartupAssumption, Startup!StartupInvariant, Startup!JoinAttaches
  PROVE  Startup!StartupInvariant'
<1> USE StartupSets DEF Startup!StartupInvariant, Startup!TypeOK, Startup!JoinAttaches,
    Startup!env_vars, Startup!device_vars, Startup!process_vars, Startup!attach_vars,
    Startup!caller_vars
<1>1. Startup!TypeOK'
  OBVIOUS
<1>2. (\A t \in Startup!Stage : Startup!DevicesMatch(t)') /\ Startup!OwnDevices'
  BY DEF Startup!DevicesMatch, Startup!OwnDevices
<1>3. Startup!EnvironmentHeld'
  BY DEF Startup!EnvironmentHeld, Startup!Spawning
<1>4. \A t \in Startup!Stage : Startup!LaunchMatches(t)'
  BY DEF Startup!LaunchMatches
<1>5. \A t \in Startup!Stage : Startup!ProcessMatches(t)'
  BY DEF Startup!ProcessMatches
<1>6. \A t \in Startup!Stage : Startup!AttachMatches(t)'
  BY DEF Startup!AttachMatches
<1>7. Startup!ServingMatches'
  BY DEF Startup!ServingMatches
<1>8. Startup!OnlyUncollectedOutlive'
  BY DEF Startup!OnlyUncollectedOutlive, Startup!Outlives
<1> QED BY <1>1, <1>2, <1>3, <1>4, <1>5, <1>6, <1>7, <1>8

LEMMA StartServingKeeps ==
  ASSUME Startup!StartupAssumption, Startup!StartupInvariant, Startup!StartServing
  PROVE  Startup!StartupInvariant'
<1> USE StartupSets DEF Startup!StartupInvariant, Startup!TypeOK, Startup!StartServing,
    Startup!Resolve, Startup!env_vars, Startup!device_vars, Startup!process_vars,
    Startup!attach_vars
<1>1. Startup!TypeOK'
  OBVIOUS
<1>2. (\A t \in Startup!Stage : Startup!DevicesMatch(t)') /\ Startup!OwnDevices'
  BY DEF Startup!DevicesMatch, Startup!OwnDevices
<1>3. Startup!EnvironmentHeld'
  BY DEF Startup!EnvironmentHeld, Startup!Spawning
<1>4. \A t \in Startup!Stage : Startup!LaunchMatches(t)'
  BY DEF Startup!LaunchMatches
<1>5. \A t \in Startup!Stage : Startup!ProcessMatches(t)'
  BY DEF Startup!ProcessMatches
<1>6. \A t \in Startup!Stage : Startup!AttachMatches(t)'
  BY DEF Startup!AttachMatches
<1>7. Startup!ServingMatches'
  BY DEF Startup!ServingMatches
<1>8. Startup!OnlyUncollectedOutlive'
  BY DEF Startup!OnlyUncollectedOutlive, Startup!Outlives
<1> QED BY <1>1, <1>2, <1>3, <1>4, <1>5, <1>6, <1>7, <1>8

LEMMA CleanUpKeeps ==
  ASSUME Startup!StartupAssumption, Startup!StartupInvariant, Startup!CleanUp
  PROVE  Startup!StartupInvariant'
<1> USE StartupSets DEF Startup!StartupInvariant, Startup!TypeOK, Startup!CleanUp, Startup!Ended,
    Startup!Launched, Startup!Resolve, Startup!env_vars, Startup!device_vars, Startup!attach_vars
<1>1. Startup!TypeOK'
  OBVIOUS
<1>2. (\A t \in Startup!Stage : Startup!DevicesMatch(t)')
  BY DEF Startup!DevicesMatch
<1>3. Startup!EnvironmentHeld'
  BY DEF Startup!EnvironmentHeld, Startup!Spawning
<1>4. \A t \in Startup!Stage : Startup!LaunchMatches(t)'
  BY DEF Startup!LaunchMatches
<1>5. \A t \in Startup!Stage : Startup!ProcessMatches(t)'
  BY DEF Startup!ProcessMatches
<1>6. \A t \in Startup!Stage : Startup!AttachMatches(t)'
  BY DEF Startup!AttachMatches
<1>7. Startup!ServingMatches'
  BY DEF Startup!ServingMatches
<1>8. Startup!OwnDevices'
  BY DEF Startup!OwnDevices
<1>9. Startup!OnlyUncollectedOutlive'
  BY DEF Startup!OnlyUncollectedOutlive, Startup!Outlives, Startup!OwnDevices,
    Startup!EnvironmentHeld, Startup!Spawning, Startup!LaunchMatches, Startup!AttachMatches,
    Startup!ProcessMatches, Startup!ServingMatches, Startup!DevicesMatch
<1> QED BY <1>1, <1>2, <1>3, <1>4, <1>5, <1>6, <1>7, <1>8, <1>9

LEMMA StopServingKeeps ==
  ASSUME Startup!StartupAssumption, Startup!StartupInvariant, Startup!StopServing
  PROVE  Startup!StartupInvariant'
<1> USE StartupSets DEF Startup!StartupInvariant, Startup!TypeOK, Startup!StopServing,
    Startup!Ended, Startup!env_vars, Startup!device_vars, Startup!attach_vars, Startup!caller_vars
<1>1. Startup!TypeOK'
  OBVIOUS
<1>2. (\A t \in Startup!Stage : Startup!DevicesMatch(t)')
  BY DEF Startup!DevicesMatch
<1>3. Startup!EnvironmentHeld'
  BY DEF Startup!EnvironmentHeld, Startup!Spawning
<1>4. \A t \in Startup!Stage : Startup!LaunchMatches(t)'
  BY DEF Startup!LaunchMatches
<1>5. \A t \in Startup!Stage : Startup!ProcessMatches(t)'
  BY DEF Startup!ProcessMatches
<1>6. \A t \in Startup!Stage : Startup!AttachMatches(t)'
  BY DEF Startup!AttachMatches
<1>7. Startup!ServingMatches'
  BY DEF Startup!ServingMatches
<1>8. Startup!OwnDevices'
  BY DEF Startup!OwnDevices
<1>9. Startup!OnlyUncollectedOutlive'
  BY DEF Startup!OnlyUncollectedOutlive, Startup!Outlives, Startup!ServingMatches
<1> QED BY <1>1, <1>2, <1>3, <1>4, <1>5, <1>6, <1>7, <1>8, <1>9

LEMMA AttachedKeeps ==
  ASSUME Startup!StartupAssumption, Startup!StartupInvariant, NEW s \in Startup!Llm,
         Startup!Attached(s)
  PROVE  Startup!StartupInvariant'
<1> USE StartupSets DEF Startup!StartupInvariant, Startup!TypeOK, Startup!Attached,
    Startup!main_vars, Startup!env_vars, Startup!device_vars, Startup!process_vars,
    Startup!caller_vars
<1>1. Startup!TypeOK'
  OBVIOUS
<1>2. Startup!EnvironmentHeld' /\ (\A t \in Startup!Stage :
        Startup!LaunchMatches(t)') /\ (\A t \in Startup!Stage :
          Startup!DevicesMatch(t)') /\ Startup!ServingMatches' /\ Startup!OwnDevices'
  BY DEF Startup!EnvironmentHeld, Startup!Spawning, Startup!LaunchMatches, Startup!DevicesMatch,
    Startup!ServingMatches, Startup!OwnDevices
<1>3. \A t \in Startup!Stage : Startup!ProcessMatches(t)'
  BY DEF Startup!ProcessMatches
<1>4. \A t \in Startup!Stage : Startup!AttachMatches(t)'
  BY DEF Startup!AttachMatches
<1>5. Startup!OnlyUncollectedOutlive'
  BY DEF Startup!OnlyUncollectedOutlive, Startup!Outlives
<1> QED BY <1>1, <1>2, <1>3, <1>4, <1>5

LEMMA AttachFailsKeeps ==
  ASSUME Startup!StartupAssumption, Startup!StartupInvariant, NEW s \in Startup!Llm,
         Startup!AttachFails(s)
  PROVE  Startup!StartupInvariant'
<1> USE StartupSets DEF Startup!StartupInvariant, Startup!TypeOK, Startup!AttachFails,
    Startup!Ended, Startup!main_vars, Startup!env_vars, Startup!device_vars, Startup!caller_vars
<1>1. Startup!TypeOK'
  OBVIOUS
<1>2. Startup!EnvironmentHeld' /\ (\A t \in Startup!Stage :
        Startup!LaunchMatches(t)') /\ (\A t \in Startup!Stage :
          Startup!DevicesMatch(t)') /\ Startup!ServingMatches'
  BY DEF Startup!EnvironmentHeld, Startup!Spawning, Startup!LaunchMatches, Startup!DevicesMatch,
    Startup!ServingMatches
<1>3. \A t \in Startup!Stage : Startup!ProcessMatches(t)'
  BY DEF Startup!ProcessMatches
<1>4. \A t \in Startup!Stage : Startup!AttachMatches(t)'
  BY DEF Startup!AttachMatches
<1>5. Startup!OwnDevices'
  BY DEF Startup!OwnDevices
<1>6. Startup!OnlyUncollectedOutlive'
  BY DEF Startup!OnlyUncollectedOutlive, Startup!Outlives
<1> QED BY <1>1, <1>2, <1>3, <1>4, <1>5, <1>6

(* The caller of the constructor, other engines and stages elsewhere.      *)
LEMMA OutsideKeeps ==
  ASSUME Startup!StartupAssumption, Startup!StartupInvariant,
         \/ Startup!ConstructorReturns \/ Startup!ConstructorRaises \/ (\E s \in Remote :
              Startup!Register(s))
         \/ (\E d \in Startup!Device : Startup!ForeignLock(d) \/ Startup!ForeignUnlock(d)) \/
              UNCHANGED Startup!startup_vars
  PROVE  Startup!StartupInvariant'
<1> USE StartupSets DEF Startup!StartupInvariant, Startup!startup_vars, Startup!TypeOK
<1>1. /\ UNCHANGED <<Startup!main_vars, Startup!env_vars, launch, todo, lock_fds, skipped,
           Startup!process_vars, Startup!attach_vars, future>>
      /\ \A d \in Startup!Device : device_lock'[d] = device_lock[d] \/
           device_lock[d] \in {Startup!Outer, Startup!Foreign}
  BY DEF Startup!ConstructorReturns, Startup!ConstructorRaises, Startup!Register,
    Startup!ForeignLock, Startup!ForeignUnlock, Startup!main_vars, Startup!env_vars,
    Startup!device_vars, Startup!process_vars, Startup!attach_vars, Startup!caller_vars
<1>2. Startup!TypeOK'
  <2>1. registered' \in SUBSET Startup!Stage
    BY DEF Startup!ConstructorReturns, Startup!ConstructorRaises, Startup!Register,
      Startup!ForeignLock, Startup!ForeignUnlock
  <2>2. device_lock' \in [Startup!Device -> Startup!Stage \cup {Startup!Outer, Startup!Foreign}]
    BY DEF Startup!ConstructorReturns, Startup!ConstructorRaises, Startup!Register,
      Startup!ForeignLock, Startup!ForeignUnlock, Startup!device_vars
  <2>3. constructor' \in {"waits", "returned", "raised"} /\ queue_closed' \in BOOLEAN
    BY DEF Startup!ConstructorReturns, Startup!ConstructorRaises, Startup!Register,
      Startup!ForeignLock, Startup!ForeignUnlock, Startup!caller_vars
  <2> QED BY <1>1, <2>1, <2>2, <2>3 DEF Startup!main_vars, Startup!env_vars, Startup!process_vars,
      Startup!attach_vars
<1>3. \A s \in Startup!Stage : Startup!DevicesMatch(s)'
  BY <1>1 DEF Startup!DevicesMatch
<1>4. /\ Startup!EnvironmentHeld' /\ Startup!ServingMatches' /\ Startup!OwnDevices' /\
           Startup!OnlyUncollectedOutlive'
      /\ \A s \in Startup!Stage : Startup!LaunchMatches(s)' /\ Startup!ProcessMatches(s)' /\
           Startup!AttachMatches(s)'
  BY <1>1 DEF Startup!main_vars, Startup!env_vars, Startup!process_vars, Startup!attach_vars,
    Startup!EnvironmentHeld, Startup!Spawning, Startup!ServingMatches, Startup!OwnDevices,
    Startup!OnlyUncollectedOutlive, Startup!Outlives, Startup!LaunchMatches,
    Startup!ProcessMatches, Startup!AttachMatches
<1> QED BY <1>2, <1>3, <1>4

LEMMA StepStartup ==
  ASSUME Startup!StartupAssumption, Startup!StartupInvariant,
         [Startup!StartupNext]_Startup!startup_vars
  PROVE  Startup!StartupInvariant'
<1>1. CASE Startup!MainStep
  BY <1>1, SubmitLaunchKeeps, EnterDiffusionKeeps, SpawnDiffusionKeeps, DiffusionReadyKeeps,
     DiffusionFailsKeeps,
    JoinLaunchesKeeps, CollectAttachedKeeps, AttachRaisedKeeps, JoinAttachesKeeps,
      StartServingKeeps, CleanUpKeeps,
    StopServingKeeps DEF Startup!MainStep
<1>2. ASSUME NEW s \in Startup!Llm, Startup!LaunchStep(s) PROVE Startup!StartupInvariant'
  BY <1>2, EnterLaunchKeeps, LockDeviceKeeps, SkipDeviceKeeps, SpawnStageKeeps,
     LaunchRaisesKeeps, ReadyKeeps,
    HandshakeFailsKeeps, LeaveLaunchKeeps, RemoteLaunchKeeps DEF Startup!LaunchStep
<1>3. ASSUME NEW s \in Startup!Llm, Startup!AttachStep(s) PROVE Startup!StartupInvariant'
  BY <1>3, AttachedKeeps, AttachFailsKeeps DEF Startup!AttachStep
<1>4. ASSUME NEW s \in Remote, Startup!RemoteHandshake(s) PROVE Startup!StartupInvariant'
  BY <1>4, RemoteHandshakeKeeps
<1> QED BY <1>1, <1>2, <1>3, <1>4, OutsideKeeps DEF Startup!StartupNext, Startup!StartupStep

(* Launches that load hold the lock files they did not give up on, and the *)
(* engine that serves has a process for each client.                       *)
LEMMA StartupIsSound == ASSUME Startup!StartupAssumption, Startup!StartupInvariant
  PROVE Startup!StartupSound
<1> USE StartupSets DEF Startup!StartupInvariant
<1>1. Startup!OwnDevices /\ Startup!OnlyUncollectedOutlive
  OBVIOUS
<1>2. Startup!LoadInTurn
  <2> SUFFICES ASSUME NEW s \in Startup!Local, NEW t \in Startup!Local \ {s}, Startup!Loading(s),
                      Startup!Loading(t),
                      NEW d \in Uses[s] \cap Uses[t], d \notin skipped[s], d \notin skipped[t]
               PROVE  FALSE
    BY DEF Startup!LoadInTurn
  <2>1. d \in lock_fds[s] /\ d \in lock_fds[t]
    BY DEF Startup!Loading, Startup!DevicesMatch
  <2> QED BY <2>1 DEF Startup!DevicesMatch
<1>3. Startup!ReadyMeansAll
  <2>1. ASSUME main = "serving", NEW s \in Startup!Stage \ Remote PROVE process[s] = "runs"
    <3>1. s \in stage_clients
      BY <2>1 DEF Startup!ServingMatches
    <3>2. CASE s \in Diffusion
      BY <2>1, <3>1, <3>2 DEF Startup!ProcessMatches
    <3>3. CASE s \in Startup!Local
      BY <2>1, <3>1, <3>3 DEF Startup!ProcessMatches, Startup!AttachMatches, Startup!LaunchMatches
    <3> QED BY <3>2, <3>3
  <2> QED BY <2>1 DEF Startup!ReadyMeansAll, Startup!ServingMatches
<1> QED BY <1>1, <1>2, <1>3 DEF Startup!StartupSound


-------------------------------------------------------------------------------
(* The turns of the balancer.                                              *)

LEMMA InstancesCounted ==
  ASSUME Balancer!BalancerAssumption PROVE Balancer!Cardinality(Instance) \in Nat
<1>1. IsFiniteSet(Instance) /\ Cardinality(Instance) = Balancer!Cardinality(Instance)
  BY DEF Balancer!BalancerAssumption, Balancer!IsFiniteSet, Balancer!Cardinality, IsFiniteSet,
    Cardinality
<1> QED BY <1>1, FS_CardinalityType

(* A list is a sequence of different addresses.                            *)
LEMMA ListLength ==
  ASSUME Balancer!BalancerAssumption, NEW l \in Balancer!Lists
  PROVE  l \in Seq(Instance) /\ Len(l) \in Nat /\ DOMAIN l = 1 .. Len(l) /\
         Balancer!IsInjective(l)
<1>1. Balancer!Cardinality(Instance) \in Nat
  BY InstancesCounted
<1>2. PICK n \in 0 .. Balancer!Cardinality(Instance) :
        l \in [1 .. n -> Instance] /\ Balancer!IsInjective(l)
  BY DEF Balancer!Lists
<1>3. n \in Nat
  BY <1>1
<1>4. l \in Seq(Instance)
  <2>1. l \in [1 .. n -> Instance]
    BY <1>2
  <2> QED BY <1>3, <2>1
<1> QED BY <1>2, <1>4, LenProperties

(* Nothing but zero has a multiple below the factor.                       *)
LEMMA SmallMultiple ==
  ASSUME NEW d \in Int, NEW n \in Nat, n * d < n, -n < n * d
  PROVE  d = 0
<1>1. ASSUME d >= 1 PROVE n * d >= n
  <2>1. n * d = n + n * (d - 1)
    OBVIOUS
  <2>2. n * (d - 1) >= 0
    BY <1>1
  <2> QED BY <2>1, <2>2
<1>2. ASSUME d =< -1 PROVE n * d =< -n
  <2>1. n * d = -n + n * (d + 1)
    OBVIOUS
  <2>2. n * (d + 1) =< 0
    BY <1>2
  <2> QED BY <2>1, <2>2
<1> QED BY <1>1, <1>2

(* The index that is picked, and the one after it, in a list of n.         *)
LEMMA TurnAfter ==
  ASSUME NEW i \in Nat, NEW n \in Nat, n > 0
  PROVE  /\ i % n \in 0 .. n - 1 /\ (i + 1) % n \in 0 .. n - 1
         /\ i < n => i % n = i
         /\ (i + 1) % n = IF i % n = n - 1 THEN 0 ELSE (i % n) + 1
<1>1. i % n \in 0 .. n - 1 /\ (i + 1) % n \in 0 .. n - 1
  OBVIOUS
<1>2. i < n => i % n = i
  OBVIOUS
<1> DEFINE q == i \div n
           p == (i + 1) \div n
           r == i % n
           s == (i + 1) % n
<1>q. q \in Int /\ p \in Int /\ r \in Int /\ s \in Int
  OBVIOUS
<1>r. i = n * q + r /\ i + 1 = n * p + s
  OBVIOUS
<1>d. n * (p - q) = r + 1 - s
  BY <1>q, <1>r
<1>3. CASE r < n - 1
  <2>1. r + 1 - s < n /\ -n < r + 1 - s
    BY <1>1, <1>3
  <2>2. p - q = 0
    BY <1>q, <1>d, <2>1, SmallMultiple
  <2> QED BY <1>q, <1>d, <1>2, <1>1, <1>3, <2>2
<1>4. CASE r = n - 1
  <2>1. n * (p - q - 1) = -s
    BY <1>q, <1>d, <1>4
  <2>2. -s < n /\ -n < -s
    BY <1>1
  <2>3. p - q - 1 = 0
    BY <1>q, <2>1, <2>2, SmallMultiple
  <2> QED BY <1>q, <2>1, <2>3, <1>2, <1>1, <1>4
<1> QED BY <1>1, <1>2, <1>3, <1>4

LEMMA InitBalancer == ASSUME Balancer!BalancerAssumption, Balancer!Init
  PROVE Balancer!BalancerInvariant
<1> USE DEF Balancer!Init
<1>1. <<>> \in Balancer!Lists
  <2>1. Balancer!Cardinality(Instance) \in Nat
    BY InstancesCounted
  <2>2. 0 \in 0 .. Balancer!Cardinality(Instance)
    BY <2>1
  <2>3. <<>> \in [1 .. 0 -> Instance] /\ Balancer!IsInjective(<<>>)
    BY DEF Balancer!IsInjective
  <2> QED BY <2>2, <2>3 DEF Balancer!Lists
<1>2. Balancer!TypeOK
  BY <1>1, EmptySeq DEF Balancer!TypeOK, Balancer!BalancerAssumption
<1>3. Balancer!PicksInTurn
  BY EmptySeq DEF Balancer!PicksInTurn
<1> QED BY <1>2, <1>3 DEF Balancer!BalancerInvariant

LEMMA ListChangesKeeps ==
  ASSUME Balancer!BalancerAssumption, Balancer!BalancerInvariant, Balancer!ListChanges
         PROVE Balancer!BalancerInvariant'
<1> USE DEF Balancer!BalancerInvariant, Balancer!ListChanges
<1>1. instances' \in Balancer!Lists /\ next_index' = next_index /\ picks' = <<>>
  OBVIOUS
<1>2. Balancer!TypeOK'
  BY <1>1, EmptySeq DEF Balancer!TypeOK
<1>3. Len(picks') = 0 /\ Len(instances') \in Nat
  BY <1>1, EmptySeq, ListLength
<1>4. Balancer!PicksInTurn'
  BY <1>1, <1>3 DEF Balancer!PicksInTurn
<1> QED BY <1>2, <1>4

(* The oldest pick of a round gives way to the new one: each of the others *)
(* moves down by one.                                                      *)
LEMMA SelectKeeps ==
  ASSUME Balancer!BalancerAssumption, Balancer!BalancerInvariant, Balancer!SelectRoundRobin
         PROVE Balancer!BalancerInvariant'
<1> DEFINE n == Len(instances)
           picked == instances[Balancer!Chosen(n) + 1]
           all == Append(picks, picked)
<1>1. /\ instances \in Seq(Instance) /\ n \in Nat /\ DOMAIN instances = 1 .. n
      /\ next_index \in Nat /\ picks \in Seq(Instance) /\ instances' = instances
      /\ Len(picks) \in Nat /\ Len(picks) =< n
  BY ListLength, LenProperties DEF Balancer!BalancerInvariant, Balancer!TypeOK,
    Balancer!PicksInTurn, Balancer!SelectRoundRobin
<1>2. n > 0
  BY <1>1, EmptySeq DEF Balancer!SelectRoundRobin
<1>3. /\ Balancer!Chosen(n) \in 0 .. n - 1 /\ next_index' \in 0 .. n - 1
      /\ next_index < n => Balancer!Chosen(n) = next_index
      /\ next_index' = IF Balancer!Chosen(n) = n - 1 THEN 0 ELSE Balancer!Chosen(n) + 1
  BY <1>1, <1>2, TurnAfter DEF Balancer!Chosen, Balancer!Advanced, Balancer!SelectRoundRobin
<1>4. picked \in Instance
  BY <1>1, <1>3, ElementOfSeq
<1>5. /\ all \in Seq(Instance) /\ Len(all) = Len(picks) + 1 /\ all[Len(picks) + 1] = picked
      /\ \A k \in 1 .. Len(picks) : all[k] = picks[k]
  BY <1>1, <1>4, AppendProperties
<1>6. picks' = Balancer!LastOnes(all, n)
  BY DEF Balancer!SelectRoundRobin
<1> HIDE DEF all, picked, n
<1>7. /\ picks' \in Seq(Instance) /\ Len(picks') \in 1 .. n
      /\ \A k \in 1 .. Len(picks') : picks'[k] = all[Len(all) - Len(picks') + k]
      /\ Len(picks') = IF Len(picks) < n THEN Len(picks) + 1 ELSE n
  <2>1. CASE Len(all) =< n
    BY <1>1, <1>5, <1>6, <2>1 DEF Balancer!LastOnes
  <2>2. CASE Len(all) > n
    <3>0. Len(all) = n + 1 /\ Len(picks) = n /\ Len(all) - n + 1 = 2
      BY <1>1, <1>5, <2>2
    <3>1. picks' = SubSeq(all, 2, n + 1)
      BY <1>6, <2>2, <3>0 DEF Balancer!LastOnes
    <3>2. \A i \in 2 .. n + 1 : all[i] \in Instance
      BY <1>1, <1>5, <3>0, ElementOfSeq
    <3>3. /\ SubSeq(all, 2, n + 1) \in Seq(Instance)
          /\ Len(SubSeq(all, 2, n + 1)) = IF 2 =< n + 1 THEN n + 1 - 2 + 1 ELSE 0
          /\ \A i \in 1 .. n + 1 - 2 + 1 : SubSeq(all, 2, n + 1)[i] = all[2 + i - 1]
      BY <1>1, <3>2, SubSeqProperties
    <3>4. /\ Len(picks') = n /\ picks' \in Seq(Instance)
          /\ \A i \in 1 .. n : picks'[i] = all[i + 1]
      BY <1>1, <1>2, <3>1, <3>3
    <3> QED BY <1>1, <1>2, <3>0, <3>4
  <2> QED BY <1>1, <1>5, <2>1, <2>2
<1>8. Balancer!TypeOK'
  BY <1>1, <1>3, <1>7 DEF Balancer!BalancerInvariant, Balancer!TypeOK
<1>9. ASSUME NEW k \in 1 .. Len(picks') PROVE picks'[k] = instances'[Balancer!PickedAt(k)']
  <2>0. Balancer!PickedAt(k)' = (IF next_index' - Len(picks') + k >= 1
                                 THEN next_index' - Len(picks') + k
                        ELSE next_index' - Len(picks') + k + n)
    BY <1>1 DEF Balancer!PickedAt, n
  <2>1. CASE k = Len(picks')
    <3>0. Len(all) - Len(picks') + k = Len(picks) + 1
      BY <1>1, <1>5, <1>7, <2>1
    <3>1. picks'[k] = picked
      BY <1>5, <1>7, <3>0
    <3>2. Balancer!PickedAt(k)' = Balancer!Chosen(n) + 1
      BY <1>1, <1>2, <1>3, <1>7, <2>0, <2>1
    <3> QED BY <1>1, <3>1, <3>2 DEF picked
  <2>2. CASE k < Len(picks')
    <3> DEFINE j == IF Len(picks) < n THEN k ELSE k + 1
    <3>1. Len(all) - Len(picks') + k = j /\ j \in 1 .. Len(picks)
      BY <1>1, <1>5, <1>7, <2>2
    <3>2. picks'[k] = picks[j]
      BY <1>5, <1>7, <3>1
    <3>3. picks # <<>> /\ picks[j] = instances[Balancer!PickedAt(j)]
      BY <3>1, <1>1, EmptySeq DEF Balancer!BalancerInvariant, Balancer!PicksInTurn
    <3>4. next_index < n /\ Balancer!Chosen(n) = next_index
      BY <1>3, <3>3 DEF Balancer!BalancerInvariant, Balancer!PicksInTurn, n
    <3>5. Balancer!PickedAt(j) = IF next_index - Len(picks) + j >= 1
                                 THEN next_index - Len(picks) + j
                        ELSE next_index - Len(picks) + j + n
      BY DEF Balancer!PickedAt, n
    <3>6. Balancer!PickedAt(k)' = Balancer!PickedAt(j)
      <4>0. k \in 1 .. n /\ Len(picks) \in 1 .. n /\ Len(picks') \in 1 .. n
        BY <1>1, <1>7, <3>1
      <4>1. CASE next_index = n - 1
        <5>1. next_index' = 0
          BY <1>3, <3>4, <4>1
        <5>2. Balancer!PickedAt(k)' = n - Len(picks') + k
          BY <1>1, <2>0, <2>2, <4>0, <5>1
        <5>3. Balancer!PickedAt(j) = n - 1 - Len(picks) + j
          BY <1>1, <3>1, <3>5, <4>0, <4>1
        <5>4. n - Len(picks') + k = n - 1 - Len(picks) + j
          BY <1>1, <1>7, <4>0
        <5> QED BY <5>2, <5>3, <5>4
      <4>2. CASE next_index # n - 1
        <5>1. next_index' = next_index + 1
          BY <1>3, <3>4, <4>2
        <5>2. next_index' - Len(picks') + k = next_index - Len(picks) + j
          BY <1>1, <1>7, <4>0, <5>1
        <5> QED BY <2>0, <3>5, <5>2
      <4> QED BY <4>1, <4>2
    <3> QED BY <1>1, <3>2, <3>3, <3>6
  <2> QED BY <1>7, <2>1, <2>2
<1>10. Balancer!PicksInTurn'
  BY <1>1, <1>3, <1>7, <1>9 DEF Balancer!PicksInTurn, n
<1> QED BY <1>8, <1>10 DEF Balancer!BalancerInvariant

LEMMA StepBalancer ==
  ASSUME Balancer!BalancerAssumption, Balancer!BalancerInvariant, [Balancer!Next]_Balancer!vars
         PROVE Balancer!BalancerInvariant'
<1>1. CASE UNCHANGED Balancer!vars
  BY <1>1 DEF Balancer!vars, Balancer!BalancerInvariant, Balancer!TypeOK, Balancer!PicksInTurn,
    Balancer!PickedAt
<1> QED BY <1>1, ListChangesKeeps, SelectKeeps DEF Balancer!Next

(* A whole round takes each place once.                                    *)
LEMMA BalancerIsFair ==
  ASSUME Balancer!BalancerAssumption, Balancer!BalancerInvariant PROVE Balancer!RoundsAreFair
<1> SUFFICES ASSUME Len(picks) = Len(instances)
             PROVE  Balancer!IsInjective(picks) /\
                    Balancer!Range(picks) = Balancer!Range(instances)
  BY DEF Balancer!RoundsAreFair
<1> DEFINE n == Len(instances)
<1>1. /\ n \in Nat /\ DOMAIN instances = 1 .. n /\ DOMAIN picks = 1 .. n /\ next_index \in Nat
      /\ Balancer!IsInjective(instances)
  BY ListLength, LenProperties DEF Balancer!BalancerInvariant, Balancer!TypeOK
<1>2. n > 0 => next_index < n
  BY <1>1, EmptySeq DEF Balancer!BalancerInvariant, Balancer!PicksInTurn, Balancer!TypeOK
<1>3. \A k \in 1 .. n : Balancer!PickedAt(k) = (IF next_index - n + k >= 1 THEN next_index - n + k
                                       ELSE next_index + k)
  BY <1>1 DEF Balancer!PickedAt
<1>4. \A k \in 1 .. n : Balancer!PickedAt(k) \in 1 .. n /\
        picks[k] = instances[Balancer!PickedAt(k)]
  BY <1>1, <1>2, <1>3 DEF Balancer!BalancerInvariant, Balancer!PicksInTurn
<1>5. \A k, l \in 1 .. n : Balancer!PickedAt(k) = Balancer!PickedAt(l) => k = l
  BY <1>1, <1>2, <1>3
<1>6. \A p \in 1 .. n : \E k \in 1 .. n : Balancer!PickedAt(k) = p
  <2> TAKE p \in 1 .. n
  <2>1. CASE p =< next_index
    <3>1. p - next_index + n \in 1 .. n /\ Balancer!PickedAt(p - next_index + n) = p
      BY <1>1, <1>2, <1>3, <2>1
    <3> QED BY <3>1
  <2>2. CASE p > next_index
    <3>1. p - next_index \in 1 .. n /\ Balancer!PickedAt(p - next_index) = p
      BY <1>1, <1>2, <1>3, <2>2
    <3> QED BY <3>1
  <2> QED BY <1>1, <2>1, <2>2
<1>7. Balancer!IsInjective(picks)
  BY <1>1, <1>4, <1>5 DEF Balancer!IsInjective
<1>8. Balancer!Range(picks) = Balancer!Range(instances)
  BY <1>1, <1>4, <1>6 DEF Balancer!Range
<1> QED BY <1>7, <1>8

-------------------------------------------------------------------------------
(* The tasks, callbacks and replies of the inline stage client.            *)

(* The operators on queues are the same from there and from here.          *)
LEMMA SameQueueOps ==
  /\ \A q : Inline!IsInjective(q) = IsInjective(q) /\ Inline!Range(q) = Range(q)
  /\ \A q, S : Inline!Without(q, S) = Without(q, S)
<1>1. \A q : Inline!IsInjective(q) = IsInjective(q) /\ Inline!Range(q) = Range(q)
  BY DEF Inline!IsInjective, IsInjective, Inline!Range, Range
<1>2. \A q, S : Inline!Keep(q, S) = Keep(q, S)
  BY DEF Inline!Keep, Keep, Inline!Rank, Rank, Inline!Cardinality, Cardinality
<1> QED BY <1>1, <1>2 DEF Inline!Without, Without

LEMMA InlineAppends ==
  ASSUME NEW T, NEW q \in Seq(T), NEW e \in T
  PROVE  /\ Append(q, e) \in Seq(T)
         /\ Inline!Range(Append(q, e)) = Inline!Range(q) \cup {e}
         /\ Inline!IsInjective(q) /\ e \notin Inline!Range(q) => Inline!IsInjective(Append(q, e))
BY AppendQueueProperties, SameQueueOps

LEMMA InlineRemoves ==
  ASSUME NEW T, NEW q \in Seq(T), NEW S
  PROVE  /\ Inline!Without(q, S) \in Seq(T)
         /\ Inline!Range(Inline!Without(q, S)) = Inline!Range(q) \ S
         /\ Inline!IsInjective(q) => Inline!IsInjective(Inline!Without(q, S))
BY WithoutProperties, SameQueueOps

LEMMA InlineSets ==
  ASSUME Inline!InlineAssumption, Inline!TypeOK
  PROVE  /\ Len(submitted) \in Nat /\ Inline!Known = 1 .. Len(submitted) /\
            Inline!Known \subseteq Inline!Request
         /\ \A t \in Inline!Known : submitted[t] \in [rid : Rid, kind :
              Inline!Kind] /\ Inline!IdOf(t) \in Rid
         /\ Inline!Request \subseteq Nat /\ Inline!None \notin Inline!Request /\
              Inline!Request \subseteq Inline!Job /\ RpcJob \subseteq Inline!Job
         /\ Inline!Job = Inline!Request \cup RpcJob /\ Inline!Request \cap RpcJob = {}
<1>1. submitted \in Seq([rid : Rid, kind : Inline!Kind]) /\ Len(submitted) =< MaxRequests
  BY DEF Inline!TypeOK
<1>2. /\ Len(submitted) \in Nat /\ Inline!Known = 1 .. Len(submitted)
      /\ \A t \in Inline!Known : submitted[t] \in [rid : Rid, kind : Inline!Kind]
  BY <1>1, LenProperties, ElementOfSeq DEF Inline!Known
<1> QED BY <1>1, <1>2 DEF Inline!InlineAssumption, Inline!Request, Inline!Job, Inline!None,
  Inline!IdOf

(* What a callback that is scheduled adds.                                 *)
LEMMA CallbackPut ==
  ASSUME Inline!TypeOK, NEW c \in Inline!Callback, callbacks' = Inline!Scheduled(c)
  PROVE  /\ callbacks' \in Seq(Inline!Callback)
         /\ \A j : Inline!Scheduling(j)' <=> Inline!Scheduling(j) \/ j = c.of
         /\ Len(callbacks) + 1 \in DOMAIN callbacks' /\ callbacks'[Len(callbacks) + 1] = c
         /\ \A k \in DOMAIN callbacks' :
              k =< Len(callbacks) + 1 /\ (k = Len(callbacks) + 1 \/
                (k \in DOMAIN callbacks /\ callbacks'[k] = callbacks[k]))
         /\ Len(callbacks) \in Nat /\ DOMAIN callbacks = 1 .. Len(callbacks)
<1>1. /\ callbacks \in Seq(Inline!Callback) /\ callbacks' = Append(callbacks, c)
      /\ Len(callbacks) \in Nat /\ DOMAIN callbacks = 1 .. Len(callbacks)
  BY LenProperties DEF Inline!TypeOK, Inline!Scheduled
<1>2. /\ callbacks' \in Seq(Inline!Callback)
      /\ Len(callbacks') = Len(callbacks) + 1 /\ callbacks'[Len(callbacks) + 1] = c
      /\ \A k \in 1 .. Len(callbacks) : callbacks'[k] = callbacks[k]
  BY <1>1, AppendProperties
<1>3. DOMAIN callbacks' = 1 .. Len(callbacks) + 1
  BY <1>1, <1>2, LenProperties
<1>4. \A j : Inline!Scheduling(j)' <=> Inline!Scheduling(j) \/ j = c.of
  BY <1>1, <1>2, <1>3 DEF Inline!Scheduling
<1> QED BY <1>1, <1>2, <1>3, <1>4

(* What the callback that is run leaves.                                   *)
LEMMA CallbackTaken ==
  ASSUME Inline!TypeOK, callbacks # <<>>, callbacks' = Tail(callbacks)
  PROVE  /\ callbacks' \in Seq(Inline!Callback)
         /\ Head(callbacks) = callbacks[1] /\ 1 \in DOMAIN callbacks
         /\ Head(callbacks) \in Inline!Callback
         /\ \A j : Inline!Scheduling(j)' => Inline!Scheduling(j)
         /\ \A k \in DOMAIN callbacks' :
              k \in Nat \ {0} /\ k + 1 \in DOMAIN callbacks /\ callbacks'[k] = callbacks[k + 1]
         /\ DOMAIN callbacks \subseteq Nat
<1>1. /\ callbacks \in Seq(Inline!Callback)
      /\ Len(callbacks) \in Nat /\ DOMAIN callbacks = 1 .. Len(callbacks) /\ Len(callbacks) # 0
  BY LenProperties, EmptySeq DEF Inline!TypeOK
<1>2. /\ callbacks' \in Seq(Inline!Callback)
      /\ Head(callbacks) \in Inline!Callback
      /\ \A k \in DOMAIN callbacks' : k + 1 \in DOMAIN callbacks /\
           callbacks'[k] = callbacks[k + 1]
  BY <1>1, TailQueueProperties
<1>3. \A k \in DOMAIN callbacks' : k \in Nat \ {0}
  BY <1>2, LenProperties
<1>4. Head(callbacks) = callbacks[1] /\ 1 \in DOMAIN callbacks
  BY <1>1
<1>5. \A j : Inline!Scheduling(j)' => Inline!Scheduling(j)
  BY <1>2 DEF Inline!Scheduling
<1> QED BY <1>1, <1>2, <1>3, <1>4, <1>5

(* What is put into the output queue, by a request that has no reply yet.  *)
LEMMA OutputPut ==
  ASSUME Inline!TypeOK, Inline!ErrorIsLast, NEW o \in Inline!Putting,
         ~Inline!Replied(o.of, outputs), outputs' = Append(outputs, o)
  PROVE  /\ outputs' \in Seq(Inline!Putting)
         /\ Inline!ErrorIsLast'
         /\ \A t : Inline!Replied(t, outputs') <=>
              Inline!Replied(t, outputs) \/ (t = o.of /\ o.type \in {"result", "error"})
<1>1. /\ outputs \in Seq(Inline!Putting)
      /\ Len(outputs) \in Nat /\ DOMAIN outputs = 1 .. Len(outputs)
  BY LenProperties DEF Inline!TypeOK
<1>2. /\ outputs' \in Seq(Inline!Putting)
      /\ Len(outputs') = Len(outputs) + 1 /\ outputs'[Len(outputs) + 1] = o
      /\ \A k \in 1 .. Len(outputs) : outputs'[k] = outputs[k]
  BY <1>1, AppendProperties
<1>3. DOMAIN outputs' = 1 .. Len(outputs) + 1
  BY <1>1, <1>2, LenProperties
<1>4. \A t : Inline!Replied(t, outputs') <=>
        Inline!Replied(t, outputs) \/ (t = o.of /\ o.type \in {"result", "error"})
  BY <1>1, <1>2, <1>3 DEF Inline!Replied
<1>5. Inline!ErrorIsLast'
  <2> SUFFICES ASSUME NEW k \in DOMAIN outputs', NEW l \in DOMAIN outputs',
                      outputs'[k].of = outputs'[l].of, outputs'[k].type \in {"result", "error"}
               PROVE  l =< k
    BY DEF Inline!ErrorIsLast
  <2>1. CASE k = Len(outputs) + 1
    BY <1>1, <1>3, <2>1
  <2>2. CASE k # Len(outputs) + 1 /\ l = Len(outputs) + 1
    BY <1>1, <1>2, <1>3, <2>2 DEF Inline!Replied
  <2>3. CASE k # Len(outputs) + 1 /\ l # Len(outputs) + 1
    BY <1>1, <1>2, <1>3, <2>3 DEF Inline!ErrorIsLast
  <2> QED BY <2>1, <2>2, <2>3
<1> QED BY <1>2, <1>4, <1>5

LEMMA InitInline == ASSUME Inline!InlineAssumption, Inline!InlineInit PROVE Inline!InlineInvariant
<1> USE DEF Inline!InlineInit
<1>1. Inline!Known = {} /\ DOMAIN callbacks = {} /\ DOMAIN outputs = {} /\ Len(submitted) = 0
  BY DEF Inline!Known
<1>2. Inline!TypeOK
  <2>1. /\ submitted \in Seq([rid : Rid, kind : Inline!Kind]) /\ queue \in Seq(Inline!Job)
        /\ callbacks \in Seq(Inline!Callback)
        /\ outputs \in Seq(Inline!Putting)
    BY EmptySeq
  <2>2. chunks \in [Inline!Request -> 0 .. MaxChunks] /\ 0 =< MaxRequests
    BY DEF Inline!InlineAssumption
  <2> QED BY <1>1, <2>1, <2>2 DEF Inline!TypeOK
<1>3. Inline!QueueMatches
  BY DEF Inline!QueueMatches, Inline!IsInjective, Inline!Range
<1>4. \A j \in Inline!Job : Inline!JobMatches(j)
  BY <1>1 DEF Inline!JobMatches, Inline!Unstarted, Inline!Scheduling, Inline!Job, Inline!Request
<1>5. Inline!EndIsLast /\ Inline!ReplyIsLast /\ Inline!ErrorIsLast /\ Inline!FailureMatches /\
        Inline!TasksMatch
  BY <1>1 DEF Inline!EndIsLast, Inline!ReplyIsLast, Inline!ErrorIsLast, Inline!FailureMatches,
    Inline!TasksMatch, Inline!Replied
<1> QED BY <1>1, <1>2, <1>3, <1>4, <1>5 DEF Inline!InlineInvariant

LEMMA AddRequestKeeps ==
  ASSUME Inline!InlineAssumption, Inline!InlineInvariant, NEW r \in Rid,
         NEW kind \in Inline!Kind, Inline!AddRequest(r, kind)
  PROVE  Inline!InlineInvariant'
<1> DEFINE new == [rid |-> r, kind |-> kind]
<1> USE DEF Inline!InlineInvariant
<1>0. PICK t \in Inline!Request : t = Len(submitted) + 1
  BY InlineSets DEF Inline!AddRequest, Inline!Request, Inline!InlineAssumption
<1>1. /\ submitted' = Append(submitted, new)
      /\ task' = [task EXCEPT ![t] = "created"] /\ tasks' = [tasks EXCEPT ![r] = t]
      /\ UNCHANGED <<given_up, cancelled, caller, queue, job, chunks, aborting, hit, callbacks,
                     outputs, closing>>
  BY <1>0 DEF Inline!AddRequest
<1>2. /\ submitted' \in Seq([rid : Rid, kind : Inline!Kind]) /\ Len(submitted') =< MaxRequests
      /\ Inline!Known' = Inline!Known \cup {t} /\ t \notin Inline!Known
      /\ Inline!IdOf(t)' = r /\ \A u \in Inline!Known : Inline!IdOf(u)' = Inline!IdOf(u)
  <2>1. submitted \in Seq([rid : Rid, kind : Inline!Kind]) /\ new \in [rid : Rid, kind :
          Inline!Kind]
    BY DEF Inline!TypeOK
  <2>2. /\ submitted' \in Seq([rid : Rid, kind : Inline!Kind]) /\ Len(submitted') = t
        /\ submitted'[t] = new /\ \A u \in 1 .. Len(submitted) : submitted'[u] = submitted[u]
    BY <1>0, <1>1, <2>1, AppendProperties
  <2>3. Inline!Known' = 1 .. t /\ Inline!Known = 1 .. Len(submitted) /\ Len(submitted) \in Nat
    BY <1>0, <2>2, InlineSets, LenProperties DEF Inline!Known
  <2>4. Inline!IdOf(t)' = r /\ \A u \in Inline!Known : Inline!IdOf(u)' = Inline!IdOf(u)
    BY <1>0, <2>2, <2>3 DEF Inline!IdOf
  <2>5. Inline!Known' = Inline!Known \cup {t} /\ t \notin Inline!Known /\
          Len(submitted') =< MaxRequests
    BY <1>0, <1>1, <2>2, <2>3 DEF Inline!Request
  <2> QED BY <2>2, <2>4, <2>5
<1> HIDE DEF new
<1>3. task[t] = "none" /\ task'[t] = "created" /\ \A u \in Inline!Request \ {t} :
        task'[u] = task[u]
  BY <1>1, <1>2 DEF Inline!TypeOK
<1>4. Inline!TypeOK'
  BY <1>1, <1>2 DEF Inline!TypeOK
<1>5. \A u \in Inline!Request : task'[u] = "none" <=> u \notin Inline!Known'
  BY <1>2, <1>3
<1>6. Inline!QueueMatches' /\ Inline!EndIsLast' /\ Inline!ErrorIsLast'
  BY <1>1, <1>3 DEF Inline!QueueMatches, Inline!EndIsLast, Inline!ErrorIsLast, Inline!Finished
<1>7. \A j \in Inline!Job : Inline!JobMatches(j)'
  BY <1>1, <1>3 DEF Inline!JobMatches, Inline!Unstarted, Inline!Scheduling
<1>8. Inline!ReplyIsLast' /\ Inline!FailureMatches'
  BY <1>1, <1>3 DEF Inline!ReplyIsLast, Inline!FailureMatches, Inline!Scheduling
<1>9. Inline!TasksMatch'
  <2> SUFFICES ASSUME NEW u \in Inline!Known', Inline!Lives(u)', ~Inline!Reused(u)'
               PROVE  /\ tasks'[Inline!IdOf(u)'] = u \/ u \in cancelled'
                      /\ u \in given_up' => u \in cancelled'
    BY DEF Inline!TasksMatch
  <2>1. CASE u = t
    <3>1. Inline!IdOf(u)' = r /\ tasks'[r] = t /\ t \notin given_up'
      BY <1>1, <1>2, <2>1 DEF Inline!TypeOK
    <3> QED BY <2>1, <3>1
  <2>2. CASE u # t
    <3>0. u \in Inline!Known /\ u \in Inline!Request /\ Inline!IdOf(u)' = Inline!IdOf(u) /\
            t \in Inline!Known' \ {u}
      BY <1>2, <2>2, InlineSets
    <3>1. u \in Inline!Known /\ u \in Inline!Request /\ Inline!IdOf(u) # r
      BY <1>2, <3>0 DEF Inline!Reused
    <3>2. ~Inline!Reused(u) /\ Inline!Lives(u)
      BY <1>2, <1>3, <2>2, <3>1 DEF Inline!Reused, Inline!Lives
    <3> QED BY <1>1, <1>2, <3>1, <3>2, InlineSets DEF Inline!TasksMatch, Inline!TypeOK
  <2> QED BY <2>1, <2>2
<1> QED BY <1>4, <1>5, <1>6, <1>7, <1>8, <1>9

LEMMA AbortKeeps ==
  ASSUME Inline!InlineAssumption, Inline!InlineInvariant, NEW r \in Rid, Inline!AbortRequests(r)
         PROVE Inline!InlineInvariant'
<1> USE DEF Inline!InlineInvariant
<1>1. /\ given_up' = given_up \cup {t \in Inline!Known : Inline!IdOf(t) = r}
      /\ cancelled' = cancelled \cup ({tasks[r]} \ {Inline!None})
      /\ tasks' = [tasks EXCEPT ![r] = Inline!None] /\ aborting' = aborting \cup {r}
      /\ UNCHANGED <<submitted, task, caller, queue, job, chunks, hit, callbacks, outputs,
           closing>>
  BY DEF Inline!AbortRequests, Inline!Cancelled
<1>2. Inline!Known' = Inline!Known /\ \A t : Inline!IdOf(t)' = Inline!IdOf(t) /\
        (Inline!Reused(t)' <=> Inline!Reused(t))
  BY <1>1 DEF Inline!Known, Inline!IdOf, Inline!Reused
<1>3. Inline!TypeOK'
  BY <1>1, <1>2 DEF Inline!TypeOK
<1>4. /\ Inline!QueueMatches' /\ Inline!EndIsLast' /\ Inline!ErrorIsLast' /\
           Inline!ReplyIsLast' /\ Inline!FailureMatches'
      /\ \A j \in Inline!Job : Inline!JobMatches(j)'
  BY <1>1 DEF Inline!QueueMatches, Inline!EndIsLast, Inline!Finished, Inline!ErrorIsLast,
    Inline!JobMatches, Inline!Unstarted, Inline!Scheduling, Inline!ReplyIsLast,
    Inline!FailureMatches
<1>5. Inline!TasksMatch'
  <2> SUFFICES ASSUME NEW t \in Inline!Known, Inline!Lives(t), ~Inline!Reused(t)
               PROVE  /\ tasks'[Inline!IdOf(t)] = t \/ t \in cancelled'
                      /\ t \in given_up' => t \in cancelled'
    BY <1>1, <1>2 DEF Inline!TasksMatch, Inline!Lives
  <2>1. t \in Inline!Request /\ Inline!IdOf(t) \in Rid /\ t # Inline!None
    BY InlineSets
  <2> QED BY <1>1, <2>1 DEF Inline!TasksMatch, Inline!TypeOK
<1> QED BY <1>1, <1>2, <1>3, <1>4, <1>5

LEMMA StartTaskKeeps ==
  ASSUME Inline!InlineAssumption, Inline!InlineInvariant, NEW t \in Inline!Known,
         Inline!StartTask(t) PROVE Inline!InlineInvariant'
<1> USE DEF Inline!InlineInvariant
<1>0. /\ t \in Inline!Request /\ t \in Inline!Job /\ task[t] = "created" /\ job[t] = "none" /\
           ~Inline!Scheduling(t)
      /\ ~Inline!Replied(t, outputs)
  BY InlineSets DEF Inline!StartTask, Inline!JobMatches, Inline!Unstarted, Inline!ReplyIsLast
<1>1. /\ cancelled' = cancelled \ {t}
      /\ UNCHANGED <<submitted, given_up, tasks, caller, chunks, aborting, hit, callbacks,
           outputs,
                     closing>>
      /\ \/ /\ t \in cancelled /\ task' = [task EXCEPT ![t] = "ended"]
            /\ queue' = queue /\ job' = job
         \/ /\ t \notin cancelled /\ task' = [task EXCEPT ![t] = "waiting"]
            /\ queue' = Append(queue, t) /\ job' = [job EXCEPT ![t] = "queued"]
  BY DEF Inline!StartTask
<1>2. /\ task'[t] = (IF t \in cancelled THEN "ended" ELSE "waiting")
      /\ job'[t] = (IF t \in cancelled THEN "none" ELSE "queued")
      /\ \A u \in Inline!Request \ {t} : task'[u] = task[u]
      /\ \A j \in Inline!Job \ {t} : job'[j] = job[j]
  BY <1>0, <1>1 DEF Inline!TypeOK
<1>3. Inline!Known' = Inline!Known /\ \A u : Inline!IdOf(u)' = Inline!IdOf(u) /\
        (Inline!Reused(u)' <=> Inline!Reused(u))
  BY <1>1 DEF Inline!Known, Inline!IdOf, Inline!Reused
<1>4. Inline!QueueMatches' /\ queue' \in Seq(Inline!Job)
  <2>1. CASE t \in cancelled
    BY <1>1, <2>1 DEF Inline!QueueMatches, Inline!TypeOK
  <2>2. CASE t \notin cancelled
    <3>1. t \notin Inline!Range(queue)
      BY <1>0 DEF Inline!QueueMatches
    <3>0. queue \in Seq(Inline!Job) /\ Inline!IsInjective(queue) /\ queue' = Append(queue, t)
      BY <1>1, <2>2 DEF Inline!TypeOK, Inline!QueueMatches
    <3>2. /\ queue' \in Seq(Inline!Job) /\ Inline!Range(queue') = Inline!Range(queue) \cup {t} /\
               Inline!IsInjective(queue')
      BY <1>0, <3>0, <3>1, InlineAppends
    <3>3. Inline!Range(queue) \subseteq Inline!Job
      BY ElementOfSeq, LenProperties DEF Inline!Range, Inline!TypeOK
    <3> QED BY <1>2, <2>2, <3>1, <3>2, <3>3 DEF Inline!QueueMatches
  <2> QED BY <2>1, <2>2
<1>5. Inline!TypeOK'
  BY <1>0, <1>1, <1>3, <1>4 DEF Inline!TypeOK
<1>6. \A u \in Inline!Request : task'[u] = "none" <=> u \notin Inline!Known'
  BY <1>0, <1>2, <1>3
<1>7. \A j \in Inline!Job : Inline!JobMatches(j)'
  BY <1>0, <1>1, <1>2 DEF Inline!JobMatches, Inline!Unstarted, Inline!Scheduling
<1>8. Inline!EndIsLast' /\ Inline!ErrorIsLast'
  <2>1. \A k \in DOMAIN callbacks : callbacks[k].of # t /\ callbacks[k].of \in Inline!Job
    BY <1>0, ElementOfSeq, LenProperties, InlineSets DEF Inline!Scheduling, Inline!TypeOK,
      Inline!Callback
  <2> QED BY <1>1, <1>2, <2>1 DEF Inline!EndIsLast, Inline!ErrorIsLast, Inline!Finished
<1>9. Inline!ReplyIsLast' /\ Inline!FailureMatches'
  BY <1>0, <1>1, <1>2, InlineSets DEF Inline!ReplyIsLast, Inline!FailureMatches, Inline!Scheduling
<1>10. Inline!TasksMatch'
  BY <1>0, <1>1, <1>2, <1>3, InlineSets DEF Inline!TasksMatch, Inline!Lives
<1> QED BY <1>5, <1>6, <1>4, <1>7, <1>8, <1>9, <1>10

LEMMA CancelTaskKeeps ==
  ASSUME Inline!InlineAssumption, Inline!InlineInvariant, NEW t \in Inline!Known,
         Inline!CancelTask(t) PROVE Inline!InlineInvariant'
<1> USE DEF Inline!InlineInvariant
<1>0. /\ t \in Inline!Request /\ t \in Inline!Job /\ task[t] \in {"waiting", "woken"} /\
           t \in cancelled
      /\ ~Inline!Replied(t, outputs) /\ Inline!IdOf(t) \in Rid
  BY InlineSets DEF Inline!CancelTask, Inline!ReplyIsLast
<1>1. /\ task' = [task EXCEPT ![t] = "ended"] /\
           tasks' = [tasks EXCEPT ![Inline!IdOf(t)] = Inline!None]
      /\ queue' = Inline!Without(queue, {t})
      /\ job' = [job EXCEPT ![t] = IF job[t] = "running" THEN "running" ELSE "none"]
      /\ cancelled' = cancelled \ {t}
      /\ UNCHANGED <<submitted, given_up, caller, chunks, aborting, hit, callbacks, outputs,
           closing>>
  BY DEF Inline!CancelTask, Inline!Popped
<1>2. /\ task'[t] = "ended" /\ job'[t] = (IF job[t] = "running" THEN "running" ELSE "none")
      /\ \A u \in Inline!Request \ {t} : task'[u] = task[u]
      /\ \A j \in Inline!Job \ {t} : job'[j] = job[j]
      /\ \A r \in Rid \ {Inline!IdOf(t)} : tasks'[r] = tasks[r]
  BY <1>0, <1>1 DEF Inline!TypeOK
<1>3. Inline!Known' = Inline!Known /\ \A u : Inline!IdOf(u)' = Inline!IdOf(u) /\
        (Inline!Reused(u)' <=> Inline!Reused(u))
  BY <1>1 DEF Inline!Known, Inline!IdOf, Inline!Reused
<1>4. Inline!QueueMatches' /\ queue' \in Seq(Inline!Job)
  <2>1. /\ queue' \in Seq(Inline!Job) /\ Inline!Range(queue') = Inline!Range(queue) \ {t} /\
             Inline!IsInjective(queue')
    BY <1>1, InlineRemoves DEF Inline!TypeOK, Inline!QueueMatches
  <2>2. Inline!Range(queue) \subseteq Inline!Job
    BY ElementOfSeq, LenProperties DEF Inline!Range, Inline!TypeOK
  <2> QED BY <1>2, <2>1, <2>2 DEF Inline!QueueMatches
<1>5. Inline!TypeOK'
  <2>1. job' \in [Inline!Job -> {"none", "queued", "running"} \cup Inline!Ended]
    BY <1>1 DEF Inline!TypeOK
  <2> QED BY <1>0, <1>1, <1>3, <1>4, <2>1 DEF Inline!TypeOK
<1>6. \A u \in Inline!Request : task'[u] = "none" <=> u \notin Inline!Known'
  BY <1>0, <1>2, <1>3
<1>7. \A j \in Inline!Job : Inline!JobMatches(j)'
  BY <1>0, <1>1, <1>2 DEF Inline!JobMatches, Inline!Unstarted, Inline!Scheduling
<1>8. Inline!EndIsLast' /\ Inline!ErrorIsLast'
  <2>1. \A k \in DOMAIN callbacks : callbacks[k].of \in Inline!Job
    BY ElementOfSeq, LenProperties, InlineSets DEF Inline!TypeOK, Inline!Callback
  <2>2. \A j \in Inline!Job : Inline!Finished(j) => Inline!Finished(j)'
    BY <1>0, <1>2 DEF Inline!Finished, Inline!Ended
  <2> QED BY <1>1, <2>1, <2>2 DEF Inline!EndIsLast, Inline!ErrorIsLast
<1>9. Inline!ReplyIsLast' /\ Inline!FailureMatches'
  BY <1>0, <1>1, <1>2, InlineSets DEF Inline!ReplyIsLast, Inline!FailureMatches, Inline!Scheduling
<1>10. Inline!TasksMatch'
  <2> SUFFICES ASSUME NEW u \in Inline!Known, Inline!Lives(u)', ~Inline!Reused(u)
               PROVE  /\ tasks'[Inline!IdOf(u)] = u \/ u \in cancelled'
                      /\ u \in given_up => u \in cancelled'
    BY <1>1, <1>3 DEF Inline!TasksMatch
  <2>1. u # t /\ u \in Inline!Request /\ Inline!Lives(u) /\ Inline!IdOf(u) # Inline!IdOf(t) /\
          Inline!IdOf(u) \in Rid
    BY <1>0, <1>2, InlineSets DEF Inline!Lives, Inline!Reused
  <2> QED BY <1>1, <1>2, <2>1 DEF Inline!TasksMatch
<1> QED BY <1>5, <1>6, <1>4, <1>7, <1>8, <1>9, <1>10

(* The reply of a woken task, or silence.                                  *)
LEMMA ReplyPut ==
  ASSUME Inline!InlineAssumption, Inline!InlineInvariant, NEW t \in Inline!Known,
         Inline!FinishTask(t)
  PROVE  /\ outputs' \in Seq(Inline!Putting) /\ Inline!ErrorIsLast'
         /\ \A u : Inline!Replied(u, outputs') => Inline!Replied(u, outputs) \/ u = t
         /\ \A u : Inline!Replied(u, outputs) => Inline!Replied(u, outputs')
         /\ Inline!Replied(t, outputs') => job[t] \in {"result", "error"}
         /\ job[t] = "error" => Inline!Replied(t, outputs')
<1> USE DEF Inline!InlineInvariant
<1>0. /\ t \in Inline!Request /\ t \in Inline!Job /\ task[t] = "woken" /\ job[t] \in Inline!Ended
      /\ ~Inline!Replied(t, outputs) /\ outputs' = outputs \o Inline!Reply(t)
  BY InlineSets DEF Inline!FinishTask, Inline!JobMatches, Inline!ReplyIsLast
<1>1. CASE Inline!Reply(t) = <<>>
  <2>1. outputs' = outputs /\ job[t] # "error"
    <3>1. outputs' = outputs
      BY <1>0, <1>1, ConcatEmptySeq DEF Inline!TypeOK
    <3>2. job[t] # "error"
      <4> SUFFICES ASSUME job[t] = "error" PROVE FALSE
        OBVIOUS
      <4>1. Inline!Reply(t) = <<Inline!Output("error", t)>>
        BY DEF Inline!Reply
      <4> QED BY <1>1, <4>1
    <3> QED BY <3>1, <3>2
  <2> QED BY <1>0, <2>1 DEF Inline!TypeOK, Inline!ErrorIsLast
<1>2. CASE Inline!Reply(t) # <<>>
  <2> DEFINE o == [type |-> job[t], of |-> t]
  <2>1. Inline!Reply(t) = <<o>> /\ job[t] \in {"result", "error"}
    BY <1>0, <1>2 DEF Inline!Reply, Inline!Output, Inline!Ended
  <2>2. o \in Inline!Putting /\ o.of = t /\ o.type = job[t]
    BY <1>0 DEF Inline!Putting
  <2>3. outputs' = Append(outputs, o)
    BY <1>0, <2>1, <2>2, AppendIsConcat DEF Inline!TypeOK
  <2> HIDE DEF o
  <2>4. /\ outputs' \in Seq(Inline!Putting) /\ Inline!ErrorIsLast'
        /\ \A u : Inline!Replied(u, outputs') <=>
             Inline!Replied(u, outputs) \/ (u = o.of /\ o.type \in {"result", "error"})
    BY <1>0, <2>2, <2>3, OutputPut
  <2> QED BY <2>1, <2>2, <2>4
<1> QED BY <1>1, <1>2

LEMMA FinishTaskKeeps ==
  ASSUME Inline!InlineAssumption, Inline!InlineInvariant, NEW t \in Inline!Known,
         Inline!FinishTask(t) PROVE Inline!InlineInvariant'
<1> USE DEF Inline!InlineInvariant
<1>0. /\ t \in Inline!Request /\ t \in Inline!Job /\ task[t] = "woken" /\
           ~Inline!Scheduling(t) /\ Inline!IdOf(t) \in Rid
  BY InlineSets DEF Inline!FinishTask, Inline!JobMatches
<1>1. /\ task' = [task EXCEPT ![t] = "ended"] /\
           tasks' = [tasks EXCEPT ![Inline!IdOf(t)] = Inline!None]
      /\ UNCHANGED <<submitted, given_up, cancelled, caller, queue, job, chunks, aborting, hit,
                     callbacks, closing>>
  BY DEF Inline!FinishTask, Inline!Popped
<1>2. /\ task'[t] = "ended"
      /\ \A u \in Inline!Request \ {t} : task'[u] = task[u]
      /\ \A r \in Rid \ {Inline!IdOf(t)} : tasks'[r] = tasks[r]
  BY <1>0, <1>1 DEF Inline!TypeOK
<1>3. Inline!Known' = Inline!Known /\ \A u : Inline!IdOf(u)' = Inline!IdOf(u) /\
        (Inline!Reused(u)' <=> Inline!Reused(u))
  BY <1>1 DEF Inline!Known, Inline!IdOf, Inline!Reused
<1>5. Inline!TypeOK'
  BY <1>0, <1>1, <1>3, ReplyPut DEF Inline!TypeOK
<1>6. \A u \in Inline!Request : task'[u] = "none" <=> u \notin Inline!Known'
  BY <1>0, <1>2, <1>3
<1>7. Inline!QueueMatches' /\ \A j \in Inline!Job : Inline!JobMatches(j)'
  BY <1>0, <1>1, <1>2 DEF Inline!QueueMatches, Inline!JobMatches, Inline!Unstarted,
    Inline!Scheduling
<1>8. Inline!EndIsLast' /\ Inline!ErrorIsLast'
  <2>1. \A k \in DOMAIN callbacks : callbacks[k].of \in Inline!Job
    BY ElementOfSeq, LenProperties, InlineSets DEF Inline!TypeOK, Inline!Callback
  <2>2. \A j \in Inline!Job : Inline!Finished(j) => Inline!Finished(j)'
    BY <1>0, <1>1, <1>2 DEF Inline!Finished
  <2> QED BY <1>1, <2>1, <2>2, ReplyPut DEF Inline!EndIsLast
<1>9. Inline!ReplyIsLast'
  BY <1>0, <1>1, <1>2, ReplyPut DEF Inline!ReplyIsLast, Inline!Scheduling
<1>10. Inline!FailureMatches'
  BY <1>0, <1>1, <1>2, ReplyPut DEF Inline!FailureMatches
<1>11. Inline!TasksMatch'
  <2> SUFFICES ASSUME NEW u \in Inline!Known, Inline!Lives(u)', ~Inline!Reused(u)
               PROVE  /\ tasks'[Inline!IdOf(u)] = u \/ u \in cancelled'
                      /\ u \in given_up => u \in cancelled'
    BY <1>1, <1>3 DEF Inline!TasksMatch
  <2>1. u # t /\ u \in Inline!Request /\ Inline!Lives(u) /\ Inline!IdOf(u) # Inline!IdOf(t) /\
          Inline!IdOf(u) \in Rid
    BY <1>0, <1>2, InlineSets DEF Inline!Lives, Inline!Reused
  <2> QED BY <1>1, <1>2, <2>1 DEF Inline!TasksMatch
<1> QED BY <1>5, <1>6, <1>7, <1>8, <1>9, <1>10, <1>11

LEMMA CollectiveRpcKeeps ==
  ASSUME Inline!InlineAssumption, Inline!InlineInvariant, NEW n \in RpcJob,
         Inline!CollectiveRpc(n) PROVE Inline!InlineInvariant'
<1> USE DEF Inline!InlineInvariant
<1>0. /\ n \in Inline!Job /\ n \notin Inline!Request /\ caller[n] = "idle" /\ job[n] = "none" /\
           ~Inline!Scheduling(n)
  BY InlineSets DEF Inline!CollectiveRpc, Inline!JobMatches, Inline!Unstarted
<1>1. /\ caller' = [caller EXCEPT ![n] = "waiting"]
      /\ queue' = Append(queue, n) /\ job' = [job EXCEPT ![n] = "queued"]
      /\ UNCHANGED <<submitted, given_up, task, cancelled, tasks, chunks, aborting, hit,
           callbacks,
                     outputs, closing>>
  BY DEF Inline!CollectiveRpc
<1>2. /\ caller'[n] = "waiting" /\ job'[n] = "queued"
      /\ \A m \in RpcJob \ {n} : caller'[m] = caller[m]
      /\ \A j \in Inline!Job \ {n} : job'[j] = job[j]
  BY <1>0, <1>1 DEF Inline!TypeOK
<1>3. Inline!Known' = Inline!Known /\ \A u : Inline!IdOf(u)' = Inline!IdOf(u) /\
        (Inline!Reused(u)' <=> Inline!Reused(u))
  BY <1>1 DEF Inline!Known, Inline!IdOf, Inline!Reused
<1>4. Inline!QueueMatches' /\ queue' \in Seq(Inline!Job)
  <2>1. queue \in Seq(Inline!Job) /\ Inline!IsInjective(queue) /\ n \notin Inline!Range(queue)
    BY <1>0 DEF Inline!TypeOK, Inline!QueueMatches
  <2>2. /\ queue' \in Seq(Inline!Job) /\ Inline!Range(queue') = Inline!Range(queue) \cup {n} /\
             Inline!IsInjective(queue')
    BY <1>0, <1>1, <2>1, InlineAppends
  <2>3. Inline!Range(queue) \subseteq Inline!Job
    BY ElementOfSeq, LenProperties DEF Inline!Range, Inline!TypeOK
  <2> QED BY <1>2, <2>1, <2>2, <2>3 DEF Inline!QueueMatches
<1>5. Inline!TypeOK'
  BY <1>0, <1>1, <1>3, <1>4 DEF Inline!TypeOK
<1>6. \A u \in Inline!Request : task'[u] = "none" <=> u \notin Inline!Known'
  BY <1>1, <1>3
<1>7. \A j \in Inline!Job : Inline!JobMatches(j)'
  BY <1>0, <1>1, <1>2, InlineSets DEF Inline!JobMatches, Inline!Unstarted, Inline!Scheduling
<1>8. Inline!EndIsLast' /\ Inline!ErrorIsLast'
  <2>1. \A k \in DOMAIN callbacks : callbacks[k].of # n /\ callbacks[k].of \in Inline!Job
    BY <1>0, ElementOfSeq, LenProperties, InlineSets DEF Inline!Scheduling, Inline!TypeOK,
      Inline!Callback
  <2> QED BY <1>1, <1>2, <2>1 DEF Inline!EndIsLast, Inline!ErrorIsLast, Inline!Finished
<1>9. Inline!ReplyIsLast' /\ Inline!FailureMatches' /\ Inline!TasksMatch'
  BY <1>0, <1>1, <1>2, <1>3, InlineSets
     DEF Inline!ReplyIsLast, Inline!FailureMatches, Inline!Scheduling, Inline!TasksMatch,
       Inline!Lives
<1> QED BY <1>5, <1>6, <1>4, <1>7, <1>8, <1>9

(* A chunk finds its request without a reply, and an end finds the job of  *)
(* a task that waits ended, and no callback of it behind.                  *)
LEMMA RunCallbackKeeps ==
  ASSUME Inline!InlineAssumption, Inline!InlineInvariant, Inline!RunCallback
  PROVE  /\ Inline!InlineInvariant'
         /\ \A t : Inline!Replied(t, outputs') => Inline!Replied(t, outputs)
<1> USE DEF Inline!InlineInvariant
<1>0. PICK c : c = Head(callbacks)
  OBVIOUS
<1>1. /\ callbacks # <<>> /\ callbacks' = Tail(callbacks)
      /\ outputs' = (IF c.type = "chunk" THEN Append(outputs, c) ELSE outputs)
      /\ task' = (IF c.type = "end" /\ c.of \in Inline!Request /\ task[c.of] = "waiting"
                  THEN [task EXCEPT ![c.of] = "woken"] ELSE task)
      /\ caller' = (IF c.type = "end" /\ c.of \in RpcJob
                    THEN [caller EXCEPT ![c.of] = "returned"] ELSE caller)
      /\ UNCHANGED <<submitted, given_up, cancelled, tasks, queue, job, chunks, aborting, hit,
                     closing>>
  BY <1>0 DEF Inline!RunCallback
<1>2. /\ callbacks' \in Seq(Inline!Callback)
      /\ c = callbacks[1] /\ 1 \in DOMAIN callbacks /\ c \in Inline!Callback
      /\ \A j : Inline!Scheduling(j)' => Inline!Scheduling(j)
      /\ \A k \in DOMAIN callbacks' :
           k \in Nat \ {0} /\ k + 1 \in DOMAIN callbacks /\ callbacks'[k] = callbacks[k + 1]
      /\ DOMAIN callbacks \subseteq Nat
  BY <1>0, <1>1, CallbackTaken
<1>3. Inline!Known' = Inline!Known /\ \A u : Inline!IdOf(u)' = Inline!IdOf(u) /\
        (Inline!Reused(u)' <=> Inline!Reused(u))
  BY <1>1 DEF Inline!Known, Inline!IdOf, Inline!Reused
<1>4. c.of \in Inline!Job /\ (c.type = "chunk" => c.of \in Inline!Request) /\
        c.type \in {"chunk", "end"}
      /\ Inline!Scheduling(c.of)
  BY <1>2, InlineSets DEF Inline!Callback, Inline!Scheduling
<1>5. /\ outputs' \in Seq(Inline!Putting) /\ Inline!ErrorIsLast'
      /\ \A t : Inline!Replied(t, outputs') <=> Inline!Replied(t, outputs)
  <2>1. CASE c.type = "chunk"
    <3>1. c \in Inline!Putting /\ ~Inline!Replied(c.of, outputs)
      BY <1>2, <1>4, <2>1 DEF Inline!Callback, Inline!Putting, Inline!ReplyIsLast
    <3>2. outputs' = Append(outputs, c)
      BY <1>1, <2>1
    <3>3. /\ outputs' \in Seq(Inline!Putting) /\ Inline!ErrorIsLast'
          /\ \A t : Inline!Replied(t, outputs') <=>
               Inline!Replied(t, outputs) \/ (t = c.of /\ c.type \in {"result", "error"})
      BY <3>1, <3>2, OutputPut
    <3> QED BY <2>1, <3>3
  <2>2. CASE c.type # "chunk"
    <3>1. outputs' = outputs
      BY <1>1, <2>2
    <3> QED BY <3>1 DEF Inline!TypeOK, Inline!ErrorIsLast, Inline!Replied
  <2> QED BY <2>1, <2>2
<1>6. /\ \A t \in Inline!Request : task'[t] = task[t] \/ (t = c.of /\ task[t] = "waiting"
                              /\ task'[t] = "woken" /\ c.type = "end" /\ job[t] \in Inline!Ended)
      /\ task' \in [Inline!Request -> {"none", "created", "waiting", "woken", "ended"}]
      /\ \A n \in RpcJob : caller'[n] = caller[n] \/ caller'[n] = "returned"
      /\ caller' \in [RpcJob -> {"idle", "waiting", "returned"}]
  <2>1. c.type = "end" => Inline!Finished(c.of)
    BY <1>2 DEF Inline!EndIsLast
  <2> QED BY <1>1, <2>1, InlineSets DEF Inline!TypeOK, Inline!Finished
<1>7. c.type = "end" => ~Inline!Scheduling(c.of)'
  <2> SUFFICES ASSUME c.type = "end", NEW k \in DOMAIN callbacks', callbacks'[k].of = c.of
               PROVE  FALSE
    BY DEF Inline!Scheduling
  <2>1. k \in Nat \ {0} /\ k + 1 \in DOMAIN callbacks /\ callbacks[k + 1].of = c.of
    BY <1>2
  <2>2. k + 1 =< 1
    BY <1>2, <2>1 DEF Inline!EndIsLast
  <2> QED BY <2>1, <2>2
<1>8. Inline!TypeOK'
  BY <1>1, <1>2, <1>3, <1>5, <1>6 DEF Inline!TypeOK
<1>9. \A t \in Inline!Request : task'[t] = "none" <=> t \notin Inline!Known'
  BY <1>3, <1>6
<1>10. Inline!QueueMatches'
  BY <1>1 DEF Inline!QueueMatches
<1>11. \A j \in Inline!Job : Inline!JobMatches(j)'
  <2> SUFFICES ASSUME NEW j \in Inline!Job PROVE Inline!JobMatches(j)'
    OBVIOUS
  <2>1. Inline!Unstarted(j)' => Inline!Unstarted(j)
    BY <1>6, InlineSets DEF Inline!Unstarted
  <2>2. j \in Inline!Request /\ task'[j] = "woken" =>
          job'[j] \in Inline!Ended /\ ~Inline!Scheduling(j)'
    <3>1. CASE task'[j] = task[j]
      BY <1>1, <1>2, <3>1 DEF Inline!JobMatches
    <3>2. CASE task'[j] # task[j]
      BY <1>1, <1>6, <1>7, <3>2
    <3> QED BY <3>1, <3>2
  <2> QED BY <1>1, <1>2, <2>1, <2>2 DEF Inline!JobMatches
<1>12. Inline!EndIsLast'
  <2> SUFFICES ASSUME NEW k \in DOMAIN callbacks', callbacks'[k].type = "end",
                      NEW i, i = callbacks'[k].of
               PROVE  /\ Inline!Finished(i)'
                      /\ \A l \in DOMAIN callbacks' : callbacks'[l].of = i => l =< k
    BY DEF Inline!EndIsLast, Inline!Finished
  <2>1. /\ k \in Nat /\ k + 1 \in DOMAIN callbacks /\ callbacks'[k] = callbacks[k + 1]
        /\ callbacks[k + 1].of \in Inline!Job
    BY <1>2, InlineSets, ElementOfSeq, LenProperties DEF Inline!TypeOK, Inline!Callback
  <2>2. Inline!Finished(callbacks[k + 1].of)
    BY <2>1 DEF Inline!EndIsLast
  <2>3. i \in Inline!Job /\ Inline!Finished(i) /\ Inline!Finished(i)'
    BY <1>1, <1>6, <2>1, <2>2 DEF Inline!Finished
  <2>4. ASSUME NEW l \in DOMAIN callbacks', callbacks'[l].of = i PROVE l =< k
    <3>1. l \in Nat /\ l + 1 \in DOMAIN callbacks /\ callbacks[l + 1].of = callbacks[k + 1].of
      BY <1>2, <2>1, <2>4
    <3>2. l + 1 =< k + 1
      BY <2>1, <3>1 DEF Inline!EndIsLast
    <3> QED BY <2>1, <3>1, <3>2
  <2> QED BY <2>3, <2>4
<1>13. Inline!ReplyIsLast' /\ Inline!FailureMatches'
  BY <1>1, <1>2, <1>5, <1>6 DEF Inline!ReplyIsLast, Inline!FailureMatches
<1>14. Inline!TasksMatch'
  BY <1>1, <1>3, <1>6, InlineSets DEF Inline!TasksMatch, Inline!Lives
<1> QED BY <1>5, <1>8, <1>9, <1>10, <1>11, <1>12, <1>13, <1>14

(* Steps that move jobs only, and of them only some: the ends they have    *)
(* scheduled stay ends, and a failure or a reply is none of theirs.        *)
LEMMA ShutdownKeeps ==
  ASSUME Inline!InlineAssumption, Inline!InlineInvariant, Inline!Shutdown
         PROVE Inline!InlineInvariant'
<1> USE DEF Inline!InlineInvariant
<1>1. /\ cancelled' = cancelled \cup ({tasks[r] : r \in Rid} \ {Inline!None})
      /\ queue' = <<>> /\ closing' = "waiting"
      /\ job' = [j \in Inline!Job |-> IF job[j] = "queued" THEN "none" ELSE job[j]]
      /\ UNCHANGED <<submitted, given_up, task, tasks, caller, chunks, aborting, hit, callbacks,
                     outputs>>
  BY DEF Inline!Shutdown
<1>2. \A j \in Inline!Job : job'[j] = job[j] \/ (job[j] = "queued" /\ job'[j] = "none")
  BY <1>1
<1>3. Inline!Known' = Inline!Known /\ \A u : Inline!IdOf(u)' = Inline!IdOf(u) /\
        (Inline!Reused(u)' <=> Inline!Reused(u))
  BY <1>1 DEF Inline!Known, Inline!IdOf, Inline!Reused
<1>4. Inline!QueueMatches' /\ queue' \in Seq(Inline!Job)
  BY <1>1, EmptySeq DEF Inline!QueueMatches, Inline!IsInjective, Inline!Range
<1>5. Inline!TypeOK'
  <2>1. job' \in [Inline!Job -> {"none", "queued", "running"} \cup Inline!Ended]
    BY <1>1 DEF Inline!TypeOK
  <2> QED BY <1>1, <1>3, <1>4, <2>1 DEF Inline!TypeOK
<1>6. \A u \in Inline!Request : task'[u] = "none" <=> u \notin Inline!Known'
  BY <1>1, <1>3
<1>7. \A j \in Inline!Job : Inline!JobMatches(j)'
  BY <1>1, <1>2 DEF Inline!JobMatches, Inline!Unstarted, Inline!Scheduling, Inline!Ended
<1>8. Inline!EndIsLast' /\ Inline!ErrorIsLast'
  <2>1. \A k \in DOMAIN callbacks : callbacks[k].of \in Inline!Job
    BY ElementOfSeq, LenProperties, InlineSets DEF Inline!TypeOK, Inline!Callback
  <2> QED BY <1>1, <1>2, <2>1 DEF Inline!EndIsLast, Inline!ErrorIsLast, Inline!Finished,
    Inline!Ended
<1>9. Inline!ReplyIsLast' /\ Inline!FailureMatches' /\ Inline!TasksMatch'
  BY <1>1, <1>2, <1>3, InlineSets DEF Inline!ReplyIsLast, Inline!FailureMatches,
    Inline!Scheduling, Inline!TasksMatch, Inline!Lives
<1> QED BY <1>5, <1>6, <1>4, <1>7, <1>8, <1>9

LEMMA TakeJobKeeps ==
  ASSUME Inline!InlineAssumption, Inline!InlineInvariant, Inline!TakeJob
         PROVE Inline!InlineInvariant'
<1> USE DEF Inline!InlineInvariant
<1>1. /\ queue # <<>> /\ queue' = Tail(queue) /\ job' = [job EXCEPT ![Head(queue)] = "running"]
      /\ UNCHANGED <<submitted, given_up, task, cancelled, tasks, caller, chunks, aborting, hit,
                     callbacks, outputs, closing>>
  BY DEF Inline!TakeJob
<1>2. /\ queue' \in Seq(Inline!Job) /\ Inline!IsInjective(queue') /\
           Head(queue) \in Inline!Range(queue)
      /\ Inline!Range(queue') = Inline!Range(queue) \ {Head(queue)} /\
           Inline!Range(queue) \subseteq Inline!Job
  <2>1. queue \in Seq(Inline!Job) /\ Inline!IsInjective(queue) /\ Len(queue) \in Nat /\
          Len(queue) # 0
        /\ DOMAIN queue = 1 .. Len(queue)
    BY <1>1, LenProperties, EmptySeq DEF Inline!TypeOK, Inline!QueueMatches
  <2>2. /\ queue' \in Seq(Inline!Job) /\ Head(queue) = queue[1]
        /\ DOMAIN queue' = 1 .. Len(queue) - 1
        /\ \A k \in DOMAIN queue' : queue'[k] = queue[k + 1]
    BY <1>1, <2>1, HeadTailProperties, LenProperties
  <2>3. \A k \in DOMAIN queue : k = 1 \/ k - 1 \in DOMAIN queue'
    BY <2>1, <2>2
  <2>4. \A k \in DOMAIN queue' : k + 1 \in DOMAIN queue /\ k + 1 # 1
    BY <2>1, <2>2
  <2>5. Inline!IsInjective(queue')
    BY <2>1, <2>2, <2>4 DEF Inline!IsInjective
  <2>6. Inline!Range(queue') \subseteq Inline!Range(queue) \ {Head(queue)}
    BY <2>1, <2>2, <2>4 DEF Inline!IsInjective, Inline!Range
  <2>7. Inline!Range(queue) \ {Head(queue)} \subseteq Inline!Range(queue')
    <3> SUFFICES ASSUME NEW k \in DOMAIN queue, queue[k] # queue[1]
                 PROVE  \E l \in DOMAIN queue' : queue'[l] = queue[k]
      BY <2>2 DEF Inline!Range
    <3>1. k - 1 \in DOMAIN queue' /\ queue'[k - 1] = queue[(k - 1) + 1] /\ (k - 1) + 1 = k
      BY <2>1, <2>2, <2>3
    <3> QED BY <3>1
  <2>8. Head(queue) \in Inline!Range(queue) /\ Inline!Range(queue) \subseteq Inline!Job
    BY <2>1, <2>2, ElementOfSeq DEF Inline!Range
  <2> QED BY <2>2, <2>5, <2>6, <2>7, <2>8
<1>3. PICK h \in Inline!Job : h = Head(queue) /\ job[h] = "queued"
  BY <1>2 DEF Inline!QueueMatches
<1>4. job'[h] = "running" /\ \A j \in Inline!Job \ {h} : job'[j] = job[j]
  BY <1>1, <1>3 DEF Inline!TypeOK
<1>5. Inline!Known' = Inline!Known /\ \A u : Inline!IdOf(u)' = Inline!IdOf(u) /\
        (Inline!Reused(u)' <=> Inline!Reused(u))
  BY <1>1 DEF Inline!Known, Inline!IdOf, Inline!Reused
<1>6. Inline!QueueMatches'
  BY <1>2, <1>3, <1>4 DEF Inline!QueueMatches
<1>7. Inline!TypeOK'
  BY <1>1, <1>2, <1>3, <1>5 DEF Inline!TypeOK
<1>8. \A u \in Inline!Request : task'[u] = "none" <=> u \notin Inline!Known'
  BY <1>1, <1>5
<1>9. \A j \in Inline!Job : Inline!JobMatches(j)'
  BY <1>1, <1>3, <1>4 DEF Inline!JobMatches, Inline!Unstarted, Inline!Scheduling, Inline!Ended
<1>10. Inline!EndIsLast' /\ Inline!ErrorIsLast'
  <2>1. \A k \in DOMAIN callbacks : callbacks[k].of \in Inline!Job
    BY ElementOfSeq, LenProperties, InlineSets DEF Inline!TypeOK, Inline!Callback
  <2>2. \A j \in Inline!Job : Inline!Finished(j) => Inline!Finished(j)'
    BY <1>1, <1>3, <1>4 DEF Inline!Finished, Inline!Ended
  <2> QED BY <1>1, <2>1, <2>2 DEF Inline!EndIsLast, Inline!ErrorIsLast
<1>11. Inline!ReplyIsLast' /\ Inline!FailureMatches' /\ Inline!TasksMatch'
  BY <1>1, <1>3, <1>4, <1>5, InlineSets
     DEF Inline!ReplyIsLast, Inline!FailureMatches, Inline!Scheduling, Inline!TasksMatch,
       Inline!Lives
<1> QED BY <1>6, <1>7, <1>8, <1>9, <1>10, <1>11

LEMMA EmitChunkKeeps ==
  ASSUME Inline!InlineAssumption, Inline!InlineInvariant, NEW t \in Inline!Known,
         Inline!EmitChunk(t) PROVE Inline!InlineInvariant'
<1> USE DEF Inline!InlineInvariant
<1>0. PICK c \in Inline!Callback : c = Inline!Output("chunk", t) /\ c.of = t /\ c.type = "chunk"
  <2>1. t \in Inline!Request
    BY InlineSets
  <2>2. Inline!Output("chunk", t) \in Inline!Callback
    BY <2>1 DEF Inline!Callback, Inline!Output
  <2>3. Inline!Output("chunk", t).of = t /\ Inline!Output("chunk", t).type = "chunk"
    BY DEF Inline!Output
  <2> QED BY <2>2, <2>3
<1>1. /\ t \in Inline!Request /\ t \in Inline!Job /\ job[t] = "running" /\ chunks[t] < MaxChunks
      /\ chunks' = [chunks EXCEPT ![t] = chunks[t] + 1] /\ callbacks' = Inline!Scheduled(c)
      /\ UNCHANGED <<submitted, given_up, task, cancelled, tasks, caller, queue, job, aborting,
                     hit, outputs, closing>>
  BY <1>0, InlineSets DEF Inline!EmitChunk
<1>2. /\ callbacks' \in Seq(Inline!Callback)
      /\ \A j : Inline!Scheduling(j)' <=> Inline!Scheduling(j) \/ j = t
      /\ \A k \in DOMAIN callbacks' :
           k =< Len(callbacks) + 1 /\ (k = Len(callbacks) + 1 \/
             (k \in DOMAIN callbacks /\ callbacks'[k] = callbacks[k]))
      /\ callbacks'[Len(callbacks) + 1] = c
  BY <1>0, <1>1, CallbackPut
<1>3. Inline!Known' = Inline!Known /\ \A u : Inline!IdOf(u)' = Inline!IdOf(u) /\
        (Inline!Reused(u)' <=> Inline!Reused(u))
  BY <1>1 DEF Inline!Known, Inline!IdOf, Inline!Reused
<1>4. Inline!TypeOK'
  <2>1. chunks' \in [Inline!Request -> 0 .. MaxChunks]
    BY <1>1 DEF Inline!TypeOK, Inline!InlineAssumption
  <2> QED BY <1>1, <1>2, <1>3, <2>1 DEF Inline!TypeOK
<1>5. \A u \in Inline!Request : task'[u] = "none" <=> u \notin Inline!Known'
  BY <1>1, <1>3
<1>6. Inline!QueueMatches' /\ Inline!ErrorIsLast' /\ Inline!FailureMatches'
  BY <1>1 DEF Inline!QueueMatches, Inline!ErrorIsLast, Inline!FailureMatches
<1>7. \A j \in Inline!Job : Inline!JobMatches(j)'
  BY <1>1, <1>2 DEF Inline!JobMatches, Inline!Unstarted, Inline!Ended
<1>8. Inline!EndIsLast'
  <2>1. ~Inline!Finished(t)
    BY <1>1 DEF Inline!Finished, Inline!Ended
  <2> SUFFICES ASSUME NEW k \in DOMAIN callbacks', callbacks'[k].type = "end",
                      NEW i, i = callbacks'[k].of
               PROVE  /\ Inline!Finished(i)'
                      /\ \A l \in DOMAIN callbacks' : callbacks'[l].of = i => l =< k
    BY DEF Inline!EndIsLast, Inline!Finished
  <2>2. k \in DOMAIN callbacks /\ callbacks'[k] = callbacks[k]
    BY <1>0, <1>2
  <2>3. Inline!Finished(i) /\ i # t
    BY <2>1, <2>2 DEF Inline!EndIsLast
  <2>4. \A l \in DOMAIN callbacks' : callbacks'[l].of = i => l =< k
    BY <1>0, <1>2, <2>2, <2>3 DEF Inline!EndIsLast
  <2> QED BY <1>1, <2>3, <2>4 DEF Inline!Finished
<1>9. Inline!ReplyIsLast' /\ Inline!TasksMatch'
  BY <1>1, <1>2, <1>3 DEF Inline!ReplyIsLast, Inline!TasksMatch, Inline!Lives
<1> QED BY <1>4, <1>5, <1>6, <1>7, <1>8, <1>9

LEMMA EndJobKeeps ==
  ASSUME Inline!InlineAssumption, Inline!InlineInvariant, NEW j \in Inline!Job,
         NEW ending \in Inline!Ended,
         Inline!EndJob(j, ending)
  PROVE  Inline!InlineInvariant'
<1> USE DEF Inline!InlineInvariant
<1>0. PICK c \in Inline!Callback : c = Inline!Output("end", j) /\ c.of = j /\ c.type = "end"
  <2>1. Inline!Output("end", j) \in Inline!Callback
    BY DEF Inline!Callback, Inline!Output
  <2>2. Inline!Output("end", j).of = j /\ Inline!Output("end", j).type = "end"
    BY DEF Inline!Output
  <2> QED BY <2>1, <2>2
<1>1. /\ job[j] = "running" /\ hit' = hit \ {j}
      /\ \/ /\ j \in Inline!Request /\ task[j] = "ended"
            /\ job' = [job EXCEPT ![j] = "none"] /\ callbacks' = callbacks
         \/ /\ ~(j \in Inline!Request /\ task[j] = "ended")
            /\ job' = [job EXCEPT ![j] = ending] /\ callbacks' = Inline!Scheduled(c)
      /\ UNCHANGED <<submitted, given_up, task, cancelled, tasks, caller, queue, chunks, aborting,
                     outputs, closing>>
  BY <1>0 DEF Inline!EndJob
<1>2. /\ \A i \in Inline!Job \ {j} : job'[i] = job[i]
      /\ job'[j] \in Inline!Ended \/ (j \in Inline!Request /\ task[j] = "ended" /\
           job'[j] = "none")
      /\ j \in Inline!Request /\ task[j] = "ended" => job'[j] = "none"
      /\ job' \in [Inline!Job -> {"none", "queued", "running"} \cup Inline!Ended]
  BY <1>1 DEF Inline!TypeOK
<1>3. Inline!Known' = Inline!Known /\ \A u : Inline!IdOf(u)' = Inline!IdOf(u) /\
        (Inline!Reused(u)' <=> Inline!Reused(u))
  BY <1>1 DEF Inline!Known, Inline!IdOf, Inline!Reused
<1>4. /\ ~Inline!Unstarted(j) /\ ~(j \in Inline!Request /\ task[j] = "woken") /\
           ~Inline!Finished(j)
      /\ j \in Inline!Request => ~Inline!Replied(j, outputs)
  BY <1>1 DEF Inline!JobMatches, Inline!Ended, Inline!Finished, Inline!ReplyIsLast
<1>5. /\ callbacks' \in Seq(Inline!Callback)
      /\ \A i : Inline!Scheduling(i)' => Inline!Scheduling(i) \/ i = j
      /\ \A k, l \in DOMAIN callbacks' : callbacks'[k].type = "end" =>
           /\ callbacks'[k].of = j \/ (k \in DOMAIN callbacks /\ callbacks'[k] = callbacks[k])
           /\ callbacks'[l].of = callbacks'[k].of => l =< k
  <2>1. CASE callbacks' = callbacks
    BY <2>1 DEF Inline!TypeOK, Inline!Scheduling, Inline!EndIsLast
  <2>2. CASE callbacks' = Inline!Scheduled(c)
    <3>1. /\ callbacks' \in Seq(Inline!Callback)
          /\ \A i : Inline!Scheduling(i)' <=> Inline!Scheduling(i) \/ i = j
          /\ \A k \in DOMAIN callbacks' :
               k =< Len(callbacks) + 1 /\ (k = Len(callbacks) + 1 \/
                 (k \in DOMAIN callbacks /\ callbacks'[k] = callbacks[k]))
          /\ callbacks'[Len(callbacks) + 1] = c
      BY <1>0, <2>2, CallbackPut
    <3>2. ASSUME NEW k \in DOMAIN callbacks', NEW l \in DOMAIN callbacks',
                 callbacks'[k].type = "end"
          PROVE  /\ callbacks'[k].of = j \/ (k \in DOMAIN callbacks /\
                    callbacks'[k] = callbacks[k])
                 /\ callbacks'[l].of = callbacks'[k].of => l =< k
      <4>1. CASE k = Len(callbacks) + 1
        BY <1>0, <3>1, <4>1
      <4>2. CASE k # Len(callbacks) + 1
        <5>1. /\ k \in DOMAIN callbacks /\ callbacks'[k] = callbacks[k]
              /\ Inline!Finished(callbacks[k].of) /\ callbacks[k].of # j
          BY <1>4, <3>1, <3>2, <4>2 DEF Inline!EndIsLast
        <5> QED BY <1>0, <3>1, <3>2, <5>1 DEF Inline!EndIsLast
      <4> QED BY <4>1, <4>2
    <3> QED BY <3>1, <3>2
  <2> QED BY <1>1, <2>1, <2>2
<1>6. Inline!TypeOK'
  BY <1>1, <1>2, <1>3, <1>5 DEF Inline!TypeOK
<1>7. \A u \in Inline!Request : task'[u] = "none" <=> u \notin Inline!Known'
  BY <1>1, <1>3
<1>8. Inline!QueueMatches'
  BY <1>1, <1>2, ElementOfSeq, LenProperties DEF Inline!QueueMatches, Inline!Range, Inline!TypeOK
<1>9. \A i \in Inline!Job : Inline!JobMatches(i)'
  <2> SUFFICES ASSUME NEW i \in Inline!Job PROVE Inline!JobMatches(i)'
    OBVIOUS
  <2>1. Inline!Unstarted(i)' <=> Inline!Unstarted(i)
    BY <1>1 DEF Inline!Unstarted
  <2>2. CASE i = j
    BY <1>1, <1>4, <2>1, <2>2 DEF Inline!JobMatches
  <2>3. CASE i # j
    BY <1>1, <1>2, <1>5, <2>1, <2>3 DEF Inline!JobMatches
  <2> QED BY <2>2, <2>3
<1>10. Inline!EndIsLast'
  <2> SUFFICES ASSUME NEW k \in DOMAIN callbacks', callbacks'[k].type = "end",
                      NEW i, i = callbacks'[k].of
               PROVE  Inline!Finished(i)'
    BY <1>5 DEF Inline!EndIsLast, Inline!Finished
  <2>1. Inline!Finished(j)'
    BY <1>1, <1>2 DEF Inline!Finished
  <2>2. CASE i # j
    <3>1. k \in DOMAIN callbacks /\ callbacks'[k] = callbacks[k] /\
            callbacks[k] \in Inline!Callback
      BY <1>5, <2>2, ElementOfSeq, LenProperties DEF Inline!TypeOK
    <3>2. i \in Inline!Job /\ Inline!Finished(i)
      BY <2>2, <3>1, InlineSets DEF Inline!EndIsLast, Inline!Callback
    <3> QED BY <1>1, <1>2, <2>2, <3>2 DEF Inline!Finished
  <2> QED BY <2>1, <2>2
<1>11. Inline!ErrorIsLast' /\ Inline!ReplyIsLast' /\ Inline!FailureMatches'
  BY <1>1, <1>2, <1>4, <1>5, InlineSets DEF Inline!ErrorIsLast, Inline!ReplyIsLast,
    Inline!FailureMatches
<1>12. Inline!TasksMatch'
  BY <1>1, <1>3 DEF Inline!TasksMatch, Inline!Lives
<1> QED BY <1>6, <1>7, <1>8, <1>9, <1>10, <1>11, <1>12

(* Neither the close of the engine nor the drain of its aborts shows here. *)
LEMMA QuietInlineSteps ==
  ASSUME Inline!InlineAssumption, Inline!InlineInvariant,
         Inline!CloseEngine \/ Inline!DrainAborts \/ UNCHANGED Inline!inline_vars
  PROVE  Inline!InlineInvariant' /\ outputs' = outputs
<1> USE DEF Inline!InlineInvariant
<1>1. /\ UNCHANGED <<submitted, given_up, task, cancelled, tasks, caller, queue, job, chunks,
                     callbacks, outputs>>
      /\ hit' \subseteq Inline!Job /\ aborting' \subseteq Rid /\ closing' \in {"no", "waiting",
           "closed"}
  <2>1. CASE Inline!CloseEngine
    BY <2>1 DEF Inline!CloseEngine, Inline!TypeOK
  <2>2. CASE Inline!DrainAborts
    BY <2>2, InlineSets DEF Inline!DrainAborts, Inline!TypeOK
  <2>3. CASE UNCHANGED Inline!inline_vars
    BY <2>3 DEF Inline!inline_vars, Inline!TypeOK
  <2> QED BY <2>1, <2>2, <2>3
<1>2. Inline!Known' = Inline!Known /\ \A u : Inline!IdOf(u)' = Inline!IdOf(u) /\
        (Inline!Reused(u)' <=> Inline!Reused(u))
  BY <1>1 DEF Inline!Known, Inline!IdOf, Inline!Reused
<1>3. Inline!TypeOK'
  BY <1>1, <1>2 DEF Inline!TypeOK
<1>4. /\ Inline!QueueMatches' /\ Inline!EndIsLast' /\ Inline!ErrorIsLast' /\
           Inline!ReplyIsLast' /\ Inline!FailureMatches'
      /\ \A j \in Inline!Job : Inline!JobMatches(j)'
  BY <1>1 DEF Inline!QueueMatches, Inline!EndIsLast, Inline!Finished, Inline!ErrorIsLast,
    Inline!JobMatches, Inline!Unstarted, Inline!Scheduling, Inline!ReplyIsLast,
    Inline!FailureMatches
<1>5. Inline!TasksMatch'
  BY <1>1, <1>2 DEF Inline!TasksMatch, Inline!Lives
<1> QED BY <1>1, <1>2, <1>3, <1>4, <1>5

(* What the loop's and the threads' steps keep.                            *)
LEMMA StepInline ==
  ASSUME Inline!InlineAssumption, Inline!InlineInvariant, [Inline!InlineNext]_Inline!inline_vars
         PROVE Inline!InlineInvariant'
<1>1. ASSUME NEW r \in Rid, NEW kind \in Inline!Kind, Inline!AddRequest(r, kind)
             PROVE Inline!InlineInvariant'
  BY <1>1, AddRequestKeeps
<1>2. ASSUME NEW r \in Rid, Inline!AbortRequests(r) PROVE Inline!InlineInvariant'
  BY <1>2, AbortKeeps
<1>3. ASSUME NEW t \in Inline!Known, Inline!TaskRuns(t) \/ Inline!EmitChunk(t)
             PROVE Inline!InlineInvariant'
  BY <1>3, StartTaskKeeps, CancelTaskKeeps, FinishTaskKeeps, EmitChunkKeeps DEF Inline!TaskRuns
<1>4. ASSUME NEW n \in RpcJob, Inline!CollectiveRpc(n) PROVE Inline!InlineInvariant'
  BY <1>4, CollectiveRpcKeeps
<1>5. ASSUME NEW j \in Inline!Job, NEW ending \in Inline!Ended, Inline!EndJob(j, ending)
             PROVE Inline!InlineInvariant'
  BY <1>5, EndJobKeeps
<1>6. CASE Inline!RunCallback
  BY <1>6, RunCallbackKeeps
<1>7. CASE Inline!Shutdown
  BY <1>7, ShutdownKeeps
<1>8. CASE Inline!TakeJob
  BY <1>8, TakeJobKeeps
<1>9. CASE Inline!CloseEngine \/ Inline!DrainAborts \/ UNCHANGED Inline!inline_vars
  BY <1>9, QuietInlineSteps
<1> QED BY <1>1, <1>2, <1>3, <1>4, <1>5, <1>6, <1>7, <1>8, <1>9 DEF Inline!InlineNext,
  Inline!Ended

(* Only the end of a task replies, and a task that ends with a reply was   *)
(* not cancelled: it is not given up, unless its id was used twice.        *)
LEMMA StepQuiet ==
  ASSUME Inline!InlineAssumption, Inline!InlineInvariant, [Inline!InlineNext]_Inline!inline_vars,
         NEW t \in given_up, ~Inline!Reused(t), Inline!Replied(t, outputs')
  PROVE  Inline!Replied(t, outputs)
<1>1. CASE \E u \in Inline!Known : Inline!FinishTask(u)
  <2>1. PICK u \in Inline!Known : Inline!FinishTask(u)
    BY <1>1
  <2>2. CASE u = t
    BY <2>1, <2>2 DEF Inline!FinishTask, Inline!InlineInvariant, Inline!TasksMatch, Inline!Lives
  <2>3. CASE u # t
    BY <2>1, <2>3, ReplyPut
  <2> QED BY <2>2, <2>3
<1>2. CASE Inline!RunCallback
  BY <1>2, RunCallbackKeeps
<1>3. CASE ~(\E u \in Inline!Known : Inline!FinishTask(u)) /\ ~Inline!RunCallback
  <2>1. outputs' = outputs
    BY <1>3, QuietInlineSteps
       DEF Inline!InlineNext, Inline!AddRequest, Inline!AbortRequests, Inline!TaskRuns,
         Inline!StartTask, Inline!CancelTask, Inline!EmitChunk,
           Inline!CollectiveRpc, Inline!Shutdown, Inline!TakeJob, Inline!EndJob
  <2> QED BY <2>1
<1> QED BY <1>1, <1>2, <1>3

LEMMA InlineHolds ==
  ASSUME Inline!InlineAssumption, Inline!InlineInvariant
         PROVE Inline!ErrorIsLast /\ Inline!FailuresReported
BY InlineSets DEF Inline!InlineInvariant, Inline!FailuresReported, Inline!FailureMatches

-------------------------------------------------------------------------------
(* Requests through the orchestrator, and its control RPCs.                *)

(* Messages of different lengths differ.                                   *)
LEMMA Lengths ==
  \A a, b, d : <<a>> # <<b, d>> /\ <<>> # <<a>> /\ <<>> # <<b, d>>
<1> SUFFICES ASSUME NEW a, NEW b, NEW d
             PROVE  <<a>> # <<b, d>> /\ <<>> # <<a>> /\ <<>> # <<b, d>>
  OBVIOUS
<1>1. Len(<<a>>) = 1 /\ Len(<<b, d>>) = 2 /\ Len(<<>>) = 0
  OBVIOUS
<1> QED BY <1>1

LEMMA CompanionSets ==
  ASSUME Requests!OrchestratorAssumption
  PROVE  /\ Requests!Id = Parent \cup Requests!Companions /\ Parent \cap Requests!Companions = {}
         /\ \A p \in Parent : CompanionsOf[p] \subseteq Requests!Companions
         /\ \A c \in Requests!Companions : Requests!ParentOf(c) \in Parent /\
              c \in CompanionsOf[Requests!ParentOf(c)]
         /\ \A p \in Parent : \A c \in CompanionsOf[p] : Requests!ParentOf(c) = p
         /\ \A p, q \in Parent : p # q => CompanionsOf[p] \cap CompanionsOf[q] = {}
<1>1. \A c \in Requests!Companions : \E p \in Parent : c \in CompanionsOf[p]
  BY DEF Requests!Companions
<1>2. \A c \in Requests!Companions : Requests!ParentOf(c) \in Parent /\
        c \in CompanionsOf[Requests!ParentOf(c)]
  BY <1>1 DEF Requests!ParentOf
<1>3. \A p \in Parent : CompanionsOf[p] \subseteq Requests!Companions
  BY DEF Requests!Companions
<1> QED BY <1>2, <1>3 DEF Requests!OrchestratorAssumption, Requests!Id

(* What a message that is sent adds to the queue.                          *)
LEMMA RequestSent ==
  ASSUME Requests!TypeOK, NEW m \in Requests!Requested, request_queue' = Append(request_queue, m)
  PROVE  /\ request_queue' \in Seq(Requests!Requested)
         /\ \A x : Requests!Queued(x)' <=> Requests!Queued(x) \/ x = m
         /\ Len(request_queue) \in Nat /\ DOMAIN request_queue = 1 .. Len(request_queue)
         /\ \A k \in DOMAIN request_queue' :
              \/ k = Len(request_queue) + 1 /\ request_queue'[k] = m
              \/ k \in DOMAIN request_queue /\ request_queue'[k] = request_queue[k]
<1>1. /\ request_queue \in Seq(Requests!Requested)
      /\ Len(request_queue) \in Nat /\ DOMAIN request_queue = 1 .. Len(request_queue)
  BY LenProperties DEF Requests!TypeOK
<1>2. /\ request_queue' \in Seq(Requests!Requested)
      /\ Len(request_queue') = Len(request_queue) + 1
      /\ request_queue'[Len(request_queue) + 1] = m
      /\ \A k \in 1 .. Len(request_queue) : request_queue'[k] = request_queue[k]
  BY <1>1, AppendProperties
<1>3. DOMAIN request_queue' = 1 .. Len(request_queue) + 1
  BY <1>1, <1>2, LenProperties
<1>4. \A x : Requests!Queued(x)' <=> Requests!Queued(x) \/ x = m
  BY <1>1, <1>2, <1>3 DEF Requests!Queued
<1> QED BY <1>1, <1>2, <1>3, <1>4

(* The queue without the message at its head.                              *)
LEMMA RequestTaken ==
  ASSUME Requests!TypeOK, Requests!MessagesMatch, request_queue # <<>>,
         request_queue' = Tail(request_queue)
  PROVE  /\ request_queue' \in Seq(Requests!Requested) /\ Requests!Message \in Requests!Requested
         /\ Requests!Message = request_queue[1] /\ 1 \in DOMAIN request_queue
         /\ \A k \in DOMAIN request_queue' :
              k \in Nat \ {0} /\ k + 1 \in DOMAIN request_queue /\
                request_queue'[k] = request_queue[k + 1]
         /\ \A x : Requests!Queued(x)' <=> Requests!Queued(x) /\ x # Requests!Message
         /\ Requests!Queued(Requests!Message)
<1>1. /\ request_queue \in Seq(Requests!Requested) /\ Len(request_queue) # 0
      /\ Len(request_queue) \in Nat /\ DOMAIN request_queue = 1 .. Len(request_queue)
  BY EmptySeq, LenProperties DEF Requests!TypeOK
<1>2. /\ request_queue' \in Seq(Requests!Requested) /\ Requests!Message = request_queue[1]
      /\ Len(request_queue') = Len(request_queue) - 1
      /\ \A k \in 1 .. Len(request_queue') : request_queue'[k] = request_queue[k + 1]
  BY <1>1, HeadTailProperties DEF Requests!Message
<1>3. DOMAIN request_queue' = 1 .. Len(request_queue) - 1
  BY <1>1, <1>2, LenProperties
<1>4. \A k \in DOMAIN request_queue' :
        k \in Nat \ {0} /\ k + 1 \in DOMAIN request_queue /\
          request_queue'[k] = request_queue[k + 1]
  BY <1>1, <1>2, <1>3
<1>5. 1 \in DOMAIN request_queue /\ Requests!Message \in Requests!Requested
  BY <1>1, <1>2, ElementOfSeq
<1>6. ASSUME NEW x, Requests!Queued(x)' PROVE Requests!Queued(x) /\ x # Requests!Message
  <2>1. PICK k \in DOMAIN request_queue' : request_queue'[k] = x
    BY <1>6 DEF Requests!Queued
  <2>2. k + 1 \in DOMAIN request_queue /\ request_queue[k + 1] = x /\ k + 1 # 1
    BY <1>4, <2>1
  <2> QED BY <1>2, <1>5, <2>2 DEF Requests!Queued, Requests!MessagesMatch
<1>7. ASSUME NEW x, Requests!Queued(x), x # Requests!Message PROVE Requests!Queued(x)'
  <2>1. PICK k \in DOMAIN request_queue : request_queue[k] = x
    BY <1>7 DEF Requests!Queued
  <2>2. k # 1 /\ k - 1 \in DOMAIN request_queue' /\ (k - 1) + 1 = k
    BY <1>1, <1>2, <1>3, <1>7, <2>1
  <2> QED BY <1>4, <2>1, <2>2 DEF Requests!Queued
<1> QED BY <1>2, <1>4, <1>5, <1>6, <1>7 DEF Requests!Queued

LEMMA InitOrchestrator ==
  ASSUME Requests!OrchestratorAssumption, Requests!OrchestratorInit
         PROVE Requests!OrchestratorInvariant
<1> USE DEF Requests!OrchestratorInit
<1>0. /\ DOMAIN request_queue = {} /\ DOMAIN output_queue = {}
      /\ \A s \in Requests!Stage : DOMAIN stage_outputs[s] = {}
      /\ 0 \in Requests!Stage /\ 1 \in Requests!Stage
  BY DEF Requests!Stage
<1>1. Requests!TypeOK
  <2>1. /\ request_queue \in Seq(Requests!Requested) /\ output_queue \in Seq(Requests!Told)
        /\ stage_outputs \in [Requests!Stage -> Seq({"kv", "finished", "error"} \X Requests!Id)]
        /\ stage_outputs[1] \in Seq({"finished", "error"} \X Parent)
    BY <1>0, EmptySeq
  <2> QED BY <1>0, <2>1 DEF Requests!TypeOK, Requests!Nothing
<1>2. \A m : ~Requests!Queued(m)
  BY <1>0 DEF Requests!Queued
<1>3. Requests!MessagesMatch /\ Requests!AbortIsLast
  BY <1>0, <1>2 DEF Requests!MessagesMatch, Requests!AbortIsLast
<1>4. Requests!NothingEarly
  BY Lengths DEF Requests!NothingEarly, Requests!Nothing
<1>5. Requests!SubmittedOnce /\ Requests!DoneIsProduced /\ Requests!GuidanceReady /\
        Requests!PendingMatches
  BY <1>0 DEF Requests!SubmittedOnce, Requests!DoneIsProduced, Requests!GuidanceReady,
    Requests!PendingMatches
<1>6. Requests!DiffusionMatches
  BY <1>0 DEF Requests!DiffusionMatches, Requests!InDiffusion
<1>7. Requests!AnswersMatch /\ Requests!AbortIsDue /\ Requests!CompanionsMatch
  BY DEF Requests!AnswersMatch, Requests!AbortIsDue, Requests!CompanionsMatch
<1>8. Requests!CallersMatch
  BY <1>0 DEF Requests!CallersMatch, Requests!AnswerQueued
<1> QED BY <1>1, <1>3, <1>4, <1>5, <1>6, <1>7, <1>8 DEF Requests!OrchestratorInvariant

-------------------------------------------------------------------------------
(* The callers.                                                            *)

(* Of what goes on in the orchestrator they change nothing.                *)
LEMMA CallersKeep ==
  ASSUME Requests!OrchestratorInvariant, UNCHANGED <<handler, request_states, Requests!loop,
         Requests!stages>>,
         Requests!Serves' => Requests!Serves,
         Requests!TypeOK', Requests!MessagesMatch', Requests!AbortIsLast',
           Requests!NothingEarly', Requests!CallersMatch', Requests!AbortIsDue'
  PROVE  Requests!OrchestratorInvariant'
<1> USE DEF Requests!OrchestratorInvariant, Requests!loop, Requests!stages
<1>1. Requests!SubmittedOnce' /\ Requests!DoneIsProduced' /\ Requests!GuidanceReady'
  BY DEF Requests!SubmittedOnce, Requests!DoneIsProduced, Requests!GuidanceReady
<1>2. Requests!DiffusionMatches' /\ Requests!AnswersMatch'
  BY DEF Requests!DiffusionMatches, Requests!InDiffusion, Requests!AnswersMatch
<1>3. Requests!PendingMatches'
  BY DEF Requests!PendingMatches, Requests!CompanionsTracked
<1>4. Requests!CompanionsMatch'
  BY DEF Requests!CompanionsMatch, Requests!AtModel, Requests!PutOutBy, Requests!Aborting
<1> QED BY <1>1, <1>2, <1>3, <1>4

(* What is sent is new to the queue, and no message of a request for which *)
(* the abort was sent.                                                     *)
LEMMA SentKeeps ==
  ASSUME Requests!OrchestratorAssumption, Requests!TypeOK, Requests!MessagesMatch,
         Requests!AbortIsLast, NEW m \in Requests!Requested,
         ~Requests!Queued(m), request_queue' = Append(request_queue, m),
         \A p \in Parent : m \in {<<"add", p>>} \cup {<<"companion", c>> : c \in CompanionsOf[p]}
           => ~Requests!Queued(<<"abort", p>>)
  PROVE  /\ request_queue' \in Seq(Requests!Requested)
         /\ \A x : Requests!Queued(x)' <=> Requests!Queued(x) \/ x = m
         /\ \A i, j \in DOMAIN request_queue' : request_queue'[i] = request_queue'[j] => i = j
         /\ Requests!AbortIsLast'
<1>1. /\ request_queue' \in Seq(Requests!Requested)
      /\ \A x : Requests!Queued(x)' <=> Requests!Queued(x) \/ x = m
      /\ Len(request_queue) \in Nat /\ DOMAIN request_queue = 1 .. Len(request_queue)
      /\ \A k \in DOMAIN request_queue' :
           \/ k = Len(request_queue) + 1 /\ request_queue'[k] = m
           \/ k \in DOMAIN request_queue /\ request_queue'[k] = request_queue[k]
  BY RequestSent
<1>2. \A k \in DOMAIN request_queue : request_queue[k] # m
  BY DEF Requests!Queued
<1>3. \A i, j \in DOMAIN request_queue' : request_queue'[i] = request_queue'[j] => i = j
  BY <1>1, <1>2 DEF Requests!MessagesMatch
<1>4. Requests!AbortIsLast'
  <2> SUFFICES ASSUME NEW p \in Parent, NEW i \in DOMAIN request_queue',
                      NEW j \in DOMAIN request_queue',
                      request_queue'[j] = <<"abort", p>>,
                      request_queue'[i] \in {<<"add", p>>} \cup {<<"companion", c>> :
                        c \in CompanionsOf[p]}
               PROVE  i < j
    BY DEF Requests!AbortIsLast
  <2>1. CASE i \in DOMAIN request_queue /\ j \in DOMAIN request_queue
    <3>1. request_queue'[i] = request_queue[i] /\ request_queue'[j] = request_queue[j]
      BY <1>1, <2>1
    <3> QED BY <2>1, <3>1 DEF Requests!AbortIsLast
  <2>2. CASE i \in DOMAIN request_queue /\ j \notin DOMAIN request_queue
    BY <1>1, <2>2
  <2>3. CASE i \notin DOMAIN request_queue
    <3>1. request_queue'[i] = m /\ ~Requests!Queued(<<"abort", p>>)
      BY <1>1, <2>3
    <3>2. j \notin DOMAIN request_queue /\ i = j
      BY <1>1, <2>3, <3>1 DEF Requests!Queued
    <3>3. m = <<"abort", p>>
      BY <3>1, <3>2
    <3> QED BY <3>1, <3>3
  <2> QED BY <2>1, <2>2, <2>3
<1> QED BY <1>1, <1>3, <1>4

LEMMA GenerateKeeps ==
  ASSUME Requests!OrchestratorAssumption, Requests!OrchestratorInvariant, NEW p \in Parent,
         NEW C \in SUBSET CompanionsOf[p], Requests!Generate(p, C)
  PROVE  Requests!OrchestratorInvariant'
<1> USE DEF Requests!OrchestratorInvariant
<1>1. /\ generate[p] = "new" /\ generate' = [generate EXCEPT ![p] = "waiting"]
      /\ final_output_task # "cancelled"
      /\ final_output_task' = (IF final_output_task = "none" THEN "running" ELSE final_output_task)
      /\ request_queue' = Append(request_queue, <<"add", p>>)
      /\ expanding = {} /\ expanding' = C
      /\ UNCHANGED <<inbox, output_queue, thread, async_chunk, handler, request_states,
           Requests!loop, Requests!stages>>
  BY DEF Requests!Generate
<1>2. generate'[p] = "waiting" /\ \A q \in Parent \ {p} : generate'[q] = generate[q]
  BY <1>1 DEF Requests!TypeOK
<1>3. \A q \in Parent, x \in {"add", "abort"} : <<x, q>> \in Requests!Requested
  BY DEF Requests!Requested
<1>4. /\ request_queue' \in Seq(Requests!Requested)
      /\ \A x : Requests!Queued(x)' <=> Requests!Queued(x) \/ x = <<"add", p>>
      /\ \A i, j \in DOMAIN request_queue' : request_queue'[i] = request_queue'[j] => i = j
      /\ Requests!AbortIsLast'
  <2>1. ~Requests!Queued(<<"add", p>>) /\ ~Requests!Queued(<<"abort", p>>)
    BY <1>1 DEF Requests!MessagesMatch
  <2>2. \A q \in Parent :
          <<"add", p>> \in {<<"add", q>>} \cup {<<"companion", c>> : c \in CompanionsOf[q]} =>
            q = p
    OBVIOUS
  <2> QED BY <1>1, <1>3, <2>1, <2>2, SentKeeps
<1>5. C \subseteq Requests!Companions /\ \A q \in Parent \ {p} : C \cap CompanionsOf[q] = {}
  BY CompanionSets
<1>6. Requests!TypeOK'
  BY <1>1, <1>4, <1>5 DEF Requests!TypeOK, Requests!loop, Requests!stages
<1>7. Requests!MessagesMatch'
  BY <1>1, <1>2, <1>4, <1>5, Lengths DEF Requests!MessagesMatch
<1>8. Requests!NothingEarly'
  BY <1>1, <1>2, <1>4, <1>5 DEF Requests!NothingEarly, Requests!Unknown,
    Requests!UnknownCompanion, Requests!loop
<1>9. Requests!CallersMatch'
  BY <1>1, <1>2 DEF Requests!CallersMatch, Requests!AnswerQueued, Requests!loop, Requests!Serves
<1>10. Requests!AbortIsDue'
  BY <1>1, <1>2, <1>4 DEF Requests!AbortIsDue, Requests!loop, Requests!Serves, Requests!Aborting
<1> QED BY <1>1, <1>4, <1>6, <1>7, <1>8, <1>9, <1>10, CallersKeep DEF Requests!Serves

LEMMA ExpandKeeps ==
  ASSUME Requests!OrchestratorAssumption, Requests!OrchestratorInvariant,
         NEW c \in Requests!Companions, Requests!Expand(c)
  PROVE  Requests!OrchestratorInvariant'
<1> USE DEF Requests!OrchestratorInvariant
<1>0. PICK p \in Parent : c \in CompanionsOf[p] /\ \A q \in Parent \ {p} :
        c \notin CompanionsOf[q]
  BY CompanionSets
<1>1. /\ c \in expanding /\ expanding' = expanding \ {c}
      /\ request_queue' = Append(request_queue, <<"companion", c>>)
      /\ UNCHANGED <<generate, inbox, final_output_task, output_queue, thread, async_chunk,
           handler,
                     request_states, Requests!loop, Requests!stages>>
  BY DEF Requests!Expand
<1>2. generate[p] = "waiting" /\ ~Requests!Queued(<<"companion", c>>) /\
        ~Requests!Queued(<<"abort", p>>)
  BY <1>0, <1>1 DEF Requests!MessagesMatch
<1>4. /\ request_queue' \in Seq(Requests!Requested)
      /\ \A x : Requests!Queued(x)' <=> Requests!Queued(x) \/ x = <<"companion", c>>
      /\ \A i, j \in DOMAIN request_queue' : request_queue'[i] = request_queue'[j] => i = j
      /\ Requests!AbortIsLast'
  <2>1. <<"companion", c>> \in Requests!Requested
    BY DEF Requests!Requested
  <2>2. \A q \in Parent :
          <<"companion", c>> \in {<<"add", q>>} \cup {<<"companion", d>> :
            d \in CompanionsOf[q]} => q = p
    BY <1>0
  <2> QED BY <1>1, <1>2, <2>1, <2>2, SentKeeps
<1>6. Requests!TypeOK'
  BY <1>1, <1>4 DEF Requests!TypeOK, Requests!loop, Requests!stages
<1>7. Requests!MessagesMatch'
  BY <1>0, <1>1, <1>2, <1>4, Lengths DEF Requests!MessagesMatch
<1>8. Requests!NothingEarly'
  BY <1>0, <1>1, <1>2, <1>4 DEF Requests!NothingEarly, Requests!Unknown,
    Requests!UnknownCompanion, Requests!loop
<1>9. Requests!CallersMatch'
  BY <1>1 DEF Requests!CallersMatch, Requests!AnswerQueued, Requests!loop, Requests!Serves
<1>10. Requests!AbortIsDue'
  <2>1. \A q \in Parent : generate[q] \in {"raised", "cancelled"} =>
          /\ q # p
          /\ \A x \in {<<"add", q>>, <<"abort", q>>} \cup {<<"companion", d>> :
               d \in CompanionsOf[q]} :
               Requests!Queued(x)' <=> Requests!Queued(x)
    BY <1>0, <1>2, <1>4
  <2> QED BY <1>1, <2>1 DEF Requests!AbortIsDue, Requests!loop, Requests!Serves, Requests!Aborting
<1> QED BY <1>1, <1>4, <1>6, <1>7, <1>8, <1>9, <1>10, CallersKeep DEF Requests!Serves

(* The dispatcher passes on what it read.                                  *)
LEMMA DispatchKeeps ==
  ASSUME Requests!OrchestratorAssumption, Requests!OrchestratorInvariant, Requests!Dispatch
         PROVE Requests!OrchestratorInvariant'
<1> USE DEF Requests!OrchestratorInvariant
<1>0. PICK m : m = Head(output_queue)
  OBVIOUS
<1>1. /\ output_queue # <<>> /\ output_queue' = Tail(output_queue)
      /\ final_output_task = "running" /\ final_output_task' \in {"running", "ended"}
      /\ UNCHANGED <<generate, expanding, request_queue, thread, async_chunk, handler,
           request_states,
                     Requests!loop, Requests!stages>>
      /\ \/ m = <<"fatal">> /\ \A p \in Parent : inbox'[p] \in {inbox[p], "fatal"}
         \/ m # <<"fatal">> /\ \A p \in Parent : inbox'[p] = inbox[p] \/ (p = m[2] /\
              inbox'[p] = m[1])
      /\ \A p \in Parent : inbox[p] # "empty" => inbox'[p] = inbox[p]
      /\ inbox' = [p \in Parent |-> inbox'[p]]
  BY <1>0 DEF Requests!Dispatch, Requests!Deliver
<1>2. /\ m \in Requests!Told /\ output_queue' \in Seq(Requests!Told)
      /\ \E k \in DOMAIN output_queue : output_queue[k] = m
      /\ \A k \in DOMAIN output_queue' :
           \E l \in DOMAIN output_queue : output_queue'[k] = output_queue[l]
  <2>1. /\ output_queue \in Seq(Requests!Told) /\ Len(output_queue) # 0
        /\ Len(output_queue) \in Nat /\ DOMAIN output_queue = 1 .. Len(output_queue)
    BY <1>1, EmptySeq, LenProperties DEF Requests!TypeOK
  <2>2. /\ output_queue' \in Seq(Requests!Told) /\ m = output_queue[1]
        /\ Len(output_queue') = Len(output_queue) - 1
        /\ \A k \in 1 .. Len(output_queue') : output_queue'[k] = output_queue[k + 1]
    BY <1>0, <1>1, <2>1, HeadTailProperties
  <2>3. DOMAIN output_queue' = 1 .. Len(output_queue) - 1
    BY <2>1, <2>2, LenProperties
  <2>4. 1 \in DOMAIN output_queue /\ m \in Requests!Told
    BY <2>1, <2>2, ElementOfSeq
  <2>5. \A k \in DOMAIN output_queue' :
          k + 1 \in DOMAIN output_queue /\ output_queue'[k] = output_queue[k + 1]
    BY <2>1, <2>2, <2>3
  <2> QED BY <2>2, <2>4, <2>5
<1>3. m = <<"fatal">> \/ (m[1] \in {"finished", "error"} /\ m[2] \in Parent /\ m = <<m[1], m[2]>>)
  BY <1>2 DEF Requests!Told
<1>4. /\ \A p \in Parent : \A what : Requests!AnswerQueued(p, what)' =>
           Requests!AnswerQueued(p, what)
      /\ m = <<"fatal">> => ~Requests!Serves
      /\ m # <<"fatal">> => Requests!AnswerQueued(m[2], m[1])
  BY <1>2, <1>3 DEF Requests!AnswerQueued, Requests!CallersMatch
<1>5. \A k \in DOMAIN output_queue' : output_queue'[k] = <<"fatal">> => ~Requests!Serves
  BY <1>2 DEF Requests!CallersMatch
<1>6. Requests!TypeOK'
  <2>1. inbox' \in [Parent -> {"empty", "finished", "error", "fatal"}]
    BY <1>1, <1>3 DEF Requests!TypeOK
  <2> QED BY <1>1, <1>2, <2>1 DEF Requests!TypeOK, Requests!loop, Requests!stages
<1>7. Requests!MessagesMatch' /\ Requests!AbortIsLast'
  BY <1>1 DEF Requests!MessagesMatch, Requests!AbortIsLast, Requests!Queued
<1>8. Requests!NothingEarly'
  BY <1>1 DEF Requests!NothingEarly, Requests!Unknown, Requests!UnknownCompanion, Requests!loop,
    Requests!Queued
<1>9. Requests!CallersMatch'
  <2> SUFFICES ASSUME NEW p \in Parent
               PROVE  /\ \A what \in {"finished", "error"} :
                           Requests!AnswerQueued(p, what)' \/ inbox'[p] = what => answers[p] = 1
                      /\ inbox'[p] = "fatal" => ~Requests!Serves
                      /\ generate[p] = "returned" => inbox'[p] = "finished"
                      /\ generate[p] = "raised" => inbox'[p] \in {"error", "fatal"}
                      /\ Requests!AnswerQueued(p, "finished")' \/ inbox'[p] = "finished" =>
                           p \in forwarded /\ attached[p] \cap tracker.companions = {}
    BY <1>1, <1>5 DEF Requests!CallersMatch, Requests!loop, Requests!Serves
  <2>1. \/ inbox'[p] = inbox[p]
        \/ inbox'[p] = "fatal" /\ ~Requests!Serves
        \/ inbox'[p] \in {"finished", "error"} /\ Requests!AnswerQueued(p, inbox'[p])
    <3>1. CASE m = <<"fatal">>
      BY <1>1, <1>4, <3>1
    <3>2. CASE m # <<"fatal">>
      BY <1>1, <1>3, <1>4, <3>2
    <3> QED BY <3>1, <3>2
  <2>2. generate[p] \in {"returned", "raised"} => inbox'[p] = inbox[p]
    BY <1>1 DEF Requests!CallersMatch
  <2> QED BY <1>4, <2>1, <2>2 DEF Requests!CallersMatch
<1>10. Requests!AbortIsDue'
  BY <1>1 DEF Requests!AbortIsDue, Requests!loop, Requests!Serves, Requests!Aborting,
    Requests!Queued
<1> QED BY <1>1, <1>6, <1>7, <1>8, <1>9, <1>10, CallersKeep DEF Requests!Serves

(* A call that ends with an exception or by cancellation sends its abort.  *)
LEMMA LeaveKeeps ==
  ASSUME Requests!OrchestratorAssumption, Requests!OrchestratorInvariant, NEW p \in Parent,
         Requests!Return(p) \/ Requests!Cancel(p)
  PROVE  Requests!OrchestratorInvariant'
<1> USE DEF Requests!OrchestratorInvariant
<1>1. PICK how \in {"returned", "raised", "cancelled"} :
        /\ generate[p] = "waiting" /\ expanding = {} /\ generate' = [generate EXCEPT ![p] = how]
        /\ how = "returned" => inbox[p] = "finished" /\ request_queue' = request_queue
        /\ how = "raised" => inbox[p] \in {"error", "fatal"}
        /\ how # "returned" => request_queue' = Append(request_queue, <<"abort", p>>)
        /\ UNCHANGED <<expanding, inbox, final_output_task, output_queue, thread, async_chunk,
                       handler, request_states, Requests!loop, Requests!stages>>
  BY DEF Requests!Return, Requests!Cancel, Requests!SendAbort, Requests!Waiting
<1>2. generate'[p] = how /\ \A q \in Parent \ {p} : generate'[q] = generate[q]
  BY <1>1 DEF Requests!TypeOK
<1>4. /\ request_queue' \in Seq(Requests!Requested)
      /\ \A x : Requests!Queued(x)' <=> Requests!Queued(x) \/ (how # "returned" /\ x = <<"abort",
           p>>)
      /\ \A i, j \in DOMAIN request_queue' : request_queue'[i] = request_queue'[j] => i = j
      /\ Requests!AbortIsLast'
  <2>1. CASE how = "returned"
    BY <1>1, <2>1 DEF Requests!TypeOK, Requests!MessagesMatch, Requests!AbortIsLast,
      Requests!Queued
  <2>2. CASE how # "returned"
    <3>1. ~Requests!Queued(<<"abort", p>>)
      BY <1>1 DEF Requests!MessagesMatch
    <3>2. <<"abort", p>> \in Requests!Requested
      BY DEF Requests!Requested
    <3>3. \A q \in Parent :
            <<"abort", p>> \notin {<<"add", q>>} \cup {<<"companion", c>> : c \in CompanionsOf[q]}
      OBVIOUS
    <3> QED BY <1>1, <2>2, <3>1, <3>2, <3>3, SentKeeps
  <2> QED BY <2>1, <2>2
<1>5. /\ \A x : (Requests!Queued(<<"add", x>>)' <=> Requests!Queued(<<"add", x>>))
               /\ (Requests!Queued(<<"companion", x>>)' <=> Requests!Queued(<<"companion", x>>))
      /\ \A q : Requests!Queued(<<"abort", q>>)' <=>
                Requests!Queued(<<"abort", q>>) \/ (how # "returned" /\ q = p)
  BY <1>4
<1>6. Requests!TypeOK'
  BY <1>1, <1>4 DEF Requests!TypeOK, Requests!loop, Requests!stages
<1>7. Requests!MessagesMatch'
  BY <1>1, <1>2, <1>4, Lengths DEF Requests!MessagesMatch
<1>8. Requests!NothingEarly'
  BY <1>1, <1>2, <1>5 DEF Requests!NothingEarly, Requests!Unknown, Requests!UnknownCompanion,
    Requests!loop
<1>9. Requests!CallersMatch'
  BY <1>1, <1>2 DEF Requests!CallersMatch, Requests!AnswerQueued, Requests!loop, Requests!Serves
<1>10. Requests!AbortIsDue'
  BY <1>1, <1>2, <1>5 DEF Requests!AbortIsDue, Requests!loop, Requests!Serves, Requests!Aborting
<1> QED BY <1>1, <1>4, <1>6, <1>7, <1>8, <1>9, <1>10, CallersKeep DEF Requests!Serves

LEMMA CallerShutdownKeeps ==
  ASSUME Requests!OrchestratorAssumption, Requests!OrchestratorInvariant, Requests!Shutdown
         PROVE Requests!OrchestratorInvariant'
<1> USE DEF Requests!OrchestratorInvariant
<1>1. /\ final_output_task # "cancelled" /\ final_output_task' = "cancelled"
      /\ request_queue' = Append(request_queue, <<"shutdown">>)
      /\ UNCHANGED <<generate, expanding, inbox, output_queue, thread, async_chunk, handler,
                     request_states, Requests!loop, Requests!stages>>
  BY DEF Requests!Shutdown
<1>2. \A a, b : <<a, b>> # <<"shutdown">>
  BY Lengths
<1>4. /\ request_queue' \in Seq(Requests!Requested)
      /\ \A x : Requests!Queued(x)' <=> Requests!Queued(x) \/ x = <<"shutdown">>
      /\ \A i, j \in DOMAIN request_queue' : request_queue'[i] = request_queue'[j] => i = j
      /\ Requests!AbortIsLast'
  <2>1. ~Requests!Queued(<<"shutdown">>) /\ <<"shutdown">> \in Requests!Requested
    BY <1>1 DEF Requests!MessagesMatch, Requests!Requested
  <2>2. \A q \in Parent :
          <<"shutdown">> \notin {<<"add", q>>} \cup {<<"companion", c>> : c \in CompanionsOf[q]}
    BY <1>2
  <2> QED BY <1>1, <2>1, <2>2, SentKeeps
<1>5. \A a, b : Requests!Queued(<<a, b>>)' <=> Requests!Queued(<<a, b>>)
  BY <1>2, <1>4
<1>6. Requests!TypeOK'
  BY <1>1, <1>4 DEF Requests!TypeOK, Requests!loop, Requests!stages
<1>7. Requests!MessagesMatch'
  BY <1>1, <1>2, <1>4 DEF Requests!MessagesMatch
<1>8. Requests!NothingEarly'
  BY <1>1, <1>5 DEF Requests!NothingEarly, Requests!Unknown, Requests!UnknownCompanion,
    Requests!loop
<1>9. Requests!CallersMatch'
  BY <1>1 DEF Requests!CallersMatch, Requests!AnswerQueued, Requests!loop, Requests!Serves
<1>10. Requests!AbortIsDue'
  BY <1>1, <1>5 DEF Requests!AbortIsDue, Requests!loop, Requests!Serves, Requests!Aborting
<1> QED BY <1>1, <1>4, <1>6, <1>7, <1>8, <1>9, <1>10, CallersKeep DEF Requests!Serves

LEMMA StartKeeps ==
  ASSUME Requests!OrchestratorAssumption, Requests!OrchestratorInvariant, Requests!Start
         PROVE Requests!OrchestratorInvariant'
<1> USE DEF Requests!OrchestratorInvariant
<1>1. /\ thread = "new" /\ thread' = "running" /\ async_chunk' \in BOOLEAN
      /\ UNCHANGED <<Requests!client, request_queue, output_queue, handler, request_states,
           Requests!loop, Requests!stages>>
  BY DEF Requests!Start
<1>2. Requests!Serves /\ Requests!Serves'
  BY <1>1 DEF Requests!Serves
<1>6. Requests!TypeOK'
  BY <1>1 DEF Requests!TypeOK, Requests!loop, Requests!stages, Requests!client
<1>7. Requests!MessagesMatch' /\ Requests!AbortIsLast'
  BY <1>1 DEF Requests!MessagesMatch, Requests!AbortIsLast, Requests!Queued, Requests!client
<1>8. Requests!NothingEarly'
  BY <1>1 DEF Requests!NothingEarly, Requests!Unknown, Requests!UnknownCompanion, Requests!loop,
    Requests!client, Requests!Queued
<1>9. Requests!CallersMatch'
  BY <1>1, <1>2 DEF Requests!CallersMatch, Requests!AnswerQueued, Requests!loop, Requests!client
<1>10. Requests!AbortIsDue'
  BY <1>1, <1>2 DEF Requests!AbortIsDue, Requests!loop, Requests!Aborting, Requests!client,
    Requests!Queued
<1> QED BY <1>1, <1>2, <1>6, <1>7, <1>8, <1>9, <1>10, CallersKeep

-------------------------------------------------------------------------------
(* The request handler.                                                    *)

(* What is put out behind the others.                                      *)
LEMMA AnswerPut ==
  ASSUME Requests!TypeOK, NEW m \in Requests!Told, output_queue' = Append(output_queue, m)
  PROVE  /\ output_queue' \in Seq(Requests!Told)
         /\ \A k \in DOMAIN output_queue' :
              output_queue'[k] = m \/ \E l \in DOMAIN output_queue :
                output_queue'[k] = output_queue[l]
         /\ \A p, what : Requests!AnswerQueued(p, what)' =>
              Requests!AnswerQueued(p, what) \/ <<what, p>> = m
<1>1. /\ output_queue \in Seq(Requests!Told)
      /\ Len(output_queue) \in Nat /\ DOMAIN output_queue = 1 .. Len(output_queue)
  BY LenProperties DEF Requests!TypeOK
<1>2. /\ output_queue' \in Seq(Requests!Told)
      /\ Len(output_queue') = Len(output_queue) + 1
      /\ output_queue'[Len(output_queue) + 1] = m
      /\ \A k \in 1 .. Len(output_queue) : output_queue'[k] = output_queue[k]
  BY <1>1, AppendProperties
<1>3. DOMAIN output_queue' = 1 .. Len(output_queue) + 1
  BY <1>1, <1>2, LenProperties
<1>4. \A k \in DOMAIN output_queue' :
        output_queue'[k] = m \/ \E l \in DOMAIN output_queue : output_queue'[k] = output_queue[l]
  BY <1>1, <1>2, <1>3
<1> QED BY <1>2, <1>4 DEF Requests!AnswerQueued

(* The message at the head leaves the others in order; behind an abort     *)
(* there is nothing of its request.                                        *)
LEMMA TakenKeeps ==
  ASSUME Requests!OrchestratorAssumption, Requests!OrchestratorInvariant, Requests!HandlerRuns,
         request_queue' = Tail(request_queue), UNCHANGED Requests!client
  PROVE  /\ request_queue' \in Seq(Requests!Requested) /\ Requests!Message \in Requests!Requested
         /\ Requests!MessagesMatch' /\ Requests!AbortIsLast'
         /\ \A x : Requests!Queued(x)' <=> Requests!Queued(x) /\ x # Requests!Message
         /\ Requests!Queued(Requests!Message)
         /\ \A p \in Parent : Requests!Message = <<"abort", p>> =>
              ~Requests!Queued(<<"add", p>>) /\ \A c \in CompanionsOf[p] :
                ~Requests!Queued(<<"companion", c>>)
         /\ handler = Requests!Nothing /\ Requests!Aborting = {}
<1> USE DEF Requests!OrchestratorInvariant
<1>1. /\ request_queue' \in Seq(Requests!Requested) /\ Requests!Message \in Requests!Requested
      /\ Requests!Message = request_queue[1] /\ 1 \in DOMAIN request_queue
      /\ \A k \in DOMAIN request_queue' :
           k \in Nat \ {0} /\ k + 1 \in DOMAIN request_queue /\
             request_queue'[k] = request_queue[k + 1]
      /\ \A x : Requests!Queued(x)' <=> Requests!Queued(x) /\ x # Requests!Message
      /\ Requests!Queued(Requests!Message)
  BY RequestTaken DEF Requests!HandlerRuns
<1>2. \A i, j \in DOMAIN request_queue' : request_queue'[i] = request_queue'[j] => i = j
  <2> SUFFICES ASSUME NEW i \in DOMAIN request_queue', NEW j \in DOMAIN request_queue',
                      request_queue'[i] = request_queue'[j]
               PROVE  i = j
    OBVIOUS
  <2>1. i + 1 = j + 1
    BY <1>1 DEF Requests!MessagesMatch
  <2> QED BY <1>1, <2>1
<1>3. Requests!MessagesMatch'
  BY <1>1, <1>2 DEF Requests!MessagesMatch, Requests!client
<1>4. Requests!AbortIsLast'
  <2> SUFFICES ASSUME NEW p \in Parent, NEW i \in DOMAIN request_queue',
                      NEW j \in DOMAIN request_queue',
                      request_queue'[j] = <<"abort", p>>,
                      request_queue'[i] \in {<<"add", p>>} \cup {<<"companion", c>> :
                        c \in CompanionsOf[p]}
               PROVE  i < j
    BY DEF Requests!AbortIsLast
  <2>1. i + 1 < j + 1
    BY <1>1 DEF Requests!AbortIsLast
  <2> QED BY <1>1, <2>1
<1>5. ASSUME NEW p \in Parent, Requests!Message = <<"abort", p>>,
             NEW x \in {<<"add", p>>} \cup {<<"companion", c>> :
               c \in CompanionsOf[p]}, Requests!Queued(x)
      PROVE  FALSE
  <2>1. PICK i \in DOMAIN request_queue : request_queue[i] = x
    BY <1>5 DEF Requests!Queued
  <2>2. i < 1
    BY <1>1, <1>5, <2>1 DEF Requests!AbortIsLast
  <2>3. request_queue \in Seq(Requests!Requested)
    BY DEF Requests!TypeOK
  <2> QED BY <2>1, <2>2, <2>3, LenProperties
<1> QED BY <1>1, <1>3, <1>4, <1>5 DEF Requests!HandlerRuns, Requests!Aborting

(* A thread that ends leaves everything as it is, or less of it.           *)
LEMMA CrashKeeps ==
  ASSUME Requests!OrchestratorAssumption, Requests!OrchestratorInvariant, Requests!Crash,
         UNCHANGED Requests!client,
         request_queue' \in Seq(Requests!Requested), Requests!MessagesMatch',
           Requests!AbortIsLast',
         \A x : Requests!Queued(x)' => Requests!Queued(x),
         routing' \in {routing, Requests!Nothing}, request_states' \subseteq request_states,
         tracker' \in [companions : SUBSET Requests!Companions, done : SUBSET Requests!Companions,
                       pending : SUBSET Parent],
         tracker'.companions \subseteq tracker.companions, tracker'.done \subseteq produced,
         Requests!PendingMatches', stage_outputs' \in [Requests!Stage -> Seq({"kv", "finished",
           "error"} \X Requests!Id)],
         stage_outputs'[1] = stage_outputs[1],
         \A k \in DOMAIN stage_outputs'[0] : stage_outputs'[0][k][2] \in produced,
         UNCHANGED <<async_chunk, handler, forwarded, attached, answers, running, produced,
                     submissions>>
  PROVE  Requests!OrchestratorInvariant'
<1> USE DEF Requests!OrchestratorInvariant
<1>1. thread' = "ended" /\ output_queue' = Append(output_queue, <<"fatal">>) /\ ~Requests!Serves'
  BY DEF Requests!Crash, Requests!Serves
<1>2. /\ output_queue' \in Seq(Requests!Told)
      /\ \A p, what : Requests!AnswerQueued(p, what)' => Requests!AnswerQueued(p, what)
  <2>1. <<"fatal">> \in Requests!Told
    BY DEF Requests!Told
  <2>2. /\ output_queue' \in Seq(Requests!Told)
        /\ \A p, what : Requests!AnswerQueued(p, what)' =>
             Requests!AnswerQueued(p, what) \/ <<what, p>> = <<"fatal">>
    BY <1>1, <2>1, AnswerPut
  <2> QED BY <2>2, Lengths
<1>4. Requests!TypeOK'
  BY <1>1, <1>2 DEF Requests!TypeOK, Requests!client
<1>5. Requests!NothingEarly'
  BY Lengths DEF Requests!NothingEarly, Requests!Unknown, Requests!UnknownCompanion,
    Requests!client, Requests!Nothing
<1>6. Requests!SubmittedOnce' /\ Requests!DoneIsProduced' /\ Requests!GuidanceReady'
  BY DEF Requests!SubmittedOnce, Requests!DoneIsProduced, Requests!GuidanceReady
<1>7. Requests!DiffusionMatches'
  BY DEF Requests!DiffusionMatches, Requests!InDiffusion
<1>8. Requests!AnswersMatch'
  BY Lengths DEF Requests!AnswersMatch, Requests!Nothing
<1>9. Requests!CallersMatch'
  BY <1>1, <1>2 DEF Requests!CallersMatch, Requests!client
<1>10. Requests!AbortIsDue' /\ Requests!CompanionsMatch'
  BY <1>1 DEF Requests!AbortIsDue, Requests!CompanionsMatch
<1> QED BY <1>4, <1>5, <1>6, <1>7, <1>8, <1>9, <1>10

LEMMA HandleAddRequestKeeps ==
  ASSUME Requests!OrchestratorAssumption, Requests!OrchestratorInvariant,
         Requests!HandleAddRequest
  PROVE  Requests!OrchestratorInvariant'
<1> USE DEF Requests!OrchestratorInvariant
<1>1. /\ Requests!HandlerRuns /\ Requests!Message[1] = "add" /\
           request_queue' = Tail(request_queue)
      /\ \E to \in {Requests!Stage, {0}} :
           Requests!AddRequest(Requests!Message[2], tracker, to)
      /\ UNCHANGED <<Requests!client, async_chunk, handler, routing, attached, answers,
           stage_outputs, produced, engine_dead>>
  BY DEF Requests!HandleAddRequest
<1>2. /\ request_queue' \in Seq(Requests!Requested) /\ Requests!Message \in Requests!Requested
      /\ Requests!MessagesMatch' /\ Requests!AbortIsLast'
      /\ \A x : Requests!Queued(x)' <=> Requests!Queued(x) /\ x # Requests!Message
      /\ Requests!Queued(Requests!Message)
      /\ Requests!Aborting = {}
  BY <1>1, TakenKeeps
<1>3. PICK p \in Parent : Requests!Message = <<"add", p>>
  BY <1>1, <1>2 DEF Requests!Requested
<1>4. PICK to \in {Requests!Stage, {0}} : Requests!AddRequest(p, tracker, to)
  BY <1>1, <1>3
<1>5. CASE to \cap engine_dead # {}
  <2>1. Requests!Crash /\ UNCHANGED <<request_states, tracker, running, submissions, forwarded>>
    BY <1>4, <1>5 DEF Requests!AddRequest
  <2>2. Requests!PendingMatches' /\ tracker'.done \subseteq produced
    BY <2>1 DEF Requests!PendingMatches, Requests!CompanionsTracked, Requests!DoneIsProduced
  <2>3. /\ stage_outputs' \in [Requests!Stage -> Seq({"kv", "finished", "error"} \X Requests!Id)]
        /\ stage_outputs'[1] = stage_outputs[1]
        /\ \A k \in DOMAIN stage_outputs'[0] : stage_outputs'[0][k][2] \in produced
    BY <1>1 DEF Requests!TypeOK, Requests!DoneIsProduced
  <2> QED BY <1>1, <1>2, <2>1, <2>2, <2>3, CrashKeeps DEF Requests!TypeOK
<1>6. CASE to \cap engine_dead = {}
  <2>1. /\ request_states' = request_states \cup {p} /\ tracker' = tracker
        /\ running' = [s \in Requests!Stage |-> IF s \in to THEN running[s] \cup
             {p} ELSE running[s]]
        /\ submissions' = [q \in Parent |-> submissions[q] + (IF q = p /\ 1 \in to THEN 1 ELSE 0)]
        /\ forwarded' = (IF 1 \in to THEN forwarded \cup {p} ELSE forwarded)
        /\ UNCHANGED <<output_queue, thread>>
    BY <1>4, <1>6 DEF Requests!AddRequest
  <2>2. /\ p \notin request_states /\ p \notin forwarded /\ answers[p] = 0 /\ routing # <<p>>
        /\ generate[p] # "new" /\ p \notin Requests!Companions /\ submissions[p] = 0 /\
             ~Requests!InDiffusion(p)
    BY <1>2, <1>3, CompanionSets
       DEF Requests!NothingEarly, Requests!Unknown, Requests!MessagesMatch,
         Requests!SubmittedOnce, Requests!DiffusionMatches
  <2>3. /\ 0 \in Requests!Stage /\ 1 \in Requests!Stage /\ 0 \in to
        /\ running[0] \subseteq running'[0]
        /\ running'[1] \subseteq running[1] \cup (forwarded' \cap {p})
    BY <2>1 DEF Requests!Stage
  <2>4. Requests!TypeOK'
    <3>1. \A s \in Requests!Stage : (IF s \in to THEN running[s] \cup
            {p} ELSE running[s]) \in SUBSET Requests!Id
      BY DEF Requests!TypeOK, Requests!Id
    <3>2. running' \in [Requests!Stage -> SUBSET Requests!Id] /\ running'[1] \subseteq Parent
      <4>1. running' \in [Requests!Stage -> SUBSET Requests!Id]
        BY <2>1, <3>1
      <4>2. running[1] \subseteq Parent
        BY DEF Requests!TypeOK
      <4> QED BY <2>3, <4>1, <4>2
    <3>3. \A q \in Parent : submissions[q] + (IF q = p /\ 1 \in to THEN 1 ELSE 0) \in Nat
      <4> TAKE q \in Parent
      <4>1. submissions[q] \in Nat
        BY DEF Requests!TypeOK
      <4> QED BY <4>1
    <3>4. submissions' \in [Parent -> Nat]
      BY <2>1, <3>3
    <3> QED BY <1>1, <1>2, <2>1, <3>2, <3>4 DEF Requests!TypeOK, Requests!client, Requests!Id
  <2>5. Requests!NothingEarly'
    <3>1. \A q \in Parent : Requests!Unknown(q)' => Requests!Unknown(q) /\ q # p
      BY <1>1, <1>2, <1>3, <2>2 DEF Requests!Unknown, Requests!client
    <3>2. \A q \in Parent : \A c : Requests!UnknownCompanion(q, c)' =>
            Requests!UnknownCompanion(q, c)
      BY <1>1, <1>2 DEF Requests!UnknownCompanion, Requests!client
    <3>3. \A q \in Parent : p \notin CompanionsOf[q]
      BY <2>2, CompanionSets
    <3> QED BY <1>1, <2>1, <3>1, <3>2, <3>3 DEF Requests!NothingEarly
  <2>6. Requests!SubmittedOnce' /\ Requests!DoneIsProduced' /\ Requests!GuidanceReady' /\
          Requests!PendingMatches'
    BY <1>1, <2>1, <2>2
       DEF Requests!SubmittedOnce, Requests!DoneIsProduced, Requests!GuidanceReady,
         Requests!PendingMatches, Requests!CompanionsTracked
  <2>7. Requests!DiffusionMatches'
    BY <1>1, <2>1, <2>2, <2>3 DEF Requests!DiffusionMatches, Requests!InDiffusion
  <2>8. Requests!AnswersMatch'
    BY <1>1, <2>1, <2>2 DEF Requests!AnswersMatch
  <2>9. Requests!CallersMatch'
    BY <1>1, <2>1 DEF Requests!CallersMatch, Requests!AnswerQueued, Requests!client,
      Requests!Serves
  <2>10. Requests!AbortIsDue'
    <3>1. \A q \in Parent : generate[q] \in {"raised", "cancelled"} =>
            /\ Requests!Queued(<<"add", q>>)' => Requests!Queued(<<"add", q>>)
            /\ \A c : Requests!Queued(<<"companion", c>>)' => Requests!Queued(<<"companion", c>>)
            /\ Requests!Queued(<<"abort", q>>)' <=> Requests!Queued(<<"abort", q>>)
      BY <1>2, <1>3
    <3>2. Requests!Queued(<<"add", p>>)
      BY <1>2, <1>3
    <3> QED BY <1>1, <1>2, <2>1, <3>1, <3>2 DEF Requests!AbortIsDue, Requests!client,
      Requests!Serves, Requests!Aborting
  <2>11. Requests!CompanionsMatch'
    BY <1>1, <1>2, <2>1, <2>2, <2>3 DEF Requests!CompanionsMatch, Requests!AtModel,
      Requests!PutOutBy, Requests!Serves, Requests!Aborting
  <2> QED BY <1>2, <2>4, <2>5, <2>6, <2>7, <2>8, <2>9, <2>10, <2>11
<1> QED BY <1>5, <1>6

LEMMA HandleAddCompanionKeeps ==
  ASSUME Requests!OrchestratorAssumption, Requests!OrchestratorInvariant,
         Requests!HandleAddCompanion
  PROVE  Requests!OrchestratorInvariant'
<1> USE DEF Requests!OrchestratorInvariant
<1>1. /\ Requests!HandlerRuns /\ Requests!Message[1] = "companion" /\
           request_queue' = Tail(request_queue)
      /\ Requests!AddRequest(Requests!Message[2],
           [tracker EXCEPT !.companions = tracker.companions \cup {Requests!Message[2]}], {0})
      /\ UNCHANGED <<Requests!client, async_chunk, handler, routing, attached, answers,
           stage_outputs,
                     produced, engine_dead>>
  BY DEF Requests!HandleAddCompanion
<1>2. /\ request_queue' \in Seq(Requests!Requested) /\ Requests!Message \in Requests!Requested
      /\ Requests!MessagesMatch' /\ Requests!AbortIsLast'
      /\ \A x : Requests!Queued(x)' <=> Requests!Queued(x) /\ x # Requests!Message
      /\ Requests!Queued(Requests!Message)
      /\ Requests!Aborting = {}
  BY <1>1, TakenKeeps
<1>3. PICK c \in Requests!Companions : Requests!Message = <<"companion", c>>
  BY <1>1, <1>2 DEF Requests!Requested
<1>4. PICK p \in Parent : c \in CompanionsOf[p] /\ \A q \in Parent \ {p} :
        c \notin CompanionsOf[q]
  BY CompanionSets
<1>5. CASE {0} \cap engine_dead # {}
  <2>1. Requests!Crash /\ UNCHANGED <<request_states, tracker, running, submissions, forwarded>>
    BY <1>1, <1>5 DEF Requests!AddRequest
  <2>2. Requests!PendingMatches' /\ tracker'.done \subseteq produced
    BY <2>1 DEF Requests!PendingMatches, Requests!CompanionsTracked, Requests!DoneIsProduced
  <2>3. /\ stage_outputs' \in [Requests!Stage -> Seq({"kv", "finished", "error"} \X Requests!Id)]
        /\ stage_outputs'[1] = stage_outputs[1]
        /\ \A k \in DOMAIN stage_outputs'[0] : stage_outputs'[0][k][2] \in produced
    BY <1>1 DEF Requests!TypeOK, Requests!DoneIsProduced
  <2> QED BY <1>1, <1>2, <2>1, <2>2, <2>3, CrashKeeps DEF Requests!TypeOK
<1>6. CASE {0} \cap engine_dead = {}
  <2>1. /\ request_states' = request_states \cup {c}
        /\ tracker' = [tracker EXCEPT !.companions = tracker.companions \cup {c}]
        /\ running' = [s \in Requests!Stage |-> IF s \in {0} THEN running[s] \cup
             {c} ELSE running[s]]
        /\ submissions' = [q \in Parent |-> submissions[q] + (IF q = c /\
             1 \in {0} THEN 1 ELSE 0)]
        /\ forwarded' = (IF 1 \in {0} THEN forwarded \cup {c} ELSE forwarded)
        /\ UNCHANGED <<output_queue, thread>>
    BY <1>1, <1>3, <1>6 DEF Requests!AddRequest
  <2>2. /\ c \notin tracker.companions /\ c \notin attached[p] /\ c \notin Parent
        /\ routing # <<c>>
        /\ generate[p] # "new" /\ c \notin expanding
    BY <1>2, <1>3, <1>4, CompanionSets DEF Requests!NothingEarly, Requests!UnknownCompanion,
      Requests!MessagesMatch
  <2>3. /\ 0 \in Requests!Stage /\ 1 \in Requests!Stage /\ submissions' = submissions /\
             forwarded' = forwarded
        /\ running'[0] = running[0] \cup {c} /\ running'[1] = running[1]
    <3>1. 0 \in Requests!Stage /\ 1 \in Requests!Stage /\ 1 \notin {0} /\ 0 \in {0}
      BY DEF Requests!Stage
    <3>2. submissions \in [Parent -> Nat]
      BY DEF Requests!TypeOK
    <3>3. \A q \in Parent : submissions'[q] = submissions[q]
      BY <2>1, <3>1, <3>2
    <3>4. submissions' = submissions
      BY <2>1, <3>2, <3>3
    <3> QED BY <2>1, <3>1, <3>4
  <2>4. /\ tracker'.companions = tracker.companions \cup {c} /\ tracker'.done = tracker.done
        /\ tracker'.pending = tracker.pending
        /\ tracker' \in [companions : SUBSET Requests!Companions, done :
             SUBSET Requests!Companions,
                         pending : SUBSET Parent]
    BY <2>1 DEF Requests!TypeOK
  <2>5. Requests!TypeOK'
    <3>1. running' \in [Requests!Stage -> SUBSET Requests!Id] /\ running'[1] \subseteq Parent
      BY <2>1, <2>3 DEF Requests!TypeOK, Requests!Id
    <3> QED BY <1>1, <1>2, <2>1, <2>3, <2>4, <3>1 DEF Requests!TypeOK, Requests!client,
      Requests!Id
  <2>6. Requests!NothingEarly'
    <3>1. \A q \in Parent : Requests!Unknown(q)' => Requests!Unknown(q)
      BY <1>1, <1>2 DEF Requests!Unknown, Requests!client
    <3>2. \A q \in Parent : \A d \in CompanionsOf[q] :
            Requests!UnknownCompanion(q, d)' => Requests!UnknownCompanion(q, d) /\ d # c
      BY <1>1, <1>2, <1>3, <1>4, <2>2 DEF Requests!UnknownCompanion, Requests!client
    <3> QED BY <1>1, <2>1, <2>2, <2>3, <2>4, <3>1, <3>2 DEF Requests!NothingEarly
  <2>7. Requests!SubmittedOnce' /\ Requests!DoneIsProduced' /\ Requests!GuidanceReady' /\
          Requests!PendingMatches'
    BY <1>1, <2>3, <2>4
       DEF Requests!SubmittedOnce, Requests!DoneIsProduced, Requests!GuidanceReady,
         Requests!PendingMatches, Requests!CompanionsTracked
  <2>8. Requests!DiffusionMatches'
    BY <1>1, <2>3 DEF Requests!DiffusionMatches, Requests!InDiffusion
  <2>9. Requests!AnswersMatch'
    BY <1>1, <2>1, <2>2, <2>3 DEF Requests!AnswersMatch
  <2>10. Requests!CallersMatch'
    <3>1. \A q \in Parent : c \notin attached[q]
      BY <1>4, <2>2 DEF Requests!NothingEarly
    <3> QED BY <1>1, <2>1, <2>3, <2>4, <3>1 DEF Requests!CallersMatch, Requests!AnswerQueued,
      Requests!client, Requests!Serves
  <2>11. Requests!AbortIsDue'
    <3>1. \A q \in Parent :
            /\ Requests!Queued(<<"add", q>>)' <=> Requests!Queued(<<"add", q>>)
            /\ \A d : Requests!Queued(<<"companion", d>>)' => Requests!Queued(<<"companion", d>>)
            /\ Requests!Queued(<<"abort", q>>)' <=> Requests!Queued(<<"abort", q>>)
      BY <1>2, <1>3
    <3>2. Requests!Queued(<<"companion", c>>) /\ \A q \in Parent : c \in CompanionsOf[q] => q = p
      BY <1>2, <1>3, <1>4
    <3> QED BY <1>1, <1>2, <1>4, <2>1, <2>2, <2>4, <3>1, <3>2
            DEF Requests!AbortIsDue, Requests!client, Requests!Serves, Requests!Aborting
  <2>12. Requests!CompanionsMatch'
    BY <1>1, <1>2, <2>1, <2>2, <2>3, <2>4 DEF Requests!CompanionsMatch, Requests!AtModel,
      Requests!PutOutBy, Requests!Serves, Requests!Aborting
  <2> QED BY <1>2, <2>5, <2>6, <2>7, <2>8, <2>9, <2>10, <2>11, <2>12
<1> QED BY <1>5, <1>6

(* A tracker without a parent and its companions.                          *)
LEMMA ParentCleaned ==
  ASSUME Requests!OrchestratorAssumption, Requests!TypeOK, NEW p \in Parent,
         NEW t, t = Requests!CleanupParent(tracker, p)
  PROVE  /\ t \in [companions : SUBSET Requests!Companions, done :
            SUBSET Requests!Companions, pending : SUBSET Parent]
         /\ t.companions = tracker.companions \ CompanionsOf[p]
         /\ t.done = tracker.done \ CompanionsOf[p]
         /\ t.pending = tracker.pending \ {p}
         /\ Requests!PendingMatches =>
              \A q \in t.pending : Requests!CompanionsTracked(t, q) \ t.done # {}
<1>1. /\ t \in [companions : SUBSET Requests!Companions, done :
           SUBSET Requests!Companions, pending : SUBSET Parent]
      /\ t.companions = tracker.companions \ CompanionsOf[p]
      /\ t.done = tracker.done \ CompanionsOf[p]
      /\ t.pending = tracker.pending \ {p}
  BY DEF Requests!CleanupParent, Requests!TypeOK
<1>2. ASSUME Requests!PendingMatches, NEW q \in t.pending
      PROVE  Requests!CompanionsTracked(t, q) \ t.done # {}
  <2>1. q \in tracker.pending /\ q \in Parent /\ CompanionsOf[q] \cap CompanionsOf[p] = {}
    BY <1>1, CompanionSets DEF Requests!TypeOK
  <2>2. Requests!CompanionsTracked(tracker, q) \ tracker.done # {}
    BY <1>2, <2>1 DEF Requests!PendingMatches
  <2> QED BY <1>1, <2>1, <2>2 DEF Requests!CompanionsTracked
<1> QED BY <1>1, <1>2

LEMMA HandleAbortKeeps ==
  ASSUME Requests!OrchestratorAssumption, Requests!OrchestratorInvariant, Requests!HandleAbort
  PROVE  Requests!OrchestratorInvariant'
<1> USE DEF Requests!OrchestratorInvariant
<1>1. /\ Requests!HandlerRuns /\ Requests!Message[1] = "abort" /\
           request_queue' = Tail(request_queue)
      /\ UNCHANGED <<Requests!client, output_queue, thread, async_chunk, request_states, routing,
           forwarded,
                     attached, answers, stage_outputs, produced, submissions, engine_dead>>
  BY DEF Requests!HandleAbort
<1>2. /\ request_queue' \in Seq(Requests!Requested) /\ Requests!Message \in Requests!Requested
      /\ Requests!MessagesMatch' /\ Requests!AbortIsLast'
      /\ \A x : Requests!Queued(x)' <=> Requests!Queued(x) /\ x # Requests!Message
      /\ Requests!Queued(Requests!Message)
      /\ Requests!Aborting = {}
  BY <1>1, TakenKeeps
<1>3. PICK p \in Parent : Requests!Message = <<"abort", p>>
  BY <1>1, <1>2, Lengths DEF Requests!Requested
<1>4. ~Requests!Queued(<<"add", p>>) /\ \A c \in CompanionsOf[p] :
        ~Requests!Queued(<<"companion", c>>)
  BY <1>1, <1>3, TakenKeeps
<1>5. PICK ids \in SUBSET Requests!Id :
        /\ ids = {p} \cup (tracker.companions \cap CompanionsOf[p])
        /\ handler' = <<"stage 1", ids>> /\ tracker' = Requests!CleanupParent(tracker, p)
        /\ running' = [running EXCEPT ![0] = running[0] \ ids]
  <2>1. Requests!AbortedIds(p) = {p} \cup (tracker.companions \cap CompanionsOf[p])
    BY DEF Requests!AbortedIds, Requests!CompanionsTracked
  <2>2. Requests!AbortedIds(p) \in SUBSET Requests!Id
    BY <2>1, CompanionSets
  <2>3. Requests!Message[2] = p
    BY <1>3
  <2>4. /\ handler' = <<"stage 1", Requests!AbortedIds(p)>> /\
             tracker' = Requests!CleanupParent(tracker, p)
        /\ running' = [running EXCEPT ![0] = running[0] \ Requests!AbortedIds(p)]
    BY <2>3 DEF Requests!HandleAbort
  <2> QED BY <2>1, <2>2, <2>4
<1>6. /\ running'[0] = running[0] \ ids /\ running'[1] = running[1]
      /\ running' \in [Requests!Stage -> SUBSET Requests!Id]
  <2>1. running \in [Requests!Stage -> SUBSET Requests!Id] /\ 0 \in Requests!Stage /\
          1 \in Requests!Stage
    BY DEF Requests!TypeOK, Requests!Stage
  <2>2. running' = [running EXCEPT ![0] = running[0] \ ids]
    BY <1>5
  <2> QED BY <2>1, <2>2
<1>7. /\ tracker' \in [companions : SUBSET Requests!Companions, done : SUBSET Requests!Companions,
                       pending : SUBSET Parent]
      /\ tracker'.companions = tracker.companions \ CompanionsOf[p]
      /\ tracker'.done = tracker.done \ CompanionsOf[p]
      /\ \A q \in tracker'.pending : Requests!CompanionsTracked(tracker', q) \ tracker'.done # {}
  <2>1. PICK t : t = tracker' /\ t = Requests!CleanupParent(tracker, p)
    BY <1>5
  <2>2. /\ t \in [companions : SUBSET Requests!Companions, done :
             SUBSET Requests!Companions, pending : SUBSET Parent]
        /\ t.companions = tracker.companions \ CompanionsOf[p]
        /\ t.done = tracker.done \ CompanionsOf[p]
        /\ \A q \in t.pending : Requests!CompanionsTracked(t, q) \ t.done # {}
    BY <2>1, ParentCleaned
  <2> QED BY <2>1, <2>2
<1>8. Requests!Aborting' = ids
  <2>1. <<"stage 1", ids>> # <<>>
    BY Lengths
  <2> QED BY <1>5, <2>1 DEF Requests!Aborting, Requests!Nothing
<1>9. Requests!TypeOK'
  <2>1. handler' \in {"stage 1", "forget"} \X SUBSET Requests!Id
    BY <1>5
  <2>2. running'[1] \subseteq Parent
    BY <1>6 DEF Requests!TypeOK
  <2> QED BY <1>1, <1>2, <1>6, <1>7, <2>1, <2>2 DEF Requests!TypeOK, Requests!client
<1>10. Requests!NothingEarly'
  <2>1. \A q \in Parent : Requests!Unknown(q)' => Requests!Unknown(q)
    BY <1>1, <1>2 DEF Requests!Unknown, Requests!client
  <2>2. \A q \in Parent : \A c : Requests!UnknownCompanion(q, c)' =>
          Requests!UnknownCompanion(q, c)
    BY <1>1, <1>2 DEF Requests!UnknownCompanion, Requests!client
  <2> QED BY <1>1, <1>7, <2>1, <2>2 DEF Requests!NothingEarly
<1>11. Requests!SubmittedOnce' /\ Requests!DoneIsProduced' /\ Requests!GuidanceReady'
  BY <1>1, <1>7 DEF Requests!SubmittedOnce, Requests!DoneIsProduced, Requests!GuidanceReady
<1>12. Requests!PendingMatches'
  BY <1>7 DEF Requests!PendingMatches, Requests!CompanionsTracked
<1>13. Requests!DiffusionMatches' /\ Requests!AnswersMatch'
  BY <1>1, <1>6 DEF Requests!DiffusionMatches, Requests!InDiffusion, Requests!AnswersMatch
<1>14. Requests!CallersMatch'
  BY <1>1, <1>7 DEF Requests!CallersMatch, Requests!AnswerQueued, Requests!client, Requests!Serves
<1>15. Requests!AbortIsDue'
  <2>1. \A q \in Parent :
          /\ Requests!Queued(<<"add", q>>)' => Requests!Queued(<<"add", q>>)
          /\ \A c : Requests!Queued(<<"companion", c>>)' => Requests!Queued(<<"companion", c>>)
          /\ q # p => (Requests!Queued(<<"abort", q>>)' <=> Requests!Queued(<<"abort", q>>))
    BY <1>2, <1>3
  <2>2. p \in ids
    BY <1>5
  <2> QED BY <1>1, <1>2, <1>4, <1>7, <1>8, <2>1, <2>2 DEF Requests!AbortIsDue, Requests!client,
    Requests!Serves
<1>16. Requests!CompanionsMatch'
  <2>1. \A c \in Requests!Companions : c # p
    BY CompanionSets
  <2>2. \A c \in Requests!Companions : c \in tracker'.companions => c \notin ids
    BY <1>5, <1>7, <2>1
  <2>3. \A c \in Requests!Companions \ ids : Requests!AtModel(c) => Requests!AtModel(c)'
    BY <1>1, <1>6 DEF Requests!AtModel, Requests!PutOutBy
  <2> QED BY <1>1, <1>2, <1>7, <1>8, <2>2, <2>3 DEF Requests!CompanionsMatch, Requests!Serves
<1> QED BY <1>2, <1>9, <1>10, <1>11, <1>12, <1>13, <1>14, <1>15, <1>16

LEMMA AbortNextStageKeeps ==
  ASSUME Requests!OrchestratorAssumption, Requests!OrchestratorInvariant, Requests!AbortNextStage
  PROVE  Requests!OrchestratorInvariant'
<1> USE DEF Requests!OrchestratorInvariant
<1>1. /\ handler # Requests!Nothing /\ handler' = <<"forget", handler[2]>>
      /\ running' = [running EXCEPT ![1] = running[1] \ handler[2]]
      /\ UNCHANGED <<Requests!client, request_queue, output_queue, thread, async_chunk,
           request_states, Requests!loop,
                     stage_outputs, produced, submissions, engine_dead>>
  BY DEF Requests!AbortNextStage
<1>2. /\ running'[0] = running[0] /\ running'[1] \subseteq running[1]
      /\ running' \in [Requests!Stage -> SUBSET Requests!Id]
  <2>1. running \in [Requests!Stage -> SUBSET Requests!Id] /\ 0 \in Requests!Stage /\
          1 \in Requests!Stage
    BY DEF Requests!TypeOK, Requests!Stage
  <2> QED BY <1>1, <2>1
<1>3. handler[2] \in SUBSET Requests!Id
  BY <1>1 DEF Requests!TypeOK
<1>4. Requests!Aborting' = Requests!Aborting
  <2>1. <<"forget", handler[2]>> # <<>> /\ <<"forget", handler[2]>>[2] = handler[2]
    BY Lengths
  <2> QED BY <1>1, <2>1 DEF Requests!Aborting, Requests!Nothing
<1>5. Requests!TypeOK'
  <2>1. handler' \in {"stage 1", "forget"} \X SUBSET Requests!Id
    BY <1>1, <1>3
  <2> QED BY <1>1, <1>2, <2>1 DEF Requests!TypeOK, Requests!client, Requests!loop
<1>6. Requests!MessagesMatch' /\ Requests!AbortIsLast'
  BY <1>1 DEF Requests!MessagesMatch, Requests!AbortIsLast, Requests!Queued, Requests!client
<1>7. Requests!NothingEarly'
  BY <1>1 DEF Requests!NothingEarly, Requests!Unknown, Requests!UnknownCompanion, Requests!loop,
    Requests!client, Requests!Queued
<1>8. Requests!SubmittedOnce' /\ Requests!DoneIsProduced' /\ Requests!GuidanceReady' /\
        Requests!PendingMatches'
  BY <1>1
     DEF Requests!SubmittedOnce, Requests!DoneIsProduced, Requests!GuidanceReady,
       Requests!PendingMatches, Requests!CompanionsTracked, Requests!loop
<1>9. Requests!DiffusionMatches' /\ Requests!AnswersMatch'
  BY <1>1, <1>2 DEF Requests!DiffusionMatches, Requests!InDiffusion, Requests!AnswersMatch,
    Requests!loop
<1>10. Requests!CallersMatch'
  BY <1>1 DEF Requests!CallersMatch, Requests!AnswerQueued, Requests!client, Requests!Serves,
    Requests!loop
<1>11. Requests!AbortIsDue'
  BY <1>1, <1>4 DEF Requests!AbortIsDue, Requests!client, Requests!Serves, Requests!loop,
    Requests!Queued
<1>12. Requests!CompanionsMatch'
  BY <1>1, <1>2, <1>4 DEF Requests!CompanionsMatch, Requests!AtModel, Requests!PutOutBy,
    Requests!Serves, Requests!loop
<1> QED BY <1>5, <1>6, <1>7, <1>8, <1>9, <1>10, <1>11, <1>12

LEMMA ForgetAbortedKeeps ==
  ASSUME Requests!OrchestratorAssumption, Requests!OrchestratorInvariant, Requests!ForgetAborted
  PROVE  Requests!OrchestratorInvariant'
<1> USE DEF Requests!OrchestratorInvariant
<1>1. /\ handler # Requests!Nothing /\ handler' = Requests!Nothing
      /\ request_states' = request_states \ handler[2]
      /\ UNCHANGED <<Requests!client, request_queue, output_queue, thread, async_chunk,
           Requests!loop, Requests!stages>>
  BY DEF Requests!ForgetAborted
<1>2. Requests!Aborting = handler[2] /\ Requests!Aborting' = {}
  BY <1>1 DEF Requests!Aborting
<1>5. Requests!TypeOK'
  BY <1>1 DEF Requests!TypeOK, Requests!client, Requests!loop, Requests!stages
<1>6. Requests!MessagesMatch' /\ Requests!AbortIsLast'
  BY <1>1 DEF Requests!MessagesMatch, Requests!AbortIsLast, Requests!Queued, Requests!client
<1>7. Requests!NothingEarly'
  BY <1>1 DEF Requests!NothingEarly, Requests!Unknown, Requests!UnknownCompanion, Requests!loop,
    Requests!client, Requests!Queued
<1>8. Requests!SubmittedOnce' /\ Requests!DoneIsProduced' /\ Requests!GuidanceReady' /\
        Requests!PendingMatches'
  BY <1>1
     DEF Requests!SubmittedOnce, Requests!DoneIsProduced, Requests!GuidanceReady,
       Requests!PendingMatches, Requests!CompanionsTracked, Requests!loop, Requests!stages
<1>9. Requests!DiffusionMatches' /\ Requests!AnswersMatch'
  BY <1>1 DEF Requests!DiffusionMatches, Requests!InDiffusion, Requests!AnswersMatch,
    Requests!loop, Requests!stages
<1>10. Requests!CallersMatch'
  BY <1>1 DEF Requests!CallersMatch, Requests!AnswerQueued, Requests!client, Requests!Serves,
    Requests!loop
<1>11. Requests!AbortIsDue'
  BY <1>1, <1>2 DEF Requests!AbortIsDue, Requests!client, Requests!Serves, Requests!loop,
    Requests!Queued
<1>12. Requests!CompanionsMatch'
  BY <1>1, <1>2 DEF Requests!CompanionsMatch, Requests!AtModel, Requests!PutOutBy,
    Requests!Serves, Requests!loop, Requests!stages
<1> QED BY <1>5, <1>6, <1>7, <1>8, <1>9, <1>10, <1>11, <1>12

LEMMA HandleShutdownKeeps ==
  ASSUME Requests!OrchestratorAssumption, Requests!OrchestratorInvariant, Requests!HandleShutdown
  PROVE  Requests!OrchestratorInvariant'
<1> USE DEF Requests!OrchestratorInvariant
<1>1. /\ Requests!HandlerRuns /\ request_queue' = Tail(request_queue)
      /\ thread' \in {"dying", "stopping"}
      /\ UNCHANGED <<Requests!client, output_queue, async_chunk, handler, request_states,
           Requests!loop, Requests!stages>>
  BY DEF Requests!HandleShutdown, Requests!HandlerRuns
<1>2. /\ request_queue' \in Seq(Requests!Requested) /\ Requests!MessagesMatch' /\
           Requests!AbortIsLast'
      /\ \A x : Requests!Queued(x)' => Requests!Queued(x)
  BY <1>1, TakenKeeps DEF Requests!client
<1>3. ~Requests!Serves'
  BY <1>1 DEF Requests!Serves
<1>4. UNCHANGED <<handler, request_states, Requests!loop, Requests!stages>>
  BY <1>1
<1>5. Requests!TypeOK'
  BY <1>1, <1>2 DEF Requests!TypeOK, Requests!client, Requests!loop, Requests!stages
<1>6. Requests!NothingEarly'
  BY <1>1, <1>2 DEF Requests!NothingEarly, Requests!Unknown, Requests!UnknownCompanion,
    Requests!loop, Requests!client
<1>7. Requests!CallersMatch'
  BY <1>1, <1>3 DEF Requests!CallersMatch, Requests!AnswerQueued, Requests!client, Requests!loop
<1>8. Requests!AbortIsDue'
  BY <1>3 DEF Requests!AbortIsDue
<1> QED BY <1>2, <1>3, <1>4, <1>5, <1>6, <1>7, <1>8, CallersKeep

-------------------------------------------------------------------------------
(* The stages.                                                             *)

LEMMA StageOutputTaken ==
  ASSUME Requests!TypeOK, NEW s \in Requests!Stage, stage_outputs[s] # <<>>,
         Requests!TakeOutput(s)
  PROVE  /\ stage_outputs' \in [Requests!Stage -> Seq({"kv", "finished", "error"} \X Requests!Id)]
         /\ stage_outputs'[1] \in Seq({"finished", "error"} \X Parent)
         /\ \A r \in Requests!Stage \ {s} : stage_outputs'[r] = stage_outputs[r]
         /\ 1 \in DOMAIN stage_outputs[s] /\ stage_outputs[s][1] = Requests!Polled(s)
         /\ \A k \in DOMAIN stage_outputs'[s] :
              /\ k \in Nat \ {0} /\ k + 1 \in DOMAIN stage_outputs[s]
              /\ stage_outputs'[s][k] = stage_outputs[s][k + 1]
         /\ \A m : Requests!PutOutBy(s, m) => m = Requests!Polled(s) \/ Requests!PutOutBy(s, m)'
<1>1. /\ stage_outputs \in [Requests!Stage -> Seq({"kv", "finished", "error"} \X Requests!Id)]
      /\ stage_outputs[1] \in Seq({"finished", "error"} \X Parent) /\ 1 \in Requests!Stage
  BY DEF Requests!TypeOK, Requests!Stage
<1>2. PICK q : q = stage_outputs[s]
  OBVIOUS
<1>3. q \in Seq({"kv", "finished", "error"} \X Requests!Id) /\ q # <<>>
  BY <1>1, <1>2
<1>4. /\ Tail(q) \in Seq({"kv", "finished", "error"} \X Requests!Id)
      /\ Len(q) \in Nat \ {0} /\ Len(Tail(q)) = Len(q) - 1 /\ Head(q) = q[1]
      /\ DOMAIN q = 1 .. Len(q) /\ DOMAIN Tail(q) = 1 .. Len(q) - 1
      /\ \A k \in 1 .. Len(Tail(q)) : Tail(q)[k] = q[k + 1]
  BY <1>3, HeadTailProperties, LenProperties, EmptySeq
<1>5. stage_outputs' = [stage_outputs EXCEPT ![s] = Tail(q)]
  BY <1>2 DEF Requests!TakeOutput
<1>6. /\ stage_outputs'[s] = Tail(q) /\ \A r \in Requests!Stage \ {s} :
           stage_outputs'[r] = stage_outputs[r]
      /\ stage_outputs' \in [Requests!Stage -> Seq({"kv", "finished", "error"} \X Requests!Id)]
  BY <1>1, <1>4, <1>5
<1>7. stage_outputs'[1] \in Seq({"finished", "error"} \X Parent)
  <2>1. CASE s = 1
    <3>1. q \in Seq({"finished", "error"} \X Parent)
      BY <1>1, <1>2, <2>1
    <3>2. Tail(q) \in Seq({"finished", "error"} \X Parent)
      BY <1>3, <3>1, HeadTailProperties
    <3> QED BY <1>6, <2>1, <3>2
  <2>2. CASE s # 1
    BY <1>1, <1>6, <2>2
  <2> QED BY <2>1, <2>2
<1>8. \A k \in DOMAIN Tail(q) : k \in Nat \ {0} /\ k + 1 \in DOMAIN q /\ Tail(q)[k] = q[k + 1]
  BY <1>4
<1>9. ASSUME NEW m, Requests!PutOutBy(s, m), m # Requests!Polled(s) PROVE Requests!PutOutBy(s, m)'
  <2>1. PICK k \in DOMAIN q : q[k] = m
    BY <1>2, <1>9 DEF Requests!PutOutBy
  <2>2. k # 1
    BY <1>2, <1>4, <1>9, <2>1 DEF Requests!Polled
  <2>3. k - 1 \in DOMAIN Tail(q) /\ (k - 1) + 1 = k
    BY <1>4, <2>1, <2>2
  <2>4. Tail(q)[k - 1] = m
    BY <1>8, <2>1, <2>3
  <2> QED BY <1>6, <2>3, <2>4 DEF Requests!PutOutBy
<1>10. 1 \in DOMAIN q
  BY <1>4
<1> QED BY <1>2, <1>4, <1>6, <1>7, <1>8, <1>9, <1>10 DEF Requests!Polled

LEMMA StageOutputPut ==
  ASSUME Requests!TypeOK, NEW s \in Requests!Stage, NEW what \in {"kv", "finished", "error"},
         NEW id \in Requests!Id,
         s = 1 => what \in {"finished", "error"} /\ id \in Parent,
         Requests!PutOut(s, what, id)
  PROVE  /\ stage_outputs' \in [Requests!Stage -> Seq({"kv", "finished", "error"} \X Requests!Id)]
         /\ stage_outputs'[1] \in Seq({"finished", "error"} \X Parent)
         /\ \A r \in Requests!Stage \ {s} : stage_outputs'[r] = stage_outputs[r]
         /\ Len(stage_outputs[s]) \in Nat
         /\ DOMAIN stage_outputs[s] = 1 .. Len(stage_outputs[s])
         /\ \A k \in DOMAIN stage_outputs'[s] :
              \/ k = Len(stage_outputs[s]) + 1 /\ stage_outputs'[s][k] = <<what, id>>
              \/ k \in DOMAIN stage_outputs[s] /\ stage_outputs'[s][k] = stage_outputs[s][k]
         /\ \A m : Requests!PutOutBy(s, m)' <=> Requests!PutOutBy(s, m) \/ m = <<what, id>>
<1>1. /\ stage_outputs \in [Requests!Stage -> Seq({"kv", "finished", "error"} \X Requests!Id)]
      /\ stage_outputs[1] \in Seq({"finished", "error"} \X Parent) /\ 1 \in Requests!Stage
  BY DEF Requests!TypeOK, Requests!Stage
<1>2. PICK q : q = stage_outputs[s]
  OBVIOUS
<1>3. PICK m : m = <<what, id>>
  OBVIOUS
<1>4. q \in Seq({"kv", "finished", "error"} \X Requests!Id) /\ m \in {"kv", "finished",
        "error"} \X Requests!Id
  BY <1>1, <1>2, <1>3
<1>5. /\ Append(q, m) \in Seq({"kv", "finished", "error"} \X Requests!Id)
      /\ Len(q) \in Nat /\ Len(Append(q, m)) = Len(q) + 1
      /\ DOMAIN q = 1 .. Len(q) /\ DOMAIN Append(q, m) = 1 .. Len(q) + 1
      /\ Append(q, m)[Len(q) + 1] = m
      /\ \A k \in 1 .. Len(q) : Append(q, m)[k] = q[k]
  BY <1>4, AppendProperties, LenProperties
<1>6. stage_outputs' = [stage_outputs EXCEPT ![s] = Append(q, m)]
  BY <1>2, <1>3 DEF Requests!PutOut
<1>7. /\ stage_outputs'[s] = Append(q, m)
      /\ \A r \in Requests!Stage \ {s} : stage_outputs'[r] = stage_outputs[r]
      /\ stage_outputs' \in [Requests!Stage -> Seq({"kv", "finished", "error"} \X Requests!Id)]
  BY <1>1, <1>5, <1>6
<1>8. stage_outputs'[1] \in Seq({"finished", "error"} \X Parent)
  <2>1. CASE s = 1
    <3>1. q \in Seq({"finished", "error"} \X Parent) /\ m \in {"finished", "error"} \X Parent
      BY <1>1, <1>2, <1>3, <2>1
    <3>2. Append(q, m) \in Seq({"finished", "error"} \X Parent)
      BY <3>1, AppendProperties
    <3> QED BY <1>7, <2>1, <3>2
  <2>2. CASE s # 1
    BY <1>1, <1>7, <2>2
  <2> QED BY <2>1, <2>2
<1>9. \A k \in DOMAIN Append(q, m) :
        \/ k = Len(q) + 1 /\ Append(q, m)[k] = m
        \/ k \in DOMAIN q /\ Append(q, m)[k] = q[k]
  BY <1>5
<1>10. \A x : Requests!PutOutBy(s, x)' <=> Requests!PutOutBy(s, x) \/ x = m
  <2>1. ASSUME NEW x, Requests!PutOutBy(s, x) \/ x = m
               PROVE \E k \in DOMAIN Append(q, m) : Append(q, m)[k] = x
    <3>1. CASE x = m
      <4>1. Len(q) + 1 \in DOMAIN Append(q, m)
        BY <1>5
      <4> QED BY <1>5, <3>1, <4>1
    <3>2. CASE Requests!PutOutBy(s, x)
      <4>1. PICK k \in DOMAIN q : q[k] = x
        BY <1>2, <3>2 DEF Requests!PutOutBy
      <4>2. k \in 1 .. Len(q) /\ k \in DOMAIN Append(q, m)
        BY <1>5
      <4> QED BY <1>5, <4>1, <4>2
    <3> QED BY <2>1, <3>1, <3>2
  <2>2. \A x : (\E k \in DOMAIN Append(q, m) : Append(q, m)[k] = x) =>
          Requests!PutOutBy(s, x) \/ x = m
    BY <1>2, <1>9 DEF Requests!PutOutBy
  <2>3. \A x : Requests!PutOutBy(s, x)' <=> \E k \in DOMAIN Append(q, m) : Append(q, m)[k] = x
    BY <1>7 DEF Requests!PutOutBy
  <2> QED BY <2>1, <2>2, <2>3
<1> QED BY <1>2, <1>3, <1>5, <1>7, <1>8, <1>9, <1>10

LEMMA ModelKeeps ==
  ASSUME Requests!OrchestratorAssumption, Requests!OrchestratorInvariant, NEW id \in Requests!Id,
         Requests!ModelReady(id) \/ Requests!ModelFinishes(id)
  PROVE  Requests!OrchestratorInvariant'
<1> USE DEF Requests!OrchestratorInvariant
<1>1. PICK what \in {"kv", "finished"} :
        /\ Requests!PutOut(0, what, id) /\ produced' = produced \cup {id}
        /\ \/ running' = running
           \/ what = "finished" /\ running' = [running EXCEPT ![0] = running[0] \ {id}]
        /\ UNCHANGED <<Requests!client, request_queue, output_queue, thread, async_chunk, handler,
                       request_states, Requests!loop, submissions, engine_dead>>
  BY DEF Requests!ModelReady, Requests!ModelFinishes
<1>2. /\ stage_outputs' \in [Requests!Stage -> Seq({"kv", "finished", "error"} \X Requests!Id)]
      /\ stage_outputs'[1] \in Seq({"finished", "error"} \X Parent)
      /\ stage_outputs'[1] = stage_outputs[1]
      /\ \A k \in DOMAIN stage_outputs'[0] :
           \/ stage_outputs'[0][k] = <<what, id>>
           \/ k \in DOMAIN stage_outputs[0] /\ stage_outputs'[0][k] = stage_outputs[0][k]
      /\ \A m : Requests!PutOutBy(0, m)' <=> Requests!PutOutBy(0, m) \/ m = <<what, id>>
  <2>1. 0 \in Requests!Stage /\ 1 \in Requests!Stage \ {0}
    BY DEF Requests!Stage
  <2> QED BY <1>1, <2>1, StageOutputPut
<1>3. /\ running' \in [Requests!Stage -> SUBSET Requests!Id] /\ running'[1] = running[1]
      /\ \A c : c \in running[0] => c \in running'[0] \/ (c = id /\ what = "finished")
  <2>1. running \in [Requests!Stage -> SUBSET Requests!Id] /\ 0 \in Requests!Stage /\
          1 \in Requests!Stage
    BY DEF Requests!TypeOK, Requests!Stage
  <2> QED BY <1>1, <2>1
<1>4. \A c : Requests!AtModel(c) => Requests!AtModel(c)'
  BY <1>2, <1>3 DEF Requests!AtModel
<1>5. Requests!TypeOK'
  BY <1>1, <1>2, <1>3 DEF Requests!TypeOK, Requests!client, Requests!loop
<1>6. Requests!MessagesMatch' /\ Requests!AbortIsLast'
  BY <1>1 DEF Requests!MessagesMatch, Requests!AbortIsLast, Requests!Queued, Requests!client
<1>7. Requests!NothingEarly'
  BY <1>1 DEF Requests!NothingEarly, Requests!Unknown, Requests!UnknownCompanion, Requests!loop,
    Requests!client, Requests!Queued
<1>8. Requests!SubmittedOnce' /\ Requests!GuidanceReady' /\ Requests!PendingMatches'
  BY <1>1 DEF Requests!SubmittedOnce, Requests!GuidanceReady, Requests!PendingMatches,
    Requests!CompanionsTracked, Requests!loop
<1>9. Requests!DoneIsProduced'
  <2>1. <<what, id>>[2] = id
    OBVIOUS
  <2> QED BY <1>1, <1>2, <2>1 DEF Requests!DoneIsProduced, Requests!loop
<1>10. Requests!DiffusionMatches' /\ Requests!AnswersMatch'
  BY <1>1, <1>2, <1>3 DEF Requests!DiffusionMatches, Requests!InDiffusion, Requests!AnswersMatch,
    Requests!loop
<1>11. Requests!CallersMatch'
  BY <1>1 DEF Requests!CallersMatch, Requests!AnswerQueued, Requests!client, Requests!Serves,
    Requests!loop
<1>12. Requests!AbortIsDue'
  BY <1>1 DEF Requests!AbortIsDue, Requests!client, Requests!Serves, Requests!loop,
    Requests!Queued, Requests!Aborting
<1>13. Requests!CompanionsMatch'
  BY <1>1, <1>4 DEF Requests!CompanionsMatch, Requests!Serves, Requests!loop, Requests!Aborting
<1> QED BY <1>5, <1>6, <1>7, <1>8, <1>9, <1>10, <1>11, <1>12, <1>13

LEMMA DiffusionEndsKeeps ==
  ASSUME Requests!OrchestratorAssumption, Requests!OrchestratorInvariant, NEW p \in Parent,
         NEW what \in {"finished", "error"}, Requests!DiffusionEnds(p, what)
  PROVE  Requests!OrchestratorInvariant'
<1> USE DEF Requests!OrchestratorInvariant
<1>1. /\ p \in running[1] /\ Requests!PutOut(1, what, p)
      /\ running' = [running EXCEPT ![1] = running[1] \ {p}]
      /\ UNCHANGED <<Requests!client, request_queue, output_queue, thread, async_chunk, handler,
                     request_states, Requests!loop, produced, submissions, engine_dead>>
  BY DEF Requests!DiffusionEnds
<1>2. /\ stage_outputs' \in [Requests!Stage -> Seq({"kv", "finished", "error"} \X Requests!Id)]
      /\ stage_outputs'[1] \in Seq({"finished", "error"} \X Parent)
      /\ stage_outputs'[0] = stage_outputs[0]
      /\ Len(stage_outputs[1]) \in Nat
      /\ DOMAIN stage_outputs[1] = 1 .. Len(stage_outputs[1])
      /\ \A k \in DOMAIN stage_outputs'[1] :
           \/ k = Len(stage_outputs[1]) + 1 /\ stage_outputs'[1][k] = <<what, p>>
           \/ k \in DOMAIN stage_outputs[1] /\ stage_outputs'[1][k] = stage_outputs[1][k]
  <2>1. 1 \in Requests!Stage /\ 0 \in Requests!Stage \ {1} /\ p \in Requests!Id /\
          what \in {"kv", "finished", "error"}
    BY DEF Requests!Stage, Requests!Id
  <2> QED BY <1>1, <2>1, StageOutputPut
<1>3. /\ running' \in [Requests!Stage -> SUBSET Requests!Id] /\ running'[1] = running[1] \ {p}
      /\ running'[0] = running[0]
  <2>1. running \in [Requests!Stage -> SUBSET Requests!Id] /\ 0 \in Requests!Stage /\
          1 \in Requests!Stage
    BY DEF Requests!TypeOK, Requests!Stage
  <2> QED BY <1>1, <2>1
<1>4. p \in forwarded /\ answers[p] = 0 /\ ~Requests!InDiffusion(p)
  BY <1>1 DEF Requests!DiffusionMatches
<1>5. Requests!TypeOK'
  BY <1>1, <1>2, <1>3 DEF Requests!TypeOK, Requests!client, Requests!loop
<1>6. Requests!MessagesMatch' /\ Requests!AbortIsLast'
  BY <1>1 DEF Requests!MessagesMatch, Requests!AbortIsLast, Requests!Queued, Requests!client
<1>7. Requests!NothingEarly'
  BY <1>1 DEF Requests!NothingEarly, Requests!Unknown, Requests!UnknownCompanion, Requests!loop,
    Requests!client, Requests!Queued
<1>8. Requests!SubmittedOnce' /\ Requests!GuidanceReady' /\ Requests!PendingMatches' /\
        Requests!DoneIsProduced'
  BY <1>1, <1>2
     DEF Requests!SubmittedOnce, Requests!GuidanceReady, Requests!PendingMatches,
       Requests!CompanionsTracked, Requests!loop, Requests!DoneIsProduced
<1>9. Requests!DiffusionMatches'
  <2>0. <<what, p>>[2] = p
    OBVIOUS
  <2>1. \A k \in DOMAIN stage_outputs'[1] :
          \/ k = Len(stage_outputs[1]) + 1 /\ stage_outputs'[1][k][2] = p
          \/ /\ k \in DOMAIN stage_outputs[1] /\ stage_outputs'[1][k][2] = stage_outputs[1][k][2]
             /\ stage_outputs[1][k][2] # p
    BY <1>2, <1>4, <2>0 DEF Requests!InDiffusion
  <2>2. \A q : Requests!InDiffusion(q)' => Requests!InDiffusion(q) \/ q = p
    BY <2>1 DEF Requests!InDiffusion
  <2>3. \A i, j \in DOMAIN stage_outputs'[1] :
          stage_outputs'[1][i][2] = stage_outputs'[1][j][2] => i = j
    BY <2>1 DEF Requests!DiffusionMatches
  <2> QED BY <1>1, <1>3, <1>4, <2>2, <2>3 DEF Requests!DiffusionMatches, Requests!loop
<1>10. Requests!AnswersMatch'
  BY <1>1 DEF Requests!AnswersMatch, Requests!loop
<1>11. Requests!CallersMatch'
  BY <1>1 DEF Requests!CallersMatch, Requests!AnswerQueued, Requests!client, Requests!Serves,
    Requests!loop
<1>12. Requests!AbortIsDue'
  BY <1>1 DEF Requests!AbortIsDue, Requests!client, Requests!Serves, Requests!loop,
    Requests!Queued, Requests!Aborting
<1>13. Requests!CompanionsMatch'
  BY <1>1, <1>2, <1>3 DEF Requests!CompanionsMatch, Requests!Serves, Requests!loop,
    Requests!Aborting, Requests!AtModel, Requests!PutOutBy
<1> QED BY <1>5, <1>6, <1>7, <1>8, <1>9, <1>10, <1>11, <1>12, <1>13

(* What they do not look at may change.                                    *)
LEMMA QuietKeeps ==
  ASSUME Requests!OrchestratorInvariant,
         UNCHANGED <<Requests!client, request_queue, output_queue, thread, async_chunk, handler,
                     request_states, Requests!loop, running, stage_outputs, produced,
                       submissions>>
  PROVE  Requests!OrchestratorInvariant'
<1> USE DEF Requests!OrchestratorInvariant
<1>1. Requests!TypeOK'
  BY DEF Requests!TypeOK, Requests!client, Requests!loop
<1>2. Requests!MessagesMatch' /\ Requests!AbortIsLast'
  BY DEF Requests!MessagesMatch, Requests!AbortIsLast, Requests!Queued, Requests!client
<1>3. Requests!NothingEarly'
  BY DEF Requests!NothingEarly, Requests!Unknown, Requests!UnknownCompanion, Requests!loop,
    Requests!client, Requests!Queued
<1>4. Requests!SubmittedOnce' /\ Requests!GuidanceReady' /\ Requests!PendingMatches' /\
        Requests!DoneIsProduced'
  BY DEF Requests!SubmittedOnce, Requests!GuidanceReady, Requests!PendingMatches,
    Requests!CompanionsTracked, Requests!loop, Requests!DoneIsProduced
<1>5. Requests!DiffusionMatches' /\ Requests!AnswersMatch'
  BY DEF Requests!DiffusionMatches, Requests!InDiffusion, Requests!AnswersMatch, Requests!loop
<1>6. Requests!CallersMatch'
  BY DEF Requests!CallersMatch, Requests!AnswerQueued, Requests!client, Requests!Serves,
    Requests!loop
<1>7. Requests!AbortIsDue'
  BY DEF Requests!AbortIsDue, Requests!client, Requests!Serves, Requests!loop, Requests!Queued,
    Requests!Aborting
<1>8. Requests!CompanionsMatch'
  BY DEF Requests!CompanionsMatch, Requests!Serves, Requests!loop, Requests!Aborting,
    Requests!AtModel, Requests!PutOutBy
<1> QED BY <1>1, <1>2, <1>3, <1>4, <1>5, <1>6, <1>7, <1>8

-------------------------------------------------------------------------------
(* The output loop.                                                        *)

(* What a step of the loop leaves alone, and what it polled.               *)
LoopStep ==
  /\ UNCHANGED <<Requests!client, request_queue, async_chunk, handler, produced>>
  /\ stage_outputs' \in [Requests!Stage -> Seq({"kv", "finished", "error"} \X Requests!Id)]
  /\ stage_outputs'[1] = stage_outputs[1]
  /\ \A k \in DOMAIN stage_outputs'[0] : stage_outputs'[0][k][2] \in produced

(* A tracker and states that the loop may go on with.                      *)
StillAtModel(c) == c \in running[0] \/ Requests!PutOutBy(0, <<"finished", c>>)'
TrackerFits(t) ==
  /\ t \in [companions : SUBSET Requests!Companions, done : SUBSET Requests!Companions, pending :
       SUBSET Parent]
  /\ t.companions \subseteq tracker.companions /\ t.done \subseteq produced
  /\ \A q \in t.pending : Requests!CompanionsTracked(t, q) \ t.done # {}
StatesFit(t, known) ==
  /\ known \subseteq request_states
  /\ Requests!Serves => \A c \in Requests!Companions :
       /\ c \in t.companions => c \notin Requests!Aborting /\ routing' # <<c>>
       /\ c \in t.companions \ t.done => c \in known /\ StillAtModel(c)
       /\ c \in known => StillAtModel(c) \/ routing' = <<c>> \/ c \in Requests!Aborting

(* A parent that has still to be forwarded.                                *)
ToForward(p) == p \notin forwarded /\ answers[p] = 0 /\ ~Requests!Unknown(p)

(* All but what is put out.                                                *)
LEMMA LoopKeeps ==
  ASSUME Requests!OrchestratorAssumption, Requests!OrchestratorInvariant, thread' = thread,
         UNCHANGED <<Requests!client, request_queue, async_chunk, handler, produced>>,
         \A k \in DOMAIN stage_outputs'[0] : stage_outputs'[0][k][2] \in produced,
         TrackerFits(tracker'), StatesFit(tracker', request_states'), running'[0] = running[0],
         Requests!TypeOK', Requests!NothingEarly', Requests!SubmittedOnce',
           Requests!GuidanceReady', Requests!DiffusionMatches', Requests!AnswersMatch',
         Requests!CallersMatch'
  PROVE  Requests!OrchestratorInvariant'
<1> USE DEF Requests!OrchestratorInvariant
<1>1. Requests!MessagesMatch' /\ Requests!AbortIsLast'
  BY DEF Requests!MessagesMatch, Requests!AbortIsLast, Requests!Queued, Requests!client
<1>2. Requests!DoneIsProduced'
  BY DEF Requests!DoneIsProduced, TrackerFits
<1>3. Requests!PendingMatches'
  <2>1. \A q \in tracker'.pending : Requests!CompanionsTracked(tracker', q) \ tracker'.done # {}
    BY DEF TrackerFits
  <2> QED BY <2>1 DEF Requests!PendingMatches, Requests!CompanionsTracked
<1>4. Requests!AbortIsDue'
  BY DEF Requests!AbortIsDue, Requests!Serves, Requests!Queued, Requests!client,
    Requests!Aborting, TrackerFits, StatesFit
<1>5. Requests!CompanionsMatch'
  <2>1. Requests!Aborting' = Requests!Aborting /\ (Requests!Serves' => Requests!Serves)
    BY DEF Requests!Aborting, Requests!Serves
  <2>2. \A c : StillAtModel(c) => Requests!AtModel(c)'
    BY DEF StillAtModel, Requests!AtModel
  <2> QED BY <2>1, <2>2 DEF Requests!CompanionsMatch, StatesFit
<1> QED BY <1>1, <1>2, <1>3, <1>4, <1>5

(* What is routed next is known and not answered.                          *)
RoutingFits == routing' = Requests!Nothing \/ \E id \in request_states : routing' = <<id>>

LEMMA RoutingKeeps ==
  ASSUME Requests!OrchestratorAssumption, Requests!OrchestratorInvariant, RoutingFits
  PROVE  /\ routing' \in {Requests!Nothing} \cup {<<id>> : id \in Requests!Id}
         /\ \A p \in Parent : Requests!Unknown(p) => routing' # <<p>>
         /\ \A p \in Parent : \A c \in CompanionsOf[p] : Requests!UnknownCompanion(p, c) =>
              routing' # <<c>>
         /\ \A p \in Parent : routing' = <<p>> => answers[p] = 0
<1> USE DEF Requests!OrchestratorInvariant
<1>1. CASE routing' = Requests!Nothing
  <2>1. \A p : Requests!Nothing # <<p>>
    BY Lengths DEF Requests!Nothing
  <2> QED BY <1>1, <2>1
<1>2. CASE \E id \in request_states : routing' = <<id>>
  <2>1. PICK id \in request_states : routing' = <<id>>
    BY <1>2
  <2>2. \A x : routing' = <<x>> => x \in request_states
    BY <2>1
  <2>3. \A p \in Parent : answers[p] \in Nat
    BY DEF Requests!TypeOK
  <2>4. \A p \in Parent : p \in request_states => answers[p] = 0
    BY <2>3 DEF Requests!AnswersMatch
  <2> QED BY <2>1, <2>2, <2>4 DEF Requests!NothingEarly, Requests!TypeOK
<1> QED BY <1>1, <1>2 DEF RoutingFits

LEMMA UntouchedKeeps ==
  ASSUME Requests!OrchestratorAssumption, Requests!OrchestratorInvariant, LoopStep, RoutingFits,
         TrackerFits(tracker'), StatesFit(tracker', request_states'), Requests!Untouched
  PROVE  Requests!OrchestratorInvariant'
<1> USE DEF Requests!OrchestratorInvariant, Requests!Untouched, LoopStep
<1>1. /\ routing' \in {Requests!Nothing} \cup {<<id>> : id \in Requests!Id}
      /\ \A p \in Parent : Requests!Unknown(p) => routing' # <<p>>
      /\ \A p \in Parent : \A c \in CompanionsOf[p] : Requests!UnknownCompanion(p, c) =>
           routing' # <<c>>
      /\ \A p \in Parent : routing' = <<p>> => answers[p] = 0
  BY RoutingKeeps
<1>2. Requests!TypeOK'
  BY <1>1 DEF Requests!TypeOK, Requests!client, TrackerFits, StatesFit
<1>3. Requests!NothingEarly'
  <2>1. \A q \in Parent : Requests!Unknown(q)' => Requests!Unknown(q)
    BY DEF Requests!Unknown, Requests!client, Requests!Queued
  <2>2. \A q \in Parent : \A c : Requests!UnknownCompanion(q, c)' =>
          Requests!UnknownCompanion(q, c)
    BY DEF Requests!UnknownCompanion, Requests!client, Requests!Queued
  <2> QED BY <1>1, <2>1, <2>2 DEF Requests!NothingEarly, TrackerFits, StatesFit
<1>4. Requests!SubmittedOnce' /\ Requests!GuidanceReady'
  BY DEF Requests!SubmittedOnce, Requests!GuidanceReady
<1>5. Requests!DiffusionMatches'
  BY DEF Requests!DiffusionMatches, Requests!InDiffusion
<1>6. Requests!AnswersMatch'
  BY <1>1 DEF Requests!AnswersMatch, StatesFit
<1>7. Requests!CallersMatch'
  BY DEF Requests!CallersMatch, Requests!AnswerQueued, Requests!client, Requests!Serves,
    TrackerFits
<1> QED BY <1>2, <1>3, <1>4, <1>5, <1>6, <1>7, LoopKeeps

(* An answer is put out and its request forgotten.                         *)
LEMMA PutOutputKeeps ==
  ASSUME Requests!OrchestratorAssumption, Requests!OrchestratorInvariant, NEW p \in Parent,
         NEW what \in {"finished", "error"}, Requests!PutOutput(p, what),
         answers[p] = 0, ~Requests!Unknown(p), p \notin running[1], p \notin request_states',
         request_states' \subseteq request_states,
         tracker'.companions \subseteq tracker.companions,
         \A c \in tracker'.companions \cap CompanionsOf[p] : what = "error",
         what = "finished" => p \in forwarded, routing' = <<p>> => p \in forwarded,
         ~Requests!InDiffusion(p)', RoutingFits, UNCHANGED <<running, forwarded, attached,
           submissions, thread>>,
         stage_outputs' \in [Requests!Stage -> Seq({"kv", "finished", "error"} \X Requests!Id)],
         stage_outputs'[1] \in Seq({"finished", "error"} \X Parent),
         \A q : Requests!InDiffusion(q)' => Requests!InDiffusion(q),
         \A i, j \in DOMAIN stage_outputs'[1] :
           stage_outputs'[1][i][2] = stage_outputs'[1][j][2] => i = j,
         TrackerFits(tracker'), UNCHANGED <<Requests!client, request_queue, async_chunk, handler,
           produced>>
  PROVE  /\ Requests!TypeOK' /\ Requests!NothingEarly' /\ Requests!SubmittedOnce' /\
            Requests!GuidanceReady' /\ Requests!DiffusionMatches'
         /\ Requests!AnswersMatch' /\ Requests!CallersMatch'
<1> USE DEF Requests!OrchestratorInvariant
<1>1. /\ output_queue' = Append(output_queue, <<what, p>>)
      /\ answers' = [answers EXCEPT ![p] = answers[p] + 1]
  BY DEF Requests!PutOutput
<1>2. /\ answers' \in [Parent -> Nat] /\ answers'[p] = 1
      /\ \A q \in Parent \ {p} : answers'[q] = answers[q]
  <2>1. answers \in [Parent -> Nat] /\ answers[p] = 0
    BY DEF Requests!TypeOK
  <2> QED BY <1>1, <2>1
<1>3. /\ output_queue' \in Seq(Requests!Told)
      /\ \A k \in DOMAIN output_queue' : output_queue'[k] = <<"fatal">> =>
           \E l \in DOMAIN output_queue : output_queue[l] = <<"fatal">>
      /\ \A q, x : Requests!AnswerQueued(q, x)' =>
           Requests!AnswerQueued(q, x) \/ (q = p /\ x = what)
  <2>1. <<what, p>> \in Requests!Told /\ <<what, p>> # <<"fatal">>
    BY Lengths DEF Requests!Told
  <2>2. /\ output_queue' \in Seq(Requests!Told)
        /\ \A k \in DOMAIN output_queue' :
             \/ output_queue'[k] = <<what, p>>
             \/ \E l \in DOMAIN output_queue : output_queue'[k] = output_queue[l]
        /\ \A q, x : Requests!AnswerQueued(q, x)' =>
             Requests!AnswerQueued(q, x) \/ <<x, q>> = <<what, p>>
    BY <1>1, <2>1, AnswerPut
  <2> QED BY <2>1, <2>2
<1>4. /\ routing' \in {Requests!Nothing} \cup {<<id>> : id \in Requests!Id}
      /\ \A q \in Parent : Requests!Unknown(q) => routing' # <<q>>
      /\ \A q \in Parent : \A c \in CompanionsOf[q] : Requests!UnknownCompanion(q, c) =>
           routing' # <<c>>
      /\ \A q \in Parent : routing' = <<q>> => answers[q] = 0
  BY RoutingKeeps
<1>5. Requests!TypeOK'
  BY <1>2, <1>3, <1>4 DEF Requests!TypeOK, Requests!client, TrackerFits
<1>6. Requests!NothingEarly'
  <2>1. \A q \in Parent : Requests!Unknown(q)' => Requests!Unknown(q) /\ q # p
    BY DEF Requests!Unknown, Requests!client, Requests!Queued
  <2>2. \A q \in Parent : \A c : Requests!UnknownCompanion(q, c)' =>
          Requests!UnknownCompanion(q, c)
    BY DEF Requests!UnknownCompanion, Requests!client, Requests!Queued
  <2> QED BY <1>2, <1>4, <2>1, <2>2 DEF Requests!NothingEarly
<1>7. Requests!SubmittedOnce' /\ Requests!GuidanceReady'
  BY DEF Requests!SubmittedOnce, Requests!GuidanceReady
<1>8. Requests!DiffusionMatches'
  <2>1. \A q \in Parent : q \in running[1] \/ Requests!InDiffusion(q)' =>
          q \in forwarded /\ answers'[q] = 0
    BY <1>2 DEF Requests!DiffusionMatches
  <2> QED BY <2>1 DEF Requests!DiffusionMatches
<1>9. Requests!AnswersMatch'
  BY <1>2, <1>4 DEF Requests!AnswersMatch
<1>10. Requests!CallersMatch'
  <2>1. \A k \in DOMAIN output_queue' : output_queue'[k] = <<"fatal">> => ~Requests!Serves
    BY <1>3 DEF Requests!CallersMatch
  <2> SUFFICES ASSUME NEW q \in Parent
               PROVE  /\ \A x \in {"finished", "error"} :
                           Requests!AnswerQueued(q, x)' \/ inbox[q] = x => answers'[q] = 1
                      /\ inbox[q] = "fatal" => ~Requests!Serves
                      /\ generate[q] = "returned" => inbox[q] = "finished"
                      /\ generate[q] = "raised" => inbox[q] \in {"error", "fatal"}
                      /\ Requests!AnswerQueued(q, "finished")' \/ inbox[q] = "finished" =>
                           q \in forwarded /\ attached[q] \cap tracker'.companions = {}
    BY <2>1 DEF Requests!CallersMatch, Requests!client, Requests!Serves
  <2>2. CASE q = p
    <3>1. \A x \in {"finished", "error"} : ~Requests!AnswerQueued(p, x) /\ inbox[p] # x
      BY DEF Requests!CallersMatch
    <3>2. attached[p] \subseteq CompanionsOf[p]
      BY DEF Requests!NothingEarly
    <3> QED BY <1>2, <1>3, <2>2, <3>1, <3>2 DEF Requests!CallersMatch
  <2>3. CASE q # p
    BY <1>2, <1>3, <2>3 DEF Requests!CallersMatch
  <2> QED BY <2>2, <2>3
<1> QED BY <1>5, <1>6, <1>7, <1>8, <1>9, <1>10

LEMMA SubmitKeeps ==
  ASSUME Requests!OrchestratorAssumption, Requests!OrchestratorInvariant, LoopStep,
         NEW p \in Parent, ToForward(p),
         routing' = Requests!Nothing, TrackerFits(tracker'), StatesFit(tracker', request_states'),
         Requests!CompanionsTracked(tracker', p) \subseteq tracker'.done,
         running' = [running EXCEPT ![1] = running[1] \cup {p}],
         submissions' = [submissions EXCEPT ![p] = submissions[p] + 1],
         attached' = [attached EXCEPT ![p] = Requests!CompanionsTracked(tracker', p)],
         forwarded' = forwarded \cup {p},
         UNCHANGED <<output_queue, answers, thread>>
  PROVE  Requests!OrchestratorInvariant'
<1> USE DEF Requests!OrchestratorInvariant, LoopStep
<1>1. PICK X : X = Requests!CompanionsTracked(tracker', p)
  OBVIOUS
<1>2. /\ X \subseteq tracker'.companions /\ X \subseteq CompanionsOf[p] /\ X \subseteq produced
      /\ X \subseteq tracker.companions /\ X \subseteq Requests!Companions
  BY <1>1, CompanionSets DEF Requests!CompanionsTracked, TrackerFits
<1>3. attached' = [attached EXCEPT ![p] = X]
  BY <1>1
<1>4. /\ attached' \in [Parent -> SUBSET Requests!Companions] /\ attached'[p] = X
      /\ \A q \in Parent \ {p} : attached'[q] = attached[q]
  <2>1. attached \in [Parent -> SUBSET Requests!Companions]
    BY DEF Requests!TypeOK
  <2> QED BY <1>2, <1>3, <2>1
<1>5. /\ submissions' \in [Parent -> Nat] /\ submissions'[p] = 1
      /\ \A q \in Parent \ {p} : submissions'[q] = submissions[q]
  <2>1. submissions \in [Parent -> Nat] /\ submissions[p] = 0
    BY DEF Requests!TypeOK, Requests!SubmittedOnce, ToForward
  <2> QED BY <2>1
<1>6. /\ running' \in [Requests!Stage -> SUBSET Requests!Id] /\ running'[0] = running[0]
      /\ running'[1] = running[1] \cup {p} /\ running'[1] \subseteq Parent
  <2>1. running \in [Requests!Stage -> SUBSET Requests!Id] /\ 0 \in Requests!Stage /\
          1 \in Requests!Stage /\ p \in Requests!Id
    BY DEF Requests!TypeOK, Requests!Stage, Requests!Id
  <2>2. running[1] \subseteq Parent
    BY DEF Requests!TypeOK
  <2> QED BY <2>1, <2>2
<1>7. \A q : Requests!Nothing # <<q>>
  BY Lengths DEF Requests!Nothing
<1>8. Requests!TypeOK'
  BY <1>4, <1>5, <1>6 DEF Requests!TypeOK, Requests!client, TrackerFits, StatesFit
<1>9. Requests!NothingEarly'
  <2>1. \A q \in Parent : Requests!Unknown(q)' => Requests!Unknown(q) /\ q # p
    BY DEF Requests!Unknown, Requests!client, Requests!Queued, ToForward
  <2>2. \A q \in Parent : \A c : Requests!UnknownCompanion(q, c)' =>
          Requests!UnknownCompanion(q, c)
    BY DEF Requests!UnknownCompanion, Requests!client, Requests!Queued
  <2>3. \A q \in Parent : Requests!Unknown(q)' =>
          q \notin request_states' /\ q \notin forwarded' /\ answers'[q] = 0 /\ routing' # <<q>>
    BY <1>7, <2>1 DEF Requests!NothingEarly, StatesFit
  <2>4. ASSUME NEW q \in Parent
        PROVE  /\ \A c \in CompanionsOf[q] : Requests!UnknownCompanion(q, c)' =>
                    /\ c \notin request_states' /\ routing' # <<c>>
                    /\ c \notin tracker'.companions /\ c \notin attached'[q]
               /\ attached'[q] \subseteq CompanionsOf[q]
    <3>1. CASE q = p
      BY <1>2, <1>4, <1>7, <2>2, <3>1 DEF Requests!NothingEarly, StatesFit, TrackerFits
    <3>2. CASE q # p
      BY <1>4, <1>7, <2>2, <3>2 DEF Requests!NothingEarly, StatesFit, TrackerFits
    <3> QED BY <3>1, <3>2
  <2> QED BY <2>3, <2>4 DEF Requests!NothingEarly
<1>10. Requests!SubmittedOnce' /\ Requests!GuidanceReady'
  BY <1>2, <1>4, <1>5 DEF Requests!SubmittedOnce, Requests!GuidanceReady, ToForward
<1>11. Requests!DiffusionMatches'
  BY <1>6 DEF Requests!DiffusionMatches, Requests!InDiffusion, ToForward
<1>12. Requests!AnswersMatch'
  BY <1>7 DEF Requests!AnswersMatch, StatesFit
<1>13. Requests!CallersMatch'
  <2>1. \A what \in {"finished", "error"} : ~Requests!AnswerQueued(p, what) /\ inbox[p] # what
    BY DEF Requests!CallersMatch, ToForward
  <2>2. \A q \in Parent : Requests!AnswerQueued(q, "finished") \/ inbox[q] = "finished" =>
          q \in forwarded /\ attached'[q] \cap tracker'.companions = {}
    BY <1>4, <2>1 DEF Requests!CallersMatch, TrackerFits
  <2> QED BY <2>2 DEF Requests!CallersMatch, Requests!AnswerQueued, Requests!client,
    Requests!Serves
<1> QED BY <1>6, <1>8, <1>9, <1>10, <1>11, <1>12, <1>13, LoopKeeps

LEMMA ForwardKeeps ==
  ASSUME Requests!OrchestratorAssumption, Requests!OrchestratorInvariant, LoopStep,
         NEW p \in Parent, ToForward(p),
         routing' = Requests!Nothing, NEW t, NEW known, TrackerFits(t), StatesFit(t, known),
         Requests!CompanionsTracked(t, p) \subseteq t.done, Requests!ForwardToNextStage(p, t,
           known)
  PROVE  Requests!OrchestratorInvariant'
<1>1. CASE /\ running' = [running EXCEPT ![1] = running[1] \cup {p}]
           /\ submissions' = [submissions EXCEPT ![p] = submissions[p] + 1]
           /\ attached' = [attached EXCEPT ![p] = Requests!CompanionsTracked(t, p)]
           /\ forwarded' = forwarded \cup {p}
           /\ tracker' = t /\ request_states' = known
           /\ UNCHANGED <<output_queue, answers, thread>>
  <2>1. /\ TrackerFits(tracker') /\ StatesFit(tracker', request_states')
        /\ Requests!CompanionsTracked(tracker', p) = Requests!CompanionsTracked(t, p)
        /\ Requests!CompanionsTracked(tracker', p) \subseteq tracker'.done
    BY <1>1
  <2>2. attached' = [attached EXCEPT ![p] = Requests!CompanionsTracked(tracker', p)]
    BY <1>1, <2>1
  <2> QED BY <1>1, <2>1, <2>2, SubmitKeeps
<1>2. CASE /\ Requests!Crash /\ tracker' = t /\ request_states' = known
           /\ UNCHANGED <<running, submissions, attached, forwarded, answers>>
  <2>1. /\ UNCHANGED Requests!client /\ request_queue' \in Seq(Requests!Requested)
        /\ \A x : Requests!Queued(x)' => Requests!Queued(x)
        /\ Requests!MessagesMatch' /\ Requests!AbortIsLast'
    BY DEF LoopStep, Requests!OrchestratorInvariant, Requests!TypeOK, Requests!MessagesMatch,
      Requests!AbortIsLast, Requests!Queued, Requests!client
  <2>2. /\ tracker' \in [companions : SUBSET Requests!Companions, done :
             SUBSET Requests!Companions,
                         pending : SUBSET Parent]
        /\ tracker'.companions \subseteq tracker.companions /\ tracker'.done \subseteq produced
        /\ \A q \in t.pending : Requests!CompanionsTracked(t, q) \ t.done # {}
    BY <1>2 DEF TrackerFits
  <2>3. Requests!PendingMatches'
    BY <1>2, <2>2 DEF Requests!PendingMatches, Requests!CompanionsTracked
  <2>4. request_states' \subseteq request_states
    BY <1>2 DEF StatesFit
  <2> QED BY <1>2, <2>1, <2>2, <2>3, <2>4, CrashKeeps DEF LoopStep
<1>3. CASE /\ Requests!PutOutput(p, "error") /\ tracker' = Requests!CleanupParent(t, p)
           /\ request_states' = known \ {p}
           /\ UNCHANGED <<running, submissions, attached, forwarded, thread>>
  <2> USE DEF Requests!OrchestratorInvariant, LoopStep
  <2>0. PICK u : u = tracker' /\ u = Requests!CleanupParent(t, p)
    BY <1>3
  <2>1. /\ u.companions = t.companions \ CompanionsOf[p] /\ u.done = t.done \ CompanionsOf[p]
        /\ u.pending = t.pending \ {p}
        /\ u \in [companions : SUBSET Requests!Companions, done :
             SUBSET Requests!Companions, pending : SUBSET Parent]
    BY <2>0 DEF Requests!CleanupParent, TrackerFits
  <2>2. TrackerFits(u)
    <3>1. \A q \in u.pending : q \in t.pending /\ q \in Parent \ {p}
      BY <2>1
    <3>2. \A q \in Parent \ {p} : CompanionsOf[q] \cap CompanionsOf[p] = {}
      BY CompanionSets
    <3>3. ASSUME NEW q \in u.pending PROVE Requests!CompanionsTracked(u, q) \ u.done # {}
      <4>1. Requests!CompanionsTracked(t, q) \ t.done # {}
        BY <3>1 DEF TrackerFits
      <4> QED BY <2>1, <3>1, <3>2, <4>1 DEF Requests!CompanionsTracked
    <3> QED BY <2>1, <3>3 DEF TrackerFits
  <2>3. StatesFit(u, known \ {p})
    <3>1. \A c \in Requests!Companions : c # p
      BY CompanionSets
    <3>2. u.companions \subseteq t.companions /\
            u.companions \ u.done \subseteq t.companions \ t.done
      BY <2>1
    <3> QED BY <3>1, <3>2 DEF StatesFit
  <2>4. TrackerFits(tracker') /\ StatesFit(tracker', request_states')
    BY <1>3, <2>0, <2>2, <2>3
  <2>5. p \notin running[1] /\ ~Requests!InDiffusion(p) /\ ~Requests!InDiffusion(p)'
    BY DEF Requests!DiffusionMatches, ToForward, Requests!InDiffusion
  <2>6. /\ \A q : Requests!InDiffusion(q)' => Requests!InDiffusion(q)
        /\ \A i, j \in DOMAIN stage_outputs'[1] :
             stage_outputs'[1][i][2] = stage_outputs'[1][j][2] => i = j
        /\ stage_outputs'[1] \in Seq({"finished", "error"} \X Parent)
    BY DEF Requests!InDiffusion, Requests!DiffusionMatches, Requests!TypeOK
  <2>7. RoutingFits /\ routing' # <<p>>
    BY Lengths DEF RoutingFits, Requests!Nothing
  <2>8. /\ request_states' \subseteq request_states /\ p \notin request_states'
        /\ tracker'.companions \subseteq tracker.companions
    BY <1>3, <2>4 DEF TrackerFits, StatesFit
  <2>9. answers[p] = 0 /\ ~Requests!Unknown(p)
    BY DEF ToForward
  <2>10. /\ Requests!TypeOK' /\ Requests!NothingEarly' /\ Requests!SubmittedOnce' /\
              Requests!GuidanceReady' /\ Requests!DiffusionMatches'
         /\ Requests!AnswersMatch' /\ Requests!CallersMatch'
    BY <1>3, <2>4, <2>5, <2>6, <2>7, <2>8, <2>9, PutOutputKeeps
  <2> QED BY <1>3, <2>4, <2>10, LoopKeeps
<1> QED BY <1>1, <1>2, <1>3 DEF Requests!ForwardToNextStage

LEMMA DeferKeeps ==
  ASSUME Requests!OrchestratorAssumption, Requests!OrchestratorInvariant, LoopStep,
         NEW p \in Parent, ToForward(p),
         routing' = Requests!Nothing, StatesFit(tracker, request_states),
           Requests!DeferOrForward(p, request_states)
  PROVE  Requests!OrchestratorInvariant'
<1> USE DEF Requests!OrchestratorInvariant
<1>1. TrackerFits(tracker)
  BY DEF TrackerFits, Requests!TypeOK, Requests!DoneIsProduced, Requests!PendingMatches
<1>2. CASE Requests!CompanionsTracked(tracker, p) # {} /\ ~Requests!AllCompanionsDone(tracker, p)
  <2>1. PICK t : /\ t = [tracker EXCEPT !.pending = tracker.pending \cup {p}]
                 /\ tracker' = t /\ request_states' = request_states /\ Requests!Untouched
    BY <1>2 DEF Requests!DeferOrForward, Requests!Untouched
  <2>2. /\ t.companions = tracker.companions /\ t.done = tracker.done
        /\ t.pending = tracker.pending \cup {p}
        /\ t \in [companions : SUBSET Requests!Companions, done :
             SUBSET Requests!Companions, pending : SUBSET Parent]
    BY <2>1 DEF Requests!TypeOK
  <2>3. TrackerFits(t)
    BY <1>1, <1>2, <2>2 DEF TrackerFits, Requests!CompanionsTracked, Requests!AllCompanionsDone
  <2>4. StatesFit(t, request_states)
    BY <2>2 DEF StatesFit
  <2> QED BY <2>1, <2>3, <2>4, UntouchedKeeps DEF RoutingFits
<1>3. CASE ~(Requests!CompanionsTracked(tracker, p) # {} /\ ~Requests!AllCompanionsDone(tracker,
           p))
  <2>1. Requests!ForwardToNextStage(p, tracker, request_states)
    BY <1>3 DEF Requests!DeferOrForward
  <2>2. Requests!CompanionsTracked(tracker, p) \subseteq tracker.done
    BY <1>3 DEF Requests!AllCompanionsDone
  <2> QED BY <1>1, <2>1, <2>2, ForwardKeeps
<1> QED BY <1>2, <1>3

LEMMA CompanionReadyKeeps ==
  ASSUME Requests!OrchestratorAssumption, Requests!OrchestratorInvariant, LoopStep,
         routing' = Requests!Nothing,
         NEW c \in Requests!Companions, c \in produced, NEW known,
         StatesFit([tracker EXCEPT !.done = tracker.done \cup {c}], known),
           Requests!CompanionReady(c, known)
  PROVE  Requests!OrchestratorInvariant'
<1> USE DEF Requests!OrchestratorInvariant
<1>1. PICK t : t = [tracker EXCEPT !.done = tracker.done \cup {c}]
  OBVIOUS
<1>2. /\ t.companions = tracker.companions /\ t.done = tracker.done \cup {c}
      /\ t.pending = tracker.pending
      /\ t \in [companions : SUBSET Requests!Companions, done :
           SUBSET Requests!Companions, pending : SUBSET Parent]
  BY <1>1 DEF Requests!TypeOK
<1>3. PICK p \in Parent : p = Requests!ParentOf(c) /\ c \in CompanionsOf[p]
  BY CompanionSets
<1>4. ASSUME NEW q \in tracker.pending, q # p PROVE Requests!CompanionsTracked(t, q) \ t.done # {}
  <2>1. q \in Parent /\ c \notin CompanionsOf[q]
    BY <1>3, <1>4, CompanionSets DEF Requests!TypeOK
  <2>2. Requests!CompanionsTracked(tracker, q) \ tracker.done # {}
    BY DEF Requests!PendingMatches
  <2> QED BY <1>2, <2>1, <2>2 DEF Requests!CompanionsTracked
<1>5. PICK released \in BOOLEAN :
        released = (c \notin tracker.done /\ p \in t.pending /\ Requests!AllCompanionsDone(t, p))
  OBVIOUS
<1>6. PICK u : u = [t EXCEPT !.pending = t.pending \ {p}]
  OBVIOUS
<1>7. /\ u.companions = t.companions /\ u.done = t.done /\ u.pending = t.pending \ {p}
      /\ u \in [companions : SUBSET Requests!Companions, done :
           SUBSET Requests!Companions, pending : SUBSET Parent]
  BY <1>2, <1>6
<1>8. TrackerFits(u) /\ StatesFit(u, known) /\ StatesFit(t, known)
  <2>1. \A q \in u.pending : Requests!CompanionsTracked(u, q) \ u.done # {}
    BY <1>2, <1>4, <1>7 DEF Requests!CompanionsTracked
  <2>2. TrackerFits(u)
    BY <1>2, <1>7, <2>1 DEF TrackerFits, Requests!DoneIsProduced
  <2> QED BY <1>1, <1>7, <2>2 DEF StatesFit
<1>9. ASSUME ~released PROVE TrackerFits(t)
  <2>1. ASSUME p \in t.pending PROVE Requests!CompanionsTracked(t, p) \ t.done # {}
    <3>1. CASE c \in tracker.done
      BY <1>2, <2>1, <3>1 DEF Requests!PendingMatches, Requests!CompanionsTracked
    <3>2. CASE c \notin tracker.done
      BY <1>5, <1>9, <2>1, <3>2 DEF Requests!AllCompanionsDone
    <3> QED BY <3>1, <3>2
  <2>2. \A q \in t.pending : Requests!CompanionsTracked(t, q) \ t.done # {}
    BY <1>2, <1>4, <2>1
  <2> QED BY <1>2, <2>2 DEF TrackerFits, Requests!DoneIsProduced
<1>10. RoutingFits
  BY DEF RoutingFits
<1>11. \/ ~released /\ tracker' = t /\ request_states' = known /\ Requests!Untouched
       \/ /\ released /\ p \in known /\ p \notin forwarded /\ Requests!ForwardToNextStage(p, u,
               known)
       \/ released /\ tracker' = u /\ request_states' = known /\ Requests!Untouched
  BY <1>1, <1>3, <1>5, <1>6 DEF Requests!CompanionReady, Requests!Untouched
<1>12. CASE ~released /\ tracker' = t /\ request_states' = known /\ Requests!Untouched
  BY <1>8, <1>9, <1>10, <1>12, UntouchedKeeps
<1>13. CASE released /\ tracker' = u /\ request_states' = known /\ Requests!Untouched
  BY <1>8, <1>10, <1>13, UntouchedKeeps
<1>14. CASE released /\ p \in known /\ p \notin forwarded /\ Requests!ForwardToNextStage(p, u,
            known)
  <2>1. p \in request_states /\ answers[p] \in Nat
    BY <1>8, <1>14 DEF StatesFit, Requests!TypeOK
  <2>2. ToForward(p)
    BY <1>14, <2>1 DEF ToForward, Requests!NothingEarly, Requests!AnswersMatch
  <2>3. Requests!CompanionsTracked(u, p) \subseteq u.done
    BY <1>5, <1>7, <1>14 DEF Requests!AllCompanionsDone, Requests!CompanionsTracked
  <2> QED BY <1>8, <1>14, <2>2, <2>3, ForwardKeeps
<1> QED BY <1>11, <1>12, <1>13, <1>14

(* What is polled from the language model.                                 *)
LEMMA Polls ==
  ASSUME Requests!OrchestratorAssumption, Requests!OrchestratorInvariant,
         stage_outputs[0] # <<>>, Requests!TakeOutput(0),
         UNCHANGED <<Requests!client, request_queue, async_chunk, handler, produced>>
  PROVE  /\ LoopStep /\ Requests!Polled(0)[2] \in produced
         /\ \A c : Requests!AtModel(c) => StillAtModel(c) \/ Requests!Polled(0) = <<"finished",
              c>>
<1> USE DEF Requests!OrchestratorInvariant
<1>1. 0 \in Requests!Stage /\ 1 \in Requests!Stage \ {0}
  BY DEF Requests!Stage
<1>2. /\ stage_outputs' \in [Requests!Stage -> Seq({"kv", "finished", "error"} \X Requests!Id)]
      /\ stage_outputs'[1] = stage_outputs[1]
      /\ 1 \in DOMAIN stage_outputs[0] /\ stage_outputs[0][1] = Requests!Polled(0)
      /\ \A k \in DOMAIN stage_outputs'[0] :
           k + 1 \in DOMAIN stage_outputs[0] /\ stage_outputs'[0][k] = stage_outputs[0][k + 1]
      /\ \A m : Requests!PutOutBy(0, m) => m = Requests!Polled(0) \/ Requests!PutOutBy(0, m)'
  BY <1>1, StageOutputTaken
<1>3. \A k \in DOMAIN stage_outputs'[0] : stage_outputs'[0][k][2] \in produced
  BY <1>2 DEF Requests!DoneIsProduced
<1>4. Requests!Polled(0)[2] \in produced
  BY <1>2 DEF Requests!DoneIsProduced
<1> QED BY <1>2, <1>3, <1>4 DEF LoopStep, Requests!AtModel, StillAtModel

LEMMA PollKvReadyKeeps ==
  ASSUME Requests!OrchestratorAssumption, Requests!OrchestratorInvariant, Requests!PollKvReady
  PROVE  Requests!OrchestratorInvariant'
<1> USE DEF Requests!OrchestratorInvariant
<1>1. PICK id : id = Requests!Polled(0)[2]
  OBVIOUS
<1>2. /\ thread = "running" /\ routing = Requests!Nothing /\ routing' = Requests!Nothing
      /\ LoopStep /\ id \in produced /\ Requests!HandleKvReady(id)
      /\ \A c : Requests!AtModel(c) => StillAtModel(c)
  <2>1. /\ thread = "running" /\ routing = Requests!Nothing /\ routing' = Requests!Nothing
        /\ Requests!Polled(0)[1] = "kv" /\ Requests!HandleKvReady(id)
        /\ stage_outputs[0] # <<>> /\ Requests!TakeOutput(0)
        /\ UNCHANGED <<Requests!client, request_queue, async_chunk, handler, produced>>
    BY <1>1 DEF Requests!PollKvReady, Requests!LoopPolls
  <2> QED BY <1>1, <2>1, Polls
<1>3. /\ TrackerFits(tracker) /\ \A q : Requests!Nothing # <<q>>
  BY Lengths DEF TrackerFits, Requests!TypeOK, Requests!DoneIsProduced, Requests!PendingMatches,
    Requests!Nothing
<1>4. StatesFit(tracker, request_states)
  BY <1>2, <1>3 DEF StatesFit, Requests!CompanionsMatch
<1>5. CASE UNCHANGED <<tracker, request_states>> /\ Requests!Untouched
  BY <1>2, <1>3, <1>4, <1>5, UntouchedKeeps DEF RoutingFits
<1>6. CASE id \in tracker.companions /\ Requests!CompanionReady(id, request_states)
  <2>1. id \in Requests!Companions
    BY <1>6 DEF Requests!TypeOK
  <2>2. PICK t : t = [tracker EXCEPT !.done = tracker.done \cup {id}]
    OBVIOUS
  <2>3. t.companions = tracker.companions /\ t.done = tracker.done \cup {id}
    BY <2>2 DEF Requests!TypeOK
  <2>4. StatesFit(t, request_states)
    BY <1>4, <2>3 DEF StatesFit
  <2> QED BY <1>2, <1>6, <2>1, <2>2, <2>4, CompanionReadyKeeps
<1>7. CASE id \in Parent \cap request_states /\ id \notin forwarded /\
           Requests!DeferOrForward(id, request_states)
  <2>1. answers[id] \in Nat
    BY <1>7 DEF Requests!TypeOK
  <2>2. ToForward(id)
    BY <1>7, <2>1 DEF ToForward, Requests!NothingEarly, Requests!AnswersMatch
  <2> QED BY <1>2, <1>4, <1>7, <2>2, DeferKeeps
<1> QED BY <1>2, <1>5, <1>6, <1>7 DEF Requests!HandleKvReady

LEMMA PollFinishedKeeps ==
  ASSUME Requests!OrchestratorAssumption, Requests!OrchestratorInvariant, Requests!PollFinished
  PROVE  Requests!OrchestratorInvariant'
<1> USE DEF Requests!OrchestratorInvariant
<1>1. PICK id : id = Requests!Polled(0)[2]
  OBVIOUS
<1>2. /\ thread = "running" /\ routing = Requests!Nothing
      /\ LoopStep /\ id \in produced
      /\ \A c : Requests!AtModel(c) => StillAtModel(c) \/ c = id
      /\ \/ id \notin request_states /\ UNCHANGED <<routing, tracker, request_states>> /\
              Requests!Untouched
         \/ /\ id \in request_states \cap tracker.companions /\ UNCHANGED routing
            /\ Requests!CompanionReady(id, request_states \ {id})
         \/ /\ id \in request_states \ tracker.companions /\ routing' = <<id>>
            /\ UNCHANGED <<tracker, request_states>> /\ Requests!Untouched
  <2>1. /\ thread = "running" /\ routing = Requests!Nothing
        /\ stage_outputs[0] # <<>> /\ Requests!TakeOutput(0)
        /\ UNCHANGED <<Requests!client, request_queue, async_chunk, handler, produced>>
        /\ \/ id \notin request_states /\ UNCHANGED <<routing, tracker, request_states>> /\
                Requests!Untouched
           \/ /\ id \in request_states \cap tracker.companions /\ UNCHANGED routing
              /\ Requests!CompanionReady(id, request_states \ {id})
           \/ /\ id \in request_states \ tracker.companions /\ routing' = <<id>>
              /\ UNCHANGED <<tracker, request_states>> /\ Requests!Untouched
    BY <1>1 DEF Requests!PollFinished, Requests!LoopPolls
  <2>2. \A c : Requests!Polled(0) = <<"finished", c>> => c = id
    BY <1>1
  <2> QED BY <1>1, <2>1, <2>2, Polls
<1>3. /\ TrackerFits(tracker) /\ \A q : Requests!Nothing # <<q>>
  BY Lengths DEF TrackerFits, Requests!TypeOK, Requests!DoneIsProduced, Requests!PendingMatches,
    Requests!Nothing
<1>5. CASE id \notin request_states /\ UNCHANGED <<routing, tracker, request_states>> /\
           Requests!Untouched
  <2>1. StatesFit(tracker, request_states)
    BY <1>2, <1>3, <1>5 DEF StatesFit, Requests!CompanionsMatch
  <2> QED BY <1>2, <1>3, <1>5, <2>1, UntouchedKeeps DEF RoutingFits
<1>6. CASE /\ id \in request_states \cap tracker.companions /\ UNCHANGED routing
           /\ Requests!CompanionReady(id, request_states \ {id})
  <2>1. id \in Requests!Companions
    BY <1>6 DEF Requests!TypeOK
  <2>2. PICK t : t = [tracker EXCEPT !.done = tracker.done \cup {id}]
    OBVIOUS
  <2>3. t.companions = tracker.companions /\ t.done = tracker.done \cup {id}
    BY <2>2 DEF Requests!TypeOK
  <2>4. StatesFit(t, request_states \ {id})
    BY <1>2, <1>3, <1>6, <2>3 DEF StatesFit, Requests!CompanionsMatch
  <2> QED BY <1>2, <1>6, <2>1, <2>2, <2>4, CompanionReadyKeeps
<1>7. CASE /\ id \in request_states \ tracker.companions /\ routing' = <<id>>
           /\ UNCHANGED <<tracker, request_states>> /\ Requests!Untouched
  <2>1. StatesFit(tracker, request_states)
    BY <1>2, <1>3, <1>7 DEF StatesFit, Requests!CompanionsMatch
  <2> QED BY <1>2, <1>3, <1>7, <2>1, UntouchedKeeps DEF RoutingFits
<1> QED BY <1>2, <1>5, <1>6, <1>7

LEMMA RouteOutputKeeps ==
  ASSUME Requests!OrchestratorAssumption, Requests!OrchestratorInvariant, Requests!RouteOutput
  PROVE  Requests!OrchestratorInvariant'
<1> USE DEF Requests!OrchestratorInvariant
<1>1. PICK id : id = routing[1]
  OBVIOUS
<1>2. /\ routing' = Requests!Nothing /\ routing = <<id>> /\ id \in Requests!Id /\
           stage_outputs' = stage_outputs
      /\ UNCHANGED <<Requests!client, request_queue, async_chunk, handler, stage_outputs,
           produced>>
      /\ \/ id \notin Parent /\ request_states' = request_states \ {id} /\ UNCHANGED tracker /\
              Requests!Untouched
         \/ UNCHANGED <<tracker, request_states>> /\ Requests!Untouched /\ id \in Parent
         \/ id \in Parent /\ id \notin forwarded /\ Requests!DeferOrForward(id, request_states)
  <2>1. routing # Requests!Nothing /\ routing \in {Requests!Nothing} \cup {<<x>> :
          x \in Requests!Id}
    BY DEF Requests!RouteOutput, Requests!TypeOK
  <2> QED BY <1>1, <2>1 DEF Requests!RouteOutput
<1>3. LoopStep
  BY <1>2 DEF LoopStep, Requests!TypeOK, Requests!DoneIsProduced
<1>4. /\ TrackerFits(tracker) /\ \A q : Requests!Nothing # <<q>>
  BY Lengths DEF TrackerFits, Requests!TypeOK, Requests!DoneIsProduced, Requests!PendingMatches,
    Requests!Nothing
<1>5. /\ \A c : Requests!AtModel(c) => StillAtModel(c)
      /\ \A c : routing = <<c>> => c = id
  BY <1>2 DEF Requests!AtModel, StillAtModel, Requests!PutOutBy
<1>6. CASE /\ id \notin Parent /\ request_states' = request_states \ {id} /\ UNCHANGED tracker
           /\ Requests!Untouched
  <2>1. StatesFit(tracker, request_states \ {id})
    BY <1>2, <1>4, <1>5 DEF StatesFit, Requests!CompanionsMatch
  <2> QED BY <1>2, <1>3, <1>4, <1>6, <2>1, UntouchedKeeps DEF RoutingFits
<1>7. CASE id \in Parent
  <2>1. \A c \in Requests!Companions : c # id
    BY <1>7, CompanionSets
  <2>2. StatesFit(tracker, request_states)
    BY <1>2, <1>4, <1>5, <2>1 DEF StatesFit, Requests!CompanionsMatch
  <2>3. CASE UNCHANGED <<tracker, request_states>> /\ Requests!Untouched
    BY <1>2, <1>3, <1>4, <2>2, <2>3, UntouchedKeeps DEF RoutingFits
  <2>4. CASE id \notin forwarded /\ Requests!DeferOrForward(id, request_states)
    <3>1. ToForward(id)
      BY <1>2, <1>7, <2>4 DEF ToForward, Requests!NothingEarly, Requests!AnswersMatch
    <3> QED BY <1>2, <1>3, <1>7, <2>2, <2>4, <3>1, DeferKeeps
  <2> QED BY <1>2, <1>7, <2>3, <2>4
<1> QED BY <1>2, <1>6, <1>7

LEMMA PollDiffusionKeeps ==
  ASSUME Requests!OrchestratorAssumption, Requests!OrchestratorInvariant, Requests!PollDiffusion
  PROVE  Requests!OrchestratorInvariant'
<1> USE DEF Requests!OrchestratorInvariant
<1>0. 1 \in Requests!Stage /\ 0 \in Requests!Stage \ {1}
  BY DEF Requests!Stage
<1>1. PICK p : p = Requests!Polled(1)[2]
  OBVIOUS
<1>2. /\ stage_outputs[1] # <<>> /\ Requests!TakeOutput(1) /\ routing = Requests!Nothing /\
           routing' = Requests!Nothing
      /\ UNCHANGED <<Requests!client, request_queue, thread, async_chunk, handler, forwarded,
           attached,
                     running, produced, submissions, engine_dead>>
      /\ \/ /\ Requests!PutOutput(p, "error") /\ request_states' = request_states \ {p} /\
                 UNCHANGED tracker
         \/ /\ Requests!PutOutput(p, "finished") /\ request_states' = request_states \ {p}
            /\ tracker' = Requests!CleanupParent(tracker, p)
         \/ UNCHANGED <<output_queue, answers, request_states, tracker>>
  BY <1>1 DEF Requests!PollDiffusion, Requests!LoopPolls
<1>3. /\ stage_outputs' \in [Requests!Stage -> Seq({"kv", "finished", "error"} \X Requests!Id)]
      /\ stage_outputs'[1] \in Seq({"finished", "error"} \X Parent)
      /\ stage_outputs'[0] = stage_outputs[0]
      /\ 1 \in DOMAIN stage_outputs[1] /\ stage_outputs[1][1][2] = p
      /\ \A k \in DOMAIN stage_outputs'[1] :
           /\ k \in Nat \ {0} /\ k + 1 \in DOMAIN stage_outputs[1]
           /\ stage_outputs'[1][k] = stage_outputs[1][k + 1]
  BY <1>0, <1>1, <1>2, StageOutputTaken
<1>4. p \in Parent
  <2>1. stage_outputs[1] \in Seq({"finished", "error"} \X Parent)
    BY DEF Requests!TypeOK
  <2>2. stage_outputs[1][1] \in {"finished", "error"} \X Parent
    BY <1>3, <2>1, ElementOfSeq, LenProperties
  <2> QED BY <1>3, <2>2
<1>5. /\ Requests!InDiffusion(p) /\ p \in forwarded /\ answers[p] = 0 /\ p \notin running[1]
      /\ \A q : Requests!InDiffusion(q)' => Requests!InDiffusion(q) /\ q # p
      /\ \A i, j \in DOMAIN stage_outputs'[1] :
           stage_outputs'[1][i][2] = stage_outputs'[1][j][2] => i = j
  <2>1. Requests!InDiffusion(p)
    BY <1>3 DEF Requests!InDiffusion
  <2>2. ASSUME NEW q, Requests!InDiffusion(q)' PROVE Requests!InDiffusion(q) /\ q # p
    <3>1. PICK k \in DOMAIN stage_outputs'[1] : stage_outputs'[1][k][2] = q
      BY <2>2 DEF Requests!InDiffusion
    <3>2. k + 1 \in DOMAIN stage_outputs[1] /\ stage_outputs[1][k + 1][2] = q /\ k + 1 # 1
      BY <1>3, <3>1
    <3> QED BY <1>3, <3>2 DEF Requests!InDiffusion, Requests!DiffusionMatches
  <2>3. ASSUME NEW i \in DOMAIN stage_outputs'[1], NEW j \in DOMAIN stage_outputs'[1],
               stage_outputs'[1][i][2] = stage_outputs'[1][j][2]
        PROVE  i = j
    <3>1. i + 1 = j + 1
      BY <1>3, <2>3 DEF Requests!DiffusionMatches
    <3> QED BY <1>3, <3>1
  <2> QED BY <1>4, <2>1, <2>2, <2>3 DEF Requests!DiffusionMatches
<1>6. /\ \A c : Requests!AtModel(c) => StillAtModel(c)
      /\ \A q : Requests!Nothing # <<q>>
      /\ RoutingFits
  BY <1>2, <1>3, Lengths DEF Requests!AtModel, StillAtModel, Requests!PutOutBy, Requests!Nothing,
    RoutingFits
<1>7. ASSUME NEW t, t = tracker \/ t = Requests!CleanupParent(tracker, p),
             NEW known, known = request_states \/ known = request_states \ {p}
      PROVE  TrackerFits(t) /\ StatesFit(t, known)
  <2>1. /\ t \in [companions : SUBSET Requests!Companions, done :
             SUBSET Requests!Companions, pending : SUBSET Parent]
        /\ t.companions \subseteq tracker.companions /\ t.done \subseteq tracker.done
        /\ t.companions \ t.done \subseteq tracker.companions \ tracker.done
        /\ \A q \in t.pending : Requests!CompanionsTracked(t, q) \ t.done # {}
    <3>1. CASE t = tracker
      BY <3>1 DEF Requests!TypeOK, Requests!PendingMatches
    <3>2. CASE t = Requests!CleanupParent(tracker, p)
      BY <1>4, <3>2, ParentCleaned
    <3> QED BY <1>7, <3>1, <3>2
  <2>2. \A c \in Requests!Companions : c # p
    BY <1>4, CompanionSets
  <2> QED BY <1>2, <1>6, <1>7, <2>1, <2>2
          DEF TrackerFits, StatesFit, Requests!CompanionsMatch, Requests!DoneIsProduced
<1>10. \A k \in DOMAIN stage_outputs'[0] : stage_outputs'[0][k][2] \in produced
  BY <1>3 DEF Requests!DoneIsProduced
<1>8. CASE UNCHANGED <<output_queue, answers, request_states, tracker>>
  <2>1. TrackerFits(tracker) /\ StatesFit(tracker, request_states)
    BY <1>7
  <2>2. Requests!TypeOK'
    BY <1>2, <1>3, <1>8 DEF Requests!TypeOK, Requests!client
  <2>3. Requests!NothingEarly'
    <3>1. \A q \in Parent : Requests!Unknown(q)' => Requests!Unknown(q)
      BY <1>2 DEF Requests!Unknown, Requests!client, Requests!Queued
    <3>2. \A q \in Parent : \A c : Requests!UnknownCompanion(q, c)' =>
            Requests!UnknownCompanion(q, c)
      BY <1>2 DEF Requests!UnknownCompanion, Requests!client, Requests!Queued
    <3> QED BY <1>2, <1>8, <3>1, <3>2 DEF Requests!NothingEarly
  <2>4. Requests!DiffusionMatches'
    BY <1>2, <1>5, <1>8 DEF Requests!DiffusionMatches
  <2>5. Requests!SubmittedOnce' /\ Requests!GuidanceReady' /\ Requests!AnswersMatch' /\
          Requests!CallersMatch'
    BY <1>2, <1>8 DEF Requests!SubmittedOnce, Requests!GuidanceReady, Requests!AnswersMatch,
      Requests!CallersMatch, Requests!AnswerQueued, Requests!client, Requests!Serves
  <2> QED BY <1>2, <1>8, <1>10, <2>1, <2>2, <2>3, <2>4, <2>5, LoopKeeps
<1>9. CASE Requests!PutOutput(p, "error") \/ Requests!PutOutput(p, "finished")
  <2>1. PICK what \in {"finished", "error"} :
          /\ Requests!PutOutput(p, what) /\ request_states' = request_states \ {p}
          /\ tracker' = tracker \/ tracker' = Requests!CleanupParent(tracker, p)
          /\ what = "finished" => tracker' = Requests!CleanupParent(tracker, p)
    <3>1. CASE /\ Requests!PutOutput(p, "error") /\ request_states' = request_states \ {p}
               /\ UNCHANGED tracker
      BY <3>1
    <3>2. CASE /\ Requests!PutOutput(p, "finished") /\ request_states' = request_states \ {p}
               /\ tracker' = Requests!CleanupParent(tracker, p)
      BY <3>2
    <3>3. CASE UNCHANGED <<output_queue, answers, request_states, tracker>>
      <4>1. answers'[p] = 1
        <5>1. answers' = [answers EXCEPT ![p] = answers[p] + 1] /\ answers \in [Parent -> Nat]
          BY <1>9 DEF Requests!PutOutput, Requests!TypeOK
        <5>2. answers'[p] = answers[p] + 1
          BY <1>4, <5>1
        <5> QED BY <1>5, <5>2
      <4> QED BY <1>5, <3>3, <4>1
    <3> QED BY <1>2, <3>1, <3>2, <3>3
  <2>2. PICK t : t = tracker' /\ (t = tracker \/ t = Requests!CleanupParent(tracker, p))
                 /\ (what = "finished" => t = Requests!CleanupParent(tracker, p))
    BY <2>1
  <2>3. TrackerFits(t) /\ StatesFit(t, request_states')
    BY <1>7, <2>1, <2>2
  <2>4. TrackerFits(tracker') /\ StatesFit(tracker', request_states')
    BY <2>2, <2>3
  <2>5. \A c \in tracker'.companions \cap CompanionsOf[p] : what = "error"
    BY <1>4, <2>2, ParentCleaned
  <2>6. ~Requests!Unknown(p)
    BY <1>4, <1>5 DEF Requests!NothingEarly
  <2>7. tracker'.companions \subseteq tracker.companions
    BY <2>4 DEF TrackerFits
  <2>8. p \notin request_states' /\ request_states' \subseteq request_states /\
          ~Requests!InDiffusion(p)'
    BY <1>5, <2>1
  <2>9. /\ Requests!TypeOK' /\ Requests!NothingEarly' /\ Requests!SubmittedOnce' /\
             Requests!GuidanceReady' /\ Requests!DiffusionMatches'
        /\ Requests!AnswersMatch' /\ Requests!CallersMatch'
    <3>1. \A q : Requests!InDiffusion(q)' => Requests!InDiffusion(q)
      BY <1>5
    <3> QED BY <1>2, <1>3, <1>4, <1>5, <1>6, <2>1, <2>4, <2>5, <2>6, <2>7, <2>8, <3>1,
          PutOutputKeeps
  <2> QED BY <1>2, <1>10, <2>4, <2>9, LoopKeeps
<1> QED BY <1>2, <1>8, <1>9

(* A thread that is at its end.                                            *)
LEMMA EndsKeep ==
  ASSUME Requests!OrchestratorAssumption, Requests!OrchestratorInvariant,
         Requests!PollDeadModel \/ Requests!PollDeadDiffusion \/ Requests!DrainPendingRequests \/
           Requests!Stop
  PROVE  Requests!OrchestratorInvariant'
<1> USE DEF Requests!OrchestratorInvariant
<1>1. CASE Requests!PollDeadDiffusion \/ Requests!DrainPendingRequests
  <2>1. /\ Requests!Crash /\ UNCHANGED <<Requests!client, async_chunk, handler, Requests!loop,
             Requests!stages>>
        /\ request_states' \subseteq request_states /\ request_queue' \in {request_queue, <<>>}
    BY <1>1 DEF Requests!PollDeadDiffusion, Requests!DrainPendingRequests
  <2>2. /\ request_queue' \in Seq(Requests!Requested) /\ \A x : Requests!Queued(x)' =>
             Requests!Queued(x)
        /\ Requests!MessagesMatch' /\ Requests!AbortIsLast'
    <3>1. CASE request_queue' = request_queue
      BY <2>1, <3>1 DEF Requests!TypeOK, Requests!Queued, Requests!MessagesMatch,
        Requests!AbortIsLast, Requests!client
    <3>2. CASE request_queue' = <<>>
      <4>1. request_queue' \in Seq(Requests!Requested) /\ DOMAIN request_queue' = {}
        BY <3>2, EmptySeq
      <4>2. \A x : ~Requests!Queued(x)'
        BY <4>1 DEF Requests!Queued
      <4> QED BY <2>1, <4>1, <4>2 DEF Requests!MessagesMatch, Requests!AbortIsLast,
        Requests!client
    <3> QED BY <2>1, <3>1, <3>2
  <2>3. /\ Requests!PendingMatches' /\ tracker'.done \subseteq produced
        /\ \A k \in DOMAIN stage_outputs'[0] : stage_outputs'[0][k][2] \in produced
    BY <2>1 DEF Requests!PendingMatches, Requests!CompanionsTracked, Requests!DoneIsProduced,
      Requests!loop, Requests!stages
  <2> QED BY <2>1, <2>2, <2>3, CrashKeeps DEF Requests!loop, Requests!stages, Requests!TypeOK
<1>2. CASE Requests!PollDeadModel \/ Requests!Stop
  <2>1. /\ thread' \in {"dying", "ended"}
        /\ output_queue' = output_queue \/ output_queue' = Append(output_queue, <<"fatal">>)
        /\ request_states' \subseteq request_states
        /\ UNCHANGED <<Requests!client, request_queue, async_chunk, handler, Requests!loop,
             Requests!stages>>
    BY <1>2 DEF Requests!PollDeadModel, Requests!Stop
  <2>2. ~Requests!Serves'
    BY <2>1 DEF Requests!Serves
  <2>3. /\ output_queue' \in Seq(Requests!Told)
        /\ \A q, what : Requests!AnswerQueued(q, what)' => Requests!AnswerQueued(q, what)
    <3>1. CASE output_queue' = output_queue
      BY <3>1 DEF Requests!TypeOK, Requests!AnswerQueued
    <3>2. CASE output_queue' = Append(output_queue, <<"fatal">>)
      <4>1. <<"fatal">> \in Requests!Told
        BY DEF Requests!Told
      <4>2. /\ output_queue' \in Seq(Requests!Told)
            /\ \A q, what : Requests!AnswerQueued(q, what)' =>
                 Requests!AnswerQueued(q, what) \/ <<what, q>> = <<"fatal">>
        BY <3>2, <4>1, AnswerPut
      <4> QED BY <4>2, Lengths
    <3> QED BY <2>1, <3>1, <3>2
  <2>4. Requests!TypeOK'
    BY <2>1, <2>3 DEF Requests!TypeOK, Requests!client, Requests!loop, Requests!stages
  <2>5. Requests!MessagesMatch' /\ Requests!AbortIsLast'
    BY <2>1 DEF Requests!MessagesMatch, Requests!AbortIsLast, Requests!Queued, Requests!client
  <2>6. Requests!NothingEarly'
    BY <2>1 DEF Requests!NothingEarly, Requests!Unknown, Requests!UnknownCompanion, Requests!loop,
      Requests!client, Requests!Queued
  <2>7. Requests!SubmittedOnce' /\ Requests!DoneIsProduced' /\ Requests!GuidanceReady' /\
          Requests!PendingMatches'
    BY <2>1 DEF Requests!SubmittedOnce, Requests!DoneIsProduced, Requests!GuidanceReady,
      Requests!PendingMatches, Requests!CompanionsTracked, Requests!loop, Requests!stages
  <2>8. Requests!DiffusionMatches' /\ Requests!AnswersMatch'
    BY <2>1 DEF Requests!DiffusionMatches, Requests!InDiffusion, Requests!AnswersMatch,
      Requests!loop, Requests!stages
  <2>9. Requests!CallersMatch'
    BY <2>1, <2>2, <2>3 DEF Requests!CallersMatch, Requests!client, Requests!loop
  <2>10. Requests!AbortIsDue' /\ Requests!CompanionsMatch'
    BY <2>2 DEF Requests!AbortIsDue, Requests!CompanionsMatch
  <2> QED BY <2>4, <2>5, <2>6, <2>7, <2>8, <2>9, <2>10
<1> QED BY <1>1, <1>2

-------------------------------------------------------------------------------
LEMMA StepOrchestrator ==
  ASSUME Requests!OrchestratorAssumption, Requests!OrchestratorInvariant,
         Requests!OrchestratorNext \/ UNCHANGED Requests!orchestrator_vars
  PROVE  Requests!OrchestratorInvariant'
<1>1. CASE Requests!Start
  BY <1>1, StartKeeps
<1>2. CASE Requests!Handler
  BY <1>2, HandleAddRequestKeeps, HandleAddCompanionKeeps, HandleAbortKeeps, HandleShutdownKeeps,
     AbortNextStageKeeps, ForgetAbortedKeeps DEF Requests!Handler
<1>3. CASE Requests!Loop
  BY <1>3, PollKvReadyKeeps, PollFinishedKeeps, RouteOutputKeeps, PollDiffusionKeeps, EndsKeep
     DEF Requests!Loop
<1>4. CASE Requests!DrainPendingRequests \/ Requests!Stop
  BY <1>4, EndsKeep
<1>5. CASE Requests!Dispatch \/ Requests!Shutdown
  BY <1>5, DispatchKeeps, CallerShutdownKeeps
<1>6. CASE \E p \in Parent : Requests!Return(p) \/ Requests!Cancel(p)
  BY <1>6, LeaveKeeps
<1>7. CASE \E p \in Parent : \E C \in {{}, CompanionsOf[p]} : Requests!Generate(p, C)
  BY <1>7, GenerateKeeps
<1>8. CASE \E c \in Requests!Companions : Requests!Expand(c)
  BY <1>8, ExpandKeeps
<1>9. CASE \E id \in Requests!Id : Requests!ModelReady(id) \/ Requests!ModelFinishes(id)
  BY <1>9, ModelKeeps
<1>10. CASE \E p \in Parent, what \in {"finished", "error"} : Requests!DiffusionEnds(p, what)
  BY <1>10, DiffusionEndsKeeps
<1>11. CASE \E s \in Requests!Stage : Requests!Die(s)
  BY <1>11, QuietKeeps DEF Requests!Die
<1>12. CASE UNCHANGED Requests!orchestrator_vars
  BY <1>12, QuietKeeps DEF Requests!orchestrator_vars, Requests!stages, Requests!loop,
    Requests!client
<1> QED BY <1>1, <1>2, <1>3, <1>4, <1>5, <1>6, <1>7, <1>8, <1>9, <1>10, <1>11, <1>12
        DEF Requests!OrchestratorNext, Requests!Orchestrate

(* When all is quiet no abort is on its way and nothing is on its way to   *)
(* stage 1: a state that was kept would have one of them.                  *)
LEMMA OrchestratorIsSound ==
  ASSUME Requests!OrchestratorAssumption, Requests!OrchestratorInvariant
         PROVE Requests!RequestsSound
<1> USE DEF Requests!OrchestratorInvariant
<1>1. Requests!ForwardedOnce
  BY DEF Requests!ForwardedOnce, Requests!SubmittedOnce
<1>2. Requests!AnsweredOnce
  BY DEF Requests!AnsweredOnce, Requests!AnswersMatch
<1>3. ASSUME Requests!Quiet
      PROVE  /\ request_states = {} /\ tracker.pending = {}
             /\ \A c \in tracker.companions :
                  generate[Requests!ParentOf(c)] = "returned" /\
                    c \notin attached[Requests!ParentOf(c)]
  <2>1. /\ \A x : ~Requests!Queued(x)
        /\ \A c : ~Requests!AtModel(c)
        /\ Requests!Serves /\ Requests!Aborting = {} /\ routing = Requests!Nothing /\
             expanding = {}
        /\ \A c : routing # <<c>>
        /\ \A p \in Parent : ~Requests!InDiffusion(p) /\ p \notin running[1] /\
             generate[p] # "waiting"
    <3>1. /\ request_queue = <<>> /\ DOMAIN request_queue = {}
          /\ \A s \in Requests!Stage : running[s] = {} /\ DOMAIN stage_outputs[s] = {}
          /\ 0 \in Requests!Stage /\ 1 \in Requests!Stage
      BY <1>3 DEF Requests!Quiet, Requests!Stage
    <3> QED BY <1>3, <3>1, Lengths
            DEF Requests!Quiet, Requests!Queued, Requests!AtModel, Requests!PutOutBy,
              Requests!Serves, Requests!Aborting, Requests!Nothing, Requests!InDiffusion,
                Requests!Waiting
  <2>2. \A c \in Requests!Companions : c \notin request_states
    BY <2>1 DEF Requests!CompanionsMatch
  <2>3. \A c \in tracker.companions : c \in tracker.done
    BY <2>1, <2>2 DEF Requests!CompanionsMatch, Requests!TypeOK
  <2>4. tracker.pending = {}
    BY <2>3 DEF Requests!PendingMatches, Requests!CompanionsTracked
  <2>5. ASSUME NEW p \in Parent, p \in request_states PROVE FALSE
    <3>1. generate[p] \notin {"raised", "cancelled"}
      BY <2>1, <2>5 DEF Requests!AbortIsDue
    <3>2. generate[p] # "new"
      BY <2>5 DEF Requests!NothingEarly, Requests!Unknown
    <3>3. generate[p] = "returned"
      BY <2>1, <3>1, <3>2 DEF Requests!TypeOK
    <3>4. answers[p] = 1
      BY <3>3 DEF Requests!CallersMatch
    <3> QED BY <2>5, <3>4 DEF Requests!AnswersMatch
  <2>6. ASSUME NEW c \in tracker.companions
        PROVE  generate[Requests!ParentOf(c)] = "returned" /\
               c \notin attached[Requests!ParentOf(c)]
    <3>1. PICK p \in Parent : p = Requests!ParentOf(c) /\ c \in CompanionsOf[p]
      BY CompanionSets DEF Requests!TypeOK
    <3>2. generate[p] \notin {"raised", "cancelled"}
      BY <2>1, <2>6, <3>1 DEF Requests!AbortIsDue
    <3>3. generate[p] # "new"
      BY <2>6, <3>1 DEF Requests!NothingEarly, Requests!UnknownCompanion
    <3>4. generate[p] = "returned"
      BY <2>1, <3>2, <3>3 DEF Requests!TypeOK
    <3>5. attached[p] \cap tracker.companions = {}
      BY <3>4 DEF Requests!CallersMatch
    <3> QED BY <3>1, <3>4, <3>5
  <2> QED BY <2>2, <2>4, <2>5, <2>6 DEF Requests!TypeOK, Requests!Id
<1> QED BY <1>1, <1>2, <1>3 DEF Requests!RequestsSound, Requests!Forgotten

LEMMA InitRpcs ==
  ASSUME Rpcs!RpcAssumption, Rpcs!RpcInit PROVE Rpcs!RpcInvariant
BY DEF Rpcs!RpcAssumption, Rpcs!RpcInit, Rpcs!RpcInvariant, Rpcs!OwnResults, Rpcs!Nobody

(* A caller enters with the lock that nobody holds and leaves it.          *)
LEMMA StepRpcs ==
  ASSUME Rpcs!RpcAssumption, Rpcs!RpcInvariant, [Rpcs!RpcNext]_(Rpcs!rpc_vars)
  PROVE  Rpcs!RpcInvariant'
<1> USE DEF Rpcs!RpcInvariant, Rpcs!RpcAssumption, Rpcs!OwnResults
<1>1. CASE \E r \in RpcId : Rpcs!Call(r)
  BY <1>1 DEF Rpcs!Call
<1>2. CASE \E r \in RpcId : Rpcs!Acquire(r)
  BY <1>2 DEF Rpcs!Acquire
<1>3. CASE \E r \in RpcId : Rpcs!Receive(r)
  <2>1. PICK r \in RpcId : Rpcs!Receive(r)
    BY <1>3
  <2>2. CASE UNCHANGED <<call, rpc_lock, reply>>
    BY <2>2
  <2>3. CASE /\ call' = [call EXCEPT ![r] = "raised"] /\ rpc_lock' = Rpcs!Nobody
             /\ reply' = reply
    BY <2>1, <2>3 DEF Rpcs!Receive
  <2>4. CASE /\ call' = [call EXCEPT ![r] = "returned"] /\ rpc_lock' = Rpcs!Nobody
             /\ reply' = [reply EXCEPT ![r] = r]
    BY <2>1, <2>4 DEF Rpcs!Receive
  <2> QED BY <2>1, <2>2, <2>3, <2>4 DEF Rpcs!Receive, Rpcs!Leave, Rpcs!Accepts
<1>4. CASE \E r \in RpcId : Rpcs!Timeout(r)
  BY <1>4 DEF Rpcs!Timeout, Rpcs!Leave
<1>5. CASE Rpcs!Serve \/ Rpcs!Answer \/ Rpcs!CrashThread \/ UNCHANGED Rpcs!rpc_vars
  BY <1>5 DEF Rpcs!Serve, Rpcs!Answer, Rpcs!CrashThread, Rpcs!rpc_vars
<1> QED BY <1>1, <1>2, <1>3, <1>4, <1>5 DEF Rpcs!RpcNext, Rpcs!RpcStep

-------------------------------------------------------------------------------
(* The cache of a request on its way to the next stage.                    *)

(* The operators on queues are the same from there and from here.          *)
LEMMA SameTransferOps ==
  /\ \A q : Kv!IsInjective(q) = IsInjective(q) /\ Kv!Range(q) = Range(q)
  /\ \A q, S : Kv!Without(q, S) = Without(q, S)
<1>1. \A q : Kv!IsInjective(q) = IsInjective(q) /\ Kv!Range(q) = Range(q)
  BY DEF Kv!IsInjective, IsInjective, Kv!Range, Range
<1>2. \A q, S : Kv!Keep(q, S) = Keep(q, S)
  BY DEF Kv!Keep, Keep, Kv!Rank, Rank, Kv!Cardinality, Cardinality
<1> QED BY <1>1, <1>2 DEF Kv!Without, Without

LEMMA TransferTyped ==
  ASSUME NEW T, NEW q \in Seq(T)
  PROVE  q \in Seq(Kv!Range(q)) /\ Kv!Range(q) \subseteq T
BY SelfTyped, SameTransferOps

LEMMA TransferAppends ==
  ASSUME NEW T, NEW q \in Seq(T), NEW e \in T
  PROVE  /\ Append(q, e) \in Seq(T)
         /\ Kv!Range(Append(q, e)) = Kv!Range(q) \cup {e}
         /\ Kv!IsInjective(q) /\ e \notin Kv!Range(q) =>
              Kv!IsInjective(Append(q, e))
BY AppendQueueProperties, SameTransferOps

LEMMA TransferRemoves ==
  ASSUME NEW T, NEW q \in Seq(T), NEW S
  PROVE  /\ Kv!Without(q, S) \in Seq(T)
         /\ Kv!Range(Kv!Without(q, S)) = Kv!Range(q) \ S
         /\ Kv!IsInjective(q) => Kv!IsInjective(Kv!Without(q, S))
BY WithoutProperties, SameTransferOps

LEMMA TransferSplits ==
  ASSUME NEW T, NEW q \in Seq(T), NEW n \in 0 .. Len(q), Kv!IsInjective(q)
  PROVE  /\ SubSeq(q, 1, n) \in Seq(T) /\ SubSeq(q, n + 1, Len(q)) \in Seq(T)
         /\ Kv!Range(q) =
              Kv!Range(SubSeq(q, 1, n)) \cup Kv!Range(SubSeq(q, n + 1, Len(q)))
         /\ Kv!Range(SubSeq(q, 1, n)) \cap Kv!Range(SubSeq(q, n + 1, Len(q))) = {}
         /\ Kv!IsInjective(SubSeq(q, 1, n))
         /\ Kv!IsInjective(SubSeq(q, n + 1, Len(q)))
BY SplitInjective, SameTransferOps

LEMMA TransferJoins ==
  ASSUME NEW T, NEW stay \in Seq(T), NEW back \in Seq(T), NEW admitted \in Seq(T),
         NEW later \in Seq(T),
         Kv!IsInjective(stay), Kv!IsInjective(back), Kv!IsInjective(admitted),
         Kv!IsInjective(later), Kv!Range(stay) \cap Kv!Range(admitted) = {},
         Kv!Range(back) \cap Kv!Range(later) = {}
  PROVE  /\ stay \o admitted \in Seq(T) /\ back \o later \in Seq(T)
         /\ Kv!IsInjective(stay \o admitted) /\ Kv!IsInjective(back \o later)
         /\ Kv!Range(stay \o admitted) = Kv!Range(stay) \cup Kv!Range(admitted)
         /\ Kv!Range(back \o later) = Kv!Range(back) \cup Kv!Range(later)
BY Requeued, SameTransferOps

(* The steps that are out, one after another.                              *)

(* A new step does not change what was before it.                          *)
LEMMA BeforeNew ==
  ASSUME NEW T, NEW s \in Seq(T), NEW e, NEW was, NEW names, NEW n \in 1 .. Len(s) + 1, NEW r,
         NEW mark, Kv!Readable(s, was, names, n, r, mark)
  PROVE  Kv!Readable(Append(s, e), was, names, n, r, mark)
<1>1. Len(s) \in Nat
  BY LenProperties
<1>2. \A k \in 1 .. n - 1 : Append(s, e)[k] = s[k]
  <2>1. s \in Seq(T \cup {e}) /\ e \in T \cup {e}
    <3>1. DOMAIN s = 1 .. Len(s) /\ \A i \in 1 .. Len(s) : s[i] \in T \cup {e}
      BY LenProperties, ElementOfSeq
    <3>2. s = [i \in 1 .. Len(s) |-> s[i]]
      BY LenProperties
    <3>3. [i \in 1 .. Len(s) |-> s[i]] \in Seq(T \cup {e})
      BY <1>1, <3>1, IsASeq
    <3> QED BY <3>2, <3>3
  <2>2. \A k \in 1 .. Len(s) : Append(s, e)[k] = s[k]
    BY <2>1, AppendProperties
  <2> QED BY <1>1, <2>2
<1> DEFINE t == Append(s, e)
<1> HIDE DEF t
<1>3. \A k \in 1 .. n - 1 : t[k] = s[k]
  BY <1>2 DEF t
<1>4. ASSUME Kv!Knows(s, names, n, r) PROVE Kv!Knows(t, names, n, r)
  BY <1>3, <1>4 DEF Kv!Knows
<1>5. ASSUME NEW b, NEW i, Kv!HoldsToken(s, was, n, b, r, i)
      PROVE  Kv!HoldsToken(t, was, n, b, r, i)
  <2>1. CASE was[b] = <<r, i>> /\ \A m \in 1 .. n - 1 : ~Kv!Writes(s[m], b)
    BY <1>3, <2>1 DEF Kv!HoldsToken
  <2>2. ASSUME NEW k \in 1 .. n - 1,
               r \in DOMAIN s[k].blocks, s[k].blocks[r] = b, s[k].tokens[r] = i,
               \A m \in k + 1 .. n - 1 : ~Kv!Writes(s[m], b)
        PROVE  Kv!HoldsToken(t, was, n, b, r, i)
    <3>1. t[k] = s[k] /\ \A m \in k + 1 .. n - 1 : t[m] = s[m]
      BY <1>1, <1>3
    <3>2. \A m \in k + 1 .. n - 1 : ~Kv!Writes(t[m], b)
      BY <2>2, <3>1
    <3> QED BY <2>2, <3>1, <3>2 DEF Kv!HoldsToken
  <2> QED BY <1>5, <2>1, <2>2 DEF Kv!HoldsToken
<1> QED BY <1>4, <1>5 DEF Kv!Readable, t

(* It leaves a block that it does not write as it was.                     *)
LEMMA HoldsStill ==
  ASSUME NEW s, NEW was, NEW n \in Nat \ {0}, NEW b, NEW r, NEW i,
         Kv!HoldsToken(s, was, n, b, r, i), ~Kv!Writes(s[n], b)
  PROVE  Kv!HoldsToken(s, was, n + 1, b, r, i)
<1>1. \A m \in 1 .. n : m \in 1 .. n - 1 \/ m = n
  OBVIOUS
<1>2. n + 1 - 1 = n
  OBVIOUS
<1>3. CASE was[b] = <<r, i>> /\ \A m \in 1 .. n - 1 : ~Kv!Writes(s[m], b)
  <2>1. \A m \in 1 .. n : ~Kv!Writes(s[m], b)
    BY <1>1, <1>3
  <2> QED BY <1>2, <1>3, <2>1 DEF Kv!HoldsToken
<1>4. ASSUME NEW k \in 1 .. n - 1,
             r \in DOMAIN s[k].blocks, s[k].blocks[r] = b, s[k].tokens[r] = i,
             \A m \in k + 1 .. n - 1 : ~Kv!Writes(s[m], b)
      PROVE  Kv!HoldsToken(s, was, n + 1, b, r, i)
  <2>1. k \in 1 .. n /\ \A m \in k + 1 .. n : m \in k + 1 .. n - 1 \/ m = n
    OBVIOUS
  <2>2. \A m \in k + 1 .. n : ~Kv!Writes(s[m], b)
    BY <1>4, <2>1
  <2> QED BY <1>2, <1>4, <2>1, <2>2 DEF Kv!HoldsToken
<1> QED BY <1>3, <1>4 DEF Kv!HoldsToken

(* What it writes is there.                                                *)
LEMMA HoldsWritten ==
  ASSUME NEW s, NEW was, NEW n \in Nat \ {0}, NEW r,
         r \in DOMAIN s[n].blocks
  PROVE  Kv!HoldsToken(s, was, n + 1, s[n].blocks[r], r, s[n].tokens[r])
<1>1. n \in 1 .. n + 1 - 1 /\ n + 1 .. n + 1 - 1 = {}
  OBVIOUS
<1> QED BY <1>1 DEF Kv!HoldsToken

LEMMA KnowsStill ==
  ASSUME NEW s, NEW was, NEW n \in Nat \ {0}, NEW r,
         Kv!Knows(s, was, n, r), r \notin s[n].finished
  PROVE  Kv!Knows(s, was, n + 1, r)
<1>1. /\ \A m \in 1 .. n + 1 - 1 : m \in 1 .. n - 1 \/ m = n
      /\ \A m \in 1 .. n - 1 : m \in 1 .. n + 1 - 1
  OBVIOUS
<1> QED BY <1>1 DEF Kv!Knows

LEMMA KnowsAnew ==
  ASSUME NEW s, NEW was, NEW n \in Nat \ {0}, NEW r,
         r \in DOMAIN s[n].blocks, \A m \in 1 .. n : r \notin s[m].finished
  PROVE  Kv!Knows(s, was, n + 1, r)
<1>1. n + 1 - 1 = n /\ n \in 1 .. n
  OBVIOUS
<1> QED BY <1>1 DEF Kv!Knows

(* The first step done, the rest find what they found.                     *)
LEMMA AfterFirst ==
  ASSUME NEW s, NEW t, NEW n \in Nat, n >= 2, \A k \in 1 .. n - 2 : t[k] = s[k + 1],
         Kv!IsStep(s[1]), content \in [Block -> Kv!Owner \union {<<>>}], NEW r, NEW mark \in Seq(Block),
         Kv!Readable(s, content, resident, n, r, mark)
  PROVE  Kv!Readable(t, Kv!Written(s[1]), (resident \ s[1].finished) \union DOMAIN s[1].blocks, n - 1, r,
                  mark)
<1> DEFINE names == (resident \ s[1].finished) \union DOMAIN s[1].blocks
<1>1. \A m \in 1 .. n - 1 : m = 1 \/ (m - 1 \in 1 .. n - 2 /\ t[m - 1] = s[m])
  <2> TAKE m \in 1 .. n - 1
  <2>1. CASE m # 1
    <3>1. m - 1 \in 1 .. n - 2 /\ m - 1 + 1 = m
      BY <2>1
    <3> QED BY <3>1
  <2> QED BY <2>1
<1>2. \A m \in 1 .. n - 2 : m + 1 \in 1 .. n - 1 /\ t[m] = s[m + 1]
  OBVIOUS
<1>3. 1 \in 1 .. n - 1 /\ n - 1 - 1 = n - 2
  OBVIOUS
<1>4. ASSUME Kv!Knows(s, resident, n, r)
      PROVE  Kv!Knows(t, names, n - 1, r)
  <2>1. \A m \in 1 .. n - 2 : r \notin t[m].finished
    BY <1>2, <1>4 DEF Kv!Knows
  <2>2. r \notin s[1].finished
    BY <1>3, <1>4 DEF Kv!Knows
  <2>3. CASE r \in resident
    BY <1>3, <2>1, <2>2, <2>3 DEF Kv!Knows
  <2>4. ASSUME NEW k \in 1 .. n - 1, r \in DOMAIN s[k].blocks
        PROVE  r \in names \/ \E m \in 1 .. n - 2 : r \in DOMAIN t[m].blocks
    BY <1>1, <2>4
  <2> QED BY <1>3, <1>4, <2>1, <2>3, <2>4 DEF Kv!Knows
<1>5. ASSUME NEW b \in Block, NEW i, Kv!HoldsToken(s, content, n, b, r, i)
      PROVE  Kv!HoldsToken(t, Kv!Written(s[1]), n - 1, b, r, i)
  <2>1. CASE content[b] = <<r, i>> /\ \A m \in 1 .. n - 1 : ~Kv!Writes(s[m], b)
    <3>1. Kv!Written(s[1])[b] = <<r, i>>
      BY <1>3, <2>1 DEF Kv!Written, Kv!Writes
    <3>2. \A m \in 1 .. n - 2 : ~Kv!Writes(t[m], b)
      BY <1>2, <2>1
    <3> QED BY <1>3, <3>1, <3>2 DEF Kv!HoldsToken
  <2>2. ASSUME NEW k \in 1 .. n - 1,
               r \in DOMAIN s[k].blocks, s[k].blocks[r] = b, s[k].tokens[r] = i,
               \A m \in k + 1 .. n - 1 : ~Kv!Writes(s[m], b)
        PROVE  Kv!HoldsToken(t, Kv!Written(s[1]), n - 1, b, r, i)
    <3>1. CASE k = 1
      <4>1. Kv!Written(s[1])[b] = <<r, i>>
        <5>1. \A q \in DOMAIN s[1].blocks : s[1].blocks[q] = b => q = r
          BY <2>2, <3>1 DEF Kv!IsStep
        <5>2. (CHOOSE q \in DOMAIN s[1].blocks : s[1].blocks[q] = b) = r
          BY <2>2, <3>1, <5>1
        <5>3. Kv!Written(s[1])[b] = LET q == CHOOSE q \in DOMAIN s[1].blocks : s[1].blocks[q] = b
                                IN  <<q, s[1].tokens[q]>>
          BY <2>2, <3>1 DEF Kv!Written
        <5> QED BY <2>2, <3>1, <5>2, <5>3
      <4>2. ASSUME NEW m \in 1 .. n - 2 PROVE ~Kv!Writes(t[m], b)
        <5>1. m + 1 \in k + 1 .. n - 1
          BY <3>1
        <5> QED BY <1>2, <2>2, <5>1
      <4> QED BY <1>3, <4>1, <4>2 DEF Kv!HoldsToken
    <3>2. CASE k # 1
      <4>1. k - 1 \in 1 .. n - 2 /\ t[k - 1] = s[k] /\ k - 1 + 1 = k
        BY <1>1, <3>2
      <4>2. ASSUME NEW m \in k .. n - 2 PROVE ~Kv!Writes(t[m], b)
        <5>1. m + 1 \in k + 1 .. n - 1 /\ m \in 1 .. n - 2
          OBVIOUS
        <5> QED BY <1>2, <2>2, <5>1
      <4> QED BY <1>3, <2>2, <4>1, <4>2 DEF Kv!HoldsToken
    <3> QED BY <3>1, <3>2
  <2> QED BY <1>5, <2>1, <2>2 DEF Kv!HoldsToken
<1>6. \A i \in DOMAIN mark : mark[i] \in Block
  BY LenProperties
<1> QED BY <1>4, <1>5, <1>6 DEF Kv!Readable

LEMMA InitKv == ASSUME Kv!KvAssumption, Kv!KvInit PROVE Kv!KvInvariant
<1> USE DEF Kv!KvAssumption, Kv!KvInit
<1>1. Kv!TypeOK
  <2>1. Kv!IsPartial(needing, Seq(Block))
    BY DEF Kv!IsPartial, Kv!NoMarks
  <2>2. scheduled \in Seq(Kv!Range(scheduled)) /\ DOMAIN scheduled = {} /\ executed \in Seq(Kv!Outcome)
        /\ kv_waiting \in Seq(Req) /\ kv_running \in Seq(Req) /\ <<>> \in Seq(Block)
        /\ \A T : <<>> \in Seq(T)
    BY EmptySeq
  <2>3. shipped \in [Req -> Seq([known : BOOLEAN, tokens : Seq(Kv!Owner \union {<<>>})])]
    BY <2>2
  <2> QED BY <2>1, <2>2, <2>3 DEF Kv!TypeOK, Kv!Finished
<1>2. Kv!Queues
  <2>1. Kv!IsInjective(kv_waiting) /\ Kv!Range(kv_waiting) = {}
    BY DEF Kv!IsInjective, Kv!Range
  <2> QED BY <2>1 DEF Kv!Queues, Kv!Yields
<1>3. Kv!Blocks
  <2>1. \A r \in Req : Kv!Range(held[r]) = {}
    BY DEF Kv!Range
  <2> QED BY <2>1 DEF Kv!Blocks
<1>4. DOMAIN needing = {} /\ DOMAIN scheduled = {} /\ DOMAIN executed = {}
  BY DEF Kv!NoMarks
<1>5. Kv!Contents
  BY <1>4 DEF Kv!Contents, Kv!Alive
<1>6. Kv!Marks
  BY <1>4 DEF Kv!Marks, Kv!Comes
<1>7. Kv!Heard
  BY <1>4 DEF Kv!Heard
<1>8. Kv!OneOut
  <2>1. Len(scheduled) = 0 /\ Len(executed) = 0
    OBVIOUS
  <2> QED BY <1>4, <2>1 DEF Kv!OneOut, Kv!Yields
<1>9. Kv!OwnTokens /\ Kv!SentOnce
  <2>1. \A r \in Req : shipped[r] = <<>> /\ Len(shipped[r]) = 0 /\ DOMAIN shipped[r] = {}
    OBVIOUS
  <2> QED BY <2>1 DEF Kv!OwnTokens, Kv!SentOnce
<1>10. Kv!GoneWhenSent /\ Kv!KeptForTransfer /\ Kv!NothingStranded /\ Kv!ReadyBeforeStop
  BY DEF Kv!GoneWhenSent, Kv!KeptForTransfer, Kv!NothingStranded, Kv!ReadyBeforeStop
<1> QED BY <1>1, <1>2, <1>3, <1>5, <1>6, <1>7, <1>8, <1>9, <1>10 DEF Kv!KvInvariant, Kv!KvSound

LEMMA KvStutters == ASSUME Kv!KvInvariant, UNCHANGED Kv!kvVars PROVE Kv!KvInvariant'
<1> USE DEF Kv!KvInvariant, Kv!kvVars
<1>1. Kv!TypeOK' /\ Kv!Blocks'
  BY DEF Kv!TypeOK, Kv!Blocks
<1>2. Kv!Queues'
  BY DEF Kv!Queues, Kv!Alive, Kv!Yields
<1>3. Kv!Contents'
  BY DEF Kv!Contents, Kv!Alive
<1>4. Kv!Marks'
  BY DEF Kv!Marks, Kv!Comes
<1>5. Kv!Heard'
  BY DEF Kv!Heard, Kv!Alive, Kv!Comes
<1>6. Kv!OneOut'
  BY DEF Kv!OneOut, Kv!Alive, Kv!Yields, Kv!Whole
<1>7. Kv!KvSound'
  BY DEF Kv!KvSound, Kv!OwnTokens, Kv!SentOnce, Kv!GoneWhenSent, Kv!KeptForTransfer,
    Kv!NothingStranded, Kv!ReadyBeforeStop, Kv!Comes, Kv!Whole
<1> QED BY <1>1, <1>2, <1>3, <1>4, <1>5, <1>6, <1>7

(* What an empty mark says.                                                *)
LEMMA EmptyReadable ==
  ASSUME NEW s, NEW was, NEW names, NEW n, NEW r PROVE Kv!Readable(s, was, names, n, r, <<>>)
<1>1. DOMAIN <<>> = {}
  OBVIOUS
<1> QED BY <1>1 DEF Kv!Readable

LEMMA ArriveKv ==
  ASSUME Kv!KvInvariant, NEW r \in Req, Kv!Arrive(r) PROVE Kv!KvInvariant'
<1> USE DEF Kv!KvInvariant, Kv!KvSound
<1>0. /\ kv_status[r] = "new" /\ kv_status' = [kv_status EXCEPT ![r] = "waiting"]
      /\ kv_requests' = kv_requests \union {r} /\ kv_waiting' = Append(kv_waiting, r)
      /\ UNCHANGED <<criteria, kv_running, held, kv_computed, generated, needing, active, keeping,
           triggered, stopping, leaving, scheduled, executed, content, resident, shipped, told, turn>>
  BY DEF Kv!Arrive
<1>1. /\ r \notin kv_requests /\ r \notin triggered /\ kv_computed[r] = 0 /\ held[r] = <<>>
      /\ kv_status \in [Req -> {"new", "waiting", "running", "preempted"} \union Kv!Finished]
      /\ \A q \in kv_requests : q \in Req
  BY <1>0 DEF Kv!Queues, Kv!NothingStranded, Kv!TypeOK
<1>2. /\ kv_waiting' \in Seq(Req) /\ Kv!Range(kv_waiting') = Kv!Range(kv_waiting) \union {r}
      /\ Kv!IsInjective(kv_waiting) /\ r \notin Kv!Range(kv_waiting) => Kv!IsInjective(kv_waiting')
  BY <1>0, TransferAppends DEF Kv!TypeOK
<1>3. \A q \in Req : /\ q # r => kv_status'[q] = kv_status[q] /\ (Kv!Alive(q)' <=> Kv!Alive(q))
                     /\ kv_status'[r] = "waiting" /\ ~ Kv!Alive(r) /\ kv_status'[r] \notin Kv!Finished
                     /\ kv_status[r] \notin Kv!Finished
  BY <1>0, <1>1 DEF Kv!Alive, Kv!Finished
<1>4. Kv!TypeOK'
  BY <1>0, <1>1, <1>2 DEF Kv!TypeOK
<1>5. Kv!Queues'
  <2>1. r \notin Kv!Range(kv_waiting) \union Kv!Range(kv_running)
    BY <1>3 DEF Kv!Queues
  <2>2. Kv!Alive(r)'
    BY <1>0, <1>3 DEF Kv!Alive
  <2>3. \A q \in Kv!Range(kv_waiting) \union Kv!Range(kv_running) : q \in Req
    BY DEF Kv!TypeOK, Kv!Queues, Kv!Alive
  <2>4. \A q \in Kv!Range(kv_waiting') \union Kv!Range(kv_running') : Kv!Alive(q)'
    BY <1>0, <1>2, <1>3, <2>1, <2>2, <2>3 DEF Kv!Queues
  <2>5. \A q \in Req : kv_status'[q] = "new" => kv_status[q] = "new" /\ q # r
    BY <1>3
  <2> QED BY <1>0, <1>2, <2>1, <2>4, <2>5 DEF Kv!Queues, Kv!Yields
<1>6. Kv!Blocks'
  <2>1. Len(held[r]) = 0
    BY <1>1
  <2> QED BY <1>0, <1>1, <2>1 DEF Kv!Blocks
<1>7. Kv!Contents'
  <2>1. \A q \in Req : Kv!Alive(q)' =>
          Kv!Readable(scheduled, content, resident, Len(scheduled) + 1, q, held[q])
    BY <1>1, <1>3, EmptyReadable DEF Kv!Contents
  <2>2. \A q : kv_status[q] \in Kv!Finished /\ q \in Req => kv_status'[q] \in Kv!Finished
    BY <1>3
  <2>3. \A q \in leaving \union UNION {scheduled[k].finished : k \in DOMAIN scheduled} :
          kv_status'[q] \in Kv!Finished
    BY <1>0, <1>3, <2>2 DEF Kv!Contents
  <2> QED BY <1>0, <2>1, <2>3 DEF Kv!Contents
<1>8. Kv!Marks'
  BY <1>0, <1>3 DEF Kv!Marks, Kv!Comes
<1>9. Kv!Heard'
  <2>1. DOMAIN needing \subseteq Req /\ r \notin DOMAIN needing
    BY <1>1, <1>3 DEF Kv!TypeOK, Kv!IsPartial, Kv!Marks, Kv!Comes
  <2>2. \A q \in DOMAIN needing : Kv!Alive(q)' <=> Kv!Alive(q)
    BY <1>3, <2>1
  <2>3. \A q \in triggered : q \in Req /\ (Kv!Alive(q)' <=> Kv!Alive(q))
    BY <1>1, <1>3 DEF Kv!TypeOK
  <2> QED BY <1>0, <2>2, <2>3 DEF Kv!Heard, Kv!Comes
<1>10. Kv!OneOut'
  <2>1. ASSUME NEW q \in Req PROVE /\ Kv!Alive(q)' => Kv!Alive(q) \/ q = r
                                  /\ kv_status'[q] # "aborted" => kv_status[q] # "aborted"
    BY <1>0, <1>1, <1>3
  <2>2. ASSUME NEW q \in Req, Kv!Alive(q)', Kv!Yields(q)', criteria.flight = 1
        PROVE  kv_computed[q] >= Prompt
    <3>1. Kv!Yields(q)
      BY <1>0, <2>2 DEF Kv!Yields
    <3>2. q # r
      BY <1>0, <3>1 DEF Kv!Queues
    <3> QED BY <1>3, <2>2, <3>1, <3>2 DEF Kv!OneOut
  <2>3. ASSUME criteria.flight = 1,
               NEW q \in told \union UNION {executed[k].extracted : k \in DOMAIN executed}
        PROVE  kv_status'[q] # "aborted" => shipped[q] # <<>>
    BY <1>0, <1>1, <1>3, <2>3 DEF Kv!OneOut
  <2>4. DOMAIN needing \subseteq Req /\ \A k \in DOMAIN scheduled :
          DOMAIN scheduled[k].sends \subseteq Req
    BY DEF Kv!TypeOK, Kv!IsPartial, Kv!IsStep
  <2> QED BY <1>0, <2>1, <2>2, <2>3, <2>4 DEF Kv!OneOut, Kv!Whole
<1>11. Kv!OwnTokens' /\ Kv!SentOnce' /\ Kv!KeptForTransfer'
  BY <1>0 DEF Kv!OwnTokens, Kv!SentOnce, Kv!KeptForTransfer, Kv!Comes
<1>12. Kv!GoneWhenSent'
  BY <1>0, <1>3 DEF Kv!GoneWhenSent, Kv!Whole
<1>13. Kv!NothingStranded'
  <2>1. r \notin keeping
    BY <1>1, <1>3 DEF Kv!KeptForTransfer, Kv!Marks
  <2> QED BY <1>0, <1>1, <1>3, <2>1 DEF Kv!NothingStranded
<1>14. Kv!ReadyBeforeStop'
  BY <1>0, <1>3 DEF Kv!ReadyBeforeStop
<1> QED BY <1>4, <1>5, <1>6, <1>7, <1>8, <1>9, <1>10, <1>11, <1>12, <1>13, <1>14

(* A mark is all that the request holds.                                   *)
LEMMA MarkedBlocks ==
  ASSUME Kv!TypeOK, Kv!Blocks, NEW set \in SUBSET kv_requests
  PROVE  /\ Kv!IsPartial(Kv!Marked(set), Seq(Block))
         /\ DOMAIN Kv!Marked(set) = DOMAIN needing \union set
         /\ \A r \in DOMAIN needing : Kv!Marked(set)[r] = needing[r]
         /\ \A r \in set \ DOMAIN needing : Kv!Marked(set)[r] = held[r]
<1>1. ASSUME NEW r \in set
      PROVE  r \in Req /\ held[r] \in Seq(Block) /\ Kv!FirstOf(held[r], kv_computed[r]) = held[r]
  <2>1. r \in Req /\ held[r] \in Seq(Block) /\ Len(held[r]) = kv_computed[r]
    BY DEF Kv!TypeOK, Kv!Blocks
  <2>2. Kv!FirstOf(held[r], Len(held[r])) = SubSeq(held[r], 1, Len(held[r]))
    BY DEF Kv!FirstOf
  <2>3. SubSeq(held[r], 1, Len(held[r])) = held[r]
    BY <2>1, SubSeqFull
  <2> QED BY <2>1, <2>2, <2>3
<1>2. DOMAIN needing \subseteq Req /\ \A r \in DOMAIN needing : needing[r] \in Seq(Block)
  BY DEF Kv!TypeOK, Kv!IsPartial
<1>3. Kv!Marked(set) = [r \in DOMAIN needing \union set |->
                       IF r \in DOMAIN needing THEN needing[r] ELSE Kv!FirstOf(held[r], kv_computed[r])]
  BY DEF Kv!Marked
<1> DEFINE m == Kv!Marked(set)
<1>4. /\ DOMAIN m = DOMAIN needing \union set
      /\ m = [r \in DOMAIN m |-> m[r]]
      /\ \A r \in DOMAIN needing : m[r] = needing[r]
      /\ \A r \in set \ DOMAIN needing : m[r] = held[r]
  BY <1>1, <1>3
<1> HIDE DEF m
<1>5. \A r \in DOMAIN m : m[r] \in Seq(Block)
  BY <1>1, <1>2, <1>4
<1> QED BY <1>1, <1>2, <1>4, <1>5 DEF Kv!IsPartial, m

(* A request that goes on and was not triggered has no mark.               *)
LEMMA Unmarked ==
  ASSUME Kv!TypeOK, Kv!Marks, NEW r \in Req, r \notin triggered, Kv!Alive(r)
  PROVE  ~Kv!Comes(r) /\ shipped[r] = <<>>
BY DEF Kv!Marks, Kv!Alive

LEMMA AbortKv ==
  ASSUME Kv!KvInvariant, NEW r \in Req, Kv!Abort(r) PROVE Kv!KvInvariant'
<1> USE DEF Kv!KvInvariant, Kv!KvSound
<1>0. /\ Kv!Alive(r) /\ kv_status' = [kv_status EXCEPT ![r] = "aborted"]
      /\ kv_running' = Kv!Without(kv_running, {r}) /\ kv_waiting' = Kv!Without(kv_waiting, {r})
      /\ leaving' = leaving \union {r}
      /\ needing' = IF Kv!MarkedAtEnd(r) THEN Kv!Marked({r}) ELSE needing
      /\ UNCHANGED <<criteria, kv_computed, generated, active, triggered, stopping, scheduled, executed,
                     content, resident, shipped, told, turn>>
  BY DEF Kv!Abort
<1>1. \/ /\ Kv!Stays(r, active) /\ keeping' = keeping \union {r}
         /\ held' = held /\ kv_requests' = kv_requests
      \/ /\ ~Kv!Stays(r, active) /\ held' = [held EXCEPT ![r] = <<>>]
         /\ kv_requests' = kv_requests \ {r} /\ keeping' = keeping
  BY DEF Kv!Abort
<1>2. /\ r \in kv_requests /\ kv_status[r] \notin Kv!Finished
      /\ kv_status'[r] = "aborted" /\ kv_status'[r] \in Kv!Finished /\ ~Kv!Alive(r)'
      /\ kv_status' \in [Req -> {"new", "waiting", "running", "preempted"} \union Kv!Finished]
      /\ \A q \in Req : q # r => kv_status'[q] = kv_status[q] /\ held'[q] = held[q]
      /\ (held'[r] = <<>> \/ held'[r] = held[r])
      /\ held' \in [Req -> Seq(Block)]
  <2>1. kv_status \in [Req -> {"new", "waiting", "running", "preempted"} \union Kv!Finished]
        /\ held \in [Req -> Seq(Block)] /\ <<>> \in Seq(Block)
    BY EmptySeq DEF Kv!TypeOK
  <2>2. r \in kv_requests /\ kv_status[r] \notin Kv!Finished /\ "aborted" \in Kv!Finished
    BY <1>0 DEF Kv!Alive, Kv!Finished
  <2>3. kv_status'[r] = "aborted" /\ ~Kv!Alive(r)'
    BY <1>0, <2>1, <2>2 DEF Kv!Alive
  <2>4. kv_status' \in [Req -> {"new", "waiting", "running", "preempted"} \union Kv!Finished]
    BY <1>0, <2>1, <2>2
  <2>5. /\ held' \in [Req -> Seq(Block)] /\ (held'[r] = <<>> \/ held'[r] = held[r])
        /\ \A q \in Req : q # r => held'[q] = held[q]
    BY <1>1, <2>1
  <2>6. \A q \in Req : q # r => kv_status'[q] = kv_status[q]
    BY <1>0, <2>1
  <2> QED BY <2>2, <2>3, <2>4, <2>5, <2>6
<1>3. /\ kv_running' \in Seq(Req) /\ Kv!Range(kv_running') = Kv!Range(kv_running) \ {r}
      /\ kv_waiting' \in Seq(Req) /\ Kv!Range(kv_waiting') = Kv!Range(kv_waiting) \ {r}
      /\ Kv!IsInjective(kv_running') /\ Kv!IsInjective(kv_waiting')
  BY <1>0, TransferRemoves DEF Kv!TypeOK, Kv!Queues
<1>4. \A q \in Req : /\ Kv!Alive(q)' => q # r /\ Kv!Alive(q)
                     /\ q # r => (Kv!Alive(q)' <=> Kv!Alive(q))
                     /\ q # r => (q \in kv_requests' <=> q \in kv_requests)
  BY <1>1, <1>2 DEF Kv!Alive
<1>5. /\ Kv!IsPartial(needing', Seq(Block)) /\ DOMAIN needing \subseteq DOMAIN needing'
      /\ DOMAIN needing' \subseteq DOMAIN needing \union {r}
      /\ \A q \in DOMAIN needing : needing'[q] = needing[q]
      /\ r \in DOMAIN needing' \ DOMAIN needing => needing'[r] = held[r] /\ r \notin triggered
      /\ Kv!MarkedAtEnd(r) => r \in DOMAIN needing'
  <2>1. {r} \in SUBSET kv_requests
    BY <1>2
  <2>2. CASE Kv!MarkedAtEnd(r)
    BY <1>0, <2>1, <2>2, MarkedBlocks DEF Kv!MarkedAtEnd
  <2>3. CASE ~Kv!MarkedAtEnd(r)
    BY <1>0, <2>3 DEF Kv!TypeOK
  <2> QED BY <2>2, <2>3
<1>6. r \in DOMAIN needing' \ DOMAIN needing => ~Kv!Comes(r) /\ shipped[r] = <<>>
  BY <1>0, <1>5, Unmarked
<1>7. /\ DOMAIN needing \subseteq Req /\ r \in Req /\ DOMAIN needing' \subseteq Req
      /\ \A k \in DOMAIN scheduled : DOMAIN scheduled[k].sends \subseteq Req
  BY <1>5 DEF Kv!TypeOK, Kv!IsPartial, Kv!IsStep
<1>8. \A q \in Req : q # r => (Kv!Comes(q)' <=> Kv!Comes(q))
  BY <1>0, <1>5 DEF Kv!Comes
<1>9. \A q \in Req : Kv!Comes(q) => Kv!Comes(q)'
  BY <1>0, <1>5 DEF Kv!Comes
<1>10. Kv!TypeOK'
  <2>1. \A set \in {kv_requests, active, keeping, triggered, stopping, leaving, resident, told} :
          set \subseteq Req
    BY DEF Kv!TypeOK
  <2>2. \A set \in {kv_requests', active', keeping', triggered', stopping', leaving', resident', told'} :
          set \subseteq Req
    BY <1>0, <1>1, <2>1
  <2>3. /\ kv_computed' \in [Req -> Nat] /\ generated' \in [Req -> Nat]
        /\ scheduled' \in Seq(Kv!Range(scheduled')) /\ executed' \in Seq(Kv!Outcome)
        /\ \A k \in DOMAIN scheduled' : Kv!IsStep(scheduled'[k])
        /\ content' \in [Block -> Kv!Owner \union {<<>>}]
        /\ shipped' \in [Req -> Seq([known : BOOLEAN, tokens : Seq(Kv!Owner \union {<<>>})])]
        /\ turn' \in {"schedule", "update"}
    BY <1>0 DEF Kv!TypeOK
  <2> QED BY <1>2, <1>3, <1>5, <2>2, <2>3 DEF Kv!TypeOK
<1>11. Kv!Queues'
  <2>1. \A q \in Kv!Range(kv_waiting') \union Kv!Range(kv_running') : q \in Req /\ Kv!Alive(q)'
    BY <1>3, <1>4 DEF Kv!Queues, Kv!Alive, Kv!TypeOK
  <2>2. \A q \in Req : kv_status'[q] = "new" => kv_status[q] = "new" /\ q # r
    BY <1>2
  <2>3. kv_requests' \subseteq kv_requests
    BY <1>1
  <2> QED BY <1>0, <1>3, <2>1, <2>2, <2>3 DEF Kv!Queues, Kv!Yields
<1>12. Kv!Blocks'
  <2>1. \A q \in Req : Kv!Range(held'[q]) \subseteq Kv!Range(held[q])
    <3>1. Kv!Range(<<>>) = {}
      BY DEF Kv!Range
    <3> QED BY <1>2, <3>1
  <2>2. \A q \in kv_requests' : q \in kv_requests /\ held'[q] = held[q]
    BY <1>1, <1>2 DEF Kv!TypeOK
  <2> QED BY <1>0, <2>1, <2>2 DEF Kv!Blocks
<1>13. Kv!Contents'
  <2>1. \A q \in Req : Kv!Alive(q)' =>
          Kv!Readable(scheduled, content, resident, Len(scheduled) + 1, q, held'[q])
    BY <1>2, <1>4 DEF Kv!Contents
  <2>2. \A q \in DOMAIN needing' :
          Kv!Readable(scheduled, content, resident, Len(scheduled) + 1, q, needing'[q])
    <3> TAKE q \in DOMAIN needing'
    <3>1. CASE q \in DOMAIN needing
      BY <1>5, <3>1 DEF Kv!Contents
    <3>2. CASE q \notin DOMAIN needing
      BY <1>0, <1>5, <3>2 DEF Kv!Contents
    <3> QED BY <3>1, <3>2
  <2>3. \A q \in leaving' \union UNION {scheduled[k].finished : k \in DOMAIN scheduled} :
          kv_status'[q] \in Kv!Finished
    <3>1. \A q \in leaving \union UNION {scheduled[k].finished : k \in DOMAIN scheduled} :
            q \in Req /\ kv_status[q] \in Kv!Finished
      BY DEF Kv!Contents, Kv!TypeOK, Kv!IsStep
    <3> QED BY <1>0, <1>2, <3>1
  <2> QED BY <1>0, <2>1, <2>2, <2>3 DEF Kv!Contents
<1>14. Kv!Marks'
  <2>1. \A q \in Req : Kv!Comes(q)' \/ shipped'[q] # <<>> =>
          q \in triggered' \/ kv_status'[q] \in Kv!Finished
    BY <1>0, <1>2, <1>8 DEF Kv!Marks
  <2>2. \A q \in DOMAIN needing' : shipped[q] = <<>>
    BY <1>5, <1>6 DEF Kv!Marks
  <2>3. ASSUME NEW k \in DOMAIN scheduled, NEW q \in DOMAIN scheduled[k].sends
        PROVE  q \notin DOMAIN needing'
    BY <1>5, <1>6, <2>3 DEF Kv!Marks, Kv!Comes
  <2>4. ASSUME NEW k \in DOMAIN executed, NEW q \in executed[k].extracted
        PROVE  q \notin DOMAIN needing'
    BY <1>5, <1>6, <2>4 DEF Kv!Marks, Kv!Comes
  <2>5. /\ \A k \in DOMAIN scheduled : \A q \in DOMAIN scheduled[k].sends :
             /\ shipped[q] = <<>>
             /\ \A m \in DOMAIN scheduled : q \in DOMAIN scheduled[m].sends => m = k
             /\ \A m \in DOMAIN executed : q \notin executed[m].extracted
        /\ \A k \in DOMAIN executed : \A q \in executed[k].extracted :
             \A m \in DOMAIN executed : q \in executed[m].extracted => m = k
    BY DEF Kv!Marks
  <2>6. scheduled' = scheduled /\ executed' = executed /\ shipped' = shipped
    BY <1>0
  <2> QED BY <2>1, <2>2, <2>3, <2>4, <2>5, <2>6 DEF Kv!Marks
<1>15. Kv!Heard'
  <2>1. \A q \in active : q \in Req /\ Kv!Comes(q)' /\ q \notin DOMAIN needing'
    BY <1>5, <1>6, <1>9 DEF Kv!Heard, Kv!TypeOK
  <2>2. \A q \in triggered : q \in Req
    BY DEF Kv!TypeOK
  <2>3. \A q \in triggered : Kv!Alive(q)' => q \in DOMAIN needing' \/ q \in active \/ q \in told
    BY <1>4, <1>5, <2>2 DEF Kv!Heard
  <2>4. turn = "update" => \A q \in DOMAIN needing' : ~Kv!Alive(q)'
    BY <1>2, <1>4, <1>5, <1>7 DEF Kv!Heard
  <2>5. keeping' \subseteq kv_requests'
    <3>1. keeping \subseteq kv_requests
      BY DEF Kv!Heard
    <3>2. r \notin keeping
      BY <1>2 DEF Kv!NothingStranded
    <3> QED BY <1>1, <1>2, <3>1, <3>2
  <2> QED BY <1>0, <2>1, <2>3, <2>4, <2>5 DEF Kv!Heard
<1>16. Kv!OneOut'
  <2>1. \A q \in Req : kv_status'[q] # "aborted" => q # r /\ kv_status[q] # "aborted"
    BY <1>2
  <2>2. ASSUME NEW q \in Req, Kv!Alive(q)', Kv!Yields(q)', criteria.flight = 1
        PROVE  kv_computed[q] >= Prompt
    BY <1>0, <1>4, <2>2 DEF Kv!OneOut, Kv!Yields
  <2>3. ASSUME criteria.flight = 1,
               NEW q \in told \union UNION {executed[k].extracted : k \in DOMAIN executed}
        PROVE  kv_status'[q] # "aborted" => shipped[q] # <<>>
    BY <1>0, <1>2, <2>3 DEF Kv!OneOut
  <2>4. ASSUME criteria.flight = 1, NEW q \in DOMAIN needing'
        PROVE  kv_status'[q] # "aborted" => Len(needing'[q]) >= Prompt
    BY <1>5, <1>7, <2>1, <2>4 DEF Kv!OneOut, Kv!Whole
  <2> QED BY <1>0, <1>7, <2>1, <2>2, <2>3, <2>4 DEF Kv!OneOut, Kv!Whole
<1>17. Kv!OwnTokens' /\ Kv!SentOnce'
  BY <1>0 DEF Kv!OwnTokens, Kv!SentOnce
<1>18. Kv!GoneWhenSent'
  <2>1. \A q \in Req : kv_status'[q] \in {"stopped", "handed_over"} =>
          q # r /\ kv_status'[q] = kv_status[q]
    BY <1>2
  <2> QED BY <1>0, <1>4, <2>1 DEF Kv!GoneWhenSent, Kv!Whole
<1>19. Kv!KeptForTransfer'
  <2>1. ASSUME Kv!Stays(r, active) PROVE Kv!Comes(r)'
    <3>1. CASE r \in triggered
      BY <1>9, <2>1, <3>1 DEF Kv!Stays, Kv!Heard
    <3>2. CASE r \notin triggered
      BY <1>5, <2>1, <3>2 DEF Kv!Stays, Kv!MarkedAtEnd, Kv!Comes
    <3> QED BY <3>1, <3>2
  <2>2. \A q \in keeping : q \in Req
    BY DEF Kv!TypeOK
  <2> QED BY <1>1, <1>9, <2>1, <2>2 DEF Kv!KeptForTransfer
<1>20. Kv!NothingStranded'
  <2>1. \A q \in kv_requests' : kv_status'[q] \in Kv!Finished <=> q \in keeping'
    <3> TAKE q \in kv_requests'
    <3>1. q \in kv_requests /\ q \in Req
      BY <1>1 DEF Kv!TypeOK
    <3>2. CASE q # r
      BY <1>1, <1>2, <3>1, <3>2 DEF Kv!NothingStranded
    <3>3. CASE q = r
      BY <1>1, <1>2, <3>3
    <3> QED BY <3>2, <3>3
  <2>2. \A q \in Req \ kv_requests' : held'[q] = <<>>
    BY <1>1, <1>2, <1>4 DEF Kv!NothingStranded, Kv!TypeOK
  <2> QED BY <2>1, <2>2 DEF Kv!NothingStranded
<1>21. Kv!ReadyBeforeStop'
  BY <1>0, <1>2 DEF Kv!ReadyBeforeStop
<1> QED BY <1>10, <1>11, <1>12, <1>13, <1>14, <1>15, <1>16, <1>17, <1>18, <1>19, <1>20, <1>21

(* What is read is as long as the mark.                                    *)
LEMMA ReadBlocks ==
  ASSUME Kv!TypeOK, NEW s, Kv!IsStep(s), NEW r \in DOMAIN s.sends
  PROVE  /\ Kv!Read(s, r) \in Seq(Kv!Owner \union {<<>>}) /\ Len(Kv!Read(s, r)) = Len(s.sends[r])
         /\ \A i \in DOMAIN Kv!Read(s, r) :
              i \in DOMAIN s.sends[r] /\ Kv!Read(s, r)[i] = content[s.sends[r][i]]
<1> DEFINE mark == s.sends[r]
           e(i) == content[mark[i]]
<1>1. mark \in Seq(Block) /\ content \in [Block -> Kv!Owner \union {<<>>}]
  BY DEF Kv!TypeOK, Kv!IsStep, Kv!IsPartial
<1>2. Len(mark) \in Nat /\ DOMAIN mark = 1 .. Len(mark) /\ \A i \in 1 .. Len(mark) : mark[i] \in Block
  BY <1>1, LenProperties
<1>3. Kv!Read(s, r) = [i \in 1 .. Len(mark) |-> e(i)]
  BY <1>2 DEF Kv!Read
<1>4. \A i \in 1 .. Len(mark) : e(i) \in Kv!Owner \union {<<>>}
  BY <1>1, <1>2
<1> HIDE DEF mark, e
<1>5. [i \in 1 .. Len(mark) |-> e(i)] \in Seq(Kv!Owner \union {<<>>})
  BY <1>2, <1>4, IsASeq
<1>6. Len(Kv!Read(s, r)) \in Nat /\ DOMAIN Kv!Read(s, r) = 1 .. Len(Kv!Read(s, r))
  BY <1>3, <1>5, LenProperties
<1>7. DOMAIN Kv!Read(s, r) = 1 .. Len(mark)
  BY <1>3
<1>8. Len(Kv!Read(s, r)) = Len(mark)
  <2>1. \A a, b \in Nat : 1 .. a = 1 .. b => a = b
    <3> SUFFICES ASSUME NEW a \in Nat, NEW b \in Nat, 1 .. a = 1 .. b, a < b PROVE FALSE
      OBVIOUS
    <3>1. b \in 1 .. b /\ b \notin 1 .. a
      OBVIOUS
    <3> QED BY <3>1
  <2> QED BY <1>2, <1>6, <1>7, <2>1
<1> QED BY <1>2, <1>3, <1>5, <1>7, <1>8 DEF mark, e

(* The step that is executed, and those behind it.                         *)
LEMMA FirstStep ==
  ASSUME Kv!TypeOK, Kv!Execute
  PROVE  /\ Len(scheduled) \in Nat /\ Len(scheduled) >= 1 /\ DOMAIN scheduled = 1 .. Len(scheduled)
         /\ 1 \in DOMAIN scheduled /\ Head(scheduled) = scheduled[1] /\ Kv!IsStep(scheduled[1])
         /\ scheduled' \in Seq(Kv!Range(scheduled')) /\ Len(scheduled') = Len(scheduled) - 1
         /\ DOMAIN scheduled' = 1 .. Len(scheduled) - 1
         /\ \A k \in DOMAIN scheduled' :
              k + 1 \in DOMAIN scheduled /\ scheduled'[k] = scheduled[k + 1] /\ k \in Nat
         /\ \A k \in DOMAIN scheduled : k = 1 \/ k - 1 \in DOMAIN scheduled'
<1>1. /\ scheduled \in Seq(Kv!Range(scheduled)) /\ scheduled # <<>> /\ scheduled' = Tail(scheduled)
      /\ \A k \in DOMAIN scheduled : Kv!IsStep(scheduled[k])
  BY DEF Kv!TypeOK, Kv!Execute
<1>2. /\ Len(scheduled) \in Nat /\ Len(scheduled) >= 1 /\ DOMAIN scheduled = 1 .. Len(scheduled)
      /\ Head(scheduled) = scheduled[1]
  BY <1>1, EmptySeq, LenProperties
<1>3. /\ scheduled' \in Seq(Kv!Range(scheduled)) /\ Len(scheduled') = Len(scheduled) - 1
      /\ \A k \in 1 .. Len(scheduled') : scheduled'[k] = scheduled[k + 1]
  BY <1>1, HeadTailProperties
<1>4. scheduled' \in Seq(Kv!Range(scheduled')) /\ DOMAIN scheduled' = 1 .. Len(scheduled')
  BY <1>3, TransferTyped, LenProperties
<1> HIDE <1>1
<1>5. \A k \in DOMAIN scheduled' : k + 1 \in DOMAIN scheduled /\ k \in Nat
  BY <1>2, <1>3, <1>4
<1>6. \A k \in DOMAIN scheduled : k = 1 \/ k - 1 \in DOMAIN scheduled'
  BY <1>2, <1>3, <1>4
<1>7. DOMAIN scheduled' = 1 .. Len(scheduled) - 1 /\ 1 \in DOMAIN scheduled
  BY <1>2, <1>3, <1>4
<1> QED BY <1>1, <1>2, <1>3, <1>4, <1>5, <1>6, <1>7

LEMMA ExecuteKv ==
  ASSUME Kv!KvAssumption, Kv!KvInvariant, Kv!Execute PROVE Kv!KvInvariant'
<1> USE DEF Kv!KvInvariant, Kv!KvSound
<1> DEFINE s == scheduled[1]
           out == [steps |-> DOMAIN s.blocks, yields |-> s.yields, extracted |-> DOMAIN s.sends]
           sent == {r \in DOMAIN s.sends : s.sends[r] # <<>>}
<1>0. /\ shipped' = [r \in Req |->
                        IF r \in sent
                        THEN Append(shipped[r], [known |-> r \in resident, tokens |-> Kv!Read(s, r)])
                        ELSE shipped[r]]
      /\ content' = Kv!Written(s)
      /\ resident' = (resident \ s.finished) \union DOMAIN s.blocks
      /\ executed' = Append(executed, out)
      /\ UNCHANGED <<criteria, kv_status, kv_requests, kv_waiting, kv_running, held, kv_computed,
                     generated, needing, active,
                     keeping, triggered, stopping, leaving, told, turn>>
  BY FirstStep DEF Kv!Execute
<1>1. /\ Kv!IsStep(s) /\ DOMAIN s.blocks \subseteq Req /\ DOMAIN s.sends \subseteq Req
      /\ s.yields \subseteq Req /\ out \in Kv!Outcome /\ 1 \in DOMAIN scheduled
  BY FirstStep DEF Kv!IsStep, Kv!IsPartial, Kv!Outcome
<1>2. /\ executed' \in Seq(Kv!Outcome) /\ Len(executed') = Len(executed) + 1 /\ Len(executed) \in Nat
      /\ DOMAIN executed = 1 .. Len(executed) /\ DOMAIN executed' = 1 .. Len(executed) + 1
      /\ \A k \in DOMAIN executed : k \in DOMAIN executed' /\ executed'[k] = executed[k]
      /\ \A k \in DOMAIN executed' : k \in DOMAIN executed \/ k = Len(executed) + 1
      /\ executed'[Len(executed) + 1] = out
  <2>1. executed \in Seq(Kv!Outcome)
    BY DEF Kv!TypeOK
  <2>2. /\ executed' \in Seq(Kv!Outcome) /\ Len(executed') = Len(executed) + 1
        /\ \A k \in 1 .. Len(executed) : executed'[k] = executed[k]
        /\ executed'[Len(executed) + 1] = out
    BY <1>0, <1>1, <2>1, AppendProperties
  <2>3. /\ Len(executed) \in Nat /\ DOMAIN executed = 1 .. Len(executed)
        /\ DOMAIN executed' = 1 .. Len(executed')
    BY <2>1, <2>2, LenProperties
  <2> QED BY <2>2, <2>3
<1>3. \A r \in DOMAIN s.sends : shipped[r] = <<>> /\ r \notin DOMAIN needing
  BY <1>1 DEF Kv!Marks
<1>4. /\ \A r \in sent : /\ shipped'[r] \in Seq([known : BOOLEAN, tokens : Seq(Kv!Owner \union {<<>>})])
                         /\ Len(shipped'[r]) = 1 /\ DOMAIN shipped'[r] = {1} /\ shipped'[r] # <<>>
                         /\ shipped'[r][1] = [known |-> r \in resident, tokens |-> Kv!Read(s, r)]
      /\ \A r \in Req \ sent : shipped'[r] = shipped[r]
  <2>1. ASSUME NEW r \in sent
        PROVE  /\ shipped'[r] \in Seq([known : BOOLEAN, tokens : Seq(Kv!Owner \union {<<>>})])
               /\ Len(shipped'[r]) = 1 /\ DOMAIN shipped'[r] = {1} /\ shipped'[r] # <<>>
               /\ shipped'[r][1] = [known |-> r \in resident, tokens |-> Kv!Read(s, r)]
    <3> DEFINE x == [known |-> r \in resident, tokens |-> Kv!Read(s, r)]
    <3>1. x \in [known : BOOLEAN, tokens : Seq(Kv!Owner \union {<<>>})]
      BY <1>1, ReadBlocks
    <3>2. shipped'[r] = Append(<<>>, x)
      BY <1>0, <1>1, <1>3
    <3> HIDE DEF x
    <3>3. Append(<<>>, x) = <<x>>
      OBVIOUS
    <3>4. <<x>> \in Seq([known : BOOLEAN, tokens : Seq(Kv!Owner \union {<<>>})]) /\ Len(<<x>>) = 1
          /\ DOMAIN <<x>> = {1} /\ <<x>> # <<>> /\ <<x>>[1] = x
      BY <3>1
    <3> QED BY <3>2, <3>3, <3>4 DEF x
  <2> QED BY <1>0, <2>1
<1>5. \A r \in Req : /\ Kv!Comes(r)' <=> Kv!Comes(r)
                     /\ Kv!Yields(r)' <=> Kv!Yields(r)
  <2> TAKE r \in Req
  <2>1. (\E k \in DOMAIN scheduled : r \in DOMAIN scheduled[k].sends) <=>
          r \in DOMAIN s.sends \/ \E k \in DOMAIN scheduled' : r \in DOMAIN scheduled'[k].sends
    <3>1. ASSUME NEW k \in DOMAIN scheduled, r \in DOMAIN scheduled[k].sends, k # 1
          PROVE  \E m \in DOMAIN scheduled' : r \in DOMAIN scheduled'[m].sends
      <4>1. k - 1 \in DOMAIN scheduled' /\ k - 1 + 1 = k
        BY <3>1, FirstStep
      <4> QED BY <3>1, <4>1, FirstStep
    <3> QED BY <1>1, <3>1, FirstStep
  <2>2. (\E k \in DOMAIN scheduled : r \in scheduled[k].yields) <=>
          r \in s.yields \/ \E k \in DOMAIN scheduled' : r \in scheduled'[k].yields
    <3>1. ASSUME NEW k \in DOMAIN scheduled, r \in scheduled[k].yields, k # 1
          PROVE  \E m \in DOMAIN scheduled' : r \in scheduled'[m].yields
      <4>1. k - 1 \in DOMAIN scheduled' /\ k - 1 + 1 = k
        BY <3>1, FirstStep
      <4> QED BY <3>1, <4>1, FirstStep
    <3> QED BY <1>1, <3>1, FirstStep
  <2>3. (\E k \in DOMAIN executed' : r \in executed'[k].extracted) <=>
          r \in DOMAIN s.sends \/ \E k \in DOMAIN executed : r \in executed[k].extracted
    BY <1>2
  <2>4. (\E k \in DOMAIN executed' : r \in executed'[k].yields) <=>
          r \in s.yields \/ \E k \in DOMAIN executed : r \in executed[k].yields
    BY <1>2
  <2> HIDE DEF s
  <2>5. Kv!Comes(r)' <=> Kv!Comes(r)
    BY <1>0, <2>1, <2>3 DEF Kv!Comes
  <2> QED BY <2>2, <2>4, <2>5 DEF Kv!Yields
<1>6. \A r : Kv!Alive(r)' <=> Kv!Alive(r)
  BY <1>0 DEF Kv!Alive
<1>7. Kv!TypeOK'
  <2>1. content' \in [Block -> Kv!Owner \union {<<>>}]
    <3> SUFFICES ASSUME NEW b \in Block PROVE Kv!Written(s)[b] \in Kv!Owner \union {<<>>}
      BY <1>0 DEF Kv!Written
    <3>1. CASE \E r \in DOMAIN s.blocks : s.blocks[r] = b
      <4> DEFINE r == CHOOSE r \in DOMAIN s.blocks : s.blocks[r] = b
      <4>1. r \in DOMAIN s.blocks
        BY <3>1
      <4>2. Kv!Written(s)[b] = <<r, s.tokens[r]>>
        BY <3>1 DEF Kv!Written
      <4> HIDE DEF r
      <4>3. r \in Req /\ s.tokens[r] \in Nat
        BY <1>1, <4>1 DEF Kv!IsStep, Kv!IsPartial
      <4> QED BY <4>2, <4>3 DEF Kv!Owner
    <3>2. CASE ~\E r \in DOMAIN s.blocks : s.blocks[r] = b
      BY <3>2 DEF Kv!Written, Kv!TypeOK
    <3> QED BY <3>1, <3>2
  <2>2. shipped' \in [Req -> Seq([known : BOOLEAN, tokens : Seq(Kv!Owner \union {<<>>})])]
    <3>1. \A r \in Req : shipped'[r] \in Seq([known : BOOLEAN, tokens : Seq(Kv!Owner \union {<<>>})])
      BY <1>4 DEF Kv!TypeOK
    <3> QED BY <1>0, <3>1
  <2>3. resident' \subseteq Req
    BY <1>0, <1>1 DEF Kv!TypeOK
  <2>4. \A set \in {kv_requests', active', keeping', triggered', stopping', leaving', resident', told'} :
          set \subseteq Req
    BY <1>0, <2>3 DEF Kv!TypeOK
  <2>5. scheduled' \in Seq(Kv!Range(scheduled')) /\ \A k \in DOMAIN scheduled' : Kv!IsStep(scheduled'[k])
    BY FirstStep DEF Kv!TypeOK
  <2>6. /\ kv_status' \in [Req -> {"new", "waiting", "running", "preempted"} \union Kv!Finished]
        /\ kv_waiting' \in Seq(Req) /\ kv_running' \in Seq(Req) /\ held' \in [Req -> Seq(Block)]
        /\ kv_computed' \in [Req -> Nat] /\ generated' \in [Req -> Nat]
        /\ Kv!IsPartial(needing', Seq(Block)) /\ turn' \in {"schedule", "update"}
    BY <1>0 DEF Kv!TypeOK
  <2> QED BY <1>2, <2>1, <2>2, <2>4, <2>5, <2>6 DEF Kv!TypeOK
<1>8. Kv!Queues'
  BY <1>0, <1>5, <1>6 DEF Kv!Queues
<1>9. Kv!Blocks'
  BY <1>0 DEF Kv!Blocks
<1>10. Kv!Contents'
  <2>1. ASSUME NEW n \in Nat, n >= 2, n <= Len(scheduled) + 1, NEW r, NEW mark \in Seq(Block),
               Kv!Readable(scheduled, content, resident, n, r, mark)
        PROVE  Kv!Readable(scheduled', content', resident', n - 1, r, mark)
    <3>1. \A k \in 1 .. n - 2 : scheduled'[k] = scheduled[k + 1]
      BY <2>1, FirstStep
    <3>2. content \in [Block -> Kv!Owner \union {<<>>}]
      BY DEF Kv!TypeOK
    <3> QED BY <1>0, <1>1, <2>1, <3>1, <3>2, AfterFirst
  <2>2. /\ Len(scheduled) + 1 \in Nat /\ Len(scheduled) + 1 >= 2
        /\ Len(scheduled) + 1 - 1 = Len(scheduled') + 1
    <3>1. Len(scheduled) \in Nat /\ Len(scheduled) >= 1 /\ Len(scheduled') = Len(scheduled) - 1
      BY FirstStep
    <3> QED BY <3>1
  <2>3. \A r \in Req : Kv!Alive(r)' =>
          Kv!Readable(scheduled', content', resident', Len(scheduled') + 1, r, held'[r])
    <3> SUFFICES ASSUME NEW r \in Req, Kv!Alive(r)
                 PROVE Kv!Readable(scheduled', content', resident', Len(scheduled') + 1, r, held[r])
      BY <1>0, <1>6
    <3>1. /\ held[r] \in Seq(Block)
          /\ Kv!Readable(scheduled, content, resident, Len(scheduled) + 1, r, held[r])
      BY DEF Kv!TypeOK, Kv!Contents
    <3>2. Kv!Readable(scheduled', content', resident', Len(scheduled) + 1 - 1, r, held[r])
      BY <2>1, <2>2, <3>1
    <3> QED BY <2>2, <3>2
  <2>4. \A r \in DOMAIN needing' :
          Kv!Readable(scheduled', content', resident', Len(scheduled') + 1, r, needing'[r])
    <3> SUFFICES ASSUME NEW r \in DOMAIN needing
                 PROVE Kv!Readable(scheduled', content', resident', Len(scheduled') + 1, r, needing[r])
      BY <1>0
    <3>1. /\ needing[r] \in Seq(Block)
          /\ Kv!Readable(scheduled, content, resident, Len(scheduled) + 1, r, needing[r])
      BY DEF Kv!TypeOK, Kv!Contents, Kv!IsPartial
    <3>2. Kv!Readable(scheduled', content', resident', Len(scheduled) + 1 - 1, r, needing[r])
      BY <2>1, <2>2, <3>1
    <3> QED BY <2>2, <3>2
  <2>5. ASSUME NEW k \in DOMAIN scheduled', NEW r \in DOMAIN scheduled'[k].sends
        PROVE  Kv!Readable(scheduled', content', resident', k, r, scheduled'[k].sends[r])
    <3>1. k + 1 \in DOMAIN scheduled /\ scheduled'[k] = scheduled[k + 1] /\ k \in Nat
      BY FirstStep
    <3>2. PICK n \in Nat : n = k + 1
      BY <3>1
    <3>3. n >= 2 /\ n <= Len(scheduled) + 1 /\ n - 1 = k
      BY <3>1, <3>2, FirstStep
    <3>4. /\ scheduled[n].sends[r] \in Seq(Block)
          /\ Kv!Readable(scheduled, content, resident, n, r, scheduled[n].sends[r])
      BY <2>5, <3>1, <3>2 DEF Kv!TypeOK, Kv!IsStep, Kv!IsPartial, Kv!Contents
    <3>5. Kv!Readable(scheduled', content', resident', n - 1, r, scheduled[n].sends[r])
      BY <2>1, <3>3, <3>4
    <3> QED BY <3>1, <3>2, <3>3, <3>5
  <2>6. \A r \in leaving' \union UNION {scheduled'[k].finished : k \in DOMAIN scheduled'} :
          kv_status'[r] \in Kv!Finished
    <3>1. \A k \in DOMAIN scheduled' : scheduled'[k].finished \subseteq
            UNION {scheduled[m].finished : m \in DOMAIN scheduled}
      BY FirstStep
    <3> QED BY <1>0, <3>1 DEF Kv!Contents
  <2> QED BY <2>3, <2>4, <2>5, <2>6 DEF Kv!Contents
<1>11. Kv!Marks'
  <2>1. \A r \in Req : Kv!Comes(r)' \/ shipped'[r] # <<>> =>
          r \in triggered' \/ kv_status'[r] \in Kv!Finished
    <3> SUFFICES ASSUME NEW r \in Req, Kv!Comes(r) \/ shipped'[r] # <<>>
                 PROVE  r \in triggered \/ kv_status[r] \in Kv!Finished
      BY <1>0, <1>5
    <3>1. r \in sent => Kv!Comes(r)
      BY <1>1 DEF Kv!Comes
    <3> QED BY <1>4, <3>1 DEF Kv!Marks
  <2>2. ASSUME NEW k \in DOMAIN scheduled', NEW r \in DOMAIN scheduled'[k].sends
        PROVE  /\ r \notin DOMAIN needing' /\ shipped'[r] = <<>>
               /\ \A m \in DOMAIN scheduled' : r \in DOMAIN scheduled'[m].sends => m = k
               /\ \A m \in DOMAIN executed' : r \notin executed'[m].extracted
    <3>1. k + 1 \in DOMAIN scheduled /\ scheduled'[k] = scheduled[k + 1] /\ k \in Nat /\ k + 1 # 1
      BY FirstStep
    <3>2. r \in DOMAIN scheduled[k + 1].sends /\ r \in Req
      BY <2>2, <3>1 DEF Kv!TypeOK, Kv!IsStep, Kv!IsPartial
    <3>3. /\ r \notin DOMAIN needing /\ shipped[r] = <<>>
          /\ \A m \in DOMAIN scheduled : r \in DOMAIN scheduled[m].sends => m = k + 1
          /\ \A m \in DOMAIN executed : r \notin executed[m].extracted
      BY <3>1, <3>2 DEF Kv!Marks
    <3>4. r \notin DOMAIN s.sends
      BY <1>1, <3>1, <3>3
    <3>5. ASSUME NEW m \in DOMAIN scheduled', r \in DOMAIN scheduled'[m].sends PROVE m = k
      <4>1. m + 1 \in DOMAIN scheduled /\ scheduled'[m] = scheduled[m + 1] /\ m \in Nat
        BY FirstStep
      <4>2. m + 1 = k + 1
        BY <3>3, <3>5, <4>1
      <4> QED BY <3>1, <4>1, <4>2
    <3>6. \A m \in DOMAIN executed' : r \notin executed'[m].extracted
      BY <1>2, <3>3, <3>4
    <3>7. shipped'[r] = <<>>
      BY <1>4, <3>2, <3>3, <3>4
    <3> QED BY <1>0, <3>3, <3>5, <3>6, <3>7
  <2>3. ASSUME NEW k \in DOMAIN executed', NEW r \in executed'[k].extracted
        PROVE  /\ r \notin DOMAIN needing'
               /\ \A m \in DOMAIN executed' : r \in executed'[m].extracted => m = k
    <3>1. CASE k \in DOMAIN executed
      <4>1. /\ r \notin DOMAIN needing
            /\ \A m \in DOMAIN executed : r \in executed[m].extracted => m = k
        BY <1>2, <2>3, <3>1 DEF Kv!Marks
      <4>2. r \notin DOMAIN s.sends
        BY <1>1, <1>2, <2>3, <3>1 DEF Kv!Marks
      <4> QED BY <1>0, <1>2, <4>1, <4>2
    <3>2. CASE k = Len(executed) + 1
      <4>1. r \in DOMAIN s.sends
        BY <1>2, <2>3, <3>2
      <4>2. \A m \in DOMAIN executed : r \notin executed[m].extracted
        BY <1>1, <4>1 DEF Kv!Marks
      <4> QED BY <1>0, <1>2, <1>3, <3>2, <4>1, <4>2
    <3> QED BY <1>2, <3>1, <3>2
  <2>4. \A r \in DOMAIN needing' : shipped'[r] = <<>>
    <3>1. \A r \in DOMAIN needing : r \in Req /\ shipped[r] = <<>> /\ r \notin DOMAIN s.sends
      BY <1>3 DEF Kv!Marks, Kv!TypeOK, Kv!IsPartial
    <3> QED BY <1>0, <1>4, <3>1
  <2> QED BY <2>1, <2>2, <2>3, <2>4 DEF Kv!Marks
<1>12. Kv!Heard'
  <2>1. \A r \in active : r \in Req
    BY DEF Kv!TypeOK
  <2> QED BY <1>0, <1>5, <1>6, <2>1 DEF Kv!Heard
<1>13. Kv!OneOut'
  <2> SUFFICES ASSUME criteria.flight = 1
               PROVE  /\ Len(scheduled') + Len(executed') <= 1
                      /\ \A r \in Req : Kv!Alive(r) /\ Kv!Yields(r) => kv_computed[r] >= Prompt
                      /\ \A r \in DOMAIN needing : Kv!Whole(r, needing[r])
                      /\ \A k \in DOMAIN scheduled' : \A r \in DOMAIN scheduled'[k].sends :
                           Kv!Whole(r, scheduled'[k].sends[r])
                      /\ \A r \in Req : shipped'[r] # <<>> => Kv!Whole(r, shipped'[r][1].tokens)
                      /\ \A r \in told \union UNION {executed'[k].extracted : k \in DOMAIN executed'} :
                           kv_status[r] # "aborted" => shipped'[r] # <<>>
    BY <1>0, <1>5, <1>6 DEF Kv!OneOut, Kv!Whole
  <2>1. Len(scheduled') + Len(executed') <= 1
    BY <1>2, FirstStep DEF Kv!OneOut
  <2>2. \A k \in DOMAIN scheduled' : \A r \in DOMAIN scheduled'[k].sends :
          Kv!Whole(r, scheduled'[k].sends[r])
    BY FirstStep DEF Kv!OneOut
  <2>3. \A r \in DOMAIN s.sends : Kv!Whole(r, s.sends[r])
    BY <1>1 DEF Kv!OneOut
  <2>4. ASSUME NEW r \in Req, shipped'[r] # <<>> PROVE Kv!Whole(r, shipped'[r][1].tokens)
    <3>1. CASE r \in sent
      <4>0. shipped'[r][1] = [known |-> r \in resident, tokens |-> Kv!Read(s, r)]
        BY <1>4, <3>1
      <4>1. shipped'[r][1].tokens = Kv!Read(s, r) /\ r \in DOMAIN s.sends
        BY <3>1, <4>0
      <4>2. Len(Kv!Read(s, r)) = Len(s.sends[r])
        BY <1>1, <4>1, ReadBlocks
      <4> QED BY <2>3, <4>1, <4>2 DEF Kv!Whole
    <3>2. CASE r \notin sent
      BY <1>4, <2>4, <3>2 DEF Kv!OneOut
    <3> QED BY <3>1, <3>2
  <2>5. ASSUME NEW r \in DOMAIN s.sends, kv_status[r] # "aborted" PROVE shipped'[r] # <<>>
    <3>1. Len(s.sends[r]) >= Prompt /\ Prompt \in Nat \ {0} /\ s.sends[r] \in Seq(Block)
      BY <1>1, <2>3, <2>5 DEF Kv!Whole, Kv!KvAssumption, Kv!IsStep, Kv!IsPartial
    <3>2. s.sends[r] # <<>>
      BY <3>1, EmptySeq
    <3> QED BY <1>4, <3>2
  <2>6. ASSUME NEW r \in told \union UNION {executed[k].extracted : k \in DOMAIN executed},
               kv_status[r] # "aborted"
        PROVE  shipped'[r] # <<>>
    <3>1. r \in Req /\ shipped[r] # <<>>
      <4>1. \A k \in DOMAIN executed : executed[k].extracted \subseteq Req
        <5>1. \A k \in DOMAIN executed : executed[k] \in Kv!Outcome
          BY <1>2, ElementOfSeq DEF Kv!TypeOK
        <5> QED BY <5>1 DEF Kv!Outcome
      <4> QED BY <2>6, <4>1 DEF Kv!OneOut, Kv!TypeOK
    <3> QED BY <1>4, <3>1
  <2>7. ASSUME NEW r \in told \union UNION {executed'[k].extracted : k \in DOMAIN executed'}
        PROVE  \/ r \in DOMAIN s.sends
               \/ r \in told \union UNION {executed[k].extracted : k \in DOMAIN executed}
    BY <1>2, <2>7
  <2> QED BY <2>1, <2>2, <2>4, <2>5, <2>6, <2>7 DEF Kv!OneOut
<1>14. Kv!OwnTokens'
  <2> SUFFICES ASSUME NEW r \in Req, NEW n \in DOMAIN shipped'[r]
               PROVE  /\ shipped'[r][n].known
                      /\ \A i \in DOMAIN shipped'[r][n].tokens : shipped'[r][n].tokens[i] = <<r, i>>
    BY DEF Kv!OwnTokens
  <2>1. CASE r \in sent
    <3>1. /\ n = 1 /\ r \in DOMAIN s.sends
          /\ shipped'[r][1] = [known |-> r \in resident, tokens |-> Kv!Read(s, r)]
      BY <1>4, <2>1
    <3>2. Kv!Readable(scheduled, content, resident, 1, r, s.sends[r]) /\ s.sends[r] # <<>>
      BY <1>1, <2>1 DEF Kv!Contents
    <3>3. r \in resident
      BY <3>2 DEF Kv!Readable, Kv!Knows
    <3>4. \A i \in DOMAIN s.sends[r] : content[s.sends[r][i]] = <<r, i>>
      BY <3>2 DEF Kv!Readable, Kv!HoldsToken
    <3>5. \A i \in DOMAIN Kv!Read(s, r) :
            i \in DOMAIN s.sends[r] /\ Kv!Read(s, r)[i] = content[s.sends[r][i]]
      BY <1>1, <3>1, ReadBlocks
    <3>6. \A i \in DOMAIN Kv!Read(s, r) : Kv!Read(s, r)[i] = <<r, i>>
      BY <3>4, <3>5
    <3> DEFINE e == shipped'[r][1]
    <3>7. e.known = (r \in resident) /\ e.tokens = Kv!Read(s, r)
      BY <3>1
    <3> HIDE DEF e, s
    <3>8. e.known /\ \A i \in DOMAIN e.tokens : e.tokens[i] = <<r, i>>
      BY <3>3, <3>6, <3>7
    <3>9. n = 1
      BY <3>1
    <3> QED BY <3>8, <3>9 DEF e
  <2>2. CASE r \notin sent
    BY <1>4, <2>2 DEF Kv!OwnTokens
  <2> QED BY <2>1, <2>2
<1>15. Kv!SentOnce'
  <2> SUFFICES ASSUME NEW r \in Req PROVE Len(shipped'[r]) <= 1
    BY DEF Kv!SentOnce
  <2>1. CASE r \in sent
    <3>1. Len(shipped'[r]) = 1
      BY <1>4, <2>1
    <3> QED BY <3>1
  <2>2. CASE r \notin sent
    BY <1>4, <2>2 DEF Kv!SentOnce
  <2> QED BY <2>1, <2>2
<1>16. Kv!GoneWhenSent'
  <2>1. \A r \in sent : shipped[r] = <<>>
    BY <1>3
  <2> QED BY <1>0, <1>4, <2>1 DEF Kv!GoneWhenSent, Kv!Whole
<1>17. Kv!KeptForTransfer'
  <2>1. \A r \in keeping : r \in Req
    BY DEF Kv!TypeOK
  <2> QED BY <1>0, <1>5, <2>1 DEF Kv!KeptForTransfer
<1>18. Kv!NothingStranded' /\ Kv!ReadyBeforeStop'
  BY <1>0 DEF Kv!NothingStranded, Kv!ReadyBeforeStop
<1> QED BY <1>7, <1>8, <1>9, <1>10, <1>11, <1>12, <1>13, <1>14, <1>15, <1>16, <1>17, <1>18

(* A new step that does not write the blocks of a mark leaves it readable. *)
LEMMA StillReadable ==
  ASSUME NEW s, NEW was, NEW names, NEW n \in Nat \ {0}, NEW r, NEW mark,
         Kv!Readable(s, was, names, n, r, mark), r \notin s[n].finished,
         \A i \in DOMAIN mark : ~Kv!Writes(s[n], mark[i])
  PROVE  Kv!Readable(s, was, names, n + 1, r, mark)
BY HoldsStill, KnowsStill DEF Kv!Readable

(* A queue in two parts.                                                   *)
Parted(q, front, rest) ==
  /\ front \in Seq(Req) /\ rest \in Seq(Req) /\ Kv!IsInjective(front) /\ Kv!IsInjective(rest)
  /\ Kv!Range(q) = Kv!Range(front) \union Kv!Range(rest)
  /\ Kv!Range(front) \intersect Kv!Range(rest) = {}

(* Who is scheduled, and with which blocks.                                *)
LEMMA NewStep ==
  ASSUME Kv!KvAssumption, Kv!KvInvariant, NEW stay, NEW preempted, NEW admitted, NEW later,
         Parted(kv_running, stay, preempted), Parted(kv_waiting, admitted, later),
         NEW block \in [Kv!Steps(stay, admitted) -> Kv!Available(preempted)],
         Kv!Lowest(block, stay \o admitted, Kv!Available(preempted))
  PROVE  /\ stay \o admitted \in Seq(Req) /\ preempted \o later \in Seq(Req)
         /\ Kv!IsInjective(stay \o admitted) /\ Kv!IsInjective(preempted \o later)
         /\ Kv!Range(stay \o admitted) = Kv!Range(stay) \union Kv!Range(admitted)
         /\ Kv!Range(preempted \o later) = Kv!Range(preempted) \union Kv!Range(later)
         /\ Kv!Range(stay \o admitted) \intersect Kv!Range(preempted \o later) = {}
         /\ \A r \in Kv!Range(stay) \union Kv!Range(admitted) \union Kv!Range(preempted) \union Kv!Range(later) :
              r \in Req /\ Kv!Alive(r)
         /\ Kv!Range(admitted) \intersect Kv!Range(preempted) = {}
         /\ Kv!Steps(stay, admitted) \subseteq Kv!Range(stay) \union Kv!Range(admitted)
         /\ Kv!Steps(stay, admitted) \intersect Kv!Range(preempted) = {}
         /\ block \in [Kv!Steps(stay, admitted) -> Block]
         /\ \A q, r \in Kv!Steps(stay, admitted) : q # r => block[q] # block[r]
         /\ \A q \in Kv!Steps(stay, admitted), r \in Req \ Kv!Range(preempted) :
              block[q] \notin Kv!Range(held[r])
<1> USE DEF Kv!KvInvariant
<1>1. /\ kv_running \in Seq(Req) /\ kv_waiting \in Seq(Req) /\ Kv!IsInjective(kv_running)
      /\ Kv!IsInjective(kv_waiting)
      /\ Kv!Range(kv_running) \intersect Kv!Range(kv_waiting) = {}
      /\ Kv!Range(kv_running) \subseteq Req /\ Kv!Range(kv_waiting) \subseteq Req
      /\ \A r \in Kv!Range(kv_running) \union Kv!Range(kv_waiting) : Kv!Alive(r)
  BY TransferTyped DEF Kv!TypeOK, Kv!Queues
<1>2. /\ stay \in Seq(Req) /\ preempted \in Seq(Req) /\ Kv!IsInjective(stay) /\ Kv!IsInjective(preempted)
      /\ Kv!Range(kv_running) = Kv!Range(stay) \union Kv!Range(preempted)
      /\ Kv!Range(stay) \intersect Kv!Range(preempted) = {}
  BY DEF Parted
<1>3. /\ admitted \in Seq(Req) /\ later \in Seq(Req) /\ Kv!IsInjective(admitted) /\ Kv!IsInjective(later)
      /\ Kv!Range(kv_waiting) = Kv!Range(admitted) \union Kv!Range(later)
      /\ Kv!Range(admitted) \intersect Kv!Range(later) = {}
  BY DEF Parted
<1>4. /\ Kv!Range(stay) \intersect Kv!Range(admitted) = {}
      /\ Kv!Range(preempted) \intersect Kv!Range(later) = {}
      /\ Kv!Range(admitted) \intersect Kv!Range(preempted) = {}
      /\ Kv!Range(stay) \intersect Kv!Range(later) = {}
  BY <1>1, <1>2, <1>3
<1> DEFINE go == stay \o admitted
           wait == preempted \o later
<1>5. /\ go \in Seq(Req) /\ wait \in Seq(Req) /\ Kv!IsInjective(go) /\ Kv!IsInjective(wait)
      /\ Kv!Range(go) = Kv!Range(stay) \union Kv!Range(admitted)
      /\ Kv!Range(wait) = Kv!Range(preempted) \union Kv!Range(later)
  BY <1>2, <1>3, <1>4, TransferJoins
<1> HIDE DEF go, wait
<1> DEFINE steps == Kv!Steps(stay, admitted)
           pool == Kv!Available(preempted)
<1>6. steps \subseteq Kv!Range(go)
  BY <1>5 DEF Kv!Steps
<1>7. block \in [steps -> Block] /\ \A q \in steps : block[q] \in pool
  <2>1. \A r \in Kv!Range(preempted) : Kv!Range(held[r]) \subseteq Block
    BY <1>1, <1>2, TransferTyped DEF Kv!TypeOK
  <2>2. pool \subseteq Block
    BY <2>1 DEF Kv!Free, Kv!Available
  <2> QED BY <2>2
<1>8. ASSUME NEW q \in steps, NEW r \in steps, q # r PROVE block[q] # block[r]
  <2>1. PICK i \in DOMAIN go : go[i] = q
    BY <1>6 DEF Kv!Range
  <2>2. PICK j \in DOMAIN go : go[j] = r
    BY <1>6 DEF Kv!Range
  <2>3. i \in Nat /\ j \in Nat /\ i # j
    BY <1>5, <1>8, <2>1, <2>2, LenProperties
  <2>4. block[q] \in Nat /\ block[r] \in Nat /\ DOMAIN block = steps
    BY <1>7 DEF Kv!KvAssumption
  <2>5. i < j => block[q] < block[r]
    BY <2>1, <2>2, <2>4 DEF Kv!Lowest, go
  <2>6. j < i => block[r] < block[q]
    BY <2>1, <2>2, <2>4 DEF Kv!Lowest, go
  <2> QED BY <2>3, <2>4, <2>5, <2>6
<1>9. ASSUME NEW q \in steps, NEW r \in Req \ Kv!Range(preempted) PROVE block[q] \notin Kv!Range(held[r])
  <2>1. CASE block[q] \in Kv!Free
    BY <2>1 DEF Kv!Free
  <2>2. ASSUME NEW p \in Kv!Range(preempted), block[q] \in Kv!Range(held[p])
        PROVE  block[q] \notin Kv!Range(held[r])
    BY <1>1, <1>2, <2>2 DEF Kv!Blocks
  <2> QED BY <1>7, <2>1, <2>2 DEF Kv!Available
<1>10. Kv!Range(go) \intersect Kv!Range(wait) = {}
  BY <1>2, <1>3, <1>4, <1>5
<1>11. steps \intersect Kv!Range(preempted) = {}
  BY <1>2, <1>4, <1>5, <1>6
<1> QED BY <1>1, <1>2, <1>3, <1>4, <1>5, <1>6, <1>7, <1>8, <1>9, <1>10, <1>11 DEF go, wait

LEMMA ScheduleKv ==
  ASSUME Kv!KvAssumption, Kv!KvInvariant, Kv!Schedule PROVE Kv!KvInvariant'
<1> USE DEF Kv!KvInvariant, Kv!KvSound
<1>1. PICK k \in 0 .. Len(kv_running), n \in 0 .. Len(kv_waiting) :
        Kv!Proceed(SubSeq(kv_running, 1, k), SubSeq(kv_running, k + 1, Len(kv_running)),
                SubSeq(kv_waiting, 1, n), SubSeq(kv_waiting, n + 1, Len(kv_waiting)))
  BY DEF Kv!Schedule
<1>2. PICK stay, preempted, admitted, later :
        /\ Parted(kv_running, stay, preempted) /\ Parted(kv_waiting, admitted, later)
        /\ Kv!Proceed(stay, preempted, admitted, later)
  <2>1. /\ kv_running \in Seq(Req) /\ kv_waiting \in Seq(Req) /\ Kv!IsInjective(kv_running)
        /\ Kv!IsInjective(kv_waiting)
    BY DEF Kv!TypeOK, Kv!Queues
  <2>2. Parted(kv_running, SubSeq(kv_running, 1, k), SubSeq(kv_running, k + 1, Len(kv_running)))
    BY <2>1, TransferSplits DEF Parted
  <2>3. Parted(kv_waiting, SubSeq(kv_waiting, 1, n), SubSeq(kv_waiting, n + 1, Len(kv_waiting)))
    BY <2>1, TransferSplits DEF Parted
  <2> QED BY <1>1, <2>2, <2>3
<1> DEFINE steps == Kv!Steps(stay, admitted)
           pool == Kv!Available(preempted)
<1>3. PICK block \in [steps -> pool] :
        /\ Kv!Lowest(block, stay \o admitted, pool)
        /\ held' = [r \in Req |->
                     IF r \in Kv!Range(preempted) THEN <<>>
                     ELSE IF r \in steps THEN Append(held[r], block[r]) ELSE held[r]]
        /\ scheduled' = Append(scheduled,
             [blocks |-> block, tokens |-> [r \in steps |-> kv_computed[r] + 1],
              yields |-> {r \in steps : kv_computed[r] + 1 >= Prompt + generated[r]},
              sends |-> needing, finished |-> leaving])
  BY <1>2 DEF Kv!Proceed
<1>4. /\ kv_running' = stay \o admitted /\ kv_waiting' = preempted \o later
      /\ kv_status' = [r \in Req |->
                     IF r \in Kv!Range(preempted) THEN "preempted"
                     ELSE IF r \in Kv!Range(admitted) THEN "running" ELSE kv_status[r]]
      /\ kv_computed' = [r \in Req |->
                       IF r \in Kv!Range(preempted) THEN 0
                       ELSE IF r \in steps THEN kv_computed[r] + 1 ELSE kv_computed[r]]
  BY <1>2 DEF Kv!Proceed
<1>5. /\ Len(scheduled) + Len(executed) < criteria.flight
      /\ active' = active \union DOMAIN needing
      /\ needing' = Kv!NoMarks /\ leaving' = {} /\ turn' = "update"
      /\ UNCHANGED <<criteria, kv_requests, generated, keeping, triggered, stopping, executed, content,
                     resident, shipped, told>>
  BY DEF Kv!Schedule
<1>6. /\ stay \o admitted \in Seq(Req) /\ preempted \o later \in Seq(Req)
      /\ Kv!IsInjective(stay \o admitted) /\ Kv!IsInjective(preempted \o later)
      /\ Kv!Range(stay \o admitted) = Kv!Range(stay) \union Kv!Range(admitted)
      /\ Kv!Range(preempted \o later) = Kv!Range(preempted) \union Kv!Range(later)
      /\ Kv!Range(stay \o admitted) \intersect Kv!Range(preempted \o later) = {}
      /\ \A r \in Kv!Range(stay) \union Kv!Range(admitted) \union Kv!Range(preempted) \union Kv!Range(later) :
           r \in Req /\ Kv!Alive(r)
      /\ Kv!Range(admitted) \intersect Kv!Range(preempted) = {}
      /\ steps \subseteq Kv!Range(stay) \union Kv!Range(admitted)
      /\ steps \intersect Kv!Range(preempted) = {}
      /\ block \in [steps -> Block]
      /\ \A q, r \in steps : q # r => block[q] # block[r]
      /\ \A q \in steps, r \in Req \ Kv!Range(preempted) : block[q] \notin Kv!Range(held[r])
  <2> HIDE DEF Kv!KvInvariant, Kv!KvSound
  <2>1. Parted(kv_running, stay, preempted) /\ Parted(kv_waiting, admitted, later)
    BY <1>2
  <2>2. block \in [Kv!Steps(stay, admitted) -> pool] /\ Kv!Lowest(block, stay \o admitted, pool)
    BY <1>3
  <2> QED BY <2>1, <2>2, NewStep, SMTT(30)
<1> HIDE DEF steps, pool
<1>7. \A r \in steps \union Kv!Range(preempted) \union Kv!Range(admitted) : r \in Req /\ Kv!Alive(r)
  BY <1>6
<1> DEFINE tokens == [r \in steps |-> kv_computed[r] + 1]
           yields == {r \in steps : kv_computed[r] + 1 >= Prompt + generated[r]}
           e == [blocks |-> block, tokens |-> tokens, yields |-> yields, sends |-> needing,
                 finished |-> leaving]
           at == Len(scheduled) + 1
<1>8. /\ e.blocks = block /\ e.tokens = tokens /\ e.yields = yields /\ e.sends = needing
      /\ e.finished = leaving
  OBVIOUS
<1>9. Kv!IsStep(e)
  <2>1. block \in [DOMAIN block -> Block] /\ DOMAIN block = steps /\ steps \subseteq Req
    BY <1>6
  <2>2. tokens \in [DOMAIN tokens -> Nat] /\ DOMAIN tokens = steps
    BY <2>1 DEF Kv!TypeOK
  <2>3. yields \subseteq Req /\ leaving \subseteq Req
    BY <2>1 DEF Kv!TypeOK
  <2> HIDE DEF e, tokens, yields
  <2>4. Kv!IsPartial(needing, Seq(Block))
    BY DEF Kv!TypeOK
  <2> QED BY <1>6, <1>8, <2>1, <2>2, <2>3, <2>4 DEF Kv!IsStep, Kv!IsPartial
<1>10. /\ scheduled' = Append(scheduled, e) /\ Len(scheduled) \in Nat /\ at \in Nat \ {0}
       /\ scheduled' \in Seq(Kv!Range(scheduled')) /\ Len(scheduled') = at
       /\ DOMAIN scheduled = 1 .. Len(scheduled) /\ DOMAIN scheduled' = 1 .. at
       /\ \A m \in DOMAIN scheduled : m \in DOMAIN scheduled' /\ scheduled'[m] = scheduled[m]
       /\ \A m \in DOMAIN scheduled' : m \in DOMAIN scheduled \/ m = at
       /\ at \in DOMAIN scheduled' /\ at \notin DOMAIN scheduled /\ scheduled'[at] = e
  <2>1. scheduled' = Append(scheduled, e) /\ scheduled \in Seq(Kv!Range(scheduled))
    BY <1>3 DEF Kv!TypeOK
  <2> HIDE DEF e
  <2> DEFINE T == Kv!Range(scheduled) \union {e}
  <2>2. scheduled \in Seq(T) /\ Len(scheduled) \in Nat /\ DOMAIN scheduled = 1 .. Len(scheduled)
    <3>1. /\ Len(scheduled) \in Nat /\ DOMAIN scheduled = 1 .. Len(scheduled)
          /\ scheduled \in [1 .. Len(scheduled) -> Kv!Range(scheduled)]
      BY <2>1, LenProperties
    <3>2. scheduled = [i \in 1 .. Len(scheduled) |-> scheduled[i]]
          /\ \A i \in 1 .. Len(scheduled) : scheduled[i] \in T
      BY <3>1
    <3> HIDE DEF T
    <3>3. [i \in 1 .. Len(scheduled) |-> scheduled[i]] \in Seq(T)
      BY <3>1, <3>2, IsASeq
    <3> QED BY <3>1, <3>2, <3>3
  <2>3. e \in T
    OBVIOUS
  <2> HIDE DEF T
  <2>4. /\ Append(scheduled, e) \in Seq(T) /\ Len(Append(scheduled, e)) = Len(scheduled) + 1
        /\ \A i \in 1 .. Len(scheduled) : Append(scheduled, e)[i] = scheduled[i]
        /\ Append(scheduled, e)[Len(scheduled) + 1] = e
    BY <2>2, <2>3, AppendProperties
  <2>5. Append(scheduled, e) \in Seq(Kv!Range(Append(scheduled, e)))
        /\ DOMAIN Append(scheduled, e) = 1 .. Len(Append(scheduled, e))
    BY <2>4, TransferTyped, LenProperties
  <2> QED BY <2>1, <2>2, <2>4, <2>5
<1> HIDE DEF e, at
<1>11. /\ \A r \in Req : r \notin Kv!Range(preempted) \union Kv!Range(admitted) =>
            kv_status'[r] = kv_status[r]
       /\ \A r \in Kv!Range(preempted) : kv_status'[r] = "preempted" /\ kv_computed'[r] = 0 /\ held'[r] = <<>>
       /\ \A r \in Kv!Range(admitted) : kv_status'[r] = "running"
       /\ \A r \in steps : kv_computed'[r] = kv_computed[r] + 1 /\ held'[r] = Append(held[r], block[r])
       /\ \A r \in Req : r \notin Kv!Range(preempted) \union steps =>
            kv_computed'[r] = kv_computed[r] /\ held'[r] = held[r]
  BY <1>3, <1>4, <1>6, <1>7
<1>12. \A r \in Req : /\ kv_status[r] \in Kv!Finished <=> kv_status'[r] \in Kv!Finished
                      /\ kv_status[r] \in Kv!Finished => kv_status'[r] = kv_status[r]
                      /\ Kv!Alive(r)' <=> Kv!Alive(r)
                      /\ kv_status'[r] = "new" => kv_status[r] = "new"
                      /\ kv_status[r] = "aborted" <=> kv_status'[r] = "aborted"
  BY <1>5, <1>7, <1>11 DEF Kv!Alive, Kv!Finished
<1>13. DOMAIN needing' = {} /\ DOMAIN needing \subseteq Req
  BY <1>5 DEF Kv!NoMarks, Kv!TypeOK, Kv!IsPartial
<1>14. \A r \in Req : /\ Kv!Comes(r)' <=> Kv!Comes(r)
                      /\ Kv!Yields(r)' <=> Kv!Yields(r) \/ r \in yields
  <2> TAKE r \in Req
  <2>1. (\E m \in DOMAIN scheduled' : r \in DOMAIN scheduled'[m].sends) <=>
          r \in DOMAIN needing \/ \E m \in DOMAIN scheduled : r \in DOMAIN scheduled[m].sends
    BY <1>8, <1>10
  <2>2. (\E m \in DOMAIN scheduled' : r \in scheduled'[m].yields) <=>
          r \in yields \/ \E m \in DOMAIN scheduled : r \in scheduled[m].yields
    BY <1>8, <1>10
  <2> HIDE DEF yields
  <2> QED BY <1>5, <1>13, <2>1, <2>2 DEF Kv!Comes, Kv!Yields
<1>15. Kv!TypeOK'
  <2>1. kv_status' \in [Req -> {"new", "waiting", "running", "preempted"} \union Kv!Finished]
    BY <1>4 DEF Kv!TypeOK
  <2>2. held' \in [Req -> Seq(Block)]
    <3> SUFFICES ASSUME NEW r \in Req PROVE held'[r] \in Seq(Block)
      BY <1>3
    <3>1. CASE r \in Kv!Range(preempted)
      BY <1>11, <3>1, EmptySeq
    <3>2. CASE r \in steps
      <4>1. held[r] \in Seq(Block) /\ block[r] \in Block
        BY <1>6, <3>2 DEF Kv!TypeOK
      <4>2. Append(held[r], block[r]) \in Seq(Block)
        BY <4>1, AppendProperties
      <4> QED BY <1>11, <3>2, <4>2
    <3>3. CASE r \notin Kv!Range(preempted) \union steps
      BY <1>11, <3>3 DEF Kv!TypeOK
    <3> QED BY <3>1, <3>2, <3>3
  <2>3. kv_computed' \in [Req -> Nat]
    BY <1>4 DEF Kv!TypeOK
  <2>4. \A m \in DOMAIN scheduled' : Kv!IsStep(scheduled'[m])
    BY <1>9, <1>10 DEF Kv!TypeOK
  <2>5. Kv!IsPartial(needing', Seq(Block))
    BY <1>5 DEF Kv!IsPartial, Kv!NoMarks
  <2>6. \A set \in {kv_requests', active', keeping', triggered', stopping', leaving', resident', told'} :
          set \subseteq Req
    BY <1>5, <1>13 DEF Kv!TypeOK
  <2>7. /\ generated' \in [Req -> Nat] /\ executed' \in Seq(Kv!Outcome)
        /\ content' \in [Block -> Kv!Owner \union {<<>>}] /\ turn' \in {"schedule", "update"}
        /\ shipped' \in [Req -> Seq([known : BOOLEAN, tokens : Seq(Kv!Owner \union {<<>>})])]
    BY <1>5 DEF Kv!TypeOK
  <2> QED BY <1>4, <1>6, <1>10, <2>1, <2>2, <2>3, <2>4, <2>5, <2>6, <2>7 DEF Kv!TypeOK
<1>16. Kv!Queues'
  <2>1. \A r \in Kv!Range(kv_waiting') \union Kv!Range(kv_running') : Kv!Alive(r)'
    BY <1>4, <1>6, <1>12
  <2>2. ASSUME NEW r \in Req, kv_status'[r] = "new"
        PROVE  r \notin kv_requests' /\ r \notin triggered' /\ kv_computed'[r] = 0 /\ ~Kv!Yields(r)'
    <3>1. r \notin kv_requests /\ r \notin triggered /\ kv_computed[r] = 0 /\ ~Kv!Yields(r)
      BY <1>12, <2>2 DEF Kv!Queues
    <3>2. r \notin steps \union Kv!Range(preempted)
      BY <1>7, <3>1 DEF Kv!Alive
    <3> QED BY <1>5, <1>11, <1>14, <3>1, <3>2
  <2> QED BY <1>4, <1>6, <2>1, <2>2 DEF Kv!Queues
<1>17. Kv!Blocks'
  <2>1. ASSUME NEW r \in kv_requests' PROVE Len(held'[r]) = kv_computed'[r]
    <3>1. r \in Req /\ Len(held[r]) = kv_computed[r] /\ held[r] \in Seq(Block)
      BY <1>5 DEF Kv!Blocks, Kv!TypeOK
    <3>2. CASE r \in Kv!Range(preempted)
      <4>1. Len(<<>>) = 0
        OBVIOUS
      <4> QED BY <1>11, <3>2, <4>1
    <3>3. CASE r \in steps
      <4>1. block[r] \in Block
        BY <1>6, <3>3
      <4>2. Len(Append(held[r], block[r])) = Len(held[r]) + 1
        BY <3>1, <4>1, AppendProperties
      <4> QED BY <1>11, <3>1, <3>3, <4>2
    <3>4. CASE r \notin Kv!Range(preempted) \union steps
      BY <1>11, <3>1, <3>4
    <3> QED BY <3>2, <3>3, <3>4
  <2>2. ASSUME NEW r \in Req
        PROVE  /\ r \in Kv!Range(preempted) => Kv!Range(held'[r]) = {}
               /\ r \in steps => Kv!Range(held'[r]) = Kv!Range(held[r]) \union {block[r]}
               /\ r \notin Kv!Range(preempted) \union steps => Kv!Range(held'[r]) = Kv!Range(held[r])
    <3>1. Kv!Range(<<>>) = {}
      BY DEF Kv!Range
    <3>2. ASSUME r \in steps
          PROVE  Kv!Range(Append(held[r], block[r])) = Kv!Range(held[r]) \union {block[r]}
      <4>1. block[r] \in Block /\ held[r] \in Seq(Block)
        BY <1>6, <3>2 DEF Kv!TypeOK
      <4> QED BY <4>1, TransferAppends
    <3> QED BY <1>11, <3>1, <3>2
  <2>3. ASSUME NEW q \in Req, NEW r \in Req, q # r
        PROVE  Kv!Range(held'[q]) \intersect Kv!Range(held'[r]) = {}
    <3>1. Kv!Range(held[q]) \intersect Kv!Range(held[r]) = {}
      BY <2>3 DEF Kv!Blocks
    <3>2. CASE q \in Kv!Range(preempted) \/ r \in Kv!Range(preempted)
      BY <2>2, <3>2
    <3>3. CASE q \notin Kv!Range(preempted) /\ r \notin Kv!Range(preempted)
      <4>1. q \in steps => block[q] \notin Kv!Range(held[r])
        BY <1>6, <3>3
      <4>2. r \in steps => block[r] \notin Kv!Range(held[q])
        BY <1>6, <3>3
      <4>3. q \in steps /\ r \in steps => block[q] # block[r]
        BY <1>6, <2>3
      <4> QED BY <2>2, <3>1, <3>3, <4>1, <4>2, <4>3
    <3> QED BY <3>2, <3>3
  <2> QED BY <2>1, <2>3 DEF Kv!Blocks
<1>18. ASSUME NEW m \in 1 .. at, NEW r, NEW mark, Kv!Readable(scheduled, content, resident, m, r, mark)
       PROVE  Kv!Readable(scheduled', content, resident, m, r, mark)
  <2>1. scheduled \in Seq(Kv!Range(scheduled)) /\ m \in 1 .. Len(scheduled) + 1
    BY DEF Kv!TypeOK, at
  <2> QED BY <1>10, <1>18, <2>1, BeforeNew
<1>19. \A r \in Req : Kv!Alive(r) => \A m \in 1 .. at : r \notin scheduled'[m].finished
  <2>1. \A r \in leaving \union UNION {scheduled[m].finished : m \in DOMAIN scheduled} :
          kv_status[r] \in Kv!Finished
    BY DEF Kv!Contents
  <2>2. \A m \in 1 .. at : scheduled'[m].finished \subseteq
          leaving \union UNION {scheduled[j].finished : j \in DOMAIN scheduled}
    BY <1>8, <1>10
  <2> QED BY <2>1, <2>2 DEF Kv!Alive
<1>20. \A r \in Req \ Kv!Range(preempted) : \A i \in DOMAIN held[r] :
         ~Kv!Writes(scheduled'[at], held[r][i])
  <2>1. \A r \in Req : \A i \in DOMAIN held[r] : held[r][i] \in Kv!Range(held[r])
    BY DEF Kv!Range
  <2>2. DOMAIN block = steps
    BY <1>6
  <2> QED BY <1>6, <1>8, <1>10, <2>1, <2>2 DEF Kv!Writes
<1>21. Kv!Contents'
  <2>1. ASSUME NEW r \in Req, Kv!Alive(r)
        PROVE  Kv!Readable(scheduled', content, resident, at + 1, r, held'[r])
    <3>1. CASE r \in Kv!Range(preempted)
      BY <1>11, <3>1, EmptyReadable
    <3>2. ASSUME r \notin Kv!Range(preempted)
          PROVE  Kv!Readable(scheduled', content, resident, at + 1, r, held[r])
      <4>1. Kv!Readable(scheduled, content, resident, at, r, held[r])
        BY <2>1 DEF Kv!Contents, at
      <4>2. at \in 1 .. at
        BY <1>10
      <4>3. Kv!Readable(scheduled', content, resident, at, r, held[r])
        BY <1>18, <4>1, <4>2
      <4> QED BY <1>10, <1>19, <1>20, <2>1, <3>2, <4>2, <4>3, StillReadable
    <3>3. CASE r \in steps
      <4>1. r \notin Kv!Range(preempted) /\ r \in DOMAIN scheduled'[at].blocks
            /\ scheduled'[at].blocks[r] = block[r] /\ scheduled'[at].tokens[r] = kv_computed[r] + 1
        BY <1>6, <1>8, <1>10, <3>3
      <4>2. held[r] \in Seq(Block) /\ block[r] \in Block /\ held'[r] = Append(held[r], block[r])
            /\ Len(held[r]) = kv_computed[r] /\ Len(held[r]) \in Nat
        BY <1>6, <1>11, <2>1, <3>3, LenProperties DEF Kv!TypeOK, Kv!Blocks, Kv!Alive
      <4>3. /\ DOMAIN held'[r] = 1 .. Len(held[r]) + 1 /\ DOMAIN held[r] = 1 .. Len(held[r])
            /\ \A i \in 1 .. Len(held[r]) : held'[r][i] = held[r][i]
            /\ held'[r][Len(held[r]) + 1] = block[r]
        BY <4>2, AppendProperties, LenProperties
      <4>4. Kv!Knows(scheduled', resident, at + 1, r)
        BY <1>10, <1>19, <2>1, <4>1, KnowsAnew
      <4>5. Kv!HoldsToken(scheduled', content, at + 1, block[r], r, kv_computed[r] + 1)
        <5>1. Kv!HoldsToken(scheduled', content, at + 1, scheduled'[at].blocks[r], r,
                scheduled'[at].tokens[r])
          BY <1>10, <4>1, HoldsWritten
        <5> QED BY <4>1, <5>1
      <4>6. \A i \in 1 .. Len(held[r]) : Kv!HoldsToken(scheduled', content, at + 1, held[r][i], r, i)
        BY <3>2, <4>1, <4>3 DEF Kv!Readable
      <4>7. ASSUME NEW i \in DOMAIN held'[r]
            PROVE  Kv!HoldsToken(scheduled', content, at + 1, held'[r][i], r, i)
        <5>1. CASE i \in 1 .. Len(held[r])
          BY <4>3, <4>6, <5>1
        <5>2. CASE i = Len(held[r]) + 1
          BY <4>2, <4>3, <4>5, <5>2
        <5> QED BY <4>2, <4>3, <5>1, <5>2
      <4> QED BY <4>4, <4>7 DEF Kv!Readable
    <3>4. CASE r \notin Kv!Range(preempted) \union steps
      BY <1>11, <3>2, <3>4
    <3> QED BY <3>1, <3>3, <3>4
  <2>2. ASSUME NEW m \in DOMAIN scheduled', NEW r \in DOMAIN scheduled'[m].sends
        PROVE  Kv!Readable(scheduled', content, resident, m, r, scheduled'[m].sends[r])
    <3>1. CASE m = at
      <4>1. Kv!Readable(scheduled, content, resident, at, r, needing[r]) /\ at \in 1 .. at
        BY <1>8, <1>10, <2>2, <3>1 DEF Kv!Contents, at
      <4> QED BY <1>8, <1>10, <1>18, <3>1, <4>1
    <3>2. CASE m \in DOMAIN scheduled
      <4>1. /\ m \in 1 .. at /\ scheduled'[m] = scheduled[m]
            /\ Kv!Readable(scheduled, content, resident, m, r, scheduled[m].sends[r])
        BY <1>10, <2>2, <3>2 DEF Kv!Contents
      <4> QED BY <1>18, <4>1
    <3> QED BY <1>10, <3>1, <3>2
  <2>3. \A r \in leaving' \union UNION {scheduled'[m].finished : m \in DOMAIN scheduled'} :
          kv_status'[r] \in Kv!Finished
    <3>1. \A r \in leaving \union UNION {scheduled[m].finished : m \in DOMAIN scheduled} :
            r \in Req /\ kv_status[r] \in Kv!Finished
      BY DEF Kv!Contents, Kv!TypeOK, Kv!IsStep
    <3>2. \A m \in DOMAIN scheduled' : scheduled'[m].finished \subseteq
            leaving \union UNION {scheduled[j].finished : j \in DOMAIN scheduled}
      BY <1>8, <1>10
    <3> QED BY <1>5, <1>12, <3>1, <3>2
  <2>4. content' = content /\ resident' = resident /\ Len(scheduled') + 1 = at + 1
    BY <1>5, <1>10
  <2>5. \A r \in Req : Kv!Alive(r)' =>
          Kv!Readable(scheduled', content', resident', Len(scheduled') + 1, r, held'[r])
    BY <1>12, <2>1, <2>4
  <2> QED BY <1>13, <2>2, <2>3, <2>4, <2>5 DEF Kv!Contents
<1>22. Kv!Marks'
  <2>1. \A r \in Req : Kv!Comes(r)' \/ shipped'[r] # <<>> =>
          r \in triggered' \/ kv_status'[r] \in Kv!Finished
    BY <1>5, <1>12, <1>14 DEF Kv!Marks
  <2>2. ASSUME NEW m \in DOMAIN scheduled', NEW r \in DOMAIN scheduled'[m].sends
        PROVE  /\ shipped[r] = <<>>
               /\ \A j \in DOMAIN scheduled' : r \in DOMAIN scheduled'[j].sends => j = m
               /\ \A j \in DOMAIN executed : r \notin executed[j].extracted
    <3>1. CASE m = at
      <4>1. r \in DOMAIN needing
        BY <1>8, <1>10, <2>2, <3>1
      <4>2. /\ shipped[r] = <<>> /\ \A j \in DOMAIN executed : r \notin executed[j].extracted
            /\ \A j \in DOMAIN scheduled : r \notin DOMAIN scheduled[j].sends
        BY <4>1 DEF Kv!Marks
      <4> QED BY <1>10, <3>1, <4>2
    <3>2. CASE m \in DOMAIN scheduled
      <4>1. r \in DOMAIN scheduled[m].sends
        BY <1>10, <2>2, <3>2
      <4>2. /\ shipped[r] = <<>> /\ \A j \in DOMAIN executed : r \notin executed[j].extracted
            /\ \A j \in DOMAIN scheduled : r \in DOMAIN scheduled[j].sends => j = m
            /\ r \notin DOMAIN needing
        BY <3>2, <4>1 DEF Kv!Marks
      <4> QED BY <1>8, <1>10, <4>2
    <3> QED BY <1>10, <3>1, <3>2
  <2>3. \A m \in DOMAIN executed : \A r \in executed[m].extracted :
          \A j \in DOMAIN executed : r \in executed[j].extracted => j = m
    BY DEF Kv!Marks
  <2> QED BY <1>5, <1>13, <2>1, <2>2, <2>3 DEF Kv!Marks
<1>23. Kv!Heard'
  <2>1. \A r \in active' : Kv!Comes(r)' /\ r \notin DOMAIN needing'
    <3>1. \A r \in active' : r \in Req /\ Kv!Comes(r)
      BY <1>5, <1>13 DEF Kv!Heard, Kv!Comes, Kv!TypeOK
    <3> QED BY <1>13, <1>14, <3>1
  <2>2. \A r \in triggered' : Kv!Alive(r)' => r \in active' \/ r \in told'
    <3>1. \A r \in triggered : r \in Req
      BY DEF Kv!TypeOK
    <3> QED BY <1>5, <1>12, <3>1 DEF Kv!Heard
  <2>3. keeping' \subseteq kv_requests'
    BY <1>5 DEF Kv!Heard
  <2> QED BY <1>13, <2>1, <2>2, <2>3 DEF Kv!Heard
<1>24. Kv!OneOut'
  <2> SUFFICES ASSUME criteria.flight = 1 PROVE Kv!OneOut'
    BY <1>5 DEF Kv!OneOut
  <2>1. Len(scheduled) = 0 /\ Len(executed) = 0 /\ DOMAIN scheduled = {} /\ DOMAIN executed = {}
    <3>1. Len(executed) \in Nat /\ DOMAIN executed = 1 .. Len(executed)
      BY LenProperties DEF Kv!TypeOK
    <3> QED BY <1>5, <1>10, <3>1
  <2>2. Len(scheduled') + Len(executed') <= 1
    BY <1>5, <1>10, <2>1 DEF at
  <2>3. ASSUME NEW r \in Req, Kv!Alive(r)', Kv!Yields(r)' PROVE kv_computed'[r] >= Prompt
    <3>1. r \in steps /\ kv_computed[r] + 1 >= Prompt + generated[r]
      BY <1>14, <2>1, <2>3 DEF Kv!Yields
    <3>2. kv_computed[r] \in Nat /\ generated[r] \in Nat /\ Prompt \in Nat
      BY <2>3 DEF Kv!TypeOK, Kv!KvAssumption
    <3>3. kv_computed'[r] = kv_computed[r] + 1
      BY <1>11, <3>1
    <3> QED BY <3>1, <3>2, <3>3
  <2>4. \A r \in Req : kv_status'[r] # "aborted" => kv_status[r] # "aborted"
    BY <1>12
  <2>5. \A m \in DOMAIN scheduled' : \A r \in DOMAIN scheduled'[m].sends :
          kv_status'[r] # "aborted" => Len(scheduled'[m].sends[r]) >= Prompt
    <3>1. \A r \in DOMAIN needing : kv_status[r] # "aborted" => Len(needing[r]) >= Prompt
      BY DEF Kv!OneOut, Kv!Whole
    <3> QED BY <1>8, <1>10, <1>13, <2>1, <2>4, <3>1
  <2>6. \A r \in Req : shipped'[r] # <<>> /\ kv_status'[r] # "aborted" =>
          Len(shipped'[r][1].tokens) >= Prompt
    BY <1>5, <2>4 DEF Kv!OneOut, Kv!Whole
  <2>7. \A r \in told' \union UNION {executed'[m].extracted : m \in DOMAIN executed'} :
          kv_status'[r] # "aborted" => shipped'[r] # <<>>
    <3>1. \A r \in told' \union UNION {executed'[m].extracted : m \in DOMAIN executed'} :
            r \in told /\ r \in Req
      BY <1>5, <2>1 DEF Kv!TypeOK
    <3> QED BY <1>5, <2>4, <3>1 DEF Kv!OneOut
  <2> QED BY <1>13, <2>2, <2>3, <2>5, <2>6, <2>7 DEF Kv!OneOut, Kv!Whole
<1>25. Kv!OwnTokens' /\ Kv!SentOnce'
  BY <1>5 DEF Kv!OwnTokens, Kv!SentOnce
<1>26. Kv!GoneWhenSent'
  <2>1. \A r \in Req : /\ kv_status'[r] \in {"stopped", "handed_over"} => kv_status'[r] = kv_status[r]
                       /\ kv_status'[r] # "aborted" => kv_status[r] # "aborted"
    BY <1>12 DEF Kv!Finished
  <2> QED BY <1>5, <2>1 DEF Kv!GoneWhenSent, Kv!Whole
<1>27. Kv!KeptForTransfer'
  <2>1. \A r \in keeping : r \in Req
    BY DEF Kv!TypeOK
  <2> QED BY <1>5, <1>14, <2>1 DEF Kv!KeptForTransfer
<1>28. Kv!NothingStranded'
  <2>1. \A r \in kv_requests : r \in Req
    BY DEF Kv!TypeOK
  <2>2. ASSUME NEW r \in Req \ kv_requests PROVE held'[r] = <<>>
    <3>1. r \notin Kv!Range(preempted) \union steps
      BY <1>7 DEF Kv!Alive
    <3> QED BY <1>11, <3>1 DEF Kv!NothingStranded
  <2> QED BY <1>5, <1>12, <2>1, <2>2 DEF Kv!NothingStranded
<1>29. Kv!ReadyBeforeStop'
  <2>1. "handed_over" \in Kv!Finished
    BY DEF Kv!Finished
  <2> QED BY <1>5, <1>12, <2>1 DEF Kv!ReadyBeforeStop
<1> QED BY <1>15, <1>16, <1>17, <1>21, <1>22, <1>23, <1>24, <1>25, <1>26, <1>27, <1>28, <1>29

(* The output that is read, and those behind it.                           *)
LEMMA FirstOutcome ==
  ASSUME Kv!TypeOK, executed # <<>>, executed' = Tail(executed)
  PROVE  /\ Len(executed) \in Nat /\ Len(executed) >= 1 /\ DOMAIN executed = 1 .. Len(executed)
         /\ 1 \in DOMAIN executed /\ Head(executed) = executed[1] /\ executed[1] \in Kv!Outcome
         /\ executed' \in Seq(Kv!Outcome) /\ Len(executed') = Len(executed) - 1
         /\ \A k \in DOMAIN executed' :
              k + 1 \in DOMAIN executed /\ executed'[k] = executed[k + 1] /\ k \in Nat /\ k + 1 # 1
         /\ \A k \in DOMAIN executed :
              k = 1 \/ (k - 1 \in DOMAIN executed' /\ executed'[k - 1] = executed[k])
<1>1. executed \in Seq(Kv!Outcome)
  BY DEF Kv!TypeOK
<1>2. /\ Len(executed) \in Nat /\ Len(executed) >= 1 /\ DOMAIN executed = 1 .. Len(executed)
      /\ Head(executed) = executed[1]
  BY <1>1, EmptySeq, LenProperties
<1>3. /\ executed' \in Seq(Kv!Outcome) /\ Len(executed') = Len(executed) - 1
      /\ \A k \in 1 .. Len(executed') : executed'[k] = executed[k + 1]
  BY <1>1, HeadTailProperties
<1>4. DOMAIN executed' = 1 .. Len(executed')
  BY <1>3, LenProperties
<1>5. executed[1] \in Kv!Outcome
  BY <1>1, <1>2, ElementOfSeq
<1> DEFINE d == executed'
<1>6. /\ Len(d) = Len(executed) - 1 /\ DOMAIN d = 1 .. Len(d)
      /\ \A k \in 1 .. Len(d) : d[k] = executed[k + 1]
  BY <1>3, <1>4
<1> HIDE DEF d
<1>7. \A k \in DOMAIN d : k + 1 \in DOMAIN executed /\ d[k] = executed[k + 1] /\ k \in Nat /\ k + 1 # 1
  BY <1>2, <1>6
<1>8. ASSUME NEW k \in DOMAIN executed, k # 1 PROVE k - 1 \in DOMAIN d /\ d[k - 1] = executed[k]
  <2>1. k - 1 \in 1 .. Len(d) /\ k - 1 + 1 = k
    BY <1>2, <1>6, <1>8
  <2> QED BY <1>6, <2>1
<1>9. 1 \in DOMAIN executed
  BY <1>2
<1> QED BY <1>2, <1>3, <1>5, <1>7, <1>8, <1>9 DEF d

LEMMA UpdateKv ==
  ASSUME Kv!KvAssumption, Kv!KvInvariant, Kv!Update PROVE Kv!KvInvariant'
<1> USE DEF Kv!KvInvariant, Kv!KvSound
<1> DEFINE x == Head(executed)
           hearing == {r \in x.yields : Kv!Alive(r)}
           out == active \ x.extracted
<1>1. PICK eos \in SUBSET hearing, special \in SUBSET Kv!Specials(hearing) :
        LET stopped == {r \in hearing : r \in eos \/ generated[r] + 1 = MaxTokens}
            others == {r \in x.steps : Kv!Alive(r) /\ Kv!MustTransfer(r)} \ stopped
            deferred == {r \in others : Kv!StopsNow(r, out)}
            newly == {r \in others : Kv!Triggers(r, special)}
            ended == stopped \union deferred
            stays == {r \in ended : Kv!Stays(r, out)}
            freed == (ended \ stays) \union ((keeping \union stays) \intersect x.extracted)
        IN /\ told' = told \union {r \in x.extracted : Kv!Alive(r)}
           /\ generated' = [r \in Req |-> IF r \in hearing THEN generated[r] + 1 ELSE generated[r]]
           /\ kv_status' = [r \in Req |-> IF r \in stopped THEN "stopped"
                                       ELSE IF r \in deferred THEN "handed_over" ELSE kv_status[r]]
           /\ kv_running' = Kv!Without(kv_running, ended)
           /\ kv_waiting' = Kv!Without(kv_waiting, ended)
           /\ needing' = Kv!Marked(newly \union {r \in ended : Kv!MarkedAtEnd(r)})
           /\ active' = out \ freed
           /\ keeping' = (keeping \union stays) \ x.extracted
           /\ triggered' = (triggered \union newly) \ freed
           /\ stopping' = ((stopping \union (IF criteria.stop THEN newly ELSE {})) \ deferred) \ freed
           /\ leaving' = leaving \union ended
           /\ held' = [r \in Req |-> IF r \in freed THEN <<>> ELSE held[r]]
           /\ kv_requests' = kv_requests \ freed
  BY DEF Kv!Update
<1> DEFINE stopped == {r \in hearing : r \in eos \/ generated[r] + 1 = MaxTokens}
           others == {r \in x.steps : Kv!Alive(r) /\ Kv!MustTransfer(r)} \ stopped
           deferred == {r \in others : Kv!StopsNow(r, out)}
           newly == {r \in others : Kv!Triggers(r, special)}
           ended == stopped \union deferred
           stays == {r \in ended : Kv!Stays(r, out)}
           freed == (ended \ stays) \union ((keeping \union stays) \intersect x.extracted)
           marked == newly \union {r \in ended : Kv!MarkedAtEnd(r)}
<1>2. /\ told' = told \union {r \in x.extracted : Kv!Alive(r)}
      /\ generated' = [r \in Req |-> IF r \in hearing THEN generated[r] + 1 ELSE generated[r]]
      /\ kv_status' = [r \in Req |-> IF r \in stopped THEN "stopped"
                                  ELSE IF r \in deferred THEN "handed_over" ELSE kv_status[r]]
      /\ kv_running' = Kv!Without(kv_running, ended)
      /\ kv_waiting' = Kv!Without(kv_waiting, ended)
      /\ needing' = Kv!Marked(marked)
      /\ active' = out \ freed
      /\ keeping' = (keeping \union stays) \ x.extracted
      /\ triggered' = (triggered \union newly) \ freed
      /\ stopping' = ((stopping \union (IF criteria.stop THEN newly ELSE {})) \ deferred) \ freed
      /\ leaving' = leaving \union ended
      /\ held' = [r \in Req |-> IF r \in freed THEN <<>> ELSE held[r]]
      /\ kv_requests' = kv_requests \ freed
  BY <1>1
<1>3. /\ executed # <<>> /\ executed' = Tail(executed)
      /\ turn = "update" \/ ~Kv!HasRequests
      /\ turn' = "schedule"
      /\ UNCHANGED <<criteria, kv_computed, scheduled, content, resident, shipped>>
  BY DEF Kv!Update
<1>4. /\ Len(executed) \in Nat /\ Len(executed) >= 1 /\ 1 \in DOMAIN executed /\ x = executed[1]
      /\ x \in Kv!Outcome /\ x.yields \subseteq Req /\ x.steps \subseteq Req /\ x.extracted \subseteq Req
      /\ executed' \in Seq(Kv!Outcome) /\ Len(executed') = Len(executed) - 1
      /\ \A k \in DOMAIN executed' :
           k + 1 \in DOMAIN executed /\ executed'[k] = executed[k + 1] /\ k \in Nat /\ k + 1 # 1
      /\ \A k \in DOMAIN executed :
           k = 1 \/ (k - 1 \in DOMAIN executed' /\ executed'[k - 1] = executed[k])
  <2>1. /\ Len(executed) \in Nat /\ Len(executed) >= 1 /\ DOMAIN executed = 1 .. Len(executed)
        /\ 1 \in DOMAIN executed /\ Head(executed) = executed[1] /\ executed[1] \in Kv!Outcome
        /\ executed' \in Seq(Kv!Outcome) /\ Len(executed') = Len(executed) - 1
        /\ \A k \in DOMAIN executed' :
             k + 1 \in DOMAIN executed /\ executed'[k] = executed[k + 1] /\ k \in Nat /\ k + 1 # 1
        /\ \A k \in DOMAIN executed :
             k = 1 \/ (k - 1 \in DOMAIN executed' /\ executed'[k - 1] = executed[k])
    BY <1>3, FirstOutcome
  <2>2. x \in Kv!Outcome
    BY <2>1
  <2>3. x.yields \subseteq Req /\ x.steps \subseteq Req /\ x.extracted \subseteq Req
    <3> HIDE DEF x
    <3> QED BY <2>2 DEF Kv!Outcome
  <2> QED BY <2>1, <2>2, <2>3
<1>5. special \subseteq hearing
  BY DEF Kv!Specials
<1>6. /\ \A r \in hearing : r \in Req /\ Kv!Alive(r) /\ Kv!Yields(r)
      /\ \A r \in others : r \in Req /\ Kv!Alive(r) /\ Kv!MustTransfer(r)
  <2>1. \A r \in x.yields : Kv!Yields(r)
    BY <1>4 DEF Kv!Yields
  <2> HIDE DEF x
  <2> QED BY <1>4, <2>1
<1>7. /\ \A r \in stopped : r \in hearing
      /\ \A r \in deferred : r \in others /\ r \in triggered /\ r \notin out
      /\ \A r \in newly : r \in others /\ r \notin triggered
      /\ \A r \in ended : r \in stopped \/ r \in deferred
      /\ \A r \in deferred : r \notin stopped
      /\ \A r \in newly : r \notin stopped
  BY DEF Kv!StopsNow, Kv!Triggers
<1>8. /\ \A r \in newly : r \in Req /\ Kv!Alive(r) /\ r \notin triggered /\ r \notin ended /\ r \in others
      /\ \A r \in ended : r \in Req /\ Kv!Alive(r)
      /\ \A r \in marked : r \in Req /\ Kv!Alive(r) /\ r \notin triggered
      /\ marked \subseteq kv_requests
  <2> HIDE DEF stopped, newly, others, deferred, hearing
  <2> QED BY <1>6, <1>7 DEF Kv!MarkedAtEnd, Kv!Alive
<1>9. /\ \A r \in stopped : kv_status'[r] = "stopped"
      /\ \A r \in deferred : kv_status'[r] = "handed_over"
      /\ \A r \in Req \ ended : kv_status'[r] = kv_status[r]
      /\ \A r \in Req : \/ r \notin freed /\ held'[r] = held[r]
                        \/ r \in freed /\ held'[r] = <<>>
  <2>1. stopped \subseteq Req /\ deferred \subseteq Req /\ ended = stopped \union deferred
    BY <1>8
  <2> HIDE DEF stopped, deferred, ended, freed
  <2> QED BY <1>2, <1>7, <2>1
<1>10. /\ stays \subseteq ended
       /\ \A r \in ended : r \in stays <=> Kv!Stays(r, out)
       /\ \A r \in Req : r \in freed <=> \/ r \in ended /\ r \notin stays
                                         \/ (r \in keeping \/ r \in stays) /\ r \in x.extracted
  OBVIOUS
<1>11. \A r \in DOMAIN needing : ~Kv!Alive(r)
  <2>1. turn = "update" => \A r \in DOMAIN needing : ~Kv!Alive(r)
    BY DEF Kv!Heard
  <2>2. ~Kv!HasRequests => DOMAIN needing = {}
    BY DEF Kv!HasRequests
  <2> QED BY <1>3, <2>1, <2>2
<1>12. /\ Kv!IsPartial(needing', Seq(Block))
       /\ DOMAIN needing' = DOMAIN needing \union marked
       /\ \A r \in DOMAIN needing : needing'[r] = needing[r]
       /\ \A r \in marked : needing'[r] = held[r] /\ r \notin DOMAIN needing
  <2>1. marked \in SUBSET kv_requests
    BY <1>8
  <2>2. \A r \in marked : r \notin DOMAIN needing
    BY <1>8, <1>11
  <2> HIDE DEF marked
  <2> QED BY <1>2, <2>1, <2>2, MarkedBlocks
<1>13. \A r \in marked : ~Kv!Comes(r) /\ shipped[r] = <<>>
  <2> HIDE DEF marked
  <2> QED BY <1>8, Unmarked
<1> HIDE DEF x, hearing, out, stopped, others, deferred, newly, stays
<1>14. \A r \in Req : /\ kv_status[r] \in Kv!Finished => kv_status'[r] = kv_status[r]
                      /\ kv_status'[r] \in Kv!Finished <=> kv_status[r] \in Kv!Finished \/ r \in ended
                      /\ kv_status[r] = "aborted" <=> kv_status'[r] = "aborted"
                      /\ kv_status'[r] = "new" => kv_status[r] = "new"
  <2> SUFFICES ASSUME NEW r \in Req
               PROVE  /\ kv_status[r] \in Kv!Finished => kv_status'[r] = kv_status[r]
                      /\ kv_status'[r] \in Kv!Finished <=> kv_status[r] \in Kv!Finished \/ r \in ended
                      /\ kv_status[r] = "aborted" <=> kv_status'[r] = "aborted"
                      /\ kv_status'[r] = "new" => kv_status[r] = "new"
    OBVIOUS
  <2>1. r \in ended => kv_status[r] \notin Kv!Finished
    BY <1>8 DEF Kv!Alive
  <2>2. r \in ended => kv_status'[r] \in {"stopped", "handed_over"}
    BY <1>7, <1>9
  <2> HIDE DEF ended, freed
  <2> QED BY <1>9, <2>1, <2>2 DEF Kv!Finished
<1>15. \A r \in Req : r \in freed \/ r \in keeping => ~Kv!Alive(r)'
  <2> SUFFICES ASSUME NEW r \in Req, r \in freed \/ r \in keeping PROVE ~Kv!Alive(r)'
    OBVIOUS
  <2>1. CASE r \in freed
    BY <1>2, <2>1 DEF Kv!Alive
  <2>2. CASE r \in keeping
    <3>1. kv_status[r] \in Kv!Finished
      BY <2>2 DEF Kv!Heard, Kv!NothingStranded
    <3> QED BY <1>14, <3>1 DEF Kv!Alive
  <2> QED BY <2>1, <2>2
<1>16. \A r \in Req : r \in freed => kv_status'[r] \in Kv!Finished
  <2>1. \A r \in keeping : kv_status[r] \in Kv!Finished /\ r \in Req
    BY DEF Kv!Heard, Kv!NothingStranded, Kv!TypeOK
  <2> HIDE DEF ended
  <2> QED BY <1>10, <1>14, <2>1
<1>17. \A r \in Req : Kv!Alive(r)' <=> Kv!Alive(r) /\ r \notin ended
  <2>1. \A r \in Req : Kv!Alive(r)' => Kv!Alive(r) /\ r \notin ended
    BY <1>2, <1>14 DEF Kv!Alive
  <2>2. \A r \in Req : Kv!Alive(r) /\ r \notin ended => Kv!Alive(r)'
    <3> HIDE DEF ended, freed
    <3> QED BY <1>2, <1>14, <1>16 DEF Kv!Alive
  <2> QED BY <2>1, <2>2
<1>18. Kv!TypeOK'
  <2>1. kv_status' \in [Req -> {"new", "waiting", "running", "preempted"} \union Kv!Finished]
    <3> HIDE DEF ended, freed
    <3> QED BY <1>2 DEF Kv!TypeOK, Kv!Finished
  <2>2. kv_waiting' \in Seq(Req) /\ kv_running' \in Seq(Req)
    BY <1>2, TransferRemoves DEF Kv!TypeOK
  <2>3. held' \in [Req -> Seq(Block)]
    <3>1. \A r \in Req : held'[r] \in Seq(Block)
      BY <1>9, EmptySeq DEF Kv!TypeOK
    <3> QED BY <1>2, <3>1
  <2>4. generated' \in [Req -> Nat]
    BY <1>2 DEF Kv!TypeOK
  <2>5. /\ \A r \in ended : r \in Req
        /\ \A r \in newly : r \in Req
        /\ \A r \in stays : r \in ended
    BY <1>8, <1>10
  <2>6. /\ kv_requests \subseteq Req /\ active \subseteq Req /\ keeping \subseteq Req
        /\ triggered \subseteq Req /\ stopping \subseteq Req /\ leaving \subseteq Req
        /\ resident \subseteq Req /\ told \subseteq Req
    BY DEF Kv!TypeOK
  <2>7. out \subseteq active
    BY DEF out
  <2> HIDE DEF ended, freed
  <2>8. /\ kv_requests' \subseteq Req /\ active' \subseteq Req /\ keeping' \subseteq Req
        /\ triggered' \subseteq Req /\ stopping' \subseteq Req /\ leaving' \subseteq Req
        /\ resident' \subseteq Req /\ told' \subseteq Req
    BY <1>2, <1>3, <1>4, <2>5, <2>6, <2>7
  <2>9. \A set \in {kv_requests', active', keeping', triggered', stopping', leaving', resident', told'} :
          set \subseteq Req
    BY <2>8
  <2>10. /\ kv_computed' \in [Req -> Nat] /\ turn' \in {"schedule", "update"}
         /\ scheduled' \in Seq(Kv!Range(scheduled'))
         /\ \A k \in DOMAIN scheduled' : Kv!IsStep(scheduled'[k])
         /\ content' \in [Block -> Kv!Owner \union {<<>>}]
         /\ shipped' \in [Req -> Seq([known : BOOLEAN, tokens : Seq(Kv!Owner \union {<<>>})])]
    BY <1>3 DEF Kv!TypeOK
  <2> QED BY <1>4, <1>12, <2>1, <2>2, <2>3, <2>4, <2>9, <2>10 DEF Kv!TypeOK
<1>19. /\ \A r \in Req : Kv!Comes(r) /\ r \notin x.extracted => Kv!Comes(r)'
       /\ \A r \in Req : Kv!Comes(r)' => Kv!Comes(r) \/ r \in marked
       /\ \A r \in Req : Kv!Yields(r)' => Kv!Yields(r)
       /\ \A r \in x.extracted : r \in Req /\ Kv!Comes(r) /\ ~Kv!Comes(r)'
       /\ \A r \in DOMAIN needing' : r \in DOMAIN needing \/ r \in marked
  <2> HIDE DEF marked
  <2>1. \A r \in Req : Kv!Comes(r) /\ r \notin x.extracted => Kv!Comes(r)'
    <3> SUFFICES ASSUME NEW r \in Req, Kv!Comes(r), r \notin x.extracted PROVE Kv!Comes(r)'
      OBVIOUS
    <3>1. CASE r \in DOMAIN needing
      BY <1>12, <3>1 DEF Kv!Comes
    <3>2. CASE \E k \in DOMAIN scheduled : r \in DOMAIN scheduled[k].sends
      BY <1>3, <3>2 DEF Kv!Comes
    <3>3. ASSUME NEW k \in DOMAIN executed, r \in executed[k].extracted PROVE Kv!Comes(r)'
      <4>1. k - 1 \in DOMAIN executed' /\ executed'[k - 1] = executed[k]
        BY <1>4, <3>3
      <4> QED BY <3>3, <4>1 DEF Kv!Comes
    <3> QED BY <3>1, <3>2, <3>3 DEF Kv!Comes
  <2>2. \A r \in Req : Kv!Comes(r)' => Kv!Comes(r) \/ r \in marked
    BY <1>3, <1>4, <1>12 DEF Kv!Comes
  <2>3. \A r \in Req : Kv!Yields(r)' => Kv!Yields(r)
    BY <1>3, <1>4 DEF Kv!Yields
  <2>4. ASSUME NEW r \in x.extracted PROVE r \in Req /\ Kv!Comes(r) /\ ~Kv!Comes(r)'
    <3>1. r \in Req /\ Kv!Comes(r)
      BY <1>4 DEF Kv!Comes
    <3>2. r \notin DOMAIN needing /\ \A m \in DOMAIN executed : r \in executed[m].extracted => m = 1
      BY <1>4 DEF Kv!Marks
    <3>3. \A k \in DOMAIN scheduled : r \notin DOMAIN scheduled[k].sends
      BY <1>4 DEF Kv!Marks
    <3>4. r \notin DOMAIN needing'
      BY <1>12, <1>13, <3>1, <3>2
    <3>5. \A m \in DOMAIN executed' : r \notin executed'[m].extracted
      BY <1>4, <3>2
    <3> QED BY <1>3, <3>1, <3>3, <3>4, <3>5 DEF Kv!Comes
  <2> QED BY <1>12, <2>1, <2>2, <2>3, <2>4
<1>20. /\ \A r \in newly : r \in marked
       /\ \A r \in ended : Kv!MarkedAtEnd(r) => r \in marked
       /\ \A r \in marked : r \in newly \/ (r \in ended /\ r \notin triggered)
  BY DEF Kv!MarkedAtEnd
<1>21. \A r : r \in out <=> r \in active /\ r \notin x.extracted
  BY DEF out
<1>22. \A r \in Req : Kv!Alive(r) /\ r \in triggered => r \in out \/ r \in x.extracted \/ r \in told
  BY <1>11, <1>21 DEF Kv!Heard
<1>23. \A r \in keeping : r \in Req /\ r \in kv_requests /\ kv_status[r] \in Kv!Finished /\ ~Kv!Alive(r)
  BY DEF Kv!Heard, Kv!NothingStranded, Kv!TypeOK, Kv!Alive
<1>24. \A r \in ended : r \in kv_requests
  BY <1>8 DEF Kv!Alive
<1> HIDE DEF ended, freed, marked
<1>25. Kv!Queues'
  <2>1. /\ Kv!IsInjective(kv_waiting') /\ Kv!IsInjective(kv_running')
        /\ Kv!Range(kv_waiting') = Kv!Range(kv_waiting) \ ended
        /\ Kv!Range(kv_running') = Kv!Range(kv_running) \ ended
    BY <1>2, TransferRemoves DEF Kv!TypeOK, Kv!Queues
  <2>2. \A r \in Kv!Range(kv_waiting') \union Kv!Range(kv_running') : Kv!Alive(r)'
    <3>1. Kv!Range(kv_waiting) \subseteq Req /\ Kv!Range(kv_running) \subseteq Req
      BY TransferTyped DEF Kv!TypeOK
    <3> QED BY <1>17, <2>1, <3>1 DEF Kv!Queues
  <2>3. ASSUME NEW r \in Req, kv_status'[r] = "new"
        PROVE  r \notin kv_requests' /\ r \notin triggered' /\ kv_computed'[r] = 0 /\ ~Kv!Yields(r)'
    <3>1. r \notin kv_requests /\ r \notin triggered /\ kv_computed[r] = 0 /\ ~Kv!Yields(r)
      BY <1>14, <2>3 DEF Kv!Queues
    <3>2. r \notin newly
      BY <1>8, <3>1 DEF Kv!Alive
    <3> QED BY <1>2, <1>3, <1>19, <3>1, <3>2
  <2>4. Kv!Range(kv_waiting') \intersect Kv!Range(kv_running') = {}
    BY <2>1 DEF Kv!Queues
  <2> QED BY <2>1, <2>2, <2>3, <2>4 DEF Kv!Queues
<1>26. Kv!Blocks'
  <2>1. \A r \in kv_requests' : Len(held'[r]) = kv_computed'[r]
    <3>1. \A r \in kv_requests' : r \in kv_requests /\ r \in Req /\ r \notin freed
      BY <1>2 DEF Kv!TypeOK
    <3> QED BY <1>3, <1>9, <3>1 DEF Kv!Blocks
  <2>2. \A r \in Req : Kv!Range(held'[r]) \subseteq Kv!Range(held[r])
    <3>1. Kv!Range(<<>>) = {}
      BY DEF Kv!Range
    <3> QED BY <1>9, <3>1
  <2> QED BY <2>1, <2>2 DEF Kv!Blocks
<1>27. Kv!Contents'
  <2>1. \A r \in Req : Kv!Alive(r)' =>
          Kv!Readable(scheduled, content, resident, Len(scheduled) + 1, r, held'[r])
    <3>1. \A r \in Req : Kv!Alive(r)' => Kv!Alive(r) /\ held'[r] = held[r]
      BY <1>9, <1>15, <1>17
    <3> QED BY <3>1 DEF Kv!Contents
  <2>2. \A r \in DOMAIN needing' :
          Kv!Readable(scheduled, content, resident, Len(scheduled) + 1, r, needing'[r])
    <3> TAKE r \in DOMAIN needing'
    <3>1. CASE r \in DOMAIN needing
      BY <1>12, <3>1 DEF Kv!Contents
    <3>2. CASE r \in marked
      BY <1>8, <1>12, <3>2 DEF Kv!Contents
    <3> QED BY <1>19, <3>1, <3>2
  <2>3. \A r \in leaving' \union UNION {scheduled[k].finished : k \in DOMAIN scheduled} :
          kv_status'[r] \in Kv!Finished
    <3>1. \A r \in leaving \union UNION {scheduled[k].finished : k \in DOMAIN scheduled} :
            r \in Req /\ kv_status[r] \in Kv!Finished
      BY DEF Kv!Contents, Kv!TypeOK, Kv!IsStep
    <3> QED BY <1>2, <1>8, <1>14, <3>1
  <2>4. \A k \in DOMAIN scheduled : \A r \in DOMAIN scheduled[k].sends :
          Kv!Readable(scheduled, content, resident, k, r, scheduled[k].sends[r])
    BY DEF Kv!Contents
  <2> QED BY <1>3, <2>1, <2>2, <2>3, <2>4 DEF Kv!Contents
<1>28. Kv!Marks'
  <2>1. ASSUME NEW r \in Req, Kv!Comes(r)' \/ shipped'[r] # <<>>
        PROVE  r \in triggered' \/ kv_status'[r] \in Kv!Finished
    <3>1. CASE r \in marked
      BY <1>2, <1>14, <1>16, <1>20, <3>1
    <3>2. CASE Kv!Comes(r) \/ shipped[r] # <<>>
      <4>1. r \in triggered \/ kv_status[r] \in Kv!Finished
        BY <3>2 DEF Kv!Marks
      <4> QED BY <1>2, <1>14, <1>16, <4>1
    <3> QED BY <1>3, <1>19, <2>1, <3>1, <3>2
  <2>2. ASSUME NEW k \in DOMAIN scheduled, NEW r \in DOMAIN scheduled[k].sends
        PROVE  /\ r \notin DOMAIN needing' /\ shipped[r] = <<>>
               /\ \A m \in DOMAIN scheduled : r \in DOMAIN scheduled[m].sends => m = k
               /\ \A m \in DOMAIN executed' : r \notin executed'[m].extracted
    <3>1. /\ r \notin DOMAIN needing /\ shipped[r] = <<>>
          /\ \A m \in DOMAIN scheduled : r \in DOMAIN scheduled[m].sends => m = k
          /\ \A m \in DOMAIN executed : r \notin executed[m].extracted
      BY <2>2 DEF Kv!Marks
    <3>2. r \notin marked
      BY <1>13, <2>2 DEF Kv!Comes
    <3> QED BY <1>4, <1>12, <3>1, <3>2
  <2>3. ASSUME NEW k \in DOMAIN executed', NEW r \in executed'[k].extracted
        PROVE  /\ r \notin DOMAIN needing'
               /\ \A m \in DOMAIN executed' : r \in executed'[m].extracted => m = k
    <3>1. k + 1 \in DOMAIN executed /\ r \in executed[k + 1].extracted /\ k \in Nat
      BY <1>4, <2>3
    <3>2. r \notin DOMAIN needing /\ r \notin marked
      BY <1>13, <3>1 DEF Kv!Marks, Kv!Comes
    <3>3. ASSUME NEW m \in DOMAIN executed', r \in executed'[m].extracted PROVE m = k
      <4>1. m + 1 \in DOMAIN executed /\ r \in executed[m + 1].extracted /\ m \in Nat
        BY <1>4, <3>3
      <4>2. m + 1 = k + 1
        BY <3>1, <4>1 DEF Kv!Marks
      <4> QED BY <3>1, <4>1, <4>2
    <3> QED BY <1>12, <3>2, <3>3
  <2>4. \A r \in DOMAIN needing' : shipped[r] = <<>>
    BY <1>13, <1>19 DEF Kv!Marks
  <2> QED BY <1>3, <2>1, <2>2, <2>3, <2>4 DEF Kv!Marks
<1>29. Kv!Heard'
  <2>1. ASSUME NEW r \in active' PROVE Kv!Comes(r)' /\ r \notin DOMAIN needing'
    <3>1. r \in Req /\ r \in active /\ r \notin x.extracted
      BY <1>2, <1>21 DEF Kv!TypeOK
    <3>2. Kv!Comes(r) /\ r \notin DOMAIN needing
      BY <3>1 DEF Kv!Heard
    <3> QED BY <1>12, <1>13, <1>19, <3>1, <3>2
  <2>2. ASSUME NEW r \in triggered', Kv!Alive(r)'
        PROVE  r \in DOMAIN needing' \/ r \in active' \/ r \in told'
    <3>1. r \notin freed /\ (r \in triggered \/ r \in newly)
      BY <1>2
    <3>2. CASE r \in newly
      BY <1>12, <1>20, <3>2
    <3>3. CASE r \in triggered
      <4>1. r \in Req /\ Kv!Alive(r)
        BY <1>17, <2>2, <3>3 DEF Kv!TypeOK
      <4> QED BY <1>2, <1>22, <3>1, <3>3, <4>1
    <3> QED BY <3>1, <3>2, <3>3
  <2>3. ASSUME NEW r \in keeping' PROVE r \in kv_requests'
    <3>1. r \in Req /\ r \notin x.extracted /\ r \in kv_requests /\ (r \in keeping \/ r \in stays)
      BY <1>2, <1>8, <1>10, <1>23, <1>24
    <3>2. r \in keeping => r \notin ended
      BY <1>8, <1>23
    <3>3. r \notin freed
      BY <1>10, <3>1, <3>2
    <3> QED BY <1>2, <3>1, <3>3
  <2> QED BY <1>3, <2>1, <2>2, <2>3 DEF Kv!Heard
<1>30. Kv!OneOut'
  <2> SUFFICES ASSUME criteria.flight = 1 PROVE Kv!OneOut'
    BY <1>3 DEF Kv!OneOut
  <2>1. /\ Len(scheduled) + Len(executed) <= 1
        /\ \A r \in Req : Kv!Alive(r) /\ Kv!Yields(r) => kv_computed[r] >= Prompt
        /\ \A r \in DOMAIN needing : Kv!Whole(r, needing[r])
        /\ \A r \in Req : shipped[r] # <<>> => Kv!Whole(r, shipped[r][1].tokens)
        /\ \A r \in told \union UNION {executed[k].extracted : k \in DOMAIN executed} :
             kv_status[r] # "aborted" => shipped[r] # <<>>
    BY DEF Kv!OneOut
  <2>2. Len(scheduled) = 0 /\ DOMAIN scheduled = {} /\ Len(executed') = 0 /\ DOMAIN executed' = {}
    <3>1. Len(scheduled) \in Nat /\ DOMAIN scheduled = 1 .. Len(scheduled)
      BY LenProperties DEF Kv!TypeOK
    <3>2. DOMAIN executed' = 1 .. Len(executed')
      BY <1>4, LenProperties
    <3> QED BY <1>4, <2>1, <3>1, <3>2
  <2>3. \A r \in hearing : kv_computed[r] >= Prompt
    BY <1>6, <2>1
  <2>4. ASSUME NEW r \in marked PROVE Len(needing'[r]) >= Prompt
    <3>1. kv_computed[r] >= Prompt
      <4>1. CASE r \in newly
        <5>1. Kv!Triggers(r, special)
          BY <4>1 DEF newly
        <5> QED BY <1>5, <2>3, <5>1 DEF Kv!Triggers
      <4>2. CASE r \in ended /\ r \notin triggered
        BY <1>7, <2>3, <4>2
      <4> QED BY <1>20, <4>1, <4>2
    <3>2. Len(held[r]) = kv_computed[r]
      BY <1>8 DEF Kv!Blocks, Kv!Alive
    <3> QED BY <1>12, <3>1, <3>2
  <2>5. ASSUME NEW r \in DOMAIN needing', kv_status'[r] # "aborted" PROVE Len(needing'[r]) >= Prompt
    <3>1. r \in Req
      BY <1>8, <1>19 DEF Kv!TypeOK, Kv!IsPartial
    <3> QED BY <1>12, <1>14, <1>19, <2>1, <2>4, <2>5, <3>1 DEF Kv!Whole
  <2>6. \A r \in Req : shipped'[r] # <<>> /\ kv_status'[r] # "aborted" =>
          Len(shipped'[r][1].tokens) >= Prompt
    BY <1>3, <1>14, <2>1 DEF Kv!Whole
  <2>7. \A r \in told' : kv_status'[r] # "aborted" => shipped'[r] # <<>>
    <3> TAKE r \in told'
    <3>1. r \in told \/ r \in x.extracted
      BY <1>2
    <3>2. r \in Req
      BY <1>4, <3>1 DEF Kv!TypeOK
    <3>3. r \in told \union UNION {executed[k].extracted : k \in DOMAIN executed}
      BY <1>4, <3>1
    <3> QED BY <1>3, <1>14, <2>1, <3>2, <3>3
  <2> QED BY <1>3, <2>2, <2>5, <2>6, <2>7 DEF Kv!OneOut, Kv!Yields, Kv!Whole
<1>31. Kv!OwnTokens' /\ Kv!SentOnce'
  BY <1>3 DEF Kv!OwnTokens, Kv!SentOnce
<1>32. Kv!GoneWhenSent'
  <2> SUFFICES ASSUME criteria.flight = 1, NEW r \in Req, r \notin criteria.text_only,
                      kv_status'[r] \in {"stopped", "handed_over"}, r \notin kv_requests'
               PROVE  shipped[r] # <<>> /\ Len(shipped[r][1].tokens) >= Prompt
    BY <1>3 DEF Kv!GoneWhenSent, Kv!Whole
  <2>1. kv_status[r] # "aborted"
    BY <1>14
  <2>2. /\ r \in told \/ r \in x.extracted => shipped[r] # <<>>
        /\ shipped[r] # <<>> => Len(shipped[r][1].tokens) >= Prompt
    <3>1. r \in x.extracted => r \in UNION {executed[k].extracted : k \in DOMAIN executed}
      BY <1>4
    <3> QED BY <2>1, <3>1 DEF Kv!OneOut, Kv!Whole
  <2>3. CASE r \notin kv_requests
    <3>1. r \notin ended /\ kv_status[r] = kv_status'[r]
      BY <1>9, <1>24, <2>3
    <3> QED BY <2>2, <2>3, <3>1 DEF Kv!GoneWhenSent, Kv!Whole
  <2>4. CASE r \in freed
    <3>1. CASE r \in x.extracted
      BY <2>2, <3>1
    <3>2. CASE r \in ended /\ r \notin stays
      <4>1. r \in triggered /\ r \notin out
        BY <1>10, <3>2 DEF Kv!Stays, Kv!MustTransfer
      <4> QED BY <1>8, <1>22, <2>2, <3>2, <4>1
    <3> QED BY <1>10, <2>4, <3>1, <3>2
  <2> QED BY <1>2, <2>3, <2>4
<1>33. Kv!KeptForTransfer'
  <2> SUFFICES ASSUME NEW r \in keeping' PROVE Kv!Comes(r)'
    BY DEF Kv!KeptForTransfer
  <2>1. r \notin x.extracted /\ (r \in keeping \/ r \in stays)
    BY <1>2
  <2>2. CASE r \in keeping
    BY <1>19, <1>23, <2>1, <2>2 DEF Kv!KeptForTransfer
  <2>3. CASE r \in stays
    <3>1. r \in ended /\ r \in Req /\ Kv!MustTransfer(r) /\ (r \in triggered => r \in out)
      BY <1>8, <1>10, <2>3 DEF Kv!Stays
    <3>2. CASE r \in triggered
      <4>1. Kv!Comes(r)
        BY <1>21, <3>1, <3>2 DEF Kv!Heard
      <4> QED BY <1>19, <2>1, <3>1, <4>1
    <3>3. CASE r \notin triggered
      <4>1. r \in DOMAIN needing'
        BY <1>12, <1>20, <3>1, <3>3 DEF Kv!MarkedAtEnd
      <4> QED BY <4>1 DEF Kv!Comes
    <3> QED BY <3>2, <3>3
  <2> QED BY <2>1, <2>2, <2>3
<1>34. Kv!NothingStranded'
  <2>1. ASSUME NEW r \in kv_requests' PROVE kv_status'[r] \in Kv!Finished <=> r \in keeping'
    <3>1. r \in kv_requests /\ r \notin freed /\ r \in Req
      BY <1>2 DEF Kv!TypeOK
    <3>2. kv_status'[r] \in Kv!Finished <=> r \in keeping \/ r \in ended
      BY <1>14, <3>1 DEF Kv!NothingStranded
    <3> QED BY <1>2, <1>10, <3>1, <3>2
  <2>2. ASSUME NEW r \in Req \ kv_requests' PROVE held'[r] = <<>>
    BY <1>2, <1>9 DEF Kv!NothingStranded
  <2> QED BY <2>1, <2>2 DEF Kv!NothingStranded
<1>35. Kv!ReadyBeforeStop'
  <2> SUFFICES ASSUME NEW r \in Req, kv_status'[r] = "handed_over" PROVE r \in told'
    BY DEF Kv!ReadyBeforeStop
  <2>1. CASE r \notin ended
    BY <1>2, <1>9, <2>1 DEF Kv!ReadyBeforeStop
  <2>2. CASE r \in ended
    <3>1. r \in deferred
      BY <1>7, <1>9, <2>2
    <3>2. Kv!Alive(r) /\ r \in triggered /\ r \notin out
      BY <1>7, <1>8, <2>2, <3>1
    <3> QED BY <1>2, <1>22, <3>2
  <2> QED BY <2>1, <2>2
<1> QED BY <1>18, <1>25, <1>26, <1>27, <1>28, <1>29, <1>30, <1>31, <1>32, <1>33, <1>34, <1>35

(* Whatever step is taken, it stays so.                                    *)
LEMMA KvStays ==
  ASSUME Kv!KvAssumption, Kv!KvInvariant, [Kv!KvNext]_Kv!kvVars PROVE Kv!KvInvariant'
<1>1. ASSUME NEW r \in Req, Kv!Arrive(r) PROVE Kv!KvInvariant'
  BY <1>1, ArriveKv
<1>2. ASSUME NEW r \in Req, Kv!Abort(r) PROVE Kv!KvInvariant'
  BY <1>2, AbortKv
<1> QED BY <1>1, <1>2, ScheduleKv, ExecuteKv, UpdateKv, KvStutters DEF Kv!KvNext

-------------------------------------------------------------------------------
(* The executor's calls, about which ExecutorRpc_proofs says everything.   *)
Calls == INSTANCE ExecutorRpc_proofs WITH EngineLocks <- TRUE, executed <- rpc_executed

(* It is the same executor, by two names.                                  *)
LEMMA SameExecutor ==
  /\ Calls!ExecutorAssumption
  /\ Executor!Init => Calls!Init
  /\ [Executor!Next]_executor => [Calls!Next]_(Calls!vars)
  /\ Calls!ExecutorInvariant => Executor!ExecutorInvariant
<1>f. \A S : Executor!IsFiniteSet(S) <=> Calls!IsFiniteSet(S)
  BY DEF Executor!IsFiniteSet, Calls!IsFiniteSet
<1>c. \A S : Executor!Cardinality(S) = Calls!Cardinality(S)
  BY DEF Executor!Cardinality, Calls!Cardinality
<1>1. Calls!ExecutorAssumption
  BY <1>f, ExecutorConstants DEF Executor!ExecutorAssumption, Calls!ExecutorAssumption,
    Executor!Caller, Calls!Caller
<1>2. Executor!Init => Calls!Init
  BY DEF Executor!Call, Executor!Caller, Executor!Init, Executor!Nobody, Executor!Thread,
    Calls!Call, Calls!Caller, Calls!Init, Calls!Nobody, Calls!Thread
<1>3. Executor!Next => Calls!Next
  BY DEF Executor!Acquire, Executor!Advance, Executor!Begin, Executor!Caller,
    Executor!ClearQueues, Executor!CloserBegins, Executor!Current, Executor!Deadline,
    Executor!Dequeue, Executor!End, Executor!Enqueue, Executor!EnsureOpen, Executor!Finalize,
    Executor!IsShutdown, Executor!Join, Executor!LockFree, Executor!LockTimeout, Executor!Locks,
    Executor!MonitorWakes, Executor!Next, Executor!Nobody, Executor!PollFailed, Executor!PollGone,
    Executor!Released, Executor!Replies, Executor!Shut, Executor!ShutdownBegin, Executor!Thread,
    Executor!Worker, Executor!WorkerDie, Executor!WorkerReply, Executor!WorkerTake,
    Executor!callers, Executor!life, Executor!processes, Calls!Acquire, Calls!Advance,
    Calls!Begin, Calls!Caller, Calls!ClearQueues, Calls!CloserBegins, Calls!Current,
    Calls!Deadline, Calls!Dequeue, Calls!End, Calls!Enqueue, Calls!EnsureOpen, Calls!Finalize,
    Calls!IsShutdown, Calls!Join, Calls!LockFree, Calls!LockTimeout, Calls!Locks,
    Calls!MonitorWakes, Calls!Next, Calls!Nobody, Calls!PollFailed, Calls!PollGone,
    Calls!Released, Calls!Replies, Calls!Shut, Calls!ShutdownBegin, Calls!Thread, Calls!Worker,
    Calls!WorkerDie, Calls!WorkerReply, Calls!WorkerTake, Calls!callers, Calls!life,
    Calls!processes
<1>4. UNCHANGED executor => UNCHANGED Calls!vars
  BY DEF executor, Calls!vars, Calls!callers, Calls!processes, Calls!life
<1>5. Calls!ExecutorInvariant => Executor!ExecutorInvariant
  BY <1>c DEF Executor!Call, Executor!Caller, Executor!CallsMatch, Executor!ClosedFirst,
    Executor!Current, Executor!Due, Executor!Exception, Executor!ExecutorInvariant,
    Executor!ExecutorSound, Executor!IsShutdown, Executor!Late, Executor!LockHeld,
    Executor!MessagesMatch, Executor!NoSpareReply, Executor!Nobody, Executor!OnlyOwnTravels,
    Executor!OwnReply, Executor!OwnReplyUnlessLate, Executor!Thread, Executor!Travelling,
    Executor!TypeOK, Executor!Waiting, Calls!Call, Calls!Caller, Calls!CallsMatch,
    Calls!ClosedFirst, Calls!Current, Calls!Due, Calls!Exception, Calls!ExecutorInvariant,
    Calls!ExecutorSound, Calls!IsShutdown, Calls!Late, Calls!LockHeld, Calls!MessagesMatch,
    Calls!NoSpareReply, Calls!Nobody, Calls!OnlyOwnTravels, Calls!OwnReply,
    Calls!OwnReplyUnlessLate, Calls!Thread, Calls!Travelling, Calls!TypeOK, Calls!Waiting
<1> QED BY <1>1, <1>2, <1>3, <1>4, <1>5

(* A step of one is a step of the other.                                  *)
LEMMA SameService ==
  /\ Calls!Service!Init => Executor!Service!Init
  /\ [Calls!Service!Next]_(Calls!Service!vars) => [Executor!Service!Next]_(Executor!Service!vars)
  BY DEF Calls!Service!Init, Calls!Service!Next, Calls!Service!vars, Calls!Service!Invoke,
    Calls!Service!Execute, Calls!Service!Return, Calls!Service!Fail, Calls!Service!GiveUp,
    Calls!Service!Misdeliver, Executor!Service!Init, Executor!Service!Next, Executor!Service!vars,
    Executor!Service!Invoke, Executor!Service!Execute, Executor!Service!Return,
    Executor!Service!Fail, Executor!Service!GiveUp, Executor!Service!Misdeliver, Calls!Call,
    Calls!Caller, Calls!Invoked, Calls!AnswerTo, Calls!Answers, Calls!Nobody, Executor!Call,
    Executor!Caller, Executor!Invoked, Executor!AnswerTo, Executor!Answers, Executor!Nobody

-------------------------------------------------------------------------------
(* What a behaviour does to each machine.                                  *)
LEMMA MachineSteps ==
  ASSUME [Next]_vars
  PROVE  /\ [Session!SessionNext]_(Session!session_vars)
         /\ [Videos!VideoNext]_(Videos!video_vars)
         /\ [Startup!StartupNext]_(Startup!startup_vars)
         /\ [Executor!Next]_executor
         /\ [Balancer!Next]_(Balancer!vars)
         /\ [Inline!InlineNext]_(Inline!inline_vars)
         /\ [Requests!OrchestratorNext]_(Requests!orchestrator_vars)
         /\ [Rpcs!RpcNext]_(Rpcs!rpc_vars)
         /\ [Kv!KvNext]_(Kv!kvVars)
<1>1. Next \/ UNCHANGED vars
  OBVIOUS
<1>2. /\ Session!SessionNext \/ UNCHANGED session
      /\ Videos!VideoNext \/ UNCHANGED videos
      /\ Startup!StartupNext \/ UNCHANGED startup
      /\ Executor!Next \/ UNCHANGED executor
      /\ Balancer!Next \/ UNCHANGED balancer
      /\ Inline!InlineNext \/ UNCHANGED inline
      /\ Requests!OrchestratorNext \/ UNCHANGED orchestrator
      /\ Rpcs!RpcNext \/ UNCHANGED rpcs
      /\ Kv!KvNext \/ UNCHANGED transfer
  BY <1>1 DEF Next, vars
<1>3. /\ UNCHANGED session => UNCHANGED Session!session_vars
      /\ UNCHANGED videos => UNCHANGED Videos!video_vars
      /\ UNCHANGED startup => UNCHANGED Startup!startup_vars
  BY DEF session, videos, startup, Session!session_vars, Videos!video_vars, Startup!startup_vars
<1>4. [Session!SessionNext]_(Session!session_vars)
  BY <1>2, <1>3
<1>5. [Videos!VideoNext]_(Videos!video_vars)
  BY <1>2, <1>3
<1>6. [Startup!StartupNext]_(Startup!startup_vars)
  BY <1>2, <1>3
<1>7. [Executor!Next]_executor
  BY <1>2
<1>8. [Balancer!Next]_(Balancer!vars)
  BY <1>2 DEF balancer, Balancer!vars
<1>9. [Inline!InlineNext]_(Inline!inline_vars)
  BY <1>2 DEF inline, Inline!inline_vars
<1>10. [Requests!OrchestratorNext]_(Requests!orchestrator_vars)
  BY <1>2 DEF orchestrator, Requests!orchestrator_vars, Requests!client, Requests!loop,
    Requests!stages
<1>11. [Rpcs!RpcNext]_(Rpcs!rpc_vars)
  BY <1>2 DEF rpcs, Rpcs!rpc_vars
<1>12. [Kv!KvNext]_(Kv!kvVars)
  BY <1>2 DEF transfer, Kv!kvVars
<1> QED BY <1>4, <1>5, <1>6, <1>7, <1>8, <1>9, <1>10, <1>11, <1>12

(* The engine works for the turn under way only, and for none when the     *)
(* session is over (serving_video_stream.py:320), however many queries     *)
(* interrupt each other.                                                   *)
THEOREM SessionsAreSound == Spec => []SessionSound
<1>1. Init => Session!SessionInvariant
  BY SessionConstants, InitSession DEF Init
<1>2. Session!SessionInvariant /\ [Next]_vars => Session!SessionInvariant'
  BY SessionConstants, MachineSteps, StepSession
<1>3. Session!SessionInvariant => SessionSound
  BY SessionConstants, SessionIsSound DEF SessionSound
<1> HIDE DEF Fairness
<1> QED BY <1>1, <1>2, <1>3, PTL DEF Spec

(* An interrupted turn does not speak up again                             *)
(* (serving_video_stream.py:330).                                          *)
THEOREM TurnsSpeakInOrder == Spec => SpeaksInOrder
<1>1. Session!SessionInvariant /\ [Next]_vars => [wire' >= wire]_(Session!session_vars)
  BY SessionConstants, MachineSteps, StepSpeaksInOrder
<1>2. Spec => []Session!SessionInvariant
  <2>1. SessionSound => Session!SessionInvariant
    BY DEF SessionSound
  <2> QED BY <2>1, SessionsAreSound, PTL
<1> HIDE DEF Fairness
<1> QED BY <1>1, <1>2, PTL DEF Spec, SpeaksInOrder, Session!SpeaksInOrder

(* A completed video has its file, and a deleted one is gone for good      *)
(* (api_server.py:2372, :2720), whatever the number of jobs and of calls   *)
(* of DELETE that meet them.                                               *)
THEOREM VideosAreSound == Spec => []VideosSound
<1>1. Init => Videos!VideosInvariant
  BY InitVideos DEF Init
<1>2. Videos!VideosInvariant /\ [Next]_vars => Videos!VideosInvariant'
  BY MachineSteps, StepVideos
<1> HIDE DEF Fairness
<1> QED BY <1>1, <1>2, PTL DEF Spec, VideosSound

(* Whatever stages there are and whatever fails, processes are spawned     *)
(* with their own devices and load in turn, and a failed start leaves      *)
(* behind only what is known (async_omni_engine.py:682).                   *)
THEOREM StartsAreSound == Spec => []StartupSound
<1>1. Init => Startup!StartupInvariant
  BY StartupConstants, InitStartup DEF Init
<1>2. Startup!StartupInvariant /\ [Next]_vars => Startup!StartupInvariant'
  BY StartupConstants, MachineSteps, StepStartup
<1>3. Startup!StartupInvariant => StartupSound
  BY StartupConstants, StartupIsSound DEF StartupSound
<1> HIDE DEF Fairness
<1> QED BY <1>1, <1>2, <1>3, PTL DEF Spec

(* Replies of the workers are never spare and, as long as no call gave up, *)
(* never another call's (multiproc_executor.py:127, :453).                 *)
THEOREM ExecutorIsSound == Spec => []ExecutorSound
<1>1. Spec => Calls!Spec
  <2>1. Init => Calls!Init
    BY SameExecutor DEF Init
  <2>2. [Next]_vars => [Calls!Next]_(Calls!vars)
    BY SameExecutor, MachineSteps
  <2> HIDE DEF Fairness
  <2> QED BY <2>1, <2>2, PTL DEF Spec, Calls!Spec
<1>2. Calls!Spec => []Calls!ExecutorInvariant
  BY SameExecutor, Calls!ExecutorInvariantHolds
<1>3. Calls!ExecutorInvariant => ExecutorSound
  BY SameExecutor DEF ExecutorSound
<1> QED BY <1>1, <1>2, <1>3, PTL

(* The executor in its legacy mode is the service its callers were         *)
(* promised (multiproc_executor.py:129).                                   *)
THEOREM ExecutorServes == Spec => ImplementsService
<1>1. Spec => Calls!Spec
  <2>1. Init => Calls!Init
    BY SameExecutor DEF Init
  <2>2. [Next]_vars => [Calls!Next]_(Calls!vars)
    BY SameExecutor, MachineSteps
  <2> HIDE DEF Fairness
  <2> QED BY <2>1, <2>2, PTL DEF Spec, Calls!Spec
<1>2. Calls!Spec => Calls!ImplementsService
  BY SameExecutor, Calls!ServiceImplemented
<1>3. Calls!ImplementsService => ImplementsService
  BY SameService, PTL DEF ImplementsService, Executor!ImplementsService, Calls!ImplementsService,
    Calls!Service!Spec, Executor!Service!Spec
<1> QED BY <1>1, <1>2, <1>3, PTL

(* While the list stands the balancer goes round it, however often it      *)
(* changed before and wherever the index was left (load_balancer.py:110).  *)
THEOREM RoundsStayFair == Spec => []RoundsAreFair
<1>1. Init => Balancer!BalancerInvariant
  BY BalancerConstants, InitBalancer DEF Init
<1>2. Balancer!BalancerInvariant /\ [Next]_vars => Balancer!BalancerInvariant'
  BY BalancerConstants, MachineSteps, StepBalancer
<1>3. Balancer!BalancerInvariant => RoundsAreFair
  BY BalancerConstants, BalancerIsFair DEF RoundsAreFair
<1> HIDE DEF Fairness
<1> QED BY <1>1, <1>2, <1>3, PTL DEF Spec

(* However requests, aborts, callbacks and threads meet, an error is the   *)
(* last that its request says, a failure is reported, and an aborted       *)
(* request stays quiet (inline_stage_diffusion_client.py:114, :272).       *)
THEOREM InlineIsSound == Spec => InlineSound
<1>1. Init => Inline!InlineInvariant
  BY InlineConstants, InitInline DEF Init
<1>2. Inline!InlineInvariant /\ [Next]_vars => Inline!InlineInvariant'
  BY InlineConstants, MachineSteps, StepInline
<1>3. Inline!InlineInvariant => Inline!ErrorIsLast /\ Inline!FailuresReported
  BY InlineConstants, InlineHolds
<1>4. Inline!InlineInvariant /\ [Next]_vars =>
        [\A t \in given_up : ~Inline!Reused(t) =>
           (Inline!Replied(t, outputs') => Inline!Replied(t, outputs))]_(Inline!inline_vars)
  BY InlineConstants, MachineSteps, StepQuiet
<1>5. Inline!InlineInvariant => (part = "inline" => Inline!InlineInvariant)
  OBVIOUS
<1> HIDE DEF Fairness
<1> QED BY <1>1, <1>2, <1>3, <1>4, <1>5, PTL DEF Spec, InlineSound, Inline!QuietAfterAbort

(* Whatever parents and companions there are and wherever they race,       *)
(* fail or are aborted, a request is forwarded once, with its guidance,    *)
(* answered once and then forgotten (orchestrator.py:459, :517, :710), and *)
(* a control RPC returns its own results (async_omni_engine.py:1713).      *)
THEOREM RequestsAreSound == Spec => []RequestsSound
<1>1. Init => Requests!OrchestratorInvariant /\ Rpcs!RpcInvariant
  BY RequestsConstants, RpcConstants, InitOrchestrator, InitRpcs DEF Init
<1>2. Requests!OrchestratorInvariant /\ [Next]_vars => Requests!OrchestratorInvariant'
  <2> SUFFICES ASSUME Requests!OrchestratorInvariant, [Next]_vars
               PROVE  Requests!OrchestratorInvariant'
    OBVIOUS
  <2>1. Requests!OrchestratorNext \/ UNCHANGED Requests!orchestrator_vars
    BY MachineSteps
  <2> QED BY <2>1, RequestsConstants, StepOrchestrator
<1>3. Rpcs!RpcInvariant /\ [Next]_vars => Rpcs!RpcInvariant'
  BY RpcConstants, MachineSteps, StepRpcs
<1>4. Requests!OrchestratorInvariant /\ Rpcs!RpcInvariant => RequestsSound
  BY RequestsConstants, OrchestratorIsSound DEF RequestsSound, Rpcs!RpcInvariant
<1> HIDE DEF Fairness
<1> QED BY <1>1, <1>2, <1>3, <1>4, PTL DEF Spec

(* Whatever requests there are, whoever is preempted or aborted and        *)
(* however many steps are out, the next stage gets the cache of a request, *)
(* its own and once; a request stops for it when kv_ready was told; and    *)
(* the blocks come back (omni_ar_scheduler.py:137, :540, :623, :702).      *)
THEOREM KvIsSound == Spec => []KvSound
<1>1. Init => Kv!KvInvariant
  BY KvConstants, InitKv DEF Init
<1>2. Kv!KvInvariant /\ [Next]_vars => Kv!KvInvariant'
  BY KvConstants, MachineSteps, KvStays
<1>3. Kv!KvInvariant => KvSound
  BY DEF KvSound
<1> HIDE DEF Fairness
<1> QED BY <1>1, <1>2, <1>3, PTL DEF Spec
===============================================================================
