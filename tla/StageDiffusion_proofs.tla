------------------------- MODULE StageDiffusion_proofs -------------------------
(***************************************************************************)
(* Between the client and its process no request is lost that nobody       *)
(* aborted, and none is answered once its abort has been read.             *)
(***************************************************************************)
EXTENDS StageDiffusion, QueueOps_proofs

(* Messages are told apart by their type and what they are of.             *)
LEMMA MessageFields ==
  ASSUME NEW a, NEW n
  PROVE  /\ Message(a, n).type = a /\ Message(a, n).of = n
         /\ \A b, m : Message(a, n) = Message(b, m) <=> a = b /\ n = m
<1>1. Message(a, n).type = a /\ Message(a, n).of = n
  BY DEF Message
<1>2. ASSUME NEW b, NEW m, Message(a, n) = Message(b, m) PROVE a = b /\ n = m
  <2>1. Message(b, m).type = b /\ Message(b, m).of = m
    BY DEF Message
  <2> QED BY <1>1, <1>2, <2>1
<1> QED BY <1>1, <1>2

(* What the sockets carry. *)
LEMMA MessageTypes ==
  /\ \A t \in Request : Message("add", t) \in RequestMessage
  /\ \A r \in Rid : Message("abort", r) \in RequestMessage
  /\ \A n \in Rpc : Message("rpc", n) \in RequestMessage
  /\ Message("shutdown", None) \in RequestMessage
  /\ \A t \in Request, a \in {"result", "error"} : Message(a, t) \in ReplyMessage
  /\ \A n \in Rpc, a \in {"rpc_result", "rpc_error"} : Message(a, n) \in ResponseMessage
  /\ Message("dead", None) \in ResponseMessage
  /\ ReplyMessage \subseteq ResponseMessage
BY DEF RequestMessage, ReplyMessage, ResponseMessage, Message

(* A message on the request socket names what its type says.               *)
LEMMA RequestOf ==
  ASSUME NEW m \in RequestMessage
  PROVE  /\ m = Message(m.type, m.of)
         /\ m.type = "add" => m.of \in Request
         /\ m.type = "abort" => m.of \in Rid
         /\ m.type = "rpc" => m.of \in Rpc
         /\ m.type \in {"add", "abort", "rpc", "shutdown"}
<1>1. CASE m \in [type : {"add"}, of : Request]
  BY <1>1 DEF Message
<1>2. CASE m \in [type : {"abort"}, of : Rid]
  BY <1>2 DEF Message
<1>3. CASE m \in [type : {"rpc"}, of : Rpc]
  BY <1>3 DEF Message
<1>4. CASE m = Message("shutdown", None)
  BY <1>4 DEF Message
<1> QED BY <1>1, <1>2, <1>3, <1>4 DEF RequestMessage

(* So does one on the response socket. *)
LEMMA ResponseOf ==
  ASSUME NEW m \in ResponseMessage
  PROVE  /\ m.type \in {"result", "error"} <=> m \in ReplyMessage
         /\ m \in ReplyMessage => m.of \in Request
         /\ m.type \in {"rpc_result", "rpc_error"} => m.of \in Rpc
<1>1. CASE m \in ReplyMessage
  BY <1>1 DEF ReplyMessage
<1>2. CASE m \in [type : {"rpc_result", "rpc_error"}, of : Rpc]
  BY <1>2 DEF ReplyMessage
<1>3. CASE m = Message("dead", None)
  BY <1>3 DEF ReplyMessage, Message
<1> QED BY <1>1, <1>2, <1>3 DEF ResponseMessage

(* The numbers of requests, calls and of neither differ.                   *)
LEMMA NumbersDiffer ==
  ASSUME StageAssumption
  PROVE  /\ Request \subseteq Nat \ {0} /\ Rpc \subseteq Nat \ {0}
         /\ Request \cap Rpc = {}
         /\ None \notin Request /\ None \notin Rpc
BY DEF StageAssumption, Request, None

(* A request that was submitted has a number, an id and a kind.            *)
LEMMA KnownRequests ==
  ASSUME StageAssumption, TypeOK
  PROVE  /\ Known = 1..Len(submitted) /\ Len(submitted) \in Nat
         /\ Known \subseteq Request
         /\ \A t \in Known : IdOf(t) \in Rid /\ submitted[t].batch \in BOOLEAN
<1>1. /\ submitted \in Seq([rid : Rid, batch : BOOLEAN]) /\ Len(submitted) <= MaxRequests
      /\ MaxRequests \in Nat
  BY DEF TypeOK, StageAssumption
<1>2. /\ Len(submitted) \in Nat /\ DOMAIN submitted = 1..Len(submitted)
      /\ \A t \in 1..Len(submitted) : submitted[t] \in [rid : Rid, batch : BOOLEAN]
  BY <1>1, LenProperties, ElementOfSeq
<1>3. Known \subseteq Request
  BY <1>1, <1>2 DEF Known, Request
<1> QED BY <1>2, <1>3 DEF Known, IdOf

-----------------------------------------------------------------------------
(* The sockets. *)

(* A message is sent after those before it, or lost with the process.      *)
LEMMA Sent ==
  ASSUME TypeOK, NEW m \in RequestMessage, Send(m)
  PROVE  /\ requests' \in Seq(RequestMessage)
         /\ Range(requests') \subseteq Range(requests) \cup {m}
         /\ Running => /\ Range(requests') = Range(requests) \cup {m}
                       /\ requests' = Append(requests, m)
<1>1. requests \in Seq(RequestMessage)
  BY DEF TypeOK
<1> QED BY <1>1, AppendQueueProperties DEF Send, Running

(* What the process has read is no longer on the socket.                   *)
LEMMA Received ==
  ASSUME TypeOK, requests # <<>>, requests' = Tail(requests)
  PROVE  /\ Head(requests) \in RequestMessage
         /\ requests' \in Seq(RequestMessage)
         /\ Range(requests) = {Head(requests)} \cup Range(requests')
<1>1. requests \in Seq(RequestMessage)
  BY DEF TypeOK
<1> QED BY <1>1, TailQueueProperties

(* A drain splits the response socket: its replies join the output queue,  *)
(* what is behind a death sentinel stays.                                  *)
LEMMA DrainSplits ==
  ASSUME TypeOK
  PROVE  LET rest == SubSeq(responses, Len(Drained) + 1, Len(responses))
         IN  /\ Drained \in Seq(ResponseMessage) /\ rest \in Seq(ResponseMessage)
             /\ Range(responses) = Range(Drained) \cup Range(rest)
             /\ Arrived \in Seq(ReplyMessage)
             /\ Range(Arrived) = Range(outputs) \cup (Range(Drained) \cap ReplyMessage)
<1> DEFINE stops == {k \in DOMAIN responses : responses[k].type = "dead"}
           n == IF stops = {} THEN Len(responses) ELSE Min(stops)
           came == Keep(Drained, ReplyMessage)
<1>1. responses \in Seq(ResponseMessage) /\ outputs \in Seq(ReplyMessage)
  BY DEF TypeOK
<1>2. Len(responses) \in Nat /\ DOMAIN responses = 1..Len(responses)
  BY <1>1, LenProperties
<1>3. n \in 0..Len(responses)
  <2>1. CASE stops = {}
    BY <1>2, <2>1
  <2>2. CASE stops # {}
    <3>1. stops \in SUBSET Nat
      BY <1>2
    <3>2. \E k \in stops : \A l \in stops : k <= l
      <4> HIDE DEF stops
      <4> QED BY <2>2, <3>1, LeastNat
    <3>3. Min(stops) \in stops
      BY <3>2 DEF Min
    <3> QED BY <1>2, <2>2, <3>3
  <2> QED BY <2>1, <2>2
<1>4. Drained = SubSeq(responses, 1, n)
  BY DEF Drained
<1> HIDE DEF n
<1>5. /\ Drained \in Seq(ResponseMessage) /\ Len(Drained) = n
      /\ SubSeq(responses, n + 1, Len(responses)) \in Seq(ResponseMessage)
      /\ Range(responses) = Range(Drained) \cup Range(SubSeq(responses, n + 1, Len(responses)))
  BY <1>1, <1>3, <1>4, SplitQueueProperties
<1>6. came \in Seq(ResponseMessage) /\ Range(came) = Range(Drained) \cap ReplyMessage
  BY <1>5, KeepProperties
<1>7. came \in Seq(ReplyMessage)
  <2>1. came \in Seq(Range(came)) /\ Range(came) \subseteq ReplyMessage
    <3> HIDE DEF came
    <3> QED BY <1>6, SeqOfRange
  <2> HIDE DEF came
  <2>2. Len(came) \in Nat /\ DOMAIN came = 1..Len(came) /\ \A k \in 1..Len(came) : came[k] \in ReplyMessage
    BY <2>1, LenProperties, ElementOfSeq
  <2> QED BY <2>1, <2>2
<1>8. Arrived = outputs \o came
  BY DEF Arrived
<1> HIDE DEF came
<1>9. Arrived \in Seq(ReplyMessage) /\ Range(Arrived) = Range(outputs) \cup Range(came)
  BY <1>1, <1>7, <1>8, RangeConcatenation, ConcatProperties
<1> QED BY <1>5, <1>6, <1>9

-----------------------------------------------------------------------------
(* Types. *)

(* The response socket and the RPC results after a drain.                  *)
LEMMA DrainTypes ==
  ASSUME TypeOK, DrainResponses
  PROVE  responses' \in Seq(ResponseMessage) /\ rpc_results' \in SUBSET Rpc
<1>1. responses' \in Seq(ResponseMessage)
  BY DrainSplits DEF DrainResponses
<1>2. Drained \in Seq(ResponseMessage)
  BY DrainSplits
<1>3. Range(Drained) \subseteq ResponseMessage
  BY <1>2, RangeOfSeq
<1>4. \A m \in Range(Drained) : Kept(m) => m.of \in Rpc
  BY <1>3, ResponseOf DEF Kept
<1> QED BY <1>1, <1>4 DEF DrainResponses, TypeOK

(* The next output is returned and the others are kept.                    *)
LEMMA ReturnTypes ==
  ASSUME TypeOK, Arrived # <<>>, ReturnNext
  PROVE  /\ returned' \in SUBSET Request /\ outputs' \in Seq(ReplyMessage)
         /\ Head(Arrived).of \in returned'
         /\ Range(Arrived) = {Head(Arrived)} \cup Range(outputs')
<1>1. Arrived \in Seq(ReplyMessage)
  BY DrainSplits
<1>2. /\ Head(Arrived) \in ReplyMessage /\ Tail(Arrived) \in Seq(ReplyMessage)
      /\ Range(Arrived) = {Head(Arrived)} \cup Range(Tail(Arrived))
  BY <1>1, TailQueueProperties
<1>3. Head(Arrived).of \in Request
  BY <1>2, MessageTypes, ResponseOf
<1> QED BY <1>2, <1>3 DEF ReturnNext, TypeOK

(* The client's operations keep the types. *)
LEMMA ClientTypes ==
  ASSUME StageAssumption, TypeOK, Client \/ MonitorSeesDeath
  PROVE  TypeOK'
<1>0. \A r \in Request, n \in Rpc : r \in Nat /\ n \in Nat /\ n # None /\ n # Polling
  BY NumbersDiffer DEF None, Polling
<1>1. ASSUME NEW r \in Rid, NEW b \in BOOLEAN, AddRequest(r, b)
      PROVE  TypeOK'
  <2> DEFINE t == Len(submitted) + 1
             e == [rid |-> r, batch |-> b]
  <2>1. /\ submitted \in Seq([rid : Rid, batch : BOOLEAN]) /\ e \in [rid : Rid, batch : BOOLEAN]
        /\ Len(submitted) \in Nat /\ Len(submitted) < MaxRequests /\ MaxRequests \in Nat
    BY <1>1, KnownRequests DEF AddRequest, TypeOK, StageAssumption
  <2>2. submitted' \in Seq([rid : Rid, batch : BOOLEAN]) /\ Len(submitted') <= MaxRequests
    <3>1. submitted' = Append(submitted, e)
      BY <1>1 DEF AddRequest
    <3> HIDE DEF e
    <3> QED BY <2>1, <3>1, AppendProperties
  <2>3. t \in Request
    BY <2>1 DEF Request
  <2>4. unsent' \in Seq(Request) /\ requests' \in Seq(RequestMessage)
    <3>1. CASE b
      <4>1. unsent' = Append(unsent, t) /\ requests' = requests /\ unsent \in Seq(Request)
        BY <1>1, <3>1 DEF AddRequest, TypeOK
      <4> HIDE DEF t
      <4> QED BY <2>3, <4>1, AppendProperties DEF TypeOK
    <3>2. CASE ~b
      <4>1. unsent' = unsent /\ Send(Message("add", t)) /\ Message("add", t) \in RequestMessage
        BY <1>1, <2>3, <3>2, MessageTypes DEF AddRequest
      <4> HIDE DEF t
      <4> QED BY <4>1, Sent DEF TypeOK
    <3> QED BY <3>1, <3>2
  <2> QED BY <1>1, <2>2, <2>4 DEF AddRequest, TypeOK, process_vars
<1>2. CASE RunBatch
  <2>1. unsent \in Seq(Request) /\ unsent # <<>>
    BY <1>2 DEF RunBatch, TypeOK
  <2>2. unsent' \in Seq(Request) /\ Head(unsent) \in Request
    BY <1>2, <2>1, TailQueueProperties DEF RunBatch
  <2>3. requests' \in Seq(RequestMessage)
    BY <1>2, <2>2, MessageTypes, Sent DEF RunBatch
  <2> QED BY <1>2, <2>2, <2>3 DEF RunBatch, TypeOK, process_vars
<1>3. ASSUME NEW r \in Rid, AbortRequests(r)
      PROVE  TypeOK'
  <2>1. requests' \in Seq(RequestMessage)
    BY <1>3, MessageTypes, Sent DEF AbortRequests
  <2>2. given_up' \in SUBSET Request
    BY <1>3, KnownRequests DEF AbortRequests, TypeOK
  <2> QED BY <1>3, <2>1, <2>2 DEF AbortRequests, TypeOK, process_vars
<1>4. ASSUME NEW n \in Rpc, CollectiveRpc(n)
      PROVE  TypeOK'
  <2>1. requests' \in Seq(RequestMessage)
    BY <1>4, MessageTypes, Sent DEF CollectiveRpc
  <2> QED BY <1>4, <2>1 DEF CollectiveRpc, TypeOK, process_vars
<1>5. CASE Poll
  <2>1. responses' \in Seq(ResponseMessage) /\ rpc_results' \in SUBSET Rpc
    BY <1>5, DrainTypes DEF Poll
  <2>2. returned' \in SUBSET Request /\ outputs' \in Seq(ReplyMessage)
    BY <1>5, ReturnTypes DEF Poll, TypeOK
  <2>3. engine_dead' \in BOOLEAN /\ client_at' \in {None, Polling} \cup Rpc
    BY <1>5 DEF Poll, TypeOK
  <2> QED BY <1>5, <2>1, <2>2, <2>3 DEF Poll, TypeOK, process_vars
<1>6. CASE PollDead
  BY <1>6 DEF PollDead, TypeOK, process_vars
<1>7. CASE PollGone
  <2>1. responses' \in Seq(ResponseMessage) /\ rpc_results' \in SUBSET Rpc
    BY <1>7, DrainTypes DEF PollGone
  <2>2. returned' \in SUBSET Request /\ outputs' \in Seq(ReplyMessage)
    BY <1>7, ReturnTypes DEF PollGone, TypeOK
  <2>3. told' \in BOOLEAN /\ shutting_down' \in BOOLEAN
    BY <1>7 DEF PollGone, TypeOK
  <2> QED BY <1>7, <2>1, <2>2, <2>3 DEF PollGone, TypeOK, process_vars
<1>8. CASE PollNothing
  BY <1>8 DEF PollNothing, TypeOK, process_vars
<1>9. ASSUME NEW n \in Rpc, RpcDrain(n)
      PROVE  TypeOK'
  <2>1. responses' \in Seq(ResponseMessage) /\ rpc_results' \in SUBSET Rpc
    BY <1>9, DrainTypes DEF RpcDrain
  <2>2. outputs' \in Seq(ReplyMessage) /\ engine_dead' \in BOOLEAN
    BY <1>9, DrainSplits DEF RpcDrain, TypeOK
  <2> QED BY <1>9, <2>1, <2>2 DEF RpcDrain, TypeOK, process_vars
<1>10. ASSUME NEW n \in Rpc, RpcReturns(n) \/ RpcFindsDead(n) \/ RpcWaits(n)
       PROVE  TypeOK'
  BY <1>10 DEF RpcReturns, RpcFindsDead, RpcWaits, TypeOK, process_vars
<1>11. CASE Shutdown
  <2>1. requests' \in Seq(RequestMessage)
    BY <1>11, MessageTypes, Sent DEF Shutdown
  <2> QED BY <1>11, <2>1 DEF Shutdown, TypeOK, process_vars
<1>12. CASE MonitorSeesDeath
  BY <1>12 DEF MonitorSeesDeath, TypeOK, process_vars
<1> QED BY <1>1, <1>2, <1>3, <1>4, <1>5, <1>6, <1>7, <1>8, <1>9, <1>10, <1>11, <1>12 DEF Client

(* A process that ends leaves nothing behind but the responses it sent.    *)
LEMMA EndsTypes ==
  ASSUME TypeOK, NEW how \in {"failed", "signalled", "killed", "exited"}, Ends(how),
         responses' \in Seq(ResponseMessage)
  PROVE  TypeOK'
<1>1. /\ process' \in {"running", "failed", "signalled", "killed", "exited"}
      /\ awaiting' \in {None} \cup Rpc
      /\ task' \in [Request -> {"none", "created", "waiting", "ended"}]
      /\ cancelled' \in SUBSET Request
      /\ tasks' \in [Rid -> {None} \cup Request]
      /\ queue' \in Seq(Job)
      /\ job' \in [Job -> {"none", "queued", "running", "result", "error", "aborted"}]
      /\ aborting' \in SUBSET Rid /\ hit' \in SUBSET Request
      /\ requests' \in Seq(RequestMessage)
  BY DEF Ends
<1> QED BY <1>1 DEF Ends, TypeOK, client_vars

(* The operations of the process keep the types. *)
LEMMA ProcessTypes ==
  ASSUME StageAssumption, TypeOK, Process
  PROVE  TypeOK'
<1> DEFINE JobStates == {"none", "queued", "running", "result", "error", "aborted"}
<1>0. /\ responses \in Seq(ResponseMessage) /\ queue \in Seq(Job) /\ job \in [Job -> JobStates]
      /\ task \in [Request -> {"none", "created", "waiting", "ended"}]
      /\ tasks \in [Rid -> {None} \cup Request]
  BY DEF TypeOK
<1>1. CASE ReceiveAdd
  <2>1. /\ Head(requests) \in RequestMessage /\ requests' \in Seq(RequestMessage)
        /\ Head(requests).of \in Request
    BY <1>1, Received, RequestOf DEF ReceiveAdd
  <2>2. task' \in [Request -> {"none", "created", "waiting", "ended"}]
    BY <1>0, <1>1, <2>1 DEF ReceiveAdd
  <2>3. tasks' \in [Rid -> {None} \cup Request]
    BY <1>0, <1>1, <2>1 DEF ReceiveAdd
  <2> QED BY <1>1, <2>1, <2>2, <2>3 DEF ReceiveAdd, TypeOK, client_vars
<1>2. CASE ReceiveAbort
  <2>1. /\ Head(requests) \in RequestMessage /\ requests' \in Seq(RequestMessage)
        /\ Head(requests).of \in Rid
    BY <1>2, Received, RequestOf DEF ReceiveAbort
  <2>2. cancelled' \in SUBSET Request
    BY <1>0, <1>2, <2>1 DEF ReceiveAbort, Cancelled, TypeOK
  <2>3. tasks' \in [Rid -> {None} \cup Request]
    BY <1>0, <1>2 DEF ReceiveAbort
  <2>4. aborting' \in SUBSET Rid
    BY <1>2, <2>1 DEF ReceiveAbort, TypeOK
  <2> QED BY <1>2, <2>1, <2>2, <2>3, <2>4 DEF ReceiveAbort, TypeOK, client_vars
<1>3. CASE ReceiveRpc
  <2>1. /\ Head(requests) \in RequestMessage /\ requests' \in Seq(RequestMessage)
        /\ Head(requests).of \in Rpc /\ Head(requests).of \in Job
    BY <1>3, Received, RequestOf DEF ReceiveRpc, Job
  <2>2. queue' \in Seq(Job)
    BY <1>0, <1>3, <2>1, AppendProperties DEF ReceiveRpc
  <2>3. job' \in [Job -> JobStates]
    BY <1>0, <1>3 DEF ReceiveRpc
  <2> QED BY <1>3, <2>1, <2>2, <2>3 DEF ReceiveRpc, TypeOK, client_vars
<1>4. CASE ReceiveShutdown
  BY <1>0, <1>4, EndsTypes DEF ReceiveShutdown
<1>5. CASE LoopFails
  BY <1>0, <1>5, EndsTypes, AppendProperties, MessageTypes DEF LoopFails
<1>6. CASE Signalled
  BY <1>0, <1>6, EndsTypes DEF Signalled
<1>7. CASE Killed
  <2>1. responses' \in Seq(ResponseMessage)
    BY <1>0, <1>7, SplitQueueProperties DEF Killed
  <2> QED BY <1>7, <2>1, EndsTypes DEF Killed
<1>8. ASSUME NEW t \in Known, StartTask(t)
      PROVE  TypeOK'
  <2>1. t \in Request /\ t \in Job
    BY KnownRequests DEF Job
  <2>2. queue' \in Seq(Job)
    BY <1>0, <1>8, <2>1, AppendProperties DEF StartTask
  <2>3. job' \in [Job -> JobStates]
    BY <1>0, <1>8 DEF StartTask
  <2>4. task' \in [Request -> {"none", "created", "waiting", "ended"}]
    BY <1>0, <1>8 DEF StartTask
  <2> QED BY <1>8, <2>2, <2>3, <2>4 DEF StartTask, TypeOK, client_vars
<1>9. ASSUME NEW t \in Known, CancelTask(t)
      PROVE  TypeOK'
  <2>1. queue' \in Seq(Job)
    BY <1>0, <1>9, WithoutProperties DEF CancelTask
  <2>2. job' \in [Job -> JobStates]
    BY <1>0, <1>9 DEF CancelTask
  <2>3. task' \in [Request -> {"none", "created", "waiting", "ended"}]
    BY <1>0, <1>9 DEF CancelTask
  <2>4. tasks' \in [Rid -> {None} \cup Request]
    BY <1>0, <1>9 DEF CancelTask, Popped
  <2> QED BY <1>9, <2>1, <2>2, <2>3, <2>4 DEF CancelTask, TypeOK, client_vars
<1>10. ASSUME NEW t \in Known, FinishTask(t)
       PROVE  TypeOK'
  <2>1. t \in Request
    BY KnownRequests
  <2>2. Reply(t) \in Seq(ResponseMessage)
    <3>1. CASE job[t] = "aborted"
      BY <3>1 DEF Reply
    <3>2. CASE job[t] # "aborted"
      <4>1. Message(job[t], t) \in ResponseMessage
        BY <1>10, <2>1, <3>2, MessageTypes DEF FinishTask
      <4> QED BY <3>2, <4>1 DEF Reply
    <3> QED BY <3>1, <3>2
  <2>3. responses' \in Seq(ResponseMessage)
    BY <1>0, <1>10, <2>2, ConcatProperties DEF FinishTask
  <2>4. job' \in [Job -> JobStates]
    BY <1>0, <1>10 DEF FinishTask
  <2>5. task' \in [Request -> {"none", "created", "waiting", "ended"}]
    BY <1>0, <1>10 DEF FinishTask
  <2>6. tasks' \in [Rid -> {None} \cup Request]
    BY <1>0, <1>10 DEF FinishTask, Popped
  <2> QED BY <1>10, <2>3, <2>4, <2>5, <2>6 DEF FinishTask, TypeOK, client_vars
<1>11. CASE FinishRpc
  <2>1. awaiting \in Rpc
    BY <1>11 DEF FinishRpc, TypeOK
  <2>2. responses' \in Seq(ResponseMessage)
    BY <1>0, <1>11, <2>1, AppendProperties, MessageTypes DEF FinishRpc
  <2>3. job' \in [Job -> JobStates]
    BY <1>0, <1>11 DEF FinishRpc
  <2> QED BY <1>11, <2>2, <2>3 DEF FinishRpc, TypeOK, client_vars
<1>12. CASE TakeJob
  <2>1. queue' \in Seq(Job)
    BY <1>0, <1>12, TailQueueProperties DEF TakeJob
  <2>2. job' \in [Job -> JobStates]
    BY <1>0, <1>12 DEF TakeJob
  <2> QED BY <1>12, <2>1, <2>2 DEF TakeJob, TypeOK, client_vars
<1>13. CASE DrainAborts
  <2>1. hit' \in SUBSET Request
    BY <1>13, KnownRequests DEF DrainAborts, TypeOK
  <2> QED BY <1>13, <2>1 DEF DrainAborts, TypeOK, client_vars
<1>14. ASSUME NEW j \in Job, NEW o \in {"result", "error", "aborted"}, EndJob(j, o)
       PROVE  TypeOK'
  <2>1. job' \in [Job -> JobStates]
    BY <1>0, <1>14 DEF EndJob
  <2>2. hit' \in SUBSET Request
    BY <1>14 DEF EndJob, TypeOK
  <2> QED BY <1>14, <2>1, <2>2 DEF EndJob, TypeOK, client_vars
<1> QED
  BY <1>1, <1>2, <1>3, <1>4, <1>5, <1>6, <1>7, <1>8, <1>9, <1>10, <1>11, <1>12, <1>13, <1>14
  DEF Process, Receive, TaskRuns

-----------------------------------------------------------------------------
(* What steps never do. *)

(* Submissions and aborts are not taken back, and an id stays reused.      *)
LEMMA SubmissionsGrow ==
  ASSUME StageAssumption, TypeOK, [StageNext]_stage_vars
  PROVE  /\ Known \subseteq Known'
         /\ \A t \in Known : submitted'[t] = submitted[t] /\ IdOf(t)' = IdOf(t)
         /\ given_up \subseteq given_up'
         /\ \A t \in Known : Reused(t) => Reused(t)'
<1>1. /\ Known \subseteq Known' /\ (\A t \in Known : submitted'[t] = submitted[t])
      /\ given_up \subseteq given_up'
  <2>1. CASE submitted' = submitted
    BY <2>1 DEF Known, StageNext, Client, Process, Receive, TaskRuns, AddRequest, RunBatch,
                AbortRequests, CollectiveRpc, Poll, PollDead, PollGone, PollNothing, RpcDrain,
                RpcReturns, RpcFindsDead, RpcWaits, Shutdown, MonitorSeesDeath, ReceiveAdd,
                ReceiveAbort, ReceiveRpc, ReceiveShutdown, LoopFails, Signalled, Killed, Ends,
                StartTask, CancelTask, FinishTask, FinishRpc, TakeJob, DrainAborts, EndJob,
                stage_vars, client_vars
  <2>2. ASSUME NEW r \in Rid, NEW b \in BOOLEAN, AddRequest(r, b)
        PROVE  /\ Known \subseteq Known' /\ (\A t \in Known : submitted'[t] = submitted[t])
               /\ given_up \subseteq given_up'
    <3> DEFINE e == [rid |-> r, batch |-> b]
    <3>1. submitted \in Seq([rid : Rid, batch : BOOLEAN]) /\ e \in [rid : Rid, batch : BOOLEAN]
      BY DEF TypeOK
    <3>2. submitted' = Append(submitted, e) /\ given_up' = given_up
      BY <2>2 DEF AddRequest
    <3> HIDE DEF e
    <3>3. /\ Len(submitted') = Len(submitted) + 1 /\ submitted' \in Seq([rid : Rid, batch : BOOLEAN])
          /\ \A t \in 1..Len(submitted) : submitted'[t] = submitted[t]
      BY <3>1, <3>2, AppendProperties
    <3>4. /\ Known = 1..Len(submitted) /\ Known' = 1..Len(submitted')
          /\ Len(submitted) \in Nat
      BY <3>1, <3>3, LenProperties DEF Known
    <3> QED BY <3>2, <3>3, <3>4
  <2>3. submitted' = submitted \/ \E r \in Rid, b \in BOOLEAN : AddRequest(r, b)
    BY DEF StageNext, Client, Process, Receive, TaskRuns, RunBatch,
           AbortRequests, CollectiveRpc, Poll, PollDead, PollGone, PollNothing, RpcDrain,
           RpcReturns, RpcFindsDead, RpcWaits, Shutdown, MonitorSeesDeath, ReceiveAdd,
           ReceiveAbort, ReceiveRpc, ReceiveShutdown, LoopFails, Signalled, Killed, Ends,
           StartTask, CancelTask, FinishTask, FinishRpc, TakeJob, DrainAborts, EndJob,
           stage_vars, client_vars
  <2> QED BY <2>1, <2>2, <2>3
<1>2. \A t \in Known : IdOf(t)' = IdOf(t)
  BY <1>1 DEF IdOf
<1>3. \A t \in Known : Reused(t) => Reused(t)'
  BY <1>1, <1>2 DEF Reused
<1> QED BY <1>1, <1>2, <1>3

(* Those whose reply is on a socket or in the output queue.                *)
LEMMA RepliesAre ==
  ASSUME NEW s, Range(s) \subseteq ResponseMessage
  PROVE  Replies(s) = {m.of : m \in Range(s) \cap ReplyMessage}
<1>1. \A k \in DOMAIN s : s[k] \in Range(s)
  BY DEF Range
<1>2. \A k \in DOMAIN s : s[k].type \in {"result", "error"} <=> s[k] \in ReplyMessage
  BY <1>1, ResponseOf
<1>3. ASSUME NEW t \in Replies(s) PROVE t \in {m.of : m \in Range(s) \cap ReplyMessage}
  BY <1>1, <1>2 DEF Replies
<1>4. ASSUME NEW m \in Range(s) \cap ReplyMessage PROVE m.of \in Replies(s)
  <2>1. PICK k \in DOMAIN s : s[k] = m
    BY DEF Range
  <2> QED BY <1>2, <2>1 DEF Replies
<1> QED BY <1>3, <1>4

(* The requests that are replied to. *)
Answered == Replies(responses) \cup Replies(outputs) \cup returned

(* The steps of the client that only pass replies on.                      *)
Delivers ==
  \/ Poll \/ PollDead \/ PollGone \/ PollNothing \/ MonitorSeesDeath
  \/ \E n \in Rpc : RpcDrain(n) \/ RpcReturns(n) \/ RpcFindsDead(n) \/ RpcWaits(n)

(* A drain moves replies and drops none. *)
LEMMA DrainKeepsReplies ==
  ASSUME TypeOK, DrainResponses
  PROVE  /\ Replies(responses') \subseteq Replies(responses)
         /\ Replies(responses) \cup Replies(outputs) \subseteq Replies(responses') \cup Replies(Arrived)
         /\ Arrived # <<>> /\ ReturnNext => Replies(Arrived) \subseteq Replies(outputs') \cup returned'
         /\ Arrived = <<>> => Replies(Arrived) = {}
<1> DEFINE rest == SubSeq(responses, Len(Drained) + 1, Len(responses))
<1>1. /\ Drained \in Seq(ResponseMessage) /\ rest \in Seq(ResponseMessage)
      /\ Range(responses) = Range(Drained) \cup Range(rest)
      /\ Arrived \in Seq(ReplyMessage)
      /\ Range(Arrived) = Range(outputs) \cup (Range(Drained) \cap ReplyMessage)
      /\ responses' = rest
  BY DrainSplits DEF DrainResponses
<1> HIDE DEF rest
<1>2. outputs \in Seq(ReplyMessage) /\ responses \in Seq(ResponseMessage)
  BY DEF TypeOK
<1>3. /\ Range(Drained) \subseteq ResponseMessage /\ Range(rest) \subseteq ResponseMessage
      /\ Range(Arrived) \subseteq ReplyMessage /\ Range(outputs) \subseteq ReplyMessage
      /\ ReplyMessage \subseteq ResponseMessage
  BY <1>1, <1>2, RangeOfSeq, MessageTypes
<1>4. /\ Replies(responses) = {m.of : m \in Range(responses) \cap ReplyMessage}
      /\ Replies(responses') = {m.of : m \in Range(rest) \cap ReplyMessage}
      /\ Replies(outputs) = {m.of : m \in Range(outputs) \cap ReplyMessage}
      /\ Replies(Arrived) = {m.of : m \in Range(Arrived) \cap ReplyMessage}
  <2>1. Range(responses) \subseteq ResponseMessage /\ Range(outputs) \subseteq ResponseMessage
        /\ Range(Arrived) \subseteq ResponseMessage
    BY <1>1, <1>3
  <2> QED BY <1>1, <1>3, <2>1, RepliesAre
<1>5. Replies(responses') \subseteq Replies(responses)
  BY <1>1, <1>4
<1>6. Replies(responses) \cup Replies(outputs) \subseteq Replies(responses') \cup Replies(Arrived)
  BY <1>1, <1>4
<1>7. ASSUME Arrived # <<>>, ReturnNext
      PROVE  Replies(Arrived) \subseteq Replies(outputs') \cup returned'
  <2>1. /\ outputs' \in Seq(ReplyMessage) /\ Head(Arrived).of \in returned'
        /\ Range(Arrived) = {Head(Arrived)} \cup Range(outputs')
    BY <1>7, ReturnTypes
  <2>2. Replies(outputs') = {m.of : m \in Range(outputs') \cap ReplyMessage}
    <3>1. Range(outputs') \subseteq ResponseMessage
      BY <1>3, <2>1
    <3> QED BY <3>1, RepliesAre
  <2> QED BY <1>4, <2>1, <2>2
<1>8. Arrived = <<>> => Replies(Arrived) = {}
  BY DEF Replies
<1> QED BY <1>5, <1>6, <1>7, <1>8

(* Passing replies on changes nothing else, and loses none.                *)
LEMMA DeliversKeepsReplies ==
  ASSUME TypeOK, Delivers
  PROVE  /\ UNCHANGED <<submitted, given_up, unsent, requests, process_vars>>
         /\ Answered \subseteq Answered'
         /\ Replies(responses') \subseteq Replies(responses)
<1>1. UNCHANGED <<submitted, given_up, unsent, requests, process_vars>>
  BY DEF Delivers, Poll, PollDead, PollGone, PollNothing, MonitorSeesDeath, RpcDrain, RpcReturns,
         RpcFindsDead, RpcWaits
<1>2. returned \subseteq returned'
  BY DEF Delivers, Poll, PollDead, PollGone, PollNothing, MonitorSeesDeath, RpcDrain, RpcReturns,
         RpcFindsDead, RpcWaits, ReturnNext
<1>3. CASE UNCHANGED <<responses, outputs>>
  BY <1>1, <1>2, <1>3 DEF Answered
<1>4. CASE Poll \/ PollGone
  <2>1. DrainResponses
    BY <1>4 DEF Poll, PollGone
  <2>2. CASE Arrived # <<>>
    BY <1>2, <1>4, <2>1, <2>2, DrainKeepsReplies DEF Poll, PollGone, Answered
  <2>3. CASE Arrived = <<>>
    BY <1>2, <1>4, <2>1, <2>3, DrainKeepsReplies DEF Poll, PollGone, Answered
  <2> QED BY <1>1, <2>2, <2>3
<1>5. ASSUME NEW n \in Rpc, RpcDrain(n)
      PROVE  Answered \subseteq Answered' /\ Replies(responses') \subseteq Replies(responses)
  <2>1. DrainResponses /\ outputs' = Arrived /\ returned' = returned
    BY <1>5 DEF RpcDrain
  <2> QED BY <2>1, DrainKeepsReplies DEF Answered
<1>6. \/ UNCHANGED <<responses, outputs>> \/ Poll \/ PollGone \/ \E n \in Rpc : RpcDrain(n)
  BY DEF Delivers, PollDead, PollNothing, MonitorSeesDeath, RpcReturns, RpcFindsDead, RpcWaits
<1> QED BY <1>1, <1>3, <1>4, <1>5, <1>6

-----------------------------------------------------------------------------
(* The invariant, action by action. *)

Connected == OnlyKnown /\ AbortsAreMeant /\ TasksAreFound /\ AbortsAreHeeded /\ NothingLost

(* Where a request is that is not lost. *)
Somewhere(t) ==
  t \in Range(unsent) \/ Message("add", t) \in Range(requests) \/ Live(t) \/ t \in Answered

(* NothingLost in terms of Somewhere. *)
LEMMA NothingLostIs ==
  NothingLost <=> (Running => \A t \in Known \ given_up : ~Reused(t) => Somewhere(t))
BY DEF NothingLost, Somewhere, Answered

(* What a step that submits nothing and aborts nothing has to show.        *)
LEMMA SubmittedSame ==
  ASSUME UNCHANGED <<submitted, given_up>>
  PROVE  /\ Known' = Known
         /\ \A t : IdOf(t)' = IdOf(t) /\ Reused(t)' = Reused(t)
BY DEF Known, IdOf, Reused

(* Replies that only travel on. *)
LEMMA DeliversKeeps ==
  ASSUME TypeOK, Connected, Delivers
  PROVE  Connected'
<1>1. /\ UNCHANGED <<submitted, given_up, unsent, requests, process_vars>>
      /\ Answered \subseteq Answered'
  BY DeliversKeepsReplies
<1>2. Known' = Known /\ \A t : IdOf(t)' = IdOf(t) /\ Reused(t)' = Reused(t)
  BY <1>1, SubmittedSame
<1>3. OnlyKnown'
  BY <1>1, <1>2 DEF Connected, OnlyKnown, process_vars
<1>4. AbortsAreMeant'
  BY <1>1, <1>2 DEF Connected, AbortsAreMeant, process_vars
<1>5. TasksAreFound'
  BY <1>1, <1>2 DEF Connected, TasksAreFound, process_vars, Running, Live
<1>6. AbortsAreHeeded'
  BY <1>1, <1>2 DEF Connected, AbortsAreHeeded, AbortFollows, process_vars, Running, Live
<1>7. NothingLost'
  <2>1. \A t : Somewhere(t) => Somewhere(t)'
    BY <1>1 DEF Somewhere, process_vars, Live
  <2> QED BY <1>1, <1>2, <2>1, NothingLostIs DEF Connected, NothingLost, Somewhere, Answered, process_vars, Running
<1> QED BY <1>3, <1>4, <1>5, <1>6, <1>7 DEF Connected

(* A process that ends. *)
LEMMA EndsKeeps ==
  ASSUME TypeOK, Connected, NEW how \in {"failed", "signalled", "killed", "exited"}, Ends(how)
  PROVE  Connected'
<1>1. /\ UNCHANGED client_vars /\ requests' = <<>> /\ process' # "running"
      /\ tasks' = [r \in Rid |-> None] /\ aborting' = {} /\ cancelled' = {} /\ hit' = {}
      /\ job' = [j \in Job |-> "none"] /\ task' = [t \in Request |-> "none"]
  BY DEF Ends
<1>2. Known' = Known /\ \A t : IdOf(t)' = IdOf(t) /\ Reused(t)' = Reused(t)
  BY <1>1, SubmittedSame DEF client_vars
<1>3. Range(requests') = {}
  BY <1>1 DEF Range
<1>4. OnlyKnown'
  BY <1>1, <1>2, <1>3 DEF Connected, OnlyKnown, client_vars
<1>5. AbortsAreMeant'
  <2>1. \A t \in Request : t \in Job
    BY DEF Job
  <2> QED BY <1>1, <1>3, <2>1 DEF AbortsAreMeant
<1> QED BY <1>1, <1>4, <1>5 DEF Connected, TasksAreFound, AbortsAreHeeded, NothingLost, Running

(* The jobs of the pool and the engine's aborts.                           *)
LEMMA PoolKeeps ==
  ASSUME StageAssumption, TypeOK, Connected,
         FinishRpc \/ TakeJob \/ DrainAborts
           \/ \E j \in Job, o \in {"result", "error", "aborted"} : EndJob(j, o)
  PROVE  Connected'
<1>1. /\ UNCHANGED <<client_vars, process, requests, task, cancelled, tasks>>
      /\ aborting' \subseteq aborting /\ Replies(responses) \subseteq Replies(responses')
  <2>1. CASE FinishRpc
    <3>1. /\ UNCHANGED <<client_vars, process, requests, task, cancelled, tasks, aborting>>
          /\ \E m \in ResponseMessage : responses' = Append(responses, m)
      <4>1. awaiting \in Rpc
        BY <2>1 DEF FinishRpc, TypeOK
      <4>2. PICK a \in {"rpc_result", "rpc_error"} : responses' = Append(responses, Message(a, awaiting))
        BY <2>1 DEF FinishRpc
      <4> QED BY <2>1, <4>1, <4>2, MessageTypes DEF FinishRpc
    <3>2. responses \in Seq(ResponseMessage)
      BY DEF TypeOK
    <3>3. Range(responses) \subseteq Range(responses') /\ Range(responses') \subseteq ResponseMessage
      BY <3>1, <3>2, AppendQueueProperties, RangeOfSeq
    <3> QED BY <3>1, <3>3, RepliesAre
  <2>2. CASE TakeJob
    BY <2>2 DEF TakeJob
  <2>3. CASE DrainAborts
    BY <2>3 DEF DrainAborts
  <2>4. ASSUME NEW j \in Job, NEW o, EndJob(j, o)
        PROVE  /\ UNCHANGED <<client_vars, process, requests, task, cancelled, tasks>>
               /\ aborting' \subseteq aborting /\ Replies(responses) \subseteq Replies(responses')
    BY <2>4 DEF EndJob
  <2> QED BY <2>1, <2>2, <2>3, <2>4
<1>2. Known' = Known /\ \A t : IdOf(t)' = IdOf(t) /\ Reused(t)' = Reused(t)
  BY <1>1, SubmittedSame DEF client_vars
<1>3. OnlyKnown'
  BY <1>1, <1>2 DEF Connected, OnlyKnown, client_vars
<1>4. AbortsAreMeant'
  <2>1. ASSUME NEW r \in Rid, Message("abort", r) \in Range(requests') \/ r \in aborting'
        PROVE  \E t \in given_up' : IdOf(t)' = r
    BY <1>1, <1>2, <2>1 DEF Connected, AbortsAreMeant, client_vars
  <2>2. \A t \in Request : t \in cancelled' => t \in Known' /\ (t \in given_up' \/ Reused(t)')
    BY <1>1, <1>2 DEF Connected, AbortsAreMeant, client_vars
  <2>3. \A t \in Request : t \in hit' => t \in Known' /\ (t \in given_up' \/ Reused(t)')
    <3>1. CASE DrainAborts
      <4>1. PICK found \in SUBSET {t \in Known : job[t] = "running" /\ IdOf(t) \in aborting
                                                   /\ ~submitted[t].batch} :
              hit' = hit \cup found
        BY <3>1 DEF DrainAborts
      <4>2. ASSUME NEW t \in found
            PROVE  t \in Known /\ (t \in given_up \/ Reused(t))
        <5>1. t \in Known /\ IdOf(t) \in Rid /\ IdOf(t) \in aborting
          BY KnownRequests
        <5>2. PICK u \in given_up : IdOf(u) = IdOf(t)
          BY <5>1 DEF Connected, AbortsAreMeant
        <5>3. u \in Known
          BY DEF Connected, OnlyKnown
        <5> QED BY <5>1, <5>2, <5>3 DEF Reused
      <4> QED BY <1>1, <1>2, <4>1, <4>2 DEF Connected, AbortsAreMeant, client_vars
    <3>2. CASE ~DrainAborts
      <4>1. hit' \subseteq hit
        BY <3>2 DEF FinishRpc, TakeJob, EndJob
      <4> QED BY <1>1, <1>2, <4>1 DEF Connected, AbortsAreMeant, client_vars
    <3> QED BY <3>1, <3>2
  <2>4. \A t \in Request : job'[t] = "aborted" => t \in Known' /\ (t \in given_up' \/ Reused(t)')
    <3>1. \A t \in Request : job'[t] = "aborted" => job[t] = "aborted" \/ t \in hit
      <4>0. job \in [Job -> {"none", "queued", "running", "result", "error", "aborted"}]
            /\ Request \subseteq Job
        BY DEF TypeOK, Job
      <4>1. CASE FinishRpc
        BY <4>0, <4>1 DEF FinishRpc
      <4>2. CASE TakeJob
        BY <4>0, <4>2 DEF TakeJob
      <4>3. CASE DrainAborts
        BY <4>3 DEF DrainAborts
      <4>4. ASSUME NEW j \in Job, NEW o, EndJob(j, o), NEW t \in Request, job'[t] = "aborted"
            PROVE  job[t] = "aborted" \/ t \in hit
        BY <4>0, <4>4 DEF EndJob
      <4> QED BY <4>1, <4>2, <4>3, <4>4
    <3> QED BY <1>1, <1>2, <3>1 DEF Connected, AbortsAreMeant, client_vars
  <2> QED BY <2>1, <2>2, <2>3, <2>4 DEF AbortsAreMeant
<1>5. TasksAreFound'
  BY <1>1, <1>2 DEF Connected, TasksAreFound, Running, Live
<1>6. AbortsAreHeeded'
  BY <1>1, <1>2 DEF Connected, AbortsAreHeeded, AbortFollows, Running, Live, client_vars
<1>7. NothingLost'
  BY <1>1, <1>2 DEF Connected, NothingLost, Running, Live, client_vars
<1> QED BY <1>3, <1>4, <1>5, <1>6, <1>7 DEF Connected

(* Sending keeps the order of what is on the socket. *)
LEMMA SendFollows ==
  ASSUME TypeOK, NEW m \in RequestMessage, Send(m), NEW t, m # Message("add", t), AbortFollows(t),
         IdOf(t)' = IdOf(t)
  PROVE  AbortFollows(t)'
<1>1. CASE requests' = requests
  BY <1>1 DEF AbortFollows
<1>2. CASE requests' = Append(requests, m)
  <2>1. requests \in Seq(RequestMessage) /\ requests' \in Seq(RequestMessage)
    BY Sent DEF TypeOK
  <2>2. /\ Len(requests) \in Nat /\ DOMAIN requests = 1..Len(requests)
        /\ DOMAIN requests' = 1..(Len(requests) + 1)
        /\ \A k \in 1..Len(requests) : requests'[k] = requests[k]
        /\ requests'[Len(requests) + 1] = m
    BY <1>2, <2>1, AppendProperties, LenProperties
  <2> SUFFICES ASSUME NEW k \in DOMAIN requests', requests'[k] = Message("add", t)
               PROVE  \E l \in DOMAIN requests' :
                        k < l /\ requests'[l] = Message("abort", IdOf(t))
    BY DEF AbortFollows
  <2>3. k \in DOMAIN requests /\ requests[k] = Message("add", t)
    BY <2>2
  <2>4. PICK l \in DOMAIN requests : k < l /\ requests[l] = Message("abort", IdOf(t))
    BY <2>3 DEF AbortFollows
  <2>5. l \in DOMAIN requests' /\ requests'[l] = requests[l]
    BY <2>2
  <2> QED BY <2>4, <2>5
<1> QED BY <1>1, <1>2 DEF Send

(* An abort that is sent stands behind all that were sent before.          *)
LEMMA AbortSentFollows ==
  ASSUME TypeOK, NEW t, IdOf(t) \in Rid, Send(Message("abort", IdOf(t))), Running,
         IdOf(t)' = IdOf(t)
  PROVE  AbortFollows(t)' /\ Message("abort", IdOf(t)) \in Range(requests')
<1> DEFINE m == Message("abort", IdOf(t))
<1>1. /\ m \in RequestMessage /\ requests \in Seq(RequestMessage)
      /\ \A u : m # Message("add", u)
  <2>1. \A u : m # Message("add", u)
    BY MessageFields
  <2> QED BY <2>1, MessageTypes DEF TypeOK
<1>2. requests' = Append(requests, m) /\ requests' \in Seq(RequestMessage) /\ m \in Range(requests')
  <2> HIDE DEF m
  <2> QED BY <1>1, Sent DEF m
<1> HIDE DEF m
<1>3. /\ Len(requests) \in Nat /\ DOMAIN requests = 1..Len(requests)
      /\ DOMAIN requests' = 1..(Len(requests) + 1)
      /\ requests'[Len(requests) + 1] = m
  BY <1>1, <1>2, AppendProperties, LenProperties
<1>4. ASSUME NEW k \in DOMAIN requests', requests'[k] = Message("add", t)
      PROVE  \E l \in DOMAIN requests' : k < l /\ requests'[l] = m
  <2>1. k # Len(requests) + 1
    BY <1>1, <1>3, <1>4
  <2>2. k < Len(requests) + 1 /\ Len(requests) + 1 \in DOMAIN requests'
    BY <1>3, <2>1
  <2> QED BY <1>3, <2>2
<1> QED BY <1>2, <1>4 DEF AbortFollows, m

(* Nor does reading the first message change it. *)
LEMMA ReceiveFollows ==
  ASSUME TypeOK, requests # <<>>, requests' = Tail(requests), NEW t, AbortFollows(t),
         IdOf(t)' = IdOf(t)
  PROVE  /\ AbortFollows(t)'
         /\ Head(requests) = Message("add", t) =>
              Message("abort", IdOf(t)) \in Range(requests')
<1>1. requests \in Seq(RequestMessage) /\ requests' \in Seq(RequestMessage)
  BY Received DEF TypeOK
<1>2. /\ Len(requests) \in Nat \ {0} /\ DOMAIN requests = 1..Len(requests)
      /\ DOMAIN requests' = 1..(Len(requests) - 1) /\ Head(requests) = requests[1]
      /\ \A k \in 1..(Len(requests) - 1) : requests'[k] = requests[k + 1]
  <2>1. Len(requests) \in Nat \ {0} /\ DOMAIN requests = 1..Len(requests)
    BY <1>1, EmptySeq, LenProperties
  <2>2. /\ Len(requests') = Len(requests) - 1
        /\ \A k \in 1..Len(requests') : requests'[k] = requests[k + 1]
    BY <1>1, HeadTailProperties
  <2> QED BY <1>1, <2>1, <2>2, LenProperties
<1>3. ASSUME NEW k \in DOMAIN requests', requests'[k] = Message("add", t)
      PROVE  \E l \in DOMAIN requests' : k < l /\ requests'[l] = Message("abort", IdOf(t))
  <2>1. k + 1 \in DOMAIN requests /\ requests[k + 1] = Message("add", t)
    BY <1>2, <1>3
  <2>2. PICK l \in DOMAIN requests : k + 1 < l /\ requests[l] = Message("abort", IdOf(t))
    BY <2>1 DEF AbortFollows
  <2>3. l - 1 \in DOMAIN requests' /\ k < l - 1 /\ (l - 1) + 1 = l
    BY <1>2, <2>2
  <2> QED BY <1>2, <2>2, <2>3
<1>4. ASSUME Head(requests) = Message("add", t)
      PROVE  Message("abort", IdOf(t)) \in Range(requests')
  <2>1. 1 \in DOMAIN requests /\ requests[1] = Message("add", t)
    BY <1>2, <1>4
  <2>2. PICK l \in DOMAIN requests : 1 < l /\ requests[l] = Message("abort", IdOf(t))
    BY <2>1 DEF AbortFollows
  <2>3. l - 1 \in DOMAIN requests' /\ requests'[l - 1] = requests[l]
    <3>1. l - 1 \in 1..(Len(requests) - 1) /\ (l - 1) + 1 = l
      BY <1>2, <2>2
    <3> QED BY <1>2, <3>1
  <2> QED BY <2>2, <2>3 DEF Range
<1> QED BY <1>3, <1>4 DEF AbortFollows

(* What is sent beside requests and aborts. *)
LEMMA OtherSendsKeep ==
  ASSUME StageAssumption, TypeOK, Connected, Shutdown \/ \E n \in Rpc : CollectiveRpc(n)
  PROVE  Connected'
<1>1. PICK m \in RequestMessage : /\ Send(m) /\ m.type \in {"rpc", "shutdown"}
                                  /\ UNCHANGED <<submitted, given_up, unsent, outputs, returned,
                                                 process_vars, responses>>
  BY MessageTypes, MessageFields DEF Shutdown, CollectiveRpc
<1>2. Known' = Known /\ \A t : IdOf(t)' = IdOf(t) /\ Reused(t)' = Reused(t)
  BY <1>1, SubmittedSame
<1>3. \A t : m # Message("add", t) /\ m # Message("abort", t)
  BY <1>1, MessageFields
<1>4. /\ Range(requests') \subseteq Range(requests) \cup {m}
      /\ Running => Range(requests') = Range(requests) \cup {m}
  BY <1>1, Sent
<1>5. OnlyKnown'
  BY <1>1, <1>2, <1>3, <1>4 DEF Connected, OnlyKnown, process_vars
<1>6. AbortsAreMeant'
  BY <1>1, <1>2, <1>3, <1>4 DEF Connected, AbortsAreMeant, process_vars
<1>7. TasksAreFound'
  BY <1>1, <1>2 DEF Connected, TasksAreFound, process_vars, Running, Live
<1>8. AbortsAreHeeded'
  <2>1. \A t : AbortFollows(t) => AbortFollows(t)'
    BY <1>1, <1>2, <1>3, SendFollows
  <2> QED BY <1>1, <1>2, <1>4, <2>1 DEF Connected, AbortsAreHeeded, process_vars, Running, Live
<1>9. NothingLost'
  BY <1>1, <1>2, <1>4 DEF Connected, NothingLost, process_vars, Running, Live
<1> QED BY <1>5, <1>6, <1>7, <1>8, <1>9 DEF Connected

(* A submission. *)
LEMMA AddRequestKeeps ==
  ASSUME StageAssumption, TypeOK, Connected, NEW r \in Rid, NEW b \in BOOLEAN, AddRequest(r, b)
  PROVE  Connected'
<1> DEFINE n == Len(submitted) + 1
           e == [rid |-> r, batch |-> b]
           m == Message("add", n)
<1>0. [StageNext]_stage_vars
  BY DEF StageNext, Client
<1>1. /\ UNCHANGED <<given_up, outputs, returned, process_vars, responses>>
      /\ submitted' = Append(submitted, e)
      /\ b => unsent' = Append(unsent, n) /\ requests' = requests
      /\ ~b => unsent' = unsent /\ Send(m)
  BY DEF AddRequest
<1>2. /\ \A t \in Known : submitted'[t] = submitted[t] /\ IdOf(t)' = IdOf(t)
      /\ \A t \in Known : Reused(t) => Reused(t)'
  BY <1>0, SubmissionsGrow
<1>3. /\ Known' = Known \cup {n} /\ n \notin Known /\ n \in Request
      /\ submitted'[n] = e
  <2>1. /\ submitted \in Seq([rid : Rid, batch : BOOLEAN]) /\ e \in [rid : Rid, batch : BOOLEAN]
        /\ Len(submitted) < MaxRequests /\ MaxRequests \in Nat
    BY DEF TypeOK, AddRequest, StageAssumption
  <2> HIDE DEF e
  <2>2. /\ submitted' \in Seq([rid : Rid, batch : BOOLEAN]) /\ Len(submitted') = n
        /\ submitted'[n] = e
    BY <1>1, <2>1, AppendProperties
  <2>3. Known = 1..Len(submitted) /\ Known' = 1..n /\ Len(submitted) \in Nat
    BY <2>1, <2>2, LenProperties DEF Known
  <2> QED BY <2>1, <2>2, <2>3 DEF Request
<1>4. given_up \subseteq Known /\ (\A t \in Request : task[t] # "none" => t \in Known)
  BY DEF Connected, OnlyKnown
<1>5. /\ Range(requests') \subseteq Range(requests) \cup {m}
      /\ Running => Range(requests) \subseteq Range(requests')
      /\ ~b /\ Running => m \in Range(requests')
  <2>1. m \in RequestMessage
    BY <1>3, MessageTypes
  <2> HIDE DEF m
  <2>2. CASE b
    BY <1>1, <2>2
  <2>3. CASE ~b
    BY <1>1, <2>1, <2>3, Sent
  <2> QED BY <2>2, <2>3
<1>6. Range(unsent') = IF b THEN Range(unsent) \cup {n} ELSE Range(unsent)
  <2>1. unsent \in Seq(Request)
    BY DEF TypeOK
  <2> HIDE DEF n, e, m
  <2>2. CASE b
    <3>1. unsent' = Append(unsent, n)
      BY <1>1, <2>2
    <3> QED BY <1>3, <2>1, <2>2, <3>1, AppendQueueProperties
  <2>3. CASE ~b
    BY <1>1, <2>3
  <2> QED BY <2>2, <2>3
<1>7. \A a, t : m = Message(a, t) <=> a = "add" /\ t = n
  BY MessageFields
<1>8. e.batch = b
  OBVIOUS
<1> HIDE DEF n, e, m
<1>9. OnlyKnown'
  <2>1. given_up' \subseteq Known' /\ (\A t \in Request : task'[t] # "none" => t \in Known')
    BY <1>1, <1>3, <1>4 DEF process_vars
  <2>2. \A t \in Request : Message("add", t) \in Range(requests') => t \in Known'
    BY <1>3, <1>5, <1>7 DEF Connected, OnlyKnown
  <2>3. \A t \in Range(unsent') : t \in Known' /\ submitted'[t].batch
    BY <1>2, <1>3, <1>6, <1>8 DEF Connected, OnlyKnown
  <2>4. \A i \in Rid : tasks[i] # None => tasks[i] \in Known' /\ submitted'[tasks[i]].rid = i
    <3>1. \A i \in Rid : tasks[i] # None => tasks[i] \in Known /\ IdOf(tasks[i]) = i
      BY DEF Connected, OnlyKnown
    <3> QED BY <1>2, <1>3, <3>1 DEF IdOf
  <2>5. tasks' = tasks
    BY <1>1 DEF process_vars
  <2> QED BY <2>1, <2>2, <2>3, <2>4, <2>5 DEF OnlyKnown, IdOf
<1>10. AbortsAreMeant'
  <2>1. ASSUME NEW i \in Rid, Message("abort", i) \in Range(requests') \/ i \in aborting'
        PROVE  \E t \in given_up' : IdOf(t)' = i
    <3>1. Message("abort", i) \in Range(requests) \/ i \in aborting
      BY <1>1, <1>5, <1>7, <2>1 DEF process_vars
    <3>2. PICK t \in given_up : IdOf(t) = i
      BY <3>1 DEF Connected, AbortsAreMeant
    <3> QED BY <1>1, <1>2, <1>4, <3>2
  <2>2. ASSUME NEW t \in Request, t \in cancelled' \cup hit' \/ job'[t] = "aborted"
        PROVE  t \in Known' /\ (t \in given_up' \/ Reused(t)')
    <3>1. t \in Known /\ (t \in given_up \/ Reused(t))
      BY <1>1, <2>2 DEF Connected, AbortsAreMeant, process_vars
    <3> QED BY <1>1, <1>2, <1>3, <3>1
  <2> QED BY <2>1, <2>2 DEF AbortsAreMeant
<1>11. TasksAreFound'
  <2> SUFFICES ASSUME NEW t \in Known', Running', Live(t)', ~Reused(t)'
               PROVE  t \in cancelled' \/ tasks'[IdOf(t)'] = t
    BY DEF TasksAreFound
  <2>1. Live(t) /\ Running /\ tasks' = tasks /\ cancelled' = cancelled
    BY <1>1 DEF Live, Running, process_vars
  <2>2. t \in Known
    BY <1>3, <1>4, <2>1 DEF Live
  <2> QED BY <1>2, <2>1, <2>2 DEF Connected, TasksAreFound
<1>12. AbortsAreHeeded'
  <2> SUFFICES ASSUME NEW t \in given_up', Running', ~Reused(t)', ~submitted'[t].batch
               PROVE  /\ AbortFollows(t)'
                      /\ Live(t)' => t \in cancelled' \/ Message("abort", IdOf(t)') \in Range(requests')
    BY DEF AbortsAreHeeded
  <2>1. t \in given_up /\ t \in Known /\ t # n /\ Running
    BY <1>1, <1>3, <1>4 DEF process_vars, Running
  <2>2. ~Reused(t) /\ ~submitted[t].batch /\ IdOf(t)' = IdOf(t)
    BY <1>2, <2>1
  <2>3. AbortFollows(t) /\ (Live(t) => t \in cancelled \/ Message("abort", IdOf(t)) \in Range(requests))
    BY <2>1, <2>2 DEF Connected, AbortsAreHeeded
  <2>4. AbortFollows(t)'
    <3>1. CASE b
      BY <1>1, <2>2, <2>3, <3>1 DEF AbortFollows
    <3>2. CASE ~b
      <4>1. m \in RequestMessage /\ m # Message("add", t)
        BY <1>3, <1>7, <2>1, MessageTypes DEF m
      <4> QED BY <1>1, <2>2, <2>3, <3>2, <4>1, SendFollows
    <3> QED BY <3>1, <3>2
  <2> QED BY <1>1, <1>5, <2>1, <2>2, <2>3, <2>4 DEF Live, process_vars
<1>13. NothingLost'
  <2> SUFFICES ASSUME Running', NEW t \in Known' \ given_up', ~Reused(t)'
               PROVE  Somewhere(t)'
    BY DEF NothingLost, Somewhere, Answered
  <2>1. Running /\ (\A u : Live(u)' = Live(u)) /\ Answered' = Answered
    BY <1>1 DEF Running, Live, Answered, Replies, process_vars
  <2>2. CASE t = n
    BY <1>5, <1>6, <2>1, <2>2 DEF Somewhere, m
  <2>3. CASE t \in Known
    <3>1. Somewhere(t)
      BY <1>1, <1>2, <2>1, <2>3, NothingLostIs DEF Connected
    <3> QED BY <1>5, <1>6, <2>1, <3>1 DEF Somewhere
  <2> QED BY <1>3, <2>2, <2>3
<1> QED BY <1>9, <1>10, <1>11, <1>12, <1>13 DEF Connected

(* A batch is sent. *)
LEMMA RunBatchKeeps ==
  ASSUME StageAssumption, TypeOK, Connected, RunBatch
  PROVE  Connected'
<1> DEFINE h == Head(unsent)
           m == Message("add", h)
<1>1. /\ UNCHANGED <<submitted, given_up, outputs, returned, process_vars, responses>>
      /\ unsent # <<>> /\ unsent' = Tail(unsent) /\ Send(m)
  BY DEF RunBatch
<1>2. Known' = Known /\ \A t : IdOf(t)' = IdOf(t) /\ Reused(t)' = Reused(t)
  BY <1>1, SubmittedSame
<1>3. /\ h \in Request /\ Range(unsent) = {h} \cup Range(unsent')
  <2>1. unsent \in Seq(Request)
    BY DEF TypeOK
  <2> QED BY <1>1, <2>1, TailQueueProperties
<1>4. h \in Known /\ submitted[h].batch
  BY <1>3 DEF Connected, OnlyKnown
<1>5. m \in RequestMessage /\ \A a, t : m = Message(a, t) <=> a = "add" /\ t = h
  BY <1>3, MessageTypes, MessageFields
<1> HIDE DEF h, m
<1>6. /\ Range(requests') \subseteq Range(requests) \cup {m}
      /\ Running => Range(requests') = Range(requests) \cup {m}
  BY <1>1, <1>5, Sent
<1>7. OnlyKnown'
  BY <1>1, <1>2, <1>3, <1>4, <1>5, <1>6 DEF Connected, OnlyKnown, process_vars
<1>8. AbortsAreMeant'
  BY <1>1, <1>2, <1>5, <1>6 DEF Connected, AbortsAreMeant, process_vars
<1>9. TasksAreFound'
  BY <1>1, <1>2 DEF Connected, TasksAreFound, process_vars, Running, Live
<1>10. AbortsAreHeeded'
  <2>1. \A t : AbortFollows(t) /\ t # h => AbortFollows(t)'
    BY <1>1, <1>2, <1>5, SendFollows
  <2> QED BY <1>1, <1>2, <1>4, <1>6, <2>1
          DEF Connected, AbortsAreHeeded, process_vars, Running, Live
<1>11. NothingLost'
  <2>1. ASSUME Running, NEW t, Somewhere(t)
        PROVE  Somewhere(t)'
    BY <1>1, <1>3, <1>6, <2>1 DEF Somewhere, process_vars, Live, Answered, Replies, m
  <2> QED BY <1>1, <1>2, <2>1, NothingLostIs
          DEF Connected, NothingLost, Somewhere, Answered, process_vars, Running
<1> QED BY <1>7, <1>8, <1>9, <1>10, <1>11 DEF Connected

(* An id is aborted. *)
LEMMA AbortRequestsKeeps ==
  ASSUME StageAssumption, TypeOK, Connected, NEW r \in Rid, AbortRequests(r)
  PROVE  Connected'
<1> DEFINE live == {t \in Known : IdOf(t) = r}
           m == Message("abort", r)
<1>1. /\ UNCHANGED <<submitted, unsent, outputs, returned, process_vars, responses>>
      /\ given_up' = given_up \cup live /\ live # {} /\ Send(m)
  BY DEF AbortRequests
<1>2. Known' = Known /\ \A t : IdOf(t)' = IdOf(t) /\ Reused(t)' = Reused(t)
  BY <1>1 DEF Known, IdOf, Reused
<1>3. m \in RequestMessage /\ \A a, t : m = Message(a, t) <=> a = "abort" /\ t = r
  BY MessageTypes, MessageFields
<1> HIDE DEF m
<1>4. /\ Range(requests') \subseteq Range(requests) \cup {m}
      /\ Running => Range(requests') = Range(requests) \cup {m}
  BY <1>1, <1>3, Sent
<1>5. OnlyKnown'
  BY <1>1, <1>2, <1>3, <1>4 DEF Connected, OnlyKnown, process_vars
<1>6. AbortsAreMeant'
  <2>1. ASSUME NEW i \in Rid, Message("abort", i) \in Range(requests') \/ i \in aborting'
        PROVE  \E t \in given_up' : IdOf(t)' = i
    <3>1. CASE i = r
      BY <1>1, <1>2, <3>1
    <3>2. CASE i # r
      <4>1. Message("abort", i) \in Range(requests) \/ i \in aborting
        BY <1>1, <1>3, <1>4, <2>1, <3>2 DEF process_vars
      <4>2. PICK t \in given_up : IdOf(t) = i
        BY <4>1 DEF Connected, AbortsAreMeant
      <4> QED BY <1>1, <1>2, <4>2
    <3> QED BY <3>1, <3>2
  <2>2. ASSUME NEW t \in Request, t \in cancelled' \cup hit' \/ job'[t] = "aborted"
        PROVE  t \in Known' /\ (t \in given_up' \/ Reused(t)')
    <3>1. t \in Known /\ (t \in given_up \/ Reused(t))
      BY <1>1, <2>2 DEF Connected, AbortsAreMeant, process_vars
    <3> QED BY <1>1, <1>2, <3>1
  <2> QED BY <2>1, <2>2 DEF AbortsAreMeant
<1>7. TasksAreFound'
  BY <1>1, <1>2 DEF Connected, TasksAreFound, process_vars, Running, Live
<1>8. AbortsAreHeeded'
  <2> SUFFICES ASSUME NEW t \in given_up', Running', ~Reused(t)', ~submitted'[t].batch
               PROVE  /\ AbortFollows(t)'
                      /\ Live(t)' => t \in cancelled' \/ Message("abort", IdOf(t)') \in Range(requests')
    BY DEF AbortsAreHeeded
  <2>1. /\ Running /\ ~Reused(t) /\ ~submitted[t].batch
        /\ Live(t)' = Live(t) /\ cancelled' = cancelled /\ IdOf(t)' = IdOf(t)
    BY <1>1, <1>2 DEF Running, Live, process_vars
  <2>2. CASE t \in live
    <3>1. IdOf(t) = r /\ m = Message("abort", IdOf(t))
      BY <2>2 DEF m
    <3> QED BY <1>1, <2>1, <3>1, AbortSentFollows
  <2>3. CASE t \in given_up
    <3>1. AbortFollows(t) /\ (Live(t) => t \in cancelled \/ Message("abort", IdOf(t)) \in Range(requests))
      BY <2>1, <2>3 DEF Connected, AbortsAreHeeded
    <3>2. AbortFollows(t)'
      BY <1>1, <1>3, <2>1, <3>1, SendFollows
    <3> QED BY <1>4, <2>1, <3>1, <3>2
  <2> QED BY <1>1, <2>2, <2>3
<1>9. NothingLost'
  BY <1>1, <1>2, <1>4 DEF Connected, NothingLost, process_vars, Running, Live
<1> QED BY <1>5, <1>6, <1>7, <1>8, <1>9 DEF Connected

(* The loop reads a request and makes its task. *)
LEMMA ReceiveAddKeeps ==
  ASSUME StageAssumption, TypeOK, Connected, ReceiveAdd
  PROVE  Connected'
<1> DEFINE h == Head(requests).of
<1>1. /\ UNCHANGED <<client_vars, process, cancelled, job, aborting, hit, responses>>
      /\ task' = [task EXCEPT ![h] = "created"] /\ tasks' = [tasks EXCEPT ![IdOf(h)] = h]
      /\ requests # <<>> /\ requests' = Tail(requests) /\ Running /\ Running'
      /\ Head(requests).type = "add"
  BY DEF ReceiveAdd, Running
<1>2. Known' = Known /\ \A t : IdOf(t)' = IdOf(t) /\ Reused(t)' = Reused(t)
  BY <1>1, SubmittedSame DEF client_vars
<1>3. /\ Range(requests) = {Head(requests)} \cup Range(requests')
      /\ Head(requests) = Message("add", h) /\ h \in Request
  BY <1>1, Received, RequestOf
<1>4. h \in Known /\ IdOf(h) \in Rid /\ given_up \subseteq Known
  BY <1>3, KnownRequests DEF Connected, OnlyKnown
<1>5. /\ task \in [Request -> {"none", "created", "waiting", "ended"}]
      /\ tasks \in [Rid -> {None} \cup Request]
      /\ \A t \in Known : t \in Request /\ IdOf(t) \in Rid
  BY KnownRequests DEF TypeOK
<1> HIDE DEF h
<1>6. OnlyKnown'
  <2>1. \A t \in Request : task'[t] # "none" => t \in Known
    BY <1>1, <1>4, <1>5 DEF Connected, OnlyKnown
  <2>2. \A i \in Rid : tasks'[i] # None => tasks'[i] \in Known /\ IdOf(tasks'[i]) = i
    BY <1>1, <1>4, <1>5 DEF Connected, OnlyKnown
  <2>3. /\ given_up' \subseteq Known'
        /\ \A t \in Request : Message("add", t) \in Range(requests') => t \in Known'
        /\ \A t \in Range(unsent') : t \in Known' /\ submitted'[t].batch
    BY <1>1, <1>2, <1>3 DEF Connected, OnlyKnown, client_vars
  <2>4. submitted' = submitted
    BY <1>1 DEF client_vars
  <2> QED BY <1>2, <2>1, <2>2, <2>3, <2>4 DEF OnlyKnown, IdOf
<1>7. AbortsAreMeant'
  BY <1>1, <1>2, <1>3 DEF Connected, AbortsAreMeant, client_vars
<1>8. TasksAreFound'
  <2> SUFFICES ASSUME NEW t \in Known, Live(t)', ~Reused(t)
               PROVE  t \in cancelled \/ tasks'[IdOf(t)] = t
    BY <1>1, <1>2 DEF TasksAreFound
  <2>1. CASE t = h
    BY <1>1, <1>4, <1>5, <2>1
  <2>2. CASE t # h
    <3>1. Live(t) /\ IdOf(t) # IdOf(h)
      BY <1>1, <1>4, <1>5, <2>2 DEF Live, Reused
    <3>2. tasks'[IdOf(t)] = tasks[IdOf(t)]
      BY <1>1, <1>5, <3>1
    <3> QED BY <1>1, <3>1, <3>2 DEF Connected, TasksAreFound
  <2> QED BY <2>1, <2>2
<1>9. AbortsAreHeeded'
  <2> SUFFICES ASSUME NEW t \in given_up, ~Reused(t), ~submitted[t].batch
               PROVE  /\ AbortFollows(t)'
                      /\ Live(t)' => t \in cancelled \/ Message("abort", IdOf(t)) \in Range(requests')
    BY <1>1, <1>2 DEF AbortsAreHeeded, client_vars
  <2>1. AbortFollows(t) /\ (Live(t) => t \in cancelled \/ Message("abort", IdOf(t)) \in Range(requests))
    BY <1>1 DEF Connected, AbortsAreHeeded
  <2>2. /\ AbortFollows(t)'
        /\ Head(requests) = Message("add", t) => Message("abort", IdOf(t)) \in Range(requests')
    BY <1>1, <1>2, <2>1, ReceiveFollows
  <2>3. CASE t = h
    BY <1>3, <2>2, <2>3
  <2>4. CASE t # h
    <3>1. Live(t)' => Live(t)
      BY <1>1, <1>4, <1>5, <2>4 DEF Live
    <3>2. Head(requests) # Message("abort", IdOf(t))
      BY <1>3, MessageFields
    <3> QED BY <1>3, <2>1, <2>2, <3>1, <3>2
  <2> QED BY <2>3, <2>4
<1>10. NothingLost'
  <2>1. ASSUME NEW t \in Known, Somewhere(t)
        PROVE  Somewhere(t)'
    <3>1. CASE t = h
      <4>1. Live(t)'
        BY <1>1, <1>3, <1>5, <3>1 DEF Live
      <4> QED BY <4>1 DEF Somewhere
    <3>2. CASE t # h
      <4>1. Head(requests) # Message("add", t)
        BY <1>3, <3>2, MessageFields
      <4>2. Live(t) => Live(t)'
        BY <1>1, <1>5, <3>2 DEF Live
      <4>3. Answered' = Answered
        BY <1>1 DEF Answered, Replies, client_vars
      <4> QED BY <1>1, <1>3, <2>1, <4>1, <4>2, <4>3 DEF Somewhere, client_vars
    <3> QED BY <3>1, <3>2
  <2> QED BY <1>1, <1>2, <2>1, NothingLostIs DEF Connected, NothingLost, Somewhere, Answered, client_vars
<1> QED BY <1>6, <1>7, <1>8, <1>9, <1>10 DEF Connected

(* A task that ends replies for itself, unless its request was aborted.    *)
LEMMA FinishTaskReplies ==
  ASSUME StageAssumption, TypeOK, NEW t \in Known, FinishTask(t)
  PROVE  /\ Replies(responses) \subseteq Replies(responses')
         /\ Replies(responses') \subseteq Replies(responses) \cup {t}
         /\ job[t] # "aborted" => t \in Replies(responses')
<1>1. responses \in Seq(ResponseMessage) /\ responses' = responses \o Reply(t)
  BY DEF TypeOK, FinishTask
<1>2. t \in Request
  BY KnownRequests
<1>3. CASE job[t] = "aborted"
  <2>1. Reply(t) = <<>>
    BY <1>3 DEF Reply
  <2>2. responses' = responses
    BY <1>1, <2>1, ConcatEmptySeq
  <2> QED BY <1>3, <2>2
<1>4. CASE job[t] # "aborted"
  <2> DEFINE m == Message(job[t], t)
  <2>1. m \in ReplyMessage /\ m \in ResponseMessage /\ m.of = t
    BY <1>2, <1>4, MessageTypes, MessageFields DEF FinishTask
  <2>2. responses' = Append(responses, m)
    <3>1. Reply(t) = <<m>>
      BY <1>4 DEF Reply
    <3> HIDE DEF m
    <3> QED BY <1>1, <2>1, <3>1, AppendIsConcat
  <2> HIDE DEF m
  <2>3. /\ Range(responses') = Range(responses) \cup {m}
        /\ Range(responses) \subseteq ResponseMessage /\ Range(responses') \subseteq ResponseMessage
    BY <1>1, <2>1, <2>2, AppendQueueProperties, RangeOfSeq
  <2>4. /\ Replies(responses) = {k.of : k \in Range(responses) \cap ReplyMessage}
        /\ Replies(responses') = {k.of : k \in Range(responses') \cap ReplyMessage}
    BY <2>3, RepliesAre
  <2> QED BY <2>1, <2>3, <2>4
<1> QED BY <1>3, <1>4

(* The loop reads an abort and cancels the task filed under the id.        *)
LEMMA ReceiveAbortKeeps ==
  ASSUME StageAssumption, TypeOK, Connected, ReceiveAbort
  PROVE  Connected'
<1> DEFINE r == Head(requests).of
<1>1. /\ UNCHANGED <<client_vars, process, task, job, hit, responses>>
      /\ cancelled' = cancelled \cup ({tasks[r]} \ {None})
      /\ tasks' = [tasks EXCEPT ![r] = None] /\ aborting' = aborting \cup {r}
      /\ requests # <<>> /\ requests' = Tail(requests) /\ Running /\ Running'
      /\ Head(requests).type = "abort"
  BY DEF ReceiveAbort, Running, Cancelled
<1>2. Known' = Known /\ \A t : IdOf(t)' = IdOf(t) /\ Reused(t)' = Reused(t)
  BY <1>1, SubmittedSame DEF client_vars
<1>3. /\ Range(requests) = {Head(requests)} \cup Range(requests')
      /\ Head(requests) = Message("abort", r) /\ r \in Rid
  BY <1>1, Received, RequestOf
<1>4. /\ tasks \in [Rid -> {None} \cup Request] /\ given_up \subseteq Known
      /\ \A t \in Known : t \in Request /\ IdOf(t) \in Rid /\ t # None
  BY KnownRequests, NumbersDiffer DEF TypeOK, Connected, OnlyKnown
<1>5. PICK u \in given_up : IdOf(u) = r
  BY <1>3 DEF Connected, AbortsAreMeant
<1> HIDE DEF r
<1>6. OnlyKnown'
  <2>1. \A i \in Rid : tasks'[i] # None => tasks'[i] = tasks[i]
    BY <1>1, <1>4
  <2>2. \A i \in Rid : tasks'[i] # None => tasks'[i] \in Known /\ submitted'[tasks'[i]].rid = i
    <3>1. submitted' = submitted
      BY <1>1 DEF client_vars
    <3> QED BY <2>1, <3>1 DEF Connected, OnlyKnown, IdOf
  <2> QED BY <1>1, <1>2, <1>3, <2>2 DEF Connected, OnlyKnown, client_vars, IdOf
<1>7. AbortsAreMeant'
  <2>1. ASSUME NEW i \in Rid, Message("abort", i) \in Range(requests') \/ i \in aborting'
        PROVE  \E t \in given_up' : IdOf(t)' = i
    <3>1. CASE i = r
      BY <1>1, <1>2, <1>5, <3>1 DEF client_vars
    <3>2. CASE i # r
      <4>1. PICK t \in given_up : IdOf(t) = i
        BY <1>1, <1>3, <2>1, <3>2 DEF Connected, AbortsAreMeant
      <4> QED BY <1>1, <1>2, <4>1 DEF client_vars
    <3> QED BY <3>1, <3>2
  <2>2. ASSUME NEW t \in Request, t \in cancelled' \cup hit' \/ job'[t] = "aborted"
        PROVE  t \in Known /\ (t \in given_up \/ Reused(t))
    <3>1. CASE t \in cancelled \cup hit \/ job[t] = "aborted"
      BY <3>1 DEF Connected, AbortsAreMeant
    <3>2. CASE t = tasks[r]
      <4>1. t \in Known /\ IdOf(t) = r /\ u \in Known
        BY <1>3, <1>4, <3>2, NumbersDiffer DEF Connected, OnlyKnown
      <4> QED BY <1>5, <4>1 DEF Reused
    <3> QED BY <1>1, <2>2, <3>1, <3>2
  <2> QED BY <1>1, <1>2, <2>1, <2>2 DEF AbortsAreMeant, client_vars
<1>8. ASSUME NEW t \in Known, Live(t), ~Reused(t)
      PROVE  IF IdOf(t) = r THEN t \in cancelled'
             ELSE t \in cancelled \/ tasks'[IdOf(t)] = t
  <2>1. t \in cancelled \/ tasks[IdOf(t)] = t
    BY <1>1, <1>8 DEF Connected, TasksAreFound
  <2> QED BY <1>1, <1>4, <2>1
<1>9. TasksAreFound'
  BY <1>1, <1>2, <1>8 DEF TasksAreFound, Live
<1>10. AbortsAreHeeded'
  <2> SUFFICES ASSUME NEW t \in given_up, ~Reused(t), ~submitted[t].batch
               PROVE  /\ AbortFollows(t)'
                      /\ Live(t) => t \in cancelled' \/ Message("abort", IdOf(t)) \in Range(requests')
    BY <1>1, <1>2 DEF AbortsAreHeeded, client_vars, Live
  <2>1. AbortFollows(t) /\ (Live(t) => t \in cancelled \/ Message("abort", IdOf(t)) \in Range(requests))
    BY <1>1 DEF Connected, AbortsAreHeeded
  <2>2. AbortFollows(t)'
    BY <1>1, <1>2, <2>1, ReceiveFollows
  <2>3. CASE IdOf(t) = r
    BY <1>4, <1>8, <2>2, <2>3
  <2>4. CASE IdOf(t) # r
    <3>1. Head(requests) # Message("abort", IdOf(t))
      BY <1>3, <2>4, MessageFields
    <3> QED BY <1>1, <1>3, <2>1, <2>2, <3>1
  <2> QED BY <2>3, <2>4
<1>11. NothingLost'
  <2>1. \A t : Head(requests) # Message("add", t)
    BY <1>3, MessageFields
  <2>2. ASSUME NEW t, Somewhere(t) PROVE Somewhere(t)'
    BY <1>1, <1>3, <2>1, <2>2 DEF Somewhere, Live, Answered, Replies, client_vars
  <2> QED BY <1>1, <1>2, <2>2, NothingLostIs DEF Connected, NothingLost, Somewhere, Answered, client_vars
<1> QED BY <1>6, <1>7, <1>9, <1>10, <1>11 DEF Connected

(* The loop reads a control RPC. *)
LEMMA ReceiveRpcKeeps ==
  ASSUME StageAssumption, TypeOK, Connected, ReceiveRpc
  PROVE  Connected'
<1> DEFINE n == Head(requests).of
<1>1. /\ UNCHANGED <<client_vars, process, task, cancelled, tasks, aborting, hit, responses>>
      /\ job' = [job EXCEPT ![n] = "queued"]
      /\ requests # <<>> /\ requests' = Tail(requests) /\ Head(requests).type = "rpc"
  BY DEF ReceiveRpc
<1>2. Known' = Known /\ \A t : IdOf(t)' = IdOf(t) /\ Reused(t)' = Reused(t)
  BY <1>1, SubmittedSame DEF client_vars
<1>3. Range(requests) = {Head(requests)} \cup Range(requests') /\ Head(requests) = Message("rpc", n)
  BY <1>1, Received, RequestOf
<1>4. \A t : Head(requests) # Message("add", t) /\ Head(requests) # Message("abort", t)
  BY <1>3, MessageFields
<1> HIDE DEF n
<1>5. OnlyKnown'
  BY <1>1, <1>2, <1>3 DEF Connected, OnlyKnown, client_vars
<1>6. AbortsAreMeant'
  <2>1. \A t \in Request : job'[t] = "aborted" => job[t] = "aborted"
    BY <1>1 DEF TypeOK, Job
  <2> QED BY <1>1, <1>2, <1>3, <2>1 DEF Connected, AbortsAreMeant, client_vars
<1>7. TasksAreFound'
  BY <1>1, <1>2 DEF Connected, TasksAreFound, Running, Live
<1>8. AbortsAreHeeded'
  <2>1. \A t : AbortFollows(t) => AbortFollows(t)'
    BY <1>1, <1>2, ReceiveFollows
  <2> QED BY <1>1, <1>2, <1>3, <1>4, <2>1 DEF Connected, AbortsAreHeeded, Running, Live, client_vars
<1>9. NothingLost'
  BY <1>1, <1>2, <1>3, <1>4 DEF Connected, NothingLost, Running, Live, client_vars
<1> QED BY <1>5, <1>6, <1>7, <1>8, <1>9 DEF Connected

(* A task starts, or is found to be cancelled. *)
LEMMA StartTaskKeeps ==
  ASSUME StageAssumption, TypeOK, Connected, NEW u \in Known, StartTask(u)
  PROVE  Connected'
<1>1. /\ UNCHANGED <<client_vars, process, tasks, aborting, hit, requests, responses>>
      /\ task[u] = "created" /\ cancelled' = cancelled \ {u} /\ Running
      /\ u \in cancelled => task' = [task EXCEPT ![u] = "ended"] /\ job' = job
      /\ u \notin cancelled => /\ task' = [task EXCEPT ![u] = "waiting"]
                               /\ job' = [job EXCEPT ![u] = "queued"]
  BY DEF StartTask
<1>2. Known' = Known /\ \A t : IdOf(t)' = IdOf(t) /\ Reused(t)' = Reused(t)
  BY <1>1, SubmittedSame DEF client_vars
<1>3. /\ task \in [Request -> {"none", "created", "waiting", "ended"}]
      /\ job \in [Job -> {"none", "queued", "running", "result", "error", "aborted"}]
      /\ Known \subseteq Request /\ Request \subseteq Job /\ given_up \subseteq Known
  BY KnownRequests DEF TypeOK, Job, Connected, OnlyKnown
<1>4. /\ u \in cancelled => ~Live(u)'
      /\ \A t \in Known : t # u \/ u \notin cancelled => Live(t)' = Live(t)
      /\ \A t \in Known : t # u \/ u \notin cancelled => (t \in cancelled' <=> t \in cancelled)
  BY <1>1, <1>3 DEF Live
<1>5. OnlyKnown'
  <2>1. \A t \in Request : task'[t] # "none" => t \in Known
    BY <1>1, <1>3 DEF Connected, OnlyKnown
  <2> QED BY <1>1, <1>2, <2>1 DEF Connected, OnlyKnown, client_vars
<1>6. AbortsAreMeant'
  <2>1. \A t \in Request : job'[t] = "aborted" => job[t] = "aborted"
    BY <1>1, <1>3
  <2> QED BY <1>1, <1>2, <2>1 DEF Connected, AbortsAreMeant, client_vars
<1>7. TasksAreFound'
  BY <1>1, <1>2, <1>4 DEF Connected, TasksAreFound, Running
<1>8. AbortsAreHeeded'
  <2>1. \A t : AbortFollows(t) => AbortFollows(t)'
    BY <1>1, <1>2 DEF AbortFollows
  <2> QED BY <1>1, <1>2, <1>3, <1>4, <2>1 DEF Connected, AbortsAreHeeded, Running, client_vars
<1>9. NothingLost'
  <2> SUFFICES ASSUME NEW t \in Known \ given_up, ~Reused(t)
               PROVE  Somewhere(t)'
    BY <1>1, <1>2 DEF NothingLost, Somewhere, Answered, client_vars
  <2>1. Somewhere(t)
    BY <1>1, NothingLostIs DEF Connected
  <2>2. t \notin cancelled
    BY <1>3 DEF Connected, AbortsAreMeant
  <2>3. Live(t) => Live(t)'
    BY <1>4, <2>2
  <2> QED BY <1>1, <2>1, <2>3 DEF Somewhere, Answered, Replies, client_vars
<1> QED BY <1>5, <1>6, <1>7, <1>8, <1>9 DEF Connected

(* A task ends: it was cancelled, or its job is done and it replies.       *)
LEMMA EndTaskKeeps ==
  ASSUME StageAssumption, TypeOK, Connected, NEW u \in Known, CancelTask(u) \/ FinishTask(u)
  PROVE  Connected'
<1>1. /\ UNCHANGED <<client_vars, process, aborting, hit, requests>>
      /\ task' = [task EXCEPT ![u] = "ended"] /\ tasks' = [tasks EXCEPT ![IdOf(u)] = None]
      /\ cancelled' \subseteq cancelled /\ cancelled \ {u} \subseteq cancelled' /\ Running
      /\ \E s \in {"none", job[u]} : job' = [job EXCEPT ![u] = s]
  <2>1. CASE CancelTask(u)
    <3>1. job' = [job EXCEPT ![u] = IF job[u] = "running" THEN job[u] ELSE "none"]
      BY <2>1 DEF CancelTask
    <3>2. (IF job[u] = "running" THEN job[u] ELSE "none") \in {"none", job[u]}
      OBVIOUS
    <3> QED BY <2>1, <3>1, <3>2 DEF CancelTask, Popped
  <2>2. CASE FinishTask(u)
    BY <2>2 DEF FinishTask, Popped
  <2> QED BY <2>1, <2>2
<1>2. Known' = Known /\ \A t : IdOf(t)' = IdOf(t) /\ Reused(t)' = Reused(t)
  BY <1>1, SubmittedSame DEF client_vars
<1>3. /\ task \in [Request -> {"none", "created", "waiting", "ended"}]
      /\ job \in [Job -> {"none", "queued", "running", "result", "error", "aborted"}]
      /\ tasks \in [Rid -> {None} \cup Request]
      /\ Known \subseteq Request /\ Request \subseteq Job /\ given_up \subseteq Known
      /\ \A t \in Known : IdOf(t) \in Rid
  BY KnownRequests DEF TypeOK, Job, Connected, OnlyKnown
<1>4. ~Live(u)' /\ \A t \in Known : t # u => Live(t)' = Live(t)
  BY <1>1, <1>3 DEF Live
<1>5. OnlyKnown'
  <2>1. \A t \in Request : task'[t] # "none" => t \in Known
    BY <1>1, <1>3 DEF Connected, OnlyKnown
  <2>2. \A i \in Rid : tasks'[i] # None => tasks'[i] = tasks[i]
    BY <1>1, <1>3
  <2> QED BY <1>1, <1>2, <2>1, <2>2 DEF Connected, OnlyKnown, client_vars, IdOf
<1>6. AbortsAreMeant'
  <2>1. \A t \in Request : job'[t] = "aborted" => job[t] = "aborted"
    BY <1>1, <1>3
  <2> QED BY <1>1, <1>2, <2>1 DEF Connected, AbortsAreMeant, client_vars
<1>7. TasksAreFound'
  <2> SUFFICES ASSUME NEW t \in Known, Live(t)', ~Reused(t)
               PROVE  t \in cancelled' \/ tasks'[IdOf(t)] = t
    BY <1>1, <1>2 DEF TasksAreFound
  <2>1. t # u /\ Live(t) /\ IdOf(t) # IdOf(u)
    BY <1>4 DEF Reused
  <2>2. tasks'[IdOf(t)] = tasks[IdOf(t)]
    BY <1>1, <1>3, <2>1
  <2> QED BY <1>1, <2>1, <2>2 DEF Connected, TasksAreFound
<1>8. AbortsAreHeeded'
  <2>1. \A t : AbortFollows(t) => AbortFollows(t)'
    BY <1>1, <1>2 DEF AbortFollows
  <2> QED BY <1>1, <1>2, <1>3, <1>4, <2>1 DEF Connected, AbortsAreHeeded, Running, client_vars
<1>9. Replies(responses) \subseteq Replies(responses')
  <2>1. CASE CancelTask(u)
    BY <2>1 DEF CancelTask
  <2>2. CASE FinishTask(u)
    BY <2>2, FinishTaskReplies
  <2> QED BY <2>1, <2>2
<1>10. NothingLost'
  <2> SUFFICES ASSUME NEW t \in Known \ given_up, ~Reused(t)
               PROVE  Somewhere(t)'
    BY <1>1, <1>2 DEF NothingLost, Somewhere, Answered, client_vars
  <2>1. Somewhere(t)
    BY <1>1, NothingLostIs DEF Connected
  <2>2. t \notin cancelled /\ job[t] # "aborted"
    BY <1>3 DEF Connected, AbortsAreMeant
  <2>3. CASE t # u
    <3>1. Live(t) => Live(t)'
      BY <1>4, <2>3
    <3> QED BY <1>1, <1>9, <2>1, <3>1 DEF Somewhere, Answered, Replies, client_vars
  <2>4. CASE t = u
    <3>1. FinishTask(t)
      BY <2>2, <2>4 DEF CancelTask
    <3>2. t \in Replies(responses')
      BY <2>2, <3>1, FinishTaskReplies
    <3> QED BY <3>2 DEF Somewhere, Answered, Replies
  <2> QED BY <2>3, <2>4
<1> QED BY <1>5, <1>6, <1>7, <1>8, <1>10 DEF Connected

-----------------------------------------------------------------------------
(* The theorems. *)

(* Nothing was submitted: nothing can be lost. *)
LEMMA InitStageInvariant == StageAssumption /\ StageInit => StageInvariant
<1> SUFFICES ASSUME StageAssumption, StageInit PROVE StageInvariant
  OBVIOUS
<1>1. TypeOK
  <2>1. Len(submitted) <= MaxRequests
    <3>1. submitted = <<>> /\ Len(<<>>) = 0 /\ MaxRequests \in Nat
      BY DEF StageInit, StageAssumption
    <3> QED BY <3>1
  <2>2. /\ submitted \in Seq([rid : Rid, batch : BOOLEAN]) /\ unsent \in Seq(Request)
        /\ requests \in Seq(RequestMessage) /\ responses \in Seq(ResponseMessage)
        /\ outputs \in Seq(ReplyMessage) /\ queue \in Seq(Job)
    BY DEF StageInit
  <2>3. /\ given_up \in SUBSET Request /\ returned \in SUBSET Request
        /\ caller \in [Rpc -> {"idle", "waiting", "returned", "timed out", "dead"}]
        /\ rpc_results \in SUBSET Rpc
        /\ engine_dead \in BOOLEAN /\ shutting_down \in BOOLEAN /\ told \in BOOLEAN
        /\ client_at \in {None, Polling} \cup Rpc
    BY DEF StageInit
  <2>4. /\ process \in {"running", "failed", "signalled", "killed", "exited"}
        /\ awaiting \in {None} \cup Rpc
        /\ task \in [Request -> {"none", "created", "waiting", "ended"}]
        /\ cancelled \in SUBSET Request /\ tasks \in [Rid -> {None} \cup Request]
        /\ job \in [Job -> {"none", "queued", "running", "result", "error", "aborted"}]
        /\ aborting \in SUBSET Rid /\ hit \in SUBSET Request
    BY DEF StageInit
  <2> QED BY <2>1, <2>2, <2>3, <2>4 DEF TypeOK
<1>2. Known = {} /\ Range(unsent) = {} /\ Range(requests) = {}
  BY DEF StageInit, Known, Range
<1>3. \A t \in Request : task[t] = "none" /\ job[t] = "none"
  BY DEF StageInit, Job
<1>4. /\ given_up = {} /\ cancelled = {} /\ aborting = {} /\ hit = {}
      /\ tasks = [r \in Rid |-> None]
  BY DEF StageInit
<1>5. OnlyKnown
  BY <1>2, <1>3, <1>4 DEF OnlyKnown
<1>6. AbortsAreMeant
  BY <1>2, <1>3, <1>4 DEF AbortsAreMeant
<1>7. TasksAreFound /\ AbortsAreHeeded /\ NothingLost
  BY <1>2, <1>4 DEF TasksAreFound, AbortsAreHeeded, NothingLost
<1> QED BY <1>1, <1>5, <1>6, <1>7 DEF StageInvariant

(* Every step keeps the invariant. *)
LEMMA StepStageInvariant ==
  StageAssumption /\ StageInvariant /\ [StageNext]_stage_vars => StageInvariant'
<1> SUFFICES ASSUME StageAssumption, StageInvariant, [StageNext]_stage_vars
             PROVE  StageInvariant'
  OBVIOUS
<1>1. TypeOK /\ Connected
  BY DEF StageInvariant, Connected
<1>2. TypeOK'
  <2>1. CASE UNCHANGED stage_vars
    BY <1>1, <2>1 DEF TypeOK, stage_vars, client_vars, process_vars
  <2> QED BY <1>1, <2>1, ClientTypes, ProcessTypes DEF StageNext
<1>3. Connected'
  <2>1. CASE UNCHANGED stage_vars
    <3>1. /\ UNCHANGED <<submitted, given_up, unsent, outputs, returned, process, task, cancelled,
                         tasks, job, aborting, hit, requests, responses>>
      BY <2>1 DEF stage_vars, client_vars, process_vars
    <3> QED BY <1>1, <3>1
            DEF Connected, OnlyKnown, AbortsAreMeant, TasksAreFound, AbortsAreHeeded, AbortFollows,
                NothingLost, Known, IdOf, Reused, Running, Live, Replies
  <2>2. CASE Client \/ MonitorSeesDeath
    BY <1>1, <2>2, AddRequestKeeps, RunBatchKeeps, AbortRequestsKeeps, OtherSendsKeep, DeliversKeeps
       DEF Client, Delivers
  <2>3. CASE Process
    <3>1. CASE ReceiveShutdown \/ LoopFails \/ Signalled \/ Killed
      <4>1. \E how \in {"failed", "signalled", "killed", "exited"} : Ends(how)
        BY <3>1 DEF ReceiveShutdown, LoopFails, Signalled, Killed
      <4> QED BY <1>1, <4>1, EndsKeeps
    <3> QED BY <1>1, <2>3, <3>1, ReceiveAddKeeps, ReceiveAbortKeeps, ReceiveRpcKeeps, StartTaskKeeps,
               EndTaskKeeps, PoolKeeps
            DEF Process, Receive, TaskRuns
  <2> QED BY <2>1, <2>2, <2>3 DEF StageNext
<1> QED BY <1>2, <1>3 DEF StageInvariant, Connected

(* What client and process keep between them holds in every state.         *)
THEOREM StageInvariantHolds ==
  ASSUME StageAssumption
  PROVE  Spec => []StageInvariant
BY InitStageInvariant, StepStageInvariant, PTL DEF Spec

(* While the process runs, no request that nobody aborted disappears       *)
(* between the tasks, the sockets and the output queue.                    *)
THEOREM RequestsAreNotLost ==
  ASSUME StageAssumption
  PROVE  Spec => []NothingLost
<1>1. StageInvariant => NothingLost
  BY DEF StageInvariant
<1> QED BY <1>1, StageInvariantHolds, PTL

(* Who may still be replied to once his abort was read: nobody.            *)
LEMMA NewReplies ==
  ASSUME StageAssumption, TypeOK, StageNext
  PROVE  \/ Replies(responses') \subseteq Replies(responses)
         \/ \E u \in Known : /\ FinishTask(u)
                             /\ Replies(responses') \subseteq Replies(responses) \cup {u}
<1>1. CASE responses' = responses
  BY <1>1
<1>2. CASE Delivers
  BY <1>2, DeliversKeepsReplies
<1>3. ASSUME NEW m \in ResponseMessage \ ReplyMessage, responses' = Append(responses, m)
      PROVE  Replies(responses') \subseteq Replies(responses)
  <2>1. responses \in Seq(ResponseMessage)
    BY DEF TypeOK
  <2>2. /\ Range(responses') = Range(responses) \cup {m}
        /\ Range(responses) \subseteq ResponseMessage /\ Range(responses') \subseteq ResponseMessage
    BY <1>3, <2>1, AppendQueueProperties, RangeOfSeq
  <2> QED BY <2>2, RepliesAre
<1>4. CASE LoopFails
  <2>1. Message("dead", None) \in ResponseMessage \ ReplyMessage
    BY MessageTypes, MessageFields, ResponseOf
  <2> QED BY <1>3, <1>4, <2>1 DEF LoopFails
<1>5. CASE FinishRpc
  <2>1. awaiting \in Rpc
    BY <1>5 DEF FinishRpc, TypeOK
  <2>2. \A a \in {"rpc_result", "rpc_error"} : Message(a, awaiting) \in ResponseMessage \ ReplyMessage
    BY <2>1, MessageTypes, MessageFields, ResponseOf
  <2>3. PICK a \in {"rpc_result", "rpc_error"} : responses' = Append(responses, Message(a, awaiting))
    BY <1>5 DEF FinishRpc
  <2> QED BY <1>3, <2>2, <2>3
<1>6. CASE Killed
  <2>1. PICK n \in 0..Len(responses) : responses' = SubSeq(responses, 1, n)
    BY <1>6 DEF Killed
  <2>2. responses \in Seq(ResponseMessage)
    BY DEF TypeOK
  <2>3. /\ Range(responses') \subseteq Range(responses)
        /\ Range(responses) \subseteq ResponseMessage
    BY <2>1, <2>2, SplitQueueProperties, RangeOfSeq
  <2> QED BY <2>3, RepliesAre
<1>7. ASSUME NEW u \in Known, FinishTask(u)
      PROVE  Replies(responses') \subseteq Replies(responses) \cup {u}
  BY <1>7, FinishTaskReplies
<1>8. \/ responses' = responses \/ Delivers \/ LoopFails \/ FinishRpc \/ Killed
      \/ \E u \in Known : FinishTask(u)
  BY DEF StageNext, Client, Process, Receive, TaskRuns, Delivers, AddRequest, RunBatch, AbortRequests,
         CollectiveRpc, Shutdown, ReceiveAdd, ReceiveAbort, ReceiveRpc, ReceiveShutdown, Signalled,
         StartTask, CancelTask, TakeJob, DrainAborts, EndJob
<1> QED BY <1>1, <1>2, <1>4, <1>5, <1>6, <1>7, <1>8

(* An abort that has been read is obeyed, whatever the task and its job    *)
(* are doing.                                                              *)
THEOREM AbortsAreObeyed ==
  ASSUME StageAssumption
  PROVE  Spec => NoReplyAfterAbort
<1> DEFINE Silent == \A t \in given_up :
             /\ ~Reused(t) /\ ~submitted[t].batch
             /\ Message("abort", IdOf(t)) \notin Range(requests)
             => (t \in Replies(responses') => t \in Replies(responses))
<1>1. StageInvariant /\ [StageNext]_stage_vars => [Silent]_stage_vars
  <2> SUFFICES ASSUME StageInvariant, StageNext,
                      NEW t \in given_up, ~Reused(t), ~submitted[t].batch,
                      Message("abort", IdOf(t)) \notin Range(requests),
                      t \in Replies(responses'), t \notin Replies(responses)
               PROVE  FALSE
    OBVIOUS
  <2>1. PICK u \in Known :
          FinishTask(u) /\ Replies(responses') \subseteq Replies(responses) \cup {u}
    BY NewReplies DEF StageInvariant
  <2>2. u = t
    BY <2>1
  <2>3. Running /\ Live(t) /\ t \notin cancelled
    BY <2>1, <2>2 DEF FinishTask, Live
  <2> QED BY <2>3 DEF StageInvariant, AbortsAreHeeded
<1> QED BY <1>1, StageInvariantHolds, PTL DEF Spec, NoReplyAfterAbort
===============================================================================
