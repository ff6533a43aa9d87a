------------------------- MODULE OmniCoordinator_proofs -------------------------
(***************************************************************************)
(* Proofs about OmniCoordinator: its types; that the race between a        *)
(* broadcast request and the clearing of _pending_broadcast is the only    *)
(* way a change of the active instances stays unpublished; and that a hub  *)
(* which missed nothing ends on the published list.                        *)
(***************************************************************************)
EXTENDS OmniCoordinator, SequenceTheorems, TLAPS

(* Every prefix of a buffer of events is a buffer of events.               *)
LEMMA PrefixesAreEvents ==
  ASSUME NEW s \in Seq(Event), NEW p \in Prefixes(s)
  PROVE  p \in Seq(Event)
<1>1. PICK n \in 0 .. Len(s) : p = SubSeq(s, 1, n)
  BY DEF Prefixes
<1>2. n \in Nat /\ n =< Len(s) /\ Len(s) \in Nat
  BY <1>1, LenProperties
<1>3. CASE n = 0
  <2>1. SubSeq(s, 1, n) = <<>>
    BY <1>2, <1>3, SubSeqProperties
  <2> QED BY <2>1, <1>1, EmptySeq
<1>4. CASE n > 0
  BY <1>1, <1>2, <1>4, SubSeqProperties
<1> QED BY <1>2, <1>3, <1>4

(* What a client sends is an event.                                        *)
LEMMA EventsTyped ==
  ASSUME NEW cl \in Client, NEW type \in {"update", "heartbeat"}
  PROVE  EventOf(type, cl) \in Event
BY DEF EventOf, Event, Client

(* Replacing a connection's buffer by another keeps the wire typed.        *)
LEMMA WireTyped ==
  ASSUME wire \in [Instance -> [Connection -> Seq(Event)]],
         NEW i \in Instance, NEW c \in Connection, NEW s \in Seq(Event)
  PROVE  [wire EXCEPT ![i][c] = s] \in [Instance -> [Connection -> Seq(Event)]]
OBVIOUS

(* _send_event, whatever its outcome, keeps the wire and the connections   *)
(* typed.                                                                  *)
LEMMA SendTyped ==
  ASSUME TypeOK, CoordinatorAssumption,
         NEW i \in Instance, NEW cl \in Client, NEW type \in {"update", "heartbeat"},
         connection[i] \in Connection,
         SendEvent(i, type, cl)
  PROVE  /\ wire' \in [Instance -> [Connection -> Seq(Event)]]
         /\ connection' \in [Instance -> 0 .. MaxConnections]
<1> DEFINE e == EventOf(type, cl)
           c == connection[i]
<1>1. e \in Event
  BY EventsTyped
<1>2. /\ wire \in [Instance -> [Connection -> Seq(Event)]]
      /\ connection \in [Instance -> 0 .. MaxConnections]
  BY DEF TypeOK
<1> HIDE DEF e
<1>3. CASE Queued(i, c, e)
  <2>1. Append(wire[i][c], e) \in Seq(Event)
    BY <1>1, <1>2, AppendProperties
  <2> QED BY <1>2, <1>3, <2>1 DEF Queued
<1>4. CASE Dropped(i, c)
  BY <1>2, <1>4 DEF Dropped
<1>5. CASE Reconnected(i, c, e)
  <2>1. PICK kept \in Prefixes(wire[i][c]) :
          wire' = [wire EXCEPT ![i][c] = kept, ![i][c + 1] = <<e>>]
    BY <1>5 DEF Reconnected
  <2>2. kept \in Seq(Event)
    BY <1>2, <2>1, PrefixesAreEvents
  <2>3. <<e>> \in Seq(Event)
    BY <1>1
  <2>4. c + 1 \in Connection /\ connection' = [connection EXCEPT ![i] = c + 1]
    BY <1>5 DEF Reconnected
  <2>5. c + 1 \in 0 .. MaxConnections
    BY <2>4, CoordinatorAssumption DEF Connection, CoordinatorAssumption
  <2> QED BY <1>2, <2>1, <2>2, <2>3, <2>4, <2>5
<1> QED BY <1>3, <1>4, <1>5 DEF SendEvent, e, c

(* A stage client only sends on a connection it opened.                    *)
Connected == \A i \in Instance : client[i].phase = "running" => connection[i] \in Connection

(* The registry after one event, and after a check of the heartbeats.      *)
LEMMA EntryTyped ==
  ASSUME NEW e \in Event, NEW info \in InstanceInfo
  PROVE  EntryAfter(e, info) \in InstanceInfo
BY DEF EntryAfter, EntryGiven, Event, InstanceInfo, Status

(* The types and Connected hold initially.                                 *)
LEMMA InitTyped == ASSUME CoordinatorAssumption, Init PROVE TypeOK /\ Connected
<1>1. TypeOK
  <2> USE DEF Init
  <2>1. NoListing \in Listing
    BY CoordinatorAssumption
       DEF CoordinatorAssumption, NoListing, Listing, InstanceInfo, Absent, QueueLength
  <2>2. 0 \in Age /\ 0 \in QueueLength /\ 0 \in 0 .. MaxConnections
    BY CoordinatorAssumption DEF CoordinatorAssumption, Age, QueueLength
  <2>3. client \in [Instance -> Client]
    BY <2>2 DEF Client, Status
  <2>4. wire \in [Instance -> [Connection -> Seq(Event)]] /\ inbox \in [Hub -> Seq(Listing)]
    BY EmptySeq
  <2> QED BY <2>1, <2>2, <2>3, <2>4 DEF TypeOK
<1>2. Connected
  BY DEF Init, Connected
<1> QED BY <1>1, <1>2

(* A step of a stage client keeps the types.                               *)
LEMMA StageTyped ==
  ASSUME CoordinatorAssumption, TypeOK, Connected, NEW i \in Instance, Stage(i)
  PROVE  TypeOK' /\ Connected'
<1> DEFINE WireOK == wire \in [Instance -> [Connection -> Seq(Event)]]
           ConnectionOK == connection \in [Instance -> 0 .. MaxConnections]
           ClientOK == client \in [Instance -> Client]
<1> SUFFICES WireOK' /\ ConnectionOK' /\ ClientOK' /\ Connected' /\ UNCHANGED <<coordinator, hubs>>
  BY DEF TypeOK, coordinator, hubs
<1>1. WireOK /\ ConnectionOK /\ ClientOK
  BY DEF TypeOK
<1>0. 0 \in QueueLength
  BY CoordinatorAssumption DEF CoordinatorAssumption, QueueLength
<1>2. CASE StageStart(i)
  <2> DEFINE new == [phase |-> "running", status |-> "UP", queue |-> 0]
  <2>1. new \in Client
    BY <1>0 DEF Client, Status
  <2>2. <<EventOf("update", new)>> \in Seq(Event)
    BY <2>1, EventsTyped
  <2>3. connection[i] + 1 \in Connection /\ connection[i] + 1 \in 0 .. MaxConnections
    BY <1>1, <1>2, CoordinatorAssumption DEF StageStart, Connection, CoordinatorAssumption
  <2> HIDE DEF new
  <2>4. client' = [client EXCEPT ![i] = new]
    BY <1>2 DEF StageStart, new
  <2>5. connection' = [connection EXCEPT ![i] = connection[i] + 1]
    BY <1>2 DEF StageStart
  <2>6. wire' = [wire EXCEPT ![i][connection[i] + 1] = <<EventOf("update", new)>>]
    BY <1>2 DEF StageStart, new
  <2>7. WireOK'
    BY <1>1, <2>2, <2>3, <2>6
  <2>8. Connected'
    BY <1>1, <2>3, <2>4, <2>5 DEF Connected
  <2> QED BY <1>1, <1>2, <2>1, <2>3, <2>4, <2>5, <2>7, <2>8 DEF StageStart
<1>3. CASE \E s \in Reported, q \in QueueLength : UpdateInfo(i, s, q)
  <2>1. PICK s \in Reported, q \in QueueLength : UpdateInfo(i, s, q)
    BY <1>3
  <2>2. client' = [client EXCEPT ![i].status = s, ![i].queue = q] /\ client[i].phase = "running"
    BY <2>1 DEF UpdateInfo
  <2>3. s \in Status
    BY CoordinatorAssumption DEF CoordinatorAssumption
  <2>4. ClientOK' /\ client'[i] \in Client
    BY <1>1, <2>2, <2>3 DEF Client
  <2>5. connection[i] \in Connection
    BY <2>2 DEF Connected
  <2>6. SendEvent(i, "update", client'[i])
    BY <2>1 DEF UpdateInfo
  <2>7. WireOK' /\ ConnectionOK'
    BY <2>4, <2>5, <2>6, SendTyped
  <2>8. Connected'
    BY <1>1, <2>2, <2>5, <2>6
       DEF Connected, SendEvent, Queued, Dropped, Reconnected, Client
  <2> QED BY <2>1, <2>4, <2>7, <2>8 DEF UpdateInfo
<1>4. CASE SendHeartbeat(i)
  <2>1. connection[i] \in Connection /\ client[i] \in Client
    BY <1>1, <1>4 DEF Connected, SendHeartbeat
  <2>2. SendEvent(i, "heartbeat", client[i])
    BY <1>4 DEF SendHeartbeat
  <2>3. WireOK' /\ ConnectionOK'
    BY <2>1, <2>2, SendTyped
  <2>4. Connected'
    BY <1>1, <1>4, <2>1, <2>2 DEF Connected, SendHeartbeat, SendEvent, Queued, Dropped, Reconnected
  <2> QED BY <1>1, <1>4, <2>3, <2>4 DEF SendHeartbeat
<1>5. CASE StageClose(i)
  <2> DEFINE c == connection[i]
             buffered == IF Len(wire[i][c]) < SndHwm
                         THEN Append(wire[i][c], EventOf("update", client'[i])) ELSE wire[i][c]
  <2>1. client' = [client EXCEPT ![i].phase = "closed", ![i].status = "DOWN"] /\ connection' = connection
    BY <1>5 DEF StageClose
  <2>2. ClientOK' /\ client'[i] \in Client
    BY <1>1, <2>1 DEF Client, Status
  <2>3. c \in Connection
    BY <1>5 DEF Connected, StageClose
  <2>4. buffered \in Seq(Event)
    BY <1>1, <2>2, <2>3, EventsTyped, AppendProperties
  <2>5. PICK sent \in Prefixes(buffered) : wire' = [wire EXCEPT ![i][c] = sent]
    BY <1>5 DEF StageClose
  <2> HIDE DEF buffered
  <2>6. sent \in Seq(Event)
    BY <2>4, <2>5, PrefixesAreEvents
  <2>7. WireOK'
    BY <1>1, <2>3, <2>5, <2>6
  <2>8. Connected'
    BY <1>1, <2>1, <2>3 DEF Connected, Client
  <2> QED BY <1>1, <1>5, <2>1, <2>2, <2>7, <2>8 DEF StageClose
<1>6. CASE StageCrash(i)
  <2> DEFINE c == connection[i]
  <2>1. client' = [client EXCEPT ![i].phase = "crashed"] /\ connection' = connection
    BY <1>6 DEF StageCrash
  <2>2. ClientOK'
    BY <1>1, <2>1 DEF Client
  <2>3. c \in Connection
    BY <1>6 DEF Connected, StageCrash
  <2>4. PICK sent \in Prefixes(wire[i][c]) : wire' = [wire EXCEPT ![i][c] = sent]
    BY <1>6 DEF StageCrash
  <2>5. sent \in Seq(Event)
    BY <1>1, <2>3, <2>4, PrefixesAreEvents
  <2>6. WireOK'
    BY <1>1, <2>3, <2>4, <2>5
  <2>7. Connected'
    BY <1>1, <2>1, <2>3 DEF Connected, Client
  <2> QED BY <1>1, <1>6, <2>1, <2>2, <2>6, <2>7 DEF StageCrash
<1> QED BY <1>2, <1>3, <1>4, <1>5, <1>6 DEF Stage

(* A step of the receive thread keeps the types.                           *)
LEMMA ReceiverTyped ==
  ASSUME CoordinatorAssumption, TypeOK, Connected, Receiver
  PROVE  TypeOK' /\ Connected'
<1>1. CASE ScheduleBroadcast
  BY <1>1 DEF ScheduleBroadcast, TypeOK, Connected, stages, hubs
<1>2. CASE \E i \in Instance, c \in Connection : HandleEvent(i, c)
  <2>1. PICK i \in Instance, c \in Connection : HandleEvent(i, c)
    BY <1>2
  <2> DEFINE e == Head(wire[i][c])
  <2>2. wire[i][c] \in Seq(Event) /\ wire[i][c] # <<>>
    BY <2>1 DEF HandleEvent, TypeOK
  <2>3. e \in Event /\ Tail(wire[i][c]) \in Seq(Event)
    BY <2>2, HeadTailProperties
  <2>4. registry' = [registry EXCEPT ![i] = EntryAfter(e, registry[i])]
    BY <2>1 DEF HandleEvent
  <2>5. registry[i] \in InstanceInfo /\ registry \in [Instance -> InstanceInfo]
    BY DEF TypeOK, Listing
  <2>6. registry' \in Listing
    BY <2>3, <2>4, <2>5, EntryTyped DEF Listing
  <2>7. 0 \in Age
    BY CoordinatorAssumption DEF CoordinatorAssumption, Age
  <2>8. heartbeat' \in [Instance -> Age]
    BY <2>1, <2>7 DEF HandleEvent, TypeOK
  <2>9. wire' \in [Instance -> [Connection -> Seq(Event)]]
    BY <2>1, <2>3 DEF HandleEvent, TypeOK
  <2>10. scheduling' \in BOOLEAN
    BY <2>1 DEF HandleEvent, AsksBroadcast
  <2> QED BY <2>1, <2>6, <2>8, <2>9, <2>10 DEF HandleEvent, TypeOK, Connected, hubs
<1> QED BY <1>1, <1>2 DEF Receiver

(* A step of the periodic thread keeps the types.                          *)
LEMMA PeriodicTyped ==
  ASSUME CoordinatorAssumption, TypeOK, Connected, Periodic
  PROVE  TypeOK' /\ Connected'
<1>0. Absent \in InstanceInfo
  BY CoordinatorAssumption DEF CoordinatorAssumption, Absent, InstanceInfo, QueueLength
<1>1. CASE CheckHeartbeatTimeouts
  <2>1. registry' \in Listing
    BY <1>0, <1>1 DEF CheckHeartbeatTimeouts, TypeOK, Listing, InstanceInfo, Status
  <2> QED BY <1>1, <2>1
          DEF CheckHeartbeatTimeouts, TypeOK, Connected, stages, hubs, RequestsBroadcast
<1>2. CASE NoCheckDue \/ ReadPending \/ PublishFailed \/ ClearPending
  BY <1>2 DEF NoCheckDue, ReadPending, PublishFailed, ClearPending, PendingAfterFailure,
              TypeOK, Connected, stages, hubs
<1>3. CASE TakeSnapshot
  BY <1>3 DEF TakeSnapshot, TypeOK, Connected, stages, hubs
<1>4. CASE Publish
  <2>1. Payload \in Listing
    BY <1>0 DEF Payload, TypeOK, Listing
  <2>2. inbox' \in [Hub -> Seq(Listing)]
    BY <1>4, <2>1, AppendProperties DEF Publish, TypeOK
  <2>3. missed' \in [Hub -> BOOLEAN]
    BY <1>4 DEF Publish
  <2> QED BY <1>4, <2>1, <2>2, <2>3 DEF Publish, TypeOK, Connected, stages
<1> QED BY <1>1, <1>2, <1>3, <1>4 DEF Periodic

(* A step of a hub client keeps the types.                                 *)
LEMMA HubTyped ==
  ASSUME TypeOK, Connected, NEW h \in Hub, HubStep(h)
  PROVE  TypeOK' /\ Connected'
<1>1. CASE Subscribe(h)
  BY <1>1 DEF Subscribe, TypeOK, Connected, stages, coordinator
<1>2. CASE HubReceive(h)
  <2>1. inbox[h] \in Seq(Listing) /\ inbox[h] # <<>>
    BY <1>2 DEF HubReceive, TypeOK
  <2>2. Head(inbox[h]) \in Listing /\ Tail(inbox[h]) \in Seq(Listing)
    BY <2>1, HeadTailProperties
  <2> QED BY <1>2, <2>2 DEF HubReceive, TypeOK, Connected, stages, coordinator
<1>3. CASE HubDisconnect(h) \/ HubClose(h)
  <2>1. <<>> \in Seq(Listing)
    BY EmptySeq
  <2> QED BY <1>3, <2>1 DEF HubDisconnect, FailedRecv, HubClose, TypeOK, Connected, stages, coordinator
<1> QED BY <1>1, <1>2, <1>3 DEF HubStep

(* Time passing keeps the types: an age saturates one above GcTtl.         *)
LEMMA TickTyped ==
  ASSUME CoordinatorAssumption, TypeOK, Connected, Tick
  PROVE  TypeOK' /\ Connected'
<1>1. \A a \in Age : Older(a) \in Age
  BY CoordinatorAssumption DEF CoordinatorAssumption, Age, Older
<1>2. heartbeat' \in [Instance -> Age]
  BY <1>1 DEF Tick, TypeOK
<1> QED BY <1>2 DEF Tick, TypeOK, Connected, stages, hubs

(* Every step of the coordinator, its clients and its hubs is typed.       *)
LEMMA NextTyped ==
  ASSUME CoordinatorAssumption, TypeOK, Connected, [Next]_vars
  PROVE  TypeOK' /\ Connected'
<1>1. CASE Close
  BY <1>1 DEF Close, TypeOK, Connected, stages, hubs
<1>2. CASE UNCHANGED vars
  BY <1>2 DEF vars, coordinator, stages, hubs, TypeOK, Connected
<1> QED BY <1>1, <1>2, StageTyped, ReceiverTyped, PeriodicTyped, HubTyped, TickTyped DEF Next

(* The registry, the threads, the sockets and the hubs keep their types.   *)
THEOREM CoordinatorTyped == Spec => []TypeOK
<1>1. Init => TypeOK /\ Connected
  BY CoordinatorAssumption, InitTyped
<1>2. TypeOK /\ Connected /\ [Next]_vars => TypeOK' /\ Connected'
  BY CoordinatorAssumption, NextTyped
<1> QED BY <1>1, <1>2, PTL DEF Spec

-------------------------------------------------------------------------------
(* What a publication in progress has caught of the registry.  OnlyRaces-  *)
(* AreLost alone is not inductive: it says nothing of the snapshot that    *)
(* the next Publish serializes, nor of the request it will clear.          *)
PublicationInv ==
  /\ loop \in {"snap", "send", "sent"} => pending
  /\ loop = "send" => snapshot = {i \in Instance : IsActive(i)} \/ scheduling \/ raced
  /\ loop = "sent" => published = Active \/ scheduling \/ raced
  /\ OnlyRacesAreLost

(* An event that changes an active entry asks for a broadcast.             *)
LEMMA ChangesAsk ==
  ASSUME NEW e \in Event, NEW info \in InstanceInfo, ~AsksBroadcast(e, info)
  PROVE  EntryAfter(e, info) = info
BY DEF AsksBroadcast, EntryAfter, EntryGiven, Event

(* The invariant of the publication holds initially.                       *)
LEMMA InitPublication == ASSUME Init PROVE PublicationInv
<1>1. Active = NoListing
  BY DEF Init, Active, IsActive, NoListing, Absent
<1> QED BY <1>1 DEF Init, PublicationInv, OnlyRacesAreLost

(* Handling an event keeps the invariant: what it changes, it announces.   *)
LEMMA HandlePublication ==
  ASSUME TypeOK, PublicationInv, NEW i \in Instance, NEW c \in Connection, HandleEvent(i, c)
  PROVE  PublicationInv'
<1> DEFINE e == Head(wire[i][c])
<1>1. wire[i][c] \in Seq(Event) /\ wire[i][c] # <<>>
  BY DEF HandleEvent, TypeOK
<1>2. e \in Event /\ registry[i] \in InstanceInfo /\ registry \in [Instance -> InstanceInfo]
  BY <1>1, HeadTailProperties DEF TypeOK, Listing
<1>3. /\ registry' = [registry EXCEPT ![i] = EntryAfter(e, registry[i])]
      /\ scheduling' = AsksBroadcast(e, registry[i])
      /\ UNCHANGED <<pending, loop, snapshot, published, raced>>
      /\ ~scheduling
  BY DEF HandleEvent
<1> HIDE DEF e
<1>4. CASE AsksBroadcast(e, registry[i])
  BY <1>3, <1>4 DEF PublicationInv, OnlyRacesAreLost
<1>5. CASE ~AsksBroadcast(e, registry[i])
  <2>1. registry' = registry
    BY <1>2, <1>3, <1>5, ChangesAsk
  <2> QED BY <1>3, <1>5, <2>1 DEF PublicationInv, OnlyRacesAreLost, Active, IsActive
<1> QED BY <1>4, <1>5

(* A check that times nothing out leaves the active entries as they are.   *)
LEMMA CheckPublication ==
  ASSUME TypeOK, PublicationInv, CheckHeartbeatTimeouts
  PROVE  PublicationInv'
<1>1. loop = "top" /\ loop' = "read" /\ UNCHANGED <<published, scheduling, raced>>
  BY DEF CheckHeartbeatTimeouts
<1>2. CASE \E i \in Instance : TimedOut(i)
  <2>1. pending'
    BY <1>2 DEF CheckHeartbeatTimeouts, RequestsBroadcast
  <2> QED BY <1>1, <2>1 DEF PublicationInv, OnlyRacesAreLost
<1>3. CASE ~\E i \in Instance : TimedOut(i)
  <2>1. pending' = pending
    BY <1>3 DEF CheckHeartbeatTimeouts, RequestsBroadcast, TypeOK
  <2>2. \A i \in Instance : registry'[i] = IF Collected(i) THEN Absent ELSE registry[i]
    BY <1>3 DEF CheckHeartbeatTimeouts
  <2>3. \A i \in Instance : (IsActive(i) <=> IsActive(i)')
                            /\ (IsActive(i) => registry'[i] = registry[i])
    BY <2>2 DEF IsActive, Collected, Absent
  <2>4. Active' = Active
    BY <2>3 DEF Active
  <2> QED BY <1>1, <2>1, <2>4 DEF PublicationInv, OnlyRacesAreLost
<1> QED BY <1>2, <1>3

(* The other steps of the two threads: the snapshot, the payload made of   *)
(* it, and the request cleared only after a payload that is up to date or  *)
(* raced.                                                                  *)
LEMMA LoopPublication ==
  ASSUME TypeOK, PublicationInv,
         ScheduleBroadcast \/ NoCheckDue \/ ReadPending \/ TakeSnapshot
           \/ Publish \/ PublishFailed \/ ClearPending
  PROVE  PublicationInv'
<1>1. CASE ScheduleBroadcast
  BY <1>1 DEF ScheduleBroadcast, PublicationInv, OnlyRacesAreLost, Active, IsActive
<1>2. CASE NoCheckDue
  BY <1>2 DEF NoCheckDue, PublicationInv, OnlyRacesAreLost, Active, IsActive
<1>3. CASE ReadPending
  BY <1>3 DEF ReadPending, PublicationInv, OnlyRacesAreLost, Active, IsActive
<1>4. CASE TakeSnapshot
  BY <1>4 DEF TakeSnapshot, PublicationInv, OnlyRacesAreLost, Active, IsActive
<1>5. CASE Publish
  <2>1. CASE snapshot = {i \in Instance : IsActive(i)}
    <3>1. Payload = Active
      BY <2>1 DEF Payload, Active
    <3>2. published' = Active'
      BY <1>5, <3>1 DEF Publish, Active, IsActive
    <3> QED BY <1>5, <3>2 DEF Publish, PublicationInv, OnlyRacesAreLost
  <2>2. CASE scheduling \/ raced
    BY <1>5, <2>2 DEF Publish, PublicationInv, OnlyRacesAreLost
  <2> QED BY <1>5, <2>1, <2>2 DEF Publish, PublicationInv
<1>6. CASE PublishFailed
  BY <1>6 DEF PublishFailed, PendingAfterFailure, PublicationInv, OnlyRacesAreLost, Active, IsActive
<1>7. CASE ClearPending
  BY <1>7 DEF ClearPending, PublicationInv, OnlyRacesAreLost, Active, IsActive
<1> QED BY <1>1, <1>2, <1>3, <1>4, <1>5, <1>6, <1>7

(* The steps outside the two threads do not touch what is published.       *)
LEMMA NextPublication ==
  ASSUME TypeOK, PublicationInv, [Next]_vars
  PROVE  PublicationInv'
<1>1. CASE UNCHANGED <<registry, pending, scheduling, loop, snapshot, published, raced>>
  BY <1>1 DEF PublicationInv, OnlyRacesAreLost, Active, IsActive
<1>2. ASSUME NEW i \in Instance, Stage(i)
      PROVE  UNCHANGED <<registry, pending, scheduling, loop, snapshot, published, raced>>
  BY <1>2 DEF Stage, StageStart, UpdateInfo, SendHeartbeat, StageClose, StageCrash, coordinator
<1>3. ASSUME NEW h \in Hub, HubStep(h)
      PROVE  UNCHANGED <<registry, pending, scheduling, loop, snapshot, published, raced>>
  BY <1>3 DEF HubStep, Subscribe, HubReceive, HubDisconnect, FailedRecv, HubClose, coordinator
<1>4. CASE Close \/ Tick \/ UNCHANGED vars
  BY <1>1, <1>4 DEF Close, Tick, vars, coordinator
<1> QED BY <1>1, <1>2, <1>3, <1>4, HandlePublication, CheckPublication, LoopPublication
        DEF Next, Receiver, Periodic

(* Whatever the stages, the network and the hubs do, a change of the       *)
(* active instances is unpublished only while its broadcast is requested   *)
(* or when the request fell between a snapshot and the clearing of the     *)
(* flag.                                                                   *)
THEOREM PublicationOnlyLosesRaces == Spec => []OnlyRacesAreLost
<1>1. Init => PublicationInv
  BY InitPublication
<1>2. TypeOK /\ PublicationInv /\ [Next]_vars => PublicationInv'
  BY NextPublication
<1>3. PublicationInv => OnlyRacesAreLost
  BY DEF PublicationInv
<1> QED BY <1>1, <1>2, <1>3, CoordinatorTyped, PTL DEF Spec

-------------------------------------------------------------------------------
(* HubsFollow alone says nothing of a hub that still has lists to read: a  *)
(* hub that missed no publication caches the last one or has it at the end *)
(* of what it will read, and one that is not subscribed has nothing to     *)
(* read.                                                                   *)
Latest(h) == IF inbox[h] = <<>> THEN view[h] ELSE inbox[h][Len(inbox[h])]
HubInv ==
  \A h \in Hub :
    /\ hub[h] # "subscribed" => inbox[h] = <<>>
    /\ hub[h] # "closed" /\ ~missed[h] => Latest(h) = published

(* What a hub reads next leaves the last list it was sent where it was.    *)
LEMMA ReadingKeepsLast ==
  ASSUME NEW S, NEW s \in Seq(S), s # <<>>
  PROVE  IF Tail(s) = <<>> THEN Head(s) = s[Len(s)] ELSE Tail(s)[Len(Tail(s))] = s[Len(s)]
<1>1. Len(s) \in Nat /\ Len(s) >= 1 /\ Head(s) = s[1]
  BY LenProperties, EmptySeq, HeadTailProperties
<1>2. /\ Tail(s) \in Seq(S)
      /\ Len(Tail(s)) = Len(s) - 1
      /\ \A k \in 1 .. Len(s) - 1 : Tail(s)[k] = s[k + 1]
  BY HeadTailProperties
<1>3. CASE Len(s) = 1
  <2>1. Len(Tail(s)) = 0
    BY <1>1, <1>2, <1>3
  <2>2. Tail(s) = <<>>
    BY <1>2, <2>1, EmptySeq
  <2> QED BY <1>1, <1>3, <2>2
<1>4. CASE Len(s) > 1
  <2>1. Len(s) - 1 \in 1 .. Len(s) - 1
    BY <1>1, <1>4
  <2>2. Tail(s)[Len(s) - 1] = s[Len(s)]
    BY <1>1, <1>2, <2>1
  <2>3. Tail(s) # <<>>
    <3>1. Len(<<>>) = 0
      BY EmptySeq
    <3>2. Len(Tail(s)) # 0
      BY <1>1, <1>2, <1>4
    <3> QED BY <3>1, <3>2
  <2> QED BY <1>2, <2>2, <2>3
<1> QED BY <1>1, <1>3, <1>4

(* No hub has missed or read anything at first.                            *)
LEMMA InitHubs == ASSUME Init PROVE HubInv
BY DEF Init, HubInv, Latest

(* A publication ends the queue of every hub it reaches, and marks the     *)
(* others.                                                                 *)
LEMMA PublishHubs ==
  ASSUME TypeOK, HubInv, Publish
  PROVE  HubInv'
<1> SUFFICES ASSUME NEW h \in Hub
             PROVE  /\ hub'[h] # "subscribed" => inbox'[h] = <<>>
                    /\ hub'[h] # "closed" /\ ~missed'[h] => Latest(h)' = published'
  BY DEF HubInv
<1>1. /\ hub' = hub /\ published' = Payload
      /\ missed'[h] = ~(hub[h] = "subscribed" /\ Len(inbox[h]) < SndHwm)
      /\ inbox'[h] = IF hub[h] = "subscribed" /\ Len(inbox[h]) < SndHwm
                     THEN Append(inbox[h], Payload) ELSE inbox[h]
  BY DEF Publish
<1>2. CASE hub[h] = "subscribed" /\ Len(inbox[h]) < SndHwm
  <2>1. inbox'[h] = Append(inbox[h], Payload) /\ inbox[h] \in Seq(Listing)
    BY <1>1, <1>2 DEF TypeOK
  <2>2. Len(inbox[h]) \in Nat
    BY <2>1, LenProperties
  <2>3. Len(inbox'[h]) = Len(inbox[h]) + 1 /\ inbox'[h][Len(inbox[h]) + 1] = Payload
    BY <2>1, <2>2
  <2>4. inbox'[h] # <<>>
    BY <2>2, <2>3
  <2> QED BY <1>1, <1>2, <2>3, <2>4 DEF Latest
<1>3. CASE ~(hub[h] = "subscribed" /\ Len(inbox[h]) < SndHwm)
  BY <1>1, <1>3 DEF HubInv
<1> QED BY <1>2, <1>3

(* Reading, losing and making again the socket keep what a hub is owed.    *)
LEMMA HubStepHubs ==
  ASSUME TypeOK, HubInv, NEW g \in Hub, HubStep(g)
  PROVE  HubInv'
<1> SUFFICES ASSUME NEW h \in Hub
             PROVE  /\ hub'[h] # "subscribed" => inbox'[h] = <<>>
                    /\ hub'[h] # "closed" /\ ~missed'[h] => Latest(h)' = published'
  BY DEF HubInv
<1> USE DEF HubInv, coordinator
<1>1. CASE Subscribe(g)
  BY <1>1 DEF Subscribe, TypeOK, Latest
<1>2. CASE HubReceive(g)
  <2>1. CASE h = g
    <3>1. /\ inbox[h] \in Seq(Listing) /\ inbox[h] # <<>> /\ hub[h] = "subscribed"
          /\ inbox'[h] = Tail(inbox[h]) /\ view'[h] = Head(inbox[h])
          /\ UNCHANGED <<hub, missed, published>>
      BY <1>2, <2>1 DEF HubReceive, TypeOK
    <3>2. Latest(h)' = Latest(h)
      BY <3>1, ReadingKeepsLast DEF Latest
    <3> QED BY <3>1, <3>2
  <2>2. CASE h # g
    BY <1>2, <2>2 DEF HubReceive, TypeOK, Latest
  <2> QED BY <2>1, <2>2
<1>3. CASE HubDisconnect(g)
  BY <1>3 DEF HubDisconnect, FailedRecv, TypeOK, Latest
<1>4. CASE HubClose(g)
  BY <1>4 DEF HubClose, TypeOK, Latest
<1> QED BY <1>1, <1>2, <1>3, <1>4 DEF HubStep

(* The other steps neither publish nor touch a hub.                        *)
LEMMA NextHubs ==
  ASSUME TypeOK, HubInv, [Next]_vars
  PROVE  HubInv'
<1>1. CASE UNCHANGED <<published, hub, inbox, view, missed>>
  BY <1>1 DEF HubInv, Latest
<1>2. ASSUME NEW i \in Instance, Stage(i)
      PROVE  UNCHANGED <<published, hub, inbox, view, missed>>
  BY <1>2 DEF Stage, StageStart, UpdateInfo, SendHeartbeat, StageClose, StageCrash, coordinator,
              hubs
<1>3. ASSUME Receiver
      PROVE  UNCHANGED <<published, hub, inbox, view, missed>>
  BY <1>3 DEF Receiver, ScheduleBroadcast, HandleEvent, hubs
<1>4. ASSUME CheckHeartbeatTimeouts \/ NoCheckDue \/ ReadPending \/ TakeSnapshot
               \/ PublishFailed \/ ClearPending
      PROVE  UNCHANGED <<published, hub, inbox, view, missed>>
  BY <1>4 DEF CheckHeartbeatTimeouts, NoCheckDue, ReadPending, TakeSnapshot, PublishFailed,
              ClearPending, hubs
<1>5. CASE Close \/ Tick \/ UNCHANGED vars
  BY <1>1, <1>5 DEF Close, Tick, vars, coordinator, hubs
<1> QED BY <1>1, <1>2, <1>3, <1>4, <1>5, PublishHubs, HubStepHubs DEF Next, Periodic

(* Whatever the stages, the threads, the network and the hub's own socket  *)
(* do, a hub that has read all it was sent, and for which the last list    *)
(* was not dropped, knows exactly the active instances unless a broadcast  *)
(* is requested or raced.                                                  *)
THEOREM HubsFollowRegistry == Spec => []HubsFollow
<1>1. Init => HubInv
  BY InitHubs
<1>2. TypeOK /\ HubInv /\ [Next]_vars => HubInv'
  BY NextHubs
<1>3. HubInv /\ OnlyRacesAreLost => HubsFollow
  BY DEF HubInv, Latest, OnlyRacesAreLost, HubsFollow
<1> QED BY <1>1, <1>2, <1>3, CoordinatorTyped, PublicationOnlyLosesRaces, PTL DEF Spec
===============================================================================
