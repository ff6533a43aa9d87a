---------------------------- MODULE OmniCoordinator ----------------------------
(***************************************************************************)
(* The registry of stage instances: OmniCoordinator with its receive and   *)
(* periodic threads, the clients of the stages that send it events, and    *)
(* the clients of the hubs that cache what it publishes.                   *)
(*                                                                         *)
(* An event travels on the connection it was sent on; connections of one   *)
(* instance (a reconnect, a restarted process at the same address) are     *)
(* not ordered with each other.  Time is kept as the age of each entry's   *)
(* last heartbeat, saturated one above GcTtl.                              *)
(***************************************************************************)
EXTENDS Naturals, Sequences

CONSTANTS
  Instance,         \* input addresses of stage instances
  Hub,              \* hub clients
  Reported,         \* the statuses update_info reports
  MaxQueue,         \* the largest queue_length reported
  HeartbeatTimeout, \* age above which an UP entry is marked ERROR
  GcTtl,            \* age above which a DOWN or ERROR entry is deleted
  MaxConnections,   \* bound: connections an instance opens
  SndHwm,           \* bound: messages a socket buffers before it drops
  CanClose          \* whether the coordinator may be closed

Status == {"UP", "DOWN", "ERROR"}

ASSUME CoordinatorAssumption ==
  /\ Reported \subseteq Status
  /\ MaxQueue \in Nat
  /\ HeartbeatTimeout \in Nat
  /\ GcTtl \in Nat
  /\ HeartbeatTimeout =< GcTtl
  /\ MaxConnections \in Nat
  /\ SndHwm \in Nat \ {0}
  /\ CanClose \in BOOLEAN

QueueLength == 0 .. MaxQueue
Age == 0 .. GcTtl + 1
Connection == 1 .. MaxConnections
Event == [type : {"update", "heartbeat"}, status : Status, queue : QueueLength]
InstanceInfo == [status : Status \cup {"absent"}, queue : QueueLength]
Absent == [status |-> "absent", queue |-> 0]

VARIABLES
  registry,    \* _instances: status and queue length of each address
  heartbeat,   \* the age of last_heartbeat
  pending,     \* _pending_broadcast
  scheduling,  \* the receive thread is about to call _schedule_broadcast
  loop,        \* where the periodic thread is
  snapshot,    \* the UP entries get_active_instances returned to it
  published,   \* the payload of the last successful publication
  raced,       \* a broadcast was requested since the snapshot of that payload
  running,     \* _running of the coordinator
  client,      \* the stage client of each instance
  connection,  \* the connection it sends on
  wire,        \* events not yet received, per connection
  hub,         \* the subscription of the hub client
  inbox,       \* lists on their way to it
  view,        \* the list it caches
  missed       \* whether the last publication was dropped or came too early for it

coordinator == <<registry, heartbeat, pending, scheduling, loop, snapshot, published,
                 raced, running>>
stages == <<client, connection, wire>>
hubs == <<hub, inbox, view, missed>>
vars == <<coordinator, stages, hubs>>

Client == [phase : {"off", "running", "closed", "crashed"}, status : Status, queue : QueueLength]
Listing == [Instance -> InstanceInfo]
NoListing == [i \in Instance |-> Absent]

Known(i) == registry[i].status # "absent"
IsActive(i) == registry[i].status = "UP"
Active == [i \in Instance |-> IF IsActive(i) THEN registry[i] ELSE Absent]

Init ==
  /\ registry = NoListing
  /\ heartbeat = [i \in Instance |-> 0]
  /\ pending = FALSE
  /\ scheduling = FALSE
  /\ loop = "top"
  /\ snapshot = {}
  /\ published = NoListing
  /\ raced = FALSE
  /\ running = TRUE
  /\ client = [i \in Instance |-> [phase |-> "off", status |-> "DOWN", queue |-> 0]]
  /\ connection = [i \in Instance |-> 0]
  /\ wire = [i \in Instance |-> [c \in Connection |-> <<>>]]
  /\ hub = [h \in Hub |-> "off"]
  /\ inbox = [h \in Hub |-> <<>>]
  /\ view = [h \in Hub |-> NoListing]
  /\ missed = [h \in Hub |-> FALSE]

-------------------------------------------------------------------------------
(* Stage clients.                                                          *)

(* Some prefix of what a socket buffered got out before it was closed with *)
(* linger 0, or its process died.                                          *)
Prefixes(s) == {SubSeq(s, 1, n) : n \in 0 .. Len(s)}

(* _send_event: queued; dropped when the buffer is full or the reconnect   *)
(* failed; or queued on a new connection, after the old one is closed with *)
(* what it buffered.                                                       *)
Queued(i, c, e) ==
  /\ Len(wire[i][c]) < SndHwm
  /\ wire' = [wire EXCEPT ![i][c] = Append(@, e)]
  /\ UNCHANGED connection

Dropped(i, c) ==
  /\ Len(wire[i][c]) >= SndHwm
  /\ UNCHANGED <<wire, connection>>

Reconnected(i, c, e) ==
  /\ c + 1 \in Connection
  /\ connection' = [connection EXCEPT ![i] = c + 1]
  /\ \E kept \in Prefixes(wire[i][c]) :
       wire' = [wire EXCEPT ![i][c] = kept, ![i][c + 1] = <<e>>]

EventOf(type, cl) == [type |-> type, status |-> cl.status, queue |-> cl.queue]
SendEvent(i, type, cl) ==
  LET e == EventOf(type, cl) IN
  \/ Queued(i, connection[i], e)
  \/ Dropped(i, connection[i])
  \/ Reconnected(i, connection[i], e)

(* A process starts at address i: a new socket, and a first update.        *)
StageStart(i) ==
  /\ client[i].phase # "running"
  /\ connection[i] + 1 \in Connection
  /\ LET new == [phase |-> "running", status |-> "UP", queue |-> 0] IN
       /\ client' = [client EXCEPT ![i] = new]
       /\ connection' = [connection EXCEPT ![i] = @ + 1]
       /\ wire' = [wire EXCEPT ![i][connection[i] + 1] = <<EventOf("update", new)>>]
  /\ UNCHANGED <<coordinator, hubs>>

UpdateInfo(i, s, q) ==
  /\ client[i].phase = "running"
  /\ client' = [client EXCEPT ![i].status = s, ![i].queue = q]
  /\ SendEvent(i, "update", client'[i])
  /\ UNCHANGED <<coordinator, hubs>>

SendHeartbeat(i) ==
  /\ client[i].phase = "running"
  /\ SendEvent(i, "heartbeat", client[i])
  /\ UNCHANGED <<client, coordinator, hubs>>

(* The final DOWN update is queued as any other, then the socket is closed *)
(* with linger 0: it may be among what is discarded.                       *)
StageClose(i) ==
  /\ client[i].phase = "running"
  /\ client' = [client EXCEPT ![i].phase = "closed", ![i].status = "DOWN"]
  /\ LET c == connection[i]
         buffered == IF Len(wire[i][c]) < SndHwm
                     THEN Append(wire[i][c], EventOf("update", client'[i])) ELSE wire[i][c]
     IN \E sent \in Prefixes(buffered) : wire' = [wire EXCEPT ![i][c] = sent]
  /\ UNCHANGED <<connection, coordinator, hubs>>

StageCrash(i) ==
  /\ client[i].phase = "running"
  /\ client' = [client EXCEPT ![i].phase = "crashed"]
  /\ \E sent \in Prefixes(wire[i][connection[i]]) : wire' = [wire EXCEPT ![i][connection[i]] = sent]
  /\ UNCHANGED <<connection, coordinator, hubs>>

-------------------------------------------------------------------------------
(* The receive thread.                                                     *)

(* What an event makes of the entry: a heartbeat only promotes, an update  *)
(* of an unknown address adds it, DOWN removes it from the active ones and *)
(* keeps it.                                                               *)
EntryGiven(e, info, promoted) ==
  CASE e.type = "heartbeat" ->
         IF info.status \in promoted THEN [info EXCEPT !.status = "UP"] ELSE info
    [] e.type = "update" /\ info.status # "absent" /\ e.status = "DOWN" ->
         [info EXCEPT !.status = "DOWN"]
    [] OTHER -> [status |-> e.status, queue |-> e.queue]

(* Mutant of EntryAfter: a heartbeat never promotes.                       *)
EntryAfterNoPromotion(e, info) == EntryGiven(e, info, {})
(* Mutant of EntryAfter: a heartbeat promotes DOWN entries too.            *)
EntryAfterAnyPromotion(e, info) == EntryGiven(e, info, {"ERROR", "DOWN"})
(* Only an ERROR entry is promoted.                                        *)
EntryAfter(e, info) == EntryGiven(e, info, {"ERROR"})

(* A heartbeat refreshes last_heartbeat, and so does being added; an       *)
(* update of a known entry does not.                                       *)
Refreshes(e, info) == IF e.type = "heartbeat" THEN info.status # "absent"
                      ELSE info.status = "absent"

(* Mutant of AsksBroadcast: promotion is not broadcast.                    *)
AsksBroadcastUpdates(e, info) == e.type = "update"
(* Every update asks for a broadcast, a heartbeat only when it promotes.   *)
AsksBroadcast(e, info) == e.type = "update" \/ info.status = "ERROR"

(* _handle_event under _lock.                                              *)
HandleEvent(i, c) ==
  /\ running
  /\ ~scheduling
  /\ wire[i][c] # <<>>
  /\ LET e == Head(wire[i][c]) IN
       /\ registry' = [registry EXCEPT ![i] = EntryAfter(e, registry[i])]
       /\ heartbeat' = [heartbeat EXCEPT ![i] = IF Refreshes(e, registry[i]) THEN 0 ELSE @]
       /\ scheduling' = AsksBroadcast(e, registry[i])
  /\ wire' = [wire EXCEPT ![i][c] = Tail(@)]
  /\ UNCHANGED <<pending, loop, snapshot, published, raced, running, client, connection, hubs>>

(* _schedule_broadcast, once _lock is released.                            *)
ScheduleBroadcast ==
  /\ scheduling
  /\ scheduling' = FALSE
  /\ pending' = TRUE
  /\ raced' = (raced \/ loop \in {"send", "sent"})
  /\ UNCHANGED <<registry, heartbeat, loop, snapshot, published, running, stages, hubs>>

-------------------------------------------------------------------------------
(* The periodic thread.                                                    *)

TimedOut(i) == IsActive(i) /\ heartbeat[i] > HeartbeatTimeout
Collected(i) == registry[i].status \in {"DOWN", "ERROR"} /\ heartbeat[i] > GcTtl

(* Mutant of RequestsBroadcast: the request is forgotten.                  *)
RequestsNoBroadcast(timedOut) == FALSE
(* _check_heartbeat_timeouts.  Its broadcast request is made by the thread *)
(* that publishes, so that it cannot race a publication.                   *)
RequestsBroadcast(timedOut) == timedOut # {}

CheckHeartbeatTimeouts ==
  /\ running
  /\ loop = "top"
  /\ registry' = [i \in Instance |->
       IF TimedOut(i) THEN [registry[i] EXCEPT !.status = "ERROR"]
       ELSE IF Collected(i) THEN Absent ELSE registry[i]]
  /\ pending' = (pending \/ RequestsBroadcast({i \in Instance : TimedOut(i)}))
  /\ loop' = "read"
  /\ UNCHANGED <<heartbeat, scheduling, snapshot, published, raced, running, stages, hubs>>

(* An iteration between two checks.                                        *)
NoCheckDue ==
  /\ running
  /\ loop = "top"
  /\ loop' = "read"
  /\ UNCHANGED <<registry, heartbeat, pending, scheduling, snapshot, published, raced,
                 running, stages, hubs>>

ReadPending ==
  /\ loop = "read"
  /\ loop' = IF pending THEN "snap" ELSE "top"
  /\ UNCHANGED <<registry, heartbeat, pending, scheduling, snapshot, published, raced,
                 running, stages, hubs>>

(* get_active_instances: the list holds references to the entries.         *)
TakeSnapshot ==
  /\ loop = "snap"
  /\ snapshot' = {i \in Instance : IsActive(i)}
  /\ raced' = FALSE
  /\ loop' = "send"
  /\ UNCHANGED <<registry, heartbeat, pending, scheduling, published, running, stages, hubs>>

(* asdict reads the entries now, outside the lock.                         *)
Payload == [i \in Instance |-> IF i \in snapshot THEN registry[i] ELSE Absent]

Publish ==
  /\ loop = "send"
  /\ published' = Payload
  /\ loop' = "sent"
  /\ inbox' = [h \in Hub |-> IF hub[h] = "subscribed" /\ Len(inbox[h]) < SndHwm
                             THEN Append(inbox[h], Payload) ELSE inbox[h]]
  /\ missed' = [h \in Hub |-> ~(hub[h] = "subscribed" /\ Len(inbox[h]) < SndHwm)]
  /\ UNCHANGED <<registry, heartbeat, pending, scheduling, snapshot, raced, running,
                 stages, hub, view>>

(* The send failed: the request stays for the next iteration.              *)
PendingAfterFailure == pending

PublishFailed ==
  /\ loop = "send"
  /\ pending' = PendingAfterFailure
  /\ loop' = "top"
  /\ UNCHANGED <<registry, heartbeat, scheduling, snapshot, published, raced, running,
                 stages, hubs>>

ClearPending ==
  /\ loop = "sent"
  /\ pending' = FALSE
  /\ loop' = "top"
  /\ UNCHANGED <<registry, heartbeat, scheduling, snapshot, published, raced, running,
                 stages, hubs>>

(* close(): both loops end at their next test of _running.                 *)
Close ==
  /\ CanClose
  /\ running
  /\ running' = FALSE
  /\ UNCHANGED <<registry, heartbeat, pending, scheduling, loop, snapshot, published,
                 raced, stages, hubs>>

(* The age now - last_heartbeat, past GcTtl all the same.                  *)
Older(a) == IF a > GcTtl THEN a ELSE a + 1

Tick ==
  /\ heartbeat' = [i \in Instance |-> Older(heartbeat[i])]
  /\ UNCHANGED <<registry, pending, scheduling, loop, snapshot, published, raced, running,
                 stages, hubs>>

-------------------------------------------------------------------------------
(* Hub clients.                                                            *)

(* The SUB socket is created and connected, at first or after a failure.   *)
Subscribe(h) ==
  /\ hub[h] \in {"off", "reconnecting"}
  /\ hub' = [hub EXCEPT ![h] = "subscribed"]
  /\ UNCHANGED <<inbox, view, missed, coordinator, stages>>

HubReceive(h) ==
  /\ hub[h] = "subscribed"
  /\ inbox[h] # <<>>
  /\ view' = [view EXCEPT ![h] = Head(inbox[h])]
  /\ inbox' = [inbox EXCEPT ![h] = Tail(@)]
  /\ UNCHANGED <<hub, missed, coordinator, stages>>

(* recv failed: the socket is closed with the lists it had buffered, and   *)
(* no other takes its place for a second.  The cached list stays.          *)
FailedRecv(h) ==
  /\ hub[h] = "subscribed"
  /\ hub' = [hub EXCEPT ![h] = "reconnecting"]
  /\ inbox' = [inbox EXCEPT ![h] = <<>>]
  /\ missed' = [missed EXCEPT ![h] = @ \/ inbox[h] # <<>>]
  /\ UNCHANGED <<coordinator, stages>>

(* Mutant of HubDisconnect: forgets the cached list with the socket.       *)
HubDisconnectForgets(h) == FailedRecv(h) /\ view' = [view EXCEPT ![h] = NoListing]
HubDisconnect(h) == FailedRecv(h) /\ UNCHANGED view

HubClose(h) ==
  /\ hub[h] \in {"subscribed", "reconnecting"}
  /\ hub' = [hub EXCEPT ![h] = "closed"]
  /\ inbox' = [inbox EXCEPT ![h] = <<>>]
  /\ UNCHANGED <<view, missed, coordinator, stages>>

-------------------------------------------------------------------------------
Stage(i) ==
  \/ StageStart(i) \/ SendHeartbeat(i) \/ StageClose(i) \/ StageCrash(i)
  \/ \E s \in Reported, q \in QueueLength : UpdateInfo(i, s, q)

Receiver == ScheduleBroadcast \/ \E i \in Instance, c \in Connection : HandleEvent(i, c)

Periodic ==
  \/ CheckHeartbeatTimeouts \/ NoCheckDue \/ ReadPending
  \/ TakeSnapshot \/ Publish \/ PublishFailed \/ ClearPending

HubStep(h) == Subscribe(h) \/ HubReceive(h) \/ HubDisconnect(h) \/ HubClose(h)

Next ==
  \/ \E i \in Instance : Stage(i)
  \/ Receiver
  \/ Periodic
  \/ Close
  \/ Tick
  \/ \E h \in Hub : HubStep(h)

Spec == Init /\ [][Next]_vars

(* Threads run; a connection's events are eventually received; checks fall *)
(* due for ever, and a send does not fail for ever.  Clients promise       *)
(* nothing but their heartbeats.                                           *)
Fairness ==
  /\ WF_vars(ScheduleBroadcast)
  /\ \A i \in Instance, c \in Connection : SF_vars(HandleEvent(i, c))
  /\ WF_vars(CheckHeartbeatTimeouts \/ NoCheckDue \/ ReadPending \/ TakeSnapshot \/ ClearPending)
  /\ SF_vars(CheckHeartbeatTimeouts)
  /\ SF_vars(Publish)
  /\ WF_vars(Tick)
  /\ \A i \in Instance : SF_vars(SendHeartbeat(i))
  /\ \A h \in Hub : WF_vars(HubReceive(h))

FairSpec == Spec /\ Fairness

-------------------------------------------------------------------------------
TypeOK ==
  /\ registry \in Listing
  /\ heartbeat \in [Instance -> Age]
  /\ pending \in BOOLEAN
  /\ scheduling \in BOOLEAN
  /\ loop \in {"top", "read", "snap", "send", "sent"}
  /\ snapshot \in SUBSET Instance
  /\ published \in Listing
  /\ raced \in BOOLEAN
  /\ running \in BOOLEAN
  /\ client \in [Instance -> Client]
  /\ connection \in [Instance -> 0 .. MaxConnections]
  /\ wire \in [Instance -> [Connection -> Seq(Event)]]
  /\ hub \in [Hub -> {"off", "subscribed", "reconnecting", "closed"}]
  /\ inbox \in [Hub -> Seq(Listing)]
  /\ view \in [Hub -> Listing]
  /\ missed \in [Hub -> BOOLEAN]

(* The published list differs from the active instances only while a       *)
(* broadcast is requested, or when one was requested between the snapshot  *)
(* of the last publication and the clearing of _pending_broadcast: that    *)
(* race is the only way _periodic_loop loses a change.                     *)
OnlyRacesAreLost == published # Active => pending \/ scheduling \/ raced

(* A hub that has read everything sent to it, however often its socket     *)
(* failed and was made again, routes on exactly the active instances: but  *)
(* while a broadcast is requested, after the race above, or when the last  *)
(* list was dropped for it or sent while it had no socket, which no one    *)
(* sends again.                                                            *)
HubsFollow ==
  \A h \in Hub :
    hub[h] = "subscribed" /\ inbox[h] = <<>> /\ view[h] # Active
      => missed[h] \/ pending \/ scheduling \/ raced

(* A client whose entry was marked ERROR, and whose heartbeats keep being  *)
(* sent, is active again: _handle_event promotes it.                       *)
Recovers ==
  \A i \in Instance :
    (registry[i].status = "ERROR" /\ client[i].phase = "running" /\ running)
      ~> (registry[i].status # "ERROR" \/ client[i].phase # "running" \/ ~running)

(* An instance that is closed or crashed, whether or not its last DOWN     *)
(* update was lost, disappears from the list of every hub, through the     *)
(* heartbeat timeout if need be: unless the address is used again, or the  *)
(* race of OnlyRacesAreLost or a dropped list keeps it there.              *)
Gone(i, h) == hub[h] = "subscribed" => view[h][i].status # "UP" \/ missed[h]
DeadLeaveHubs ==
  \A i \in Instance :
    client[i].phase \in {"closed", "crashed"}
      ~> \/ client[i].phase = "running" \/ ~running \/ raced
         \/ \A h \in Hub : Gone(i, h)

(* An instance that never reconnected and whose last word is DOWN, because *)
(* it drains or has closed, does not come back into the active list while  *)
(* it goes on sending heartbeats: they do not promote DOWN entries, and no *)
(* earlier event overtakes the DOWN.  Read with Reported = {"DOWN"}.       *)
DownSticks ==
  [][\A i \in Instance :
       client[i].status = "DOWN" /\ registry[i].status = "DOWN" /\ connection[i] = 1
         => registry'[i].status \in {"DOWN", "absent"}]_vars
===============================================================================
