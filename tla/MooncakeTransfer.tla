---------------------------- MODULE MooncakeTransfer --------------------------
(***************************************************************************)
(* The Mooncake connector between a sender and a receiver.  put() leaves   *)
(* data in the sender's pool; get() asks for its size, allocates room in   *)
(* the receiver's pool and has a worker of the sender write it there.      *)
(* Both pools hand out ranges from a list of free ones.                    *)
(***************************************************************************)
EXTENDS Integers, Sequences, FiniteSets, SequencesExt

CONSTANTS
  Key, Get,
  PoolSize,    \* memory_pool_size, in units of the alignment
  Sizes,       \* sizes of payloads
  MaxPuts      \* bound on the calls of put()

VARIABLES
  made,        \* what put() was called with: the n-th payload consists of n
  buffers,     \* _local_buffers, with the payload for the record
  source,      \* source[a]: unit a of the sender's pool
  source_free, \* free_blocks of its allocator
  sink,        \* the receiver's pool
  sink_free,
  phase,       \* phase[g]: how far the call g of get() is
  wanted,      \* its key
  room,        \* its recv_buffer
  inbox,       \* requests the listener has not handed to a worker
  job,         \* job[g]: the item a worker is writing to the receiver
  answer,      \* answer[g]: what the socket of g has received
  crossed      \* a call gave up with its write to come, or its item was released under
               \* a worker or replaced before it

rdmaVars ==
  <<made, buffers, source, source_free, sink, sink_free, phase, wanted, room, inbox, job, answer,
    crossed>>

None == [off |-> -1, size |-> 0]
Units(x) == x.off .. x.off + x.size - 1

--------------------------------------------------------------------------------
(* BufferAllocator: the first free range that is large enough, cut off at  *)
(* its start; a range that comes back is merged with its neighbours.       *)
Fitting(free, size) == {k \in DOMAIN free : free[k].size >= size}
FirstFit(free, size) == CHOOSE k \in Fitting(free, size) : \A j \in Fitting(free, size) : k <= j

Allocated(free, size) ==
  LET k == FirstFit(free, size)
      rest == [off |-> free[k].off + size, size |-> free[k].size - size]
  IN IF rest.size > 0 THEN [free EXCEPT ![k] = rest] ELSE RemoveAt(free, k)

Merged(free) ==
  FoldLeft(LAMBDA s, x :
             IF s # <<>> /\ Last(s).off + Last(s).size = x.off
             THEN [s EXCEPT ![Len(s)].size = @ + x.size] ELSE Append(s, x),
           <<>>, free)

(* A range that meets a free one is not put back: within it, the call is   *)
(* taken for a second one and ignored; across its end it raises, which the *)
(* callers below do not expect, and which PoolsSplit rules out: a range in *)
(* use meets no free one.                                                  *)
Freed(free, x) ==
  LET block == [off |-> x.off, size |-> x.size]
  IN IF \E k \in DOMAIN free : Units(block) \cap Units(free[k]) # {}
     THEN free
     ELSE Merged(SortSeq(Append(free, block), LAMBDA a, b : a.off < b.off))

--------------------------------------------------------------------------------
RdmaInit ==
  /\ made = <<>>
  /\ buffers = [k \in Key |-> None]
  /\ source = [a \in 0 .. PoolSize - 1 |-> 0]
  /\ source_free = <<[off |-> 0, size |-> PoolSize]>>
  /\ sink = [a \in 0 .. PoolSize - 1 |-> 0]
  /\ sink_free = <<[off |-> 0, size |-> PoolSize]>>
  /\ phase = [g \in Get |-> "idle"]
  /\ wanted = [g \in Get |-> CHOOSE k \in Key : TRUE]
  /\ room = [g \in Get |-> None]
  /\ inbox = {}
  /\ job = [g \in Get |-> None]
  /\ answer = [g \in Get |-> "none"]
  /\ crossed = FALSE

(* Workers that are writing what key k had; calls that know only its size. *)
Writing(k) == {g \in Get : wanted[g] = k /\ job[g] # None}
Asked(k) ==
  {g \in Get : /\ wanted[g] = k
               /\ phase[g] = "pulling" \/ (phase[g] = "querying" /\ answer[g] = "info")}

(* put: the copy is stored before the range of an older one is released.   *)
Put(k) ==
  /\ Len(made) < MaxPuts
  /\ \E size \in Sizes :
       LET n == Len(made) + 1
           item == [off |-> source_free[FirstFit(source_free, size)].off, size |-> size]
           free == Allocated(source_free, size)
       IN \/ /\ Fitting(source_free, size) # {}
             /\ made' = Append(made, [key |-> k, size |-> size])
             /\ source' = [a \in DOMAIN source |-> IF a \in Units(item) THEN n ELSE source[a]]
             /\ source_free' = IF buffers[k] = None THEN free ELSE Freed(free, buffers[k])
             /\ buffers' = [buffers EXCEPT ![k] = item]
             /\ crossed' = (crossed \/ Writing(k) \union Asked(k) # {})
          \/ /\ Fitting(source_free, size) = {}
             /\ made' = Append(made, [key |-> k, size |-> 0])
             /\ UNCHANGED <<source, source_free, buffers, crossed>>
  /\ UNCHANGED <<sink, sink_free, phase, wanted, room, inbox, job, answer>>

(* get without metadata asks for the size first.                           *)
Query(g, k) ==
  /\ phase[g] = "idle"
  /\ phase' = [phase EXCEPT ![g] = "querying"]
  /\ wanted' = [wanted EXCEPT ![g] = k]
  /\ inbox' = inbox \union {<<g, "query">>}
  /\ UNCHANGED <<made, buffers, source, source_free, sink, sink_free, room, job, answer, crossed>>

(* A worker answers a query.                                               *)
HandleQuery(g) ==
  /\ <<g, "query">> \in inbox
  /\ inbox' = inbox \ {<<g, "query">>}
  /\ IF phase[g] = "querying"
     THEN /\ answer' = [answer EXCEPT ![g] =
                          IF buffers[wanted[g]] = None THEN "not_found" ELSE "info"]
          /\ room' = [room EXCEPT ![g].size = buffers[wanted[g]].size]
     ELSE UNCHANGED <<answer, room>>
  /\ UNCHANGED <<made, buffers, source, source_free, sink, sink_free, phase, wanted, job, crossed>>

NotFound(g) ==
  /\ phase[g] = "querying" /\ answer[g] = "not_found"
  /\ phase' = [phase EXCEPT ![g] = "failed"]
  /\ UNCHANGED <<made, buffers, source, source_free, sink, sink_free, wanted, room, inbox, job,
                 answer, crossed>>

(* The size is known: room for it, and the request to write it there.      *)
Pull(g) ==
  /\ phase[g] = "querying" /\ answer[g] = "info"
  /\ answer' = [answer EXCEPT ![g] = "none"]
  /\ \/ /\ Fitting(sink_free, room[g].size) # {}
        /\ room' = [room EXCEPT ![g].off = sink_free[FirstFit(sink_free, room[g].size)].off]
        /\ sink_free' = Allocated(sink_free, room[g].size)
        /\ phase' = [phase EXCEPT ![g] = "pulling"]
        /\ inbox' = inbox \union {<<g, "pull">>}
     \/ /\ Fitting(sink_free, room[g].size) = {}
        /\ phase' = [phase EXCEPT ![g] = "failed"]
        /\ UNCHANGED <<room, sink_free, inbox>>
  /\ UNCHANGED <<made, buffers, source, source_free, sink, wanted, job, crossed>>

(* cleanup() of a key.                                                     *)
Cleaned(k) == [buffers EXCEPT ![k] = None]
Released(k) == IF buffers[k] = None THEN source_free ELSE Freed(source_free, buffers[k])

(* Mutant of StartWrite: the item is popped when a worker takes it.         *)
StartWritePopping(g) ==
  /\ <<g, "pull">> \in inbox
  /\ inbox' = inbox \ {<<g, "pull">>}
  /\ job' = [job EXCEPT ![g] = buffers[wanted[g]]]
  /\ answer' = IF buffers[wanted[g]] = None /\ phase[g] = "pulling"
               THEN [answer EXCEPT ![g] = "error"] ELSE answer
  /\ buffers' = Cleaned(wanted[g])
  /\ source_free' = Released(wanted[g])
  /\ UNCHANGED <<made, source, sink, sink_free, phase, wanted, room, crossed>>

(* A worker looks the item up under the lock, and writes it without.       *)
StartWrite(g) ==
  /\ <<g, "pull">> \in inbox
  /\ inbox' = inbox \ {<<g, "pull">>}
  /\ job' = [job EXCEPT ![g] = buffers[wanted[g]]]
  /\ answer' = IF buffers[wanted[g]] = None /\ phase[g] = "pulling"
               THEN [answer EXCEPT ![g] = "error"] ELSE answer
  /\ UNCHANGED <<made, buffers, source, source_free, sink, sink_free, phase, wanted, room, crossed>>

(* As much is written as the item has.                                     *)
Landed(g) ==
  [a \in DOMAIN sink |->
     IF a \in room[g].off .. room[g].off + job[g].size - 1
     THEN source[job[g].off + a - room[g].off] ELSE sink[a]]

EndWrite(g) ==
  /\ job[g] # None
  /\ job' = [job EXCEPT ![g] = None]
  /\ \/ /\ sink' = Landed(g)
        /\ buffers' = Cleaned(wanted[g])
        /\ source_free' = Released(wanted[g])
        /\ crossed' = (crossed \/ Writing(wanted[g]) # {g})
        /\ answer' = IF phase[g] = "pulling" THEN [answer EXCEPT ![g] = "done"] ELSE answer
     \/ /\ sink' \in {sink, Landed(g)}
        /\ answer' = IF phase[g] = "pulling" THEN [answer EXCEPT ![g] = "error"] ELSE answer
        /\ UNCHANGED <<buffers, source_free, crossed>>
  /\ UNCHANGED <<made, source, phase, wanted, room, inbox, sink_free>>

Answered(g) ==
  /\ phase[g] = "pulling" /\ answer[g] \in {"done", "error"}
  /\ \/ /\ answer[g] = "done"
        /\ phase' = [phase EXCEPT ![g] = "held"]
        /\ UNCHANGED <<room, sink_free>>
     \/ /\ answer[g] = "error"
        /\ phase' = [phase EXCEPT ![g] = "failed"]
        /\ sink_free' = Freed(sink_free, room[g])
        /\ UNCHANGED room
  /\ UNCHANGED <<made, buffers, source, source_free, sink, wanted, inbox, job, answer, crossed>>

(* recv() times out: the socket is discarded, and with it what still comes *)
(* in; the room for the data is free again.                                *)
TimeOut(g) ==
  /\ phase[g] \in {"querying", "pulling"} /\ answer[g] = "none"
  /\ phase' = [phase EXCEPT ![g] = "failed"]
  /\ \/ /\ phase[g] = "pulling"
        /\ sink_free' = Freed(sink_free, room[g])
        /\ crossed' = TRUE
     \/ /\ phase[g] = "querying"
        /\ UNCHANGED <<sink_free, crossed>>
  /\ UNCHANGED <<made, buffers, source, source_free, sink, wanted, room, inbox, job, answer>>

(* The caller is done with the buffer it got.                              *)
Release(g) ==
  /\ phase[g] = "held"
  /\ phase' = [phase EXCEPT ![g] = "released"]
  /\ sink_free' = Freed(sink_free, room[g])
  /\ UNCHANGED <<made, buffers, source, source_free, sink, wanted, room, inbox, job, answer,
                 crossed>>

(* The listener drops a buffer that is older than _BUFFER_TTL_SECONDS.     *)
Expire(k) ==
  /\ buffers[k] # None
  /\ buffers' = Cleaned(k)
  /\ source_free' = Released(k)
  /\ crossed' = (crossed \/ Writing(k) # {})
  /\ UNCHANGED <<made, source, sink, sink_free, phase, wanted, room, inbox, job, answer>>

RdmaNext ==
  \/ \E k \in Key : Put(k) \/ Expire(k) \/ \E g \in Get : Query(g, k)
  \/ \E g \in Get :
       \/ HandleQuery(g) \/ NotFound(g) \/ Pull(g) \/ StartWrite(g) \/ EndWrite(g)
       \/ Answered(g) \/ TimeOut(g) \/ Release(g)

RdmaSpec == RdmaInit /\ [][RdmaNext]_rdmaVars

--------------------------------------------------------------------------------
(* A pool is split between its free ranges and those in use: no unit is    *)
(* handed out twice or lost, and no two free ranges touch                  *)
(* (mooncake_transfer_engine_connector.py:82, :105).                       *)
Split(free, used) ==
  /\ \A i, j \in DOMAIN free : i < j => free[i].off + free[i].size < free[j].off
  /\ \A x, y \in used : x # y => Units(x) \cap Units(y) = {}
  /\ (UNION {Units(free[i]) : i \in DOMAIN free}) \cap (UNION {Units(x) : x \in used}) = {}
  /\ (UNION {Units(free[i]) : i \in DOMAIN free}) \union (UNION {Units(x) : x \in used})
       = 0 .. PoolSize - 1

PoolsSplit ==
  /\ Split(source_free, {buffers[k] : k \in Key} \ {None})
  /\ Split(sink_free, {room[g] : g \in {h \in Get : phase[h] \in {"pulling", "held"}}})

(* What get() returned is what put() was called with for its key, whole,   *)
(* and stays so until it is released; unless a call gave up while its data *)
(* was being written, or the item was released or replaced under a worker: *)
(* the pool may then have given the memory to others (:941, :1072, :1203).        *)
RightData ==
  ~crossed =>
    \A g \in Get :
      phase[g] = "held" =>
        \E n \in DOMAIN made :
          /\ made[n].key = wanted[g] /\ made[n].size = room[g].size
          /\ \A a \in Units(room[g]) : sink[a] = n
(* Both.                                                                   *)
RdmaSound == PoolsSplit /\ RightData
===============================================================================
