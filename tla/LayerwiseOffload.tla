---------------------------- MODULE LayerwiseOffload ----------------------------
(***************************************************************************)
(* The blocks of a transformer whose weights stay in host memory: while a  *)
(* block computes, its hook copies the weights of the next one to the      *)
(* device, the first after the last.  The host issues kernels on one       *)
(* stream and copies on another; each stream executes in order, at its own *)
(* pace.  Memory the host frees is given to the next copy at once, though  *)
(* kernels that read it may still be due.                                  *)
(*                                                                         *)
(* A caching system may skip blocks, and a block may raise.                *)
(***************************************************************************)
EXTENDS Naturals, Sequences, FiniteSets, SequencesExt

CONSTANTS
  Blocks,   \* how many blocks there are
  Slots,    \* bound: pieces of device memory for the weights of a block
  MaxQueue  \* bound: operations of a stream the host is ahead

VARIABLES
  at,      \* the block the host runs next or now
  host,    \* where the host is in it
  storage, \* the memory of each block's parameters, or 0: a placeholder
  content, \* the block whose weights each piece of memory holds, or 0
  compute, \* the current stream: kernels, and waits for the copies due then
  copies,  \* copy_stream: copies, and how many operations of compute each waits for
  skipped, \* blocks that were skipped since they last ran
  raised   \* whether a block raised

offload_vars == <<at, host, storage, content, compute, copies, skipped, raised>>

Block == 1 .. Blocks
Following(b) == IF b = Blocks THEN 1 ELSE b + 1

(* enable: the first block's weights are copied and waited for.            *)
OffloadInit ==
  /\ at = 1
  /\ host = "between"
  /\ storage = [b \in Block |-> IF b = 1 THEN 1 ELSE 0]
  /\ content = [s \in 1 .. Slots |-> IF s = 1 THEN 1 ELSE 0]
  /\ compute = <<>>
  /\ copies = <<>>
  /\ skipped = {}
  /\ raised = FALSE

Kernel(b, s) == [op |-> "kernel", block |-> b, slot |-> s, due |-> 0]
WaitCopies == [op |-> "wait", block |-> 0, slot |-> 0, due |-> Len(copies)]

(* prefetch_layer of the hook before block b: new memory, a copy after all *)
(* that is due on the current stream, and parameters that point there.     *)
(* Mutant of AfterCompute: the copy does not wait for the current stream.  *)
AfterNothing == 0
AfterCompute == Len(compute)
Prefetch(b) ==
  \E s \in 1 .. Slots :
    /\ \A c \in Block : storage[c] # s
    /\ copies' = Append(copies, [block |-> b, slot |-> s, due |-> AfterCompute])
    /\ storage' = [storage EXCEPT ![b] = s]

-------------------------------------------------------------------------------
(* The host.                                                               *)

Skip ==
  /\ host = "between"
  /\ at' = Following(at)
  /\ skipped' = skipped \cup {at}
  /\ UNCHANGED <<host, storage, content, compute, copies, raised>>

(* pre_forward: if the hook before was skipped, the weights are copied and *)
(* waited for.                                                             *)
Enter ==
  /\ host = "between"
  /\ Len(compute) < MaxQueue /\ Len(copies) < MaxQueue
  /\ IF storage[at] = 0
       THEN Prefetch(at) /\ host' = "waiting"
       ELSE host' = "entered" /\ UNCHANGED <<storage, copies>>
  /\ UNCHANGED <<at, content, compute, skipped, raised>>

Synchronize ==
  /\ host = "waiting" /\ copies = <<>>
  /\ host' = "entered"
  /\ UNCHANGED <<at, storage, content, compute, copies, skipped, raised>>

(* The next block's weights are on their way when the kernels are issued.  *)
Run ==
  /\ host = "entered"
  /\ Prefetch(Following(at))
  /\ compute' = Append(compute, Kernel(at, storage[at]))
  /\ host' = "ran"
  /\ skipped' = skipped \ {at}
  /\ UNCHANGED <<at, content, raised>>

(* post_forward: the current stream waits for that copy, and the block's   *)
(* memory is freed.                                                        *)
Offload ==
  /\ host = "ran"
  /\ compute' = Append(compute, WaitCopies)
  /\ storage' = [storage EXCEPT ![at] = 0]
  /\ at' = Following(at)
  /\ host' = "between"
  /\ UNCHANGED <<content, copies, skipped, raised>>

(* No post_forward; the next request begins with the first block.          *)
Raise ==
  /\ host = "ran"
  /\ at' = 1
  /\ host' = "between"
  /\ raised' = TRUE
  /\ UNCHANGED <<storage, content, compute, copies, skipped>>

-------------------------------------------------------------------------------
(* The device.                                                             *)

Less(n) == IF n = 0 THEN 0 ELSE n - 1

Compute ==
  /\ compute # <<>> /\ Head(compute).due = 0
  /\ compute' = Tail(compute)
  /\ copies' = [k \in DOMAIN copies |-> [copies[k] EXCEPT !.due = Less(@)]]
  /\ UNCHANGED <<at, host, storage, content, skipped, raised>>

Copy ==
  /\ copies # <<>> /\ Head(copies).due = 0
  /\ content' = [content EXCEPT ![Head(copies).slot] = Head(copies).block]
  /\ copies' = Tail(copies)
  /\ compute' = [k \in DOMAIN compute |-> [compute[k] EXCEPT !.due = Less(@)]]
  /\ UNCHANGED <<at, host, storage, skipped, raised>>

OffloadNext ==
  Skip \/ Enter \/ Synchronize \/ Run \/ Offload \/ Raise \/ Compute \/ Copy

-------------------------------------------------------------------------------
(* A kernel that is due reads its own block's weights: they have come, and *)
(* no later copy was given their memory                                    *)
(* (offloader/layerwise_backend.py:185, :225).                             *)
KernelsReadTheirWeights ==
  compute # <<>> /\ Head(compute).op = "kernel"
    => content[Head(compute).slot] = Head(compute).block

(* "Only a small number of transformer blocks reside on GPU at a time":    *)
(* the one at hand, the next one, and those that were skipped after they   *)
(* had been copied (offloader/layerwise_backend.py:269).                   *)
FewReside == {b \in Block : storage[b] # 0} \subseteq {at, Following(at)} \cup skipped

(* The streams never wait for one another in a circle.                     *)
StreamsMove ==
  \/ compute = <<>> /\ copies = <<>>
  \/ compute # <<>> /\ Head(compute).due = 0
  \/ copies # <<>> /\ Head(copies).due = 0

(* All of this as long as no block raised: then nobody waits for the copy  *)
(* its hook began, nor frees its memory.                                   *)
OffloadSound == StreamsMove /\ (raised \/ (KernelsReadTheirWeights /\ FewReside))
===============================================================================
