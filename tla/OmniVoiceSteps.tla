----------------------------- MODULE OmniVoiceSteps -----------------------------
(***************************************************************************)
(* How OmniVoice unmasks and streams one request: the step plan            *)
(* (build_step_plans), the steps that follow it (unmask_step), and the     *)
(* audio that is decoded and emitted at the end of a block                 *)
(* (_decode_stream_delta).  Requests of a batch do not touch each other's  *)
(* rows, so one request is enough; the batch shows as Longest.             *)
(*                                                                         *)
(* Which positions of a block a step unmasks is the network's choice; how  *)
(* many are still masked is not, and is all the state keeps.  A frame of   *)
(* decoded audio stands for its samples.                                   *)
(***************************************************************************)
EXTENDS Integers, FiniteSets

CONSTANTS
  MaxLen,      \* bound: frames of a request, and of the longest of its batch
  Codebooks,   \* num_audio_codebook
  BlockSizes,  \* values of VLLM_OMNI_OMNIVOICE_BLOCK_SIZE
  StepCounts,  \* values of num_step
  FirstCounts, \* values of VLLM_OMNI_OMNIVOICE_FIRST_BLOCK_NUM_STEP
  Shifts,      \* values of t_shift, as fractions <<numerator, denominator>>
  Holdbacks    \* values of VLLM_OMNI_OMNIVOICE_STREAM_HOLDBACK_FRAMES

VARIABLES
  request,     \* the parameters of the request; NoRequest before it is prepared
  step,        \* state.step_index
  masked,      \* masked[b]: the positions of block b that are still mask_id
  overwritten, \* positions assigned again, or outside their block
  emitted,     \* emitted_samples, in frames
  finished

svars == <<request, step, masked, overwritten, emitted, finished>>

Unset == -1
NoRequest == <<>>
Smaller(a, b) == IF a < b THEN a ELSE b
Larger(a, b) == IF a < b THEN b ELSE a
CeilDiv(a, b) == (a + b - 1) \div b

Requests ==
  [len : 1 .. MaxLen, longest : 1 .. MaxLen, block : BlockSizes, steps : StepCounts,
   first : FirstCounts \cup {Unset}, shift : Shifts, up : {0, 1}, holdback : Holdbacks]

SInit ==
  /\ request = NoRequest
  /\ step = 0
  /\ masked = <<>>
  /\ overwritten = 0
  /\ emitted = 0
  /\ finished = FALSE

-------------------------------------------------------------------------------
(* build_step_plans, for the request q.                                    *)

(* 0, or what is no number, is one block.                                  *)
BlockSize(q) == IF q.block <= 0 THEN q.longest ELSE q.block
FirstBlockNumStep(q) == IF q.first = Unset THEN q.steps ELSE Larger(1, q.first)

NumBlocks(q) == Larger(1, CeilDiv(q.len, BlockSize(q)))
EffBlockSize(q) == CeilDiv(q.len, NumBlocks(q))
Blocks(q) == 0 .. (NumBlocks(q) - 1)

BlockStart(q, b) == b * EffBlockSize(q)
BlockEnd(q, b) == Smaller(BlockStart(q, b) + EffBlockSize(q), q.len)
BlockTotal(q, b) == (BlockEnd(q, b) - BlockStart(q, b)) * Codebooks
BlockSteps(q, b) == IF b = 0 THEN FirstBlockNumStep(q) ELSE q.steps

(* _get_time_steps: i/n shifted, as a fraction.                            *)
Shifted(q, n, i) ==
  <<q.shift[1] * i, q.shift[2] * n + (q.shift[1] - q.shift[2]) * i>>

(* The ceiling of total times the length of time step i of n.  Where the   *)
(* product is whole, rounding of floats may push it up.                    *)
Share(q, total, n, i) ==
  LET t == Shifted(q, n, i)
      u == Shifted(q, n, i + 1)
      part == total * (u[1] * t[2] - t[1] * u[2])
      whole == u[2] * t[2]
  IN  CeilDiv(part, whole) + (IF part % whole = 0 THEN q.up ELSE 0)

(* Mutant of Taken: the share is not capped by what is left.               *)
TakenUncapped(q, total, n, i, rem) == Share(q, total, n, i)

Taken(q, total, n, i, rem) == Smaller(Share(q, total, n, i), rem)

(* What step i of block b unmasks, i counted from 0.                       *)
UnmaskCount(q, b, i) ==
  LET n == BlockSteps(q, b)
      total == BlockTotal(q, b)
      rem[j \in 0 .. i] ==
        IF j = 0 THEN total
        ELSE LET before == rem[j - 1] IN before - Taken(q, total, n, j - 1, before)
  IN  IF i = n - 1 THEN rem[i]
      ELSE Taken(q, total, n, i, rem[i])

(* The plan is the steps of the blocks, one after the other.               *)
PlanLength(q) == FirstBlockNumStep(q) + (NumBlocks(q) - 1) * q.steps
BlockOf(q, s) ==
  IF s < FirstBlockNumStep(q) THEN 0 ELSE 1 + (s - FirstBlockNumStep(q)) \div q.steps
StepOf(q, s) ==
  IF s < FirstBlockNumStep(q) THEN s ELSE (s - FirstBlockNumStep(q)) % q.steps

IsBlockComplete(q, s) == s >= PlanLength(q) - 1 \/ BlockOf(q, s) # BlockOf(q, s + 1)

-------------------------------------------------------------------------------
PrepareEncode ==
  /\ request = NoRequest
  /\ request' \in {q \in Requests : q.len <= q.longest /\ (q.block > 0 => q.longest = q.len)}
  /\ masked' = [b \in Blocks(request') |-> BlockTotal(request', b)]
  /\ UNCHANGED <<step, overwritten, emitted, finished>>

DecodeFrames == IF step + 1 >= PlanLength(request) THEN request.len
                ELSE BlockEnd(request, BlockOf(request, step))

(* The audio of the last frames of a prefix changes with what follows:     *)
(* they are held back until the end.                                       *)
EmitEnd ==
  LET last == step + 1 >= PlanLength(request)
  IN  Larger(emitted, IF last THEN DecodeFrames ELSE Larger(0, DecodeFrames - request.holdback))

(* topk takes the k best positions: those of the block that are masked,    *)
(* and, when there are fewer, others.                                      *)
Step ==
  /\ request # NoRequest
  /\ ~finished
  /\ LET b == BlockOf(request, step)
         k == UnmaskCount(request, b, StepOf(request, step))
     IN  /\ masked' = [masked EXCEPT ![b] = Larger(0, @ - Larger(0, k))]
         /\ overwritten' = overwritten + Larger(0, k - masked[b])
  /\ step' = step + 1
  /\ finished' = (step + 1 >= PlanLength(request))
  /\ emitted' = IF IsBlockComplete(request, step) THEN EmitEnd ELSE emitted
  /\ UNCHANGED request

SNext == PrepareEncode \/ Step
SSpec == SInit /\ [][SNext]_svars

-------------------------------------------------------------------------------
(* Though the block size is rounded up twice, the blocks of a plan cover   *)
(* the frames exactly once and none is empty or starts beyond the end      *)
(* (omnivoice_generator.py:417-423).                                       *)
Partition(q) ==
  /\ BlockStart(q, 0) = 0
  /\ BlockEnd(q, NumBlocks(q) - 1) = q.len
  /\ \A b \in Blocks(q) : BlockStart(q, b) < BlockEnd(q, b)
  /\ \A b \in Blocks(q) \ {0} : BlockStart(q, b) = BlockEnd(q, b - 1)
BlocksPartition == request # NoRequest => Partition(request)

(* No step asks topk for more positions than its block still has masked:   *)
(* it would overwrite decided tokens (omnivoice_generator.py:539).         *)
NothingOverwritten == overwritten = 0

(* Audio is only ever emitted from frames whose tokens are all decided,    *)
(* and what was emitted of a prefix before the end is at least the         *)
(* holdback away from the frames that were still masked.                   *)
EmittedIsDecided ==
  request # NoRequest => \A b \in Blocks(request) :
    masked[b] > 0 =>
      emitted = 0 \/ emitted <= BlockStart(request, b) - request.holdback

(* A finished request has no mask left and has emitted every frame.        *)
FinishedIsComplete ==
  finished => (\A b \in Blocks(request) : masked[b] = 0) /\ emitted = request.len
===============================================================================
