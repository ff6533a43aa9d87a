------------------------------- MODULE ChunkPlan -------------------------------
(***************************************************************************)
(* What the stage input processors cut out of a growing sequence of codec  *)
(* frames: each output of the first stage brings a frame or none, and the  *)
(* processor decides whether a chunk is due and how many of its frames are *)
(* new, the others being left context that the decoder trims.              *)
(***************************************************************************)
EXTENDS Integers

CONSTANTS
  ChunkSizes,    \* codec_chunk_frames
  InitialSizes,  \* initial_codec_chunk_frames, codec_chunk_frames_at_begin or none, 0
  Lookaheads,    \* codec_pre_lookahead_frames
  Pads,          \* prompt_token_pad
  MaxFrames,     \* bound on the frames of a request
  Burst          \* bound on the tokens that one output adds (CosyVoice reads them live)

VARIABLES
  plan,     \* the processor and its configuration
  length,   \* len(code_prompt_token_ids)
  puts,     \* put_req_chunk, no longer counted once nobody reads it
  hop,      \* token_hop_len of CosyVoice
  covered,  \* the frames that were new in some chunk
  chunk,    \* the chunk of the last output: its new frames, those covered
            \* before it, whether the output brought any, and the final mark
  done      \* the last output was the final one

planVars == <<plan, length, puts, hop, covered, chunk, done>>

NoChunk == [first |-> 0, last |-> 0, after |-> 0, fresh |-> FALSE, final |-> FALSE]

LesserOf(a, b) == IF a <= b THEN a ELSE b

(* How many of the n frames are new when a chunk of c is due every c.      *)
Due(n, c, finished) ==
  IF n % c = 0 THEN c ELSE IF finished THEN n % c ELSE 0

(* The frames sent in chunks of i before chunks of c begin.                *)
Coverage(c, i) == IF i > 0 THEN (c \div i) * i ELSE 0

(* The new frames of the chunk due after n frames, 0 if none is due.       *)
TalkerTTS(n, c, i, finished) ==
  LET small == LesserOf(i, c) IN
  IF 0 < small /\ small < c
  THEN IF n <= c THEN Due(n, small, finished) ELSE Due(n - Coverage(c, small), c, finished)
  ELSE Due(n, c, finished)

(* The initial phase counts the chunks that were put.                      *)
FishSpeech(n, c, i, finished, put) ==
  LET small == LesserOf(i, c)
      unsent == n - put * small
  IN IF small > 0 /\ n <= c
     THEN IF unsent <= 0 \/ (unsent < small /\ ~finished) THEN 0 ELSE LesserOf(unsent, small)
     ELSE Due(n - Coverage(c, small), c, finished)

Voxtral(n, c, i, finished) == Due(n, IF n <= c THEN i ELSE c, finished)

(* CosyVoice sends hop tokens once the lookahead behind them is there, and *)
(* pads the first chunk up to a multiple of the chunk size.                *)
CosyHop == hop + IF covered = 0 THEN plan.pad ELSE 0
CosyVoice(n, finished) ==
  IF finished THEN n - covered
  ELSE IF n - covered >= CosyHop + plan.lookahead THEN CosyHop ELSE 0

(* Without a frame Qwen3 Omni sends nothing, MiMo only flushes.  The       *)
(* others send nothing when the output has no payload at all.              *)
Silent(n, brought, payload, finished) ==
  CASE plan.processor = "qwen3_omni" -> brought = 0
    [] plan.processor = "mimo_audio" -> brought = 0 /\ ~finished
    [] plan.processor = "cosyvoice3" -> n = 0 /\ ~finished
    [] OTHER -> ~finished /\ (~payload \/ n = 0)

NewFrames(n, finished) ==
  CASE plan.processor = "qwen3_tts" -> TalkerTTS(n, plan.size, plan.initial, finished)
    [] plan.processor = "fish_speech" -> FishSpeech(n, plan.size, plan.initial, finished, puts)
    [] plan.processor = "voxtral_tts" -> Voxtral(n, plan.size, plan.initial, finished)
    [] plan.processor = "cosyvoice3" -> CosyVoice(n, finished)
    [] OTHER -> Due(n, plan.size, finished)

(* A chunk without new frames is only sent to say that the request is over.*)
Sends(n, brought, payload, finished) ==
  /\ ~Silent(n, brought, payload, finished)
  /\ \/ NewFrames(n, finished) > 0
     \/ finished /\ (n = 0 \/ plan.processor = "cosyvoice3")

(* Where Fish reads put_req_chunk; further on it is not counted.           *)
InFirstChunk(n) ==
  plan.processor = "fish_speech" /\ plan.initial > 0 /\ n <= plan.size

Processors ==
  {"qwen3_tts", "fish_speech", "voxtral_tts", "qwen3_omni", "mimo_audio", "cosyvoice3"}
Initially(p) == IF p \in {"qwen3_tts", "fish_speech", "voxtral_tts"} THEN InitialSizes ELSE {0}

Plans(p) ==
  [processor : {p}, size : ChunkSizes, initial : Initially(p),
   lookahead : IF p = "cosyvoice3" THEN Lookaheads ELSE {0},
   pad : IF p = "cosyvoice3" THEN Pads ELSE {0}]
AnyPlan == CHOOSE c \in Plans("mimo_audio") : TRUE

PlanInit ==
  /\ \E p \in Processors : plan \in Plans(p)
  /\ plan.processor = "voxtral_tts" => plan.initial > 0
  /\ hop = plan.size
  /\ length = 0
  /\ puts = 0
  /\ covered = 0
  /\ chunk = NoChunk
  /\ done = FALSE

(* The processor is called with an output of the first stage.              *)
Process(brought, payload, finished) ==
  LET n == length + brought
      new == IF n = 0 THEN 0 ELSE NewFrames(n, finished)
      last == IF plan.processor = "cosyvoice3" THEN covered + new ELSE n
  IN /\ ~done
     /\ n <= MaxFrames
     /\ brought <= (IF plan.processor = "cosyvoice3" THEN Burst ELSE 1)
     /\ brought > 0 => payload
     /\ length' = n
     /\ IF Sends(n, brought, payload, finished)
        THEN /\ chunk' = [first |-> last - new + 1, last |-> last, after |-> covered,
                             fresh |-> brought > 0, final |-> finished]
             /\ puts' = IF InFirstChunk(n) THEN puts + 1 ELSE puts
             /\ covered' = last
             /\ hop' = IF finished THEN hop ELSE LesserOf(4 * plan.size, 2 * hop)
        ELSE /\ chunk' = NoChunk
             /\ UNCHANGED <<puts, covered, hop>>
     /\ done' = finished
     /\ UNCHANGED plan

PlanNext ==
  \E brought \in 0 .. Burst, payload, finished \in BOOLEAN : Process(brought, payload, finished)

-----------------------------------------------------------------------------
(* The chunks of the small phase must end where those of the large begin;  *)
(* Voxtral leaves that to its configuration.                               *)
Aligned == plan.processor = "voxtral_tts" => plan.size % plan.initial = 0

(* No frame is skipped between two chunks, and none is sent twice unless   *)
(* the output brought no frame just where a chunk ended: then the decoder  *)
(* gets that chunk again (qwen3_tts.py:198-229, fish_speech.py:113-131).   *)
NoneSkipped == Aligned => chunk.first <= chunk.after + 1
NoneRepeated ==
  chunk.first <= chunk.after /\ chunk # NoChunk
    => ~chunk.fresh /\ plan.processor # "cosyvoice3"

(* The final output sends the rest and the final mark, without which the   *)
(* next stage waits for ever: except that Qwen3 Omni wants a frame with it *)
(* (qwen3_omni.py:512) and Fish one not sent yet in the first chunk.       *)
Unfinished ==
  /\ ~chunk.final
  /\ \/ plan.processor = "qwen3_omni"
     \/ InFirstChunk(length)
RestIsSent == done /\ Aligned /\ ~Unfinished => chunk.final /\ covered = length
CutAtFinish == done /\ Unfinished /\ plan.processor = "fish_speech" => covered = length

(* What CosyVoice sends before the end has its lookahead behind it.        *)
LookaheadThere ==
  plan.processor = "cosyvoice3" /\ chunk # NoChunk /\ ~chunk.final
    => chunk.last + plan.lookahead <= length

PlanCovers ==
  /\ NoneSkipped
  /\ NoneRepeated
  /\ RestIsSent
  /\ CutAtFinish
  /\ LookaheadThere
================================================================================
