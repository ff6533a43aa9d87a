------------------------------ MODULE OutputStream -----------------------------
(***************************************************************************)
(* The outputs of one request: what the steps of its stage produce is      *)
(* accumulated under its keys and attached to the outputs in the way the   *)
(* request asked for, and the realtime connection makes of the audio the   *)
(* pieces that it plays.                                                   *)
(*                                                                         *)
(* A tensor is a sequence, of samples for audio and of the numbers of the  *)
(* steps for the rest; an entry is the sequence of the tensors in it.  An  *)
(* entry of one tensor is that tensor, and no list.                        *)
(***************************************************************************)
EXTENDS Naturals, Sequences, FiniteSets, SequencesExt

CONSTANTS
  Piece,     \* what a step may add to the audio
  Payloads,  \* which of the other keys a step may send
  MaxSteps   \* bound: steps of the request

VARIABLES
  output_kind,
  grows,           \* whether the stage sends all its audio with every step
  samples,         \* the audio produced so far, as the pieces of the steps
  rows,            \* the steps that sent each of the other keys
  mm_accumulated,
  mm_outputs,      \* the dicts of the outputs so far
  output_finished,
  audio_ref,       \* _realtime_audio_ref
  played,          \* the audio that it sent to its client
  prev_count,
  spoken           \* the audio that a speech request streamed

output_vars ==
  <<output_kind, grows, samples, rows, mm_accumulated, mm_outputs, output_finished, audio_ref,
    played, prev_count, spoken>>

Flat == "hidden_states.layer_0"
Nested == "hidden_states"
Keys == {"latent", "sr", Flat}
DRAINABLE_MODALITIES == {"audio", "image"}

(* The realtime connection asks for DELTA, and only it bears audio that    *)
(* grows.                                                                  *)
OutputInit ==
  /\ output_kind \in {"DELTA", "CUMULATIVE", "FINAL_ONLY"}
  /\ grows \in BOOLEAN
  /\ grows => output_kind = "DELTA"
  /\ samples = <<>>
  /\ rows = [k \in Keys |-> <<>>]
  /\ mm_accumulated = [k \in {} |-> <<>>]
  /\ mm_outputs = <<>>
  /\ output_finished = FALSE
  /\ audio_ref = <<>>
  /\ played = <<>>
  /\ prev_count = 0
  /\ spoken = <<>>

(* add_multimodal_tensor                                                   *)
Added(payload) ==
  [k \in DOMAIN mm_accumulated \cup DOMAIN payload |->
     (IF k \in DOMAIN mm_accumulated THEN mm_accumulated[k] ELSE <<>>)
       \o (IF k \in DOMAIN payload THEN <<payload[k]>> ELSE <<>>)]

(* _consolidate_multimodal_tensors: lists become tensors ...               *)
Concatenated(mm) ==
  [k \in DOMAIN mm |->
     IF output_kind = "DELTA" /\ k \in DRAINABLE_MODALITIES THEN mm[k]
     ELSE IF k = "sr" THEN <<Last(mm[k])>>
     ELSE <<FlattenSeq(mm[k])>>]

(* ... and unflatten_payload puts a dotted key where one may already be.   *)
Unflattened(mm) ==
  [k \in {IF l = Flat THEN Nested ELSE l : l \in DOMAIN mm} |->
     IF k = Nested /\ Flat \in DOMAIN mm THEN mm[Flat] ELSE mm[k]]

Attached(mm, finished) ==
  IF finished \/ output_kind # "DELTA" THEN Unflattened(Concatenated(mm)) ELSE mm

(* _new_completion_output                                                  *)
Drained(mm) ==
  IF output_kind = "DELTA" THEN Restrict(mm, DOMAIN mm \ DRAINABLE_MODALITIES) ELSE mm

(* _raw_waveform_to_deltas                                                 *)
Delta(arr) ==
  IF IsPrefix(audio_ref, arr) THEN SubSeq(arr, Len(audio_ref) + 1, Len(arr)) ELSE arr

Reference(arr) == IF IsPrefix(audio_ref, arr) THEN arr ELSE audio_ref \o arr

(* A realtime connection takes the last tensor of a list; a speech request *)
(* takes a list to grow and a tensor to be new (_extract_audio_chunks,     *)
(* _generate_audio_chunks).                                                *)
Play(mm) ==
  IF output_kind = "DELTA" /\ "audio" \in DOMAIN mm
    THEN LET audio == mm["audio"] IN
           /\ played' = Append(played, Delta(Last(audio)))
           /\ audio_ref' = Reference(Last(audio))
           /\ IF Len(audio) > 1
                THEN /\ spoken' = spoken \o SubSeq(audio, prev_count + 1, Len(audio))
                     /\ prev_count' = Len(audio)
                ELSE spoken' = Append(spoken, audio[1]) /\ prev_count' = prev_count + 1
    ELSE UNCHANGED <<played, audio_ref, spoken, prev_count>>

(* A step sends some of the keys.  Without audio in the step, piece is     *)
(* empty.                                                                  *)
Sent(piece, keys) ==
  [k \in keys \cup (IF piece = <<>> THEN {} ELSE {"audio"}) |->
     IF k # "audio" THEN <<Len(samples) + 1>>
     ELSE IF grows THEN FlattenSeq(Append(samples, piece))
     ELSE piece]

(* process_outputs and make_request_output for a step.                     *)
Step(piece, keys, finished) ==
  /\ ~output_finished
  /\ Len(samples) < MaxSteps
  /\ samples' = Append(samples, piece)
  /\ rows' = [k \in Keys |-> IF k \in keys THEN Append(rows[k], Len(samples) + 1) ELSE rows[k]]
  /\ output_finished' = finished
  /\ LET mm == Added(Sent(piece, keys)) IN
       IF ~finished /\ output_kind = "FINAL_ONLY"
         THEN mm_accumulated' = mm /\ UNCHANGED <<mm_outputs, audio_ref, played, prev_count, spoken>>
         ELSE LET attached == Attached(mm, finished) IN
                /\ mm_outputs' = Append(mm_outputs, attached)
                /\ mm_accumulated' = Drained(attached)
                /\ Play(attached)
  /\ UNCHANGED <<output_kind, grows>>

OutputNext ==
  \E piece \in Piece \cup {<<>>}, keys \in Payloads, finished \in BOOLEAN :
    Step(piece, keys, finished)

-------------------------------------------------------------------------------
Under(mm, k) == IF k \in DOMAIN mm THEN FlattenSeq(mm[k]) ELSE <<>>

LastOnly(s) == IF s = <<>> THEN <<>> ELSE <<Last(s)>>

(* A request that streams speaks the audio once; outputs that accumulate,  *)
(* and the final one of a request that wants only that, hold it all.       *)
AudioOnce ==
  ~grows =>
    CASE output_kind = "DELTA" -> FlattenSeq(spoken) = FlattenSeq(samples)
      [] output_kind = "CUMULATIVE" ->
           mm_outputs # <<>> => Under(Last(mm_outputs), "audio") = FlattenSeq(samples)
      [] output_kind = "FINAL_ONLY" ->
           mm_outputs = (IF output_finished THEN <<Last(mm_outputs)>> ELSE <<>>)
             /\ (output_finished => Under(Last(mm_outputs), "audio") = FlattenSeq(samples))

(* The final output holds every latent of the request and the last sample  *)
(* rate, which the next stage takes from it, and in one tensor; and every  *)
(* hidden state, too, except when all outputs accumulate: then each step   *)
(* overwrites the hidden states of those before it.                        *)
FinalOutputComplete ==
  output_finished =>
    LET mm == Last(mm_outputs) IN
      /\ Under(mm, "latent") = rows["latent"]
      /\ Under(mm, "sr") = LastOnly(rows["sr"])
      /\ Flat \notin DOMAIN mm
      /\ Under(mm, Nested)
           = IF output_kind = "CUMULATIVE" THEN LastOnly(rows[Flat]) ELSE rows[Flat]
      /\ \A k \in DOMAIN mm : Len(mm[k]) = 1

(* A piece that begins with all the audio before it is taken for the whole *)
(* waveform, and cut.                                                      *)
Ambiguous(n) ==
  /\ samples[n] # <<>>
  /\ \E m \in 1 .. n - 1 : samples[m] # <<>>
  /\ IsPrefix(FlattenSeq(SubSeq(samples, 1, n - 1)), samples[n])

(* The client of a realtime connection hears what was produced, once and   *)
(* in order, whichever way the stage sends its audio.                      *)
PlayedOnce ==
  output_kind = "DELTA" =>
    \/ FlattenSeq(played) = FlattenSeq(samples)
    \/ ~grows /\ \E n \in DOMAIN samples : Ambiguous(n)

OutputsSound == AudioOnce /\ FinalOutputComplete /\ PlayedOnce
===============================================================================
