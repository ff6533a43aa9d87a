------------------------------ MODULE SpeechStream ------------------------------
(***************************************************************************)
(* A WebSocket session for text that arrives piece by piece: the splitter  *)
(* finds its sentences, and each is spoken before the next message is      *)
(* read.                                                                   *)
(*                                                                         *)
(* A character is a letter, a space, "." for what ends a sentence if a     *)
(* space follows, or "c" for what ends one by itself.                      *)
(***************************************************************************)
EXTENDS Naturals, Sequences, FiniteSets, SequencesExt

CONSTANTS
  MaxText,           \* bound: characters the client sends
  MinSentenceLength, \* min_sentence_length
  Streams            \* values of stream_audio

VARIABLES
  stream_audio,
  typed,          \* the text the client sent so far
  text_buffer,    \* the splitter's buffer
  sentences,      \* found in the last message and not yet spoken
  said,           \* sentences an audio.start was sent for
  answered,       \* how many of them got their audio.done
  speech_at,      \* where the session is
  speech_request, \* the engine request of the sentence
  left            \* whether the client is gone

speech_vars ==
  <<stream_audio, typed, text_buffer, sentences, said, answered, speech_at, speech_request, left>>

Char == {"a", " ", ".", "c"}

-------------------------------------------------------------------------------
(* The splitter.                                                           *)

Space(t, k) == k \in DOMAIN t /\ t[k] = " "
Stripped(t) ==
  LET ink == {k \in DOMAIN t : t[k] # " "}
  IN IF ink = {} THEN <<>>
     ELSE SubSeq(t, CHOOSE k \in ink : \A l \in ink : k <= l, CHOOSE k \in ink : \A l \in ink : k >= l)

(* Where the parts of a text end, and where what follows begins.           *)
Boundaries(t) == {k \in DOMAIN t : t[k] = "c" \/ (t[k] = "." /\ Space(t, k + 1))}
After(t, k) ==
  IF t[k] = "c" THEN k + 1
  ELSE CHOOSE l \in k + 2 .. Len(t) + 1 : ~Space(t, l) /\ \A m \in k + 1 .. l - 1 : Space(t, m)

(* _extract_sentences: a part that is too short is put before the next.    *)
LongEnough(s) == Len(s) >= MinSentenceLength

Extracted(t) ==
  LET ends == SetToSortSeq(Boundaries(t), <)
      Begin(n) == IF n = 1 THEN 1 ELSE After(t, ends[n - 1])
      Take(taken, n) ==
        LET part == taken.carry \o SubSeq(t, Begin(n), ends[n])
        IN IF LongEnough(Stripped(part))
             THEN [found |-> Append(taken.found, Stripped(part)), carry |-> <<>>]
             ELSE [taken EXCEPT !.carry = IF Stripped(part) = <<>> THEN <<>> ELSE part]
      all == FoldLeft(Take, [found |-> <<>>, carry |-> <<>>], [n \in DOMAIN ends |-> n])
  IN [found |-> all.found, rest |-> all.carry \o SubSeq(t, Begin(Len(ends) + 1), Len(t))]

-------------------------------------------------------------------------------
SpeechInit ==
  /\ stream_audio \in Streams
  /\ typed = <<>>
  /\ text_buffer = <<>>
  /\ sentences = <<>>
  /\ said = <<>>
  /\ answered = 0
  /\ speech_at = "receive"
  /\ speech_request = "none"
  /\ left = FALSE

Receives == speech_at = "receive" /\ sentences = <<>>

InputText(t) ==
  /\ Receives /\ ~left
  /\ Len(typed) + Len(t) <= MaxText
  /\ typed' = typed \o t
  /\ text_buffer' = Extracted(text_buffer \o t).rest
  /\ sentences' = Extracted(text_buffer \o t).found
  /\ UNCHANGED <<stream_audio, said, answered, speech_at, speech_request, left>>

(* What remains is spoken, before session.done.                            *)
InputDone ==
  /\ Receives /\ ~left
  /\ text_buffer' = <<>>
  /\ sentences' = IF Stripped(text_buffer) = <<>> THEN <<>> ELSE <<Stripped(text_buffer)>>
  /\ speech_at' = "flushed"
  /\ UNCHANGED <<stream_audio, typed, said, answered, speech_request, left>>

Leave ==
  /\ ~left /\ speech_at # "over"
  /\ left' = TRUE
  /\ UNCHANGED <<stream_audio, typed, text_buffer, sentences, said, answered, speech_at,
                 speech_request>>

(* An idle timeout, or a read or a start that finds the client gone.       *)
Stop ==
  /\ Receives \/ (left /\ speech_at \in {"receive", "flushed"})
  /\ speech_at' = "over"
  /\ UNCHANGED <<stream_audio, typed, text_buffer, sentences, said, answered, speech_request, left>>

SessionDone ==
  /\ speech_at = "flushed" /\ sentences = <<>>
  /\ speech_at' = "over"
  /\ UNCHANGED <<stream_audio, typed, text_buffer, sentences, said, answered, speech_request, left>>

Speak ==
  /\ speech_at \in {"receive", "flushed"} /\ sentences # <<>> /\ ~left
  /\ said' = Append(said, Head(sentences))
  /\ sentences' = Tail(sentences)
  /\ speech_at' = IF speech_at = "flushed" THEN "last" ELSE "speaking"
  /\ speech_request' = "running"
  /\ UNCHANGED <<stream_audio, typed, text_buffer, answered, left>>

Speaking == speech_at \in {"speaking", "last"}

EngineEnds(how) ==
  /\ Speaking /\ speech_request = "running"
  /\ speech_request' = how
  /\ UNCHANGED <<stream_audio, typed, text_buffer, sentences, said, answered, speech_at, left>>

(* The audio is out, or an error is; either way audio.done follows.        *)
Spoken ==
  /\ Speaking /\ speech_request \in {"finished", "failed"}
  /\ ~left
  /\ answered' = answered + 1
  /\ speech_at' = IF speech_at = "last" THEN "flushed" ELSE "receive"
  /\ speech_request' = "none"
  /\ UNCHANGED <<stream_audio, typed, text_buffer, sentences, said, left>>

(* A send finds the client gone: half-way if the audio is streamed, else   *)
(* when it is complete.  The request that still runs is aborted.           *)
(* Mutant of AbortOnLeave: the generator is left alone.                    *)
AbortOnLeaveNot == UNCHANGED speech_request
AbortOnLeave == speech_request' = "none"

SendFails ==
  /\ Speaking /\ left
  /\ stream_audio \/ speech_request # "running"
  /\ AbortOnLeave
  /\ speech_at' = "over"
  /\ UNCHANGED <<stream_audio, typed, text_buffer, sentences, said, answered, left>>

SpeechNext ==
  \/ \E n \in 1 .. MaxText : \E t \in [1 .. n -> Char] : InputText(t)
  \/ InputDone \/ Leave \/ Stop \/ SessionDone
  \/ Speak \/ (\E how \in {"finished", "failed"} : EngineEnds(how)) \/ Spoken \/ SendFails

-------------------------------------------------------------------------------
(* The sentences do not depend on how the text was cut into messages, and  *)
(* no character but a space is lost: until the session is over, what was   *)
(* said, what is about to be and what is buffered are the whole text.      *)
Ink(t) == SelectSeq(t, LAMBDA x : x # " ")
WholeText ==
  speech_at # "over" =>
    /\ \/ said \o sentences = Extracted(typed).found
             /\ Stripped(text_buffer) = Stripped(Extracted(typed).rest)
       \/ speech_at \in {"flushed", "last"}
    /\ Ink(FlattenSeq(said \o sentences) \o text_buffer) = Ink(typed)

(* Each audio.start gets its audio.done before the next sentence and       *)
(* before session.done, and nothing runs for a session that is over.       *)
InTurn ==
  /\ ~left => Len(said) - answered = IF Speaking THEN 1 ELSE 0
  /\ speech_at = "over" => speech_request = "none"

SpeechSound == WholeText /\ InTurn
===============================================================================
