------------------------------ MODULE VoiceUploads -----------------------------
(***************************************************************************)
(* Voices that clients upload, delete and speak with, at the same time.    *)
(* Handlers run on one event loop and interleave where they await: in the  *)
(* middle of an upload, and while a request that clones a voice fetches    *)
(* the audio and a thread builds its prompt.                               *)
(*                                                                         *)
(* An upload is identified with the audio, or the embedding, it brings; so *)
(* an entry of uploaded_speakers is an upload, whose name, time and path   *)
(* are those it was begun with.  All uploads name the same consent, and no *)
(* request brings a ref_audio of its own.                                  *)
(***************************************************************************)
EXTENDS Naturals, FiniteSets, Functions

CONSTANTS
  Name,             \* names of voices, in lower case
  Builtin,          \* those the model has itself
  Sanitized,        \* [Name -> the name in a file name]
  Upload, Embedded, \* uploads, and those of them that bring an embedding
  SpeechRequest,    \* speech requests
  MaxTime           \* bound: the last second

VARIABLES
  time,
  upload_at,          \* "new", "reading", "stored" or "refused" for each upload
  begun,              \* the name and the timestamp of an upload that began
  uploaded_speakers,  \* [names -> Upload]
  supported_speakers,
  files,              \* [paths -> Upload], the directory of the voices
  cloning,            \* "new", "resolving", "building", "built" or "failed" for each request
  voice,              \* the name that a request speaks with
  ref_audio,          \* the audio that it clones
  created_at,         \* the timestamp it passes to the model with the name, 0 for none
  rivals,             \* of an upload: those that were reading under its name when it was stored
  deleted,            \* names ever deleted
  disturbed           \* requests whose voice changed while they were prepared

voice_vars ==
  <<time, upload_at, begun, uploaded_speakers, supported_speakers, files, cloning, voice,
    ref_audio, created_at, rivals, deleted, disturbed>>
upload_vars == <<upload_at, begun, uploaded_speakers, supported_speakers, files, rivals, deleted>>
clone_vars == <<cloning, voice, ref_audio, created_at>>

Unset == [name |-> CHOOSE n \in Name : TRUE, timestamp |-> 0]

VoicesInit ==
  /\ time = 1
  /\ upload_at = [u \in Upload |-> "new"]
  /\ begun = [u \in Upload |-> Unset]
  /\ uploaded_speakers = [n \in {} |-> "none"]
  /\ supported_speakers = Builtin
  /\ files = [p \in {} |-> "none"]
  /\ cloning = [s \in SpeechRequest |-> "new"]
  /\ voice = [s \in SpeechRequest |-> Unset.name]
  /\ ref_audio = [s \in SpeechRequest |-> "none"]
  /\ created_at = [s \in SpeechRequest |-> 0]
  /\ rivals = [u \in Upload |-> {}]
  /\ deleted = {}
  /\ disturbed = {}

Uploaded(n) == n \in DOMAIN uploaded_speakers
Path(u) ==
  <<Sanitized[begun[u].name], begun[u].timestamp, IF u \in Embedded THEN "safetensors" ELSE "wav">>
Preparing(n) == {s \in SpeechRequest : voice[s] = n /\ cloning[s] \in {"resolving", "building"}}

-------------------------------------------------------------------------------
(* upload_voice, upload_voice_embedding and delete_voice.                  *)

Refuse(u) ==
  /\ upload_at' = [upload_at EXCEPT ![u] = "refused"]
  /\ UNCHANGED <<uploaded_speakers, supported_speakers, files, rivals, disturbed>>

(* The file is written, and the voice registered.                          *)
Store(u) ==
  LET n == begun'[u].name
      path == Path(u)'
  IN /\ upload_at' = [upload_at EXCEPT ![u] = "stored"]
     /\ files' = [p \in DOMAIN files \cup {path} |-> IF p = path THEN u ELSE files[p]]
     /\ uploaded_speakers' =
          [m \in DOMAIN uploaded_speakers \cup {n} |-> IF m = n THEN u ELSE uploaded_speakers[m]]
     /\ supported_speakers' = supported_speakers \cup {n}
     /\ rivals' = [rivals EXCEPT ![u] =
                     {v \in Upload \ {u} : upload_at[v] = "reading" /\ begun[v].name = n}]
     /\ disturbed' = disturbed \cup Preparing(n)

(* The name must be free; then the handler awaits the content.             *)
UploadVoice(u, n) ==
  /\ upload_at[u] = "new" /\ u \notin Embedded
  /\ begun' = [begun EXCEPT ![u] = [name |-> n, timestamp |-> time]]
  /\ upload_at' = [upload_at EXCEPT ![u] = IF Uploaded(n) THEN "refused" ELSE "reading"]
  /\ UNCHANGED <<uploaded_speakers, supported_speakers, files, rivals, deleted, disturbed>>
  /\ UNCHANGED <<time, clone_vars>>

(* Audio that is too short or too long is refused.                         *)
StoreVoice(u) ==
  /\ upload_at[u] = "reading"
  /\ UNCHANGED begun
  /\ Store(u) \/ Refuse(u)
  /\ UNCHANGED <<time, clone_vars, deleted>>

UploadVoiceEmbedding(u, n) ==
  /\ upload_at[u] = "new" /\ u \in Embedded
  /\ begun' = [begun EXCEPT ![u] = [name |-> n, timestamp |-> time]]
  /\ IF Uploaded(n) THEN Refuse(u) ELSE Store(u)
  /\ UNCHANGED <<time, clone_vars, deleted>>

DeleteVoice(n) ==
  /\ Uploaded(n)
  /\ uploaded_speakers' = Restrict(uploaded_speakers, DOMAIN uploaded_speakers \ {n})
  /\ supported_speakers' = supported_speakers \ {n}
  /\ files' = Restrict(files, DOMAIN files \ {Path(uploaded_speakers[n])})
  /\ deleted' = deleted \cup {n}
  /\ disturbed' = disturbed \cup Preparing(n)
  /\ UNCHANGED <<time, upload_at, begun, rivals, clone_vars>>

-------------------------------------------------------------------------------
Clone(s, audio) ==
  /\ ref_audio' = [ref_audio EXCEPT ![s] = audio]
  /\ cloning' = [cloning EXCEPT ![s] = "resolving"]

Unprepared(s, at) == cloning' = [cloning EXCEPT ![s] = at] /\ UNCHANGED ref_audio

(* The file of an entry may be gone, and that of an embedding is no audio. *)
Readable(n) ==
  Uploaded(n) /\ uploaded_speakers[n] \notin Embedded /\ Path(uploaded_speakers[n]) \in DOMAIN files

(* A request with a voice (_validate_fish_tts_request).  Unless it is one  *)
(* that was uploaded, the text is spoken without a reference.              *)
Validate(s, n) ==
  /\ cloning[s] = "new"
  /\ voice' = [voice EXCEPT ![s] = n]
  /\ \/ ~Uploaded(n) /\ Unprepared(s, "built")
     \/ Readable(n) /\ Clone(s, files[Path(uploaded_speakers[n])])
     \/ Uploaded(n) /\ ~Readable(n) /\ Unprepared(s, "failed")
  /\ UNCHANGED <<time, upload_vars, created_at, disturbed>>

(* _build_fish_speech_prompt, in a thread: the voice is looked up, and its *)
(* time read in another step.  If it was deleted between, that raises.     *)
FindVoice(s) ==
  /\ cloning[s] = "resolving"
  /\ cloning' = [cloning EXCEPT ![s] = IF Uploaded(voice[s]) THEN "building" ELSE "built"]
  /\ UNCHANGED <<time, upload_vars, voice, ref_audio, created_at, disturbed>>

Identify(s) ==
  /\ cloning[s] = "building"
  /\ IF Uploaded(voice[s])
       THEN /\ created_at' = [created_at EXCEPT ![s] = begun[uploaded_speakers[voice[s]]].timestamp]
            /\ cloning' = [cloning EXCEPT ![s] = "built"]
       ELSE cloning' = [cloning EXCEPT ![s] = "failed"] /\ UNCHANGED created_at
  /\ UNCHANGED <<time, upload_vars, voice, ref_audio, disturbed>>

Tick == time < MaxTime /\ time' = time + 1 /\ UNCHANGED <<upload_vars, clone_vars, disturbed>>

VoicesNext ==
  \/ \E u \in Upload, n \in Name : UploadVoice(u, n) \/ UploadVoiceEmbedding(u, n)
  \/ \E u \in Upload : StoreVoice(u)
  \/ \E n \in Name : DeleteVoice(n)
  \/ \E s \in SpeechRequest, n \in Name : Validate(s, n)
  \/ \E s \in SpeechRequest : FindVoice(s) \/ Identify(s)
  \/ Tick

-------------------------------------------------------------------------------
Stored == {u \in Upload : upload_at[u] = "stored"}

(* Every registered voice has the file of its upload, unless a voice whose *)
(* name looks the same in a file name was uploaded in the same second.     *)
OwnFile ==
  \A n \in DOMAIN uploaded_speakers :
    LET u == uploaded_speakers[n] IN
      \/ Path(u) \in DOMAIN files /\ files[Path(u)] = u
      \/ \E v \in Stored : Path(v) = Path(u) /\ begun[v].name # n

(* No file stays behind without a voice, except when two uploads of one    *)
(* name overlapped and the second took the place of the first.             *)
NoOrphans ==
  \A u \in Range(files) : u \in Range(uploaded_speakers) \/ rivals[u] # {}

(* The voices that are listed are those uploaded and those built in; but a *)
(* built-in one under whose name a voice was uploaded goes with it.        *)
Listed == supported_speakers = DOMAIN uploaded_speakers \cup (Builtin \ deleted)

SameStamp(s, t) ==
  /\ cloning[s] = "built" /\ cloning[t] = "built"
  /\ voice[s] = voice[t]
  /\ created_at[s] = created_at[t] /\ created_at[s] # 0

(* What the model extracts from a voice it may keep under the name and the *)
(* time that requests pass: those that pass the same clone the same audio, *)
(* except when the voice changed while one of them was prepared, or two    *)
(* uploads were so close that they share a path.                           *)
StampNamesVoice ==
  \A s, t \in SpeechRequest \ disturbed :
    SameStamp(s, t) /\ ref_audio[s] # ref_audio[t] =>
      \E u \in Stored : \E v \in Stored \ {u} : Path(u) = Path(v)

VoicesSound == OwnFile /\ NoOrphans /\ Listed /\ StampNamesVoice
===============================================================================
