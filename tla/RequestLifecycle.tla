--------------------------- MODULE RequestLifecycle ---------------------------
(***************************************************************************)
(* What the diffusion engine promises to each submission, without saying   *)
(* how: it is admitted or refused once, while it runs its stream carries   *)
(* chunks from ever later denoise steps, and it gets one outcome, which    *)
(* never changes and after which its stream is silent.  Submissions        *)
(* progress together, because one engine step delivers a whole batch.      *)
(***************************************************************************)
EXTENDS Integers

CONSTANTS
  Submissions,  \* the requests
  Streamed,     \* those whose client reads a stream
  Outcomes      \* how a request can end

VARIABLE life   \* life[r]: phase, step of its last chunk, outcome

Phases == {"new", "refused", "active", "answered"}
Life == [phase : Phases, step : Nat, outcome : Outcomes \cup {"none"}]

New == [phase |-> "new", step |-> 0, outcome |-> "none"]

Admitted(from, to) == from = New /\ to = [New EXCEPT !.phase = "active"]
Refused(from, to) == from = New /\ to = [New EXCEPT !.phase = "refused"]

Chunk(from, to) ==
  /\ from.phase = "active"
  /\ to = [from EXCEPT !.step = to.step]
  /\ to.step > from.step

(* The outcome may come with a last chunk or without one. *)
AnsweredWith(from, to) ==
  /\ from.phase = "active"
  /\ to = [phase |-> "answered", step |-> to.step, outcome |-> to.outcome]
  /\ to.outcome \in Outcomes
  /\ to.step >= from.step

Progress(r, from, to) ==
  \/ Admitted(from, to)
  \/ Refused(from, to)
  \/ r \in Streamed /\ Chunk(from, to)
  \/ AnsweredWith(from, to)

Init == life = [r \in Submissions |-> New]

Next == \A r \in Submissions : life'[r] = life[r] \/ Progress(r, life[r], life'[r])

Spec == Init /\ [][Next]_life
===============================================================================
