----------------------------- MODULE BoundedBody -----------------------------
(***************************************************************************)
(* readBoundedJson(): the body of a request, or of the provider's response,*)
(* is read chunk by chunk while a timer, the abort signal, the size limit  *)
(* and the end of the stream race.  The sender may stall for ever, so that *)
(* the timer is what ends the read; whoever wins, the timer, the listener  *)
(* and the reader must be let go and an unfinished stream be cancelled.    *)
(*                                                                         *)
(* A chunk and the code that takes it are one step: the loop runs on       *)
(* microtasks.  One reader has at most one body at a time.                 *)
(***************************************************************************)
EXTENDS Integers

CONSTANTS
  Readers,
  MaxBytes, \* the size limit, in chunks
  MaxClock  \* bound: the time that passes

ASSUME BodyAssumption == MaxBytes \in Nat /\ MaxClock \in Nat

VARIABLES
  clock,    \* monotonic time, in ticks
  body      \* body[r]: the body that r reads or has just read

Never == -1   \* no timer

NoBody == [result |-> "none", stream |-> "none", held |-> FALSE, size |-> 0, timer |-> Never]

BodyTypeOK ==
  body \in [Readers -> [result : {"none", "value", "BODY_TOO_LARGE", "BODY_EMPTY", "BODY_TIMEOUT",
                                  "BODY_ABORTED", "BODY_INVALID_JSON"},
                        stream : {"none", "open", "consumed", "cancelled"},
                        held : BOOLEAN, size : 0..MaxBytes + 1, timer : Nat \cup {Never}]]

Reading(r) == body[r].held
Settled(r) == body[r].result # "none"

(* Variant: the timer is started when the first chunk arrives.             *)
OpenUntimed(r, limit) ==
  \E b \in {[NoBody EXCEPT !.result = "BODY_EMPTY"],
            [NoBody EXCEPT !.stream = "open", !.held = TRUE]} :
    body' = [body EXCEPT ![r] = b]

(* What the stream of a new body turns out to be: too large by its own     *)
(* declaration, which costs no reader; none at all; or one to be read.     *)
Open(r, limit) ==
  \E b \in {[NoBody EXCEPT !.result = "BODY_TOO_LARGE", !.stream = "cancelled"],
            [NoBody EXCEPT !.result = "BODY_EMPTY"],
            [NoBody EXCEPT !.stream = "open", !.held = TRUE, !.timer = clock + limit]} :
    body' = [body EXCEPT ![r] = b]

(* Variant: whoever is late stays: the stream is left to its sender.       *)
AbandonStream(r, result, rest) ==
  body' = [body EXCEPT ![r] = [@ EXCEPT !.result = result, !.held = FALSE, !.timer = Never,
                               !.stream = IF rest = "cancelled" /\ result = "BODY_TIMEOUT"
                                          THEN "open" ELSE rest]]

(* The finally block, then the error or the parsed value.                  *)
LetGo(r, result, rest) ==
  body' = [body EXCEPT ![r] = [@ EXCEPT !.result = result, !.held = FALSE, !.timer = Never,
                               !.stream = rest]]

Chunk(r) ==
  /\ Reading(r)
  /\ IF body[r].size + 1 > MaxBytes THEN LetGo(r, "BODY_TOO_LARGE", "cancelled")
     ELSE body' = [body EXCEPT ![r].size = @ + 1]

EndOfStream(r) ==
  /\ Reading(r)
  /\ \E result \in {"value", "BODY_INVALID_JSON"} : LetGo(r, result, "consumed")

AbortBody(r) == Reading(r) /\ LetGo(r, "BODY_ABORTED", "cancelled")

BodyTimeout(r) ==
  /\ Reading(r) /\ body[r].timer # Never /\ body[r].timer <= clock
  /\ LetGo(r, "BODY_TIMEOUT", "cancelled")

(* The caller has the result.                                              *)
Forget(r) == body' = [body EXCEPT ![r] = NoBody]

(* A timer runs as soon as it is due: time does not pass over it.          *)
NotDue(time) == time = Never \/ time > clock

-----------------------------------------------------------------------------
(* Properties.                                                             *)

(* Whoever ends the read, nothing of it stays behind: the reader's lock is *)
(* released, no timer will fire later, and the sender is told to stop      *)
(* unless the stream was read to its end.                                  *)
ReadersLetGo ==
  \A r \in Readers : Settled(r) =>
    /\ ~body[r].held /\ body[r].timer = Never
    /\ body[r].stream # "open"
    /\ body[r].result \in {"value", "BODY_INVALID_JSON"} <=> body[r].stream = "consumed"
-----------------------------------------------------------------------------
(* What the proofs of this property need: a stronger invariant.            *)

(* A reader that is held has its timer and an open stream; otherwise there *)
(* is no timer.                                                            *)
HeldInv(r) ==
  IF Reading(r) THEN ~Settled(r) /\ body[r].timer # Never /\ body[r].stream = "open"
  ELSE body[r].timer = Never

BodyInv == BodyTypeOK /\ ReadersLetGo /\ \A r \in Readers : HeldInv(r)
=============================================================================
