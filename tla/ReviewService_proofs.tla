------------------------ MODULE ReviewService_proofs -------------------------
(***************************************************************************)
(* Proofs about the service, for every number of visitors, every time limit*)
(* and every size of a batch: bodies are let go, the model slot comes back *)
(* in time, a memo that is handed out is settled, nothing is sent to the   *)
(* provider long after the review, logins are limited, a batch pays for    *)
(* nothing twice, and the browser accepts every run of a question.         *)
(***************************************************************************)
EXTENDS ReviewService, SequenceTheorems, FiniteSetTheorems, TLAPS

-----------------------------------------------------------------------------
(* Bodies.                                                                 *)

Results == {"none", "value", "BODY_TOO_LARGE", "BODY_EMPTY", "BODY_TIMEOUT", "BODY_ABORTED",
            "BODY_INVALID_JSON"}
Body == [result : Results, stream : {"none", "open", "consumed", "cancelled"}, held : BOOLEAN,
         size : 0..MaxBytes + 1, timer : Nat \cup {Never}]

(* What the invariant says of the body b of one reader.                    *)
BodyHolds(b) ==
  /\ b \in Body
  /\ b.result # "none" =>
       /\ ~b.held /\ b.timer = Never /\ b.stream # "open"
       /\ b.result \in {"value", "BODY_INVALID_JSON"} <=> b.stream = "consumed"
  /\ IF b.held THEN b.result = "none" /\ b.timer # Never /\ b.stream = "open" ELSE b.timer = Never

LEMMA BodiesHold == BodyInv <=> /\ body \in [Readers -> Body]
                                /\ \A r \in Readers : BodyHolds(body[r])
<1>1. BodyTypeOK <=> body \in [Readers -> Body]
  BY DEF BodyTypeOK, Body, Results
<1>2. ASSUME body \in [Readers -> Body], NEW r \in Readers
      PROVE  BodyHolds(body[r]) <=>
               /\ HeldInv(r)
               /\ Settled(r) =>
                    /\ ~body[r].held /\ body[r].timer = Never
                    /\ body[r].stream # "open"
                    /\ body[r].result \in {"value", "BODY_INVALID_JSON"} <=> body[r].stream = "consumed"
  BY <1>2 DEF BodyHolds, HeldInv, Settled, Reading
<1> QED BY <1>1, <1>2 DEF BodyInv, ReadersLetGo

(* The body of one reader is replaced by another that is in order.         *)
LEMMA BodyReplaced ==
  ASSUME BodyInv, NEW r \in Readers, NEW b, BodyHolds(b), body' = [body EXCEPT ![r] = b]
  PROVE  /\ BodyInv' /\ body'[r] = b
         /\ \A s \in Readers : s # r => body'[s] = body[s]
<1>1. body \in [Readers -> Body] /\ \A s \in Readers : BodyHolds(body[s])
  BY BodiesHold
<1>2. /\ body' \in [Readers -> Body] /\ body'[r] = b
      /\ \A s \in Readers : s # r => body'[s] = body[s]
  BY <1>1 DEF BodyHolds
<1>3. \A s \in Readers : BodyHolds(body'[s])
  BY <1>1, <1>2
<1>4. BodyTypeOK'
  BY <1>2 DEF BodyTypeOK, Body, Results
<1>5. ASSUME NEW s \in Readers PROVE HeldInv(s)'
  BY <1>3, <1>5 DEF BodyHolds, HeldInv, Settled, Reading
<1>6. ReadersLetGo'
  BY <1>3 DEF BodyHolds, ReadersLetGo, Settled
<1> QED BY <1>2, <1>4, <1>5, <1>6 DEF BodyInv

LEMMA NoBodyHolds == BodyHolds(NoBody)
BY BodyAssumption DEF BodyHolds, NoBody, Body, Results, Never

(* A new body is refused, or is read with a timer.                         *)
LEMMA OpenBody ==
  ASSUME BodyInv, clock \in Nat, NEW r \in Readers, NEW limit \in Nat, Open(r, limit)
  PROVE  /\ BodyInv' /\ (\A s \in Readers : s # r => body'[s] = body[s])
         /\ Reading(r)' => body'[r].timer = clock + limit
<1>1. PICK b \in {[NoBody EXCEPT !.result = "BODY_TOO_LARGE", !.stream = "cancelled"],
                  [NoBody EXCEPT !.result = "BODY_EMPTY"],
                  [NoBody EXCEPT !.stream = "open", !.held = TRUE, !.timer = clock + limit]} :
        body' = [body EXCEPT ![r] = b]
  BY DEF Open
<1>2. ASSUME b = [NoBody EXCEPT !.result = "BODY_TOO_LARGE", !.stream = "cancelled"]
      PROVE  BodyHolds(b)
  <2>1. b = [result |-> "BODY_TOO_LARGE", stream |-> "cancelled", held |-> FALSE, size |-> 0, timer |-> Never]
    BY <1>2 DEF NoBody
  <2>2. b \in Body
    BY <2>1, BodyAssumption DEF Body, Results
  <2>3. b.result = "BODY_TOO_LARGE" /\ b.stream = "cancelled" /\ ~b.held /\ b.timer = Never
    BY <2>1
  <2> QED BY <2>2, <2>3 DEF BodyHolds
<1>3. ASSUME b = [NoBody EXCEPT !.result = "BODY_EMPTY"]
      PROVE  BodyHolds(b)
  <2>1. b = [result |-> "BODY_EMPTY", stream |-> "none", held |-> FALSE, size |-> 0, timer |-> Never]
    BY <1>3 DEF NoBody
  <2>2. b \in Body
    BY <2>1, BodyAssumption DEF Body, Results
  <2>3. b.result = "BODY_EMPTY" /\ b.stream = "none" /\ ~b.held /\ b.timer = Never
    BY <2>1
  <2> QED BY <2>2, <2>3 DEF BodyHolds
<1>4. ASSUME b = [NoBody EXCEPT !.stream = "open", !.held = TRUE, !.timer = clock + limit]
      PROVE  BodyHolds(b)
  <2>1. clock + limit \in Nat /\ clock + limit # Never
    BY DEF Never
  <2>2. b = [result |-> "none", stream |-> "open", held |-> TRUE, size |-> 0, timer |-> clock + limit]
    BY <1>4 DEF NoBody
  <2>3. b \in Body
    BY <2>1, <2>2, BodyAssumption DEF Body, Results
  <2>4. b.result = "none" /\ b.stream = "open" /\ b.held /\ b.timer = clock + limit
    BY <2>2
  <2> QED BY <2>1, <2>3, <2>4 DEF BodyHolds
<1>5. BodyHolds(b) /\ (b.held => b.timer = clock + limit)
  <2>1. CASE b = [NoBody EXCEPT !.stream = "open", !.held = TRUE, !.timer = clock + limit]
    BY <1>4, <2>1 DEF NoBody
  <2>2. CASE \/ b = [NoBody EXCEPT !.result = "BODY_TOO_LARGE", !.stream = "cancelled"]
             \/ b = [NoBody EXCEPT !.result = "BODY_EMPTY"]
    BY <1>2, <1>3, <2>2 DEF NoBody
  <2> QED BY <1>1, <2>1, <2>2
<1> QED BY <1>1, <1>5, BodyReplaced DEF Reading

(* Whoever ends the read lets everything go.                               *)
LEMMA LetGoBody ==
  ASSUME BodyInv, NEW r \in Readers, Reading(r), NEW result \in Results \ {"none"},
         NEW rest \in {"consumed", "cancelled"}, LetGo(r, result, rest),
         result \in {"value", "BODY_INVALID_JSON"} <=> rest = "consumed"
  PROVE  /\ BodyInv' /\ (\A s \in Readers : s # r => body'[s] = body[s])
         /\ ~Reading(r)'
<1>1. BodyHolds(body[r])
  BY BodiesHold
<1>2. PICK b : b = [body[r] EXCEPT !.result = result, !.held = FALSE, !.timer = Never, !.stream = rest]
  OBVIOUS
<1>3. BodyHolds(b) /\ ~b.held
  BY <1>1, <1>2 DEF BodyHolds, Body
<1>4. body' = [body EXCEPT ![r] = b]
  BY <1>2 DEF LetGo
<1> QED BY <1>3, <1>4, BodyReplaced DEF Reading

LEMMA ForgetBody ==
  ASSUME BodyInv, NEW r \in Readers, Forget(r)
  PROVE  /\ BodyInv' /\ (\A s \in Readers : s # r => body'[s] = body[s])
         /\ ~Reading(r)'
<1>1. body' = [body EXCEPT ![r] = NoBody] /\ ~NoBody.held
  BY DEF Forget, NoBody
<1> QED BY <1>1, NoBodyHolds, BodyReplaced DEF Reading

(* What the stream brings, or the timer or the signal ends.                *)
LEMMA StreamBody ==
  ASSUME BodyInv, NEW r \in Readers, Chunk(r) \/ EndOfStream(r) \/ BodyTimeout(r) \/ AbortBody(r)
  PROVE  /\ BodyInv' /\ (\A s \in Readers : s # r => body'[s] = body[s])
         /\ Reading(r) /\ (Reading(r)' => body'[r].timer = body[r].timer)
<1>1. BodyHolds(body[r]) /\ Reading(r)
  BY BodiesHold DEF Chunk, EndOfStream, BodyTimeout, AbortBody
<1>2. CASE /\ Chunk(r) /\ ~(body[r].size + 1 > MaxBytes)
  <2>1. PICK b : b = [body[r] EXCEPT !.size = @ + 1]
    OBVIOUS
  <2>2. BodyHolds(b) /\ b.timer = body[r].timer
    BY <1>1, <1>2, <2>1, BodyAssumption DEF BodyHolds, Body
  <2>3. body' = [body EXCEPT ![r] = b]
    BY <1>2, <2>1 DEF Chunk
  <2> QED BY <1>1, <2>2, <2>3, BodyReplaced
<1>3. CASE Chunk(r) /\ body[r].size + 1 > MaxBytes
  BY <1>1, <1>3, LetGoBody DEF Chunk, Results
<1>4. CASE EndOfStream(r)
  <2>1. PICK result \in {"value", "BODY_INVALID_JSON"} : LetGo(r, result, "consumed")
    BY <1>4 DEF EndOfStream
  <2> QED BY <1>1, <2>1, LetGoBody DEF Results
<1>5. CASE BodyTimeout(r)
  BY <1>1, <1>5, LetGoBody DEF BodyTimeout, Results
<1>6. CASE AbortBody(r)
  BY <1>1, <1>6, LetGoBody DEF AbortBody, Results
<1> QED BY <1>2, <1>3, <1>4, <1>5, <1>6

-----------------------------------------------------------------------------
(* The model slot: what concerns one visitor.                              *)

(* The part of MemoIsSettled about visitor v.                              *)
Settles(v) == stage[v] = "release" /\ run[v] = "completed" => spent[v] = "settled"

VisitorHolds(v) == HolderInTime(v) /\ NoOutcomeYet(v) /\ Settles(v)

(* A visitor whose request does not move stays in order; if it holds the   *)
(* slot, nobody else takes or returns it.                                  *)
LEMMA OtherHolds ==
  ASSUME MemoInv, NEW v \in Readers, NEW s \in Readers, s # v, clock' = clock, setBacks' = setBacks,
         stage'[s] = stage[s], call'[s] = call[s], run'[s] = run[s], spent'[s] = spent[s],
         body'[s] = body[s],
         (slot' = slot /\ since' = since) \/ slot = "free" \/ slot = v
  PROVE  VisitorHolds(s)'
<1>1. s # "free" /\ HolderInTime(s) /\ NoOutcomeYet(s) /\ Settles(s)
  BY HandlerAssumption DEF MemoInv, MemoIsSettled, Settles
<1>2. Reading(s)' <=> Reading(s)
  BY DEF Reading
<1>3. HolderInTime(s)'
  BY <1>1, <1>2 DEF HolderInTime
<1> QED BY <1>1, <1>3 DEF VisitorHolds, NoOutcomeYet, Settles

(* So that a step of one visitor is in order when it is for the visitor.   *)
LEMMA StepHolds ==
  ASSUME MemoInv, NEW v \in Readers, HandlerTypeOK', BodyInv', clock' = clock, setBacks' = setBacks,
         \A s \in Readers : s # v =>
           /\ stage'[s] = stage[s] /\ call'[s] = call[s] /\ run'[s] = run[s] /\ spent'[s] = spent[s]
           /\ body'[s] = body[s],
         \/ slot' = slot /\ since' = since /\ (stage[v] \in Holding <=> stage'[v] \in Holding)
         \/ slot = "free" /\ slot' = v /\ since' = clock /\ stage'[v] \in Holding
         \/ slot = v /\ slot' = "free" /\ since' = 0,
         VisitorHolds(v)'
  PROVE  MemoInv'
<1>1. \A s \in Readers : VisitorHolds(s)'
  <2> TAKE s \in Readers
  <2>1. CASE s # v
    BY <2>1, OtherHolds
  <2> QED BY <2>1
<1>2. (0 <= wall)' /\ (since <= clock)'
  BY DEF MemoInv, wall, HandlerTypeOK
<1>3. (slot # "free" => stage[slot] \in Holding)'
  BY DEF MemoInv, HandlerTypeOK
<1>4. MemoIsSettled'
  BY <1>1 DEF VisitorHolds, Settles, MemoIsSettled
<1> QED BY <1>1, <1>2, <1>3, <1>4 DEF MemoInv, VisitorHolds

LEMMA HandlerTypes ==
  ASSUME MemoInv
  PROVE  /\ HandlerTypeOK /\ BodyInv /\ clock \in Nat /\ wall \in 0..MaxClock /\ setBacks \in Nat
         /\ MaxClock \in Nat /\ RequestTime \in Nat /\ ProviderTime \in Nat /\ since \in Nat
BY BodyAssumption, AccessAssumption, HandlerAssumption DEF MemoInv, HandlerTypeOK, wall

-----------------------------------------------------------------------------
(* The model slot: one lemma for each action.                              *)

LEMMA TickHolds ==
  ASSUME MemoInv, Tick
  PROVE  MemoInv'
<1>0. HandlerTypeOK /\ BodyInv /\ clock \in Nat /\ clock < MaxClock /\ clock' = clock + 1
  BY HandlerTypes DEF Tick
<1>1. /\ body' = body /\ stage' = stage /\ slot' = slot /\ since' = since /\ call' = call /\ run' = run
      /\ spent' = spent /\ setBacks' = setBacks /\ open' = open /\ session' = session
      /\ limiter' = limiter /\ logins' = logins
  BY DEF Tick, accessVars, handlerVars
<1>2. HandlerTypeOK'
  <2>1. clock' \in 0..MaxClock
    BY <1>0, HandlerTypes DEF HandlerTypeOK
  <2> QED BY <1>0, <1>1, <2>1 DEF HandlerTypeOK, BodyTypeOK
<1>3. BodyInv'
  BY <1>0, <1>1 DEF BodyInv, BodyTypeOK, ReadersLetGo, HeldInv, Settled, Reading
<1>4. ASSUME NEW v \in Readers PROVE HolderInTime(v)'
  <2>1. HolderInTime(v) /\ Waiting(v) /\ HeldInv(v)
    BY <1>0 DEF MemoInv, Tick, BodyInv
  <2>2. /\ since \in Nat /\ RequestTime \in Nat /\ ProviderTime \in Nat
        /\ call[v].ends \in Nat \cup {Never} /\ body[v].timer \in Nat \cup {Never}
    BY <1>0, HandlerTypes DEF HandlerTypeOK, BodyTypeOK
  <2>3. CASE stage[v] = "body"
    <3>1. body[v].timer = since + RequestTime /\ body[v].timer > clock
      BY <2>1, <2>3 DEF HolderInTime, Waiting, NotDue, HeldInv, Holding
    <3> QED BY <1>0, <1>1, <2>1, <2>2, <2>3, <3>1 DEF HolderInTime, Holding, Reading
  <2>4. CASE stage[v] \in {"fetch", "response"}
    <3>1. call[v].ends > clock /\ call[v].ends # Never
      BY <2>1, <2>4 DEF HolderInTime, Waiting, NotDue, Holding
    <3> QED BY <1>0, <1>1, <2>1, <2>2, <2>4, <3>1 DEF HolderInTime, Holding, Never
  <2>5. CASE stage[v] \notin Holding
    BY <1>1, <2>5 DEF HolderInTime
  <2> QED BY <2>1, <2>3, <2>4, <2>5 DEF Waiting, Holding
<1>5. (0 <= wall)' /\ (since <= clock)'
  BY <1>0, <1>1, HandlerTypes DEF MemoInv, wall
<1>6. (\A v \in Readers : NoOutcomeYet(v))' /\ MemoIsSettled'
  BY <1>1 DEF MemoInv, NoOutcomeYet, MemoIsSettled
<1> QED BY <1>1, <1>2, <1>3, <1>4, <1>5, <1>6 DEF MemoInv

(* Setting the wall clock back postpones no timer, and makes the slot's    *)
(* wall time only earlier.                                                 *)
LEMMA SetBackHolds ==
  ASSUME MemoInv, SetBack, UNCHANGED handlerVars
  PROVE  MemoInv'
<1>0. HandlerTypeOK /\ BodyInv /\ clock \in Nat /\ setBacks \in Nat /\ since \in Nat
  BY HandlerTypes
<1>1. /\ body' = body /\ stage' = stage /\ slot' = slot /\ since' = since /\ call' = call /\ run' = run
      /\ spent' = spent /\ clock' = clock /\ open' = open /\ session' = session
      /\ limiter' = limiter /\ logins' = logins
      /\ setBacks < MaxSetBacks /\ wall > 0 /\ setBacks' = setBacks + 1
  BY DEF SetBack, handlerVars
<1>2. HandlerTypeOK'
  <2>1. setBacks' \in 0..MaxSetBacks
    BY <1>0, <1>1, AccessAssumption
  <2> QED BY <1>0, <1>1, <2>1 DEF HandlerTypeOK, BodyTypeOK
<1>3. BodyInv'
  BY <1>0, <1>1 DEF BodyInv, BodyTypeOK, ReadersLetGo, HeldInv, Settled, Reading
<1>4. ASSUME NEW v \in Readers PROVE HolderInTime(v)'
  <2>1. HolderInTime(v)
    BY DEF MemoInv
  <2> QED BY <1>0, <1>1, <2>1, AccessAssumption DEF HolderInTime, Reading
<1>5. (0 <= wall)' /\ (since <= clock)'
  BY <1>0, <1>1 DEF MemoInv, wall
<1>6. (\A v \in Readers : NoOutcomeYet(v))' /\ MemoIsSettled'
  BY <1>1 DEF MemoInv, NoOutcomeYet, MemoIsSettled
<1> QED BY <1>1, <1>2, <1>3, <1>4, <1>5, <1>6 DEF MemoInv

(* Logging in and out needs no slot; the body of a login is the visitor's  *)
(* own.                                                                    *)
LEMMA AccessHolds ==
  ASSUME MemoInv, NEW v \in Readers, Access(v)
  PROVE  MemoInv'
<1>0. /\ HandlerTypeOK /\ BodyInv /\ clock \in Nat /\ wall \in 0..MaxClock /\ RequestTime \in Nat
      /\ HolderInTime(v) /\ NoOutcomeYet(v)
  BY HandlerTypes DEF MemoInv
<1>1. /\ slot' = slot /\ since' = since /\ call' = call /\ run' = run /\ spent' = spent
      /\ clock' = clock /\ setBacks' = setBacks /\ open' = open
  BY DEF Access, handlerVars, Login, LoginRead, Logout
<1>2. /\ stage[v] \in {"none", "login"} /\ stage'[v] \in {"none", "login"}
      /\ stage' \in [Readers -> {"none", "login", "body", "reserve", "fetch", "response", "settle", "release"}]
      /\ \A s \in Readers : s # v => stage'[s] = stage[s]
  BY <1>0 DEF HandlerTypeOK, Access, Login, LoginRead, Logout
<1>3. session' \in [Readers -> 0..MaxClock \cup {Never}]
  BY <1>0 DEF HandlerTypeOK, Access, Login, LoginRead, IssueSession, Logout
<1>4. limiter' \in [started : 0..MaxClock, attempts : 0..Limit + 1] /\ logins' \in [0..MaxClock -> Nat]
  <2>1. CASE Login(v)
    <3>1. Attempt \in [started : 0..MaxClock, attempts : 0..Limit + 1]
      <4>1. CASE Restarts
        BY <1>0, <4>1, AccessAssumption DEF Attempt
      <4>2. CASE ~Restarts
        <5>1. PICK n \in 0..Limit + 1 : n = limiter.attempts
          BY <1>0 DEF HandlerTypeOK
        <5>2. PICK m \in 0..Limit + 1 : m = IF n > Limit THEN n ELSE n + 1
          BY AccessAssumption
        <5>3. Attempt = [started |-> limiter.started, attempts |-> m]
          BY <1>0, <4>2, <5>1, <5>2 DEF Attempt, HandlerTypeOK
        <5> QED BY <1>0, <5>3 DEF HandlerTypeOK
      <4> QED BY <4>1, <4>2
    <3>2. limiter' = Attempt
      BY <2>1 DEF Login
    <3>3. logins' \in [0..MaxClock -> Nat]
      BY <1>0, <2>1 DEF HandlerTypeOK, Login
    <3> QED BY <1>0, <3>1, <3>2, <3>3 DEF HandlerTypeOK
  <2>2. CASE ~Login(v)
    BY <1>0, <2>2 DEF HandlerTypeOK, Access, LoginRead, Logout
  <2> QED BY <2>1, <2>2
<1>5. BodyInv' /\ \A s \in Readers : s # v => body'[s] = body[s]
  <2>1. CASE body' = body
    BY <1>0, <2>1 DEF BodyInv, BodyTypeOK, ReadersLetGo, HeldInv, Settled, Reading
  <2>2. CASE Open(v, RequestTime)
    BY <1>0, <2>2, OpenBody
  <2>3. CASE Forget(v)
    BY <1>0, <2>3, ForgetBody
  <2> QED BY <2>1, <2>2, <2>3 DEF Access, Login, LoginRead, Logout
<1>6. HandlerTypeOK'
  BY <1>0, <1>1, <1>2, <1>3, <1>4, <1>5 DEF HandlerTypeOK, BodyInv
<1>7. VisitorHolds(v)'
  BY <1>0, <1>1, <1>2 DEF VisitorHolds, HolderInTime, NoOutcomeYet, Settles, Holding
<1> QED BY <1>1, <1>2, <1>5, <1>6, <1>7, StepHolds DEF Holding

(* The body of a request moves on by itself; its timer stays what it was.  *)
LEMMA StreamHolds ==
  ASSUME MemoInv, NEW v \in Readers, Stream(v) \/ SignalBody(v)
  PROVE  MemoInv'
<1>0. HandlerTypeOK /\ BodyInv /\ HolderInTime(v) /\ NoOutcomeYet(v) /\ Settles(v)
  BY HandlerTypes DEF MemoInv, MemoIsSettled, Settles
<1>1. /\ slot' = slot /\ since' = since /\ call' = call /\ run' = run /\ spent' = spent
      /\ clock' = clock /\ setBacks' = setBacks /\ open' = open /\ session' = session
      /\ limiter' = limiter /\ logins' = logins /\ stage' = stage
  BY DEF Stream, SignalBody, accessVars, handlerVars
<1>2. /\ BodyInv' /\ (\A s \in Readers : s # v => body'[s] = body[s])
      /\ Reading(v) /\ (Reading(v)' => body'[v].timer = body[v].timer)
  BY <1>0, StreamBody DEF Stream, SignalBody
<1>3. HandlerTypeOK'
  BY <1>0, <1>1, <1>2 DEF HandlerTypeOK, BodyInv
<1>4. VisitorHolds(v)'
  BY <1>0, <1>1, <1>2 DEF VisitorHolds, HolderInTime, NoOutcomeYet, Settles
<1> QED BY <1>1, <1>2, <1>3, <1>4, StepHolds

(* The slot is taken together with the timer of the body, by a visitor who *)
(* has a session now.                                                      *)
LEMMA PostHolds ==
  ASSUME MemoInv, NEW v \in Readers, Post(v)
  PROVE  MemoInv'
<1>0. /\ HandlerTypeOK /\ BodyInv /\ clock \in Nat /\ wall \in 0..MaxClock /\ RequestTime \in Nat
      /\ ProviderTime \in Nat /\ setBacks \in Nat
      /\ HolderInTime(v) /\ NoOutcomeYet(v) /\ stage[v] = "none"
  BY HandlerTypes DEF MemoInv, Post
<1>1. /\ clock' = clock /\ setBacks' = setBacks /\ open' = open /\ limiter' = limiter
      /\ logins' = logins /\ call' = call /\ run' = run /\ spent' = spent
  BY DEF Post
<1>2. session' \in [Readers -> 0..MaxClock \cup {Never}]
  BY <1>0 DEF Post, SessionAfterProxy, IssueSession, HandlerTypeOK
<1>3. CASE HasSession(v)' /\ slot = "free"
  <2>1. /\ slot' = v /\ since' = clock /\ Open(v, RequestTime) /\ stage' = [stage EXCEPT ![v] = "body"]
    BY <1>3 DEF Post
  <2>2. /\ BodyInv' /\ (\A s \in Readers : s # v => body'[s] = body[s])
        /\ Reading(v)' => body'[v].timer = clock + RequestTime
    BY <1>0, <2>1, OpenBody
  <2>3. /\ stage'[v] = "body" /\ \A s \in Readers : s # v => stage'[s] = stage[s]
    BY <1>0, <2>1 DEF HandlerTypeOK
  <2>4. since' - setBacks' <= Deadline
    BY <1>1, <1>3, <2>1 DEF HasSession, AccessOpen, wall
  <2>5. HandlerTypeOK'
    <3>1. since' \in 0..MaxClock /\ slot' \in Readers \cup {"free"}
      BY <1>0, <2>1 DEF HandlerTypeOK
    <3>2. stage' \in [Readers -> {"none", "login", "body", "reserve", "fetch", "response", "settle", "release"}]
      BY <1>0, <2>1 DEF HandlerTypeOK
    <3> QED BY <1>0, <1>1, <1>2, <2>2, <3>1, <3>2 DEF HandlerTypeOK, BodyInv
  <2>6. VisitorHolds(v)'
    BY <1>0, <1>1, <2>1, <2>2, <2>3, <2>4 DEF VisitorHolds, HolderInTime, NoOutcomeYet, Settles, Holding
  <2> QED BY <1>1, <1>3, <2>1, <2>2, <2>3, <2>5, <2>6, StepHolds DEF Holding
<1>4. CASE ~(HasSession(v)' /\ slot = "free")
  <2>1. slot' = slot /\ since' = since /\ body' = body /\ stage' = stage
    BY <1>4 DEF Post
  <2>2. BodyInv'
    BY <1>0, <2>1 DEF BodyInv, BodyTypeOK, ReadersLetGo, HeldInv, Settled, Reading
  <2>3. HandlerTypeOK'
    BY <1>0, <1>1, <1>2, <2>1, <2>2 DEF HandlerTypeOK, BodyInv
  <2>4. VisitorHolds(v)'
    BY <1>0, <1>1, <2>1 DEF VisitorHolds, HolderInTime, NoOutcomeYet, Settles, Holding
  <2> QED BY <1>1, <2>1, <2>2, <2>3, <2>4, StepHolds
<1> QED BY <1>3, <1>4

(* What every later action of the request in the slot starts from.         *)
LEMMA InTheSlot ==
  ASSUME MemoInv, NEW v \in Readers
  PROVE  /\ HandlerTypeOK /\ BodyInv /\ HolderInTime(v) /\ NoOutcomeYet(v)
         /\ clock \in Nat /\ wall \in 0..MaxClock /\ ProviderTime \in Nat /\ since \in Nat
         /\ call[v].ends \in Nat \cup {Never}
BY HandlerTypes DEF MemoInv, HandlerTypeOK

(* A step of the request from one stage to another moves that one only.    *)
LEMMA Moved ==
  ASSUME HandlerTypeOK, NEW v \in Readers, NEW here, NEW there, At(v, here, there),
         there \in {"none", "login", "body", "reserve", "fetch", "response", "settle", "release"}
  PROVE  /\ stage[v] = here /\ stage'[v] = there
         /\ stage' \in [Readers -> {"none", "login", "body", "reserve", "fetch", "response", "settle", "release"}]
         /\ \A s \in Readers : s # v => stage'[s] = stage[s]
BY DEF HandlerTypeOK, At

LEMMA OutcomeNoted ==
  ASSUME HandlerTypeOK, NEW v \in Readers, NEW o \in Outcomes \cup {"none"}, Outcome(v, o)
  PROVE  /\ run' \in [Readers -> Outcomes \cup {"none"}] /\ run'[v] = o
         /\ \A s \in Readers : s # v => run'[s] = run[s]
BY DEF HandlerTypeOK, Outcome

(* A body that is not touched stays in order.                              *)
LEMMA BodyUntouched ==
  ASSUME BodyInv, body' = body
  PROVE  BodyInv'
BY DEF BodyInv, BodyTypeOK, ReadersLetGo, HeldInv, Settled, Reading

LEMMA BodyReadHolds ==
  ASSUME MemoInv, NEW v \in Readers, BodyRead(v)
  PROVE  MemoInv'
<1>0. /\ HandlerTypeOK /\ BodyInv /\ HolderInTime(v) /\ NoOutcomeYet(v) /\ wall \in 0..MaxClock
  BY InTheSlot
<1>1. /\ slot' = slot /\ since' = since /\ run' = run /\ spent' = spent
      /\ clock' = clock /\ setBacks' = setBacks /\ open' = open /\ session' = session
      /\ limiter' = limiter /\ logins' = logins
  BY DEF BodyRead, accessVars
<1>2. /\ stage[v] = "body" /\ stage'[v] \in {"reserve", "release"}
      /\ stage' \in [Readers -> {"none", "login", "body", "reserve", "fetch", "response", "settle", "release"}]
      /\ \A s \in Readers : s # v => stage'[s] = stage[s]
  BY <1>0, Moved DEF BodyRead
<1>3. /\ call' \in [Readers -> [began : 0..MaxClock, ends : Nat \cup {Never}]]
      /\ \A s \in Readers : s # v => call'[s] = call[s]
  <2>1. CASE call' = call
    BY <1>0, <2>1 DEF HandlerTypeOK
  <2>2. CASE call' = [call EXCEPT ![v] = [began |-> wall, ends |-> Never]]
    BY <1>0, <2>2 DEF HandlerTypeOK
  <2> QED BY <2>1, <2>2 DEF BodyRead
<1>4. BodyInv' /\ (\A s \in Readers : s # v => body'[s] = body[s])
  BY <1>0, ForgetBody DEF BodyRead
<1>5. HandlerTypeOK'
  BY <1>0, <1>1, <1>2, <1>3, <1>4 DEF HandlerTypeOK, BodyInv
<1>6. VisitorHolds(v)'
  BY <1>0, <1>1, <1>2 DEF VisitorHolds, HolderInTime, NoOutcomeYet, Settles, Holding
<1> QED BY <1>1, <1>2, <1>3, <1>4, <1>5, <1>6, StepHolds DEF Holding

(* The signal of the exchange is started no later than a body may take     *)
(* after the slot was taken.                                               *)
LEMMA ReserveHolds ==
  ASSUME MemoInv, NEW v \in Readers, Reserve(v)
  PROVE  MemoInv'
<1>0. /\ HandlerTypeOK /\ BodyInv /\ HolderInTime(v) /\ NoOutcomeYet(v)
      /\ clock \in Nat /\ ProviderTime \in Nat /\ since \in Nat /\ RequestTime \in Nat
  BY InTheSlot, AccessAssumption
<1>1. /\ slot' = slot /\ since' = since /\ body' = body
      /\ clock' = clock /\ setBacks' = setBacks /\ open' = open /\ session' = session
      /\ limiter' = limiter /\ logins' = logins
  BY DEF Reserve, accessVars
<1>2. BodyInv'
  BY <1>0, <1>1, BodyUntouched
<1>3. CASE /\ At(v, "reserve", "fetch")
           /\ spent' = [spent EXCEPT ![v] = "reserved"]
           /\ call' = [call EXCEPT ![v].ends = clock + ProviderTime]
           /\ UNCHANGED run
  <2>1. /\ stage[v] = "reserve" /\ stage'[v] = "fetch"
        /\ stage' \in [Readers -> {"none", "login", "body", "reserve", "fetch", "response", "settle", "release"}]
        /\ \A s \in Readers : s # v => stage'[s] = stage[s]
    BY <1>0, <1>3, Moved
  <2>2. clock + ProviderTime \in Nat /\ clock + ProviderTime # Never
    BY <1>0 DEF Never
  <2>3. /\ call' \in [Readers -> [began : 0..MaxClock, ends : Nat \cup {Never}]]
        /\ call'[v].ends = clock + ProviderTime
        /\ \A s \in Readers : s # v => call'[s] = call[s]
    BY <1>0, <1>3, <2>2 DEF HandlerTypeOK
  <2>4. /\ spent' \in [Readers -> {"none", "reserved", "settled"}]
        /\ \A s \in Readers : s # v => spent'[s] = spent[s]
    BY <1>0, <1>3 DEF HandlerTypeOK
  <2>5. HandlerTypeOK'
    BY <1>0, <1>1, <1>2, <1>3, <2>1, <2>3, <2>4 DEF HandlerTypeOK, BodyInv
  <2>6. HolderInTime(v)'
    BY <1>0, <1>1, <2>1, <2>2, <2>3 DEF HolderInTime, Holding
  <2>7. VisitorHolds(v)'
    BY <2>1, <2>6 DEF VisitorHolds, NoOutcomeYet, Settles
  <2> QED BY <1>1, <1>2, <1>3, <2>1, <2>3, <2>4, <2>5, <2>7, StepHolds DEF Holding
<1>4. CASE At(v, "reserve", "release") /\ Outcome(v, "failed") /\ UNCHANGED <<spent, call>>
  <2>1. /\ stage[v] = "reserve" /\ stage'[v] = "release"
        /\ stage' \in [Readers -> {"none", "login", "body", "reserve", "fetch", "response", "settle", "release"}]
        /\ \A s \in Readers : s # v => stage'[s] = stage[s]
    BY <1>0, <1>4, Moved
  <2>2. /\ run' \in [Readers -> Outcomes \cup {"none"}] /\ run'[v] = "failed"
        /\ \A s \in Readers : s # v => run'[s] = run[s]
    BY <1>0, <1>4, OutcomeNoted DEF Outcomes
  <2>3. HandlerTypeOK'
    BY <1>0, <1>1, <1>2, <1>4, <2>1, <2>2 DEF HandlerTypeOK, BodyInv
  <2>4. VisitorHolds(v)'
    BY <1>0, <1>1, <2>1, <2>2 DEF VisitorHolds, HolderInTime, NoOutcomeYet, Settles, Holding
  <2> QED BY <1>1, <1>2, <1>4, <2>1, <2>2, <2>3, <2>4, StepHolds DEF Holding
<1> QED BY <1>3, <1>4 DEF Reserve

(* The exchange with the provider, up to its outcome.                      *)
LEMMA ExchangeHolds ==
  ASSUME MemoInv, NEW v \in Readers, FetchFails(v) \/ ResponseRead(v)
  PROVE  MemoInv'
<1>0. /\ HandlerTypeOK /\ BodyInv /\ HolderInTime(v) /\ NoOutcomeYet(v)
  BY InTheSlot
<1>1. /\ slot' = slot /\ since' = since /\ call' = call /\ spent' = spent
      /\ clock' = clock /\ setBacks' = setBacks /\ open' = open /\ session' = session
      /\ limiter' = limiter /\ logins' = logins
  BY DEF FetchFails, ResponseRead, accessVars
<1>2. /\ stage[v] \in {"fetch", "response"} /\ stage'[v] = "settle"
      /\ stage' \in [Readers -> {"none", "login", "body", "reserve", "fetch", "response", "settle", "release"}]
      /\ \A s \in Readers : s # v => stage'[s] = stage[s]
  BY <1>0, Moved DEF FetchFails, ResponseRead
<1>3. PICK o \in Outcomes : Outcome(v, o)
  <2>1. \E o \in Outcomes : Outcome(v, o)
    BY DEF FetchFails, ResponseRead, Outcomes
  <2> QED BY <2>1
<1>4. /\ run' \in [Readers -> Outcomes \cup {"none"}]
      /\ \A s \in Readers : s # v => run'[s] = run[s]
  BY <1>0, <1>3, OutcomeNoted
<1>5. BodyInv' /\ (\A s \in Readers : s # v => body'[s] = body[s])
  BY <1>0, ForgetBody, BodyUntouched DEF FetchFails, ResponseRead
<1>6. HandlerTypeOK'
  BY <1>0, <1>1, <1>2, <1>4, <1>5 DEF HandlerTypeOK, BodyInv
<1>7. VisitorHolds(v)'
  BY <1>0, <1>1, <1>2 DEF VisitorHolds, HolderInTime, NoOutcomeYet, Settles, Holding
<1> QED BY <1>1, <1>2, <1>4, <1>5, <1>6, <1>7, StepHolds DEF Holding

(* The response is read with what is left of the time limit; the signal of *)
(* the exchange stays.                                                     *)
LEMMA HeadersHold ==
  ASSUME MemoInv, NEW v \in Readers, Headers(v)
  PROVE  MemoInv'
<1>0. /\ HandlerTypeOK /\ BodyInv /\ HolderInTime(v) /\ NoOutcomeYet(v)
      /\ clock \in Nat /\ wall \in 0..MaxClock /\ ProviderTime \in Nat
  BY InTheSlot
<1>1. /\ slot' = slot /\ since' = since /\ call' = call /\ spent' = spent /\ run' = run
      /\ clock' = clock /\ setBacks' = setBacks /\ open' = open /\ session' = session
      /\ limiter' = limiter /\ logins' = logins
  BY DEF Headers, accessVars, handlerVars
<1>2. /\ stage[v] = "fetch" /\ stage'[v] = "response"
      /\ stage' \in [Readers -> {"none", "login", "body", "reserve", "fetch", "response", "settle", "release"}]
      /\ \A s \in Readers : s # v => stage'[s] = stage[s]
  BY <1>0, Moved DEF Headers
<1>3. Remaining(v) \in Nat
  <2>1. call[v].began \in 0..MaxClock /\ MaxClock \in Nat
    BY <1>0, BodyAssumption DEF HandlerTypeOK
  <2> QED BY <1>0, <2>1 DEF Remaining
<1>4. BodyInv' /\ (\A s \in Readers : s # v => body'[s] = body[s])
  BY <1>0, <1>3, OpenBody DEF Headers
<1>5. HandlerTypeOK'
  BY <1>0, <1>1, <1>2, <1>4 DEF HandlerTypeOK, BodyInv
<1>6. VisitorHolds(v)'
  BY <1>0, <1>1, <1>2 DEF VisitorHolds, HolderInTime, NoOutcomeYet, Settles, Holding
<1> QED BY <1>1, <1>2, <1>4, <1>5, <1>6, StepHolds DEF Holding

(* What the ledger does not confirm is no memo.                            *)
LEMMA SettleHolds ==
  ASSUME MemoInv, NEW v \in Readers, Settle(v)
  PROVE  MemoInv'
<1>0. /\ HandlerTypeOK /\ BodyInv /\ HolderInTime(v) /\ NoOutcomeYet(v)
  BY InTheSlot
<1>1. /\ slot' = slot /\ since' = since /\ call' = call /\ body' = body
      /\ clock' = clock /\ setBacks' = setBacks /\ open' = open /\ session' = session
      /\ limiter' = limiter /\ logins' = logins
  BY DEF Settle, accessVars
<1>2. /\ stage[v] = "settle" /\ stage'[v] = "release"
      /\ stage' \in [Readers -> {"none", "login", "body", "reserve", "fetch", "response", "settle", "release"}]
      /\ \A s \in Readers : s # v => stage'[s] = stage[s]
  BY <1>0, Moved DEF Settle
<1>3. /\ spent' \in [Readers -> {"none", "reserved", "settled"}]
      /\ run' \in [Readers -> Outcomes \cup {"none"}]
      /\ \A s \in Readers : s # v => spent'[s] = spent[s] /\ run'[s] = run[s]
      /\ spent'[v] = "settled" \/ run'[v] = "failed"
  <2>1. CASE spent' = [spent EXCEPT ![v] = "settled"] /\ UNCHANGED run
    BY <1>0, <2>1 DEF HandlerTypeOK
  <2>2. CASE Outcome(v, "failed") /\ UNCHANGED spent
    BY <1>0, <2>2, OutcomeNoted DEF HandlerTypeOK, Outcomes
  <2> QED BY <2>1, <2>2 DEF Settle
<1>4. BodyInv'
  BY <1>0, <1>1, BodyUntouched
<1>5. HandlerTypeOK'
  BY <1>0, <1>1, <1>2, <1>3, <1>4 DEF HandlerTypeOK, BodyInv
<1>6. VisitorHolds(v)'
  BY <1>0, <1>1, <1>2, <1>3 DEF VisitorHolds, HolderInTime, NoOutcomeYet, Settles, Holding
<1> QED BY <1>1, <1>2, <1>3, <1>4, <1>5, <1>6, StepHolds DEF Holding

LEMMA ReleaseHolds ==
  ASSUME MemoInv, NEW v \in Readers, Release(v)
  PROVE  MemoInv'
<1>0. /\ HandlerTypeOK /\ BodyInv /\ HolderInTime(v) /\ NoOutcomeYet(v) /\ MaxClock \in Nat
  BY InTheSlot, BodyAssumption
<1>1. /\ slot' = "free" /\ since' = 0 /\ body' = body
      /\ clock' = clock /\ setBacks' = setBacks /\ open' = open /\ session' = session
      /\ limiter' = limiter /\ logins' = logins
  BY DEF Release, accessVars
<1>2. /\ stage[v] = "release" /\ stage'[v] = "none"
      /\ stage' \in [Readers -> {"none", "login", "body", "reserve", "fetch", "response", "settle", "release"}]
      /\ \A s \in Readers : s # v => stage'[s] = stage[s]
  BY <1>0, Moved DEF Release
<1>3. /\ run' \in [Readers -> Outcomes \cup {"none"}] /\ run'[v] = "none"
      /\ \A s \in Readers : s # v => run'[s] = run[s]
  BY <1>0, OutcomeNoted DEF Release
<1>4. /\ call' \in [Readers -> [began : 0..MaxClock, ends : Nat \cup {Never}]]
      /\ spent' \in [Readers -> {"none", "reserved", "settled"}]
      /\ \A s \in Readers : s # v => call'[s] = call[s] /\ spent'[s] = spent[s]
  <2>1. NoCall \in [began : 0..MaxClock, ends : Nat \cup {Never}]
    BY <1>0 DEF NoCall
  <2> QED BY <1>0, <2>1 DEF HandlerTypeOK, Release
<1>5. BodyInv'
  BY <1>0, <1>1, BodyUntouched
<1>6. HandlerTypeOK'
  <2>1. since' \in 0..MaxClock
    BY <1>0, <1>1
  <2> QED BY <1>0, <1>1, <1>2, <1>3, <1>4, <1>5, <2>1 DEF HandlerTypeOK, BodyInv
<1>7. VisitorHolds(v)' /\ slot = v
  BY <1>0, <1>2, <1>3 DEF VisitorHolds, HolderInTime, NoOutcomeYet, Settles, Holding
<1> QED BY <1>1, <1>2, <1>3, <1>4, <1>5, <1>6, <1>7, StepHolds

-----------------------------------------------------------------------------
(* The memo handler.                                                       *)

LEMMA MemoInitially == Init => MemoInv
<1> HAVE Init
<1>1. /\ clock = 0 /\ body = [v \in Readers |-> NoBody] /\ stage = [v \in Readers |-> "none"]
      /\ slot = "free" /\ since = 0 /\ call = [v \in Readers |-> NoCall]
      /\ run = [v \in Readers |-> "none"] /\ spent = [v \in Readers |-> "none"]
      /\ setBacks = 0 /\ open \in BOOLEAN /\ session = [v \in Readers |-> Never]
      /\ limiter = [started |-> 0, attempts |-> 0] /\ logins = [i \in 0..MaxClock |-> 0]
  BY DEF Init, AccessInit
<1>2. BodyInv
  <2>1. body \in [Readers -> Body] /\ \A r \in Readers : BodyHolds(body[r])
    BY <1>1, NoBodyHolds DEF BodyHolds
  <2> QED BY <2>1, BodiesHold
<1>3. HandlerTypeOK
  <2>1. 0 \in 0..MaxClock /\ 0 \in 0..MaxSetBacks /\ 0 \in 0..Limit + 1
    BY BodyAssumption, AccessAssumption
  <2>2. NoCall \in [began : 0..MaxClock, ends : Nat \cup {Never}]
    BY <2>1 DEF NoCall
  <2>3. limiter \in [started : 0..MaxClock, attempts : 0..Limit + 1]
    BY <1>1, <2>1
  <2> QED BY <1>1, <1>2, <2>1, <2>2, <2>3 DEF HandlerTypeOK, BodyInv
<1>4. 0 <= wall /\ since <= clock
  BY <1>1 DEF wall
<1>5. \A v \in Readers : HolderInTime(v) /\ NoOutcomeYet(v)
  BY <1>1 DEF HolderInTime, NoOutcomeYet, Holding
<1>6. MemoIsSettled
  BY <1>1 DEF MemoIsSettled
<1> QED BY <1>1, <1>2, <1>3, <1>4, <1>5, <1>6 DEF MemoInv

LEMMA MemoKept == MemoInv /\ [Next]_vars => MemoInv'
<1> SUFFICES ASSUME MemoInv, [Next]_vars PROVE MemoInv'
  OBVIOUS
<1>1. CASE Next
  BY <1>1, TickHolds, SetBackHolds, AccessHolds, StreamHolds, PostHolds, BodyReadHolds, ReserveHolds,
     ExchangeHolds, HeadersHold, SettleHolds, ReleaseHolds DEF Next
<1>2. CASE UNCHANGED vars
  <2>1. /\ slot' = slot /\ since' = since /\ call' = call /\ body' = body /\ stage' = stage /\ run' = run
        /\ spent' = spent /\ clock' = clock /\ setBacks' = setBacks /\ open' = open
        /\ session' = session /\ limiter' = limiter /\ logins' = logins
    BY <1>2 DEF vars, accessVars, handlerVars
  <2>2. HandlerTypeOK /\ BodyInv
    BY HandlerTypes
  <2>3. BodyInv' /\ HandlerTypeOK'
    BY <2>1, <2>2, BodyUntouched DEF HandlerTypeOK, BodyInv
  <2>4. \A v \in Readers : HolderInTime(v)' /\ NoOutcomeYet(v)'
    BY <2>1 DEF MemoInv, HolderInTime, NoOutcomeYet, Reading
  <2>5. MemoIsSettled'
    BY <2>1 DEF MemoInv, MemoIsSettled
  <2>6. (0 <= wall)' /\ (since <= clock)' /\ (slot # "free" => stage[slot] \in Holding)'
    BY <2>1 DEF MemoInv, wall
  <2> QED BY <2>3, <2>4, <2>5, <2>6 DEF MemoInv
<1> QED BY <1>1, <1>2

LEMMA MemoSettledDown == Spec => []MemoInv
<1> QED BY MemoInitially, MemoKept, PTL DEF Spec

(* Whoever ends the reading of a body, the timer, the signal, the size     *)
(* limit or the stream itself, nothing of it stays behind                  *)
(* (readBoundedJson's finally block).                                      *)
THEOREM BodiesLetGo == Spec => []ReadersLetGo
<1>1. MemoInv => ReadersLetGo
  BY DEF MemoInv, BodyInv
<1> QED BY <1>1, MemoSettledDown, PTL

(* The model slot of the process is never held longer than a body and an   *)
(* exchange may take together, however slow a sender or the provider is,   *)
(* and wherever the wall clock is set back to.                             *)
THEOREM SlotComesBack == Spec => []SlotHeldBounded
<1>1. MemoInv => SlotHeldBounded
  <2> SUFFICES ASSUME MemoInv, slot # "free" PROVE clock - since <= RequestTime + ProviderTime
    BY DEF SlotHeldBounded
  <2>1. slot \in Readers /\ stage[slot] \in Holding
    BY DEF MemoInv, HandlerTypeOK
  <2>2. clock <= since + RequestTime + ProviderTime
    BY <2>1 DEF MemoInv, HolderInTime
  <2> QED BY <2>2, HandlerTypes
<1> QED BY <1>1, MemoSettledDown, PTL

(* A memo that is handed out as completed was settled in the ledger.       *)
THEOREM MemosAreSettled == Spec => []MemoIsSettled
<1>1. MemoInv => MemoIsSettled
  BY DEF MemoInv
<1> QED BY <1>1, MemoSettledDown, PTL

(* A request goes to the provider only for a visitor who had a session     *)
(* before the review ended, and no later than a body may take after that.  *)
THEOREM NothingAfterTheReview == Spec => NoCallAfterDeadline
<1>1. MemoInv /\ [Next]_vars =>
        [\A v \in Readers : stage[v] # "fetch" /\ stage'[v] = "fetch" => wall <= Deadline + RequestTime]_vars
  <2> SUFFICES ASSUME MemoInv, Next, NEW v \in Readers, stage[v] # "fetch", stage'[v] = "fetch"
               PROVE  wall <= Deadline + RequestTime
    OBVIOUS
  <2>1. Reserve(v) \/ stage[v] \in {"body", "reserve"}
    <3>0. HandlerTypeOK
      BY InTheSlot
    <3>1. ASSUME NEW s \in Readers, s # v,
                 \/ Access(s) \/ Stream(s) \/ Post(s) \/ BodyRead(s) \/ Reserve(s) \/ FetchFails(s)
                 \/ Headers(s) \/ SignalBody(s) \/ ResponseRead(s) \/ Settle(s) \/ Release(s)
          PROVE  stage'[v] = stage[v]
      BY <3>0, <3>1 DEF HandlerTypeOK, Access, Login, LoginRead, Logout, Stream, Post, BodyRead, Reserve,
         FetchFails, Headers, SignalBody, ResponseRead, Settle, Release, At
    <3>2. Tick \/ SetBack => stage' = stage
      BY DEF Tick, SetBack
    <3>3. Access(v) \/ Stream(v) \/ Post(v) \/ SignalBody(v) => stage'[v] = stage[v] \/ stage'[v] # "fetch"
      BY <3>0 DEF HandlerTypeOK, Access, Login, LoginRead, Logout, Stream, Post, SignalBody
    <3>4. BodyRead(v) \/ FetchFails(v) \/ Headers(v) \/ ResponseRead(v) \/ Settle(v) \/ Release(v)
            => stage'[v] # "fetch"
      BY <3>0 DEF HandlerTypeOK, BodyRead, FetchFails, Headers, ResponseRead, Settle, Release, At
    <3> QED BY <3>1, <3>2, <3>3, <3>4 DEF Next
  <2>2. stage[v] \in {"body", "reserve"}
    BY <2>1 DEF Reserve, At
  <2>3. clock <= since + RequestTime /\ since - setBacks <= Deadline
    BY <2>2 DEF MemoInv, HolderInTime, Holding
  <2>4. clock \in Nat /\ since \in Nat /\ setBacks \in Nat /\ RequestTime \in Nat /\ Deadline \in Nat
    BY HandlerTypes, AccessAssumption
  <2> QED BY <2>3, <2>4 DEF wall
<1> QED BY <1>1, MemoSettledDown, PTL DEF Spec, NoCallAfterDeadline

-----------------------------------------------------------------------------
(* The limiter.                                                            *)

Between(logs, from, to) == {l \in logs : from <= l[1] /\ l[1] < to}
Since(logs, from) == {l \in logs : from <= l[1]}
Timed(logs) == IsFiniteSet(logs) /\ \A l \in logs : l[1] \in Int

(* The attempts admitted since the wall clock was last found before the    *)
(* window: those of the window in progress, which began at started, and of *)
(* the windows before it.                                                  *)
WindowsHold(logs, started, attempts) ==
  /\ Timed(logs) /\ \A l \in logs : l[1] < started + Window
  /\ Cardinality(Since(logs, started)) <= attempts /\ Cardinality(Since(logs, started)) <= Limit
  /\ \A from \in Int : started - Window < from => Cardinality(Between(logs, from, started)) <= Limit
  /\ \A from \in Int : Cardinality(Between(logs, from, from + Window)) <= 2 * Limit

(* Those before that are limited by how often it has happened.             *)
LimiterInv ==
  \E old \in SUBSET Admitted, times \in Nat :
    /\ times + (IF wall < limiter.started THEN 1 ELSE 0) <= setBacks
    /\ Timed(Admitted)
    /\ \A from \in Int : Cardinality(Between(old, from, from + Window)) <= 2 * Limit * times
    /\ WindowsHold(Admitted \ old, limiter.started, limiter.attempts)

LEMMA Counts ==
  ASSUME NEW A, NEW B, NEW C, IsFiniteSet(A), IsFiniteSet(B), C \subseteq A \cup B
  PROVE  /\ IsFiniteSet(C) /\ Cardinality(C) \in Nat
         /\ Cardinality(A) \in Nat /\ Cardinality(B) \in Nat
         /\ Cardinality(C) <= Cardinality(A) + Cardinality(B)
<1>1. /\ IsFiniteSet(A \cup B)
      /\ Cardinality(A \cup B) = Cardinality(A) + Cardinality(B) - Cardinality(A \cap B)
  BY FS_Union
<1>2. IsFiniteSet(A \cap B)
  BY FS_Subset
<1>3. /\ Cardinality(A \cup B) \in Nat /\ Cardinality(A \cap B) \in Nat
      /\ Cardinality(A) \in Nat /\ Cardinality(B) \in Nat
  BY <1>1, <1>2, FS_CardinalityType
<1>4. IsFiniteSet(C) /\ Cardinality(C) <= Cardinality(A \cup B)
  BY <1>1, FS_Subset
<1>5. Cardinality(C) \in Nat
  BY <1>4, FS_CardinalityType
<1> QED BY <1>1, <1>3, <1>4, <1>5

LEMMA PartsAreTimed ==
  ASSUME NEW logs, Timed(logs)
  PROVE  \A parts \in SUBSET logs : Timed(parts) /\ Cardinality(parts) \in Nat
BY FS_Subset, FS_CardinalityType DEF Timed

LEMMA OneAttempt == \A l : IsFiniteSet({l}) /\ Cardinality({l}) = 1
BY FS_Singleton

(* An attempt that the window in progress still admits.                    *)
LEMMA CountedInWindow ==
  ASSUME NEW logs, NEW started \in Int, NEW attempts \in Nat, NEW l, l[1] \in Int,
         WindowsHold(logs, started, attempts), attempts + 1 <= Limit,
         started <= l[1], l[1] < started + Window
  PROVE  WindowsHold(logs \cup {l}, started, attempts + 1)
<1> DEFINE all == logs \cup {l}
<1>0. Window \in Nat /\ Limit \in Nat
  BY AccessAssumption
<1>1. Timed(logs) /\ Timed(all) /\ IsFiniteSet({l}) /\ Cardinality({l}) = 1
  BY OneAttempt, FS_Union DEF WindowsHold, Timed
<1>2. /\ Cardinality(Since(all, started)) <= attempts + 1
      /\ Cardinality(Since(all, started)) \in Nat
  <2>1. Since(all, started) \subseteq Since(logs, started) \cup {l}
    BY DEF Since
  <2>2. IsFiniteSet(Since(logs, started)) /\ Cardinality(Since(logs, started)) <= attempts
    BY <1>1, PartsAreTimed DEF Since, WindowsHold, Timed
  <2> QED BY <1>1, <2>1, <2>2, Counts
<1>3. ASSUME NEW from \in Int
      PROVE  Between(all, from, started) = Between(logs, from, started)
  BY DEF Between
<1>4. ASSUME NEW from \in Int
      PROVE  Cardinality(Between(all, from, from + Window)) <= 2 * Limit
  <2>1. CASE l[1] < from \/ from + Window <= l[1]
    <3>1. Between(all, from, from + Window) = Between(logs, from, from + Window)
      BY <1>0, <2>1 DEF Between
    <3> QED BY <3>1 DEF WindowsHold
  <2>2. CASE from <= l[1] /\ l[1] < from + Window
    <3>1. started - Window < from
      BY <1>0, <2>2
    <3>2. Between(all, from, from + Window) \subseteq Between(logs, from, started) \cup Since(all, started)
      BY <1>1 DEF Between, Since, Timed
    <3>3. IsFiniteSet(Between(logs, from, started)) /\ IsFiniteSet(Since(all, started))
      BY <1>1, PartsAreTimed DEF Between, Since, Timed
    <3>4. Cardinality(Between(logs, from, started)) <= Limit
      BY <3>1 DEF WindowsHold
    <3>5. /\ Cardinality(Between(all, from, from + Window)) <=
               Cardinality(Between(logs, from, started)) + Cardinality(Since(all, started))
          /\ Cardinality(Between(all, from, from + Window)) \in Nat
          /\ Cardinality(Between(logs, from, started)) \in Nat
      <4> HIDE DEF all
      <4> QED BY <3>2, <3>3, Counts
    <3> QED BY <1>0, <1>2, <3>4, <3>5
  <2> QED BY <1>0, <2>1, <2>2
<1>5. \A m \in all : m[1] < started + Window
  BY DEF WindowsHold
<1>6. Cardinality(Since(all, started)) <= Limit
  BY <1>0, <1>2
<1>7. \A from \in Int : started - Window < from => Cardinality(Between(all, from, started)) <= Limit
  BY <1>3 DEF WindowsHold
<1> QED BY <1>1, <1>2, <1>4, <1>5, <1>6, <1>7 DEF WindowsHold

(* An attempt after it begins a window of its own.                         *)
LEMMA CountedInNext ==
  ASSUME NEW logs, NEW started \in Int, NEW attempts \in Nat, NEW l, l[1] \in Int,
         WindowsHold(logs, started, attempts), started + Window <= l[1]
  PROVE  WindowsHold(logs \cup {l}, l[1], 1)
<1> DEFINE all == logs \cup {l}
<1>0. Window \in Nat \ {0} /\ Limit \in Nat \ {0}
  BY AccessAssumption
<1>1. Timed(logs) /\ Timed(all) /\ IsFiniteSet({l}) /\ Cardinality({l}) = 1
  BY OneAttempt, FS_Union DEF WindowsHold, Timed
<1>2. \A m \in logs : m[1] \in Int /\ m[1] < started + Window
  BY DEF WindowsHold, Timed
<1>3. Since(all, l[1]) = {l}
  BY <1>0, <1>2 DEF Since
<1>4. ASSUME NEW from \in Int, l[1] - Window < from
      PROVE  Cardinality(Between(all, from, l[1])) <= Limit /\ Cardinality(Between(all, from, l[1])) \in Nat
             /\ IsFiniteSet(Between(all, from, l[1]))
  <2>1. Between(all, from, l[1]) \subseteq Since(logs, started)
    BY <1>0, <1>2, <1>4 DEF Between, Since
  <2>2. IsFiniteSet(Since(logs, started)) /\ Cardinality(Since(logs, started)) <= Limit
    BY <1>1, PartsAreTimed DEF Since, WindowsHold, Timed
  <2>3. /\ IsFiniteSet(Between(all, from, l[1])) /\ Cardinality(Between(all, from, l[1])) \in Nat
        /\ Cardinality(Between(all, from, l[1])) <= Cardinality(Since(logs, started))
        /\ Cardinality(Since(logs, started)) \in Nat
    BY <2>1, <2>2, FS_Subset, FS_CardinalityType
  <2> QED BY <1>0, <2>2, <2>3
<1>5. ASSUME NEW from \in Int
      PROVE  Cardinality(Between(all, from, from + Window)) <= 2 * Limit
  <2>1. CASE l[1] < from \/ from + Window <= l[1]
    <3>1. Between(all, from, from + Window) = Between(logs, from, from + Window)
      BY <1>0, <2>1 DEF Between
    <3> QED BY <3>1 DEF WindowsHold
  <2>2. CASE from <= l[1] /\ l[1] < from + Window
    <3>1. l[1] - Window < from
      BY <1>0, <2>2
    <3>2. Between(all, from, from + Window) \subseteq Between(all, from, l[1]) \cup {l}
      BY <1>0, <1>2 DEF Between
    <3>3. /\ IsFiniteSet(Between(all, from, l[1])) /\ Cardinality(Between(all, from, l[1])) \in Nat
          /\ Cardinality(Between(all, from, l[1])) <= Limit
      BY <1>4, <3>1
    <3>4. /\ Cardinality(Between(all, from, from + Window)) <=
               Cardinality(Between(all, from, l[1])) + Cardinality({l})
          /\ Cardinality(Between(all, from, from + Window)) \in Nat
      BY <1>1, <3>2, <3>3, Counts
    <3> QED BY <1>0, <1>1, <3>3, <3>4
  <2> QED BY <1>0, <2>1, <2>2
<1>6. \A m \in all : m[1] < l[1] + Window
  BY <1>0, <1>2
<1>7. Cardinality(Since(all, l[1])) <= 1 /\ Cardinality(Since(all, l[1])) <= Limit
  BY <1>0, <1>1, <1>3
<1> QED BY <1>1, <1>4, <1>5, <1>6, <1>7 DEF WindowsHold

(* The first attempt after the wall clock was found before the window.     *)
LEMMA CountedAlone ==
  ASSUME NEW l, l[1] \in Int
  PROVE  WindowsHold({l}, l[1], 1)
<1>0. Window \in Nat \ {0} /\ Limit \in Nat \ {0}
  BY AccessAssumption
<1>1. Timed({l}) /\ Cardinality({l}) = 1
  BY OneAttempt DEF Timed
<1>2. \A part \in SUBSET {l} : Cardinality(part) <= 1 /\ Cardinality(part) \in Nat
  BY <1>1, FS_Subset, FS_CardinalityType DEF Timed
<1>3. Cardinality(Since({l}, l[1])) <= 1 /\ Cardinality(Since({l}, l[1])) \in Nat
  BY <1>2 DEF Since
<1>4. ASSUME NEW from \in Int
      PROVE  /\ Cardinality(Between({l}, from, l[1])) <= Limit
             /\ Cardinality(Between({l}, from, from + Window)) <= 2 * Limit
  <2>1. Between({l}, from, l[1]) \in SUBSET {l} /\ Between({l}, from, from + Window) \in SUBSET {l}
    BY DEF Between
  <2>2. /\ Cardinality(Between({l}, from, l[1])) <= 1
        /\ Cardinality(Between({l}, from, l[1])) \in Nat
        /\ Cardinality(Between({l}, from, from + Window)) <= 1
        /\ Cardinality(Between({l}, from, from + Window)) \in Nat
    BY <1>2, <2>1
  <2> QED BY <1>0, <2>2
<1>5. Cardinality(Since({l}, l[1])) <= Limit
  BY <1>0, <1>3
<1>6. l[1] < l[1] + Window
  BY <1>0
<1> QED BY <1>1, <1>3, <1>4, <1>5, <1>6 DEF WindowsHold

LEMMA AdmittedGrows ==
  ASSUME MemoInv, logins' = [logins EXCEPT ![wall] = @ + 1]
  PROVE  /\ Admitted' = Admitted \cup {<<wall, logins[wall] + 1>>}
         /\ <<wall, logins[wall] + 1>> \notin Admitted
<1>1. wall \in 0..MaxClock /\ logins \in [0..MaxClock -> Nat]
  BY HandlerTypes DEF HandlerTypeOK
<1>2. /\ logins'[wall] = logins[wall] + 1 /\ logins[wall] \in Nat
      /\ \A i \in 0..MaxClock : i # wall => logins'[i] = logins[i]
  BY <1>1
<1>3. \A l : l \in Admitted <=> \E i \in 0..MaxClock : \E k \in 1..logins[i] : l = <<i, k>>
  BY DEF Admitted
<1>4. \A l : l \in Admitted' <=> \E i \in 0..MaxClock : \E k \in 1..logins'[i] : l = <<i, k>>
  BY DEF Admitted
<1>5. 1..logins'[wall] = (1..logins[wall]) \cup {logins[wall] + 1}
  BY <1>2
<1>6. logins[wall] + 1 \notin 1..logins[wall]
  BY <1>2
<1>7. ASSUME NEW l
      PROVE  l \in Admitted' <=> l \in Admitted \/ l = <<wall, logins[wall] + 1>>
  BY <1>1, <1>2, <1>3, <1>4, <1>5
<1>8. <<wall, logins[wall] + 1>> \notin Admitted
  BY <1>3, <1>6
<1> QED BY <1>7, <1>8

(* An attempt keeps to the window, or begins one.                          *)
LEMMA AttemptCounted ==
  ASSUME MemoInv, LimiterInv, NEW v \in Readers, Login(v)
  PROVE  LimiterInv'
<1>0. /\ wall \in Int /\ limiter \in [started : 0..MaxClock, attempts : 0..Limit + 1]
      /\ limiter.started \in Int /\ limiter.attempts \in Nat /\ setBacks \in Nat
      /\ Window \in Nat \ {0} /\ Limit \in Nat \ {0}
  BY HandlerTypes, AccessAssumption DEF HandlerTypeOK
<1>1. PICK old \in SUBSET Admitted, times \in Nat :
        /\ times + (IF wall < limiter.started THEN 1 ELSE 0) <= setBacks
        /\ Timed(Admitted)
        /\ \A from \in Int : Cardinality(Between(old, from, from + Window)) <= 2 * Limit * times
        /\ WindowsHold(Admitted \ old, limiter.started, limiter.attempts)
  BY DEF LimiterInv
<1>2. limiter' = Attempt /\ setBacks' = setBacks /\ wall' = wall
  BY DEF Login, wall
<1>3. CASE ~Allowed
  <2>1. ~Restarts
    BY <1>0, <1>3 DEF Allowed, Attempt
  <2>2. /\ limiter'.started = limiter.started /\ limiter'.attempts \in Nat
        /\ limiter.attempts <= limiter'.attempts
    BY <1>0, <1>2, <2>1 DEF Attempt
  <2>3. Admitted' = Admitted
    BY <1>3 DEF Login, Admitted
  <2>4. Cardinality(Since(Admitted \ old, limiter.started)) \in Nat
    BY <1>1, PartsAreTimed DEF WindowsHold, Since
  <2>5. Cardinality(Since(Admitted \ old, limiter.started)) <= limiter'.attempts
    BY <1>0, <1>1, <2>2, <2>4 DEF WindowsHold
  <2>6. WindowsHold(Admitted \ old, limiter.started, limiter'.attempts)
    BY <1>1, <2>5 DEF WindowsHold
  <2> QED BY <1>1, <1>2, <2>2, <2>3, <2>6 DEF LimiterInv
<1>4. CASE Allowed
  <2> DEFINE l == <<wall, logins[wall] + 1>>
  <2>1. Admitted' = Admitted \cup {l} /\ l \notin Admitted
    BY <1>4, AdmittedGrows DEF Login
  <2>2. l[1] = wall /\ l[1] \in Int
    BY <1>0
  <2>3. Timed(Admitted')
    BY <1>1, <2>1, <2>2, OneAttempt, FS_Union DEF Timed
  <2>4. Admitted' \ old = (Admitted \ old) \cup {l} /\ old \in SUBSET Admitted'
    BY <1>1, <2>1
  <2> HIDE DEF l
  <2>5. CASE ~Restarts
    <3>1. limiter.started <= wall /\ wall < limiter.started + Window
      BY <1>0, <2>5 DEF Restarts
    <3>2. /\ limiter'.started = limiter.started /\ limiter'.attempts = limiter.attempts + 1
          /\ limiter.attempts + 1 <= Limit
      BY <1>0, <1>2, <1>4, <2>5 DEF Attempt, Allowed
    <3>3. WindowsHold((Admitted \ old) \cup {l}, limiter.started, limiter.attempts + 1)
      BY <1>0, <1>1, <2>2, <3>1, <3>2, CountedInWindow
    <3> QED BY <1>1, <1>2, <2>3, <2>4, <3>2, <3>3 DEF LimiterInv
  <2>6. CASE Restarts
    <3>1. limiter'.started = wall /\ limiter'.attempts = 1 /\ ~(wall' < limiter'.started)
      BY <1>0, <1>2, <2>6 DEF Attempt
    <3>2. CASE limiter.started + Window <= wall
      <4>1. WindowsHold((Admitted \ old) \cup {l}, l[1], 1)
        BY <1>0, <1>1, <2>2, <3>2, CountedInNext
      <4>2. times + 0 <= setBacks'
        BY <1>0, <1>1, <1>2
      <4>3. times + (IF wall' < limiter'.started THEN 1 ELSE 0) <= setBacks'
        BY <3>1, <4>2
      <4> QED BY <1>1, <2>2, <2>3, <2>4, <3>1, <4>1, <4>3 DEF LimiterInv
    <3>3. CASE wall < limiter.started
      <4>1. \A from \in Int :
              Cardinality(Between(Admitted, from, from + Window)) <= 2 * Limit * (times + 1)
        <5> TAKE from \in Int
        <5>1. Between(Admitted, from, from + Window) \subseteq
                Between(old, from, from + Window) \cup Between(Admitted \ old, from, from + Window)
          BY DEF Between
        <5>2. /\ IsFiniteSet(Between(old, from, from + Window))
              /\ IsFiniteSet(Between(Admitted \ old, from, from + Window))
          BY <1>1, PartsAreTimed DEF Between, Timed
        <5>3. /\ Cardinality(Between(Admitted, from, from + Window)) <=
                   Cardinality(Between(old, from, from + Window))
                     + Cardinality(Between(Admitted \ old, from, from + Window))
              /\ Cardinality(Between(Admitted, from, from + Window)) \in Nat
              /\ Cardinality(Between(old, from, from + Window)) \in Nat
              /\ Cardinality(Between(Admitted \ old, from, from + Window)) \in Nat
          BY <5>1, <5>2, Counts
        <5>4. /\ Cardinality(Between(old, from, from + Window)) <= 2 * Limit * times
              /\ Cardinality(Between(Admitted \ old, from, from + Window)) <= 2 * Limit
          BY <1>1 DEF WindowsHold
        <5>5. 2 * Limit * (times + 1) = 2 * Limit * times + 2 * Limit /\ 2 * Limit * times \in Nat
          BY <1>0
        <5> QED BY <1>0, <5>3, <5>4, <5>5
      <4>2. WindowsHold({l}, l[1], 1)
        BY <2>2, CountedAlone
      <4>3. Admitted' \ Admitted = {l} /\ Admitted \in SUBSET Admitted'
        BY <2>1
      <4>4. times + 1 \in Nat /\ times + 1 + 0 <= setBacks'
        BY <1>0, <1>1, <1>2, <3>3
      <4>5. times + 1 + (IF wall' < limiter'.started THEN 1 ELSE 0) <= setBacks'
        BY <3>1, <4>4
      <4> QED BY <2>2, <2>3, <3>1, <4>1, <4>2, <4>3, <4>4, <4>5 DEF LimiterInv
    <3> QED BY <1>0, <2>6, <3>2, <3>3 DEF Restarts
  <2> QED BY <2>5, <2>6
<1> QED BY <1>3, <1>4

(* The clock moves on, or is set back, which may take it before the window.*)
LEMMA ClockMoves ==
  ASSUME MemoInv, LimiterInv, UNCHANGED <<limiter, logins>>,
         \/ wall <= wall' /\ wall' \in Int /\ setBacks' = setBacks
         \/ setBacks' = setBacks + 1
  PROVE  LimiterInv'
<1>1. PICK old \in SUBSET Admitted, times \in Nat :
        /\ times + (IF wall < limiter.started THEN 1 ELSE 0) <= setBacks
        /\ Timed(Admitted)
        /\ \A from \in Int : Cardinality(Between(old, from, from + Window)) <= 2 * Limit * times
        /\ WindowsHold(Admitted \ old, limiter.started, limiter.attempts)
  BY DEF LimiterInv
<1>2. wall \in Int /\ limiter.started \in Int /\ setBacks \in Nat
  BY HandlerTypes DEF HandlerTypeOK
<1>3. times + (IF wall' < limiter'.started THEN 1 ELSE 0) <= setBacks'
  <2>1. CASE setBacks' = setBacks + 1
    BY <1>1, <1>2, <2>1
  <2>2. CASE wall <= wall' /\ wall' \in Int /\ setBacks' = setBacks
    BY <1>1, <1>2, <2>2
  <2> QED BY <2>1, <2>2
<1>4. Admitted' = Admitted
  BY DEF Admitted
<1> QED BY <1>1, <1>3, <1>4 DEF LimiterInv

LEMMA LimiterKept == MemoInv /\ LimiterInv /\ [Next]_vars => LimiterInv'
<1> SUFFICES ASSUME MemoInv, LimiterInv, [Next]_vars PROVE LimiterInv'
  OBVIOUS
<1>0. clock \in Nat /\ setBacks \in Nat
  BY HandlerTypes
<1>1. CASE UNCHANGED <<limiter, logins, clock, setBacks>>
  BY <1>0, <1>1, ClockMoves DEF wall
<1>2. CASE Tick
  BY <1>0, <1>2, ClockMoves DEF Tick, accessVars, wall
<1>3. CASE SetBack
  BY <1>3, ClockMoves DEF SetBack
<1>4. ASSUME NEW v \in Readers, Login(v)
      PROVE  LimiterInv'
  BY <1>4, AttemptCounted
<1>5. ASSUME NEW v \in Readers,
             \/ LoginRead(v) \/ Logout(v) \/ Stream(v)
             \/ Post(v) \/ BodyRead(v) \/ Reserve(v)
             \/ FetchFails(v) \/ Headers(v) \/ SignalBody(v) \/ ResponseRead(v)
             \/ Settle(v) \/ Release(v)
      PROVE  UNCHANGED <<limiter, logins, clock, setBacks>>
  BY <1>5 DEF LoginRead, Logout, Stream, Post, BodyRead, Reserve, FetchFails, Headers, SignalBody,
     ResponseRead, Settle, Release, accessVars
<1> QED BY <1>1, <1>2, <1>3, <1>4, <1>5 DEF Next, Access, vars, accessVars

(* In any stretch as long as a window, however long the review and however *)
(* the wall clock is set back, the limiter admits at most the attempts of  *)
(* two windows, and those of two more each time the clock was set back     *)
(* (createAccessLimiter).                                                  *)
THEOREM LoginsAreLimited == Spec => []LoginsLimited
<1>1. Init => LimiterInv
  <2> SUFFICES ASSUME Init PROVE LimiterInv
    OBVIOUS
  <2>1. /\ setBacks = 0 /\ wall = 0 /\ limiter.started = 0 /\ limiter.attempts = 0
        /\ logins = [i \in 0..MaxClock |-> 0]
    BY DEF Init, AccessInit, wall
  <2>2. Admitted = {}
    BY <2>1 DEF Admitted
  <2>3. Timed({}) /\ Cardinality({}) = 0
    BY FS_EmptySet DEF Timed
  <2>4. \A from, to : Between({}, from, to) = {} /\ Since({}, from) = {}
    BY DEF Between, Since
  <2>5. Limit \in Nat
    BY AccessAssumption
  <2> DEFINE nobody == {}
  <2>none. \A from, to : Cardinality(Between(nobody, from, to)) = 0 /\ Cardinality(Since(nobody, from)) = 0
    BY <2>3, <2>4
  <2>timed. Timed(nobody) /\ \A l \in nobody : l[1] < limiter.started + Window
    BY <2>3
  <2> HIDE DEF nobody
  <2>6. WindowsHold(nobody, limiter.started, limiter.attempts)
    BY <2>1, <2>none, <2>timed, <2>5 DEF WindowsHold
  <2>7. \A from \in Int : Cardinality(Between(nobody, from, from + Window)) <= 2 * Limit * 0
    BY <2>none, <2>5
  <2>8. 0 + (IF wall < limiter.started THEN 1 ELSE 0) <= setBacks
    BY <2>1
  <2>9. Admitted \ nobody = nobody /\ nobody \in SUBSET Admitted
    BY <2>2 DEF nobody
  <2>10. Timed(Admitted)
    BY <2>2, <2>3
  <2> QED BY <2>6, <2>7, <2>8, <2>9, <2>10 DEF LimiterInv
<1>2. MemoInv /\ LimiterInv => LoginsLimited
  <2> SUFFICES ASSUME MemoInv, LimiterInv, NEW from \in 0..MaxClock
               PROVE  Cardinality({login \in Admitted : login[1] \in from..from + Window - 1})
                        <= 2 * Limit * (1 + setBacks)
    BY DEF LoginsLimited
  <2>1. PICK old \in SUBSET Admitted, times \in Nat :
          /\ times + (IF wall < limiter.started THEN 1 ELSE 0) <= setBacks
          /\ Timed(Admitted)
          /\ \A start \in Int : Cardinality(Between(old, start, start + Window)) <= 2 * Limit * times
          /\ WindowsHold(Admitted \ old, limiter.started, limiter.attempts)
    BY DEF LimiterInv
  <2>2. from \in Int /\ Window \in Nat /\ Limit \in Nat /\ setBacks \in Nat
    BY HandlerTypes, AccessAssumption
  <2> DEFINE some == {login \in Admitted : login[1] \in from..from + Window - 1}
  <2>3. some \subseteq Between(old, from, from + Window) \cup Between(Admitted \ old, from, from + Window)
    BY <2>2 DEF Between
  <2>4. /\ IsFiniteSet(Between(old, from, from + Window))
        /\ IsFiniteSet(Between(Admitted \ old, from, from + Window))
    BY <2>1, PartsAreTimed DEF Between, Timed
  <2> DEFINE before == Between(old, from, from + Window)
             after == Between(Admitted \ old, from, from + Window)
  <2>parts. IsFiniteSet(before) /\ IsFiniteSet(after) /\ some \subseteq before \cup after
    BY <2>3, <2>4
  <2> HIDE DEF some, before, after
  <2>5. /\ Cardinality(some) <= Cardinality(before) + Cardinality(after)
        /\ Cardinality(some) \in Nat /\ Cardinality(before) \in Nat /\ Cardinality(after) \in Nat
    BY <2>parts, Counts
  <2>6. Cardinality(before) <= 2 * Limit * times /\ Cardinality(after) <= 2 * Limit
    BY <2>1, <2>2 DEF WindowsHold, before, after
  <2>7. times <= setBacks
    BY <2>1, <2>2
  <2>8. 2 * Limit * times + 2 * Limit <= 2 * Limit * (1 + setBacks)
    <3>1. PICK more \in Nat : setBacks = times + more
      BY <2>2, <2>7
    <3>2. 2 * Limit * more \in Nat /\ 2 * Limit * times \in Nat
      BY <2>2
    <3>3. 2 * Limit * (1 + setBacks) = 2 * Limit + 2 * Limit * times + 2 * Limit * more
      BY <2>2, <3>1
    <3> QED BY <2>2, <3>2, <3>3
  <2>9. 2 * Limit * times \in Nat /\ 2 * Limit * (1 + setBacks) \in Nat
    BY <2>2
  <2>10. Cardinality(some) <= 2 * Limit * (1 + setBacks)
    BY <2>2, <2>5, <2>6, <2>8, <2>9
  <2> QED BY <2>10 DEF some
<1> QED BY <1>1, <1>2, LimiterKept, MemoSettledDown, PTL DEF Spec

-----------------------------------------------------------------------------
(* The batch scripts.                                                      *)

Records == Seq({"reserved", "verified", "failed"})

LEMMA BatchTypes ==
  ASSUME BatchTypeOK
  PROVE  /\ records \in Records /\ Current \in Nat /\ numbered \in Seq(Records)
         /\ calls \in [Indexes -> Nat] /\ kind \in {"question", "memo"}
BY DEF BatchTypeOK, Records, Current, Kinds

(* A checkpoint that is written is never taken back.                       *)
LEMMA EvidenceStays ==
  ASSUME BatchTypeOK, BatchNext, NEW i
  PROVE  Evidence(i) => Evidence(i)'
<1>1. kind' = kind /\ archives \subseteq archives'
  BY DEF BatchNext, StartBatch, StartFails, Save, Overwrite, ReserveRequest, CallRequest, ExecutePhase, Archive,
     RecordResult, ReserveSample, RunSample, ExecuteSample, RecordSample, FinishBatch, KillBatch
<1>2. numbered' = numbered \/ numbered' = Append(numbered, records)
  BY DEF BatchNext, StartBatch, StartFails, Save, Overwrite, ReserveRequest, CallRequest, ExecutePhase, Archive,
     RecordResult, ReserveSample, RunSample, ExecuteSample, RecordSample, FinishBatch, KillBatch
<1>3. ASSUME NEW k \in DOMAIN numbered PROVE k \in DOMAIN numbered' /\ numbered'[k] = numbered[k]
  <2>1. numbered \in Seq(Records) /\ records \in Records
    BY BatchTypes
  <2>2. CASE numbered' = Append(numbered, records)
    BY <1>3, <2>1, <2>2
  <2> QED BY <1>2, <1>3, <2>2
<1> QED BY <1>1, <1>3 DEF Evidence

(* Recording how a request went keeps the number of records.               *)
LEMMA ResultRecorded ==
  ASSUME BatchTypeOK, records # <<>>, NEW how \in {"reserved", "verified", "failed"},
         records' = [records EXCEPT ![Current] = how]
  PROVE  records' \in Records /\ Len(records') = Len(records) /\ records' # <<>>
<1>1. records \in Records /\ Current \in 1..Len(records)
  BY BatchTypes DEF Current, Records
<1>2. [records EXCEPT ![Current] = how] \in Records /\ Len([records EXCEPT ![Current] = how]) = Len(records)
  BY <1>1, ExceptSeq DEF Records
<1> QED BY <1>1, <1>2 DEF Records

(* The types, and that what is sent was reserved.                          *)
LEMMA BatchTyped ==
  ASSUME BatchInv, BatchNext
  PROVE  BatchTypeOK' /\ HasRequest'
<1>0. /\ BatchTypeOK /\ HasRequest /\ records \in Records /\ Current \in Nat /\ numbered \in Seq(Records)
      /\ kind' = kind
  BY BatchTypes DEF BatchInv, BatchNext, StartBatch, StartFails, Save, Overwrite, ReserveRequest,
     CallRequest, ExecutePhase, Archive, RecordResult, ReserveSample, RunSample, ExecuteSample,
     RecordSample, FinishBatch, KillBatch
<1>1. CASE StartBatch
  BY <1>0, <1>1 DEF BatchTypeOK, HasRequest, BeforeCall, StartBatch, SaveThen, Records
<1>10. CASE StartFails
  BY <1>0, <1>10 DEF BatchTypeOK, HasRequest, BeforeCall, StartFails, Records
<1>2. CASE Save
  <2>1. numbered' \in Seq(Records)
    BY <1>0, <1>2 DEF Save
  <2> QED BY <1>0, <1>2, <2>1 DEF BatchTypeOK, HasRequest, BeforeCall, Save, Ends, Records
<1>3. CASE Overwrite
  BY <1>0, <1>3 DEF BatchTypeOK, HasRequest, BeforeCall, Overwrite, Ends, Records
<1>4. CASE ReserveRequest \/ ReserveSample
  <2>1. records' = Append(records, "reserved")
    BY <1>4 DEF ReserveRequest, ReserveSample
  <2>2. records' \in Records /\ records' # <<>>
    BY <1>0, <2>1 DEF Records
  <2> QED BY <1>0, <1>4, <2>2 DEF BatchTypeOK, HasRequest, BeforeCall, ReserveRequest, ReserveSample,
             SaveThen, Records
<1>5. CASE CallRequest \/ RunSample
  <2>1. calls' \in [Indexes -> Nat]
    BY <1>0, <1>5 DEF BatchTypeOK, CallRequest, ExecutePhase, RunSample, ExecuteSample
  <2> QED BY <1>0, <1>5, <2>1 DEF BatchTypeOK, HasRequest, BeforeCall, CallRequest, ExecutePhase,
             RunSample, ExecuteSample,
             PhaseOutcome, SampleOutcome
<1>6. CASE Archive
  <2>1. records # <<>>
    BY <1>0, <1>6 DEF HasRequest, Archive
  <2>2. records' \in Records /\ records' # <<>>
    BY <1>0, <1>6, <2>1, ResultRecorded DEF Archive
  <2> QED BY <1>0, <1>6, <2>2 DEF BatchTypeOK, HasRequest, BeforeCall, Archive, SaveThen, Records
<1>7. CASE RecordResult \/ RecordSample
  <2>1. records # <<>>
    BY <1>0, <1>7 DEF HasRequest, RecordResult, RecordSample
  <2>2. records' \in Records /\ records' # <<>>
    BY <1>0, <1>7, <2>1, ResultRecorded DEF RecordResult, RecordSample
  <2> QED BY <1>0, <1>7, <2>2 DEF BatchTypeOK, HasRequest, BeforeCall, RecordResult, RecordSample,
             SaveThen, Records
<1>8. CASE FinishBatch
  BY <1>0, <1>8 DEF BatchTypeOK, HasRequest, BeforeCall, FinishBatch, SaveThen
<1>9. CASE KillBatch
  BY <1>0, <1>9 DEF BatchTypeOK, HasRequest, BeforeCall, KillBatch, Ends
<1> QED BY <1>1, <1>2, <1>3, <1>4, <1>5, <1>6, <1>7, <1>8, <1>9, <1>10 DEF BatchNext

(* The script counts up: a request is sent once it is the last one, and    *)
(* not again.                                                              *)
LEMMA QuestionBatchStep ==
  ASSUME BatchInv, BatchNext
  PROVE  QuestionBatchInv'
<1>0. /\ BatchTypeOK /\ HasRequest /\ QuestionBatchInv /\ records \in Records /\ Current \in Nat
      /\ Current = Len(records) /\ numbered \in Seq(Records) /\ calls \in [Indexes -> Nat]
  BY BatchTypes DEF BatchInv, Current
<1>1. kind' = kind
  BY DEF BatchNext, StartBatch, StartFails, Save, Overwrite, ReserveRequest, CallRequest, ExecutePhase, Archive,
     RecordResult, ReserveSample, RunSample, ExecuteSample, RecordSample, FinishBatch, KillBatch
<1> SUFFICES ASSUME kind = "question" PROVE QuestionBatchInv'
  BY <1>1 DEF QuestionBatchInv
<1>2. CASE StartBatch \/ StartFails
  BY <1>0, <1>1, <1>2 DEF QuestionBatchInv, BeforeCall, StartBatch, StartFails, SaveThen
<1>3. CASE Save
  <2>1. /\ at = "save" /\ out' = out /\ calls' = calls /\ records' = records
        /\ \/ numbered' = Append(numbered, records) /\ at' = "overwrite" /\ resume' = resume
           \/ at' = "idle" /\ resume' = "idle"
    BY <1>3 DEF Save, Ends
  <2>2. numbered' = Append(numbered, records) /\ resume = "call" => Evidence(Current)'
    <3> SUFFICES ASSUME numbered' = Append(numbered, records), resume = "call"
                 PROVE  Evidence(Current)'
      OBVIOUS
    <3>1. Current \in DOMAIN records /\ Current' = Current
      BY <1>0, <2>1 DEF HasRequest, BeforeCall, Current, Records
    <3>2. Len(numbered) + 1 \in DOMAIN numbered' /\ numbered'[Len(numbered) + 1] = records
      BY <1>0
    <3> QED BY <1>1, <3>1, <3>2 DEF Evidence
  <2> QED BY <1>0, <1>1, <2>1, <2>2 DEF QuestionBatchInv, BeforeCall, Current
<1>4. CASE Overwrite
  <2>1. /\ at = "overwrite" /\ out' = out /\ calls' = calls /\ records' = records /\ numbered' = numbered
        /\ archives' = archives
        /\ \/ at' = resume /\ resume' = resume
           \/ at' = "idle" /\ resume' = "idle"
    BY <1>4 DEF Overwrite, Ends
  <2> QED BY <1>0, <1>1, <2>1 DEF BatchTypeOK, QuestionBatchInv, BeforeCall, Current, Evidence
<1>5. CASE ReserveRequest
  <2>1. /\ at = "next" /\ out' = out /\ calls' = calls /\ at' = "save" /\ resume' = "call"
        /\ Len(records') = Current + 1
    BY <1>0, <1>5 DEF ReserveRequest, SaveThen, Records
  <2> QED BY <1>0, <1>1, <2>1 DEF QuestionBatchInv, BeforeCall, Current, Indexes
<1>6. CASE CallRequest
  <2>1. /\ at = "call" /\ out' = out /\ records' = records /\ at' \in {"verified", "failed"}
        /\ calls' = [calls EXCEPT ![Current] = @ + 1]
    BY <1>6 DEF CallRequest, ExecutePhase, PhaseOutcome
  <2> QED BY <1>0, <1>1, <2>1 DEF QuestionBatchInv, BeforeCall, Current, Indexes
<1>7. CASE Archive \/ RecordResult
  <2>1. /\ at \in {"verified", "failed"} /\ out' = out /\ calls' = calls
        /\ \/ at' = at
           \/ at' = "save" /\ resume' \in {"idle", "next"}
    BY <1>7 DEF Archive, RecordResult, SaveThen
  <2>2. Len(records') = Len(records)
    BY <1>0, <1>7, <2>1, ResultRecorded DEF Archive, RecordResult, HasRequest
  <2> QED BY <1>0, <1>1, <2>1, <2>2 DEF QuestionBatchInv, BeforeCall, Current
<1>8. CASE FinishBatch
  BY <1>0, <1>1, <1>8 DEF QuestionBatchInv, BeforeCall, Current, FinishBatch, SaveThen
<1>9. CASE KillBatch
  BY <1>0, <1>1, <1>9 DEF QuestionBatchInv, BeforeCall, Current, KillBatch, Ends
<1>10. ~(ReserveSample \/ RunSample \/ RecordSample)
  BY DEF ReserveSample, RunSample, ExecuteSample, RecordSample
<1> QED BY <1>2, <1>3, <1>4, <1>5, <1>6, <1>7, <1>8, <1>9, <1>10 DEF BatchNext

(* A request is sent when it was never sent before, and what says so is on *)
(* disk already, or is made by the same step.                              *)
LEMMA PaidStep ==
  ASSUME BatchInv, BatchNext
  PROVE  PaidOnceWithTrace'
<1>0. /\ BatchTypeOK /\ QuestionBatchInv /\ PaidOnceWithTrace /\ calls \in [Indexes -> Nat]
      /\ kind \in {"question", "memo"}
  BY BatchTypes DEF BatchInv
<1>1. CASE calls' = calls
  <2>1. \A i \in Indexes : calls'[i] <= 1 /\ (calls'[i] = 1 => Evidence(i)')
    BY <1>0, <1>1, EvidenceStays DEF PaidOnceWithTrace
  <2> QED BY <2>1 DEF PaidOnceWithTrace, Indexes, Evidence
<1>2. CASE (CallRequest \/ RunSample) /\ calls' = [calls EXCEPT ![Current] = @ + 1] /\ calls' # calls
  <2>1. ASSUME NEW i \in Indexes PROVE calls'[i] <= 1 /\ (calls'[i] = 1 => Evidence(i)')
    <3>1. CASE i # Current
      BY <1>0, <1>2, <3>1, EvidenceStays DEF PaidOnceWithTrace
    <3>2. CASE i = Current
      <4>1. calls[i] = 0
        <5>1. CASE kind = "question"
          <6>1. calls[i] # 0 => i < Current
            BY <1>0, <1>2, <5>1
            DEF QuestionBatchInv, BeforeCall, CallRequest, ExecutePhase, RunSample, ExecuteSample
          <6> QED BY <1>0, <3>2, <6>1, BatchTypes
        <5>2. CASE kind = "memo"
          <6>1. i \notin archives
            BY <1>0, <1>2, <3>2, <5>2 DEF CallRequest, RunSample, ExecuteSample
          <6> QED BY <1>0, <5>2, <6>1 DEF PaidOnceWithTrace, Evidence
        <5> QED BY <1>0, <5>1, <5>2
      <4>2. calls'[i] = 1
        BY <1>0, <1>2, <3>2, <4>1
      <4>3. Evidence(i)'
        <5>1. CASE kind = "question"
          BY <1>0, <1>2, <3>2, <5>1, EvidenceStays
          DEF QuestionBatchInv, CallRequest, ExecutePhase, RunSample, ExecuteSample
        <5>2. CASE kind = "memo"
          BY <1>2, <3>2, <5>2 DEF Evidence, CallRequest, RunSample, ExecuteSample
        <5> QED BY <1>0, <5>1, <5>2
      <4> QED BY <4>2, <4>3
    <3> QED BY <3>1, <3>2
  <2> QED BY <2>1 DEF PaidOnceWithTrace, Indexes, Evidence
<1>3. calls' = calls \/ ((CallRequest \/ RunSample) /\ calls' = [calls EXCEPT ![Current] = @ + 1])
  BY DEF BatchNext, StartBatch, StartFails, Save, Overwrite, ReserveRequest, CallRequest, ExecutePhase, Archive,
     RecordResult, ReserveSample, RunSample, ExecuteSample, RecordSample, FinishBatch, KillBatch
<1> QED BY <1>1, <1>2, <1>3

LEMMA BatchInitially == BatchInit => BatchInv
<1> HAVE BatchInit
<1>1. <<>> \in Records /\ <<>> \in Seq(Records)
  BY DEF Records
<1>2. BatchTypeOK
  BY <1>1 DEF BatchInit, BatchTypeOK, Records
<1>3. HasRequest /\ QuestionBatchInv /\ PaidOnceWithTrace
  BY DEF BatchInit, HasRequest, BeforeCall, QuestionBatchInv, PaidOnceWithTrace
<1> QED BY <1>2, <1>3 DEF BatchInv

(* No request of a batch is paid for twice or without a trace, whatever    *)
(* write fails and whenever the script is killed and started again         *)
(* (run-question-batch.ts and run-memo-batch.ts).                          *)
THEOREM BatchPaysOnce == BatchSpec => []PaidOnceWithTrace
<1>1. BatchInv /\ [BatchNext]_batchVars => BatchInv'
  <2> SUFFICES ASSUME BatchInv, [BatchNext]_batchVars PROVE BatchInv'
    OBVIOUS
  <2>1. CASE BatchNext
    BY <2>1, BatchTyped, QuestionBatchStep, PaidStep DEF BatchInv
  <2>2. CASE UNCHANGED batchVars
    BY <2>2 DEF batchVars, BatchInv, BatchTypeOK, HasRequest, BeforeCall, QuestionBatchInv, PaidOnceWithTrace,
       Evidence, Current, Indexes
  <2> QED BY <2>1, <2>2
<1>2. BatchInv => PaidOnceWithTrace
  BY DEF BatchInv
<1> QED BY <1>1, <1>2, BatchInitially, PTL DEF BatchSpec

-----------------------------------------------------------------------------
(* Runs of a question.                                                     *)

IsLog(events) == Len(events) \in Nat /\ events = [i \in 1..Len(events) |-> events[i]]
IsRun(r) ==
  /\ r = [phase |-> r.phase, question |-> r.question, status |-> r.status,
            created |-> r.created, contract |-> r.contract, calls |-> r.calls,
            events |-> r.events, answer |-> r.answer]
  /\ r.phase \in Phases /\ r.question \in Questions /\ r.created \in Nat
  /\ IsLog(r.events)

(* The one event of the name has these details.                            *)
Has(r, name, details) ==
  \E i \in DOMAIN r.events : Named(r, name) = {i} /\ r.events[i].details = details

(* A run that the browser will keep.                                       *)
Sound(r) ==
  /\ IsRun(r) /\ ValidateQuestionRun(r)
  /\ r.phase = "plan" /\ r.status = "CONTRACT_DRAFTED" => r.contract # Nil

Confirmable(signed) ==
  Sound(signed.run) /\ signed.run.phase = "plan" /\ signed.run.status = "CONTRACT_DRAFTED"

(* A run before its call: all is there that its conclusion needs.          *)
Opened(r, phase, signed) ==
  /\ IsRun(r) /\ r.phase = phase /\ r.status = "BLOCKED" /\ r.answer = Nil
  /\ phase = "plan" => r.contract = Nil
  /\ phase = "execute" =>
       /\ Confirmable(signed)
       /\ r.contract = signed.run.contract /\ r.question = signed.run.question
       /\ Has(r, "plan_record", signed.run)
       /\ Has(r, "contract_confirmed", [plan |-> signed.run, contract |-> r.contract])

Called(r, phase, signed) ==
  /\ Opened(r, phase, signed)
  /\ r.calls = <<r.calls[1]>>
  /\ r.calls[1] = [phase |-> phase, output |-> r.calls[1].output,
                     failure |-> r.calls[1].failure]
  /\ Has(r, "model_requested", phase) /\ Named(r, "model_returned") = {}

(* What a reply or a receipt has for a phase.                              *)
Delivered(r, phase) == Sound(r) /\ r.phase = phase
Completed(r, phase) == r # NoRun => Delivered(r, phase) /\ r.calls # <<>>

(* What the invariant says of a request, and of a receipt.                 *)
IsAsk(a) == a = [at |-> a.at, phase |-> a.phase, input |-> a.input, draft |-> a.draft,
                 owner |-> a.owner, run |-> a.run, paid |-> a.paid, status |-> a.status]

AskHolds(a, receipts, asked) ==
  /\ IsAsk(a)
  /\ a.at \in {"idle", "store", "core", "reserve", "call", "settle", "complete", "reply"}
  /\ a.at # "idle" =>
       /\ a.phase \in Phases /\ a.owner \in {1, 2}
       /\ a.phase = "execute" =>
            /\ Confirmable(a.draft) /\ a.draft.run.question = asked
            /\ a.draft.owner = a.owner /\ a.input \in Snapshots
  /\ a.at \in {"store", "core", "reserve", "call", "settle"} /\ a.phase = "execute" =>
       ResolveQuestionEvidence(a.draft.run.contract, a.input) = "READY"
  /\ a.at \in {"core", "reserve", "call", "settle", "complete"} =>
       receipts[a.phase].owner # 0 /\ receipts[a.phase].draft = a.draft
  /\ a.at \in {"store", "core", "reserve"} => a.paid = "no"
  /\ a.at \in {"store", "core"} => a.run = NoRun
  /\ a.at \in {"reserve", "call", "settle"} =>
       Called(a.run, a.phase, a.draft) /\ a.run.question = asked
  /\ a.at \in {"complete", "reply"} =>
       /\ a.run # NoRun => Delivered(a.run, a.phase) /\ a.run.question = asked
       /\ a.paid = "reserved" => a.run # NoRun /\ a.status = 503 /\ a.run.status = "BLOCKED"
  /\ a.at = "complete" => a.status # 0 /\ Completed(a.run, a.phase)

ReceiptHolds(phase, receipts, asked) ==
  LET found == receipts[phase] IN
  /\ found = [owner |-> found.owner, input |-> found.input, draft |-> found.draft,
              run |-> found.run, status |-> found.status]
  /\ found.owner \in 0..2
  /\ found.status # 0 =>
       /\ Completed(found.run, phase)
       /\ found.run # NoRun => found.run.question = asked

RunsInv ==
  /\ minute \in Nat /\ owner \in {1, 2} /\ question \in Questions
  /\ DOMAIN ask = Asks /\ receipt = [p \in Phases |-> receipt[p]]
  /\ draft # Nil => Confirmable(draft) /\ draft.run.question = question
  /\ \A q \in Asks : AskHolds(ask[q], receipt, question)
  /\ \A p \in Phases : ReceiptHolds(p, receipt, question)

(* A log with one more entry.                                              *)
Extends(longer, log, entry) ==
  /\ IsLog(longer) /\ longer # <<>>
  /\ DOMAIN log = 1..Len(log) /\ DOMAIN longer = 1..Len(log) + 1
  /\ longer[Len(log) + 1] = entry /\ \A i \in 1..Len(log) : longer[i] = log[i]

LEMMA Logged ==
  ASSUME NEW log, IsLog(log), NEW entry, NEW longer, longer = Append(log, entry)
  PROVE  Extends(longer, log, entry)
<1> DEFINE Entries == {log[i] : i \in 1..Len(log)} \cup {entry}
<1>1. log \in Seq(Entries)
  <2>1. log \in [1..Len(log) -> Entries]
    BY DEF IsLog
  <2> QED BY <2>1, SeqDef DEF IsLog
<1>2. /\ longer \in Seq(Entries) /\ longer # <<>>
      /\ Len(longer) = Len(log) + 1 /\ DOMAIN longer = 1..Len(longer)
      /\ longer[Len(log) + 1] = entry /\ \A i \in 1..Len(log) : longer[i] = log[i]
  <2> HIDE DEF Entries
  <2>1. entry \in Entries
    BY DEF Entries
  <2> QED BY <1>1, <2>1, AppendProperties
<1>3. Len(log) \in Nat /\ DOMAIN log = 1..Len(log)
  BY <1>1
<1>4. longer \in [1..Len(longer) -> Entries] /\ Len(longer) \in Nat
  <2> HIDE DEF Entries
  <2> QED BY <1>2, LenProperties
<1>5. IsLog(longer)
  <2> HIDE DEF Entries
  <2>1. ASSUME NEW n \in Nat, NEW S, NEW f \in [1..n -> S] PROVE f = [i \in 1..n |-> f[i]]
    OBVIOUS
  <2>2. longer = [i \in 1..Len(longer) |-> longer[i]]
    BY <1>4, <2>1
  <2> QED BY <1>4, <2>2 DEF IsLog
<1> QED BY <1>2, <1>3, <1>5 DEF Extends

(* An event is added to a run.                                             *)
LEMMA Added ==
  ASSUME NEW r, IsRun(r), NEW name, NEW details, NEW more, more = AddEvent(r, name, details)
  PROVE  /\ IsRun(more) /\ more.events # <<>>
         /\ more.phase = r.phase /\ more.question = r.question /\ more.status = r.status
         /\ more.created = r.created /\ more.contract = r.contract /\ more.calls = r.calls
         /\ more.answer = r.answer
         /\ \A other, was : other # name /\ Has(r, other, was) => Has(more, other, was)
         /\ \A other : other # name /\ Named(r, other) = {} => Named(more, other) = {}
         /\ Named(r, name) = {} => Has(more, name, details)
<1> DEFINE entry == [event |-> name, details |-> details]
<1>1. /\ more.events = Append(r.events, entry)
      /\ more.phase = r.phase /\ more.question = r.question /\ more.status = r.status
      /\ more.created = r.created /\ more.contract = r.contract /\ more.calls = r.calls
      /\ more.answer = r.answer
      /\ more = [phase |-> r.phase, question |-> r.question, status |-> r.status,
                 created |-> r.created, contract |-> r.contract, calls |-> r.calls,
                 events |-> more.events, answer |-> r.answer]
  BY DEF AddEvent, IsRun
<1>2. IsLog(r.events)
  BY DEF IsRun
<1>3. /\ IsLog(more.events) /\ more.events # <<>>
      /\ DOMAIN r.events = 1..Len(r.events) /\ DOMAIN more.events = 1..Len(r.events) + 1
      /\ more.events[Len(r.events) + 1] = entry
      /\ \A i \in 1..Len(r.events) : more.events[i] = r.events[i]
      /\ Len(r.events) \in Nat
  <2> HIDE DEF entry
  <2>1. Len(r.events) \in Nat
    BY <1>2 DEF IsLog
  <2>2. Extends(more.events, r.events, entry)
    BY <1>1, <1>2, Logged, Zenon
  <2> QED BY <2>1, <2>2 DEF Extends
<1>4. IsRun(more)
  BY <1>1, <1>3 DEF IsRun
<1>5. \A other : other # name => Named(more, other) = Named(r, other)
  BY <1>3 DEF Named
<1>6. \A other, was : other # name /\ Has(r, other, was) => Has(more, other, was)
  BY <1>3, <1>5 DEF Has
<1>7. Named(more, name) = Named(r, name) \cup {Len(r.events) + 1}
  BY <1>3 DEF Named
<1>8. Named(r, name) = {} => Has(more, name, details)
  BY <1>3, <1>7 DEF Has
<1> QED BY <1>1, <1>3, <1>4, <1>5, <1>6, <1>8

(* The one event of a name is the one the browser finds.                   *)
LEMMA HadOnce ==
  ASSUME NEW r, NEW name, NEW details, Has(r, name, details)
  PROVE  Once(r, name) /\ Details(r, name) = details
BY DEF Has, Once, Details

(* A run has just been made.                                               *)
LEMMA Started ==
  ASSUME question \in Questions, minute \in Nat, NEW phase \in Phases,
         NEW r, r = NewRun(phase)
  PROVE  /\ IsRun(r) /\ r.phase = phase /\ r.question = question /\ r.created = minute
         /\ r.status = "BLOCKED" /\ r.contract = Nil /\ r.calls = <<>> /\ r.answer = Nil
         /\ \A name : Named(r, name) = {}
<1>1. /\ r.phase = phase /\ r.question = question /\ r.created = minute
      /\ r.status = "BLOCKED" /\ r.contract = Nil /\ r.calls = <<>> /\ r.answer = Nil
      /\ r.events = <<>>
      /\ r = [phase |-> r.phase, question |-> r.question, status |-> r.status,
              created |-> r.created, contract |-> r.contract, calls |-> r.calls,
              events |-> r.events, answer |-> r.answer]
  BY DEF NewRun
<1>2. IsLog(<<>>) /\ DOMAIN <<>> = {}
  BY DEF IsLog
<1> QED BY <1>1, <1>2 DEF IsRun, Named

(* Before the call, and before anything was noted of it.                   *)
Silent(r) ==
  r.calls = <<>> /\ Named(r, "model_requested") = {} /\ Named(r, "model_returned") = {}

(* What is noted of the run's progress leaves it as it is.                 *)
LEMMA StaysOpened ==
  ASSUME NEW r, NEW phase, NEW signed, Opened(r, phase, signed), NEW details,
         NEW name, name \notin {"plan_record", "contract_confirmed"},
         NEW more, more = AddEvent(r, name, details)
  PROVE  /\ Opened(more, phase, signed) /\ more.calls = r.calls /\ more.question = r.question
         /\ name \notin {"model_requested", "model_returned"} /\ Silent(r) => Silent(more)
<1>1. IsRun(r)
  BY DEF Opened
<1> QED BY <1>1, Added DEF Opened, Silent

(* The run of an execution, up to its evidence.                            *)
LEMMA ConfirmedOpens ==
  ASSUME question \in Questions, minute \in Nat, NEW snapshot, NEW signed, Confirmable(signed),
         signed.run.question = question, NEW r, r = Confirmed(signed, snapshot)
  PROVE  Opened(r, "execute", signed) /\ r.question = question /\ Silent(r) /\ r.events # <<>>
<1> DEFINE fresh == NewRun("execute")
           begun == [fresh EXCEPT !.contract = signed.run.contract]
           confirmed == AddEvent(begun, "contract_confirmed",
                          [plan |-> signed.run, contract |-> begun.contract])
           planned == AddEvent(confirmed, "plan_record", signed.run)
<1>1. r = AddEvent(planned, "snapshot_supplied", snapshot)
  BY DEF Confirmed
<1>2. /\ IsRun(begun) /\ begun.phase = "execute" /\ begun.question = question
      /\ begun.status = "BLOCKED" /\ begun.answer = Nil /\ begun.calls = <<>>
      /\ begun.contract = signed.run.contract
      /\ \A name : Named(begun, name) = {}
  <2>1. /\ IsRun(fresh) /\ fresh.phase = "execute" /\ fresh.question = question
        /\ fresh.status = "BLOCKED" /\ fresh.answer = Nil /\ fresh.calls = <<>>
        /\ \A name : Named(fresh, name) = {}
    BY Started DEF Phases
  <2> HIDE DEF fresh
  <2> QED BY <2>1 DEF IsRun, Named
<1> HIDE DEF begun
<1>3. /\ IsRun(confirmed) /\ confirmed.phase = "execute" /\ confirmed.question = question
      /\ confirmed.status = "BLOCKED" /\ confirmed.answer = Nil /\ confirmed.calls = <<>>
      /\ confirmed.contract = signed.run.contract
      /\ \A name : name # "contract_confirmed" => Named(confirmed, name) = {}
      /\ Has(confirmed, "contract_confirmed",
             [plan |-> signed.run, contract |-> signed.run.contract])
  <2> DEFINE confirmation == [plan |-> signed.run, contract |-> begun.contract]
  <2>1. confirmed = AddEvent(begun, "contract_confirmed", confirmation)
    OBVIOUS
  <2>2. confirmation = [plan |-> signed.run, contract |-> signed.run.contract]
    BY <1>2
  <2> HIDE DEF confirmed, confirmation
  <2> QED BY <1>2, <2>1, <2>2, Added
<1> HIDE DEF confirmed
<1>4. /\ IsRun(planned) /\ planned.phase = "execute" /\ planned.question = question
      /\ planned.status = "BLOCKED" /\ planned.answer = Nil /\ planned.calls = <<>>
      /\ planned.contract = signed.run.contract
      /\ \A name : name \notin {"contract_confirmed", "plan_record"} => Named(planned, name) = {}
      /\ Has(planned, "contract_confirmed",
             [plan |-> signed.run, contract |-> signed.run.contract])
      /\ Has(planned, "plan_record", signed.run)
  <2>1. planned = AddEvent(confirmed, "plan_record", signed.run)
    OBVIOUS
  <2> HIDE DEF planned
  <2> QED BY <1>3, <2>1, Added
<1> HIDE DEF planned
<1>5. Opened(planned, "execute", signed) /\ Silent(planned)
  BY <1>4 DEF Opened, Silent
<1> QED BY <1>1, <1>4, <1>5, StaysOpened, Added DEF Opened

(* The call is noted, and then made.                                       *)
LEMMA RequestedIsCalled ==
  ASSUME NEW r, NEW phase, NEW signed, Opened(r, phase, signed), Silent(r),
         NEW more, more = Requested(r)
  PROVE  Called(more, phase, signed) /\ more.question = r.question
<1> DEFINE exchange == [phase |-> phase, output |-> Nil, failure |-> Nil]
           dialled == [r EXCEPT !.calls = <<exchange>>]
<1>1. more = AddEvent(dialled, "model_requested", phase)
  BY DEF Requested, NewCall, Opened
<1>2. /\ Opened(dialled, phase, signed) /\ dialled.calls = <<exchange>>
      /\ dialled.question = r.question
      /\ Named(dialled, "model_requested") = {} /\ Named(dialled, "model_returned") = {}
  <2>1. /\ IsRun(dialled) /\ dialled.calls = <<exchange>> /\ dialled.events = r.events
        /\ dialled.phase = r.phase /\ dialled.question = r.question
        /\ dialled.status = r.status /\ dialled.answer = r.answer
        /\ dialled.contract = r.contract
    BY DEF Opened, IsRun
  <2> HIDE DEF dialled, exchange
  <2> QED BY <2>1 DEF Opened, Silent, Named, Has
<1> HIDE DEF dialled
<1>3. /\ Opened(more, phase, signed) /\ more.calls = <<exchange>> /\ more.question = r.question
  BY <1>1, <1>2, StaysOpened
<1>4. Has(more, "model_requested", phase) /\ Named(more, "model_returned") = {}
  BY <1>1, <1>2, Added DEF Opened
<1> QED BY <1>3, <1>4 DEF Called

LEMMA HeardIsCalled ==
  ASSUME NEW r, NEW phase, NEW signed, Called(r, phase, signed), NEW output, NEW failure,
         NEW more, more = Heard(r, output, failure)
  PROVE  /\ Called(more, phase, signed) /\ more.question = r.question
         /\ more.calls[1].output = output /\ more.calls[1].failure = failure
<1> DEFINE exchange == [phase |-> phase, output |-> output, failure |-> failure]
<1>1. more = [r EXCEPT !.calls = <<exchange>>]
  <2>1. ASSUME NEW was, NEW is, is = [was EXCEPT !.output = output, !.failure = failure],
               was = [phase |-> was.phase, output |-> was.output, failure |-> was.failure]
        PROVE  is = [phase |-> was.phase, output |-> output, failure |-> failure]
    BY <2>1
  <2>2. r.calls[1].phase = phase
    BY DEF Called
  <2>3. [r.calls[1] EXCEPT !.output = output, !.failure = failure] = exchange
    BY <2>1, <2>2 DEF Called
  <2> HIDE DEF exchange
  <2> QED BY <2>3 DEF Heard
<1>2. /\ Opened(more, phase, signed) /\ more.calls = <<exchange>> /\ more.question = r.question
      /\ \A name : Named(more, name) = Named(r, name)
      /\ more.events = r.events
  <2>1. /\ IsRun(more) /\ more.calls = <<exchange>> /\ more.events = r.events
        /\ more.phase = r.phase /\ more.question = r.question
        /\ more.status = r.status /\ more.answer = r.answer /\ more.contract = r.contract
    BY <1>1 DEF Called, Opened, IsRun
  <2> HIDE DEF exchange
  <2> QED BY <2>1 DEF Called, Opened, Named, Has
<1> QED BY <1>2 DEF Called, Has

(* The call is over, and the event says so.                                *)
Accounted(r, phase, signed) ==
  /\ Opened(r, phase, signed) /\ r.events # <<>>
  /\ r.calls = <<r.calls[1]>> /\ r.calls[1].phase = phase
  /\ Has(r, "model_requested", phase)
  /\ Has(r, "model_returned", [r.calls[1] EXCEPT !.output = Nil])

LEMMA ReturnedIsAccounted ==
  ASSUME NEW r, NEW phase, NEW signed, Called(r, phase, signed), NEW more, more = Returned(r)
  PROVE  Accounted(more, phase, signed) /\ more.calls = r.calls /\ more.question = r.question
<1> DEFINE said == [r.calls[1] EXCEPT !.output = Nil]
<1>1. more = AddEvent(r, "model_returned", said)
  BY DEF Returned
<1> HIDE DEF said
<1>2. /\ Opened(more, phase, signed) /\ more.calls = r.calls /\ more.question = r.question
  BY <1>1, StaysOpened DEF Called
<1>3. /\ Has(more, "model_requested", phase) /\ Has(more, "model_returned", said)
      /\ more.events # <<>>
  BY <1>1, Added DEF Called, Opened
<1>4. r.calls = <<r.calls[1]>> /\ r.calls[1].phase = phase
  BY DEF Called
<1> QED BY <1>2, <1>3, <1>4 DEF Accounted, said

(* The last event of an accounted run r, after it became m.                *)
Concludes(more, m, r, phase, signed) ==
  /\ IsRun(more) /\ more.events # <<>> /\ CallsMatchEvents(more)
  /\ more.calls = r.calls /\ more.calls # <<>>
  /\ phase = "execute" => /\ Has(more, "plan_record", signed.run)
                          /\ Has(more, "contract_confirmed",
                                 [plan |-> signed.run, contract |-> r.contract])
  /\ more.phase = m.phase /\ more.question = m.question /\ more.status = m.status
  /\ more.contract = m.contract /\ more.answer = m.answer

LEMMA ConclusionMatches ==
  ASSUME NEW r, NEW phase, NEW signed, Accounted(r, phase, signed),
         NEW name, name \in {"contract_failed", "scope_gate_result", "explanation_failed",
                             "answer_generated"},
         NEW m, IsRun(m), m.calls = r.calls, m.events = r.events,
         NEW details, NEW more, more = AddEvent(m, name, details)
  PROVE  Concludes(more, m, r, phase, signed)
<1> DEFINE said == [r.calls[1] EXCEPT !.output = Nil]
<1>1. \A other, was : Has(m, other, was) <=> Has(r, other, was)
  BY DEF Has, Named
<1>2. /\ IsRun(more) /\ more.events # <<>> /\ more.calls = r.calls
      /\ more.phase = m.phase /\ more.question = m.question /\ more.status = m.status
      /\ more.contract = m.contract /\ more.answer = m.answer
      /\ \A other, was : other # name /\ Has(m, other, was) => Has(more, other, was)
  BY Added
<1>3. Has(more, "model_requested", phase) /\ Has(more, "model_returned", said)
  <2> HIDE DEF said
  <2>1. Has(r, "model_requested", phase) /\ Has(r, "model_returned", said)
    BY DEF Accounted, said
  <2> QED BY <1>1, <1>2, <2>1
<1>4. phase = "execute" => /\ Has(more, "plan_record", signed.run)
                           /\ Has(more, "contract_confirmed",
                                  [plan |-> signed.run, contract |-> r.contract])
  BY <1>1, <1>2 DEF Accounted, Opened
<1>5. /\ Once(more, "model_requested") /\ Details(more, "model_requested") = phase
      /\ Once(more, "model_returned") /\ Details(more, "model_returned") = said
  <2> HIDE DEF said
  <2> QED BY <1>3, HadOnce
<1>6. r.calls = <<r.calls[1]>> /\ r.calls[1].phase = phase
  BY DEF Accounted
<1>7. r.calls # <<>> /\ Len(r.calls) = 1
  <2>1. ASSUME NEW list, NEW exchange, list = <<exchange>> PROVE list # <<>> /\ Len(list) = 1
    BY <2>1
  <2> QED BY <1>6, <2>1
<1>8. CallsMatchEvents(more)
  BY <1>2, <1>5, <1>6, <1>7 DEF CallsMatchEvents
<1> QED BY <1>2, <1>4, <1>7, <1>8 DEF Concludes

LEMMA PlanConcluded ==
  ASSUME NEW r, NEW signed, Accounted(r, "plan", signed), NEW more, more = Planned(r)
  PROVE  /\ Delivered(more, "plan") /\ more.calls # <<>> /\ more.question = r.question
         /\ r.calls[1].failure # Nil => more.status = "BLOCKED"
<1> DEFINE exchange == r.calls[1]
           contract == MakeResearchContract(r.question, exchange.output)
           m == [r EXCEPT !.contract = contract, !.status = contract.status]
<1>1. /\ IsRun(r) /\ r.phase = "plan" /\ r.status = "BLOCKED" /\ r.answer = Nil
      /\ r.contract = Nil
  BY DEF Accounted, Opened
<1>2. CASE exchange.failure # Nil \/ ~ValidateQuestionPlan(exchange.output)
  <2>1. more = AddEvent(r, "contract_failed", Nil)
    BY <1>2 DEF Planned
  <2>2. /\ IsRun(more) /\ more.events # <<>> /\ CallsMatchEvents(more) /\ more.calls # <<>>
        /\ more.phase = "plan" /\ more.question = r.question /\ more.status = "BLOCKED"
        /\ more.contract = Nil /\ more.answer = Nil
    <3>1. Concludes(more, r, r, "plan", signed)
      BY <1>1, <2>1, ConclusionMatches, Zenon
    <3> QED BY <1>1, <3>1 DEF Concludes
  <2>3. ValidateQuestionRun(more)
    BY <2>2 DEF ValidateQuestionRun, ValidPlanRun, AnswerHolds
  <2> QED BY <2>2, <2>3 DEF Delivered, Sound
<1>3. CASE ~(exchange.failure # Nil \/ ~ValidateQuestionPlan(exchange.output))
  <2>1. more = AddEvent(m, "scope_gate_result", contract)
    BY <1>3 DEF Planned
  <2>2. /\ m.phase = r.phase /\ m.question = r.question /\ m.calls = r.calls
        /\ m.events = r.events /\ m.answer = r.answer
        /\ m.contract = contract /\ m.status = contract.status /\ IsRun(m)
    <3>1. m = [r EXCEPT !.contract = contract, !.status = contract.status]
      OBVIOUS
    <3> HIDE DEF m, contract
    <3> QED BY <1>1, <3>1 DEF IsRun
  <2> HIDE DEF m
  <2>3. /\ IsRun(more) /\ more.events # <<>> /\ CallsMatchEvents(more) /\ more.calls # <<>>
        /\ more.calls = r.calls
        /\ more.phase = "plan" /\ more.question = r.question /\ more.status = contract.status
        /\ more.contract = contract /\ more.answer = Nil
    <3>1. Concludes(more, m, r, "plan", signed)
      BY <1>1, <2>1, <2>2, ConclusionMatches, Zenon
    <3> QED BY <1>1, <2>2, <3>1 DEF Concludes
  <2>4. contract # Nil
    BY <1>1, <1>3, NilAssumption DEF IsRun, ValidateQuestionPlan, ResearchContract
  <2>5. contract.status \in {"OUT_OF_SCOPE", "CONTRACT_DRAFTED"}
    BY DEF MakeResearchContract
  <2> HIDE DEF contract
  <2>6. Spoke(more) /\ ValidateQuestionPlan(more.calls[1].output)
    BY <1>3, <2>3, RunsAssumption DEF Spoke, ValidateQuestionPlan
  <2>7. ValidateQuestionRun(more)
    <3>1. more.contract = MakeResearchContract(more.question, more.calls[1].output)
      BY <2>3 DEF contract
    <3> QED BY <2>3, <2>5, <2>6, <3>1 DEF ValidateQuestionRun, ValidPlanRun, AnswerHolds
  <2> QED BY <1>3, <2>3, <2>4, <2>7 DEF Delivered, Sound
<1> QED BY <1>2, <1>3

(* The plan that an execution brings is as the browser checks it.          *)
LEMMA PlanStands ==
  ASSUME NEW r, NEW signed, Confirmable(signed), r.phase = "execute", CallsMatchEvents(r),
         r.events # <<>>, AnswerHolds(r),
         r.question = signed.run.question, r.contract = signed.run.contract,
         Has(r, "plan_record", signed.run),
         Has(r, "contract_confirmed", [plan |-> signed.run, contract |-> r.contract])
  PROVE  ValidateQuestionRun(r)
<1>1. ValidPlanRun(signed.run) /\ signed.run.status = "CONTRACT_DRAFTED"
  BY DEF Confirmable, Sound, ValidateQuestionRun
<1>2. /\ Once(r, "plan_record") /\ Details(r, "plan_record") = signed.run
      /\ Once(r, "contract_confirmed")
      /\ Details(r, "contract_confirmed") = [plan |-> signed.run, contract |-> r.contract]
  <2> DEFINE confirmation == [plan |-> signed.run, contract |-> r.contract]
  <2>1. Has(r, "contract_confirmed", confirmation)
    OBVIOUS
  <2> HIDE DEF confirmation
  <2>2. Once(r, "contract_confirmed") /\ Details(r, "contract_confirmed") = confirmation
    BY <2>1, HadOnce
  <2>3. Once(r, "plan_record") /\ Details(r, "plan_record") = signed.run
    BY HadOnce
  <2> QED BY <2>2, <2>3 DEF confirmation
<1> QED BY <1>1, <1>2 DEF ValidateQuestionRun, ValidExecuteRun

(* An execution becomes an answer, or stays blocked.                       *)
LEMMA ExecutionConcluded ==
  ASSUME NEW r, NEW signed, Accounted(r, "execute", signed), NEW snapshot \in Snapshots,
         ResolveQuestionEvidence(signed.run.contract, snapshot) = "READY",
         NEW more, more = Explained(r, snapshot)
  PROVE  /\ Delivered(more, "execute") /\ more.calls # <<>> /\ more.question = r.question
         /\ more.calls = r.calls
         /\ r.calls[1].failure # Nil => more.status = "BLOCKED"
<1> DEFINE exchange == r.calls[1]
           answer == [explanation |-> exchange.output, snapshot |-> snapshot]
           m == [r EXCEPT !.answer = answer, !.status = AnswerState(exchange.output)]
<1>1. /\ IsRun(r) /\ r.phase = "execute" /\ r.status = "BLOCKED" /\ r.answer = Nil
      /\ Confirmable(signed) /\ r.contract = signed.run.contract
      /\ r.question = signed.run.question
  BY DEF Accounted, Opened
<1>2. ASSUME NEW before, Concludes(more, before, r, "execute", signed), AnswerHolds(more),
             before.phase = "execute", before.question = r.question, before.contract = r.contract
      PROVE  /\ Delivered(more, "execute") /\ more.calls # <<>> /\ more.question = r.question
             /\ more.calls = r.calls
  <2>1. /\ IsRun(more) /\ more.phase = "execute" /\ CallsMatchEvents(more) /\ more.events # <<>>
        /\ more.question = signed.run.question /\ more.contract = signed.run.contract
        /\ more.calls # <<>> /\ more.calls = r.calls
    BY <1>1, <1>2 DEF Concludes
  <2>2. /\ Has(more, "plan_record", signed.run)
        /\ Has(more, "contract_confirmed", [plan |-> signed.run, contract |-> more.contract])
    BY <1>1, <1>2, <2>1 DEF Concludes
  <2>3. ValidateQuestionRun(more)
    BY <1>1, <1>2, <2>1, <2>2, PlanStands
  <2> QED BY <1>1, <2>1, <2>3 DEF Delivered, Sound
<1>3. CASE exchange.failure # Nil \/ exchange.output \notin Explanations
  <2>1. more = AddEvent(r, "explanation_failed", Nil)
    BY <1>3 DEF Explained
  <2>2. Concludes(more, r, r, "execute", signed)
    BY <1>1, <2>1, ConclusionMatches, Zenon
  <2>3. more.status = "BLOCKED" /\ AnswerHolds(more)
    BY <1>1, <2>2 DEF Concludes, AnswerHolds
  <2> QED BY <1>1, <1>2, <2>2, <2>3
<1>4. CASE ~(exchange.failure # Nil \/ exchange.output \notin Explanations)
  <2>1. more = AddEvent(m, "answer_generated", exchange.output)
    BY <1>4 DEF Explained
  <2>2. /\ m.phase = r.phase /\ m.question = r.question /\ m.calls = r.calls
        /\ m.events = r.events /\ m.contract = r.contract
        /\ m.answer = answer /\ m.status = AnswerState(exchange.output) /\ IsRun(m)
    <3>1. m = [r EXCEPT !.answer = answer, !.status = AnswerState(exchange.output)]
      OBVIOUS
    <3> HIDE DEF m, answer, exchange
    <3> QED BY <1>1, <3>1 DEF IsRun
  <2> HIDE DEF m
  <2>3. Concludes(more, m, r, "execute", signed)
    BY <1>1, <2>1, <2>2, ConclusionMatches, Zenon
  <2>4. /\ more.calls = r.calls /\ more.calls # <<>> /\ more.contract = signed.run.contract
        /\ more.status = AnswerState(exchange.output)
        /\ more.answer = answer
    BY <1>1, <2>2, <2>3 DEF Concludes
  <2>5. Spoke(more) /\ more.calls[1].output \in Explanations
    BY <1>4, <2>4, RunsAssumption DEF Spoke, Explanations
  <2>6. signed.run.contract # Nil
    BY <1>1 DEF Confirmable, Sound
  <2>7. more.answer.explanation = exchange.output /\ more.answer.snapshot = snapshot
    BY <2>4
  <2>8. AnswerHolds(more)
    <3>1. more.answer # Nil
      BY <1>4, <2>4, NilAssumption DEF AnswerPackage
    <3> QED BY <2>4, <2>5, <2>6, <2>7, <3>1 DEF AnswerHolds
  <2> QED BY <1>1, <1>2, <1>4, <2>2, <2>3, <2>8
<1> QED BY <1>3, <1>4

(* Evidence that is not ready makes a run without a call.                  *)
LEMMA GatedIsDelivered ==
  ASSUME question \in Questions, minute \in Nat, NEW snapshot, NEW signed, Confirmable(signed),
         signed.run.question = question,
         ResolveQuestionEvidence(signed.run.contract, snapshot) # "READY",
         NEW r, r = Gated(Confirmed(signed, snapshot), snapshot)
  PROVE  Delivered(r, "execute") /\ r.question = question /\ r # NoRun
<1> DEFINE before == Confirmed(signed, snapshot)
           missing == ResolveQuestionEvidence(before.contract, snapshot)
           m == [before EXCEPT !.status = missing]
<1>1. /\ Opened(before, "execute", signed) /\ before.question = question /\ Silent(before)
      /\ before.events # <<>>
  BY ConfirmedOpens
<1>2. r = AddEvent(m, "evidence_gate_result", Nil)
  BY DEF Gated
<1>3. before.contract = signed.run.contract /\ missing \in {"MATERIALS_REQUIRED", "BLOCKED"}
  BY <1>1 DEF Opened, ResolveQuestionEvidence
<1> HIDE DEF before, missing
<1>4. /\ IsRun(m) /\ m.phase = "execute" /\ m.question = question /\ m.calls = <<>>
      /\ m.events = before.events /\ m.contract = signed.run.contract /\ m.answer = Nil
      /\ m.status = missing
  BY <1>1, <1>3 DEF Opened, Silent, IsRun
<1> HIDE DEF m
<1>5. /\ Has(m, "plan_record", signed.run)
      /\ Has(m, "contract_confirmed", [plan |-> signed.run, contract |-> signed.run.contract])
  BY <1>1, <1>3, <1>4 DEF Opened, Has, Named
<1>6. /\ IsRun(r) /\ r.events # <<>> /\ r.phase = "execute" /\ r.question = question
      /\ r.calls = <<>> /\ r.contract = signed.run.contract /\ r.answer = Nil
      /\ r.status = missing
      /\ Has(r, "plan_record", signed.run)
      /\ Has(r, "contract_confirmed", [plan |-> signed.run, contract |-> r.contract])
  BY <1>2, <1>4, <1>5, Added
<1>7. CallsMatchEvents(r) /\ AnswerHolds(r)
  BY <1>3, <1>6 DEF CallsMatchEvents, AnswerHolds
<1>8. ValidateQuestionRun(r)
  BY <1>6, <1>7, PlanStands
<1>9. r # NoRun
  BY <1>6, RunsAssumption DEF NoRun
<1> QED BY <1>6, <1>8, <1>9 DEF Delivered, Sound

(* A request moves on while the store and the clock stand still.           *)
LEMMA MovesOn ==
  ASSUME RunsInv, NEW q \in Asks, NEW next, ask' = [ask EXCEPT ![q] = next],
         AskHolds(next, receipt, question), UNCHANGED <<minute, owner, question, receipt>>,
         draft' # Nil => Confirmable(draft') /\ draft'.run.question = question
  PROVE  RunsInv'
<1>1. DOMAIN ask' = Asks /\ \A x \in Asks : ask'[x] = IF x = q THEN next ELSE ask[x]
  BY DEF RunsInv
<1>2. \A x \in Asks : AskHolds(ask'[x], receipt', question')
  BY <1>1 DEF RunsInv
<1>3. \A p \in Phases : ReceiptHolds(p, receipt', question')
  BY DEF RunsInv
<1> QED BY <1>1, <1>2, <1>3 DEF RunsInv

LEMMA IdleHolds == ASSUME NEW receipts, NEW asked PROVE AskHolds(Idle, receipts, asked)
BY DEF AskHolds, IsAsk, Idle

LEMMA Refuses ==
  ASSUME RunsInv, NEW q \in Asks, Refuse(q), UNCHANGED <<minute, owner, question, receipt, draft>>
  PROVE  RunsInv'
BY IdleHolds, MovesOn DEF Refuse, RunsInv

LEMMA AskPlanStep == ASSUME RunsInv, NEW q \in Asks, AskPlan(q) PROVE RunsInv'
<1> DEFINE next == [Idle EXCEPT !.at = "store", !.phase = "plan", !.input = question,
                                !.owner = owner]
<1>1. /\ ask' = [ask EXCEPT ![q] = next]
      /\ UNCHANGED <<minute, owner, question, draft, receipt>>
  BY DEF AskPlan, Advance
<1>2. /\ IsAsk(next) /\ next.at = "store" /\ next.phase = "plan" /\ next.owner = owner
      /\ next.paid = "no" /\ next.run = NoRun
  <2>1. next = [Idle EXCEPT !.at = "store", !.phase = "plan", !.input = question,
                            !.owner = owner]
    OBVIOUS
  <2> HIDE DEF next
  <2> QED BY <2>1 DEF Idle, IsAsk
<1> HIDE DEF next
<1>3. AskHolds(next, receipt, question)
  BY <1>2 DEF AskHolds, RunsInv, Phases
<1> QED BY <1>1, <1>3, MovesOn DEF RunsInv

LEMMA AskExecuteStep ==
  ASSUME RunsInv, NEW q \in Asks, NEW snapshot \in Snapshots, AskExecute(q, snapshot)
  PROVE  RunsInv'
<1> DEFINE asked == Execution(snapshot)
           gated == Gated(Confirmed(draft, snapshot), snapshot)
           answered == [asked EXCEPT !.at = "reply", !.status = 200, !.run = gated]
           ready == ResolveQuestionEvidence(draft.run.contract, snapshot) = "READY"
<1>1. UNCHANGED <<minute, owner, question, draft, receipt>>
  BY DEF AskExecute
<1>2. Confirmable(draft) /\ draft.run.question = question /\ owner \in {1, 2}
  BY DEF AskExecute, RunsInv
<1>3. /\ IsAsk(asked) /\ asked.at = "store" /\ asked.phase = "execute"
      /\ asked.input = snapshot /\ asked.draft = draft /\ asked.owner = owner
      /\ asked.run = NoRun /\ asked.paid = "no"
  <2>1. asked = [Idle EXCEPT !.at = "store", !.phase = "execute", !.input = snapshot,
                             !.owner = owner, !.draft = draft]
    BY DEF Execution
  <2> HIDE DEF asked
  <2> QED BY <2>1 DEF Idle, IsAsk
<1>4. \/ Refuse(q)
      \/ draft.owner = owner /\ ready /\ ask' = [ask EXCEPT ![q] = asked]
      \/ draft.owner = owner /\ ~ready /\ ask' = [ask EXCEPT ![q] = answered]
  BY DEF AskExecute, Advance, ValidDraft
<1>5. CASE Refuse(q)
  BY <1>1, <1>5, Refuses
<1>6. CASE draft.owner = owner /\ ready /\ ask' = [ask EXCEPT ![q] = asked]
  <2>1. AskHolds(asked, receipt, question)
    BY <1>2, <1>3, <1>6 DEF AskHolds, Phases
  <2> QED BY <1>1, <1>2, <1>6, <2>1, MovesOn
<1>7. CASE draft.owner = owner /\ ~ready /\ ask' = [ask EXCEPT ![q] = answered]
  <2>1. Delivered(gated, "execute") /\ gated.question = question /\ gated # NoRun
    BY <1>2, <1>7, GatedIsDelivered DEF RunsInv
  <2>2. /\ IsAsk(answered) /\ answered.at = "reply" /\ answered.phase = "execute"
        /\ answered.input = snapshot /\ answered.draft = draft /\ answered.owner = owner
        /\ answered.run = gated /\ answered.paid = "no"
    <3>1. answered = [asked EXCEPT !.at = "reply", !.status = 200, !.run = gated]
      OBVIOUS
    <3> HIDE DEF gated, asked, answered
    <3> QED BY <1>3, <3>1 DEF IsAsk
  <2> HIDE DEF gated, answered
  <2>3. AskHolds(answered, receipt, question)
    BY <1>2, <1>7, <2>1, <2>2 DEF AskHolds, Phases
  <2> QED BY <1>1, <1>2, <1>7, <2>3, MovesOn
<1> QED BY <1>4, <1>5, <1>6, <1>7

LEMMA ReplayStep == ASSUME RunsInv, NEW q \in Asks, Replay(q) PROVE RunsInv'
<1> DEFINE a == ask[q]
           found == receipt[a.phase]
           next == [a EXCEPT !.at = "reply", !.run = found.run, !.status = found.status]
<1>1. UNCHANGED <<minute, owner, question, draft, receipt>> /\ a.at = "store"
  BY DEF Replay
<1>2. Refuse(q) \/ (found.status # 0 /\ ask' = [ask EXCEPT ![q] = next])
  BY DEF Replay, Advance
<1>3. AskHolds(a, receipt, question) /\ a.phase \in Phases
  BY <1>1 DEF RunsInv, AskHolds
<1>4. CASE found.status # 0 /\ ask' = [ask EXCEPT ![q] = next]
  <2>1. /\ Completed(found.run, a.phase)
        /\ found.run # NoRun => found.run.question = question
    BY <1>3, <1>4 DEF RunsInv, ReceiptHolds
  <2> HIDE DEF found
  <2>2. /\ IsAsk(next) /\ next.at = "reply" /\ next.phase = a.phase /\ next.input = a.input
        /\ next.draft = a.draft /\ next.owner = a.owner /\ next.run = found.run
        /\ next.paid = a.paid
    <3>1. next = [a EXCEPT !.at = "reply", !.run = found.run, !.status = found.status]
      OBVIOUS
    <3> HIDE DEF next, a
    <3> QED BY <1>3, <3>1 DEF AskHolds, IsAsk
  <2> HIDE DEF next
  <2>3. a.paid = "no"
    BY <1>1, <1>3 DEF AskHolds
  <2>4. found.run # NoRun => Delivered(found.run, a.phase)
    BY <2>1 DEF Completed
  <2>5. AskHolds(next, receipt, question)
    BY <1>1, <1>3, <2>1, <2>2, <2>3, <2>4 DEF AskHolds
  <2> QED BY <1>1, <1>4, <2>5, MovesOn DEF RunsInv
<1> QED BY <1>1, <1>2, <1>4, Refuses

LEMMA ClaimStep == ASSUME RunsInv, NEW q \in Asks, ClaimTask(q) PROVE RunsInv'
<1> DEFINE a == ask[q]
           next == [a EXCEPT !.at = "core"]
           claim == [owner |-> a.owner, input |-> a.input, draft |-> a.draft, run |-> NoRun,
                     status |-> 0]
<1>1. /\ UNCHANGED <<minute, owner, question, draft>> /\ a.at = "store"
      /\ receipt[a.phase].owner = 0
      /\ ask' = [ask EXCEPT ![q] = next] /\ receipt' = [receipt EXCEPT ![a.phase] = claim]
  BY DEF ClaimTask, Advance
<1>2. AskHolds(a, receipt, question) /\ a.phase \in Phases /\ a.owner \in {1, 2}
  BY <1>1 DEF RunsInv, AskHolds
<1>3. /\ receipt' = [p \in Phases |-> receipt'[p]] /\ receipt'[a.phase] = claim
      /\ \A p \in Phases : p # a.phase => receipt'[p] = receipt[p]
  <2> HIDE DEF claim, a
  <2> QED BY <1>1, <1>2 DEF RunsInv
<1>4. claim.owner \in {1, 2} /\ claim.draft = a.draft /\ claim.status = 0 /\ claim.owner # 0
  BY <1>2
<1>5. /\ IsAsk(next) /\ next.phase = a.phase /\ next.input = a.input /\ next.draft = a.draft
      /\ next.owner = a.owner /\ next.at = "core" /\ next.run = a.run /\ next.paid = a.paid
  <2>1. next = [a EXCEPT !.at = "core"]
    OBVIOUS
  <2> HIDE DEF next, a
  <2> QED BY <1>2, <2>1 DEF AskHolds, IsAsk
<1> HIDE DEF claim, next
<1>6. AskHolds(next, receipt', question')
  BY <1>1, <1>2, <1>3, <1>4, <1>5 DEF AskHolds
<1>7. ASSUME NEW x \in Asks, x # q PROVE AskHolds(ask[x], receipt', question')
  <2> DEFINE b == ask[x]
  <2>1. AskHolds(b, receipt, question)
    BY DEF RunsInv
  <2> HIDE DEF b
  <2>2. b.at # "idle" => b.phase \in Phases
    BY <2>1 DEF AskHolds
  <2>3. b.phase \in Phases /\ receipt[b.phase].owner # 0 => receipt'[b.phase] = receipt[b.phase]
    BY <1>1, <1>3
  <2>4. AskHolds(b, receipt', question')
    BY <1>1, <2>1, <2>2, <2>3 DEF AskHolds
  <2> QED BY <2>4 DEF b
<1>8. DOMAIN ask' = Asks /\ \A x \in Asks : ask'[x] = IF x = q THEN next ELSE ask[x]
  BY <1>1 DEF RunsInv
<1>9. \A x \in Asks : AskHolds(ask'[x], receipt', question')
  BY <1>6, <1>7, <1>8
<1>10. \A p \in Phases : ReceiptHolds(p, receipt', question')
  <2>1. ReceiptHolds(a.phase, receipt', question')
    BY <1>3, <1>4 DEF ReceiptHolds, claim
  <2>2. ASSUME NEW p \in Phases, p # a.phase PROVE ReceiptHolds(p, receipt', question')
    BY <1>1, <1>3, <2>2 DEF ReceiptHolds, RunsInv
  <2> QED BY <2>1, <2>2
<1> QED BY <1>1, <1>3, <1>8, <1>9, <1>10 DEF RunsInv

(* A run of its own makes a claimed request ready to reserve.              *)
LEMMA BeginStep == ASSUME RunsInv, NEW q \in Asks, BeginRun(q) PROVE RunsInv'
<1> DEFINE a == ask[q]
           signed == a.draft
           received == AddEvent(NewRun("plan"), "query_received", Nil)
           verified == Verified(Confirmed(signed, a.input))
           planning == [a EXCEPT !.at = "reserve", !.run = Requested(received)]
           executing == [a EXCEPT !.at = "reserve", !.run = Requested(verified)]
           Late(status) == [a EXCEPT !.at = "complete", !.status = status]
<1>1. UNCHANGED <<minute, owner, question, draft, receipt>> /\ a.at = "core"
  BY DEF BeginRun
<1>2. /\ AskHolds(a, receipt, question) /\ a.phase \in Phases /\ a.owner \in {1, 2}
      /\ question \in Questions /\ minute \in Nat
  BY <1>1 DEF RunsInv, AskHolds
<1>3. a.phase = "execute" =>
        /\ Confirmable(signed) /\ signed.run.question = question /\ a.input \in Snapshots
        /\ ResolveQuestionEvidence(signed.run.contract, a.input) = "READY"
  BY <1>1, <1>2 DEF AskHolds
<1>4. \/ a.phase = "plan" /\ ask' = [ask EXCEPT ![q] = planning]
      \/ \E status \in {401, 422} : ask' = [ask EXCEPT ![q] = Late(status)]
      \/ a.phase = "execute" /\ ask' = [ask EXCEPT ![q] = executing]
  BY <1>2, <1>3 DEF BeginRun, Advance, Phases
<1>5. CASE a.phase = "plan" /\ ask' = [ask EXCEPT ![q] = planning]
  <2>1. Opened(received, "plan", signed) /\ Silent(received) /\ received.question = question
    <3> DEFINE fresh == NewRun("plan")
    <3>1. /\ IsRun(fresh) /\ fresh.phase = "plan" /\ fresh.question = question
          /\ fresh.status = "BLOCKED" /\ fresh.contract = Nil /\ fresh.calls = <<>>
          /\ fresh.answer = Nil /\ \A name : Named(fresh, name) = {}
      BY <1>2, Started DEF Phases
    <3> HIDE DEF fresh
    <3>2. Opened(fresh, "plan", signed) /\ Silent(fresh)
      BY <3>1 DEF Opened, Silent
    <3> QED BY <3>1, <3>2, StaysOpened DEF fresh
  <2>2. Called(Requested(received), "plan", signed) /\ Requested(received).question = question
    BY <2>1, RequestedIsCalled
  <2>3. /\ IsAsk(planning) /\ planning.at = "reserve" /\ planning.phase = a.phase
        /\ planning.draft = a.draft /\ planning.owner = a.owner
        /\ planning.run = Requested(received) /\ planning.paid = a.paid
    <3>1. planning = [a EXCEPT !.at = "reserve", !.run = Requested(received)]
      OBVIOUS
    <3> HIDE DEF planning, received, a
    <3> QED BY <1>2, <3>1 DEF AskHolds, IsAsk
  <2> HIDE DEF planning, received
  <2>4. AskHolds(planning, receipt, question)
    BY <1>1, <1>2, <1>5, <2>2, <2>3 DEF AskHolds
  <2> QED BY <1>1, <1>5, <2>4, MovesOn DEF RunsInv
<1>6. ASSUME NEW status \in {401, 422}, ask' = [ask EXCEPT ![q] = Late(status)] PROVE RunsInv'
  <2> DEFINE late == Late(status)
  <2>1. /\ IsAsk(late) /\ late.at = "complete" /\ late.phase = a.phase
        /\ late.draft = a.draft /\ late.owner = a.owner /\ late.input = a.input
        /\ late.run = NoRun /\ late.paid = "no" /\ late.status = status
    <3>1. late = [a EXCEPT !.at = "complete", !.status = status]
      OBVIOUS
    <3> HIDE DEF late, a
    <3> QED BY <1>1, <1>2, <3>1 DEF AskHolds, IsAsk
  <2>2. ask' = [ask EXCEPT ![q] = late]
    BY <1>6
  <2> HIDE DEF late
  <2>3. AskHolds(late, receipt, question)
    BY <1>1, <1>2, <1>6, <2>1 DEF AskHolds, Completed
  <2> QED BY <1>1, <2>2, <2>3, MovesOn DEF RunsInv
<1>7. CASE a.phase = "execute" /\ ask' = [ask EXCEPT ![q] = executing]
  <2>1. Opened(verified, "execute", signed) /\ Silent(verified) /\ verified.question = question
    <3> DEFINE opened == Confirmed(signed, a.input)
               resolved == AddEvent(opened, "source_resolved", Nil)
               computed == AddEvent(resolved, "tools_completed", Nil)
    <3>1. Opened(opened, "execute", signed) /\ Silent(opened) /\ opened.question = question
      BY <1>2, <1>3, <1>7, ConfirmedOpens
    <3>2. verified = AddEvent(computed, "verification_result", Nil)
      BY DEF Verified
    <3> HIDE DEF opened, verified
    <3>3. Opened(resolved, "execute", signed) /\ Silent(resolved) /\ resolved.question = question
      BY <3>1, StaysOpened
    <3> HIDE DEF resolved
    <3>4. Opened(computed, "execute", signed) /\ Silent(computed) /\ computed.question = question
      BY <3>3, StaysOpened
    <3> HIDE DEF computed
    <3> QED BY <3>2, <3>4, StaysOpened
  <2>2. Called(Requested(verified), "execute", signed) /\ Requested(verified).question = question
    BY <2>1, RequestedIsCalled
  <2>3. /\ IsAsk(executing) /\ executing.at = "reserve" /\ executing.phase = a.phase
        /\ executing.draft = a.draft /\ executing.owner = a.owner /\ executing.input = a.input
        /\ executing.run = Requested(verified) /\ executing.paid = a.paid
    <3>1. executing = [a EXCEPT !.at = "reserve", !.run = Requested(verified)]
      OBVIOUS
    <3> HIDE DEF executing, verified, a
    <3> QED BY <1>2, <3>1 DEF AskHolds, IsAsk
  <2> HIDE DEF executing, verified
  <2>4. AskHolds(executing, receipt, question)
    BY <1>1, <1>2, <1>7, <2>2, <2>3 DEF AskHolds
  <2> QED BY <1>1, <1>7, <2>4, MovesOn DEF RunsInv
<1> QED BY <1>4, <1>5, <1>6, <1>7

LEMMA ReserveStep == ASSUME RunsInv, NEW q \in Asks, ReserveCall(q) PROVE RunsInv'
<1> DEFINE a == ask[q]
<1>1. UNCHANGED <<minute, owner, question, draft, receipt>> /\ a.at = "reserve"
  BY DEF ReserveCall, Advance
<1>2. /\ AskHolds(a, receipt, question) /\ a.phase \in Phases
      /\ Called(a.run, a.phase, a.draft) /\ a.run.question = question
  BY <1>1 DEF RunsInv, AskHolds
<1>3. ASSUME ask' = [ask EXCEPT ![q] = [a EXCEPT !.at = "call", !.paid = "reserved"]]
      PROVE  RunsInv'
  <2> DEFINE next == [a EXCEPT !.at = "call", !.paid = "reserved"]
  <2>1. /\ IsAsk(next) /\ next.at = "call" /\ next.phase = a.phase /\ next.draft = a.draft
        /\ next.owner = a.owner /\ next.input = a.input /\ next.run = a.run
    <3>1. next = [a EXCEPT !.at = "call", !.paid = "reserved"]
      OBVIOUS
    <3> HIDE DEF next, a
    <3> QED BY <1>2, <3>1 DEF AskHolds, IsAsk
  <2>2. ask' = [ask EXCEPT ![q] = next]
    BY <1>3
  <2> HIDE DEF next
  <2>3. AskHolds(next, receipt, question)
    BY <1>1, <1>2, <2>1 DEF AskHolds
  <2> QED BY <1>1, <2>2, <2>3, MovesOn DEF RunsInv
<1>4. ASSUME NEW code, ask' = [ask EXCEPT ![q] =
                         [a EXCEPT !.at = "settle", !.run = Failed(a.run, code)]]
      PROVE  RunsInv'
  <2> DEFINE failed == Failed(a.run, code)
             next == [a EXCEPT !.at = "settle", !.run = failed]
  <2>1. Called(failed, a.phase, a.draft) /\ failed.question = question
    BY <1>2, HeardIsCalled DEF Failed
  <2>2. /\ IsAsk(next) /\ next.at = "settle" /\ next.phase = a.phase /\ next.draft = a.draft
        /\ next.owner = a.owner /\ next.input = a.input /\ next.run = failed
    <3>1. next = [a EXCEPT !.at = "settle", !.run = failed]
      OBVIOUS
    <3> HIDE DEF next, a, failed
    <3> QED BY <1>2, <3>1 DEF AskHolds, IsAsk
  <2>3. ask' = [ask EXCEPT ![q] = next]
    BY <1>4
  <2> HIDE DEF next, failed
  <2>4. AskHolds(next, receipt, question)
    BY <1>1, <1>2, <2>1, <2>2 DEF AskHolds
  <2> QED BY <1>1, <2>3, <2>4, MovesOn DEF RunsInv
<1> QED BY <1>3, <1>4 DEF ReserveCall, Advance

LEMMA CallStep == ASSUME RunsInv, NEW q \in Asks, CallModel(q) PROVE RunsInv'
<1> DEFINE a == ask[q]
<1>1. UNCHANGED <<minute, owner, question, draft, receipt>> /\ a.at = "call"
  BY DEF CallModel, Advance
<1>2. /\ AskHolds(a, receipt, question) /\ a.phase \in Phases
      /\ Called(a.run, a.phase, a.draft) /\ a.run.question = question
  BY <1>1 DEF RunsInv, AskHolds
<1>3. ASSUME NEW output, NEW failure, ask' = [ask EXCEPT ![q] =
                         [a EXCEPT !.at = "settle", !.run = Heard(a.run, output, failure)]]
      PROVE  RunsInv'
  <2> DEFINE heard == Heard(a.run, output, failure)
             next == [a EXCEPT !.at = "settle", !.run = heard]
  <2>1. Called(heard, a.phase, a.draft) /\ heard.question = question
    BY <1>2, HeardIsCalled
  <2>2. /\ IsAsk(next) /\ next.at = "settle" /\ next.phase = a.phase /\ next.draft = a.draft
        /\ next.owner = a.owner /\ next.input = a.input /\ next.run = heard
    <3>1. next = [a EXCEPT !.at = "settle", !.run = heard]
      OBVIOUS
    <3> HIDE DEF next, a, heard
    <3> QED BY <1>2, <3>1 DEF AskHolds, IsAsk
  <2>3. ask' = [ask EXCEPT ![q] = next]
    BY <1>3
  <2> HIDE DEF next, heard
  <2>4. AskHolds(next, receipt, question)
    BY <1>1, <1>2, <2>1, <2>2 DEF AskHolds
  <2> QED BY <1>1, <2>3, <2>4, MovesOn DEF RunsInv
<1> QED BY <1>3 DEF CallModel, Advance

(* The bill: a status of 503 and a run that concludes nothing, unless the  *)
(* attempt was settled.                                                    *)
LEMMA SettleStep == ASSUME RunsInv, NEW q \in Asks, SettleCall(q) PROVE RunsInv'
<1> DEFINE a == ask[q]
           Billed(settles) == IF settles THEN a.run
                               ELSE Failed(a.run, "MODEL_BUDGET_RECOVERY_REQUIRED")
<1>1. UNCHANGED <<minute, owner, question, draft, receipt>> /\ a.at = "settle"
  BY DEF SettleCall, Advance
<1>2. /\ AskHolds(a, receipt, question) /\ a.phase \in Phases
      /\ Called(a.run, a.phase, a.draft) /\ a.run.question = question
  BY <1>1 DEF RunsInv, AskHolds
<1>3. PICK settles \in IF a.paid = "reserved" THEN BOOLEAN ELSE {TRUE} :
        ask' = [ask EXCEPT ![q] =
          [a EXCEPT !.at = "complete", !.run = Conclude(q, Returned(Billed(settles))),
                    !.status = RunStatus(Billed(settles)),
                    !.paid = IF settles /\ a.paid = "reserved" THEN "settled" ELSE a.paid]]
  BY DEF SettleCall, Advance
<1> DEFINE settled == Billed(settles)
           accounted == Returned(settled)
           concluded == Conclude(q, accounted)
           status == RunStatus(settled)
           paid == IF settles /\ a.paid = "reserved" THEN "settled" ELSE a.paid
           next == [a EXCEPT !.at = "complete", !.run = concluded, !.status = status,
                             !.paid = paid]
<1>4. ask' = [ask EXCEPT ![q] = next]
  BY <1>3
<1>5. /\ Called(settled, a.phase, a.draft) /\ settled.question = question
      /\ ~settles => settled.calls[1].failure = "MODEL_BUDGET_RECOVERY_REQUIRED"
  <2>1. CASE settles
    BY <1>2, <2>1
  <2>2. CASE ~settles
    <3>1. settled = Heard(a.run, a.run.calls[1].output, "MODEL_BUDGET_RECOVERY_REQUIRED")
      BY <2>2 DEF Failed
    <3> HIDE DEF settled
    <3> QED BY <1>2, <3>1, HeardIsCalled
  <2> QED BY <2>1, <2>2
<1>6. settles \in BOOLEAN /\ (paid = "reserved" => ~settles)
  BY <1>3
<1> HIDE DEF settled
<1>7. Accounted(accounted, a.phase, a.draft) /\ accounted.calls = settled.calls
      /\ accounted.question = question
  BY <1>5, ReturnedIsAccounted
<1>8. status # 0 /\ (~settles => status = 503)
  <2>1. settled.calls = <<settled.calls[1]>>
    BY <1>5 DEF Called
  <2>2. settled.calls # <<>>
    <3>1. ASSUME NEW list, NEW exchange, list = <<exchange>> PROVE list # <<>>
      BY <3>1
    <3> QED BY <2>1, <3>1
  <2>3. status = BudgetStatus(settled.calls[1].failure)
    BY <2>2 DEF RunStatus
  <2> HIDE DEF status
  <2> QED BY <1>5, <2>3 DEF BudgetStatus
<1> HIDE DEF accounted
<1>9. /\ Delivered(concluded, a.phase) /\ concluded.calls # <<>>
      /\ concluded.question = question
      /\ settled.calls[1].failure # Nil => concluded.status = "BLOCKED"
  <2>1. CASE a.phase = "plan"
    <3>1. concluded = Planned(accounted)
      BY <2>1 DEF Conclude
    <3> HIDE DEF concluded
    <3> QED BY <1>7, <2>1, <3>1, PlanConcluded
  <2>2. CASE a.phase = "execute"
    <3>1. concluded = Explained(accounted, a.input)
      BY <2>2 DEF Conclude
    <3>2. /\ a.input \in Snapshots
          /\ ResolveQuestionEvidence(a.draft.run.contract, a.input) = "READY"
      BY <1>1, <1>2, <2>2 DEF AskHolds
    <3> HIDE DEF concluded, a
    <3> QED BY <1>7, <2>2, <3>1, <3>2, ExecutionConcluded
  <2> QED BY <1>2, <2>1, <2>2 DEF Phases
<1>10. ~settles => concluded.status = "BLOCKED"
  BY <1>5, <1>9, RunsAssumption
<1>11. concluded # NoRun
  BY <1>2, <1>9, RunsAssumption DEF Delivered, NoRun, Phases
<1>12. /\ IsAsk(next) /\ next.at = "complete" /\ next.phase = a.phase /\ next.draft = a.draft
       /\ next.owner = a.owner /\ next.input = a.input /\ next.run = concluded
       /\ next.paid = paid /\ next.status = status
  <2>1. next = [a EXCEPT !.at = "complete", !.run = concluded, !.status = status, !.paid = paid]
    OBVIOUS
  <2> HIDE DEF next, a, concluded, status, paid
  <2> QED BY <1>2, <2>1 DEF AskHolds, IsAsk
<1> HIDE DEF next, concluded, status, paid
<1>13. AskHolds(next, receipt, question)
  BY <1>1, <1>2, <1>6, <1>8, <1>9, <1>10, <1>11, <1>12 DEF AskHolds, Completed
<1> QED BY <1>1, <1>4, <1>13, MovesOn DEF RunsInv

LEMMA CompleteStep == ASSUME RunsInv, NEW q \in Asks, CompleteTask(q) PROVE RunsInv'
<1> DEFINE a == ask[q]
           found == receipt[a.phase]
           kept == [found EXCEPT !.run = a.run, !.status = a.status]
           next == [a EXCEPT !.at = "reply"]
<1>1. UNCHANGED <<minute, owner, question, draft>> /\ a.at = "complete"
  BY DEF CompleteTask, Advance
<1>2. AskHolds(a, receipt, question) /\ a.phase \in Phases
  BY <1>1 DEF RunsInv, AskHolds
<1>3. CASE Refuse(q) /\ UNCHANGED receipt
  BY <1>1, <1>3, Refuses
<1>4. CASE /\ ask' = [ask EXCEPT ![q] = next]
           /\ receipt' = [receipt EXCEPT ![a.phase].run = a.run, ![a.phase].status = a.status]
  <2>1. /\ receipt' = [p \in Phases |-> receipt'[p]] /\ receipt'[a.phase] = kept
        /\ \A p \in Phases : p # a.phase => receipt'[p] = receipt[p]
    <3>1. receipt' = [receipt EXCEPT ![a.phase] = kept]
      BY <1>2, <1>4 DEF RunsInv
    <3> HIDE DEF kept, a
    <3> QED BY <1>2, <3>1 DEF RunsInv
  <2>2. /\ kept = [owner |-> kept.owner, input |-> kept.input, draft |-> kept.draft,
                   run |-> kept.run, status |-> kept.status]
        /\ kept.owner = found.owner /\ kept.draft = found.draft
        /\ kept.run = a.run /\ kept.status = a.status
    <3>1. found = [owner |-> found.owner, input |-> found.input, draft |-> found.draft,
                   run |-> found.run, status |-> found.status]
      BY <1>2 DEF RunsInv, ReceiptHolds
    <3>2. kept = [found EXCEPT !.run = a.run, !.status = a.status]
      OBVIOUS
    <3> HIDE DEF kept, found, a
    <3> QED BY <3>1, <3>2
  <2>3. found.owner \in 0..2 /\ found.draft = a.draft
    BY <1>1, <1>2 DEF RunsInv, ReceiptHolds, AskHolds
  <2>4. /\ Completed(a.run, a.phase)
        /\ a.run # NoRun => a.run.question = question
    BY <1>1, <1>2 DEF AskHolds
  <2>5. /\ IsAsk(next) /\ next.at = "reply" /\ next.phase = a.phase /\ next.draft = a.draft
        /\ next.owner = a.owner /\ next.input = a.input /\ next.run = a.run
        /\ next.paid = a.paid /\ next.status = a.status
    <3>1. next = [a EXCEPT !.at = "reply"]
      OBVIOUS
    <3> HIDE DEF next, a
    <3> QED BY <1>2, <3>1 DEF AskHolds, IsAsk
  <2> HIDE DEF next, kept
  <2>6. AskHolds(next, receipt', question')
    BY <1>1, <1>2, <2>5 DEF AskHolds
  <2>7. ASSUME NEW x \in Asks, x # q PROVE AskHolds(ask[x], receipt', question')
    <3> DEFINE b == ask[x]
    <3>1. AskHolds(b, receipt, question)
      BY DEF RunsInv
    <3> HIDE DEF b
    <3>2. b.at # "idle" => b.phase \in Phases
      BY <3>1 DEF AskHolds
    <3>3. b.phase \in Phases => /\ receipt'[b.phase].owner = receipt[b.phase].owner
                                /\ receipt'[b.phase].draft = receipt[b.phase].draft
      BY <2>1, <2>2
    <3>4. AskHolds(b, receipt', question')
      BY <1>1, <3>1, <3>2, <3>3 DEF AskHolds
    <3> QED BY <3>4 DEF b
  <2>8. DOMAIN ask' = Asks /\ \A x \in Asks : ask'[x] = IF x = q THEN next ELSE ask[x]
    BY <1>4 DEF RunsInv, next
  <2>9. \A x \in Asks : AskHolds(ask'[x], receipt', question')
    BY <2>6, <2>7, <2>8
  <2>10. \A p \in Phases : ReceiptHolds(p, receipt', question')
    <3>1. ReceiptHolds(a.phase, receipt', question')
      BY <1>1, <2>1, <2>2, <2>3, <2>4 DEF ReceiptHolds
    <3>2. ASSUME NEW p \in Phases, p # a.phase
          PROVE  ReceiptHolds(p, receipt', question')
      BY <1>1, <2>1, <3>2 DEF ReceiptHolds, RunsInv
    <3> QED BY <3>1, <3>2
  <2> QED BY <1>1, <2>1, <2>8, <2>9, <2>10 DEF RunsInv
<1> QED BY <1>3, <1>4 DEF CompleteTask, Advance

(* The browser keeps a plan only if it is one that may be confirmed.       *)
LEMMA TakeStep == ASSUME RunsInv, NEW q \in Asks, TakeReply(q) PROVE RunsInv'
<1> DEFINE a == ask[q]
<1>1. /\ UNCHANGED <<minute, owner, question, receipt>> /\ a.at = "reply"
      /\ ask' = [ask EXCEPT ![q] = Idle]
  BY DEF TakeReply, Refuse
<1>2. AskHolds(a, receipt, question)
  BY DEF RunsInv
<1>3. draft' # Nil => Confirmable(draft') /\ draft'.run.question = question
  <2>1. \/ draft' = draft \/ draft' = Nil
        \/ /\ a.phase = "plan" /\ a.run # NoRun /\ a.run.status = "CONTRACT_DRAFTED"
           /\ draft' = [run |-> a.run, owner |-> a.owner]
    BY DEF TakeReply
  <2>2. CASE /\ a.phase = "plan" /\ a.run # NoRun /\ a.run.status = "CONTRACT_DRAFTED"
             /\ draft' = [run |-> a.run, owner |-> a.owner]
    <3>1. Delivered(a.run, "plan") /\ a.run.question = question
      BY <1>1, <1>2, <2>2 DEF AskHolds
    <3> QED BY <2>2, <3>1 DEF Confirmable, Delivered
  <2> QED BY <2>1, <2>2 DEF RunsInv
<1> QED BY <1>1, <1>3, IdleHolds, MovesOn

LEMMA MinuteStep == ASSUME RunsInv, MinutePasses PROVE RunsInv'
<1>1. minute \in Nat /\ minute' = minute + 1 /\ UNCHANGED <<owner, question, draft, receipt, ask>>
  BY DEF MinutePasses, RunsInv
<1>2. \A q \in Asks : AskHolds(ask'[q], receipt', question')
  BY <1>1 DEF RunsInv
<1>3. \A p \in Phases : ReceiptHolds(p, receipt', question')
  BY <1>1 DEF RunsInv
<1> QED BY <1>1, <1>2, <1>3 DEF RunsInv

LEMMA RunsInitially == RunsInit => RunsInv
<1> SUFFICES ASSUME RunsInit PROVE RunsInv
  OBVIOUS
<1>1. \A q \in Asks : AskHolds(ask[q], receipt, question)
  BY IdleHolds DEF RunsInit
<1>2. \A p \in Phases : ReceiptHolds(p, receipt, question)
  BY DEF RunsInit, ReceiptHolds, Unclaimed
<1> QED BY <1>1, <1>2 DEF RunsInit, RunsInv

LEMMA RunsKept == RunsInv /\ [RunsNext]_runsVars => RunsInv'
<1> SUFFICES ASSUME RunsInv, [RunsNext]_runsVars PROVE RunsInv'
  OBVIOUS
<1>1. CASE RunsNext
  <2>1. CASE MinutePasses
    BY <2>1, MinuteStep
  <2>2. CASE LogInAgain
    BY <2>2 DEF LogInAgain, RunsInv
  <2>4. CASE ReviewEnds
    BY <2>4 DEF ReviewEnds, RunsInv
  <2>3. ASSUME NEW q \in Asks, NotAdmitted(q) PROVE RunsInv'
    BY <2>3, Refuses DEF NotAdmitted
  <2> QED BY <1>1, <2>1, <2>2, <2>3, <2>4, AskPlanStep, AskExecuteStep, ReplayStep, ClaimStep, BeginStep,
             ReserveStep, CallStep, SettleStep, CompleteStep, TakeStep DEF RunsNext
<1>2. CASE UNCHANGED runsVars
  BY <1>2 DEF runsVars, RunsInv
<1> QED BY <1>1, <1>2

LEMMA RunsSettledDown == RunsSpec => []RunsInv
BY RunsInitially, RunsKept, PTL DEF RunsSpec

(* Every run the service sends or stores is accepted by the browser, and   *)
(* one whose attempt was not settled says so (modelCall, core.POST and     *)
(* validateQuestionRun).                                                   *)
THEOREM RunsAreAccepted == RunsSpec => []RunsHold
<1>1. RunsInv => RunsHold
  BY DEF RunsInv, AskHolds, RunsHold, Delivered, Completed, Sound, Confirmable
<1> QED BY <1>1, RunsSettledDown, PTL

(* What may become of a task without a request to the provider.            *)
TooOld(signed, now) == Confirmable(signed) /\ now - signed.run.created > DraftLife
Spared(r, status, signed, now, ended) ==
  IF r = NoRun THEN \/ status = 401 /\ ended
                    \/ status = 422 /\ TooOld(signed, now)
  ELSE r.calls # <<>> /\ r.calls[1].failure \in BudgetRefusals

(* A request past its claim has the receipt's draft and evidence; before it*)
(* was sent only a refusal of the budget, or a late one, settles it.       *)
AskSpares(a, receipts, now, ended, gone) ==
  /\ a.at \in {"core", "reserve", "call", "settle", "complete"} =>
       /\ receipts[a.phase].owner # 0 /\ receipts[a.phase].draft = a.draft
       /\ receipts[a.phase].input = a.input
  /\ a.phase = "execute" /\ "execute" \notin gone =>
       /\ a.at = "settle" => a.paid # "reserved" /\ a.run.calls[1].failure \in BudgetRefusals
       /\ a.at = "complete" => Spared(a.run, a.status, a.draft, now, ended)

ReceiptSpares(stored, now, ended, gone) ==
  /\ "execute" \in gone =>
       /\ stored.owner # 0
       /\ ResolveQuestionEvidence(stored.draft.run.contract, stored.input) = "READY"
  /\ stored.status # 0 /\ "execute" \notin gone =>
       Spared(stored.run, stored.status, stored.draft, now, ended)

SparedInv ==
  /\ \A q \in Asks : AskSpares(ask[q], receipt, minute, over, sent)
  /\ ReceiptSpares(receipt["execute"], minute, over, sent)

LEMMA IdleSpares ==
  ASSUME NEW receipts, NEW now, NEW ended, NEW gone PROVE AskSpares(Idle, receipts, now, ended, gone)
BY DEF AskSpares, Idle

(* A request moves on while the receipts and the clock stand still.        *)
LEMMA SparingMovesOn ==
  ASSUME RunsInv, SparedInv, NEW q \in Asks, NEW next, ask' = [ask EXCEPT ![q] = next],
         AskSpares(next, receipt, minute, over, sent), UNCHANGED <<minute, over, receipt, sent>>
  PROVE  SparedInv'
<1>1. \A x \in Asks : ask'[x] = IF x = q THEN next ELSE ask[x]
  BY DEF RunsInv
<1>2. \A x \in Asks : AskSpares(ask'[x], receipt', minute', over', sent')
  BY <1>1 DEF SparedInv
<1> QED BY <1>2 DEF SparedInv

LEMMA SparingRefuses ==
  ASSUME RunsInv, SparedInv, NEW q \in Asks, Refuse(q), UNCHANGED <<minute, over, receipt, sent>>
  PROVE  SparedInv'
BY IdleSpares, SparingMovesOn DEF Refuse

LEMMA SparingAsks ==
  ASSUME RunsInv, SparedInv, NEW q \in Asks,
         AskPlan(q) \/ Replay(q) \/ NotAdmitted(q) \/ TakeReply(q)
           \/ \E snapshot \in Snapshots : AskExecute(q, snapshot)
  PROVE  SparedInv'
<1>1. UNCHANGED <<minute, over, receipt, sent>>
  BY DEF AskPlan, Replay, NotAdmitted, TakeReply, AskExecute
<1>2. Refuse(q) \/ \E next : ask' = [ask EXCEPT ![q] = next] /\ next.at \in {"store", "reply"}
  <2>1. CASE AskPlan(q)
    <3> DEFINE next == [Idle EXCEPT !.at = "store", !.phase = "plan", !.input = question,
                                    !.owner = owner]
    <3>1. next.at = "store" /\ ask' = [ask EXCEPT ![q] = next]
      BY <2>1 DEF AskPlan, Advance, Idle
    <3> QED BY <3>1
  <2>2. CASE Replay(q)
    <3> DEFINE a == ask[q]
               found == receipt[a.phase]
               next == [a EXCEPT !.at = "reply", !.run = found.run, !.status = found.status]
    <3>1. Refuse(q) \/ ask' = [ask EXCEPT ![q] = next]
      BY <2>2 DEF Replay, Advance
    <3>2. IsAsk(a)
      BY DEF RunsInv, AskHolds
    <3>3. next.at = "reply"
      <4> HIDE DEF a, found
      <4> QED BY <3>2 DEF IsAsk
    <3> QED BY <3>1, <3>3
  <2>3. CASE NotAdmitted(q) \/ TakeReply(q)
    BY <2>3 DEF NotAdmitted, TakeReply
  <2>4. ASSUME NEW snapshot \in Snapshots, AskExecute(q, snapshot)
        PROVE  Refuse(q) \/ \E next : ask' = [ask EXCEPT ![q] = next] /\ next.at \in {"store", "reply"}
    <3> DEFINE asked == Execution(snapshot)
               gated == Gated(Confirmed(draft, snapshot), snapshot)
               answered == [asked EXCEPT !.at = "reply", !.status = 200, !.run = gated]
    <3>1. Refuse(q) \/ ask' = [ask EXCEPT ![q] = asked] \/ ask' = [ask EXCEPT ![q] = answered]
      BY <2>4 DEF AskExecute, Advance
    <3>2. asked.at = "store" /\ answered.at = "reply"
      <4> HIDE DEF gated
      <4> QED BY DEF Execution, Idle
    <3> QED BY <3>1, <3>2
  <2> QED BY <2>1, <2>2, <2>3, <2>4
<1>3. ASSUME NEW next, ask' = [ask EXCEPT ![q] = next], next.at \in {"store", "reply"}
      PROVE  SparedInv'
  BY <1>1, <1>3, SparingMovesOn DEF AskSpares
<1> QED BY <1>1, <1>2, <1>3, SparingRefuses

(* The receipt takes the request's draft and evidence.                     *)
LEMMA SparingClaims == ASSUME RunsInv, SparedInv, NEW q \in Asks, ClaimTask(q) PROVE SparedInv'
<1> DEFINE a == ask[q]
           next == [a EXCEPT !.at = "core"]
           claim == [owner |-> a.owner, input |-> a.input, draft |-> a.draft, run |-> NoRun,
                     status |-> 0]
<1>1. /\ UNCHANGED <<minute, over, sent>> /\ a.at = "store" /\ receipt[a.phase].owner = 0
      /\ ask' = [ask EXCEPT ![q] = next] /\ receipt' = [receipt EXCEPT ![a.phase] = claim]
  BY DEF ClaimTask, Advance
<1>2. IsAsk(a) /\ a.phase \in Phases /\ a.owner \in {1, 2}
  BY <1>1 DEF RunsInv, AskHolds
<1>3. /\ receipt'[a.phase] = claim
      /\ \A p \in Phases : p # a.phase => receipt'[p] = receipt[p]
  <2> HIDE DEF claim, a
  <2> QED BY <1>1, <1>2 DEF RunsInv
<1>4. /\ claim.owner # 0 /\ claim.draft = a.draft /\ claim.input = a.input /\ claim.status = 0
  BY <1>2
<1>5. next.at = "core" /\ next.phase = a.phase /\ next.draft = a.draft /\ next.input = a.input
  <2>1. next = [a EXCEPT !.at = "core"]
    OBVIOUS
  <2> HIDE DEF next, a
  <2> QED BY <1>2, <2>1 DEF IsAsk
<1> HIDE DEF claim, next
<1>6. AskSpares(next, receipt', minute', over', sent')
  BY <1>3, <1>4, <1>5 DEF AskSpares
<1>7. ASSUME NEW x \in Asks, x # q PROVE AskSpares(ask[x], receipt', minute', over', sent')
  <2> DEFINE b == ask[x]
  <2>1. AskSpares(b, receipt, minute, over, sent) /\ AskHolds(b, receipt, question)
    BY DEF RunsInv, SparedInv
  <2> HIDE DEF b
  <2>2. b.at # "idle" => b.phase \in Phases
    BY <2>1 DEF AskHolds
  <2>3. b.phase \in Phases /\ receipt[b.phase].owner # 0 => receipt'[b.phase] = receipt[b.phase]
    BY <1>1, <1>3
  <2>4. AskSpares(b, receipt', minute', over', sent')
    BY <1>1, <2>1, <2>2, <2>3 DEF AskSpares
  <2> QED BY <2>4 DEF b
<1>8. \A x \in Asks : AskSpares(ask'[x], receipt', minute', over', sent')
  BY <1>1, <1>6, <1>7 DEF RunsInv
<1>9. ReceiptSpares(receipt'["execute"], minute', over', sent')
  <2>1. CASE a.phase = "execute"
    BY <1>1, <1>3, <1>4, <2>1 DEF SparedInv, ReceiptSpares
  <2>2. CASE a.phase # "execute"
    BY <1>1, <1>3, <2>2 DEF SparedInv, ReceiptSpares, Phases
  <2> QED BY <2>1, <2>2
<1> QED BY <1>8, <1>9 DEF SparedInv

(* The late refusals, each with its reason.                                *)
LEMMA SparingBegins == ASSUME RunsInv, SparedInv, NEW q \in Asks, BeginRun(q) PROVE SparedInv'
<1> DEFINE a == ask[q]
           Late(status) == [a EXCEPT !.at = "complete", !.status = status]
           Begun(made) == [a EXCEPT !.at = "reserve", !.run = made]
<1>1. UNCHANGED <<minute, over, receipt, sent>> /\ a.at = "core"
  BY DEF BeginRun
<1>2. /\ IsAsk(a) /\ a.phase \in Phases /\ a.run = NoRun /\ minute \in Nat
      /\ AskSpares(a, receipt, minute, over, sent)
      /\ a.phase = "execute" =>
           /\ Confirmable(a.draft) /\ a.draft.owner = a.owner
           /\ ResolveQuestionEvidence(a.draft.run.contract, a.input) = "READY"
  BY <1>1 DEF RunsInv, AskHolds, SparedInv
<1>3. \/ over /\ ask' = [ask EXCEPT ![q] = Late(401)]
      \/ /\ a.phase = "execute" /\ ~ValidDraft(a.draft, a.owner)
         /\ ask' = [ask EXCEPT ![q] = Late(422)]
      \/ \E made : ask' = [ask EXCEPT ![q] = Begun(made)]
  <2>1. CASE over
    BY <2>1 DEF BeginRun, Advance
  <2>2. CASE ~over /\ a.phase = "plan"
    <3> DEFINE received == Requested(AddEvent(NewRun("plan"), "query_received", Nil))
    <3>1. ask' = [ask EXCEPT ![q] = Begun(received)]
      BY <2>2 DEF BeginRun, Advance
    <3> QED BY <3>1
  <2>3. CASE ~over /\ a.phase = "execute" /\ ~ValidDraft(a.draft, a.owner)
    BY <2>3 DEF BeginRun, Advance
  <2>4. CASE ~over /\ a.phase = "execute" /\ ValidDraft(a.draft, a.owner)
    <3> DEFINE verified == Requested(Verified(Confirmed(a.draft, a.input)))
    <3>1. ask' = [ask EXCEPT ![q] = Begun(verified)]
      BY <1>2, <2>4 DEF BeginRun, Advance
    <3> QED BY <3>1
  <2> QED BY <1>2, <2>1, <2>2, <2>3, <2>4 DEF Phases
<1>4. ASSUME NEW status, ask' = [ask EXCEPT ![q] = Late(status)],
             a.phase = "execute" => Spared(NoRun, status, a.draft, minute, over)
      PROVE  SparedInv'
  <2> DEFINE late == Late(status)
  <2>1. /\ late.at = "complete" /\ late.phase = a.phase /\ late.draft = a.draft
        /\ late.input = a.input /\ late.run = NoRun /\ late.status = status
    <3>1. late = [a EXCEPT !.at = "complete", !.status = status]
      OBVIOUS
    <3> HIDE DEF late, a
    <3> QED BY <1>2, <3>1 DEF IsAsk
  <2>2. ask' = [ask EXCEPT ![q] = late]
    BY <1>4
  <2> HIDE DEF late
  <2>3. AskSpares(late, receipt, minute, over, sent)
    BY <1>1, <1>2, <1>4, <2>1 DEF AskSpares
  <2> QED BY <1>1, <2>2, <2>3, SparingMovesOn
<1>5. CASE over /\ ask' = [ask EXCEPT ![q] = Late(401)]
  <2>1. Spared(NoRun, 401, a.draft, minute, over)
    BY <1>5 DEF Spared
  <2> QED BY <1>4, <1>5, <2>1
<1>6. CASE /\ a.phase = "execute" /\ ~ValidDraft(a.draft, a.owner)
           /\ ask' = [ask EXCEPT ![q] = Late(422)]
  <2>1. a.draft.run.created \in Nat /\ ~(minute - a.draft.run.created <= DraftLife)
    BY <1>2, <1>6 DEF Confirmable, Sound, IsRun, ValidDraft
  <2>2. minute - a.draft.run.created > DraftLife
    BY <1>2, <2>1, RunsAssumption
  <2>3. Spared(NoRun, 422, a.draft, minute, over)
    BY <1>2, <1>6, <2>2 DEF Spared, TooOld
  <2> QED BY <1>4, <1>6, <2>3
<1>7. ASSUME NEW made, ask' = [ask EXCEPT ![q] = Begun(made)] PROVE SparedInv'
  <2> DEFINE begun == Begun(made)
  <2>1. /\ begun.at = "reserve" /\ begun.phase = a.phase /\ begun.draft = a.draft
        /\ begun.input = a.input
    <3>1. begun = [a EXCEPT !.at = "reserve", !.run = made]
      OBVIOUS
    <3> HIDE DEF begun, a
    <3> QED BY <1>2, <3>1 DEF IsAsk
  <2>2. ask' = [ask EXCEPT ![q] = begun]
    BY <1>7
  <2> HIDE DEF begun
  <2>3. AskSpares(begun, receipt, minute, over, sent)
    BY <1>1, <1>2, <2>1 DEF AskSpares
  <2> QED BY <1>1, <2>2, <2>3, SparingMovesOn
<1> QED BY <1>3, <1>5, <1>6, <1>7

LEMMA SparingReserves == ASSUME RunsInv, SparedInv, NEW q \in Asks, ReserveCall(q) PROVE SparedInv'
<1> DEFINE a == ask[q]
           reserved == [a EXCEPT !.at = "call", !.paid = "reserved"]
           Refused(code) == [a EXCEPT !.at = "settle", !.run = Failed(a.run, code)]
<1>1. UNCHANGED <<minute, over, receipt, sent>> /\ a.at = "reserve"
  BY DEF ReserveCall, Advance
<1>2. /\ IsAsk(a) /\ a.paid = "no" /\ Called(a.run, a.phase, a.draft)
      /\ AskSpares(a, receipt, minute, over, sent)
  BY <1>1 DEF RunsInv, AskHolds, SparedInv
<1>3. CASE ask' = [ask EXCEPT ![q] = reserved]
  <2>1. /\ reserved.at = "call" /\ reserved.phase = a.phase /\ reserved.draft = a.draft
        /\ reserved.input = a.input
    <3> HIDE DEF a
    <3> QED BY <1>2 DEF IsAsk
  <2> HIDE DEF reserved
  <2>2. AskSpares(reserved, receipt, minute, over, sent)
    BY <1>1, <1>2, <2>1 DEF AskSpares
  <2> QED BY <1>1, <1>3, <2>2, SparingMovesOn
<1>4. ASSUME NEW code \in BudgetRefusals, ask' = [ask EXCEPT ![q] = Refused(code)] PROVE SparedInv'
  <2> DEFINE failed == Failed(a.run, code)
             refused == Refused(code)
  <2>1. failed.calls[1].failure = code
    BY <1>2, HeardIsCalled DEF Failed
  <2>2. /\ refused.at = "settle" /\ refused.phase = a.phase /\ refused.draft = a.draft
        /\ refused.input = a.input /\ refused.run = failed /\ refused.paid = a.paid
    <3>1. refused = [a EXCEPT !.at = "settle", !.run = failed]
      OBVIOUS
    <3> HIDE DEF refused, failed, a
    <3> QED BY <1>2, <3>1 DEF IsAsk
  <2>3. ask' = [ask EXCEPT ![q] = refused]
    BY <1>4
  <2> HIDE DEF refused, failed
  <2>4. AskSpares(refused, receipt, minute, over, sent)
    BY <1>1, <1>2, <1>4, <2>1, <2>2 DEF AskSpares
  <2> QED BY <1>1, <2>3, <2>4, SparingMovesOn
<1>5. \/ ask' = [ask EXCEPT ![q] = reserved]
      \/ \E code \in BudgetRefusals : ask' = [ask EXCEPT ![q] = Refused(code)]
  BY DEF ReserveCall, Advance
<1> QED BY <1>3, <1>4, <1>5

(* What goes to the provider is the receipt's, and its evidence is ready.  *)
LEMMA SparingCalls == ASSUME RunsInv, SparedInv, NEW q \in Asks, CallModel(q) PROVE SparedInv'
<1> DEFINE a == ask[q]
<1>1. UNCHANGED <<minute, over, receipt>> /\ sent' = sent \cup {a.phase} /\ a.at = "call"
  BY DEF CallModel, Advance
<1>2. /\ IsAsk(a) /\ a.phase \in Phases /\ AskSpares(a, receipt, minute, over, sent)
      /\ a.phase = "execute" =>
           ResolveQuestionEvidence(a.draft.run.contract, a.input) = "READY"
  BY <1>1 DEF RunsInv, AskHolds, SparedInv
<1>3. PICK output, failure :
        ask' = [ask EXCEPT ![q] = [a EXCEPT !.at = "settle", !.run = Heard(a.run, output, failure)]]
  BY DEF CallModel, Advance
<1> DEFINE heard == Heard(a.run, output, failure)
           next == [a EXCEPT !.at = "settle", !.run = heard]
<1>4. /\ next.at = "settle" /\ next.phase = a.phase /\ next.draft = a.draft
      /\ next.input = a.input
  <2> HIDE DEF heard, a
  <2> QED BY <1>2 DEF IsAsk
<1>5. \A x \in Asks : ask'[x] = IF x = q THEN next ELSE ask[x]
  BY <1>3 DEF RunsInv
<1> HIDE DEF next
<1>6. AskSpares(next, receipt', minute', over', sent')
  BY <1>1, <1>2, <1>4 DEF AskSpares
<1>7. ASSUME NEW x \in Asks PROVE AskSpares(ask[x], receipt', minute', over', sent')
  <2> DEFINE b == ask[x]
  <2>1. AskSpares(b, receipt, minute, over, sent)
    BY DEF SparedInv
  <2> HIDE DEF b
  <2>2. AskSpares(b, receipt', minute', over', sent')
    BY <1>1, <2>1 DEF AskSpares
  <2> QED BY <2>2 DEF b
<1>8. ReceiptSpares(receipt'["execute"], minute', over', sent')
  <2>1. "execute" \in sent' => "execute" \in sent \/ a.phase = "execute"
    BY <1>1
  <2> QED BY <1>1, <1>2, <2>1 DEF SparedInv, ReceiptSpares, AskSpares
<1> QED BY <1>5, <1>6, <1>7, <1>8 DEF SparedInv

(* A refusal is never settled, and is the outcome.                         *)
LEMMA SparingSettles == ASSUME RunsInv, SparedInv, NEW q \in Asks, SettleCall(q) PROVE SparedInv'
<1> DEFINE a == ask[q]
           Billed(settles) == IF settles THEN a.run
                               ELSE Failed(a.run, "MODEL_BUDGET_RECOVERY_REQUIRED")
<1>1. UNCHANGED <<minute, over, receipt, sent>> /\ a.at = "settle"
  BY DEF SettleCall, Advance
<1>2. /\ IsAsk(a) /\ a.phase \in Phases /\ Called(a.run, a.phase, a.draft)
      /\ AskSpares(a, receipt, minute, over, sent)
      /\ a.phase = "execute" =>
           /\ a.input \in Snapshots
           /\ ResolveQuestionEvidence(a.draft.run.contract, a.input) = "READY"
  BY <1>1 DEF RunsInv, AskHolds, SparedInv
<1>3. PICK settles \in IF a.paid = "reserved" THEN BOOLEAN ELSE {TRUE} :
        ask' = [ask EXCEPT ![q] =
          [a EXCEPT !.at = "complete", !.run = Conclude(q, Returned(Billed(settles))),
                    !.status = RunStatus(Billed(settles)),
                    !.paid = IF settles /\ a.paid = "reserved" THEN "settled" ELSE a.paid]]
  BY DEF SettleCall, Advance
<1> DEFINE concluded == Conclude(q, Returned(Billed(settles)))
           status == RunStatus(Billed(settles))
           paid == IF settles /\ a.paid = "reserved" THEN "settled" ELSE a.paid
           next == [a EXCEPT !.at = "complete", !.run = concluded, !.status = status,
                             !.paid = paid]
<1>4. ask' = [ask EXCEPT ![q] = next]
  BY <1>3
<1>5. ASSUME a.phase = "execute", "execute" \notin sent
      PROVE  concluded # NoRun /\ concluded.calls # <<>>
             /\ concluded.calls[1].failure \in BudgetRefusals
  <2> DEFINE accounted == Returned(a.run)
  <2>1. a.paid # "reserved" /\ a.run.calls[1].failure \in BudgetRefusals
    BY <1>1, <1>2, <1>5 DEF AskSpares
  <2>2. Billed(settles) = a.run
    BY <1>3, <2>1
  <2>3. concluded = Explained(accounted, a.input)
    BY <1>5, <2>2 DEF Conclude
  <2>4. Accounted(accounted, "execute", a.draft) /\ accounted.calls = a.run.calls
    BY <1>2, <1>5, ReturnedIsAccounted
  <2> HIDE DEF concluded, accounted, a
  <2>5. /\ Delivered(concluded, "execute") /\ concluded.calls # <<>>
        /\ concluded.calls = accounted.calls
    BY <1>2, <1>5, <2>3, <2>4, ExecutionConcluded
  <2> QED BY <2>1, <2>4, <2>5, RunsAssumption DEF Delivered, NoRun
<1>6. /\ next.at = "complete" /\ next.phase = a.phase /\ next.draft = a.draft
      /\ next.input = a.input /\ next.run = concluded
  <2> HIDE DEF a, concluded, status, paid
  <2> QED BY <1>2 DEF IsAsk
<1> HIDE DEF next, concluded
<1>7. AskSpares(next, receipt, minute, over, sent)
  BY <1>1, <1>2, <1>5, <1>6 DEF AskSpares, Spared
<1> QED BY <1>1, <1>4, <1>7, SparingMovesOn

LEMMA SparingCompletes ==
  ASSUME RunsInv, SparedInv, NEW q \in Asks, CompleteTask(q) PROVE SparedInv'
<1> DEFINE a == ask[q]
           found == receipt[a.phase]
           kept == [found EXCEPT !.run = a.run, !.status = a.status]
           next == [a EXCEPT !.at = "reply"]
<1>1. UNCHANGED <<minute, over, sent>> /\ a.at = "complete"
  BY DEF CompleteTask, Advance
<1>2. /\ IsAsk(a) /\ a.phase \in Phases /\ AskSpares(a, receipt, minute, over, sent)
  BY <1>1 DEF RunsInv, AskHolds, SparedInv
<1>3. CASE Refuse(q) /\ UNCHANGED receipt
  BY <1>1, <1>3, SparingRefuses
<1>4. CASE /\ ask' = [ask EXCEPT ![q] = next]
           /\ receipt' = [receipt EXCEPT ![a.phase].run = a.run, ![a.phase].status = a.status]
  <2>1. /\ receipt'[a.phase] = kept
        /\ \A p \in Phases : p # a.phase => receipt'[p] = receipt[p]
    <3>1. receipt' = [receipt EXCEPT ![a.phase] = kept]
      BY <1>2, <1>4 DEF RunsInv
    <3> HIDE DEF kept, a
    <3> QED BY <1>2, <3>1 DEF RunsInv
  <2>2. /\ kept.owner = found.owner /\ kept.draft = found.draft /\ kept.input = found.input
        /\ kept.run = a.run /\ kept.status = a.status
    <3>1. found = [owner |-> found.owner, input |-> found.input, draft |-> found.draft,
                   run |-> found.run, status |-> found.status]
      BY <1>2 DEF RunsInv, ReceiptHolds
    <3> HIDE DEF found, a
    <3> QED BY <3>1
  <2>3. next.at = "reply"
    <3> HIDE DEF a
    <3> QED BY <1>2 DEF IsAsk
  <2> HIDE DEF kept
  <2>4. \A p \in Phases : /\ receipt'[p].owner = receipt[p].owner
                          /\ receipt'[p].draft = receipt[p].draft
                          /\ receipt'[p].input = receipt[p].input
    BY <2>1, <2>2
  <2>5. ASSUME NEW x \in Asks, x # q PROVE AskSpares(ask[x], receipt', minute', over', sent')
    <3> DEFINE b == ask[x]
    <3>1. AskSpares(b, receipt, minute, over, sent) /\ AskHolds(b, receipt, question)
      BY DEF RunsInv, SparedInv
    <3> HIDE DEF b
    <3>2. b.at # "idle" => b.phase \in Phases
      BY <3>1 DEF AskHolds
    <3>3. AskSpares(b, receipt', minute', over', sent')
      BY <1>1, <2>4, <3>1, <3>2 DEF AskSpares
    <3> QED BY <3>3 DEF b
  <2>6. AskSpares(next, receipt', minute', over', sent')
    BY <2>3 DEF AskSpares
  <2>7. \A x \in Asks : AskSpares(ask'[x], receipt', minute', over', sent')
    BY <1>4, <2>5, <2>6 DEF RunsInv
  <2>8. ReceiptSpares(receipt'["execute"], minute', over', sent')
    <3>1. CASE a.phase = "execute"
      BY <1>1, <1>2, <2>1, <2>2, <3>1 DEF SparedInv, ReceiptSpares, AskSpares
    <3>2. CASE a.phase # "execute"
      BY <1>1, <2>1, <3>2 DEF SparedInv, ReceiptSpares, Phases
    <3> QED BY <3>1, <3>2
  <2> QED BY <2>7, <2>8 DEF SparedInv
<1> QED BY <1>3, <1>4 DEF CompleteTask, Advance

(* What is too old, or over, stays so.                                     *)
LEMMA SparingAges ==
  ASSUME RunsInv, SparedInv, MinutePasses \/ ReviewEnds PROVE SparedInv'
<1>1. /\ UNCHANGED <<receipt, ask, sent>> /\ minute \in Nat /\ minute' \in {minute, minute + 1}
      /\ over => over'
  BY DEF MinutePasses, ReviewEnds, RunsInv
<1>2. ASSUME NEW r, NEW status, NEW signed, Spared(r, status, signed, minute, over)
      PROVE  Spared(r, status, signed, minute', over')
  <2>1. ASSUME TooOld(signed, minute) PROVE TooOld(signed, minute')
    <3>1. signed.run.created \in Nat
      BY <2>1 DEF TooOld, Confirmable, Sound, IsRun
    <3> QED BY <1>1, <2>1, <3>1, RunsAssumption DEF TooOld
  <2> QED BY <1>1, <1>2, <2>1 DEF Spared
<1>3. \A q \in Asks : AskSpares(ask'[q], receipt', minute', over', sent')
  BY <1>1, <1>2 DEF SparedInv, AskSpares
<1>4. ReceiptSpares(receipt'["execute"], minute', over', sent')
  BY <1>1, <1>2 DEF SparedInv, ReceiptSpares
<1> QED BY <1>3, <1>4 DEF SparedInv

LEMMA SparedKept == RunsInv /\ SparedInv /\ [RunsNext]_runsVars => SparedInv'
<1> SUFFICES ASSUME RunsInv, SparedInv, [RunsNext]_runsVars PROVE SparedInv'
  OBVIOUS
<1>1. CASE RunsNext
  <2>1. CASE LogInAgain
    BY <2>1 DEF LogInAgain, SparedInv
  <2> QED BY <1>1, <2>1, SparingAsks, SparingClaims, SparingBegins, SparingReserves, SparingCalls,
             SparingSettles, SparingCompletes, SparingAges DEF RunsNext
<1>2. CASE UNCHANGED runsVars
  BY <1>2 DEF runsVars, SparedInv
<1> QED BY <1>1, <1>2

(* What was sent to the provider had passed the gate.  A task is consumed  *)
(* without being sent only by a refusal of the budget, or because the      *)
(* review ended or its plan became too old while it was being claimed      *)
(* (createQuestionHandler).                                                *)
THEOREM TasksAreSpared == RunsSpec => []TaskIsSpared
<1>1. RunsInit => SparedInv
  BY IdleSpares DEF RunsInit, SparedInv, ReceiptSpares, Unclaimed, Phases
<1>2. SparedInv => TaskIsSpared
  BY DEF SparedInv, ReceiptSpares, Spared, TooOld, TaskIsSpared
<1> QED BY <1>1, <1>2, RunsSettledDown, SparedKept, PTL DEF RunsSpec

-----------------------------------------------------------------------------
(* The service as a whole.                                                 *)

(* A behaviour of the service is one of each of its parts, so that what was*)
(* proved of a part holds of the service.                                  *)
THEOREM ServiceHasItsParts == ServiceSpec => Spec /\ BatchSpec /\ RunsSpec
<1>1. ServiceInit => Init /\ BatchInit /\ RunsInit
  BY DEF ServiceInit
<1>2. [ServiceNext]_serviceVars => [Next]_vars /\ [BatchNext]_batchVars /\ [RunsNext]_runsVars
  BY DEF ServiceNext, serviceVars
<1> QED BY <1>1, <1>2, PTL DEF ServiceSpec, Spec, BatchSpec, RunsSpec
=============================================================================
