----------------------------- MODULE MemoHandler -----------------------------
(***************************************************************************)
(* POST /api/research-memo behind the proxy: admission, the one model slot *)
(* of the process, the body, the reservation, the request to the provider, *)
(* its response, and the settlement.                                       *)
(*                                                                         *)
(* The slot is taken before the body is read, so that a stalled sender     *)
(* holds it; what gives it back is a timer at each wait.  The reservation  *)
(* and the settlement are ModelBudget's; here they succeed or fail.        *)
(***************************************************************************)
EXTENDS ReviewAccess

CONSTANT ProviderTime  \* time limit of the exchange with the provider

ASSUME HandlerAssumption == ProviderTime \in Nat \ {0} /\ "free" \notin Readers

VARIABLES
  slot,   \* the visitor whose request holds the model slot, or "free"
  since,  \* when it was taken
  call,   \* call[v]: when createMemoRun() began (wall), and when its signal
          \*   ends the exchange
  run,    \* run[v]: the outcome of the memo run so far
  spent   \* spent[v]: what the budget's ledger says of the attempt

handlerVars == <<slot, since, call, run, spent>>
vars == <<clock, body, stage, accessVars, handlerVars>>

NoCall == [began |-> 0, ends |-> Never]
Outcomes == {"completed", "blocked", "failed"}

HandlerTypeOK ==
  /\ BodyTypeOK
  /\ clock \in 0..MaxClock /\ setBacks \in 0..MaxSetBacks /\ open \in BOOLEAN
  /\ session \in [Readers -> 0..MaxClock \cup {Never}]
  /\ limiter \in [started : 0..MaxClock, attempts : 0..Limit + 1]
  /\ logins \in [0..MaxClock -> Nat]
  /\ stage \in [Readers -> {"none", "login", "body", "reserve", "fetch", "response",
                            "settle", "release"}]
  /\ slot \in Readers \cup {"free"} /\ since \in 0..MaxClock
  /\ call \in [Readers -> [began : 0..MaxClock, ends : Nat \cup {Never}]]
  /\ run \in [Readers -> Outcomes \cup {"none"}]
  /\ spent \in [Readers -> {"none", "reserved", "settled"}]

Init ==
  /\ AccessInit
  /\ clock = 0 /\ body = [v \in Readers |-> NoBody]
  /\ stage = [v \in Readers |-> "none"]
  /\ slot = "free" /\ since = 0
  /\ call = [v \in Readers |-> NoCall]
  /\ run = [v \in Readers |-> "none"]
  /\ spent = [v \in Readers |-> "none"]

At(v, here, there) == stage[v] = here /\ stage' = [stage EXCEPT ![v] = there]
Outcome(v, o) == run' = [run EXCEPT ![v] = o]

-----------------------------------------------------------------------------
(* The proxy and the handler up to the body.  A request without a valid    *)
(* session, or that finds the slot taken, changes nothing else.            *)
Post(v) ==
  /\ stage[v] = "none"
  /\ UNCHANGED <<clock, setBacks, open, limiter, logins, call, run, spent>>
  /\ session' = SessionAfterProxy(v)
  /\ IF HasSession(v)' /\ slot = "free"
     THEN /\ slot' = v /\ since' = clock
          /\ Open(v, RequestTime)
          /\ stage' = [stage EXCEPT ![v] = "body"]
     ELSE UNCHANGED <<slot, since, body, stage>>

(* The version that was sent is checked against its own snapshot before    *)
(* anything is reserved (422); a body that could not be read is refused.   *)
BodyRead(v) ==
  /\ stage[v] = "body" /\ Settled(v)
  /\ \/ /\ body[v].result = "value" /\ At(v, "body", "reserve")
        /\ call' = [call EXCEPT ![v] = [began |-> wall, ends |-> Never]]
     \/ At(v, "body", "release") /\ UNCHANGED call
  /\ Forget(v)
  /\ UNCHANGED <<clock, accessVars, slot, since, run, spent>>

(* reserveModelBudget, then the request, whose signal is started with it.  *)
Reserve(v) ==
  /\ \/ /\ At(v, "reserve", "fetch")
        /\ spent' = [spent EXCEPT ![v] = "reserved"]
        /\ call' = [call EXCEPT ![v].ends = clock + ProviderTime]
        /\ UNCHANGED run
     \/ At(v, "reserve", "release") /\ Outcome(v, "failed") /\ UNCHANGED <<spent, call>>
  /\ UNCHANGED <<clock, body, accessVars, slot, since>>

(* No response, an HTTP error, or the signal.                              *)
FetchFails(v) ==
  /\ At(v, "fetch", "settle") /\ Outcome(v, "failed")
  /\ UNCHANGED <<clock, body, accessVars, slot, since, call, spent>>

(* What is left of the time limit, by the wall clock, which may have been  *)
(* set back since.                                                         *)
Remaining(v) == LET passed == wall - call[v].began
                IN  IF passed < ProviderTime THEN ProviderTime - passed ELSE 0

Headers(v) ==
  /\ At(v, "fetch", "response")
  /\ Open(v, Remaining(v))
  /\ UNCHANGED <<clock, accessVars, handlerVars>>

(* The signal of the exchange also ends the reading of the response.       *)
SignalBody(v) ==
  /\ stage[v] = "response" /\ call[v].ends <= clock
  /\ AbortBody(v)
  /\ UNCHANGED <<clock, stage, accessVars, handlerVars>>

(* A response that was read is a completed memo when it passes every check *)
(* from its status to its citations, blocked when the model refused or the *)
(* text is not acceptable, and failed otherwise.                           *)
ResponseRead(v) ==
  /\ stage[v] = "response" /\ Settled(v)
  /\ At(v, "response", "settle")
  /\ \E o \in IF body[v].result = "value" THEN Outcomes ELSE {"failed"} : Outcome(v, o)
  /\ Forget(v)
  /\ UNCHANGED <<clock, accessVars, slot, since, call, spent>>

(* Variant: a failed settlement is not a failed run.                       *)
SettleLeniently(v) ==
  /\ At(v, "settle", "release")
  /\ \E ok \in BOOLEAN :
       spent' = IF ok THEN [spent EXCEPT ![v] = "settled"] ELSE spent
  /\ UNCHANGED <<clock, body, accessVars, slot, since, call, run>>

(* budget.finish(): when it fails the run has no memo, whatever it was.    *)
Settle(v) ==
  /\ At(v, "settle", "release")
  /\ \/ spent' = [spent EXCEPT ![v] = "settled"] /\ UNCHANGED run
     \/ Outcome(v, "failed") /\ UNCHANGED spent
  /\ UNCHANGED <<clock, body, accessVars, slot, since, call>>

(* The slot is given back and the answer sent.                             *)
Release(v) ==
  /\ At(v, "release", "none")
  /\ slot' = "free" /\ since' = 0
  /\ call' = [call EXCEPT ![v] = NoCall]
  /\ Outcome(v, "none") /\ spent' = [spent EXCEPT ![v] = "none"]
  /\ UNCHANGED <<clock, body, accessVars>>

-----------------------------------------------------------------------------
(* Time passes unless a timer is due or the server has work to do.         *)
Waiting(v) ==
  \/ stage[v] = "none"
  \/ stage[v] \in {"login", "body"} /\ Reading(v) /\ NotDue(body[v].timer)
  \/ stage[v] = "fetch" /\ NotDue(call[v].ends)
  \/ stage[v] = "response" /\ Reading(v) /\ NotDue(body[v].timer) /\ NotDue(call[v].ends)

Tick ==
  /\ clock < MaxClock /\ \A v \in Readers : Waiting(v)
  /\ clock' = clock + 1
  /\ UNCHANGED <<body, stage, accessVars, handlerVars>>

Stream(v) ==
  /\ \/ Chunk(v) \/ EndOfStream(v) \/ BodyTimeout(v)
     \/ stage[v] \in {"login", "body"} /\ AbortBody(v)
  /\ UNCHANGED <<clock, stage, accessVars, handlerVars>>

Access(v) == (Login(v) \/ LoginRead(v) \/ Logout(v)) /\ UNCHANGED handlerVars

Next ==
  \/ Tick
  \/ SetBack /\ UNCHANGED handlerVars
  \/ \E v \in Readers :
       \/ Access(v) \/ Stream(v)
       \/ Post(v) \/ BodyRead(v) \/ Reserve(v)
       \/ FetchFails(v) \/ Headers(v) \/ SignalBody(v) \/ ResponseRead(v)
       \/ Settle(v) \/ Release(v)

Spec == Init /\ [][Next]_vars

-----------------------------------------------------------------------------
(* Properties.                                                             *)

(* The slot comes back: nobody holds it longer than the two time limits    *)
(* together, however slowly a sender or the provider delivers, and also    *)
(* when the wall clock is set back while the provider works.               *)
SlotHeldBounded ==
  slot # "free" => clock - since <= RequestTime + ProviderTime

(* Nothing is paid for long after the review has ended: a request goes to  *)
(* the provider only for a visitor who had a valid session when the request*)
(* came in, no longer before than a body may take.                         *)
NoCallAfterDeadline ==
  [][\A v \in Readers : stage[v] # "fetch" /\ stage'[v] = "fetch" =>
       wall <= Deadline + RequestTime]_vars

(* A memo that is handed out has been settled in the ledger: a settlement  *)
(* that fails is never reported as a success.                              *)
MemoIsSettled ==
  \A v \in Readers : stage[v] = "release" /\ run[v] = "completed" => spent[v] = "settled"
-----------------------------------------------------------------------------
(* What the proofs of these properties need: a stronger invariant.         *)

(* The stages at which a request holds the slot.                           *)
Holding == {"body", "reserve", "fetch", "response", "settle", "release"}

(* The clock never passes the timer of the wait that goes on, and no time  *)
(* passes at the other stages.                                             *)
HolderInTime(v) ==
  stage[v] \in Holding =>
    /\ slot = v
    /\ since - setBacks <= Deadline
    /\ clock <= since + RequestTime + ProviderTime
    /\ stage[v] \in {"body", "reserve"} => clock <= since + RequestTime
    /\ stage[v] = "body" /\ Reading(v) => body[v].timer = since + RequestTime
    /\ stage[v] \in {"fetch", "response"} =>
         /\ call[v].ends # Never
         /\ clock <= call[v].ends /\ call[v].ends <= since + RequestTime + ProviderTime

(* A run has an outcome only once the budget was asked.                    *)
NoOutcomeYet(v) == stage[v] \in {"none", "login", "body", "reserve"} => run[v] = "none"

MemoInv ==
  /\ HandlerTypeOK /\ BodyInv
  /\ 0 <= wall /\ since <= clock
  /\ slot # "free" => stage[slot] \in Holding
  /\ \A v \in Readers : HolderInTime(v) /\ NoOutcomeYet(v)
  /\ MemoIsSettled
=============================================================================
