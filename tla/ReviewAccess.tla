----------------------------- MODULE ReviewAccess -----------------------------
(***************************************************************************)
(* Admission of visitors: the access code, the session cookie with its     *)
(* deadline, and the limiter of attempts.                                  *)
(*                                                                         *)
(* The checks of a login come before and after it reads the body, which may*)
(* take as long as its timer allows: the deadline may pass in between.     *)
(* They use the wall clock, which may be set back.                         *)
(***************************************************************************)
EXTENDS BoundedBody, FiniteSets

CONSTANTS
  Deadline,    \* the end of the review, in ticks (seconds) of the wall clock
  Window,      \* the limiter's window and
  Limit,       \*   its attempts
  RequestTime, \* time limit of a request's body
  MaxSetBacks  \* bound: how often the wall clock is set back

ASSUME AccessAssumption ==
  /\ Deadline \in Nat /\ Window \in Nat \ {0} /\ Limit \in Nat \ {0}
  /\ RequestTime \in Nat /\ MaxSetBacks \in Nat

VARIABLES
  setBacks,  \* ticks by which the wall clock was set back
  open,      \* REVIEW_ACCESS_MODE=open: everyone is given a session
  stage,     \* stage[v]: where the request of visitor v is
  session,   \* session[v]: when v's session was issued, or Never without one
  limiter,   \* the window in progress: when it started, attempts in it
  logins     \* logins[i]: attempts admitted at wall time i (history)

accessVars == <<setBacks, open, session, limiter, logins>>

wall == clock - setBacks

AccessInit ==
  /\ setBacks = 0 /\ open \in BOOLEAN
  /\ session = [v \in Readers |-> Never]
  /\ limiter = [started |-> 0, attempts |-> 0]
  /\ logins = [i \in 0..MaxClock |-> 0]

(* reviewSessionSeconds: the life of a session issued now.                 *)
SessionSeconds == IF Deadline > wall THEN Deadline - wall ELSE 0
AccessOpen == wall <= Deadline
OpenMode == open /\ AccessOpen

(* Variant: a session is good once it has been issued.                     *)
HadSession(v) == session[v] # Never /\ session[v] <= wall

(* hasReviewSession: the cookie was issued, not in the future, and has not *)
(* expired.  Every session expires at the deadline.                        *)
HasSession(v) ==
  /\ AccessOpen
  /\ session[v] # Never /\ session[v] <= wall /\ session[v] < Deadline

(* reviewSessionValue, called while access is open: the cookie says when it*)
(* was issued, and nothing else that differs between sessions.             *)
IssueSession(v) == [session EXCEPT ![v] = wall]

(* createAccessLimiter                                                     *)
Restarts == wall >= limiter.started + Window \/ wall < limiter.started
Attempt == IF Restarts THEN [started |-> wall, attempts |-> 1]
           ELSE [limiter EXCEPT !.attempts = IF @ > Limit THEN @ ELSE @ + 1]

(* Variant: an attempt is compared before it is counted.                   *)
AllowedBefore == Attempt.attempts <= Limit + 1

Allowed == Attempt.attempts <= Limit

(* POST /api/access, up to its first await.  What is refused for its origin*)
(* or content type is not counted.                                         *)
Login(v) ==
  /\ stage[v] = "none" /\ AccessOpen
  /\ limiter' = Attempt
  /\ IF Allowed
     THEN /\ Open(v, RequestTime)
          /\ stage' = [stage EXCEPT ![v] = "login"]
          /\ logins' = [logins EXCEPT ![wall] = @ + 1]
     ELSE UNCHANGED <<body, stage, logins>>
  /\ UNCHANGED <<clock, setBacks, open, session>>

(* After the body: a wrong code, or a deadline that has come, is refused.  *)
LoginRead(v) ==
  /\ stage[v] = "login" /\ Settled(v)
  /\ Forget(v)
  /\ stage' = [stage EXCEPT ![v] = "none"]
  /\ \E right \in BOOLEAN :
       session' = IF body[v].result = "value" /\ right /\ AccessOpen /\ SessionSeconds > 0
                  THEN IssueSession(v) ELSE session
  /\ UNCHANGED <<clock, setBacks, open, limiter, logins>>

(* DELETE /api/access                                                      *)
Logout(v) ==
  /\ stage[v] = "none" /\ session[v] # Never
  /\ session' = [session EXCEPT ![v] = Never]
  /\ UNCHANGED <<clock, body, setBacks, open, stage, limiter, logins>>

(* proxy(): in open mode a request without a valid session is given one.   *)
SessionAfterProxy(v) ==
  IF OpenMode /\ ~HasSession(v) THEN IssueSession(v) ELSE session

SetBack ==
  /\ setBacks < MaxSetBacks /\ wall > 0
  /\ setBacks' = setBacks + 1
  /\ UNCHANGED <<clock, body, open, stage, session, limiter, logins>>

-----------------------------------------------------------------------------
(* Properties.                                                             *)

(* createAccessLimiter: windows are fixed, so that a stretch as long as one*)
(* may touch two of them; setting the clock back opens new ones.           *)
Admitted == UNION {{i} \X (1..logins[i]) : i \in 0..MaxClock}
LoginsLimited ==
  \A from \in 0..MaxClock :
    Cardinality({login \in Admitted : login[1] \in from..from + Window - 1})
      <= 2 * Limit * (1 + setBacks)
=============================================================================
