----------------------------- MODULE ModelBudget -----------------------------
(***************************************************************************)
(* The finite, persistent allowance of provider attempts that the memo and *)
(* the question handlers of every server process share.                    *)
(*                                                                         *)
(* The ledger is a directory with one attempt file per reservation and one *)
(* result file per settlement.  Decisions are taken from a full inventory  *)
(* under a lock directory that carries no holder and that nothing unlocks. *)
(* The lock is not held while the provider works: that only one attempt is *)
(* in flight follows from the files.  Times come from the wall clock, which*)
(* an operator or NTP may set forward or back.                             *)
(***************************************************************************)
EXTENDS Integers, FiniteSets, FiniteSetsExt

CONSTANTS
  Procs,            \* server processes; each has one model slot
  Owners,           \* hashes of visitor sessions
  Ids,              \* attempt UUIDs
  Attempts,         \* limits.attempts: reservations in the ledger's lifetime
  GlobalPerMinute,  \* limits.globalPerMinute
  VisitorPerHour,   \* limits.visitorPerHour
  Minute, Hour,     \* lengths of the two rolling windows
  MaxTime,          \* bound: latest time the clock shows
  Nil,              \* no such file, no such value
  Torn              \* a file whose content is incomplete

Times == 0..MaxTime
Claims == [owner : Owners, startedAt : Times]
Outcomes == [finishedAt : Times]

ASSUME BudgetAssumption ==
  /\ IsFiniteSet(Ids)
  /\ Attempts \in Nat \ {0} /\ GlobalPerMinute \in Nat \ {0} /\ VisitorPerHour \in Nat \ {0}
  /\ Minute \in Nat /\ Hour \in Nat /\ MaxTime \in Nat
ASSUME FilesAssumption ==
  Nil # Torn /\ {Nil, Torn} \cap (Claims \cup Outcomes) = {} /\ Nil \notin Ids \cup Owners
ASSUME HolderAssumption == {"free", "abandoned"} \cap Procs = {}

VARIABLES
  attempt,  \* attempt[id]: attempt-<id>.json
  result,   \* result[id]: result-<id>.json
  lock,     \* .writer-lock: the process that created it
  clock,    \* Date.now()
  pc,       \* pc[p]: how far the reservation of process p is
  owner,    \* owner[p]: the visitor it is for
  mine,     \* mine[p]: its attempt
  at,       \* at[p]: the time it read under the lock
  sends     \* sends[id]: provider requests sent on attempt id (history)

files == <<attempt, result>>
vars == <<attempt, result, lock, clock, pc, owner, mine, at, sends>>

(* "write", "admitted", "settle" and "done" hold the lock; "reserve" and   *)
(* "finish" wait for it or have just taken it.                             *)
Locked == {"write", "admitted", "settle", "done"}
PCs == Locked \cup {"idle", "reserve", "send", "sent", "finish"}

TypeOK ==
  /\ attempt \in [Ids -> Claims \cup {Nil, Torn}]
  /\ result \in [Ids -> Outcomes \cup {Nil, Torn}]
  /\ lock \in Procs \cup {"free", "abandoned"}
  /\ clock \in Times
  /\ pc \in [Procs -> PCs]
  /\ owner \in [Procs -> Owners \cup {Nil}]
  /\ mine \in [Procs -> Ids \cup {Nil}]
  /\ at \in [Procs -> Times]
  /\ sends \in [Ids -> Nat]
  /\ \A p \in Procs : pc[p] \in {"reserve", "write"} => owner[p] \in Owners
  /\ \A p \in Procs : pc[p] \in {"admitted", "send", "sent", "finish", "settle"} => mine[p] \in Ids

(* An initialized, empty ledger.                                           *)
Init ==
  /\ attempt = [id \in Ids |-> Nil]
  /\ result = [id \in Ids |-> Nil]
  /\ lock = "free"
  /\ clock \in Times
  /\ pc = [p \in Procs |-> "idle"]
  /\ owner = [p \in Procs |-> Nil]
  /\ mine = [p \in Procs |-> Nil]
  /\ at = [p \in Procs |-> 0]
  /\ sends = [id \in Ids |-> 0]

-----------------------------------------------------------------------------
(* What inventory() concludes from the files.                              *)

Claimed == {id \in Ids : attempt[id] # Nil}
Unresolved == {id \in Ids : attempt[id] # Nil /\ result[id] = Nil}

InventoryOK ==
  /\ \A id \in Ids : attempt[id] # Torn /\ result[id] # Torn
  /\ Cardinality(Claimed) <= Attempts
  /\ \A id \in Ids : result[id] # Nil =>
       attempt[id] # Nil /\ result[id].finishedAt >= attempt[id].startedAt

(* The attempts of a rolling window that ends at t.                        *)
InMinute(t) ==
  {id \in Claimed : attempt[id] \in Claims /\ t - Minute < attempt[id].startedAt
                    /\ attempt[id].startedAt <= t}
InHour(t, o) ==
  {id \in Claimed : attempt[id] \in Claims /\ attempt[id].owner = o
                    /\ t - Hour < attempt[id].startedAt /\ attempt[id].startedAt <= t}

(* Is a rolling window full for visitor o at time t?                       *)
Limited(o, t) ==
  \/ Cardinality(InMinute(t)) >= GlobalPerMinute
  \/ Cardinality(InHour(t, o)) >= VisitorPerHour

(* Variant: the model slot of the process is taken to exclude the others.  *)
VerdictPerProcess(o, t) ==
  IF ~InventoryOK THEN "recovery"
  ELSE IF \E id \in Claimed : attempt[id].startedAt > t THEN "clock"
  ELSE IF Cardinality(Claimed) >= Attempts THEN "exhausted"
  ELSE IF Limited(o, t) THEN "limited"
  ELSE "admit"

(* Variant: a clock that was set back is not noticed.                      *)
VerdictTrustsClock(o, t) ==
  IF ~InventoryOK THEN "recovery"
  ELSE IF Cardinality(Claimed) >= Attempts THEN "exhausted"
  ELSE IF Unresolved # {} THEN "busy"
  ELSE IF Limited(o, t) THEN "limited"
  ELSE "admit"

(* Variant: an attempt left unresolved for an hour is given up.            *)
VerdictExpires(o, t) ==
  IF ~InventoryOK THEN "recovery"
  ELSE IF \E id \in Claimed : attempt[id].startedAt > t THEN "clock"
  ELSE IF Cardinality(Claimed) >= Attempts THEN "exhausted"
  ELSE IF \E id \in Unresolved : attempt[id].startedAt > t - Hour THEN "busy"
  ELSE IF Limited(o, t) THEN "limited"
  ELSE "admit"

(* What reserve() answers at time t, in the order of its checks.  That a   *)
(* claim lies in the future is refused before the windows are looked at,   *)
(* so their upper ends need no check of their own.                         *)
Verdict(o, t) ==
  IF ~InventoryOK THEN "recovery"
  ELSE IF \E id \in Claimed : attempt[id].startedAt > t THEN "clock"
  ELSE IF Cardinality(Claimed) >= Attempts THEN "exhausted"
  ELSE IF Unresolved # {} THEN "busy"
  ELSE IF Limited(o, t) THEN "limited"
  ELSE "admit"

-----------------------------------------------------------------------------
(* The steps of a process.                                                 *)

Goto(p, where) == pc' = [pc EXCEPT ![p] = where]

(* The call of modelCall is over: its local variables are gone.            *)
End(p) ==
  /\ Goto(p, "idle")
  /\ owner' = [owner EXCEPT ![p] = Nil]
  /\ mine' = [mine EXCEPT ![p] = Nil]
  /\ at' = [at EXCEPT ![p] = 0]

(* A paid request of visitor o reaches modelCall in process p.             *)
Request(p, o) ==
  /\ pc[p] = "idle"
  /\ owner' = [owner EXCEPT ![p] = o]
  /\ Goto(p, "reserve")
  /\ UNCHANGED <<attempt, result, lock, clock, mine, at, sends>>

Acquire(p) ==
  /\ pc[p] \in {"reserve", "finish"}
  /\ lock = "free"
  /\ lock' = p
  /\ UNCHANGED <<attempt, result, clock, pc, owner, mine, at, sends>>

(* 200 attempts found the lock taken.  A reservation is refused; an attempt*)
(* that cannot be settled stays unresolved.                                *)
LockTimeout(p) ==
  /\ pc[p] \in {"reserve", "finish"}
  /\ lock \notin {"free", p}
  /\ End(p)
  /\ UNCHANGED <<attempt, result, lock, clock, sends>>

(* reserve() decides from the inventory and the clock it reads now.        *)
Decide(p) ==
  /\ pc[p] = "reserve" /\ lock = p
  /\ IF Verdict(owner[p], clock) = "admit"
     THEN at' = [at EXCEPT ![p] = clock] /\ Goto(p, "write")
     ELSE Goto(p, "done") /\ UNCHANGED at
  /\ UNCHANGED <<attempt, result, lock, clock, owner, mine, sends>>

(* The attempt file, under a fresh identifier.                             *)
WriteAttempt(p) ==
  /\ pc[p] = "write"
  /\ \E id \in Ids \ Claimed, content \in {[owner |-> owner[p], startedAt |-> at[p]], Torn} :
       /\ attempt' = [attempt EXCEPT ![id] = content]
       /\ mine' = [mine EXCEPT ![p] = id]
       /\ Goto(p, IF content = Torn THEN "done" ELSE "admitted")
  /\ UNCHANGED <<result, lock, clock, owner, at, sends>>

Release(p) ==
  /\ pc[p] \in {"admitted", "done"}
  /\ lock' = "free"
  /\ IF pc[p] = "admitted" THEN Goto(p, "send") /\ UNCHANGED <<owner, mine, at>> ELSE End(p)
  /\ UNCHANGED <<attempt, result, clock, sends>>

(* The lock directory cannot be removed: it stays for good, the reservation*)
(* is refused or the settlement reported as failed.                        *)
ReleaseFails(p) ==
  /\ pc[p] \in {"admitted", "done"}
  /\ lock' = "abandoned"
  /\ End(p)
  /\ UNCHANGED <<attempt, result, clock, sends>>

(* An I/O error, or no disk space, under the lock.  The finally block      *)
(* releases the lock; nothing is removed.                                  *)
Fault(p) ==
  /\ lock = p
  /\ Goto(p, "done")
  /\ UNCHANGED <<attempt, result, lock, clock, owner, mine, at, sends>>

(* The provider request leaves, with no lock held.                         *)
Send(p) ==
  /\ pc[p] = "send"
  /\ sends' = [sends EXCEPT ![mine[p]] = @ + 1]
  /\ Goto(p, "sent")
  /\ UNCHANGED <<attempt, result, lock, clock, owner, mine, at>>

(* It answered, failed or timed out: modelCall settles in every case.      *)
Return(p) ==
  /\ pc[p] = "sent"
  /\ Goto(p, "finish")
  /\ UNCHANGED <<attempt, result, lock, clock, owner, mine, at, sends>>

(* finish() finds its own claim, unresolved.                               *)
CheckOwn(p) ==
  /\ pc[p] = "finish" /\ lock = p
  /\ IF InventoryOK /\ mine[p] \in Unresolved
     THEN Goto(p, "settle")
     ELSE Goto(p, "done")
  /\ UNCHANGED <<attempt, result, lock, clock, owner, mine, at, sends>>

(* Variant: the time of the settlement as the clock shows it.              *)
FinishTimeNow(p) == clock

(* The clock may have been set back since the reservation.                 *)
FinishTime(p) == Max({clock, attempt[mine[p]].startedAt})

(* Variant: a failed provider request does not count.                      *)
WriteResultRefunds(p) ==
  /\ pc[p] = "settle"
  /\ \/ result' = [result EXCEPT ![mine[p]] = [finishedAt |-> FinishTime(p)]] /\ UNCHANGED attempt
     \/ attempt' = [attempt EXCEPT ![mine[p]] = Nil] /\ UNCHANGED result
  /\ Goto(p, "done")
  /\ UNCHANGED <<lock, clock, owner, mine, at, sends>>

WriteResult(p) ==
  /\ pc[p] = "settle"
  /\ \E content \in {[finishedAt |-> FinishTime(p)], Torn} :
       result' = [result EXCEPT ![mine[p]] = content]
  /\ Goto(p, "done")
  /\ UNCHANGED <<attempt, lock, clock, owner, mine, at, sends>>

(* The process dies and is started again.  Its lock directory stays.       *)
Crash(p) ==
  /\ pc[p] # "idle"
  /\ End(p)
  /\ lock' = IF lock = p THEN "abandoned" ELSE lock
  /\ UNCHANGED <<attempt, result, clock, sends>>

SetClock ==
  /\ clock' \in Times
  /\ UNCHANGED <<attempt, result, lock, pc, owner, mine, at, sends>>

Step(p) ==
  \/ Acquire(p) \/ LockTimeout(p) \/ Decide(p) \/ WriteAttempt(p) \/ Release(p)
  \/ ReleaseFails(p) \/ Fault(p) \/ Send(p) \/ Return(p) \/ CheckOwn(p) \/ WriteResult(p)

Next ==
  \/ \E p \in Procs, o \in Owners : Request(p, o)
  \/ \E p \in Procs : Step(p) \/ Crash(p)
  \/ SetClock

Spec == Init /\ [][Next]_vars

-----------------------------------------------------------------------------
(* Properties.                                                             *)

(* The allowance is finite for the lifetime of the ledger, and every       *)
(* provider request has an attempt file of its own, written before it was  *)
(* sent: no failure, crash, restart or clock change refunds one.           *)
WithinAllowance ==
  /\ \A id \in Ids : sends[id] <= 1 /\ (sends[id] = 1 => attempt[id] \in Claims)
  /\ Cardinality({id \in Ids : sends[id] > 0}) <= Attempts

(* One attempt in flight across all processes, although the lock is not    *)
(* held while the provider works.                                          *)
OneInFlight == \A p, q \in Procs : pc[p] = "sent" /\ pc[q] = "sent" => p = q

(* What OneInFlight rests on.  A process holds the attempt it reserved     *)
(* until it has settled it; there is never more than one unresolved        *)
(* attempt, and none when a new one is about to be written.  Results have  *)
(* attempts.                                                               *)
Holds(p) == pc[p] \in {"admitted", "send", "sent", "finish", "settle"}
ExclusionInv ==
  /\ \A p \in Procs : pc[p] \in Locked => lock = p
  /\ \A p \in Procs : pc[p] = "write" => Unresolved = {}
  /\ \A p \in Procs : Holds(p) => mine[p] \in Unresolved /\ attempt[mine[p]] \in Claims
  /\ \A p, q \in Procs : Holds(p) /\ Holds(q) /\ mine[p] = mine[q] => p = q
  /\ \A i, j \in Unresolved : i = j
  /\ \A id \in Ids : result[id] # Nil => attempt[id] \in Claims

(* No rolling minute holds more than globalPerMinute attempts and no       *)
(* rolling hour more than visitorPerHour of one visitor, wherever the      *)
(* window ends and however the clock was set in between.                   *)
WindowsRespected ==
  \A t \in Times :
    /\ Cardinality(InMinute(t)) <= GlobalPerMinute
    /\ \A o \in Owners : Cardinality(InHour(t, o)) <= VisitorPerHour

(* What the bounds rest on: a process about to write an attempt has counted*)
(* under the lock it still holds, at a time no earlier than any attempt.   *)
Counted(p) ==
  /\ Cardinality(Claimed) < Attempts
  /\ \A id \in Claimed : attempt[id] \in Claims /\ attempt[id].startedAt <= at[p]
  /\ ~Limited(owner[p], at[p])
BoundsInv ==
  /\ Cardinality(Claimed) <= Attempts
  /\ WindowsRespected
  /\ \A p \in Procs : pc[p] = "write" => Counted(p)
  /\ \A id \in Ids : sends[id] \in {0, 1} /\ (sends[id] = 1 => attempt[id] \in Claims)
  /\ \A p \in Procs : pc[p] \in {"admitted", "send"} => sends[mine[p]] = 0
  /\ \A id \in Ids : result[id] \in Outcomes => result[id].finishedAt >= attempt[id].startedAt

(* Only an interrupted write can make the ledger unusable; the program's   *)
(* own records never fail its own inventory, even if the clock went back   *)
(* between a reservation and its settlement.                               *)
HealthyUnlessTorn ==
  (\A id \in Ids : attempt[id] # Torn /\ result[id] # Torn) => InventoryOK

(* An attempt that no process will settle any more, because it crashed or  *)
(* could not get the lock, blocks every paid call from then on: it is      *)
(* neither expired nor taken as free.                                      *)
Orphaned == \E id \in Unresolved : \A p \in Procs : mine[p] # id
OrphanBlocks == [][Orphaned => Orphaned' /\ sends' = sends]_vars
=============================================================================
