---------------------------- MODULE QuestionLedger ---------------------------
(***************************************************************************)
(* The question ledger of a browser: the runs the service returned and the *)
(* reviews of their answers, one storage key, written whole under a Web    *)
(* Lock.  A run is bound to the research version it was asked about, and   *)
(* may be reviewed only while that version is the active one.  The version *)
(* store has a lock of its own, and a review awaits hashes between the     *)
(* reads and the write, so that versions move meanwhile.                   *)
(***************************************************************************)
EXTENDS VersionStore

CONSTANTS
  Runs,        \* run identifiers
  MaxReviews   \* bound: reviews recorded

ASSUME ReviewAssumption == MaxReviews \in Nat /\ Nil \notin Runs

VARIABLES
  runs,      \* the runs of the ledger: [id, version] records, oldest first
  reviews,   \* its reviews: [run, version] records, oldest first
  qlock,     \* the Web Lock of the ledger
  busy,      \* busy[t]: how far the append in tab t is
  read,      \* read[t]: what it has read, and what it is to append
  asked      \* asked[r]: the version run r was asked about, once it was asked

ledgerVars == <<runs, reviews, qlock, busy, read, asked>>
vars == <<versionVars, ledgerVars>>

Run == [id : Runs, version : Ids]
Idle == [runs |-> <<>>, reviews |-> <<>>, run |-> Nil, current |-> Nil]

TypeOK ==
  /\ VersionTypeOK
  /\ runs \in Seq(Run)
  /\ reviews \in Seq(Run)
  /\ qlock \in Tabs \cup {"free"}
  /\ busy \in [Tabs -> {"idle", "run", "review", "checked"}]
  /\ read \in [Tabs -> [runs : Seq(Run), reviews : Seq(Run), run : Run \cup {Nil},
                        current : Ids \cup {Nil}]]
  /\ asked \in [Runs -> Ids \cup {Nil}]
  /\ \A t \in Tabs : busy[t] # "idle" => read[t].run \in Run

Init ==
  /\ VersionInit
  /\ runs = <<>> /\ reviews = <<>>
  /\ qlock = "free"
  /\ busy = [t \in Tabs |-> "idle"]
  /\ read = [t \in Tabs |-> Idle]
  /\ asked = [r \in Runs |-> Nil]

-----------------------------------------------------------------------------

Recorded(list, id) == \E i \in DOMAIN list : list[i].id = id

(* The service answered a question about the version that was active.  Any *)
(* tab that waits for the answer, or recovers it, receives the same run.   *)
AskAbout(r) ==
  /\ asked[r] = Nil /\ ActiveVersion("research") \in SavedIds("research")
  /\ asked' = [asked EXCEPT ![r] = ActiveVersion("research")]
  /\ UNCHANGED <<versionVars, runs, reviews, qlock, busy, read>>

(* Variant: two tabs may be in the ledger at the same time.                *)
EnterUnlocked(t, r, what) ==
  /\ busy[t] = "idle"
  /\ qlock' = t
  /\ busy' = [busy EXCEPT ![t] = what]
  /\ read' = [read EXCEPT ![t] = [runs |-> runs, reviews |-> reviews, current |-> Nil,
                                  run |-> [id |-> r, version |-> asked[r]]]]
  /\ UNCHANGED <<versionVars, runs, reviews, asked>>

(* Obtain the lock and read the ledger, to append something about run r.   *)
Enter(t, r, what) ==
  /\ busy[t] = "idle" /\ qlock = "free"
  /\ qlock' = t
  /\ busy' = [busy EXCEPT ![t] = what]
  /\ read' = [read EXCEPT ![t] = [runs |-> runs, reviews |-> reviews, current |-> Nil,
                                  run |-> [id |-> r, version |-> asked[r]]]]
  /\ UNCHANGED <<versionVars, runs, reviews, asked>>

(* Leave the ledger, with or without a write.                              *)
Done(t) ==
  /\ busy' = [busy EXCEPT ![t] = "idle"]
  /\ read' = [read EXCEPT ![t] = Idle]
  /\ qlock' = IF qlock = t THEN "free" ELSE qlock

(* The run passes validateQuestionRun, which binds it to its own question. *)
ReceiveRun(t, r) == asked[r] # Nil /\ Enter(t, r, "run")

(* Only a recorded run can be reviewed.                                    *)
BeginReview(t, r) ==
  /\ Recorded(runs, r) /\ Len(reviews) < MaxReviews
  /\ Enter(t, r, "review")

(* Variant: a run that arrives again is recorded again.                    *)
AppendAgain(t) ==
  /\ busy[t] = "run"
  /\ runs' = Append(read[t].runs, read[t].run)
  /\ reviews' = read[t].reviews
  /\ Done(t)
  /\ UNCHANGED <<versionVars, asked>>

(* appendQuestionRun: the same run again changes nothing.                  *)
AppendQuestionRun(t) ==
  /\ busy[t] = "run"
  /\ IF Recorded(read[t].runs, read[t].run.id)
     THEN UNCHANGED <<runs, reviews>>
     ELSE /\ runs' = Append(read[t].runs, read[t].run)
          /\ reviews' = read[t].reviews
  /\ Done(t)
  /\ UNCHANGED <<versionVars, asked>>

(* After validating the run, which awaits, read the version that is active *)
(* now; then await its hash.                                               *)
ReadActive(t) ==
  /\ busy[t] = "review"
  /\ busy' = [busy EXCEPT ![t] = "checked"]
  /\ read' = [read EXCEPT ![t].current = ActiveVersion("research")]
  /\ UNCHANGED <<versionVars, runs, reviews, qlock, asked>>

(* appendQuestionReview: the review is refused if another version was      *)
(* active when it was read, or only the built-in one; otherwise the whole  *)
(* ledger is written as it was read, with the review appended.             *)
AppendQuestionReview(t) ==
  /\ busy[t] = "checked"
  /\ IF read[t].current \in SavedIds("research") /\ read[t].current = read[t].run.version
     THEN /\ runs' = read[t].runs
          /\ reviews' = Append(read[t].reviews, read[t].run)
     ELSE UNCHANGED <<runs, reviews>>
  /\ Done(t)
  /\ UNCHANGED <<versionVars, asked>>

(* A check fails, storage is full, or the tab is closed.                   *)
Abandon(t) ==
  /\ busy[t] # "idle"
  /\ Done(t)
  /\ UNCHANGED <<versionVars, runs, reviews, asked>>

LedgerStep(t) ==
  \/ \E r \in Runs : ReceiveRun(t, r) \/ BeginReview(t, r)
  \/ AppendQuestionRun(t) \/ ReadActive(t) \/ AppendQuestionReview(t) \/ Abandon(t)

Next ==
  \/ \E r \in Runs : AskAbout(r)
  \/ \E t \in Tabs : LedgerStep(t)
  \/ VersionNext /\ UNCHANGED ledgerVars

Spec == Init /\ [][Next]_vars

-----------------------------------------------------------------------------
(* Properties.                                                             *)

StartsWith(long, short) ==
  Len(short) <= Len(long) /\ \A i \in DOMAIN short : long[i] = short[i]

(* Every writer replaces the whole ledger with what it read plus one entry,*)
(* some of them after several awaits: no run and no review of another tab  *)
(* is lost or reordered by it.                                             *)
NothingLost == [][StartsWith(runs', runs) /\ StartsWith(reviews', reviews)]_ledgerVars

(* A run that several tabs receive, each recovering the same operation, is *)
(* recorded once; and every review is of a recorded run.                   *)
RecordedOnce ==
  /\ \A i, j \in DOMAIN runs : runs[i].id = runs[j].id => i = j
  /\ \A i \in DOMAIN reviews : \E j \in DOMAIN runs : runs[j] = reviews[i]
-----------------------------------------------------------------------------
(* What the proofs of these properties need: a stronger invariant.         *)

(* A tab inside the ledger is alone there, and what it read still stands.  *)
InsideInv(t) ==
  busy[t] # "idle" =>
    /\ qlock = t
    /\ read[t].runs = runs /\ read[t].reviews = reviews
    /\ asked[read[t].run.id] = read[t].run.version
    /\ busy[t] # "run" => \E j \in DOMAIN runs : runs[j] = read[t].run

(* A run is bound to the version it was asked about.                       *)
RunsBound == \A i \in DOMAIN runs : asked[runs[i].id] = runs[i].version

LedgerInv ==
  /\ TypeOK
  /\ \A t \in Tabs : InsideInv(t)
  /\ RunsBound /\ RecordedOnce
=============================================================================
