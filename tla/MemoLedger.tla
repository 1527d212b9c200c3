------------------------------ MODULE MemoLedger ------------------------------
(***************************************************************************)
(* The ledger of memo runs of one saved version, and the panel that asks   *)
(* for runs and reviews them.                                              *)
(*                                                                         *)
(* A run is paid for before it is recorded.  The panel puts the answer on  *)
(* the screen, checks it against the stored version, waits for the Web Lock*)
(* of the ledger and appends it; when that fails the user is told to export*)
(* it from the screen.  A review reads the ledger under the lock, awaits a *)
(* hash, and writes back the whole ledger it read.                         *)
(***************************************************************************)
EXTENDS Integers, Sequences, SequencesExt

CONSTANTS
  Tabs,
  Runs,            \* runs the server may answer with
  MaxRunReviews,   \* bound: reviews of runs
  MaxAlterations   \* bound: changes that do not come from this panel

ASSUME MemoLedgerAssumption ==
  /\ MaxRunReviews \in Nat /\ MaxAlterations \in Nat
  /\ "free" \notin Tabs /\ "none" \notin Runs

VARIABLES
  runs,        \* the ledger: recorded runs, oldest first,
  runReviews,  \*   and the reviewed ones
  outcome,     \* outcome[r]: "none" until the server answers with run r, then
               \*   "completed", or "failed" when it has no memo
  standing,    \* standing[r]: run r and its version are as they were stored
  altered,     \* how often the keys changed from elsewhere: their bytes
  runLock,     \* the Web Lock of the ledger
  panel,       \* panel[t]: the runs on the screen of tab t
  call,        \* call[t]: where generate() is, and with which run
  judging,     \* judging[t]: the review in progress and the ledger it read
  told         \* told[t]: runs whose user was told that saving failed, or who
               \*   had closed the page by then (history)

memoVars == <<runs, runReviews, outcome, standing, altered, runLock,
              panel, call, judging, told>>

Idle == [stage |-> "idle", run |-> "none"]
NoJudgement == [run |-> "none", copy |-> <<>>]
RunsOrNone == Runs \cup {"none"}

MemoInit ==
  /\ runs = <<>> /\ runReviews = <<>>
  /\ outcome = [r \in Runs |-> "none"] /\ standing = [r \in Runs |-> TRUE]
  /\ altered = 0 /\ runLock = "free"
  /\ panel = [t \in Tabs |-> {}] /\ told = [t \in Tabs |-> {}]
  /\ call = [t \in Tabs |-> Idle]
  /\ judging = [t \in Tabs |-> NoJudgement]

MemoTypeOK ==
  /\ runs \in Seq(Runs) /\ runReviews \in Seq(Runs)
  /\ outcome \in [Runs -> {"none", "completed", "failed"}]
  /\ standing \in [Runs -> BOOLEAN]
  /\ altered \in 0..MaxAlterations
  /\ runLock \in Tabs \cup {"free"}
  /\ panel \in [Tabs -> SUBSET Runs] /\ told \in [Tabs -> SUBSET Runs]
  /\ call \in [Tabs -> [stage : {"idle", "asking", "checking", "waiting"}, run : RunsOrNone]]
  /\ judging \in [Tabs -> [run : RunsOrNone, copy : Seq(Runs)]]

Recorded(r) == r \in ToSet(runs)

(* boundRun: a run that a review or a revision may refer to.               *)
Intact(r) == Recorded(r) /\ outcome[r] = "completed" /\ standing[r]

-----------------------------------------------------------------------------
(* generate()                                                              *)

Generate(t) ==
  /\ call[t] = Idle /\ \E r \in Runs : outcome[r] = "none"
  /\ call' = [call EXCEPT ![t].stage = "asking"]
  /\ UNCHANGED <<runs, runReviews, outcome, standing, altered, runLock, panel, judging, told>>

(* The answer is on the screen before anything is saved.                   *)
Answered(t, r) ==
  /\ call[t].stage = "asking" /\ outcome[r] = "none"
  /\ \E o \in {"completed", "failed"} : outcome' = [outcome EXCEPT ![r] = o]
  /\ panel' = [panel EXCEPT ![t] = @ \cup {r}]
  /\ call' = [call EXCEPT ![t] = [stage |-> "checking", run |-> r]]
  /\ UNCHANGED <<runs, runReviews, standing, altered, runLock, judging, told>>

(* The request fails, or the panel is left and aborts it.                  *)
NoAnswer(t) ==
  /\ call[t].stage = "asking"
  /\ call' = [call EXCEPT ![t] = Idle]
  /\ UNCHANGED <<runs, runReviews, outcome, standing, altered, runLock, panel, judging, told>>

Unsaved(t) ==
  /\ told' = [told EXCEPT ![t] = @ \cup {call[t].run}]
  /\ call' = [call EXCEPT ![t] = Idle]

(* appendMemoRun, up to the lock: the version is looked at only here.      *)
CheckRun(t) ==
  /\ call[t].stage = "checking"
  /\ IF standing[call[t].run] THEN call' = [call EXCEPT ![t].stage = "waiting"] /\ UNCHANGED told
     ELSE Unsaved(t)
  /\ UNCHANGED <<runs, runReviews, outcome, standing, altered, runLock, panel, judging>>

(* Under the lock, read and write without an await; the event it sends     *)
(* makes the panel of this tab read the ledger again.                      *)
AppendMemoRun(t) ==
  /\ call[t].stage = "waiting" /\ runLock = "free"
  /\ runs' = Append(runs, call[t].run)
  /\ panel' = [panel EXCEPT ![t] = ToSet(runs')]
  /\ call' = [call EXCEPT ![t] = Idle]
  /\ UNCHANGED <<runReviews, outcome, standing, altered, runLock, judging, told>>

StorageFull(t) ==
  /\ call[t].stage = "waiting" /\ runLock = "free"
  /\ Unsaved(t)
  /\ UNCHANGED <<runs, runReviews, outcome, standing, altered, runLock, panel, judging>>

(* sync(): the ledger replaces what is on the screen.  It runs at the event*)
(* of an append in this tab, and at every storage event, which any write of*)
(* any other tab to any key sends.                                         *)
Refresh(t) ==
  /\ Tabs # {t}
  /\ panel' = [panel EXCEPT ![t] = ToSet(runs)]
  /\ UNCHANGED <<runs, runReviews, outcome, standing, altered, runLock, call, judging, told>>

-----------------------------------------------------------------------------
(* appendMemoReview()                                                      *)

(* Variant: the lock is taken only for the write.                          *)
ReviewUnlocked(t, r) ==
  /\ judging[t] = NoJudgement
  /\ r \in panel[t] /\ Intact(r) /\ Len(runReviews) < MaxRunReviews
  /\ judging' = [judging EXCEPT ![t] = [run |-> r, copy |-> runs]]
  /\ UNCHANGED <<runs, runReviews, outcome, standing, altered, runLock, panel, call, told>>

ReviewMemo(t, r) ==
  /\ judging[t] = NoJudgement /\ runLock = "free"
  /\ r \in panel[t] /\ Intact(r) /\ Len(runReviews) < MaxRunReviews
  /\ runLock' = t
  /\ judging' = [judging EXCEPT ![t] = [run |-> r, copy |-> runs]]
  /\ UNCHANGED <<runs, runReviews, outcome, standing, altered, panel, call, told>>

(* After the hash: written, or refused because the version has changed or  *)
(* storage is full.                                                        *)
EndReview(t) ==
  /\ judging[t] # NoJudgement
  /\ \/ /\ runs' = judging[t].copy /\ runReviews' = Append(runReviews, judging[t].run)
        /\ panel' = [panel EXCEPT ![t] = ToSet(runs')]
     \/ UNCHANGED <<runs, runReviews, panel>>
  /\ judging' = [judging EXCEPT ![t] = NoJudgement]
  /\ runLock' = "free"
  /\ UNCHANGED <<outcome, standing, altered, call, told>>

-----------------------------------------------------------------------------
(* The tab is closed or loaded again: its functions end where they are.    *)
CloseMemo(t) ==
  /\ panel' = [panel EXCEPT ![t] = ToSet(runs)]
  /\ told' = [told EXCEPT ![t] = @ \cup ({call[t].run} \cap Runs)]
  /\ call' = [call EXCEPT ![t] = Idle]
  /\ judging' = [judging EXCEPT ![t] = NoJudgement]
  /\ runLock' = IF runLock = t THEN "free" ELSE runLock
  /\ UNCHANGED <<runs, runReviews, outcome, standing, altered>>

(* A version is saved, which leaves all there were as they are; or         *)
(* something outside the application alters a run or its version.          *)
Alter(damaged) ==
  /\ altered < MaxAlterations
  /\ altered' = altered + 1
  /\ standing' = [r \in Runs |-> standing[r] /\ r \notin damaged]
  /\ UNCHANGED <<runs, runReviews, outcome, runLock, panel, call, judging, told>>

MemoNext ==
  \/ \E damaged \in {{}} \cup {{r} : r \in Runs} : Alter(damaged)
  \/ \E t \in Tabs :
       \/ Generate(t) \/ NoAnswer(t) \/ CheckRun(t) \/ AppendMemoRun(t) \/ StorageFull(t)
       \/ \E r \in Runs : Answered(t, r) \/ ReviewMemo(t, r)
       \/ EndReview(t) \/ Refresh(t)

MemoSpec == MemoInit /\ [][MemoNext \/ \E t \in Tabs : CloseMemo(t)]_memoVars

-----------------------------------------------------------------------------
(* Properties.                                                             *)

(* What was paid for is not lost silently: a run the server has answered   *)
(* with is in the ledger, on its way there, or its user knows that it is   *)
(* not, whatever other tabs append and review in the meantime.             *)
ReturnedIsKept ==
  \A r \in Runs : outcome[r] # "none" =>
    Recorded(r) \/ \E t \in Tabs : call[t].run = r \/ r \in told[t]

(* "Keep the returned audit/result exportable when storage quota is        *)
(* exhausted" (memo-panel.tsx): the run of a failed save stays on the      *)
(* screen of its tab until that page is closed.                            *)
UnsavedStaysExportable ==
  [][\A t \in Tabs, r \in Runs :
       r \in told[t] /\ r \in panel[t] /\ ~Recorded(r) =>
         r \in panel'[t] \/ CloseMemo(t)]_memoVars
=============================================================================
