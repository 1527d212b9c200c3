------------------------ MODULE MemoRevisions_proofs -------------------------
(***************************************************************************)
(* Theorems about the memo ledger and the revisions of memos, for any      *)
(* number of tabs, runs, texts, revisions, reviews and changes from        *)
(* elsewhere.                                                              *)
(***************************************************************************)
EXTENDS MemoRevisions, FiniteSetTheorems, WellFoundedInduction, TLAPS

-----------------------------------------------------------------------------
(* What was paid for is kept.                                              *)

(* A call knows its run from the answer on, and a review in progress holds *)
(* the lock, so that the ledger it is going to write back is the present   *)
(* one: no run that another tab appends is lost with it.                   *)
CallInv ==
  \A t \in Tabs : IF call[t].stage \in {"idle", "asking"} THEN call[t].run = "none"
                  ELSE call[t].run \in Runs

JudgingInv ==
  \A t \in Tabs : judging[t] # NoJudgement =>
    runLock = t /\ judging[t].copy = runs /\ judging[t].run \in Runs

MemoInv == MemoTypeOK /\ CallInv /\ JudgingInv /\ ReturnedIsKept

LEMMA AppendedRun ==
  ASSUME NEW S, NEW s \in Seq(S), NEW e \in S
  PROVE  /\ Append(s, e) \in Seq(S)
         /\ e \in ToSet(Append(s, e))
         /\ ToSet(s) \subseteq ToSet(Append(s, e))
         /\ ToSet(Append(s, e)) \subseteq S
  BY DEF ToSet

LEMMA MemoInit1 == MemoInit => MemoInv
  <1> SUFFICES ASSUME MemoInit PROVE MemoInv
    OBVIOUS
  <1>1. MemoTypeOK
    BY MemoLedgerAssumption DEF MemoInit, MemoTypeOK, Idle, NoJudgement, RunsOrNone
  <1>2. CallInv /\ JudgingInv /\ ReturnedIsKept
    BY DEF MemoInit, CallInv, JudgingInv, ReturnedIsKept, Idle
  <1> QED
    BY <1>1, <1>2 DEF MemoInv

(* A step that leaves the ledger, the answers and the reviews in progress  *)
(* alone, and moves the call of one tab without forgetting a run.          *)
LEMMA CallMoved ==
  ASSUME MemoInv, NEW t \in Tabs,
         UNCHANGED <<runs, outcome, runLock, judging>>,
         NEW c \in [stage : {"idle", "asking", "checking", "waiting"}, run : RunsOrNone],
         call' = [call EXCEPT ![t] = c],
         IF c.stage \in {"idle", "asking"} THEN c.run = "none" ELSE c.run \in Runs,
         \A s \in Tabs : told[s] \subseteq told'[s],
         call[t].run \in Runs => c.run = call[t].run \/ call[t].run \in told'[t]
  PROVE  CallInv' /\ JudgingInv' /\ ReturnedIsKept'
  <1> USE DEF MemoInv, MemoTypeOK
  <1>1. CallInv' /\ JudgingInv'
    BY DEF CallInv, JudgingInv
  <1>2. ASSUME NEW r \in Runs, outcome[r] # "none"
        PROVE  Recorded(r) \/ \E s \in Tabs : call'[s].run = r \/ r \in told'[s]
    <2>1. CASE \E s \in Tabs : call[s].run = r
      <3>1. PICK s \in Tabs : call[s].run = r
        BY <2>1
      <3> QED
        BY <3>1
    <2>2. CASE ~\E s \in Tabs : call[s].run = r
      BY <1>2, <2>2 DEF ReturnedIsKept
    <2> QED
      BY <2>1, <2>2
  <1> QED
    BY <1>1, <1>2 DEF ReturnedIsKept, Recorded

LEMMA IdleTyped ==
  Idle \in [stage : {"idle", "asking", "checking", "waiting"}, run : RunsOrNone]
    /\ Idle.stage = "idle" /\ Idle.run = "none"
  BY DEF Idle, RunsOrNone

LEMMA CallFields ==
  ASSUME MemoInv, NEW t \in Tabs
  PROVE  /\ call[t] \in [stage : {"idle", "asking", "checking", "waiting"}, run : RunsOrNone]
         /\ call[t].stage \in {"idle", "asking", "checking", "waiting"}
         /\ call[t].stage \in {"checking", "waiting"} => call[t].run \in Runs
         /\ call[t].stage \in {"idle", "asking"} => call[t].run = "none"
  BY DEF MemoInv, MemoTypeOK, CallInv

LEMMA GenerateStep ==
  ASSUME MemoInv, NEW t \in Tabs, Generate(t) \/ NoAnswer(t) \/ CheckRun(t) \/ StorageFull(t)
  PROVE  MemoInv'
  <1> USE MemoLedgerAssumption
  <1>0. call[t] \in [stage : {"idle", "asking", "checking", "waiting"}, run : RunsOrNone]
    BY CallFields
  <1>1. UNCHANGED <<runs, runReviews, outcome, standing, altered, runLock, panel, judging>>
    BY DEF Generate, NoAnswer, CheckRun, StorageFull
  <1>2. told' \in [Tabs -> SUBSET Runs] /\ \A s \in Tabs : told[s] \subseteq told'[s]
    <2>1. told \in [Tabs -> SUBSET Runs]
      BY DEF MemoInv, MemoTypeOK
    <2>2. CASE told' = told
      BY <2>1, <2>2
    <2>3. CASE told' # told
      <3>1. told' = [told EXCEPT ![t] = @ \cup {call[t].run}]
              /\ call[t].stage \in {"checking", "waiting"}
        BY <2>3 DEF Generate, NoAnswer, CheckRun, StorageFull, Unsaved
      <3>2. call[t].run \in Runs
        BY <3>1, CallFields
      <3> QED
        BY <2>1, <3>1, <3>2
    <2> QED
      BY <2>2, <2>3
  <1>3. PICK c \in [stage : {"idle", "asking", "checking", "waiting"}, run : RunsOrNone] :
           /\ call' = [call EXCEPT ![t] = c]
           /\ IF c.stage \in {"idle", "asking"} THEN c.run = "none" ELSE c.run \in Runs
           /\ call[t].run \in Runs => c.run = call[t].run \/ call[t].run \in told'[t]
    <2>1. CASE Generate(t)
      <3>1. PICK c : c = [call[t] EXCEPT !.stage = "asking"]
        OBVIOUS
      <3>2. c \in [stage : {"idle", "asking", "checking", "waiting"}, run : RunsOrNone]
              /\ c.stage = "asking" /\ c.run = call[t].run
        BY <1>0, <3>1
      <3>3. c.run = "none"
        BY <2>1, <3>2, IdleTyped DEF Generate
      <3>4. call' = [call EXCEPT ![t] = c]
        BY <2>1, <3>1 DEF Generate
      <3> QED
        BY <3>2, <3>3, <3>4
    <2>2. CASE NoAnswer(t)
      BY <2>2, IdleTyped, CallFields DEF NoAnswer
    <2>3. CASE CheckRun(t) /\ standing[call[t].run]
      <3>1. PICK c : c = [call[t] EXCEPT !.stage = "waiting"]
        OBVIOUS
      <3>2. c \in [stage : {"idle", "asking", "checking", "waiting"}, run : RunsOrNone]
              /\ c.stage = "waiting" /\ c.run = call[t].run
        BY <1>0, <3>1
      <3>3. call' = [call EXCEPT ![t] = c]
        BY <2>3, <3>1 DEF CheckRun
      <3> QED
        BY <2>3, <3>2, <3>3, CallFields DEF CheckRun
    <2>4. CASE (CheckRun(t) /\ ~standing[call[t].run]) \/ StorageFull(t)
      <3>1. Unsaved(t)
        BY <2>4 DEF CheckRun, StorageFull
      <3>2. call' = [call EXCEPT ![t] = Idle] /\ call[t].run \in told'[t]
        BY <3>1 DEF Unsaved, MemoInv, MemoTypeOK
      <3> QED
        BY <3>2, IdleTyped
    <2> QED
      BY <2>1, <2>2, <2>3, <2>4
  <1>4. CallInv' /\ JudgingInv' /\ ReturnedIsKept'
    BY <1>1, <1>2, <1>3, CallMoved
  <1>5. MemoTypeOK'
    BY <1>1, <1>2, <1>3 DEF MemoInv, MemoTypeOK
  <1> QED
    BY <1>4, <1>5 DEF MemoInv

LEMMA AnsweredStep ==
  ASSUME MemoInv, NEW t \in Tabs, NEW r \in Runs, Answered(t, r)
  PROVE  MemoInv'
  <1> USE MemoLedgerAssumption DEF MemoInv, MemoTypeOK
  <1>1. PICK o \in {"completed", "failed"} : outcome' = [outcome EXCEPT ![r] = o]
    BY DEF Answered
  <1>2. PICK c : c = [stage |-> "checking", run |-> r]
    OBVIOUS
  <1>3. c \in [stage : {"idle", "asking", "checking", "waiting"}, run : RunsOrNone]
          /\ c.stage = "checking" /\ c.run = r
    BY <1>2 DEF RunsOrNone
  <1>4. call' = [call EXCEPT ![t] = c]
    BY <1>2 DEF Answered
  <1>5. UNCHANGED <<runs, runReviews, standing, altered, runLock, judging, told>>
          /\ panel' \in [Tabs -> SUBSET Runs]
    BY DEF Answered
  <1>6. CallInv' /\ JudgingInv'
    BY <1>3, <1>4, <1>5 DEF CallInv, JudgingInv
  <1>7. call[t].run \notin Runs
    BY CallFields DEF Answered
  <1>8. ASSUME NEW q \in Runs, outcome'[q] # "none"
        PROVE  Recorded(q) \/ \E s \in Tabs : call'[s].run = q \/ q \in told[s]
    <2>1. CASE q = r
      BY <1>3, <1>4, <2>1
    <2>2. CASE q # r
      <3>1. outcome[q] # "none"
        BY <1>1, <1>8, <2>2
      <3>2. \A s \in Tabs : call[s].run = q => call'[s].run = q
        BY <1>4, <1>7
      <3> QED
        BY <3>1, <3>2 DEF ReturnedIsKept
    <2> QED
      BY <2>1, <2>2
  <1>9. ReturnedIsKept'
    BY <1>5, <1>8 DEF ReturnedIsKept, Recorded
  <1>10. MemoTypeOK'
    BY <1>1, <1>3, <1>4, <1>5
  <1> QED
    BY <1>6, <1>9, <1>10

LEMMA AppendStep ==
  ASSUME MemoInv, NEW t \in Tabs, AppendMemoRun(t)
  PROVE  MemoInv'
  <1> USE MemoLedgerAssumption DEF MemoInv, MemoTypeOK
  <1>1. call[t].run \in Runs /\ runLock = "free"
    BY CallFields DEF AppendMemoRun
  <1>2. /\ runs' = Append(runs, call[t].run)
        /\ panel' = [panel EXCEPT ![t] = ToSet(runs')]
        /\ call' = [call EXCEPT ![t] = Idle]
        /\ UNCHANGED <<runReviews, outcome, standing, altered, runLock, judging, told>>
    BY DEF AppendMemoRun
  <1>3. /\ runs' \in Seq(Runs) /\ call[t].run \in ToSet(runs')
        /\ ToSet(runs) \subseteq ToSet(runs') /\ ToSet(runs') \subseteq Runs
    BY <1>1, <1>2, AppendedRun
  <1>4. CallInv' /\ JudgingInv'
    BY <1>1, <1>2, IdleTyped DEF CallInv, JudgingInv
  <1>5. ASSUME NEW r \in Runs, outcome[r] # "none"
        PROVE  r \in ToSet(runs') \/ \E s \in Tabs : call'[s].run = r \/ r \in told[s]
    BY <1>2, <1>3, <1>5 DEF ReturnedIsKept, Recorded
  <1>6. ReturnedIsKept'
    BY <1>2, <1>5 DEF ReturnedIsKept, Recorded
  <1>7. MemoTypeOK'
    BY <1>2, <1>3, IdleTyped
  <1> QED
    BY <1>4, <1>6, <1>7

(* A review takes the lock with the ledger it has just read.               *)
LEMMA ReviewStep ==
  ASSUME MemoInv, NEW t \in Tabs, NEW r \in Runs, ReviewMemo(t, r)
  PROVE  MemoInv'
  <1> USE MemoLedgerAssumption DEF MemoInv, MemoTypeOK
  <1>1. PICK j : j = [run |-> r, copy |-> runs]
    OBVIOUS
  <1>2. j \in [run : RunsOrNone, copy : Seq(Runs)] /\ j.copy = runs /\ j.run = r
    BY <1>1 DEF RunsOrNone
  <1>3. /\ runLock = "free" /\ runLock' = t
        /\ judging' = [judging EXCEPT ![t] = j]
        /\ UNCHANGED <<runs, runReviews, outcome, standing, altered, panel, call, told>>
    BY <1>1 DEF ReviewMemo
  <1>4. CallInv' /\ ReturnedIsKept'
    BY <1>3 DEF CallInv, ReturnedIsKept, Recorded
  <1>5. JudgingInv'
    BY <1>2, <1>3 DEF JudgingInv
  <1>6. MemoTypeOK'
    BY <1>2, <1>3
  <1> QED
    BY <1>4, <1>5, <1>6

LEMMA NothingJudged ==
  NoJudgement \in [run : RunsOrNone, copy : Seq(Runs)]
  BY DEF NoJudgement, RunsOrNone

(* What a review writes back is the ledger as it still is.                 *)
LEMMA EndReviewStep ==
  ASSUME MemoInv, NEW t \in Tabs, EndReview(t)
  PROVE  MemoInv' /\ runs' = runs
  <1> USE MemoLedgerAssumption DEF MemoInv, MemoTypeOK
  <1>1. runLock = t /\ judging[t].copy = runs
    BY DEF EndReview, JudgingInv
  <1>2. /\ runs' = runs /\ runLock' = "free"
        /\ judging' = [judging EXCEPT ![t] = NoJudgement]
        /\ UNCHANGED <<outcome, standing, altered, call, told>>
    BY <1>1 DEF EndReview
  <1>3. ToSet(runs) \subseteq Runs
    BY DEF ToSet
  <1>4. panel' \in [Tabs -> SUBSET Runs]
    BY <1>2, <1>3 DEF EndReview
  <1>5. runReviews' \in Seq(Runs)
    <2>1. CASE runReviews' = runReviews
      BY <2>1
    <2>2. CASE runReviews' # runReviews
      <3>1. runReviews' = Append(runReviews, judging[t].run)
        BY <2>2 DEF EndReview
      <3>2. judging[t].run \in Runs
        BY DEF EndReview, JudgingInv
      <3> QED
        BY <3>1, <3>2
    <2> QED
      BY <2>1, <2>2
  <1>6. CallInv' /\ ReturnedIsKept'
    BY <1>2 DEF CallInv, ReturnedIsKept, Recorded
  <1>7. JudgingInv'
    BY <1>1, <1>2 DEF JudgingInv
  <1>8. MemoTypeOK'
    BY <1>2, <1>4, <1>5, NothingJudged
  <1> QED
    BY <1>2, <1>6, <1>7, <1>8

LEMMA CloseStep ==
  ASSUME MemoInv, NEW t \in Tabs, CloseMemo(t)
  PROVE  MemoInv'
  <1> USE MemoLedgerAssumption DEF MemoInv, MemoTypeOK
  <1>1. /\ call' = [call EXCEPT ![t] = Idle]
        /\ told' = [told EXCEPT ![t] = @ \cup ({call[t].run} \cap Runs)]
        /\ judging' = [judging EXCEPT ![t] = NoJudgement]
        /\ runLock' = IF runLock = t THEN "free" ELSE runLock
        /\ panel' = [panel EXCEPT ![t] = ToSet(runs)]
        /\ UNCHANGED <<runs, runReviews, outcome, standing, altered>>
    BY DEF CloseMemo
  <1>2. ToSet(runs) \subseteq Runs
    BY DEF ToSet
  <1>3. CallInv'
    BY <1>1, IdleTyped DEF CallInv
  <1>4. JudgingInv'
    BY <1>1 DEF JudgingInv
  <1>5. \A s \in Tabs : told[s] \subseteq told'[s]
    BY <1>1
  <1>6. ASSUME NEW r \in Runs, outcome[r] # "none"
        PROVE  Recorded(r) \/ \E s \in Tabs : call'[s].run = r \/ r \in told'[s]
    <2>1. CASE call[t].run = r
      BY <1>1, <2>1
    <2>2. CASE call[t].run # r
      <3>1. \A s \in Tabs : call[s].run = r => call'[s].run = r
        BY <1>1, <2>2
      <3> QED
        BY <1>5, <1>6, <3>1 DEF ReturnedIsKept
    <2> QED
      BY <2>1, <2>2
  <1>7. ReturnedIsKept'
    BY <1>1, <1>6 DEF ReturnedIsKept, Recorded
  <1>8. MemoTypeOK'
    <2>1. told' \in [Tabs -> SUBSET Runs] /\ panel' \in [Tabs -> SUBSET Runs]
      BY <1>1, <1>2
    <2>2. call' \in [Tabs -> [stage : {"idle", "asking", "checking", "waiting"}, run : RunsOrNone]]
      BY <1>1, IdleTyped
    <2>3. judging' \in [Tabs -> [run : RunsOrNone, copy : Seq(Runs)]]
      BY <1>1, NothingJudged
    <2> QED
      BY <1>1, <2>1, <2>2, <2>3
  <1> QED
    BY <1>3, <1>4, <1>7, <1>8

LEMMA AlterStep ==
  ASSUME MemoInv, NEW damaged, Alter(damaged)
  PROVE  MemoInv'
  <1> USE MemoLedgerAssumption DEF MemoInv, MemoTypeOK
  <1>1. CallInv' /\ JudgingInv' /\ ReturnedIsKept'
    BY DEF Alter, CallInv, JudgingInv, ReturnedIsKept, Recorded
  <1>2. standing' \in [Runs -> BOOLEAN] /\ altered' \in 0..MaxAlterations
    BY DEF Alter
  <1> QED
    BY <1>1, <1>2 DEF Alter

LEMMA RefreshStep ==
  ASSUME MemoInv, NEW t \in Tabs, Refresh(t)
  PROVE  MemoInv'
  <1> USE DEF MemoInv, MemoTypeOK
  <1>1. CallInv' /\ JudgingInv' /\ ReturnedIsKept'
    BY DEF Refresh, CallInv, JudgingInv, ReturnedIsKept, Recorded
  <1>2. ToSet(runs) \subseteq Runs
    BY DEF ToSet
  <1> QED
    BY <1>1, <1>2 DEF Refresh

LEMMA LedgerStep == MemoInv /\ MemoNext => MemoInv'
  BY GenerateStep, AnsweredStep, AppendStep, ReviewStep, EndReviewStep, AlterStep, RefreshStep
     DEF MemoNext

-----------------------------------------------------------------------------
(* Revisions and their reviews.                                            *)

(* What is appended is of a completed run that is in the ledger, and as    *)
(* long as no key changed from elsewhere, of one that is as it was stored. *)
SourceInv(t) ==
  LET r == op[t].entry.run IN
  /\ r \in Runs /\ Recorded(r) /\ outcome[r] = "completed"
  /\ op[t].bytes[4] \in Nat /\ op[t].bytes[4] <= altered
  /\ op[t].bytes[4] = altered => standing[r]

(* The append that has the lock is of what was asked for at its click, and *)
(* that is still the latest: revisions are written under their lock only,  *)
(* and what the page does meanwhile does not reach what it captured.       *)
Underway(t) ==
  /\ op[t].what # "none" /\ SourceInv(t)
  /\ op[t].what = "revise" =>
       /\ op[t].entry.id = Len(revisions) + 1
       /\ op[t].entry.parent = Latest(op[t].entry.run)
       /\ op[t].asked = [run |-> op[t].entry.run, revision |-> Latest(op[t].entry.run)]
  /\ op[t].what = "review" =>
       /\ op[t].asked = [run |-> op[t].entry.run, revision |-> op[t].entry.revision]
       /\ op[t].entry.revision # Nil
       /\ op[t].entry.revision = Latest(op[t].entry.run)

(* The ledgers are sequences; of what, does not matter.                    *)
ByTab(f) == f = [t \in Tabs |-> f[t]]
Captured(d) == d = [run |-> d.run, revision |-> d.revision]

RevisionInv ==
  /\ (\E S : revisions \in Seq(S)) /\ (\E S : reviews \in Seq(S))
  /\ ByTab(draft) /\ ByTab(op)
  /\ \A t \in Tabs :
       /\ draft[t] # Nil => Captured(draft[t])
       /\ op[t].what # "none" => Captured(op[t].asked)
       /\ mlock = t => Underway(t)

LEMMA RevisionInit == Init => RevisionInv
  <1> SUFFICES ASSUME Init PROVE RevisionInv
    OBVIOUS
  <1>1. revisions \in Seq({}) /\ reviews \in Seq({})
    BY DEF Init
  <1>2. \A t \in Tabs : mlock # t
    BY MemoLedgerAssumption DEF Init
  <1> QED
    BY <1>1, <1>2 DEF Init, RevisionInv, ByTab, NoOp

(* Runs stay recorded and completed, and whoever alters one is counted.    *)
LEMMA LedgerFrame ==
  ASSUME MemoInv, MemoNext \/ \E t \in Tabs : CloseMemo(t)
  PROVE  /\ \A r \in Runs : Recorded(r) => Recorded(r)'
         /\ \A r \in Runs : outcome[r] = "completed" => outcome'[r] = "completed"
         /\ altered \in Nat /\ altered' \in Nat /\ altered <= altered'
         /\ altered' = altered => standing' = standing
  <1> USE DEF MemoInv, MemoTypeOK
  <1>1. CASE MemoNext
    <2>1. ASSUME NEW damaged, Alter(damaged)
          PROVE  /\ runs' = runs /\ outcome' = outcome
                 /\ altered' = altered + 1
      BY <2>1 DEF Alter
    <2>2. ASSUME NEW t \in Tabs,
                 Generate(t) \/ NoAnswer(t) \/ CheckRun(t) \/ StorageFull(t) \/ Refresh(t)
                   \/ \E r \in Runs : ReviewMemo(t, r)
          PROVE  UNCHANGED <<runs, outcome, altered, standing>>
      BY <2>2 DEF Generate, NoAnswer, CheckRun, StorageFull, Refresh, ReviewMemo
    <2>3. ASSUME NEW t \in Tabs, AppendMemoRun(t)
          PROVE  /\ UNCHANGED <<outcome, altered, standing>>
                 /\ ToSet(runs) \subseteq ToSet(runs')
      <3>1. call[t].run \in Runs
        BY <2>3, CallFields DEF AppendMemoRun
      <3> QED
        BY <2>3, <3>1, AppendedRun DEF AppendMemoRun
    <2>4. ASSUME NEW t \in Tabs, NEW r \in Runs, Answered(t, r)
          PROVE  /\ UNCHANGED <<runs, altered, standing>>
                 /\ \A q \in Runs : outcome[q] = "completed" => outcome'[q] = "completed"
      BY <2>4 DEF Answered
    <2>5. ASSUME NEW t \in Tabs, EndReview(t)
          PROVE  UNCHANGED <<runs, outcome, altered, standing>>
      BY <2>5, EndReviewStep DEF EndReview
    <2>6. altered \in Nat
      BY MemoLedgerAssumption
    <2> QED
      BY <1>1, <2>1, <2>2, <2>3, <2>4, <2>5, <2>6 DEF MemoNext, Recorded
  <1>2. CASE \E t \in Tabs : CloseMemo(t)
    BY <1>2, MemoLedgerAssumption DEF CloseMemo, Recorded
  <1> QED
    BY <1>1, <1>2

(* An append under way is not disturbed by a step that leaves it and the   *)
(* revisions alone.                                                        *)
LEMMA StillUnderway ==
  ASSUME NEW t \in Tabs, Underway(t), op'[t] = op[t], UNCHANGED revisions,
         \/ UNCHANGED memoVars
         \/ MemoInv /\ (MemoNext \/ \E s \in Tabs : CloseMemo(s))
  PROVE  Underway(t)'
  <1>1. SourceInv(t)'
    <2>1. CASE UNCHANGED memoVars
      BY <2>1 DEF Underway, SourceInv, memoVars, Recorded
    <2>2. CASE MemoInv /\ (MemoNext \/ \E s \in Tabs : CloseMemo(s))
      BY <2>2, LedgerFrame DEF Underway, SourceInv
    <2> QED
      BY <2>1, <2>2
  <1>2. \A r : Latest(r)' = Latest(r)
    BY DEF Latest, LatestAmong, OfRun
  <1> QED
    BY <1>1, <1>2 DEF Underway

(* The same for all tabs, when the ledger moves or a page reads, shows or  *)
(* gives up something, whatever it waits for.                              *)
LEMMA RevisionFrame ==
  ASSUME RevisionInv, UNCHANGED <<revisions, reviews, mlock, op>>,
         ByTab(draft)', \A s \in Tabs : draft'[s] # Nil => Captured(draft'[s]),
         \/ UNCHANGED memoVars
         \/ MemoInv /\ (MemoNext \/ \E s \in Tabs : CloseMemo(s))
  PROVE  RevisionInv'
  <1>1. ASSUME NEW s \in Tabs, mlock' = s PROVE Underway(s)'
    BY <1>1, StillUnderway DEF RevisionInv
  <1> QED
    BY <1>1 DEF RevisionInv, ByTab, Captured

LEMMA LedgerMoves ==
  ASSUME MemoInv, RevisionInv, MemoNext, UNCHANGED revisionVars
  PROVE  RevisionInv'
  <1>1. UNCHANGED <<revisions, reviews, mlock, op, draft>>
    BY DEF revisionVars
  <1>2. ByTab(draft)' /\ \A s \in Tabs : draft'[s] # Nil => Captured(draft'[s])
    BY <1>1 DEF RevisionInv, ByTab
  <1> QED
    BY <1>1, <1>2, RevisionFrame

LEMMA PageMoves ==
  ASSUME RevisionInv, NEW t \in Tabs,
         \/ \E r \in Runs : ShowRun(t, r)
         \/ \E i \in RevisionIds \cup {Nil} : Sync(t, i)
         \/ BeginDraft(t) \/ DiscardDraft(t)
  PROVE  RevisionInv'
  <1>1. UNCHANGED memoVars /\ UNCHANGED <<revisions, reviews, mlock, op>>
    BY DEF ShowRun, Sync, BeginDraft, DiscardDraft
  <1>2. ByTab(draft)'
    BY DEF RevisionInv, ByTab, ShowRun, Sync, BeginDraft, DiscardDraft
  <1>3. ASSUME NEW s \in Tabs, draft'[s] # Nil PROVE Captured(draft'[s])
    BY <1>3 DEF RevisionInv, ByTab, Captured, ShowRun, Sync, BeginDraft, DiscardDraft
  <1> QED
    BY <1>1, <1>2, <1>3, RevisionFrame

(* A click captures a draft, or the revision on the screen.  A tab without *)
(* an append does not have the lock.                                       *)
LEMMA Clicks ==
  ASSUME RevisionInv, NEW t \in Tabs, Save(t) \/ ReviewDraft(t)
  PROVE  RevisionInv'
  <1>1. PICK what, asked : what # "none" /\ Act(t, what, asked) /\ Captured(asked)
    <2>1. CASE Save(t)
      <3>1. Act(t, "revise", draft[t]) /\ Captured(draft[t])
        BY <2>1 DEF Save, CanSave, RevisionInv
      <3> QED
        BY <3>1
    <2>2. CASE ReviewDraft(t)
      <3>1. PICK asked : asked = [run |-> shown[t].run, revision |-> shown[t].selected]
        OBVIOUS
      <3>2. Act(t, "review", asked) /\ Captured(asked)
        BY <2>2, <3>1 DEF ReviewDraft, Captured
      <3> QED
        BY <3>2
    <2> QED
      BY <2>1, <2>2
  <1>2. PICK o : o = [what |-> what, asked |-> asked, bytes |-> Nil, entry |-> Nil]
    OBVIOUS
  <1>3. /\ op[t].what = "none" /\ op' = [op EXCEPT ![t] = o] /\ o.asked = asked
        /\ UNCHANGED <<memoVars, revisions, reviews, mlock, draft>>
    BY <1>1, <1>2 DEF Act
  <1>4. op'[t] = o /\ \A s \in Tabs \ {t} : op'[s] = op[s]
    BY <1>3 DEF RevisionInv, ByTab
  <1>5. mlock # t
    BY <1>3 DEF RevisionInv, Underway
  <1>6. ASSUME NEW s \in Tabs, mlock' = s PROVE Underway(s)'
    <2>1. mlock = s /\ op'[s] = op[s] /\ Underway(s)
      BY <1>3, <1>4, <1>5, <1>6 DEF RevisionInv
    <2> QED
      BY <1>3, <2>1, StillUnderway
  <1>7. ByTab(op)' /\ ByTab(draft)'
    BY <1>3 DEF RevisionInv, ByTab
  <1>8. ASSUME NEW s \in Tabs, op'[s].what # "none" PROVE Captured(op'[s].asked)
    BY <1>1, <1>3, <1>4, <1>8 DEF RevisionInv
  <1> QED
    BY <1>3, <1>6, <1>7, <1>8 DEF RevisionInv, Captured

LEMMA IntactSource ==
  ASSUME MemoInv, NEW r, Intact(r)
  PROVE  r \in Runs /\ Recorded(r) /\ outcome[r] = "completed" /\ standing[r] /\ altered \in Nat
  BY MemoLedgerAssumption DEF Intact, Recorded, ToSet, MemoInv, MemoTypeOK

(* An append obtains its lock: what it is about is checked against what    *)
(* the ledger says now, and its keys are read.                             *)
LEMMA Begins ==
  ASSUME MemoInv, RevisionInv, NEW t \in Tabs,
         (\E m \in Memos : AppendMemoRevision(t, m)) \/ AppendMemoRevisionReview(t)
  PROVE  RevisionInv'
  <1>1. PICK entry :
           /\ op[t].what # "none" /\ Enter(t, entry) /\ Intact(entry.run)
           /\ op[t].asked.run = entry.run
           /\ op[t].what = "revise" => /\ entry.id = Len(revisions) + 1
                                       /\ entry.parent = Latest(entry.run)
                                       /\ op[t].asked.revision = Latest(entry.run)
           /\ op[t].what = "review" => /\ op[t].asked.revision = entry.revision
                                       /\ entry.revision # Nil
                                       /\ entry.revision = Latest(entry.run)
    <2>1. CASE \E m \in Memos : AppendMemoRevision(t, m)
      <3>1. PICK m \in Memos : AppendMemoRevision(t, m)
        BY <2>1
      <3>2. PICK entry : entry = NewRevision(op[t].asked.run, m)
        OBVIOUS
      <3>3. entry.run = op[t].asked.run /\ entry.id = Len(revisions) + 1
              /\ entry.parent = Latest(op[t].asked.run)
        BY <3>2 DEF NewRevision
      <3>4. op[t].what = "revise" /\ Enter(t, entry) /\ Intact(op[t].asked.run)
              /\ op[t].asked.revision = Latest(op[t].asked.run)
        BY <3>1, <3>2 DEF AppendMemoRevision, Readable
      <3> QED
        BY <3>3, <3>4
    <2>2. CASE AppendMemoRevisionReview(t)
      <3>1. PICK entry : entry = [revision |-> Latest(op[t].asked.run), run |-> op[t].asked.run]
        OBVIOUS
      <3>2. entry.run = op[t].asked.run /\ entry.revision = Latest(op[t].asked.run)
        BY <3>1
      <3>3. op[t].what = "review" /\ Enter(t, entry) /\ Intact(op[t].asked.run)
              /\ op[t].asked.revision # Nil /\ op[t].asked.revision = Latest(op[t].asked.run)
        BY <2>2, <3>1 DEF AppendMemoRevisionReview, Readable
      <3> QED
        BY <3>2, <3>3
    <2> QED
      BY <2>1, <2>2
  <1>2. PICK o : o = [what |-> op[t].what, asked |-> op[t].asked, bytes |-> Bytes, entry |-> entry]
    OBVIOUS
  <1>3. o.what = op[t].what /\ o.asked = op[t].asked /\ o.entry = entry /\ o.bytes[4] = altered
    BY <1>2 DEF Bytes
  <1>4. /\ mlock' = t /\ op' = [op EXCEPT ![t] = o]
        /\ UNCHANGED <<memoVars, revisions, reviews, draft>>
    BY <1>1, <1>2 DEF Enter
  <1>5. op'[t] = o /\ \A s \in Tabs \ {t} : op'[s] = op[s]
    BY <1>4 DEF RevisionInv, ByTab
  <1>6. entry.run \in Runs /\ Recorded(entry.run) /\ outcome[entry.run] = "completed"
          /\ standing[entry.run] /\ altered \in Nat
    BY <1>1, IntactSource
  <1>7. SourceInv(t)'
    BY <1>3, <1>4, <1>5, <1>6 DEF SourceInv, Recorded, memoVars
  <1>8. \A r : Latest(r)' = Latest(r)
    BY <1>4 DEF Latest, LatestAmong, OfRun
  <1>9. op[t].asked = [run |-> op[t].asked.run, revision |-> op[t].asked.revision]
    BY <1>1 DEF RevisionInv, Captured
  <1>10. Underway(t)'
    BY <1>1, <1>3, <1>4, <1>5, <1>7, <1>8, <1>9 DEF Underway
  <1>11. ByTab(op)' /\ ByTab(draft)'
    BY <1>4 DEF RevisionInv, ByTab
  <1>12. ASSUME NEW s \in Tabs, op'[s].what # "none" PROVE Captured(op'[s].asked)
    BY <1>3, <1>5, <1>12 DEF RevisionInv
  <1> QED
    BY <1>4, <1>10, <1>11, <1>12 DEF RevisionInv, Captured

(* An append ends, one way or another, and nobody has the lock.            *)
LEMMA Ends ==
  ASSUME RevisionInv, NEW t \in Tabs, WriteRevision(t) \/ WriteReview(t) \/ Refuse(t)
  PROVE  RevisionInv'
  <1>1. op' = [op EXCEPT ![t] = NoOp] /\ mlock' = "free"
    BY DEF WriteRevision, WriteReview, Refuse, Leave
  <1>2. \A s \in Tabs : mlock' # s
    BY <1>1, MemoLedgerAssumption
  <1>3. ByTab(draft)' /\ ByTab(op)'
    BY <1>1 DEF RevisionInv, ByTab, WriteRevision, WriteReview, Refuse
  <1>4. (\E S : revisions' \in Seq(S)) /\ (\E S : reviews' \in Seq(S))
    <2>1. ASSUME NEW q, NEW S, q \in Seq(S), NEW e PROVE \E T : Append(q, e) \in Seq(T)
      <3>1. q \in Seq(S \cup {e})
        BY <2>1
      <3>2. Append(q, e) \in Seq(S \cup {e})
        BY <3>1
      <3> QED
        BY <3>2
    <2>2. PICK S : revisions \in Seq(S)
      BY DEF RevisionInv
    <2>3. PICK T : reviews \in Seq(T)
      BY DEF RevisionInv
    <2>4. \/ revisions' = revisions /\ reviews' = reviews
          \/ revisions' = Append(revisions, op[t].entry) /\ reviews' = reviews
          \/ revisions' = revisions /\ reviews' = Append(reviews, op[t].entry)
      BY DEF WriteRevision, WriteReview, Refuse
    <2>5. \E U : Append(revisions, op[t].entry) \in Seq(U)
      BY <2>1, <2>2
    <2>6. \E U : Append(reviews, op[t].entry) \in Seq(U)
      BY <2>1, <2>3
    <2> QED
      BY <2>2, <2>3, <2>4, <2>5, <2>6
  <1>5. ASSUME NEW s \in Tabs, draft'[s] # Nil PROVE Captured(draft'[s])
    <2>1. draft'[s] = draft[s]
      BY <1>5 DEF RevisionInv, ByTab, WriteRevision, WriteReview, Refuse
    <2> QED
      BY <1>5, <2>1 DEF RevisionInv
  <1>6. ASSUME NEW s \in Tabs, op'[s].what # "none" PROVE Captured(op'[s].asked)
    <2>1. op'[s] = op[s]
      BY <1>1, <1>6 DEF RevisionInv, ByTab, NoOp
    <2> QED
      BY <1>6, <2>1 DEF RevisionInv
  <1> QED
    BY <1>2, <1>3, <1>4, <1>5, <1>6 DEF RevisionInv, Captured

LEMMA Closes ==
  ASSUME MemoInv, RevisionInv, NEW t \in Tabs, CloseTab(t)
  PROVE  RevisionInv'
  <1>1. /\ CloseMemo(t) /\ op' = [op EXCEPT ![t] = NoOp]
        /\ mlock' = IF mlock = t THEN "free" ELSE mlock
        /\ draft' = [draft EXCEPT ![t] = Nil]
        /\ UNCHANGED <<revisions, reviews>>
    BY DEF CloseTab
  <1>2. op'[t].what = "none" /\ draft'[t] = Nil
          /\ \A s \in Tabs \ {t} : op'[s] = op[s] /\ draft'[s] = draft[s]
    BY <1>1 DEF RevisionInv, ByTab, NoOp
  <1>3. ASSUME NEW s \in Tabs, mlock' = s PROVE Underway(s)'
    <2>1. s # t /\ mlock = s
      BY <1>1, <1>3, MemoLedgerAssumption
    <2> QED
      BY <1>1, <1>2, <2>1, StillUnderway DEF RevisionInv
  <1>4. ByTab(op)' /\ ByTab(draft)'
    BY <1>1 DEF RevisionInv, ByTab
  <1>5. ASSUME NEW s \in Tabs
        PROVE  /\ draft'[s] # Nil => Captured(draft'[s])
               /\ op'[s].what # "none" => Captured(op'[s].asked)
    BY <1>2 DEF RevisionInv
  <1> QED
    BY <1>1, <1>3, <1>4, <1>5 DEF RevisionInv, Captured

LEMMA MemoStep == MemoInv /\ [Next]_vars => MemoInv'
  <1> SUFFICES ASSUME MemoInv, [Next]_vars PROVE MemoInv'
    OBVIOUS
  <1>1. CASE UNCHANGED memoVars
    BY <1>1 DEF memoVars, MemoInv, MemoTypeOK, CallInv, JudgingInv, ReturnedIsKept, Recorded
  <1>2. CASE MemoNext
    BY <1>2, LedgerStep
  <1>3. CASE \E t \in Tabs : CloseTab(t)
    BY <1>3, CloseStep DEF CloseTab
  <1> QED
    BY <1>1, <1>2, <1>3 DEF Next, vars, ShowRun, Sync, BeginDraft, DiscardDraft, Save, ReviewDraft,
       Act, AppendMemoRevision, AppendMemoRevisionReview, Enter, WriteRevision, WriteReview, Refuse

LEMMA RevisionStep == MemoInv /\ RevisionInv /\ [Next]_vars => RevisionInv'
  <1> SUFFICES ASSUME MemoInv, RevisionInv, [Next]_vars PROVE RevisionInv'
    OBVIOUS
  <1>1. CASE UNCHANGED vars
    <2>1. ByTab(draft)' /\ \A s \in Tabs : draft'[s] # Nil => Captured(draft'[s])
      BY <1>1 DEF vars, revisionVars, RevisionInv, ByTab
    <2> QED
      BY <1>1, <2>1, RevisionFrame DEF vars, revisionVars
  <1>2. CASE Next
    BY <1>2, LedgerMoves, PageMoves, Clicks, Begins, Ends, Closes DEF Next
  <1> QED
    BY <1>1, <1>2

LEMMA BothInit == Init => MemoInv /\ RevisionInv
  BY MemoInit1, RevisionInit DEF Init

(* A run the server has answered with is in the ledger, on its way there,  *)
(* or its user knows that it is not: what a review writes back is never an *)
(* older ledger (appendMemoRun and appendMemoReview share a lock).         *)
THEOREM RunsAreKept == Spec => []ReturnedIsKept
  <1>1. MemoInv => ReturnedIsKept
    BY DEF MemoInv
  <1> QED
    BY <1>1, BothInit, MemoStep, PTL DEF Spec

LEMMA LastOfAppended ==
  ASSUME NEW S, NEW s \in Seq(S), NEW e
  PROVE  Last(Append(s, e)) = e /\ Append(s, e) # s
  <1>1. s \in Seq(S \cup {e})
    OBVIOUS
  <1>2. Len(Append(s, e)) = Len(s) + 1 /\ Append(s, e)[Len(s) + 1] = e /\ Len(s) \in Nat
    BY <1>1
  <1> QED
    BY <1>2 DEF Last

(* Which step writes a revision or a review, and what it writes.           *)
LEMMA Written ==
  ASSUME RevisionInv, [Next]_vars
  PROVE  /\ revisions' # revisions =>
              \E t \in Tabs : WriteRevision(t) /\ Last(revisions') = op[t].entry
         /\ reviews' # reviews =>
              \E t \in Tabs : WriteReview(t) /\ Last(reviews') = op[t].entry
  <1>1. ASSUME revisions' # revisions
        PROVE  \E t \in Tabs : WriteRevision(t) /\ Last(revisions') = op[t].entry
    <2>1. PICK t \in Tabs : WriteRevision(t)
      BY <1>1 DEF Next, vars, revisionVars, CloseTab, ShowRun, Sync, BeginDraft,
         DiscardDraft, Save, ReviewDraft, Act, AppendMemoRevision, AppendMemoRevisionReview, Enter, WriteReview, Refuse
    <2>2. PICK S : revisions \in Seq(S)
      BY DEF RevisionInv
    <2>3. revisions' = Append(revisions, op[t].entry)
      BY <2>1 DEF WriteRevision
    <2> QED
      BY <2>1, <2>2, <2>3, LastOfAppended
  <1>2. ASSUME reviews' # reviews
        PROVE  \E t \in Tabs : WriteReview(t) /\ Last(reviews') = op[t].entry
    <2>1. PICK t \in Tabs : WriteReview(t)
      BY <1>2 DEF Next, vars, revisionVars, CloseTab, ShowRun, Sync, BeginDraft,
         DiscardDraft, Save, ReviewDraft, Act, AppendMemoRevision, AppendMemoRevisionReview, Enter, WriteRevision, Refuse
    <2>2. PICK S : reviews \in Seq(S)
      BY DEF RevisionInv
    <2> QED
      BY <2>1, <2>2, LastOfAppended DEF WriteReview
  <1> QED
    BY <1>1, <1>2

(* No revision is overwritten unseen and none accepted unseen: the draft   *)
(* that was saved was based on the revision just before the new one, a     *)
(* review is of the latest and of the one on its reviewer's screen at the  *)
(* click (save, reviewDraft, appendMemoRevision, appendMemoRevisionReview),*)
(* for any interleaving of tabs, waits, clicks and closings.               *)
THEOREM NothingIsWrittenUnseen == Spec => SeenBeforeWritten
  <1>1. ASSUME RevisionInv, [Next]_vars
        PROVE  [/\ revisions' # revisions =>
                     LET new == Last(revisions') IN
                     \E t \in Tabs : /\ op[t].what = "revise"
                                     /\ op[t].asked = [run |-> new.run, revision |-> Latest(new.run)]
                /\ reviews' # reviews =>
                     LET new == Last(reviews') IN
                     /\ new.revision = Latest(new.run)
                     /\ \E t \in Tabs : /\ op[t].what = "review"
                                       /\ op[t].asked = [run |-> new.run, revision |-> new.revision]
               ]_vars
    <2>1. ASSUME revisions' # revisions
          PROVE  \E t \in Tabs : /\ op[t].what = "revise"
                                 /\ op[t].asked = [run |-> Last(revisions').run,
                                                   revision |-> Latest(Last(revisions').run)]
      <3>1. PICK t \in Tabs : WriteRevision(t) /\ Last(revisions') = op[t].entry
        BY <1>1, <2>1, Written
      <3>2. Underway(t) /\ op[t].what = "revise"
        BY <1>1, <3>1 DEF RevisionInv, WriteRevision
      <3> QED
        BY <3>1, <3>2 DEF Underway
    <2>2. ASSUME reviews' # reviews
          PROVE  /\ Last(reviews').revision = Latest(Last(reviews').run)
                 /\ \E t \in Tabs : /\ op[t].what = "review"
                                   /\ op[t].asked = [run |-> Last(reviews').run,
                                                     revision |-> Last(reviews').revision]
      <3>1. PICK t \in Tabs : WriteReview(t) /\ Last(reviews') = op[t].entry
        BY <1>1, <2>2, Written
      <3>2. Underway(t) /\ op[t].what = "review"
        BY <1>1, <3>1 DEF RevisionInv, WriteReview
      <3> QED
        BY <3>1, <3>2 DEF Underway
    <2> QED
      BY <2>1, <2>2
  <1> QED
    BY <1>1, BothInit, MemoStep, RevisionStep, PTL DEF Spec, SeenBeforeWritten

(* Whatever changes during the awaits of an append, what is recorded is of *)
(* a completed run that is in the memo ledger and unaltered like its       *)
(* version: the bytes compared before the write (unchanged, writeLedger)   *)
(* are those of the moment when the run was looked at.                     *)
THEOREM SourcesHoldStill == Spec => SourceHoldsStill
  <1>1. ASSUME MemoInv, RevisionInv, [Next]_vars
        PROVE  [/\ revisions' # revisions => Intact(Last(revisions').run)
                /\ reviews' # reviews => Intact(Last(reviews').run)]_vars
    <2>1. ASSUME NEW t \in Tabs, Underway(t), Unchanged(t)
          PROVE  Intact(op[t].entry.run)
      <3>1. SourceInv(t)
        BY <2>1 DEF Underway
      <3>2. op[t].bytes[4] = altered
        BY <2>1 DEF Unchanged, Bytes
      <3> QED
        BY <3>1, <3>2 DEF SourceInv, Intact
    <2>2. ASSUME revisions' # revisions PROVE Intact(Last(revisions').run)
      <3>1. PICK t \in Tabs : WriteRevision(t) /\ Last(revisions') = op[t].entry
        BY <1>1, <2>2, Written
      <3> QED
        BY <1>1, <2>1, <3>1 DEF RevisionInv, WriteRevision
    <2>3. ASSUME reviews' # reviews PROVE Intact(Last(reviews').run)
      <3>1. PICK t \in Tabs : WriteReview(t) /\ Last(reviews') = op[t].entry
        BY <1>1, <2>3, Written
      <3> QED
        BY <1>1, <2>1, <3>1 DEF RevisionInv, WriteReview
    <2> QED
      BY <2>2, <2>3
  <1> QED
    BY <1>1, BothInit, MemoStep, RevisionStep, PTL DEF Spec, SourceHoldsStill
-----------------------------------------------------------------------------
(* The ledger of revisions can be read.                                    *)

LEMMA Greatest ==
  ASSUME NEW n \in Nat, NEW S \in SUBSET (1..n), S # {}
  PROVE  Max(S) \in S
  <1> DEFINE Above == {(x + 1)..n : x \in S}
  <1>1. Above \subseteq SUBSET (1..n) /\ Above # {}
    <2>1. ASSUME NEW x \in S PROVE (x + 1)..n \subseteq 1..n
      OBVIOUS
    <2>2. Above \subseteq SUBSET (1..n)
      BY <2>1
    <2>3. Above # {}
      OBVIOUS
    <2> QED
      BY <2>2, <2>3
  <1>2. IsWellFoundedOn(StrictSubsetOrdering(1..n), SUBSET (1..n))
    <2>1. IsFiniteSet(1..n)
      BY FS_Interval
    <2>2. FiniteSubsetsOf(1..n) = SUBSET (1..n)
      BY <2>1, FS_FiniteSubsetsOfFinite
    <2> QED
      BY <2>2, FS_StrictSubsetOrderingWellFounded
  <1>3. PICK a \in Above : \A b \in Above : <<b, a>> \notin StrictSubsetOrdering(1..n)
    BY <1>1, <1>2, WFMin
  <1>4. PICK x \in S : a = (x + 1)..n
    OBVIOUS
  <1>5. ASSUME NEW y \in S, ~(x >= y) PROVE FALSE
    <2>1. (y + 1)..n \subseteq a /\ y \in a /\ y \notin (y + 1)..n
      BY <1>4, <1>5
    <2>2. (y + 1)..n \in Above
      OBVIOUS
    <2> QED
      BY <1>1, <1>3, <2>1, <2>2 DEF StrictSubsetOrdering
  <1>6. \E z \in S : \A y \in S : z >= y
    BY <1>5
  <1> QED
    BY <1>6 DEF Max

(* Identifiers are given out in the order of the ledger.                   *)
Numbered == \A k \in DOMAIN revisions : revisions[k].id = k

ReadableInv == LedgerHolds /\ Numbered

(* An appended revision follows the latest one of its run; the revisions   *)
(* before it stand where they stood.                                       *)
LEMMA RevisionAppended ==
  ASSUME NEW S, revisions \in Seq(S), NEW e, revisions' = Append(revisions, e),
         ReadableInv, reviews' = reviews,
         e.id = Len(revisions) + 1, e.parent = Latest(e.run)
  PROVE  ReadableInv'
  <1> DEFINE n == Len(revisions)
  <1>1. n \in Nat /\ DOMAIN revisions = 1..n
    OBVIOUS
  <1>2. /\ DOMAIN revisions' = 1..(n + 1) /\ revisions'[n + 1] = e
        /\ \A k \in 1..n : revisions'[k] = revisions[k]
    <2>1. revisions \in Seq(S \cup {e})
      OBVIOUS
    <2> QED
      BY <2>1
  <1>3. ASSUME NEW k \in 1..(n + 1), NEW r
        PROVE  {j \in OfRun(r)' : j < k} = {j \in OfRun(r) : j < k}
    BY <1>1, <1>2 DEF OfRun
  <1>4. ASSUME NEW P \in SUBSET (1..n) PROVE LatestAmong(P)' = LatestAmong(P)
    <2>1. CASE P = {}
      BY <2>1 DEF LatestAmong
    <2>2. CASE P # {}
      <3>1. Max(P) \in 1..n
        BY <1>1, <2>2, Greatest
      <3> QED
        BY <1>2, <2>2, <3>1 DEF LatestAmong
    <2> QED
      BY <2>1, <2>2
  <1>5. Numbered'
    BY <1>1, <1>2 DEF ReadableInv, Numbered
  <1>6. ASSUME NEW k \in 1..(n + 1), NEW r, r = revisions'[k].run
        PROVE  revisions'[k].parent = LatestAmong({j \in OfRun(r) : j < k})'
    <2>1. PICK before : before = {j \in OfRun(r) : j < k}
      OBVIOUS
    <2>2. before \in SUBSET (1..n) /\ {j \in OfRun(r) : j < k}' = before
      BY <1>1, <1>3, <2>1 DEF OfRun
    <2>3. LatestAmong({j \in OfRun(r) : j < k})' = LatestAmong(before)
      <3>1. LatestAmong({j \in OfRun(r) : j < k})' = LatestAmong(before)'
        BY <2>2 DEF LatestAmong
      <3> QED
        BY <1>4, <2>2, <3>1
    <2>4. CASE k = n + 1
      <3>1. before = OfRun(r)
        BY <1>1, <2>1, <2>4 DEF OfRun
      <3> QED
        BY <1>2, <1>6, <2>3, <2>4, <3>1 DEF Latest
    <2>5. CASE k \in 1..n
      BY <1>1, <1>2, <1>6, <2>1, <2>3, <2>5 DEF ReadableInv, LedgerHolds
    <2> QED
      BY <1>1, <2>4, <2>5
  <1>7. ASSUME NEW k \in 1..(n + 1)
        PROVE  (/\ \A j \in DOMAIN revisions : revisions[j].id = revisions[k].id => j = k
                /\ revisions[k].parent = LatestAmong({j \in OfRun(revisions[k].run) : j < k}))'
    <2>1. \A j \in 1..(n + 1) : revisions'[j].id = j
      BY <1>2, <1>5 DEF Numbered
    <2>2. PICK r : r = revisions'[k].run
      OBVIOUS
    <2>3. revisions'[k].parent = LatestAmong({j \in OfRun(r) : j < k})'
      BY <1>6, <2>2
    <2> QED
      BY <1>2, <2>1, <2>2, <2>3
  <1>8. ASSUME NEW k \in DOMAIN reviews
        PROVE  (\E j \in OfRun(reviews[k].run) : revisions[j].id = reviews[k].revision)'
    <2>1. PICK j \in OfRun(reviews[k].run) : revisions[j].id = reviews[k].revision
      BY <1>8 DEF ReadableInv, LedgerHolds
    <2>2. j \in 1..n /\ revisions'[j] = revisions[j] /\ j \in DOMAIN revisions'
      BY <1>1, <1>2, <2>1 DEF OfRun
    <2> QED
      BY <2>1, <2>2 DEF OfRun
  <1> QED
    BY <1>2, <1>5, <1>7, <1>8 DEF ReadableInv, LedgerHolds

(* An appended review is of a revision of its run.                         *)
LEMMA ReviewAppended ==
  ASSUME NEW S, revisions \in Seq(S), NEW T, reviews \in Seq(T),
         NEW e, reviews' = Append(reviews, e),
         ReadableInv, revisions' = revisions, e.revision # Nil, e.revision = Latest(e.run)
  PROVE  ReadableInv'
  <1> DEFINE n == Len(reviews)
  <1>1. /\ n \in Nat /\ DOMAIN reviews = 1..n
        /\ DOMAIN reviews' = 1..(n + 1) /\ reviews'[n + 1] = e
        /\ \A k \in 1..n : reviews'[k] = reviews[k]
    <2>1. reviews \in Seq(T \cup {e})
      OBVIOUS
    <2> QED
      BY <2>1
  <1>2. OfRun(e.run) # {} /\ OfRun(e.run) \in SUBSET (1..Len(revisions)) /\ Len(revisions) \in Nat
    BY DEF Latest, LatestAmong, OfRun
  <1>3. Max(OfRun(e.run)) \in OfRun(e.run)
    BY <1>2, Greatest
  <1>4. \E j \in OfRun(e.run) : revisions[j].id = e.revision
    BY <1>2, <1>3 DEF Latest, LatestAmong
  <1>5. ASSUME NEW k \in 1..(n + 1)
        PROVE  \E j \in OfRun(reviews'[k].run) : revisions[j].id = reviews'[k].revision
    <2>1. CASE k = n + 1
      BY <1>1, <1>4, <2>1
    <2>2. CASE k \in 1..n
      BY <1>1, <2>2 DEF ReadableInv, LedgerHolds
    <2> QED
      BY <1>1, <2>1, <2>2
  <1>6. ASSUME NEW k \in DOMAIN reviews'
        PROVE  (\E j \in OfRun(reviews[k].run) : revisions[j].id = reviews[k].revision)'
    <2>1. PICK j \in OfRun(reviews'[k].run) : revisions[j].id = reviews'[k].revision
      BY <1>1, <1>5
    <2> QED
      BY <2>1 DEF OfRun
  <1>7. Numbered' /\ (\A r, P : LatestAmong(P)' = LatestAmong(P) /\ OfRun(r)' = OfRun(r))
    BY DEF ReadableInv, Numbered, LatestAmong, OfRun
  <1>8. (\A k \in DOMAIN revisions :
          /\ \A j \in DOMAIN revisions : revisions[j].id = revisions[k].id => j = k
          /\ revisions[k].parent = LatestAmong({j \in OfRun(revisions[k].run) : j < k}))'
    BY DEF ReadableInv, LedgerHolds, LatestAmong, OfRun
  <1> QED
    BY <1>6, <1>7, <1>8 DEF ReadableInv, LedgerHolds

LEMMA ReadableStep == RevisionInv /\ ReadableInv /\ [Next]_vars => ReadableInv'
  <1> SUFFICES ASSUME RevisionInv, ReadableInv, [Next]_vars PROVE ReadableInv'
    OBVIOUS
  <1>1. (\E S : revisions \in Seq(S)) /\ (\E T : reviews \in Seq(T))
    BY DEF RevisionInv
  <1>2. CASE revisions' # revisions
    <2>1. PICK t \in Tabs : WriteRevision(t)
      BY <1>2, Written
    <2>2. Underway(t) /\ op[t].what = "revise"
      BY <2>1 DEF RevisionInv, WriteRevision
    <2>3. op[t].entry.id = Len(revisions) + 1 /\ op[t].entry.parent = Latest(op[t].entry.run)
      BY <2>2 DEF Underway
    <2>4. revisions' = Append(revisions, op[t].entry) /\ reviews' = reviews
      BY <2>1 DEF WriteRevision
    <2> QED
      BY <1>1, <2>3, <2>4, RevisionAppended
  <1>3. CASE reviews' # reviews
    <2>1. PICK t \in Tabs : WriteReview(t)
      BY <1>3, Written
    <2>2. Underway(t) /\ op[t].what = "review"
      BY <2>1 DEF RevisionInv, WriteReview
    <2>3. op[t].entry.revision # Nil /\ op[t].entry.revision = Latest(op[t].entry.run)
      BY <2>2 DEF Underway
    <2>4. reviews' = Append(reviews, op[t].entry) /\ revisions' = revisions
      BY <2>1 DEF WriteReview
    <2> QED
      BY <1>1, <2>3, <2>4, ReviewAppended
  <1>4. CASE UNCHANGED <<revisions, reviews>>
    BY <1>4 DEF ReadableInv, LedgerHolds, Numbered, OfRun, LatestAmong
  <1> QED
    BY <1>2, <1>3, <1>4

(* The reader of the revision ledger refuses the whole ledger, and every   *)
(* revision, review and export with it, when one parent is not the latest  *)
(* revision of its run before it or one review is of no revision           *)
(* (readMemoRevisionLedger).  Appends of several tabs never get it there.  *)
THEOREM LedgerStaysReadable == Spec => []LedgerHolds
  <1>1. Init => ReadableInv
    BY DEF Init, ReadableInv, LedgerHolds, Numbered
  <1>2. ReadableInv => LedgerHolds
    BY DEF ReadableInv
  <1> QED
    BY <1>1, <1>2, BothInit, MemoStep, RevisionStep, ReadableStep, PTL DEF Spec
=============================================================================
