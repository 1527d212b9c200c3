-------------------------- MODULE ModelBudget_proofs ---------------------------
(***************************************************************************)
(* Theorems about ModelBudget, for any number of processes, visitors and   *)
(* attempts, any limits and any window lengths.                            *)
(***************************************************************************)
EXTENDS ModelBudget, FiniteSetTheorems, TLAPS

-----------------------------------------------------------------------------
(* Types.                                                                  *)

LEMMA MaxOfTwo ==
  ASSUME NEW a \in Int, NEW b \in Int
  PROVE  Max({a, b}) \in {a, b} /\ Max({a, b}) >= a /\ Max({a, b}) >= b
<1>1. \E x \in {a, b} : \A y \in {a, b} : x >= y
  <2>1. CASE a >= b
    BY <2>1
  <2>2. CASE b >= a
    BY <2>2
  <2>3. QED
    BY <2>1, <2>2
<1>2. QED
  BY <1>1 DEF Max

LEMMA FinishTimeType ==
  ASSUME TypeOK, NEW p \in Procs, mine[p] \in Ids, attempt[mine[p]] \in Claims
  PROVE  FinishTime(p) \in Times /\ FinishTime(p) >= attempt[mine[p]].startedAt
<1> DEFINE s == attempt[mine[p]].startedAt
<1>1. clock \in Times /\ s \in Times
  BY DEF TypeOK, Claims
<1>2. clock \in Int /\ s \in Int
  BY <1>1, BudgetAssumption DEF Times
<1>3. QED
  BY <1>1, <1>2, MaxOfTwo DEF FinishTime

-----------------------------------------------------------------------------
(* Types and exclusion, which need each other.                             *)

LEMMA InitExclusion == Init => TypeOK /\ ExclusionInv
BY BudgetAssumption, FilesAssumption
DEF Init, TypeOK, ExclusionInv, PCs, Locked, Holds, Unresolved, Times

(* A step of one process that writes no file and gives nobody an attempt.  *)
LEMMA QuietStep ==
  ASSUME TypeOK, ExclusionInv, UNCHANGED files, NEW p \in Procs, NEW where \in PCs,
         pc' = [pc EXCEPT ![p] = where],
         \A q \in Procs : q # p => mine'[q] = mine[q],
         where \in {"admitted", "send", "sent", "finish", "settle"} =>
           Holds(p) /\ mine'[p] = mine[p],
         where = "write" => Unresolved = {},
         \A q \in Procs : pc'[q] \in Locked => lock' = q
  PROVE  ExclusionInv'
<1>1. \A q \in Procs : pc'[q] = IF q = p THEN where ELSE pc[q]
  BY DEF TypeOK
<1>2. \A q \in Procs : Holds(q)' => Holds(q) /\ mine'[q] = mine[q]
  BY <1>1 DEF Holds
<1>3. Unresolved' = Unresolved /\ attempt' = attempt /\ result' = result
  BY DEF Unresolved, files
<1>4. \A q \in Procs : pc'[q] = "write" => Unresolved' = {}
  BY <1>1, <1>3 DEF ExclusionInv
<1>5. \A q \in Procs : Holds(q)' => mine'[q] \in Unresolved' /\ attempt'[mine'[q]] \in Claims
  BY <1>2, <1>3 DEF ExclusionInv
<1>6. \A q, r \in Procs : Holds(q)' /\ Holds(r)' /\ mine'[q] = mine'[r] => q = r
  BY <1>2 DEF ExclusionInv
<1>7. QED
  BY <1>3, <1>4, <1>5, <1>6 DEF ExclusionInv

LEMMA EndStep ==
  ASSUME TypeOK, NEW p \in Procs, End(p)
  PROVE  /\ pc' = [pc EXCEPT ![p] = "idle"] /\ "idle" \in PCs
         /\ \A q \in Procs : q # p => mine'[q] = mine[q]
         /\ \A q \in Procs : pc'[q] \in Locked => q # p /\ pc[q] \in Locked
BY DEF End, Goto, TypeOK, PCs, Locked

LEMMA StepExclusion ==
  ASSUME TypeOK, ExclusionInv, NEW p \in Procs, Step(p) \/ Crash(p)
  PROVE  ExclusionInv'
<1> USE DEF Goto
<1>1. CASE Acquire(p)
  <2>1. pc' = [pc EXCEPT ![p] = pc[p]] /\ pc[p] \in PCs /\ UNCHANGED files /\ mine' = mine
    BY <1>1 DEF Acquire, TypeOK, files
  <2>2. \A q \in Procs : pc[q] \notin Locked
    BY <1>1, HolderAssumption DEF Acquire, ExclusionInv
  <2>3. pc[p] # "write" /\ pc' = pc
    BY <1>1 DEF Acquire
  <2>4. QED
    BY <2>1, <2>2, <2>3, QuietStep DEF Holds
<1>2. CASE LockTimeout(p)
  <2>1. \A q \in Procs : pc'[q] \in Locked => lock' = q
    BY <1>2, EndStep DEF LockTimeout, ExclusionInv
  <2>2. QED
    BY <1>2, <2>1, EndStep, QuietStep DEF LockTimeout, files
<1>3. CASE Decide(p)
  <2>1. \A q \in Procs : pc'[q] \in Locked => lock' = q
    BY <1>3 DEF Decide, ExclusionInv, TypeOK, Locked
  <2>2. Verdict(owner[p], clock) = "admit" => Unresolved = {}
    BY DEF Verdict
  <2>3. QED
    BY <1>3, <2>1, <2>2, QuietStep DEF Decide, files, PCs, Locked
<1>4. CASE WriteAttempt(p)
  <2>1. PICK id \in Ids \ Claimed, content \in {[owner |-> owner[p], startedAt |-> at[p]], Torn} :
          /\ attempt' = [attempt EXCEPT ![id] = content]
          /\ mine' = [mine EXCEPT ![p] = id]
          /\ pc' = [pc EXCEPT ![p] = IF content = Torn THEN "done" ELSE "admitted"]
    BY <1>4 DEF WriteAttempt
  <2>2. pc[p] = "write" /\ lock = p /\ Unresolved = {} /\ result' = result /\ lock' = lock
    BY <1>4 DEF WriteAttempt, ExclusionInv, Locked
  <2>3. \A q \in Procs : ~Holds(q)
    BY <2>2 DEF ExclusionInv
  <2>4. \A q \in Procs : pc'[q] \in Locked => lock' = q
    BY <2>1, <2>2 DEF ExclusionInv, TypeOK, Locked
  <2>5. \A q \in Procs : Holds(q)' => q = p /\ content # Torn
    BY <2>1, <2>3 DEF Holds, TypeOK
  <2>6. \A q \in Procs : pc'[q] # "write"
    BY <2>1, <2>2 DEF ExclusionInv, TypeOK, Locked
  <2>7. Unresolved' = {id}
    <3>1. attempt[id] = Nil /\ content # Nil /\ id \in Ids
      BY <2>1, FilesAssumption, <2>2 DEF Claimed, TypeOK, Claims
    <3>2. \A i \in Ids : attempt'[i] = IF i = id THEN content ELSE attempt[i]
      BY <2>1 DEF TypeOK
    <3>3. result[id] = Nil
      BY <2>1, <3>1, FilesAssumption DEF ExclusionInv
    <3>4. QED
      BY <2>2, <3>1, <3>2, <3>3 DEF Unresolved
  <2>8. \A i \in Ids : result'[i] # Nil => attempt'[i] \in Claims
    <3>1. attempt[id] = Nil
      BY <2>1 DEF Claimed
    <3>2. \A i \in Ids : result[i] # Nil => attempt[i] \in Claims /\ i # id
      BY <3>1, FilesAssumption DEF ExclusionInv
    <3>3. QED
      BY <2>1, <2>2, <3>2 DEF TypeOK
  <2>9. \A q \in Procs : Holds(q)' => mine'[q] \in Unresolved' /\ attempt'[mine'[q]] \in Claims
    <3>1. at[p] \in Times /\ owner[p] \in Owners
      BY <2>2 DEF TypeOK
    <3>2. QED
      BY <2>1, <2>5, <2>7, <3>1 DEF TypeOK, Claims
  <2>10. QED
    BY <2>4, <2>5, <2>6, <2>7, <2>8, <2>9 DEF ExclusionInv
<1>5. CASE Release(p)
  <2>1. lock = p /\ lock' = "free"
    BY <1>5 DEF Release, ExclusionInv, Locked
  <2>2. \A q \in Procs : pc'[q] \in Locked => lock' = q
    BY <1>5, <2>1, EndStep DEF Release, ExclusionInv, TypeOK, Locked
  <2>3. CASE pc[p] = "admitted"
    BY <1>5, <2>2, <2>3, QuietStep DEF Release, files, PCs, Holds
  <2>4. CASE pc[p] = "done"
    BY <1>5, <2>2, <2>4, EndStep, QuietStep DEF Release, files
  <2>5. QED
    BY <1>5, <2>3, <2>4 DEF Release
<1>6. CASE Fault(p)
  <2>1. \A q \in Procs : pc'[q] \in Locked => lock' = q
    BY <1>6 DEF Fault, ExclusionInv, TypeOK, Locked
  <2>2. QED
    BY <1>6, <2>1, QuietStep DEF Fault, files, PCs, Locked
<1>7. CASE Send(p) \/ Return(p)
  <2>1. \A q \in Procs : pc'[q] \in Locked => lock' = q
    BY <1>7 DEF Send, Return, ExclusionInv, TypeOK, Locked
  <2>2. QED
    BY <1>7, <2>1, QuietStep DEF Send, Return, files, PCs, Locked, Holds
<1>8. CASE CheckOwn(p)
  <2>1. \A q \in Procs : pc'[q] \in Locked => lock' = q
    BY <1>8 DEF CheckOwn, ExclusionInv, TypeOK, Locked
  <2>2. QED
    BY <1>8, <2>1, QuietStep DEF CheckOwn, files, PCs, Locked, Holds
<1>9. CASE WriteResult(p)
  <2>1. PICK content \in {[finishedAt |-> FinishTime(p)], Torn} :
          result' = [result EXCEPT ![mine[p]] = content]
    BY <1>9 DEF WriteResult
  <2>2. /\ mine[p] \in Unresolved /\ lock = p /\ Holds(p) /\ pc[p] = "settle"
        /\ UNCHANGED <<attempt, lock, mine>> /\ pc' = [pc EXCEPT ![p] = "done"]
    BY <1>9 DEF WriteResult, ExclusionInv, Locked, Holds
  <2>3. content # Nil
    BY FilesAssumption, FinishTimeType, <2>2 DEF ExclusionInv, Outcomes, Unresolved
  <2>4. Unresolved' = {}
    <3>1. \A i \in Unresolved : i = mine[p]
      BY <2>2 DEF ExclusionInv
    <3>2. QED
      BY <2>1, <2>2, <2>3, <3>1 DEF Unresolved, TypeOK
  <2>5. \A q \in Procs : ~Holds(q)'
    <3>1. \A q \in Procs : Holds(q) => q = p
      BY <2>2 DEF ExclusionInv
    <3>2. QED
      BY <2>2, <3>1 DEF Holds, TypeOK
  <2>6. \A q \in Procs : pc'[q] \in Locked => lock' = q
    BY <2>2 DEF ExclusionInv, TypeOK, Locked
  <2>7. \A i \in Ids : result'[i] # Nil => attempt'[i] \in Claims
    BY <2>1, <2>2 DEF ExclusionInv, TypeOK
  <2>8. QED
    BY <2>4, <2>5, <2>6, <2>7 DEF ExclusionInv
<1>10. CASE Crash(p)
  <2>1. \A q \in Procs : pc'[q] \in Locked => lock' = q
    BY <1>10, EndStep DEF Crash, ExclusionInv
  <2>2. QED
    BY <1>10, <2>1, EndStep, QuietStep DEF Crash, files
<1>11. CASE ReleaseFails(p)
  <2>1. lock = p
    BY <1>11 DEF ReleaseFails, ExclusionInv, Locked
  <2>2. \A q \in Procs : pc'[q] \in Locked => lock' = q
    BY <1>11, <2>1, EndStep DEF ReleaseFails, ExclusionInv
  <2>3. QED
    BY <1>11, <2>2, EndStep, QuietStep DEF ReleaseFails, files
<1>12. QED
  BY <1>1, <1>2, <1>3, <1>4, <1>5, <1>6, <1>7, <1>8, <1>9, <1>10, <1>11 DEF Step

LEMMA StepType ==
  ASSUME TypeOK, ExclusionInv, NEW p \in Procs, Step(p) \/ Crash(p)
  PROVE  TypeOK'
<1> USE DEF Goto, PCs, Locked
<1>1. CASE Acquire(p)
  BY <1>1 DEF Acquire, TypeOK
<1>2. CASE LockTimeout(p)
  BY <1>2, BudgetAssumption DEF LockTimeout, End, TypeOK, Times
<1>3. CASE Decide(p)
  BY <1>3 DEF Decide, TypeOK
<1>4. CASE WriteAttempt(p)
  <2>1. PICK id \in Ids \ Claimed, content \in {[owner |-> owner[p], startedAt |-> at[p]], Torn} :
          /\ attempt' = [attempt EXCEPT ![id] = content]
          /\ mine' = [mine EXCEPT ![p] = id]
          /\ pc' = [pc EXCEPT ![p] = IF content = Torn THEN "done" ELSE "admitted"]
    BY <1>4 DEF WriteAttempt
  <2>2. owner[p] \in Owners /\ at[p] \in Times
    BY <1>4 DEF WriteAttempt, TypeOK
  <2>3. attempt' \in [Ids -> Claims \cup {Nil, Torn}]
    BY <2>1, <2>2 DEF TypeOK, Claims
  <2>4. pc' \in [Procs -> PCs] /\ mine' \in [Procs -> Ids \cup {Nil}]
    BY <2>1 DEF TypeOK
  <2>5. QED
    BY <1>4, <2>1, <2>3, <2>4 DEF WriteAttempt, TypeOK
<1>5. CASE Release(p)
  BY <1>5, BudgetAssumption DEF Release, End, TypeOK, Times
<1>6. CASE Fault(p)
  BY <1>6 DEF Fault, TypeOK
<1>7. CASE Send(p)
  <2>1. mine[p] \in Ids
    BY <1>7 DEF Send, TypeOK
  <2>2. QED
    BY <1>7, <2>1 DEF Send, TypeOK
<1>8. CASE Return(p) \/ CheckOwn(p)
  BY <1>8 DEF Return, CheckOwn, TypeOK, Unresolved
<1>9. CASE WriteResult(p)
  <2>1. mine[p] \in Ids /\ attempt[mine[p]] \in Claims
    BY <1>9 DEF WriteResult, TypeOK, ExclusionInv, Holds
  <2>2. [finishedAt |-> FinishTime(p)] \in Outcomes
    BY <2>1, FinishTimeType DEF Outcomes
  <2>3. QED
    BY <1>9, <2>1, <2>2 DEF WriteResult, TypeOK
<1>10. CASE Crash(p) \/ ReleaseFails(p)
  BY <1>10, BudgetAssumption DEF Crash, ReleaseFails, End, TypeOK, Times
<1>11. QED
  BY <1>1, <1>2, <1>3, <1>4, <1>5, <1>6, <1>7, <1>8, <1>9, <1>10 DEF Step

(* A request arrives, or the clock is set.                                 *)
LEMMA EnvironmentStep ==
  ASSUME TypeOK, ExclusionInv,
         SetClock \/ \E p \in Procs, o \in Owners : Request(p, o)
  PROVE  TypeOK' /\ ExclusionInv'
<1>1. CASE SetClock
  BY <1>1 DEF SetClock, TypeOK, ExclusionInv, Unresolved, Holds
<1>2. ASSUME NEW p \in Procs, NEW o \in Owners, Request(p, o)
      PROVE  TypeOK' /\ ExclusionInv'
  <2>1. TypeOK'
    BY <1>2 DEF Request, Goto, TypeOK, PCs, Locked
  <2>2. \A q \in Procs : pc'[q] \in Locked => lock' = q
    BY <1>2 DEF Request, Goto, TypeOK, ExclusionInv, Locked
  <2>3. QED
    BY <1>2, <2>1, <2>2, QuietStep DEF Request, Goto, files, PCs
<1>3. QED
  BY <1>1, <1>2

LEMMA TypeAndExclusion == Spec => [](TypeOK /\ ExclusionInv)
<1>1. TypeOK /\ ExclusionInv /\ [Next]_vars => TypeOK' /\ ExclusionInv'
  <2> SUFFICES ASSUME TypeOK, ExclusionInv, [Next]_vars
               PROVE  TypeOK' /\ ExclusionInv'
    OBVIOUS
  <2>1. CASE Next
    BY <2>1, StepType, StepExclusion, EnvironmentStep DEF Next
  <2>2. CASE UNCHANGED vars
    BY <2>2 DEF vars, TypeOK, ExclusionInv, Unresolved, Holds
  <2>3. QED
    BY <2>1, <2>2
<1>2. QED
  BY <1>1, InitExclusion, PTL DEF Spec

(* Every reachable state is well typed.                                    *)
THEOREM BudgetTypeCorrect == Spec => []TypeOK
BY TypeAndExclusion, PTL

(* However many processes share the ledger, at most one provider request   *)
(* is in flight, although no lock is held while it is.                     *)
THEOREM AtMostOneInFlight == Spec => []OneInFlight
<1>1. TypeOK /\ ExclusionInv => OneInFlight
  BY DEF ExclusionInv, OneInFlight, Holds
<1>2. QED
  BY <1>1, TypeAndExclusion, PTL

(* An attempt nobody will settle any more stops every provider request for *)
(* good: no crash makes a reservation look free or expired.                *)
THEOREM OrphansBlock == Spec => OrphanBlocks
<1>1. ASSUME TypeOK, ExclusionInv, [Next]_vars, Orphaned
      PROVE  Orphaned' /\ sends' = sends
  <2>1. \A p \in Procs : ~Send(p)
    BY <1>1 DEF Send, Orphaned, ExclusionInv, Holds
  <2>2. sends' = sends
    BY <1>1, <2>1
    DEF Next, vars, Step, Request, Acquire, LockTimeout, Decide, WriteAttempt, Release, Fault,
        ReleaseFails, Return, CheckOwn, WriteResult, Crash, SetClock
  <2>3. PICK id \in Unresolved : \A p \in Procs : mine[p] # id
    BY <1>1 DEF Orphaned
  <2>4. CASE \E p \in Procs : WriteAttempt(p)
    <3>1. PICK p \in Procs : WriteAttempt(p)
      BY <2>4
    <3>2. PICK new \in Ids \ Claimed : mine' = [mine EXCEPT ![p] = new]
      BY <3>1 DEF WriteAttempt
    <3>3. new # id
      BY <2>3, <3>2 DEF Unresolved, Claimed
    <3>4. \A q \in Procs : mine'[q] # id
      BY <2>3, <3>2, <3>3 DEF TypeOK
    <3>5. id \in Unresolved'
      BY <1>1, <2>3, <3>1 DEF WriteAttempt, Unresolved, Claimed, TypeOK
    <3>6. QED
      BY <2>2, <3>4, <3>5 DEF Orphaned
  <2>5. CASE \E p \in Procs : WriteResult(p)
    <3>1. \A p \in Procs : mine[p] # id
      BY <2>3
    <3>2. id \in Unresolved' /\ mine' = mine
      BY <1>1, <2>3, <2>5, <3>1 DEF WriteResult, Unresolved, TypeOK
    <3>3. QED
      BY <2>2, <3>1, <3>2 DEF Orphaned
  <2>6. CASE UNCHANGED files /\ \A p \in Procs : mine'[p] \in {mine[p], Nil}
    <3>1. id \in Unresolved' /\ id # Nil
      BY <2>3, <2>6, FilesAssumption DEF Unresolved, files
    <3>2. QED
      BY <2>2, <2>3, <2>6, <3>1 DEF Orphaned
  <2>7. \A p \in Procs : End(p) => \A q \in Procs : mine'[q] \in {mine[q], Nil}
    BY <1>1 DEF End, TypeOK
  <2>8. QED
    BY <1>1, <2>4, <2>5, <2>6, <2>7
    DEF Next, vars, files, Step, Request, Acquire, LockTimeout, Decide, Release, Fault, Send,
        ReleaseFails, Return, CheckOwn, Crash, SetClock
<1>2. TypeOK /\ ExclusionInv /\ [Next]_vars => [Orphaned => Orphaned' /\ sends' = sends]_vars
  BY <1>1
<1>3. QED
  BY <1>2, TypeAndExclusion, PTL DEF Spec, OrphanBlocks

-----------------------------------------------------------------------------
(* Counting.                                                               *)

(* Sets of attempts are finite and grow by one with a fresh attempt.       *)
LEMMA Counting ==
  ASSUME NEW S \in SUBSET Ids, NEW id \in Ids, id \notin S
  PROVE  /\ IsFiniteSet(S) /\ Cardinality(S) \in Nat
         /\ Cardinality(S \cup {id}) = Cardinality(S) + 1
<1>1. IsFiniteSet(S)
  BY BudgetAssumption, FS_Subset
<1>2. QED
  BY <1>1, FS_AddElement, FS_CardinalityType

(* A larger set of attempts has at least as many.                          *)
LEMMA CountingMono ==
  ASSUME NEW T \in SUBSET Ids, NEW S \in SUBSET T
  PROVE  Cardinality(S) <= Cardinality(T) /\ Cardinality(S) \in Nat /\ Cardinality(T) \in Nat
<1>1. IsFiniteSet(T)
  BY BudgetAssumption, FS_Subset
<1>2. QED
  BY <1>1, FS_Subset, FS_CardinalityType

(* The one step that adds an attempt.  A window that contains the new      *)
(* attempt lies inside the window that ends with it, as far as there are   *)
(* attempts, and that one had room.                                        *)
LEMMA WriteAttemptWindows ==
  ASSUME TypeOK, ExclusionInv, BoundsInv, NEW p \in Procs, WriteAttempt(p)
  PROVE  Cardinality(Claimed') <= Attempts /\ WindowsRespected'
<1>1. PICK id \in Ids \ Claimed, content \in {[owner |-> owner[p], startedAt |-> at[p]], Torn} :
        attempt' = [attempt EXCEPT ![id] = content]
  BY DEF WriteAttempt
<1>2. /\ pc[p] = "write" /\ Cardinality(Claimed) < Attempts /\ ~Limited(owner[p], at[p])
      /\ \A i \in Claimed : attempt[i] \in Claims /\ attempt[i].startedAt <= at[p]
      /\ at[p] \in Times /\ owner[p] \in Owners
  BY DEF WriteAttempt, BoundsInv, Counted, TypeOK
<1>3. content # Nil /\ \A i \in Ids : attempt'[i] = IF i = id THEN content ELSE attempt[i]
  BY <1>1, <1>2, FilesAssumption DEF TypeOK, Claims
<1>4. Claimed' = Claimed \cup {id} /\ id \notin Claimed /\ Claimed \in SUBSET Ids /\ id \in Ids
  BY <1>1, <1>3 DEF Claimed
<1>5. Cardinality(Claimed') <= Attempts
  BY <1>2, <1>4, Counting, BudgetAssumption
<1>6. \A i \in Claimed : attempt[i].startedAt \in Int
  BY <1>2, BudgetAssumption DEF Claims, Times
<1>7. ASSUME NEW t \in Times
      PROVE  Cardinality(InMinute(t)') <= GlobalPerMinute
  <2>1. InMinute(t) \in SUBSET Ids /\ InMinute(at[p]) \in SUBSET Ids /\ id \notin InMinute(t)
    BY <1>4 DEF InMinute
  <2>2. /\ Cardinality(InMinute(t)) <= GlobalPerMinute
        /\ Cardinality(InMinute(at[p])) < GlobalPerMinute
    BY <1>2, <2>1, CountingMono, BudgetAssumption DEF BoundsInv, WindowsRespected, Limited
  <2>3. CASE InMinute(t)' = InMinute(t)
    BY <2>2, <2>3
  <2>4. CASE InMinute(t)' # InMinute(t)
    <3>1. /\ InMinute(t)' = InMinute(t) \cup {id}
          /\ content \in Claims /\ t - Minute < at[p] /\ at[p] <= t
      BY <2>4, <1>1, <1>3, <1>4, FilesAssumption DEF InMinute
    <3>2. InMinute(t) \subseteq InMinute(at[p])
      BY <3>1, <1>2, <1>6, BudgetAssumption DEF InMinute, Times
    <3>3. Cardinality(InMinute(t)) <= Cardinality(InMinute(at[p]))
      BY <3>2, <2>1, CountingMono
    <3>4. Cardinality(InMinute(t)') = Cardinality(InMinute(t)) + 1
      BY <3>1, <2>1, <1>4, Counting
    <3>5. QED
      BY <3>3, <3>4, <2>2, <2>1, CountingMono, BudgetAssumption
  <2>5. QED
    BY <2>3, <2>4
<1>8. ASSUME NEW t \in Times, NEW o \in Owners
      PROVE  Cardinality(InHour(t, o)') <= VisitorPerHour
  <2>1. InHour(t, o) \in SUBSET Ids /\ InHour(at[p], o) \in SUBSET Ids /\ id \notin InHour(t, o)
    BY <1>4 DEF InHour
  <2>2. /\ Cardinality(InHour(t, o)) <= VisitorPerHour
        /\ o = owner[p] => Cardinality(InHour(at[p], o)) < VisitorPerHour
    BY <1>2, <2>1, CountingMono, BudgetAssumption DEF BoundsInv, WindowsRespected, Limited
  <2>3. CASE InHour(t, o)' = InHour(t, o)
    BY <2>2, <2>3
  <2>4. CASE InHour(t, o)' # InHour(t, o)
    <3>1. /\ InHour(t, o)' = InHour(t, o) \cup {id} /\ o = owner[p]
          /\ content \in Claims /\ t - Hour < at[p] /\ at[p] <= t
      BY <2>4, <1>1, <1>3, <1>4, FilesAssumption DEF InHour
    <3>2. InHour(t, o) \subseteq InHour(at[p], o)
      BY <3>1, <1>2, <1>6, BudgetAssumption DEF InHour, Times
    <3>3. Cardinality(InHour(t, o)) <= Cardinality(InHour(at[p], o))
      BY <3>2, <2>1, CountingMono
    <3>4. Cardinality(InHour(t, o)') = Cardinality(InHour(t, o)) + 1
      BY <3>1, <2>1, <1>4, Counting
    <3>5. QED
      BY <3>1, <3>3, <3>4, <2>2, <2>1, CountingMono, BudgetAssumption
  <2>5. QED
    BY <2>3, <2>4
<1>9. QED
  BY <1>5, <1>7, <1>8 DEF WindowsRespected

(* A step that leaves the attempts alone keeps the windows.                *)
LEMMA WindowsFrame ==
  ASSUME BoundsInv, attempt' = attempt
  PROVE  /\ Claimed' = Claimed /\ Cardinality(Claimed') <= Attempts /\ WindowsRespected'
<1>1. /\ Claimed' = Claimed
      /\ \A t : InMinute(t)' = InMinute(t)
      /\ \A t, o : InHour(t, o)' = InHour(t, o)
  BY DEF Claimed, InMinute, InHour
<1>2. QED
  BY <1>1 DEF BoundsInv, WindowsRespected

(* What a process has counted stays true while the attempts do.            *)
LEMMA CountedFrame ==
  ASSUME NEW q \in Procs, attempt' = attempt, at'[q] = at[q], owner'[q] = owner[q], Counted(q)
  PROVE  Counted(q)'
BY DEF Counted, Limited, InMinute, InHour, Claimed

(* The clauses about sends and results, when neither changes.              *)
LEMMA BoundsFrame ==
  ASSUME TypeOK, BoundsInv, UNCHANGED <<attempt, result, sends>>,
         \A q \in Procs : pc'[q] = "write" =>
           pc[q] = "write" /\ at'[q] = at[q] /\ owner'[q] = owner[q],
         \A q \in Procs : pc'[q] \in {"admitted", "send"} =>
           pc[q] \in {"admitted", "send"} /\ mine'[q] = mine[q]
  PROVE  BoundsInv'
<1>1. \A q \in Procs : pc'[q] = "write" => Counted(q)'
  BY CountedFrame DEF BoundsInv
<1>2. QED
  BY <1>1, WindowsFrame DEF BoundsInv

(* Decide counts under the lock, at the time it reads.                     *)
LEMMA DecideBounds ==
  ASSUME TypeOK, BoundsInv, NEW p \in Procs, Decide(p)
  PROVE  BoundsInv'
<1>1. CASE Verdict(owner[p], clock) = "admit"
  <2>1. /\ at' = [at EXCEPT ![p] = clock] /\ pc' = [pc EXCEPT ![p] = "write"]
        /\ UNCHANGED <<attempt, result, owner, mine, sends>>
    BY <1>1 DEF Decide, Goto
  <2>2. /\ InventoryOK /\ Cardinality(Claimed) < Attempts /\ ~Limited(owner[p], clock)
        /\ ~\E id \in Claimed : attempt[id].startedAt > clock
    <3>1. Cardinality(Claimed) \in Nat /\ Attempts \in Nat
      BY CountingMono, BudgetAssumption DEF Claimed
    <3>2. QED
      BY <1>1, <3>1 DEF Verdict
  <2>3. \A id \in Claimed : attempt[id] \in Claims /\ attempt[id].startedAt <= clock
    <3>1. \A id \in Claimed : attempt[id] \in Claims
      BY <2>2 DEF InventoryOK, Claimed, TypeOK
    <3>2. QED
      BY <2>2, <3>1, BudgetAssumption DEF Claims, Times, TypeOK
  <2>4. Counted(p)'
    <3>1. at'[p] = clock /\ owner'[p] = owner[p]
      BY <2>1 DEF TypeOK
    <3>2. QED
      BY <2>1, <2>2, <2>3, <3>1 DEF Counted, Limited, InMinute, InHour, Claimed
  <2>5. \A q \in Procs : pc'[q] = "write" => Counted(q)'
    <3>1. ASSUME NEW q \in Procs, q # p, pc'[q] = "write"
          PROVE  Counted(q)'
      <4>1. pc[q] = "write" /\ at'[q] = at[q] /\ owner'[q] = owner[q]
        BY <2>1, <3>1 DEF TypeOK
      <4>2. QED
        BY <2>1, <4>1, CountedFrame DEF BoundsInv
    <3>2. QED
      BY <2>4, <3>1
  <2>6. \A q \in Procs : pc'[q] \in {"admitted", "send"} => pc[q] \in {"admitted", "send"}
    BY <2>1 DEF TypeOK
  <2>7. QED
    BY <2>1, <2>5, <2>6, WindowsFrame DEF BoundsInv
<1>2. CASE Verdict(owner[p], clock) # "admit"
  BY <1>2, BoundsFrame DEF Decide, Goto, TypeOK
<1>3. QED
  BY <1>1, <1>2

LEMMA WriteAttemptBounds ==
  ASSUME TypeOK, ExclusionInv, BoundsInv, NEW p \in Procs, WriteAttempt(p)
  PROVE  BoundsInv'
<1>1. PICK id \in Ids \ Claimed, content \in {[owner |-> owner[p], startedAt |-> at[p]], Torn} :
        /\ attempt' = [attempt EXCEPT ![id] = content]
        /\ mine' = [mine EXCEPT ![p] = id]
        /\ pc' = [pc EXCEPT ![p] = IF content = Torn THEN "done" ELSE "admitted"]
  BY DEF WriteAttempt, Goto
<1>2. pc[p] = "write" /\ lock = p /\ UNCHANGED <<result, sends>>
  BY DEF WriteAttempt, ExclusionInv, Locked
<1>3. attempt[id] = Nil /\ attempt[id] \notin Claims
  BY <1>1, FilesAssumption DEF Claimed
<1>4. sends[id] = 0 /\ result[id] = Nil
  BY <1>1, <1>3, FilesAssumption DEF BoundsInv, ExclusionInv
<1>5. \A q \in Procs : pc'[q] # "write"
  BY <1>1, <1>2 DEF ExclusionInv, TypeOK, Locked
<1>6. \A i \in Ids : sends'[i] \in {0, 1} /\ (sends'[i] = 1 => attempt'[i] \in Claims)
  BY <1>1, <1>2, <1>4 DEF BoundsInv, TypeOK
<1>7. \A q \in Procs : pc'[q] \in {"admitted", "send"} => sends'[mine'[q]] = 0
  BY <1>1, <1>2, <1>4 DEF BoundsInv, TypeOK
<1>8. \A i \in Ids : result'[i] \in Outcomes => result'[i].finishedAt >= attempt'[i].startedAt
  BY <1>1, <1>2, <1>4, FilesAssumption DEF BoundsInv, TypeOK
<1>9. QED
  BY <1>5, <1>6, <1>7, <1>8, WriteAttemptWindows DEF BoundsInv

LEMMA SendBounds ==
  ASSUME TypeOK, ExclusionInv, BoundsInv, NEW p \in Procs, Send(p)
  PROVE  BoundsInv'
<1>1. /\ mine[p] \in Ids /\ attempt[mine[p]] \in Claims /\ sends[mine[p]] = 0
      /\ \A q \in Procs : q # p /\ Holds(q) => mine[q] # mine[p]
  BY DEF Send, TypeOK, ExclusionInv, BoundsInv, Holds
<1>2. /\ sends' = [sends EXCEPT ![mine[p]] = 1] /\ pc' = [pc EXCEPT ![p] = "sent"]
      /\ UNCHANGED <<attempt, result, owner, mine, at>>
  BY <1>1 DEF Send, Goto
<1>3. \A i \in Ids : sends'[i] \in {0, 1} /\ (sends'[i] = 1 => attempt'[i] \in Claims)
  BY <1>1, <1>2 DEF BoundsInv, TypeOK
<1>4. \A q \in Procs : pc'[q] \in {"admitted", "send"} => sends'[mine'[q]] = 0
  <2> SUFFICES ASSUME NEW q \in Procs, pc'[q] \in {"admitted", "send"}
               PROVE  sends'[mine'[q]] = 0
    OBVIOUS
  <2>1. q # p /\ pc[q] \in {"admitted", "send"}
    BY <1>2 DEF TypeOK
  <2>2. mine[q] \in Ids /\ mine[q] # mine[p] /\ sends[mine[q]] = 0
    BY <1>1, <2>1 DEF Holds, TypeOK, BoundsInv
  <2>3. QED
    BY <1>1, <1>2, <2>2 DEF TypeOK
<1>5. \A q \in Procs : pc'[q] = "write" => Counted(q)'
  BY <1>2, CountedFrame DEF BoundsInv, TypeOK
<1>6. QED
  BY <1>2, <1>3, <1>4, <1>5, WindowsFrame DEF BoundsInv

LEMMA WriteResultBounds ==
  ASSUME TypeOK, ExclusionInv, BoundsInv, NEW p \in Procs, WriteResult(p)
  PROVE  BoundsInv'
<1>1. PICK content \in {[finishedAt |-> FinishTime(p)], Torn} :
        result' = [result EXCEPT ![mine[p]] = content]
  BY DEF WriteResult
<1>2. /\ mine[p] \in Ids /\ attempt[mine[p]] \in Claims
      /\ UNCHANGED <<attempt, owner, mine, at, sends>> /\ pc' = [pc EXCEPT ![p] = "done"]
  BY DEF WriteResult, Goto, TypeOK, ExclusionInv, Holds
<1>3. \A i \in Ids : result'[i] \in Outcomes => result'[i].finishedAt >= attempt'[i].startedAt
  BY <1>1, <1>2, FinishTimeType, FilesAssumption DEF BoundsInv, TypeOK
<1>4. \A q \in Procs : pc'[q] = "write" => Counted(q)'
  BY <1>2, CountedFrame DEF BoundsInv, TypeOK
<1>5. \A q \in Procs : pc'[q] \in {"admitted", "send"} => sends'[mine'[q]] = 0
  BY <1>2 DEF BoundsInv, TypeOK
<1>6. QED
  BY <1>2, <1>3, <1>4, <1>5, WindowsFrame DEF BoundsInv

LEMMA OtherBounds ==
  ASSUME TypeOK, BoundsInv,
         \/ SetClock
         \/ \E p \in Procs, o \in Owners : Request(p, o)
         \/ \E p \in Procs : \/ Acquire(p) \/ LockTimeout(p) \/ Release(p) \/ Fault(p)
                             \/ Return(p) \/ CheckOwn(p) \/ Crash(p) \/ ReleaseFails(p)
  PROVE  BoundsInv'
<1>1. UNCHANGED <<attempt, result, sends>>
  BY DEF SetClock, Request, Acquire, LockTimeout, Release, Fault, Return, CheckOwn, Crash,
         ReleaseFails
<1>2. \A q \in Procs : pc'[q] = "write" =>
        pc[q] = "write" /\ at'[q] = at[q] /\ owner'[q] = owner[q]
  BY DEF SetClock, Request, Acquire, LockTimeout, Release, Fault, Return, CheckOwn, Crash, End,
         ReleaseFails, Goto, TypeOK
<1>3. \A q \in Procs : pc'[q] \in {"admitted", "send"} =>
        pc[q] \in {"admitted", "send"} /\ mine'[q] = mine[q]
  BY DEF SetClock, Request, Acquire, LockTimeout, Release, Fault, Return, CheckOwn, Crash, End,
         ReleaseFails, Goto, TypeOK
<1>4. QED
  BY <1>1, <1>2, <1>3, BoundsFrame

LEMMA Bounds == Spec => []BoundsInv
<1>1. Init => BoundsInv
  <2> SUFFICES ASSUME Init
               PROVE  BoundsInv
    OBVIOUS
  <2>1. Claimed = {} /\ \A t : InMinute(t) = {} /\ \A o : InHour(t, o) = {}
    BY DEF Init, Claimed, InMinute, InHour
  <2>2. QED
    BY <2>1, FS_EmptySet, BudgetAssumption, FilesAssumption DEF Init, BoundsInv, WindowsRespected
<1>2. TypeOK /\ ExclusionInv /\ BoundsInv /\ [Next]_vars => BoundsInv'
  <2> SUFFICES ASSUME TypeOK, ExclusionInv, BoundsInv, [Next]_vars
               PROVE  BoundsInv'
    OBVIOUS
  <2>1. CASE UNCHANGED vars
    BY <2>1, BoundsFrame DEF vars
  <2>2. CASE Next
    BY <2>2, DecideBounds, WriteAttemptBounds, SendBounds, WriteResultBounds, OtherBounds
    DEF Next, Step
  <2>3. QED
    BY <2>1, <2>2
<1>3. QED
  BY <1>1, <1>2, TypeAndExclusion, PTL DEF Spec

(* The ledger never lets more provider requests out than it has attempts,  *)
(* and none without a durable attempt of its own.                          *)
THEOREM AllowanceHolds == Spec => []WithinAllowance
<1>1. ASSUME TypeOK, BoundsInv
      PROVE  WithinAllowance
  <2>1. \A id \in Ids : sends[id] <= 1 /\ (sends[id] = 1 => attempt[id] \in Claims)
    BY <1>1 DEF BoundsInv
  <2>2. {id \in Ids : sends[id] > 0} \in SUBSET Claimed /\ Claimed \in SUBSET Ids
    BY <1>1, FilesAssumption DEF BoundsInv, Claimed
  <2>3. Cardinality({id \in Ids : sends[id] > 0}) <= Cardinality(Claimed)
    BY <2>2, CountingMono
  <2>4. QED
    BY <1>1, <2>1, <2>2, <2>3, CountingMono, BudgetAssumption DEF BoundsInv, WithinAllowance
<1>2. QED
  BY <1>1, Bounds, TypeAndExclusion, PTL

(* Both rolling windows hold for every limit, every window length and      *)
(* every way the clock is set, forward and back.                           *)
THEOREM RateLimitsHold == Spec => []WindowsRespected
<1>1. BoundsInv => WindowsRespected
  BY DEF BoundsInv
<1>2. QED
  BY <1>1, Bounds, PTL

(* No sequence of reservations, settlements and clock changes leads the    *)
(* ledger into a state its own inventory refuses; only a torn file does.   *)
THEOREM LedgerStaysHealthy == Spec => []HealthyUnlessTorn
<1>1. ASSUME TypeOK, ExclusionInv, BoundsInv
      PROVE  HealthyUnlessTorn
  BY <1>1, FilesAssumption
  DEF HealthyUnlessTorn, InventoryOK, TypeOK, ExclusionInv, BoundsInv
<1>2. QED
  BY <1>1, Bounds, TypeAndExclusion, PTL
=============================================================================
