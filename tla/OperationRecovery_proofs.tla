---------------------- MODULE OperationRecovery_proofs ----------------------
(***************************************************************************)
(* With lost receipts, backups and restores, for any number of each: the   *)
(* promises of the store that survive them, the hold that a restore leaves *)
(* to the next verify, the receipts that come back, and the capacity.      *)
(***************************************************************************)
EXTENDS OperationRecovery, OperationStore_proofs

-----------------------------------------------------------------------------
(* A step is one of the store's, or one of these, which no request takes   *)
(* part in and which leave the index alone.                                *)
Beyond ==
  \/ BeginMaintenance("backup") /\ UNCHANGED recoveryVars
  \/ \E ops \in SUBSET {op \in Ops : root[op].dir} : Lose(ops)
  \/ TakeBackup \/ Restore

LEMMA BeyondFrame ==
  ASSUME Beyond
  PROVE  UNCHANGED <<guard, req, up, slot, calls>>
BY DEF Beyond, BeginMaintenance, Lose, TakeBackup, Restore, BeginRestore, LockRestore, EndRestore,
       CrashBeforeLock, Preserve, BringBack, vars

(* Of the store's steps, verify alone lifts the hold, and none begins a    *)
(* restore.                                                                *)
LEMMA StoreSteps ==
  ASSUME TypeOK, RecoveryNext, ~Beyond
  PROVE  /\ Next /\ UNCHANGED <<backup, lost>>
         /\ pending' \subseteq pending
         /\ unverified' => unverified /\ (hold => hold')
         /\ cli' \in {"restore", "restoring"} => cli' = cli /\ (hold => hold')
<1>1. CASE StoreStep /\ UNCHANGED recoveryVars
  <2>1. ~BeginMaintenance("backup")
    BY <1>1 DEF Beyond
  <2>2. Next
    BY <1>1, <2>1 DEF StoreStep, Next, Operate
  <2>3. ASSUME NEW w \in Workers, Serve(w)
        PROVE  hold' = hold /\ cli' = cli
    BY <2>3
    DEF Serve, LockStep, ClaimStep, CallStep, CompleteStep, Acquire, LockTimeout, WriteHolder, Fault,
        Release, ReleaseFails, Read, TakeSlot, Claim, Reread, MkGuard, MkRoot, WriteRecord, WriteClaim,
        CallProvider, HandlerThrows, Respond, Complete, WriteTmp, WriteDone, Rename
  <2>4. ASSUME UnlockHold \/ UnlockRelease \/ EndMaintenance \/ \E op \in Ops : Quarantine(op)
        PROVE  (hold => hold') /\ cli' \notin {"restore", "restoring"}
    BY <2>4 DEF UnlockHold, UnlockRelease, EndMaintenance, Quarantine
  <2>5. ASSUME NEW command \in {"quarantine", "verify", "backup"}, BeginMaintenance(command)
        PROVE  hold' = hold /\ cli' \notin {"restore", "restoring"}
    BY <2>5 DEF BeginMaintenance
  <2>6. (hold => hold') /\ (cli' \in {"restore", "restoring"} => cli' = cli)
    <3>1. ASSUME NEW w \in Workers,
                 \/ Disconnect(w)
                 \/ \E op \in Ops, o \in Owners, i \in Inputs \cup {Nil} : Submit(w, op, o, i)
          PROVE  hold' = hold /\ cli' = cli
      BY <3>1 DEF Disconnect, Submit
    <3>2. ASSUME NEW p \in Procs, Start(p) \/ Crash(p)
          PROVE  hold' = hold /\ cli' = cli
      BY <3>2 DEF Start, Crash
    <3>3. QED
      BY <1>1, <2>3, <2>4, <2>5, <3>1, <3>2 DEF StoreStep
  <2>7. QED
    BY <1>1, <2>2, <2>6 DEF recoveryVars
<1>2. CASE CrashCommand
  <2>1. Next
    BY <1>2 DEF CrashCommand, Next, Operate
  <2>2. QED
    BY <1>2, <2>1 DEF CrashCommand, CrashMaintenance
<1>3. CASE LiftHold
  <2>1. Next
    BY <1>3 DEF LiftHold, Next, Operate
  <2>2. QED
    BY <1>3, <2>1 DEF LiftHold, VerifyRecovery
<1>4. QED
  BY <1>1, <1>2, <1>3 DEF RecoveryNext, Beyond

-----------------------------------------------------------------------------
(* Types and the lock.                                                     *)

LEMMA RestoredReceipt ==
  ASSUME TypeOK, NEW o \in Ops, NEW content \in Record \cup NoFile,
         root' = [root EXCEPT ![o] = [@ EXCEPT !.dir = TRUE, !.record = content]]
  PROVE  /\ root' \in [Ops -> Receipt]
         /\ root'[o].dir /\ root'[o].record = content /\ root'[o].tmp = root[o].tmp
         /\ \A op \in Ops : op # o => root'[op] = root[op]
<1>1. root[o] \in Receipt
  BY DEF TypeOK
<1>2. [root[o] EXCEPT !.dir = TRUE, !.record = content] \in Receipt
  BY <1>1 DEF Receipt
<1>3. root' \in [Ops -> Receipt]
  BY <1>2 DEF TypeOK
<1>4. QED
  BY <1>1, <1>3 DEF TypeOK, Receipt

LEMMA LostReceipts ==
  ASSUME TypeOK, NEW ops, Lose(ops)
  PROVE  /\ root' \in [Ops -> Receipt]
         /\ \A op \in Ops : op \in ops => /\ ~root'[op].dir /\ root'[op].record = Nil /\ root'[op].tmp = Nil
                                          /\ lost'[op] = root[op].record
         /\ \A op \in Ops : op \notin ops => root'[op] = root[op] /\ lost'[op] = lost[op]
<1>1. [dir |-> FALSE, record |-> Nil, tmp |-> Nil] \in Receipt
  BY DEF Receipt, NoFile
<1>2. \A op \in Ops : root'[op] = IF op \in ops THEN [dir |-> FALSE, record |-> Nil, tmp |-> Nil]
                                  ELSE root[op]
  BY DEF Lose
<1>3. root' \in [Ops -> Receipt]
  BY <1>1 DEF Lose, TypeOK
<1>4. QED
  BY <1>2, <1>3 DEF Lose

LEMMA BeyondTypeLock ==
  ASSUME TypeOK, LockInv, RecoveryTypeOK, Beyond
  PROVE  TypeOK' /\ LockInv' /\ RecoveryTypeOK'
<1> USE LockAssumption DEF UnderLock, Commands, NotWorkers
<1>1. UNCHANGED <<guard, req, up, slot, calls>>
  BY BeyondFrame
<1>2. CASE BeginMaintenance("backup") /\ UNCHANGED recoveryVars
  <2>1. lock' \in [by : Workers \cup NotWorkers, holder : {"none", "torn", "pid"}] /\ lock'.by = "operator"
    BY <1>2 DEF BeginMaintenance
  <2>2. QED
    BY <1>1, <1>2, <2>1 DEF BeginMaintenance, TypeOK, LockInv, WritersExcluded, RecoveryTypeOK, recoveryVars
<1>3. ASSUME NEW ops \in SUBSET {op \in Ops : root[op].dir}, Lose(ops)
      PROVE  TypeOK' /\ LockInv' /\ RecoveryTypeOK'
  <2>1. root' \in [Ops -> Receipt]
    BY <1>3, LostReceipts
  <2>2. lost' \in [Ops -> Record \cup NoFile]
    <3>1. \A op \in Ops : root[op].record \in Record \cup NoFile
      BY DEF TypeOK, Receipt
    <3>2. QED
      BY <1>3, <3>1 DEF Lose, RecoveryTypeOK
  <2>3. UNCHANGED <<guard, hold, lock, up, slot, req, calls, cli, backup, pending>>
    BY <1>3 DEF Lose
  <2>4. TypeOK'
    BY <2>1, <2>3 DEF TypeOK
  <2>5. LockInv' /\ RecoveryTypeOK'
    BY <2>2, <2>3 DEF LockInv, WritersExcluded, RecoveryTypeOK
  <2>6. QED
    BY <2>4, <2>5
<1>4. CASE TakeBackup
  <2>1. \A op \in Ops : Known(op) => root[op].record \in Record
    BY <1>4 DEF TakeBackup, InventoryOK, KnownOps, Readable
  <2>2. backup' \in [Ops -> Record \cup {Nil}]
    BY <1>4, <2>1 DEF TakeBackup
  <2>3. QED
    BY <1>1, <1>4, <2>2 DEF TakeBackup, TypeOK, LockInv, WritersExcluded, RecoveryTypeOK
<1>5. CASE LockRestore
  <2>1. CASE lock.by = "free"
    <3>1. lock' \in [by : Workers \cup NotWorkers, holder : {"none", "torn", "pid"}] /\ lock'.by = "operator"
      BY <1>5, <2>1 DEF LockRestore
    <3>2. QED
      BY <1>1, <1>5, <2>1, <3>1 DEF LockRestore, TypeOK, LockInv, WritersExcluded, RecoveryTypeOK
  <2>2. CASE lock.by # "free"
    BY <1>1, <1>5, <2>2 DEF LockRestore, TypeOK, LockInv, WritersExcluded, RecoveryTypeOK
  <2>3. QED
    BY <2>1, <2>2
<1>6. ASSUME NEW op \in Ops, BringBack(op)
      PROVE  TypeOK' /\ LockInv' /\ RecoveryTypeOK'
  <2>1. PICK content \in {backup[op], Torn} :
          /\ root' = [root EXCEPT ![op] = [@ EXCEPT !.dir = TRUE, !.record = content]]
          /\ IF content = Torn THEN cli' = "release" /\ pending' = {}
             ELSE cli' = cli /\ pending' = pending \ {op}
    BY <1>6 DEF BringBack
  <2>2. content \in Record \cup NoFile
    BY <1>6, <2>1 DEF BringBack, NoFile
  <2>3. root' \in [Ops -> Receipt]
    BY <2>1, <2>2, RestoredReceipt
  <2>4. QED
    BY <1>1, <1>6, <2>1, <2>3 DEF BringBack, TypeOK, LockInv, WritersExcluded, RecoveryTypeOK
<1>7. CASE BeginRestore \/ EndRestore \/ CrashBeforeLock \/ \E op \in Ops : Preserve(op)
  BY <1>1, <1>7
  DEF BeginRestore, EndRestore, CrashBeforeLock, Preserve, TypeOK, LockInv, WritersExcluded,
      RecoveryTypeOK, recoveryVars, vars
<1>8. QED
  BY <1>2, <1>3, <1>4, <1>5, <1>6, <1>7 DEF Beyond, Restore

LEMMA RecoveryTypeAndLock == RecoverySpec => [](TypeOK /\ LockInv /\ RecoveryTypeOK)
<1>1. RecoveryInit => TypeOK /\ LockInv /\ RecoveryTypeOK
  BY InitTypeLock DEF RecoveryInit, RecoveryTypeOK, NoFile
<1>2. TypeOK /\ LockInv /\ RecoveryTypeOK /\ [RecoveryNext]_allVars
        => TypeOK' /\ LockInv' /\ RecoveryTypeOK'
  <2> SUFFICES ASSUME TypeOK, LockInv, RecoveryTypeOK, [RecoveryNext]_allVars
               PROVE  TypeOK' /\ LockInv' /\ RecoveryTypeOK'
    OBVIOUS
  <2>1. CASE RecoveryNext /\ Beyond
    BY <2>1, BeyondTypeLock
  <2>2. CASE RecoveryNext /\ ~Beyond
    <3>1. Next /\ UNCHANGED <<backup, lost>> /\ pending' \subseteq pending
      BY <2>2, StoreSteps
    <3>2. QED
      BY <3>1, NextTypeLock DEF RecoveryTypeOK
  <2>3. CASE UNCHANGED allVars
    BY <2>3, NextTypeLock DEF allVars, recoveryVars, RecoveryTypeOK
  <2>4. QED
    BY <2>1, <2>2, <2>3
<1>3. QED
  BY <1>1, <1>2, PTL DEF RecoverySpec

(* Files change in the hands of the lock holder only: a request, or one    *)
(* recovery command, backup and restore included.                          *)
THEOREM WritersStayExcluded == RecoverySpec => []WritersExcluded
<1>1. LockInv => WritersExcluded
  BY DEF LockInv
<1>2. QED
  BY <1>1, RecoveryTypeAndLock, PTL

(* No backup, loss or restore makes an identifier callable again.          *)
THEOREM StillOneCall == RecoverySpec => []AtMostOneProviderCall
<1>1. RecoveryInit => CallInv
  BY DEF RecoveryInit, Init, CallInv, Entitled, IdleRequest
<1>2. TypeOK /\ CallInv /\ [RecoveryNext]_allVars => CallInv'
  <2> SUFFICES ASSUME TypeOK, CallInv, [RecoveryNext]_allVars
               PROVE  CallInv'
    OBVIOUS
  <2>1. CASE UNCHANGED <<guard, req, calls>>
    BY <2>1, CallFrame DEF Entitled
  <2>2. CASE RecoveryNext /\ ~Beyond
    BY <2>2, StoreSteps, ServeCall, OtherCall DEF Next
  <2>3. QED
    BY <2>1, <2>2, BeyondFrame DEF allVars, vars
<1>3. CallInv => AtMostOneProviderCall
  BY DEF CallInv, AtMostOneProviderCall
<1>4. QED
  BY <1>1, <1>2, <1>3, RecoveryTypeAndLock, PTL DEF RecoverySpec

-----------------------------------------------------------------------------
(* Admission.                                                              *)

(* Who is about to create the first directory has the lock, in a running   *)
(* process, and only a step that needs neither stopped services nor the    *)
(* lock can come in between: it leaves files and hold alone.               *)
LEMMA DecisionStandsBeyond ==
  ASSUME TypeOK, LockInv, Beyond, NEW w \in Workers, req[w].pc = "mkguard"
  PROVE  UNCHANGED <<store, hold>>
<1>1. lock.by = w /\ up[ProcOf[w]] /\ ProcOf[w] \in Procs
  BY ProcAssumption DEF LockInv, WritersExcluded, Inner, ClaimWrites
<1>2. cli \notin UnderLock
  BY <1>1, LockAssumption DEF LockInv, WritersExcluded, NotWorkers
<1>3. \A op \in Ops : ~BringBack(op) /\ ~Preserve(op)
  BY <1>2 DEF BringBack, Preserve, UnderLock
<1>4. ~TakeBackup /\ ~EndRestore
  BY <1>2 DEF TakeBackup, EndRestore, UnderLock
<1>5. ~BeginRestore /\ \A ops : ~Lose(ops)
  BY <1>1 DEF BeginRestore, Stopped, Lose
<1>6. QED
  BY <1>3, <1>4, <1>5 DEF Beyond, Restore, BeginMaintenance, LockRestore, CrashBeforeLock, store

LEMMA RecoveryAdmits == RecoverySpec => []AdmitInv
<1>1. RecoveryInit => AdmitInv
  BY DEF RecoveryInit, Init, AdmitInv, IdleRequest
<1>2. TypeOK /\ LockInv /\ AdmitInv /\ [RecoveryNext]_allVars => AdmitInv'
  <2> SUFFICES ASSUME TypeOK, LockInv, AdmitInv, [RecoveryNext]_allVars
               PROVE  AdmitInv'
    OBVIOUS
  <2>1. ASSUME req' = req, \A w \in Workers : req[w].pc = "mkguard" => UNCHANGED <<store, hold>>
        PROVE  AdmitInv'
    BY <2>1, SameInventory DEF AdmitInv, Known, store
  <2>2. CASE RecoveryNext /\ Beyond
    BY <2>1, <2>2, BeyondFrame, DecisionStandsBeyond
  <2>3. CASE RecoveryNext /\ ~Beyond
    BY <2>3, StoreSteps, NextAdmit
  <2>4. CASE UNCHANGED allVars
    BY <2>1, <2>4 DEF allVars, vars, store
  <2>5. QED
    BY <2>2, <2>3, <2>4
<1>3. QED
  BY <1>1, <1>2, RecoveryTypeAndLock, PTL DEF RecoverySpec

(* A claim begins only in a step of the store.                             *)
LEMMA AddedByMkGuard ==
  ASSUME TypeOK, RecoveryNext, NEW op \in Ops, ~guard[op].dir, guard'[op].dir
  PROVE  \E w \in Workers : MkGuard(w)
BY StoreSteps, BeyondFrame, OnlyMkGuardAdds

(* Lost receipts and half a restore stop admission as torn files do.       *)
THEOREM AdmissionStaysHealthy == RecoverySpec => AdmittedOnlyWhenHealthy
<1>1. TypeOK /\ AdmitInv /\ [RecoveryNext]_allVars =>
        [\A op \in Ops : ~guard[op].dir /\ guard'[op].dir => ~hold /\ InventoryOK]_vars
  <2> SUFFICES ASSUME TypeOK, AdmitInv, [RecoveryNext]_allVars, NEW op \in Ops,
                      ~guard[op].dir, guard'[op].dir
               PROVE  ~hold /\ InventoryOK
    OBVIOUS
  <2>1. RecoveryNext
    BY DEF allVars, vars
  <2>2. PICK w \in Workers : MkGuard(w)
    BY <2>1, AddedByMkGuard
  <2>3. QED
    BY <2>2 DEF MkGuard, AdmitInv
<1>2. QED
  BY <1>1, RecoveryTypeAndLock, RecoveryAdmits, PTL DEF RecoverySpec, AdmittedOnlyWhenHealthy

-----------------------------------------------------------------------------
(* The hold of a restore.                                                  *)

LEMMA NewClaimant ==
  ASSUME TypeOK, Next, NEW w \in Workers, Claimant(w)', ~Claimant(w)
  PROVE  req[w].pc = "mkguard"
<1> USE DEF PCs, Sections, Inner, Outer, ClaimWrites, CompleteWrites
<1>1. req'[w] # req[w] /\ req'[w] # IdleRequest
  BY DEF Claimant, IdleRequest
<1>2. \A op \in Ops, o \in Owners, i \in Inputs \cup {Nil} : ~Submit(w, op, o, i)
  <2> SUFFICES ASSUME NEW op \in Ops, NEW o \in Owners, NEW i \in Inputs \cup {Nil}, Submit(w, op, o, i)
               PROVE  FALSE
    OBVIOUS
  <2>1. req'[w] = [IdleRequest EXCEPT !.pc = "read", !.op = op, !.owner = o, !.input = i]
    BY DEF Submit, TypeOK
  <2>2. req'[w].pc = "read"
    BY <2>1 DEF IdleRequest
  <2>3. QED
    BY <2>2 DEF Claimant
<1>3. Serve(w)
  BY <1>1, <1>2, RequestSteps
<1>4. ~LockStep(w)
  <2>1. ASSUME Release(w)
        PROVE  FALSE
    <3>1. req[w].next \in Nexts /\ req[w].next # "call"
      BY <2>1 DEF Release, Claimant, TypeOK, Request
    <3>2. req'[w].pc = req[w].next
      BY <2>1, <3>1, Moves DEF Release, Nexts
    <3>3. QED
      BY <3>1, <3>2 DEF Nexts, Claimant
  <2>2. ASSUME Fault(w)
        PROVE  FALSE
    BY <2>2, LeaveDrops DEF Fault
  <2>3. QED
    BY <1>1, <2>1, <2>2, Moves
    DEF LockStep, Acquire, LockTimeout, WriteHolder, ReleaseFails, Claimant
<1>5. ~CallStep(w) /\ ~CompleteStep(w)
  BY Moves
  DEF CallStep, CallProvider, HandlerThrows, Respond, CompleteStep, Complete, Inside, WriteTmp,
      WriteDone, Rename, Claimant
<1>6. ~Read(w) /\ ~Reread(w) /\ ~TakeSlot(w) /\ ~Claim(w)
  BY LeaveDrops, Moves DEF Read, Reread, TakeSlot, Claim, Claimant
<1>7. QED
  BY <1>3, <1>4, <1>5, <1>6 DEF Serve, ClaimStep, MkGuard, MkRoot, WriteRecord, WriteClaim, Claimant

LEMMA RecoveryHolds == RecoverySpec => []HoldInv
<1>1. RecoveryInit => HoldInv
  BY DEF RecoveryInit, Init, HoldInv
<1>2. TypeOK /\ LockInv /\ HoldInv /\ [RecoveryNext]_allVars => HoldInv'
  <2> SUFFICES ASSUME TypeOK, LockInv, HoldInv, [RecoveryNext]_allVars
               PROVE  HoldInv'
    OBVIOUS
  <2>1. CASE RecoveryNext /\ ~Beyond
    <3>1. Next
      BY <2>1, StoreSteps
    <3>2. ASSUME hold, NEW w \in Workers, req[w].pc # "mkguard"
          PROVE  req'[w].pc # "mkguard"
      BY <3>1, <3>2, DecidedByClaim DEF Claim
    <3>3. ASSUME cli' \in {"restore", "restoring"}
          PROVE  backup' # Nil /\ hold' /\ \A w \in Workers : ~Claimant(w)' /\ req'[w].pc # "mkguard"
      <4>1. UNCHANGED <<backup, cli>> /\ (hold => hold')
        BY <2>1, <3>3, StoreSteps
      <4>2. backup # Nil /\ hold /\ \A w \in Workers : ~Claimant(w) /\ req[w].pc # "mkguard"
        BY <3>3, <4>1 DEF HoldInv
      <4>3. QED
        BY <3>1, <3>2, <4>1, <4>2, NewClaimant
    <3>4. ASSUME unverified'
          PROVE  hold' /\ \A w \in Workers : req'[w].pc # "mkguard"
      BY <2>1, <3>2, <3>4, StoreSteps DEF HoldInv
    <3>5. QED
      BY <3>3, <3>4 DEF HoldInv
  <2>2. CASE RecoveryNext /\ Beyond
    <3>1. req' = req /\ \A w \in Workers : Claimant(w)' = Claimant(w)
      BY <2>2, BeyondFrame DEF Claimant
    <3>2. CASE BeginRestore
      <4>1. \A w \in Workers : req[w].pc = "idle"
        BY <3>2, ProcAssumption DEF BeginRestore, Stopped, LockInv
      <4>2. \A w \in Workers : ~Claimant(w)
        BY <4>1 DEF Claimant, CompleteWrites
      <4>3. QED
        BY <3>1, <3>2, <4>1, <4>2 DEF BeginRestore, HoldInv, recoveryVars
    <3>3. CASE LockRestore
      BY <3>1, <3>3 DEF LockRestore, HoldInv
    <3>4. CASE BeginMaintenance("backup") /\ UNCHANGED recoveryVars
      BY <3>1, <3>4 DEF BeginMaintenance, HoldInv, recoveryVars
    <3>5. ASSUME UNCHANGED <<hold, unverified>>,
                 cli' \in {"release", "idle"} \/ (cli' = cli /\ backup' = backup)
          PROVE  HoldInv'
      BY <3>1, <3>5 DEF HoldInv
    <3>6. CASE TakeBackup \/ EndRestore \/ CrashBeforeLock \/ \E ops : Lose(ops)
      BY <3>5, <3>6 DEF TakeBackup, EndRestore, CrashBeforeLock, Lose, recoveryVars
    <3>7. CASE \E op \in Ops : Preserve(op) \/ BringBack(op)
      BY <3>5, <3>7 DEF Preserve, BringBack, vars
    <3>8. QED
      BY <2>2, <3>2, <3>3, <3>4, <3>6, <3>7 DEF Beyond, Restore
  <2>3. CASE UNCHANGED allVars
    BY <2>3 DEF allVars, vars, recoveryVars, HoldInv, Claimant
  <2>4. QED
    BY <2>1, <2>2, <2>3
<1>3. QED
  BY <1>1, <1>2, RecoveryTypeAndLock, PTL DEF RecoverySpec

(* A restore that was refused, died half-way or left a torn receipt is     *)
(* never followed by an admission that no verify has allowed, however many *)
(* processes were started meanwhile.                                       *)
THEOREM ResumesOnlyVerified == RecoverySpec => ResumesVerified
<1>1. TypeOK /\ HoldInv /\ [RecoveryNext]_allVars =>
        [\A op \in Ops : ~guard[op].dir /\ guard'[op].dir => ~unverified]_allVars
  <2> SUFFICES ASSUME TypeOK, HoldInv, RecoveryNext, NEW op \in Ops, ~guard[op].dir, guard'[op].dir
               PROVE  ~unverified
    OBVIOUS
  <2>1. PICK w \in Workers : MkGuard(w)
    BY AddedByMkGuard
  <2>2. QED
    BY <2>1 DEF MkGuard, HoldInv
<1>2. QED
  BY <1>1, RecoveryTypeAndLock, RecoveryHolds, PTL DEF RecoverySpec, ResumesVerified

-----------------------------------------------------------------------------
(* The receipts.                                                           *)

(* A step of one request that leaves every file alone.                     *)
LEMMA ReceiptsKept ==
  ASSUME TypeOK, ReceiptInv, UNCHANGED <<store, backup, lost>>, NEW w \in Workers, NEW r,
         req' = [req EXCEPT ![w] = r],
         Claimant(w)' => Claimant(w) /\ r.op = req[w].op /\ Owns(w)'
  PROVE  ReceiptInv'
<1>1. \A op \in Ops : Recoverable(op)'
  BY DEF ReceiptInv, Recoverable, Untouched, Expected, store
<1>2. \A v \in Workers : req'[v] = IF v = w THEN r ELSE req[v]
  BY DEF TypeOK
<1>3. \A v \in Workers : v # w => Claimant(v)' = Claimant(v)
  BY <1>2 DEF Claimant
<1>4. \A v \in Workers : v # w /\ Owns(v) => Owns(v)'
  BY <1>2 DEF Owns, Record0, Completed, store
<1>5. \A v \in Workers : Claimant(v)' => Claimant(v) /\ req'[v].op = req[v].op
  BY <1>2, <1>3
<1>6. \A v \in Workers : Claimant(v)' => Owns(v)'
  BY <1>3, <1>4 DEF ReceiptInv
<1>7. QED
  BY <1>1, <1>5, <1>6 DEF ReceiptInv

(* A step of the owner of an operation, or of a request that becomes its   *)
(* owner: it writes no file of another operation.                          *)
LEMMA OneReceipt ==
  ASSUME TypeOK, ReceiptInv, UNCHANGED <<backup, lost>>, NEW w \in Workers, NEW o \in Ops, o = req[w].op,
         Claimant(w) \/ ~guard[o].dir,
         \A op \in Ops : op # o => guard'[op] = guard[op] /\ root'[op] = root[op],
         \A v \in Workers : v # w => req'[v] = req[v],
         Recoverable(o)', Claimant(w)' => req'[w].op = o /\ Owns(w)'
  PROVE  ReceiptInv'
<1>1. \A op \in Ops : Recoverable(op)'
  BY DEF ReceiptInv, Recoverable, Untouched, Expected
<1>2. \A v \in Workers : v # w => Claimant(v)' = Claimant(v)
  BY DEF Claimant
<1>3. \A v \in Workers : v # w /\ Claimant(v) => req[v].op \in Ops /\ req[v].op # o
  <2>1. \A v \in Workers : Claimant(v) => req[v].op \in Ops /\ guard[req[v].op].dir
    BY DEF ReceiptInv, TypeOK, WellFormed, Claimant, Owns, CompleteWrites
  <2>2. QED
    BY <2>1 DEF ReceiptInv
<1>4. \A v \in Workers : v # w /\ Claimant(v) => Owns(v)'
  <2> SUFFICES ASSUME NEW v \in Workers, v # w, Claimant(v)
               PROVE  Owns(v)'
    OBVIOUS
  <2>1. guard'[req[v].op] = guard[req[v].op] /\ root'[req[v].op] = root[req[v].op] /\ req'[v] = req[v]
    BY <1>3
  <2>2. Owns(v)
    BY DEF ReceiptInv
  <2>3. QED
    BY <2>1, <2>2 DEF Owns, Record0, Completed
<1>5. \A v \in Workers : Claimant(v)' => Owns(v)'
  BY <1>2, <1>4
<1>6. \A u, v \in Workers : Claimant(u)' /\ Claimant(v)' /\ req'[u].op = req'[v].op => u = v
  BY <1>2, <1>3 DEF ReceiptInv
<1>7. QED
  BY <1>1, <1>5, <1>6 DEF ReceiptInv

LEMMA LeaveReceipts ==
  ASSUME TypeOK, ReceiptInv, UNCHANGED <<store, backup, lost>>, NEW w \in Workers, NEW next, NEW reply, NEW resp,
         Leave(w, next, reply, resp), next # "call"
  PROVE  ReceiptInv'
<1> DEFINE r == [req[w] EXCEPT !.pc = "release", !.next = next, !.reply = reply, !.resp = resp]
<1>1. req' = [req EXCEPT ![w] = r] /\ r.pc = "release" /\ r.next = next
  BY DEF Leave, TypeOK, Request
<1>2. ~Claimant(w)'
  BY LeaveDrops
<1>3. QED
  BY <1>1, <1>2, ReceiptsKept

LEMMA AnswerReceipts ==
  ASSUME TypeOK, ReceiptInv, UNCHANGED <<store, backup, lost>>, NEW w \in Workers, NEW reply, Answer(w, reply)
  PROVE  ReceiptInv'
<1> DEFINE r == [req[w] EXCEPT !.pc = "reply", !.reply = reply, !.resp = Nil]
<1>1. req' = [req EXCEPT ![w] = r] /\ r.pc = "reply"
  BY DEF Answer, TypeOK, Request
<1>2. req'[w] = r
  BY <1>1 DEF TypeOK
<1>3. ~Claimant(w)'
  BY <1>1, <1>2 DEF Claimant, CompleteWrites
<1>4. QED
  BY <1>1, <1>3, ReceiptsKept

(* Moving on: outside the claim, or along it without a write.              *)
LEMMA GotoReceipts ==
  ASSUME TypeOK, ReceiptInv, UNCHANGED <<store, backup, lost>>, NEW w \in Workers, NEW where, Goto(w, where),
         \/ where \in {"idle", "slot", "claim", "reread", "reply", "mkguard"}
         \/ Claimant(w) /\ req[w].pc \in {"release", "call"} /\ where \in {"call", "respond"}
         \/ Claimant(w) /\ req[w].pc = "complete" /\ where = "tmp" /\ root[req[w].op].record \in Record
  PROVE  ReceiptInv'
<1> DEFINE r == [req[w] EXCEPT !.pc = where]
<1>1. req' = [req EXCEPT ![w] = r] /\ r.pc = where /\ r.next = req[w].next /\ r.op = req[w].op
      /\ r.owner = req[w].owner /\ r.input = req[w].input /\ r.resp = req[w].resp
  BY DEF Goto, TypeOK, Request
<1>2. req'[w] = r
  BY <1>1 DEF TypeOK
<1>3. ASSUME Claimant(w)'
      PROVE  Claimant(w) /\ Owns(w)'
  <2>1. where \notin {"idle", "slot", "claim", "reread", "reply", "mkguard"}
    BY <1>1, <1>2, <1>3 DEF Claimant, CompleteWrites
  <2>2. Claimant(w) /\ Owns(w)
    BY <2>1 DEF ReceiptInv
  <2>3. QED
    BY <1>1, <1>2, <2>1, <2>2, NilAssumption
    DEF Owns, Record0, Completed, ClaimWrites, CompleteWrites, store
<1>4. QED
  BY <1>1, <1>3, ReceiptsKept

(* The writes of a claim, in their order.                                  *)
LEMMA ClaimReceipts ==
  ASSUME TypeOK, ReceiptInv, UNCHANGED <<backup, lost>>, NEW w \in Workers,
         MkGuard(w) \/ MkRoot(w) \/ WriteRecord(w) \/ WriteClaim(w)
  PROVE  ReceiptInv'
<1> USE DEF ClaimWrites, CompleteWrites
<1>0. PICK o \in Ops : o = req[w].op
  BY DEF TypeOK, WellFormed, MkGuard, MkRoot, WriteRecord, WriteClaim
<1>1. o = req[w].op /\ o \in Ops /\ req[w].input \in Inputs /\ req[w].pc # "idle"
  BY <1>0 DEF TypeOK, WellFormed, MkGuard, MkRoot, WriteRecord, WriteClaim
<1>2. Record0(w) \in OpenRecord /\ Record0(w) \in Record /\ Nil \notin Record /\ Torn \notin Record
      /\ OpenRecord \cap ClosedRecord = {}
  BY <1>1, Records
<1>3. Recoverable(o) /\ Nil \notin ClosedRecord /\ Torn \notin ClosedRecord
  BY <1>1, <1>2 DEF ReceiptInv, Record
<1>4. CASE MkGuard(w)
  <2>1. Untouched(o)
    BY <1>1, <1>3, <1>4 DEF Recoverable, MkGuard
  <2>2. \A op \in Ops : guard'[op] = IF op = o THEN [guard[op] EXCEPT !.dir = TRUE] ELSE guard[op]
    BY <1>1, <1>4 DEF MkGuard, TypeOK
  <2>3. guard'[o].dir /\ guard'[o].claim = Nil /\ guard'[o].done = Nil /\ guard'[o].mark = Nil
    BY <1>1, <2>1, <2>2 DEF Untouched, TypeOK, Anchor
  <2>4. req'[w].op = o /\ req'[w].pc = "mkroot" /\ \A v \in Workers : v # w => req'[v] = req[v]
    BY <1>1, <1>4 DEF MkGuard, Goto, TypeOK, Request
  <2>5. root' = root
    BY <1>1, <1>4 DEF MkGuard
  <2>6. Recoverable(o)'
    BY <1>1, <1>2, <1>3, <1>4, <2>1, <2>3, <2>5 DEF MkGuard, Recoverable, Untouched, Expected
  <2>7. Owns(w)'
    BY <1>1, <1>3, <1>4, <2>1, <2>3, <2>4, <2>5 DEF MkGuard, Recoverable, Owns, Untouched
  <2>8. QED
    BY <1>1, <1>4, <2>2, <2>4, <2>5, <2>6, <2>7, OneReceipt DEF MkGuard
<1>5. CASE MkRoot(w)
  <2>1. Claimant(w) /\ Owns(w)
    BY <1>1, <1>5 DEF MkRoot, ReceiptInv, Claimant
  <2>2. \A op \in Ops : root'[op] = IF op = o THEN [root[op] EXCEPT !.dir = TRUE] ELSE root[op]
    BY <1>1, <1>5 DEF MkRoot, TypeOK
  <2>3. root'[o].dir /\ root'[o].record = root[o].record /\ root'[o].tmp = root[o].tmp
    BY <1>1, <2>2 DEF TypeOK, Receipt
  <2>4. req'[w].op = o /\ req'[w].pc = "record" /\ \A v \in Workers : v # w => req'[v] = req[v]
    BY <1>1, <1>5 DEF MkRoot, Goto, TypeOK, Request
  <2>5. guard' = guard /\ req[w].pc = "mkroot"
    BY <1>1, <1>5 DEF MkRoot
  <2>6. Recoverable(o)'
    BY <1>1, <1>2, <1>3, <2>1, <2>3, <2>5 DEF Recoverable, Owns
  <2>7. Owns(w)'
    BY <1>1, <2>1, <2>3, <2>4, <2>5 DEF Owns
  <2>8. QED
    BY <1>1, <2>1, <2>2, <2>4, <2>5, <2>6, <2>7, OneReceipt
<1>6. CASE WriteRecord(w)
  <2>1. Claimant(w) /\ Owns(w)
    BY <1>1, <1>6 DEF WriteRecord, ReceiptInv, Claimant
  <2>2. PICK content \in {Record0(w), Torn} :
          /\ root' = [root EXCEPT ![o] = [@ EXCEPT !.record = content]]
          /\ IF content = Torn THEN Leave(w, "reply", "error", Nil) ELSE Goto(w, "anchor")
    BY <1>1, <1>6 DEF WriteRecord
  <2>3. /\ \A op \in Ops : op # o => root'[op] = root[op]
        /\ root'[o].record = content /\ root'[o].dir = root[o].dir /\ root'[o].tmp = root[o].tmp
    BY <1>1, <2>2 DEF TypeOK, Receipt
  <2>4. \A v \in Workers : v # w => req'[v] = req[v]
    BY <1>1, <2>2 DEF Leave, Goto, TypeOK
  <2>5. guard' = guard /\ req[w].pc = "record"
    BY <1>1, <1>6 DEF WriteRecord
  <2>6. Recoverable(o)'
    BY <1>1, <1>2, <1>3, <2>1, <2>2, <2>3, <2>5 DEF Recoverable, Owns
  <2>7. ASSUME Claimant(w)'
        PROVE  req'[w].op = o /\ Owns(w)'
    <3>1. CASE content = Torn
      BY <2>2, <2>7, <3>1, LeaveDrops
    <3>2. CASE content # Torn
      <4>1. content = Record0(w) /\ Goto(w, "anchor")
        BY <1>1, <2>2, <3>2
      <4>2. req'[w] = [req[w] EXCEPT !.pc = "anchor"]
        BY <1>1, <4>1 DEF Goto, TypeOK
      <4>3. req'[w].op = o /\ req'[w].pc = "anchor" /\ Record0(w)' = Record0(w)
        BY <1>1, <4>2 DEF TypeOK, Request, Record0
      <4>4. QED
        BY <1>1, <2>1, <2>3, <2>5, <4>1, <4>3 DEF Owns
    <3>3. QED
      BY <1>1, <3>1, <3>2
  <2>8. QED
    BY <1>1, <2>1, <2>3, <2>4, <2>5, <2>6, <2>7, OneReceipt
<1>7. CASE WriteClaim(w)
  <2>1. Claimant(w) /\ Owns(w)
    BY <1>1, <1>7 DEF WriteClaim, ReceiptInv, Claimant
  <2>2. PICK content \in {Record0(w), Torn} :
          /\ guard' = [guard EXCEPT ![o] = [@ EXCEPT !.claim = content]]
          /\ IF content = Torn THEN Leave(w, "reply", "error", Nil) ELSE Leave(w, "call", "none", Nil)
    BY <1>1, <1>7 DEF WriteClaim
  <2>3. /\ \A op \in Ops : op # o => guard'[op] = guard[op]
        /\ guard'[o].claim = content /\ guard'[o].dir = guard[o].dir
        /\ guard'[o].done = guard[o].done /\ guard'[o].mark = guard[o].mark
    BY <1>1, <2>2 DEF TypeOK, Anchor
  <2>4. \A v \in Workers : v # w => req'[v] = req[v]
    BY <1>1, <2>2 DEF Leave, TypeOK
  <2>5. root' = root /\ req[w].pc = "anchor"
    BY <1>1, <1>7 DEF WriteClaim
  <2>6. Recoverable(o)'
    BY <1>1, <1>2, <1>3, <2>1, <2>2, <2>3, <2>5 DEF Recoverable, Owns
  <2>7. ASSUME Claimant(w)'
        PROVE  req'[w].op = o /\ Owns(w)'
    <3>1. CASE content = Torn
      BY <2>2, <2>7, <3>1, LeaveDrops
    <3>2. CASE content # Torn
      <4>1. content = Record0(w) /\ Leave(w, "call", "none", Nil)
        BY <1>1, <2>2, <3>2
      <4>2. req'[w] = [req[w] EXCEPT !.pc = "release", !.next = "call", !.reply = "none", !.resp = Nil]
        BY <1>1, <4>1 DEF Leave, TypeOK
      <4>3. req'[w].op = o /\ req'[w].pc = "release" /\ Record0(w)' = Record0(w)
        BY <1>1, <4>2 DEF TypeOK, Request, Record0
      <4>4. QED
        BY <1>1, <2>1, <2>3, <2>5, <4>1, <4>3 DEF Owns
    <3>3. QED
      BY <1>1, <3>1, <3>2
  <2>8. QED
    BY <1>1, <2>1, <2>3, <2>4, <2>5, <2>6, <2>7, OneReceipt
<1>8. QED
  BY <1>4, <1>5, <1>6, <1>7

(* The writes of a completion, in theirs.                                  *)
LEMMA CompleteReceipts ==
  ASSUME TypeOK, ReceiptInv, UNCHANGED <<backup, lost>>, NEW w \in Workers,
         WriteTmp(w) \/ WriteDone(w) \/ Rename(w)
  PROVE  ReceiptInv'
<1> USE DEF ClaimWrites, CompleteWrites
<1>0. PICK o \in Ops : o = req[w].op
  BY DEF TypeOK, WellFormed, WriteTmp, WriteDone, Rename
<1>1. o = req[w].op /\ o \in Ops /\ req[w].input \in Inputs /\ req[w].pc # "idle" /\ req[w].resp \in Responses
  BY <1>0 DEF TypeOK, WellFormed, WriteTmp, WriteDone, Rename
<1>2. /\ Record0(w) \in OpenRecord /\ Record0(w) \in Record /\ Nil \notin Record /\ Torn \notin Record
      /\ Completed(w) \in ClosedRecord /\ Completed(w) \in Record
      /\ OpenRecord \cap ClosedRecord = {}
  BY <1>1, Records
<1>3. Recoverable(o) /\ Nil \notin ClosedRecord /\ Torn \notin ClosedRecord
  BY <1>1, <1>2 DEF ReceiptInv, Record
<1>4. Claimant(w) /\ Owns(w)
  BY DEF WriteTmp, WriteDone, Rename, ReceiptInv, Claimant
<1>5. Completed(w).owner = Record0(w).owner /\ Completed(w).input = Record0(w).input
  BY DEF Completed, Record0
<1>6. CASE WriteTmp(w)
  <2>2. PICK content \in {Completed(w), Torn} :
          /\ root' = [root EXCEPT ![o] = [@ EXCEPT !.tmp = content]]
          /\ IF content = Torn THEN Leave(w, "reply", "error", Nil) ELSE Goto(w, "done")
    BY <1>1, <1>6 DEF WriteTmp
  <2>3. /\ \A op \in Ops : op # o => root'[op] = root[op]
        /\ root'[o].record = root[o].record /\ root'[o].dir = root[o].dir /\ root'[o].tmp = content
    BY <1>1, <2>2 DEF TypeOK, Receipt
  <2>4. \A v \in Workers : v # w => req'[v] = req[v]
    BY <1>1, <2>2 DEF Leave, Goto, TypeOK
  <2>5. guard' = guard /\ req[w].pc = "tmp"
    BY <1>1, <1>6 DEF WriteTmp
  <2>6. Recoverable(o)'
    BY <1>1, <1>2, <1>3, <1>4, <1>5, <2>2, <2>3, <2>5 DEF Recoverable, Owns, Expected
  <2>7. ASSUME Claimant(w)'
        PROVE  req'[w].op = o /\ Owns(w)'
    <3>1. CASE content = Torn
      BY <2>2, <2>7, <3>1, LeaveDrops
    <3>2. CASE content # Torn
      <4>1. content = Completed(w) /\ Goto(w, "done")
        BY <1>1, <2>2, <3>2
      <4>2. req'[w] = [req[w] EXCEPT !.pc = "done"]
        BY <1>1, <4>1 DEF Goto, TypeOK
      <4>3. /\ req'[w].op = o /\ req'[w].pc = "done" /\ Record0(w)' = Record0(w)
            /\ Completed(w)' = Completed(w)
        BY <1>1, <4>2 DEF TypeOK, Request, Record0, Completed
      <4>4. QED
        BY <1>1, <1>4, <2>3, <2>5, <4>1, <4>3 DEF Owns
    <3>3. QED
      BY <1>1, <3>1, <3>2
  <2>8. QED
    BY <1>1, <1>4, <2>3, <2>4, <2>5, <2>6, <2>7, OneReceipt
<1>7. CASE WriteDone(w)
  <2>2. PICK content \in {Completed(w), Torn} :
          /\ guard' = [guard EXCEPT ![o] = [@ EXCEPT !.done = content]]
          /\ IF content = Torn THEN Leave(w, "reply", "error", Nil) ELSE Goto(w, "rename")
    BY <1>1, <1>7 DEF WriteDone
  <2>3. /\ \A op \in Ops : op # o => guard'[op] = guard[op]
        /\ guard'[o].claim = guard[o].claim /\ guard'[o].dir = guard[o].dir
        /\ guard'[o].done = content /\ guard'[o].mark = guard[o].mark
    BY <1>1, <2>2 DEF TypeOK, Anchor
  <2>4. \A v \in Workers : v # w => req'[v] = req[v]
    BY <1>1, <2>2 DEF Leave, Goto, TypeOK
  <2>5. root' = root /\ req[w].pc = "done"
    BY <1>1, <1>7 DEF WriteDone
  <2>6. Recoverable(o)'
    BY <1>1, <1>2, <1>3, <1>4, <1>5, <2>2, <2>3, <2>5 DEF Recoverable, Owns, Expected
  <2>7. ASSUME Claimant(w)'
        PROVE  req'[w].op = o /\ Owns(w)'
    <3>1. CASE content = Torn
      BY <2>2, <2>7, <3>1, LeaveDrops
    <3>2. CASE content # Torn
      <4>1. content = Completed(w) /\ Goto(w, "rename")
        BY <1>1, <2>2, <3>2
      <4>2. req'[w] = [req[w] EXCEPT !.pc = "rename"]
        BY <1>1, <4>1 DEF Goto, TypeOK
      <4>3. /\ req'[w].op = o /\ req'[w].pc = "rename" /\ Record0(w)' = Record0(w)
            /\ Completed(w)' = Completed(w)
        BY <1>1, <4>2 DEF TypeOK, Request, Record0, Completed
      <4>4. QED
        BY <1>1, <1>4, <2>3, <2>5, <4>1, <4>3 DEF Owns
    <3>3. QED
      BY <1>1, <3>1, <3>2
  <2>8. QED
    BY <1>1, <1>4, <2>3, <2>4, <2>5, <2>6, <2>7, OneReceipt
<1>8. CASE Rename(w)
  <2>1. /\ \A op \in Ops : op # o => root'[op] = root[op]
        /\ root'[o].record = root[o].tmp /\ root'[o].dir = root[o].dir /\ root'[o].tmp = Nil
    BY <1>1, <1>8 DEF Rename, TypeOK, Receipt
  <2>2. \A v \in Workers : v # w => req'[v] = req[v]
    BY <1>1, <1>8 DEF Rename, Leave, TypeOK
  <2>3. guard' = guard /\ req[w].pc = "rename"
    BY <1>1, <1>8 DEF Rename
  <2>4. Recoverable(o)'
    BY <1>1, <1>2, <1>3, <1>4, <1>5, <2>1, <2>3 DEF Recoverable, Owns
  <2>5. ~Claimant(w)'
    BY <1>8, LeaveDrops DEF Rename
  <2>6. QED
    BY <1>1, <1>4, <2>1, <2>2, <2>3, <2>4, <2>5, OneReceipt
<1>9. QED
  BY <1>6, <1>7, <1>8

LEMMA ServeReceipts ==
  ASSUME TypeOK, ReceiptInv, UNCHANGED <<backup, lost>>, NEW w \in Workers, Serve(w)
  PROVE  ReceiptInv'
<1> USE DEF store
<1>1. CASE Acquire(w) \/ WriteHolder(w)
  <2>1. UNCHANGED <<store, req>>
    BY <1>1 DEF Acquire, WriteHolder
  <2>2. QED
    BY <2>1 DEF ReceiptInv, Recoverable, Untouched, Expected, Claimant, Owns, Record0, Completed
<1>2. CASE LockTimeout(w) \/ ReleaseFails(w) \/ HandlerThrows(w)
  BY <1>2, AnswerReceipts DEF LockTimeout, ReleaseFails, HandlerThrows
<1>3. CASE Fault(w) \/ Read(w) \/ Reread(w)
  BY <1>3, LeaveReceipts DEF Fault, Read, Reread
<1>4. CASE Release(w)
  <2>1. req[w].next \in Nexts /\ (req[w].next = "call" => Claimant(w))
    BY <1>4 DEF Release, TypeOK, Request, Claimant
  <2>2. QED
    BY <1>4, <2>1, GotoReceipts DEF Release, Nexts
<1>5. CASE TakeSlot(w)
  BY <1>5, GotoReceipts, AnswerReceipts DEF TakeSlot
<1>6. CASE Claim(w)
  BY <1>6, GotoReceipts, LeaveReceipts DEF Claim
<1>7. CASE MkGuard(w) \/ MkRoot(w) \/ WriteRecord(w) \/ WriteClaim(w)
  BY <1>7, ClaimReceipts
<1>8. CASE CallProvider(w)
  BY <1>8, GotoReceipts DEF CallProvider, Claimant
<1>9. ASSUME NEW x \in Responses, Respond(w, x)
      PROVE  ReceiptInv'
  <2> DEFINE r == [req[w] EXCEPT !.pc = "complete", !.resp = x]
  <2>1. /\ req' = [req EXCEPT ![w] = r] /\ r.pc = "complete" /\ r.op = req[w].op
        /\ r.owner = req[w].owner /\ r.input = req[w].input
    BY <1>9 DEF Respond, TypeOK, Request
  <2>2. req'[w] = r
    BY <2>1 DEF TypeOK
  <2>3. Claimant(w) /\ Owns(w) /\ req[w].pc \in {"call", "respond"}
    BY <1>9 DEF Respond, Claimant, ReceiptInv
  <2>4. UNCHANGED store
    BY <1>9 DEF Respond
  <2>5. Owns(w)'
    BY <2>1, <2>2, <2>3, <2>4 DEF Owns, Record0, ClaimWrites, CompleteWrites
  <2>6. QED
    BY <2>1, <2>3, <2>4, <2>5, ReceiptsKept
<1>10. CASE Complete(w)
  BY <1>10, GotoReceipts DEF Complete, Inside, Claimant, Running, Readable
<1>11. CASE WriteTmp(w) \/ WriteDone(w) \/ Rename(w)
  BY <1>11, CompleteReceipts
<1>12. QED
  BY <1>1, <1>2, <1>3, <1>4, <1>5, <1>6, <1>7, <1>8, <1>9, <1>10, <1>11
  DEF Serve, LockStep, ClaimStep, CallStep, CompleteStep

(* Steps that write no receipt and no index, and only take claims away.    *)
LEMMA ReceiptFrame ==
  ASSUME TypeOK, ReceiptInv, UNCHANGED <<store, backup, lost>>,
         \A w \in Workers : Claimant(w)' => req'[w] = req[w]
  PROVE  ReceiptInv'
<1>1. \A w \in Workers : Claimant(w)' => Claimant(w)
  BY DEF Claimant
<1>2. \A w \in Workers : Claimant(w)' => Owns(w)'
  BY <1>1 DEF ReceiptInv, Owns, Record0, Completed, store
<1>3. \A op \in Ops : Recoverable(op)'
  BY DEF ReceiptInv, Recoverable, Untouched, Expected, store
<1>4. QED
  BY <1>1, <1>2, <1>3 DEF ReceiptInv

LEMMA QuarantineReceipts ==
  ASSUME TypeOK, LockInv, ReceiptInv, UNCHANGED <<backup, lost>>, NEW o \in Ops, Quarantine(o)
  PROVE  ReceiptInv'
<1>1. PICK content \in {root[o].record, Torn} : guard' = [guard EXCEPT ![o] = [@ EXCEPT !.mark = content]]
  BY DEF Quarantine
<1>2. /\ \A op \in Ops : guard'[op].dir = guard[op].dir /\ guard'[op].claim = guard[op].claim
                       /\ guard'[op].done = guard[op].done
      /\ \A op \in Ops : op # o => guard'[op].mark = guard[op].mark
      /\ UNCHANGED <<root, req>>
  BY <1>1 DEF Quarantine, TypeOK, Anchor
<1>3. guard[o].dir
  BY DEF Quarantine, Running, Readable
<1>4. \A op \in Ops : Recoverable(op)'
  BY <1>2, <1>3 DEF ReceiptInv, Recoverable, Untouched, Expected
<1>5. \A w \in Workers : Claimant(w)' = Claimant(w) /\ (Claimant(w) => req[w].op \in Ops)
  BY <1>2 DEF Claimant, TypeOK, WellFormed, CompleteWrites
<1>6. \A w \in Workers : Claimant(w) => Owns(w)'
  BY <1>2, <1>5 DEF ReceiptInv, Owns, Record0, Completed
<1>7. QED
  BY <1>2, <1>4, <1>5, <1>6 DEF ReceiptInv

LEMMA NextReceipts ==
  ASSUME TypeOK, LockInv, ReceiptInv, UNCHANGED <<backup, lost>>, Next
  PROVE  ReceiptInv'
<1> USE DEF store
<1>1. ASSUME NEW p \in Procs, Start(p) \/ Crash(p)
      PROVE  ReceiptInv'
  <2>1. UNCHANGED store /\ \A w \in Workers : req'[w] \in {req[w], IdleRequest}
    BY <1>1 DEF Start, Crash
  <2>2. \A w \in Workers : Claimant(w)' => req'[w] = req[w]
    BY <2>1 DEF Claimant, IdleRequest, CompleteWrites
  <2>3. QED
    BY <2>1, <2>2, ReceiptFrame
<1>2. ASSUME NEW w \in Workers, Serve(w)
      PROVE  ReceiptInv'
  BY <1>2, ServeReceipts
<1>3. ASSUME NEW w \in Workers, Disconnect(w)
      PROVE  ReceiptInv'
  BY <1>3, ReceiptsKept DEF Disconnect, IdleRequest, Claimant, CompleteWrites, TypeOK
<1>4. ASSUME NEW w \in Workers, NEW op \in Ops, NEW o \in Owners, NEW i \in Inputs \cup {Nil},
             Submit(w, op, o, i)
      PROVE  ReceiptInv'
  BY <1>4, ReceiptsKept DEF Submit, IdleRequest, Claimant, CompleteWrites, TypeOK
<1>5. ASSUME NEW op \in Ops, Quarantine(op)
      PROVE  ReceiptInv'
  BY <1>5, QuarantineReceipts
<1>6. CASE Operate /\ UNCHANGED <<store, req>>
  BY <1>6, ReceiptFrame
<1>7. QED
  BY <1>1, <1>2, <1>3, <1>4, <1>5, <1>6
  DEF Next, Operate, UnlockHold, UnlockRelease, BeginMaintenance, VerifyRecovery, EndMaintenance,
      CrashMaintenance

(* What is lost is what the index expects, or can never come back.         *)
LEMMA ExpectedIsLatest ==
  ASSUME TypeOK, RecoveryTypeOK, NEW o \in Ops, Recoverable(o), root[o].record \in Record,
         backup # Nil, backup[o] \in Record, backup[o] = Expected(o)
  PROVE  backup[o] = root[o].record
<1>1. Nil \notin Record /\ Torn \notin Record /\ Record = OpenRecord \cup ClosedRecord
  BY NilAssumption DEF Record
<1>2. guard[o].claim \in OpenRecord \cup NoFile /\ guard[o].done \in ClosedRecord \cup NoFile
  BY DEF TypeOK, Anchor
<1>3. CASE guard[o].done # Nil
  <2>1. backup[o] \in ClosedRecord
    BY <1>1, <1>2, <1>3 DEF Expected, NoFile
  <2>2. QED
    BY <2>1 DEF Recoverable
<1>4. CASE guard[o].done = Nil
  <2>1. backup[o] = guard[o].claim /\ guard[o].claim \in OpenRecord
    BY <1>1, <1>2, <1>4 DEF Expected, NoFile
  <2>2. root[o].record \in OpenRecord
    BY <1>1, <1>4 DEF Recoverable
  <2>3. /\ guard[o].claim.owner = root[o].record.owner
        /\ guard[o].claim.input = root[o].record.input
    BY <1>1, <2>1 DEF Recoverable
  <2>4. QED
    BY <2>1, <2>2, <2>3 DEF OpenRecord
<1>5. QED
  BY <1>3, <1>4

LEMMA LoseReceipts ==
  ASSUME TypeOK, LockInv, RecoveryTypeOK, ReceiptInv,
         NEW ops \in SUBSET {op \in Ops : root[op].dir}, Lose(ops)
  PROVE  ReceiptInv'
<1>1. Nil \notin Record /\ Nil \notin ClosedRecord
  BY NilAssumption DEF Record
<1>2. UNCHANGED <<guard, req, backup>>
  BY DEF Lose
<1>3. ASSUME NEW op \in Ops
      PROVE  Recoverable(op)'
  <2>1. Recoverable(op)
    BY DEF ReceiptInv
  <2>2. CASE op \notin ops
    BY <1>2, <2>1, <2>2, LostReceipts DEF Recoverable, Untouched, Expected
  <2>3. CASE op \in ops
    <3>1. ~root'[op].dir /\ root'[op].record = Nil /\ root'[op].tmp = Nil /\ lost'[op] = root[op].record
      BY <2>3, LostReceipts
    <3>2. guard[op].dir
      BY <2>1, <2>3 DEF Recoverable, Untouched
    <3>3. Expected(op)' = Expected(op)
      BY <1>2 DEF Expected
    <3>4. lost'[op] \in Record /\ backup' # Nil /\ backup'[op] \in Record /\ backup'[op] = Expected(op)'
            => backup'[op] = lost'[op]
      BY <1>2, <2>1, <3>1, <3>3, ExpectedIsLatest
    <3>5. QED
      BY <1>1, <1>2, <2>1, <3>1, <3>2, <3>4 DEF Recoverable
  <2>4. QED
    BY <2>2, <2>3
<1>4. \A w \in Workers : Claimant(w)' = Claimant(w)
  BY <1>2 DEF Claimant
<1>5. ASSUME NEW w \in Workers, Claimant(w)
      PROVE  Owns(w)'
  <2>1. Owns(w) /\ req[w].op \in Ops
    BY <1>5 DEF ReceiptInv, Claimant, TypeOK, WellFormed, CompleteWrites
  <2>2. req[w].pc \in {"call", "respond", "complete"}
    BY <1>5 DEF Lose, LockInv, WritersExcluded, Claimant, Inner, ClaimWrites
  <2>3. Record0(w)' = Record0(w) /\ Completed(w)' = Completed(w)
    BY <1>2 DEF Record0, Completed
  <2>4. CASE req[w].op \in ops
    BY <1>2, <2>1, <2>2, <2>3, <2>4, LostReceipts DEF Owns
  <2>5. CASE req[w].op \notin ops
    BY <1>2, <2>1, <2>2, <2>3, <2>5, LostReceipts DEF Owns
  <2>6. QED
    BY <2>4, <2>5
<1>6. QED
  BY <1>2, <1>3, <1>4, <1>5 DEF ReceiptInv

LEMMA BackupReceipts ==
  ASSUME TypeOK, RecoveryTypeOK, ReceiptInv, TakeBackup
  PROVE  ReceiptInv'
<1>1. UNCHANGED <<guard, root, req, lost>>
  BY DEF TakeBackup
<1>2. Nil \notin Record /\ Nil \notin ClosedRecord /\ ClosedRecord \subseteq Record
  BY NilAssumption DEF Record
<1>3. ASSUME NEW op \in Ops
      PROVE  Recoverable(op)'
  <2>1. Recoverable(op)
    BY DEF ReceiptInv
  <2>2. backup'[op] \in Record => backup'[op] = root[op].record
    BY <1>2 DEF TakeBackup
  <2>3. Expected(op)' = Expected(op)
    BY <1>1 DEF Expected
  <2>4. QED
    BY <1>1, <1>2, <2>1, <2>2, <2>3 DEF Recoverable, Untouched
<1>4. \A w \in Workers : Claimant(w)' = Claimant(w) /\ (Claimant(w) => Owns(w)')
  BY <1>1 DEF ReceiptInv, Claimant, Owns, Record0, Completed
<1>5. QED
  BY <1>1, <1>3, <1>4 DEF ReceiptInv

(* A receipt comes back: nobody owns its operation, the index expects it,  *)
(* and so it is the one that was lost.                                     *)
LEMMA BringBackReceipts ==
  ASSUME TypeOK, RecoveryTypeOK, HoldInv, ReceiptInv, NEW o \in Ops, BringBack(o)
  PROVE  ReceiptInv'
<1>1. PICK content \in {backup[o], Torn} :
        root' = [root EXCEPT ![o] = [@ EXCEPT !.dir = TRUE, !.record = content]]
  BY DEF BringBack
<1>2. UNCHANGED <<guard, req, backup, lost>> /\ backup[o] = Expected(o) /\ backup[o] \in Record
  BY DEF BringBack
<1>3. /\ root'[o].record = content
      /\ \A op \in Ops : op # o => root'[op] = root[op]
  BY <1>1, <1>2, RestoredReceipt DEF NoFile
<1>4. \A w \in Workers : ~Claimant(w)'
  <2>1. \A w \in Workers : ~Claimant(w)
    BY DEF HoldInv, BringBack
  <2>2. QED
    BY <1>2, <2>1 DEF Claimant
<1>5. Recoverable(o)'
  <2>1. Recoverable(o)
    BY DEF ReceiptInv
  <2>2. Nil \notin Record /\ Torn \notin Record /\ Record = OpenRecord \cup ClosedRecord
        /\ OpenRecord \cap ClosedRecord = {}
    BY Records, NilAssumption DEF Record
  <2>3. guard[o].claim \in OpenRecord \cup NoFile /\ guard[o].done \in ClosedRecord \cup NoFile
    BY DEF TypeOK, Anchor
  <2>4. guard[o].dir
    BY <1>2, <2>1, <2>2 DEF Recoverable, Untouched, Expected
  <2>5. Expected(o)' = Expected(o)
    BY <1>2 DEF Expected
  <2>6. backup # Nil
    BY <1>2, <2>1, <2>2 DEF BringBack, HoldInv
  <2>7. CASE content = Torn
    BY <1>2, <1>3, <2>1, <2>2, <2>4, <2>5, <2>7 DEF Recoverable, Untouched
  <2>8. CASE content = backup[o]
    <3>1. guard[o].done # Nil => guard[o].done = backup[o] /\ backup[o] \in ClosedRecord
      BY <1>2, <2>2, <2>3 DEF Expected, NoFile
    <3>2. guard[o].done = Nil => guard[o].claim = backup[o] /\ backup[o] \in OpenRecord
      BY <1>2, <2>2, <2>3 DEF Expected, NoFile
    <3>3. root'[o].record \in ClosedRecord => guard[o].done = root'[o].record
      BY <1>3, <2>2, <2>8, <3>1, <3>2
    <3>4. guard[o].claim \in Record => /\ guard[o].claim.owner = root'[o].record.owner
                                       /\ guard[o].claim.input = root'[o].record.input
      BY <1>2, <1>3, <2>1, <2>8, <3>1, <3>2 DEF Recoverable
    <3>5. lost[o] \in Record => root'[o].record = lost[o]
      BY <1>2, <1>3, <2>1, <2>6, <2>8 DEF Recoverable
    <3>6. QED
      BY <1>2, <1>3, <2>1, <2>4, <2>5, <2>8, <3>3, <3>4, <3>5 DEF Recoverable
  <2>9. QED
    BY <1>1, <2>7, <2>8
<1>6. \A op \in Ops : Recoverable(op)'
  BY <1>2, <1>3, <1>5 DEF ReceiptInv, Recoverable, Untouched, Expected
<1>7. QED
  BY <1>4, <1>6 DEF ReceiptInv

LEMMA ReceiptsSettled == RecoverySpec => []ReceiptInv
<1>1. RecoveryInit => ReceiptInv
  BY NilAssumption
  DEF RecoveryInit, Init, ReceiptInv, Recoverable, Untouched, Claimant, IdleRequest, CompleteWrites, Record
<1>2. TypeOK /\ LockInv /\ RecoveryTypeOK /\ HoldInv /\ ReceiptInv /\ [RecoveryNext]_allVars => ReceiptInv'
  <2> SUFFICES ASSUME TypeOK, LockInv, RecoveryTypeOK, HoldInv, ReceiptInv, [RecoveryNext]_allVars
               PROVE  ReceiptInv'
    OBVIOUS
  <2>1. CASE RecoveryNext /\ ~Beyond
    BY <2>1, StoreSteps, NextReceipts
  <2>2. CASE UNCHANGED <<store, req, backup, lost>>
    BY <2>2, ReceiptFrame DEF store
  <2>3. ASSUME NEW ops \in SUBSET {op \in Ops : root[op].dir}, Lose(ops)
        PROVE  ReceiptInv'
    BY <2>3, LoseReceipts
  <2>4. ASSUME NEW op \in Ops, BringBack(op)
        PROVE  ReceiptInv'
    BY <2>4, BringBackReceipts
  <2>5. CASE BeginMaintenance("backup") /\ UNCHANGED recoveryVars
    BY <2>2, <2>5 DEF BeginMaintenance, recoveryVars, store
  <2>6. CASE BeginRestore \/ LockRestore \/ EndRestore \/ CrashBeforeLock \/ \E op \in Ops : Preserve(op)
    BY <2>2, <2>6 DEF BeginRestore, LockRestore, EndRestore, CrashBeforeLock, Preserve, recoveryVars, store, vars
  <2>7. CASE UNCHANGED allVars
    BY <2>2, <2>7 DEF allVars, vars, recoveryVars, store
  <2>8. QED
    BY <2>1, <2>3, <2>4, <2>5, <2>6, <2>7, BackupReceipts DEF Beyond, Restore
<1>3. QED
  BY <1>1, <1>2, RecoveryTypeAndLock, RecoveryHolds, PTL DEF RecoverySpec

(* Whichever backup is restored, and however often receipts are lost: what *)
(* is in the store again is what was lost, never an earlier state of the   *)
(* operation (the comparison with the live index in restoreOperations).    *)
THEOREM LatestReceiptComesBack == RecoverySpec => []LatestComesBack
<1>1. ReceiptInv => LatestComesBack
  BY DEF ReceiptInv, Recoverable, LatestComesBack
<1>2. QED
  BY <1>1, ReceiptsSettled, PTL

-----------------------------------------------------------------------------
(* The number of operations.                                               *)

(* Receipts come back for operations of the index only.                    *)
LEMMA SameOperationsRecovered ==
  ASSUME TypeOK, LockInv, ReceiptInv, RecoveryNext, \A w \in Workers : ~MkGuard(w)
  PROVE  KnownOps' \subseteq KnownOps
<1> SUFFICES ASSUME NEW op \in Ops, Known(op)', ~Known(op)
             PROVE  FALSE
  BY DEF KnownOps
<1>1. ~guard[op].dir /\ ~root[op].dir
  BY DEF Known
<1>2. root'[op].dir
  BY <1>1, AddedByMkGuard DEF Known
<1>3. root' # root
  BY <1>1, <1>2
<1>4. ASSUME NEW w \in Workers, MkRoot(w) \/ WriteRecord(w) \/ WriteTmp(w) \/ Rename(w)
      PROVE  FALSE
  <2>1. req[w].op \in Ops /\ Claimant(w)
    BY <1>4 DEF MkRoot, WriteRecord, WriteTmp, Rename, TypeOK, WellFormed, Claimant, CompleteWrites, ClaimWrites
  <2>2. req[w].op # op
    BY <1>1, <2>1 DEF ReceiptInv, Owns
  <2>3. root'[op] = root[op]
    BY <1>4, <2>2 DEF MkRoot, WriteRecord, WriteTmp, Rename, TypeOK
  <2>4. QED
    BY <1>1, <1>2, <2>3
<1>5. ASSUME NEW o \in Ops, BringBack(o)
      PROVE  FALSE
  <2>1. PICK content \in {backup[o], Torn} :
          root' = [root EXCEPT ![o] = [@ EXCEPT !.dir = TRUE, !.record = content]]
    BY <1>5 DEF BringBack
  <2>2. o = op
    BY <1>1, <1>2, <2>1 DEF TypeOK
  <2>3. Untouched(op)
    BY <1>1 DEF ReceiptInv, Recoverable
  <2>4. Expected(op) = Nil
    BY <2>3 DEF Untouched, Expected
  <2>5. QED
    BY <1>5, <2>2, <2>4, NilAssumption DEF BringBack
<1>6. ASSUME NEW ops, Lose(ops)
      PROVE  FALSE
  BY <1>1, <1>2, <1>6, LostReceipts
<1>7. ~Beyond
  BY <1>3, <1>5, <1>6
  DEF Beyond, Restore, BeginMaintenance, TakeBackup, BeginRestore, LockRestore, EndRestore,
      CrashBeforeLock, Preserve, vars
<1>8. Next
  BY <1>7, StoreSteps
<1>9. QED
  BY <1>3, <1>4, <1>8
  DEF Next, Serve, LockStep, ClaimStep, CallStep, CompleteStep, Operate,
      Submit, Disconnect, Start, Crash, Acquire, LockTimeout, WriteHolder, Fault, Release, ReleaseFails,
      Read, TakeSlot, Claim, Reread, MkGuard, WriteClaim, CallProvider, HandlerThrows, Respond, Complete,
      WriteDone, UnlockHold, UnlockRelease, BeginMaintenance, Quarantine, VerifyRecovery, EndMaintenance,
      CrashMaintenance

LEMMA QuotaStays == RecoverySpec => []WithinQuota
<1>1. RecoveryInit => WithinQuota
  BY QuotaInitially DEF RecoveryInit
<1>2. TypeOK /\ LockInv /\ ReceiptInv /\ AdmitInv /\ WithinQuota /\ [RecoveryNext]_allVars => WithinQuota'
  <2> SUFFICES ASSUME TypeOK, LockInv, ReceiptInv, AdmitInv, WithinQuota, [RecoveryNext]_allVars
               PROVE  WithinQuota'
    OBVIOUS
  <2>1. CASE \E w \in Workers : MkGuard(w)
    BY <2>1, QuotaAdded
  <2>2. CASE RecoveryNext /\ \A w \in Workers : ~MkGuard(w)
    BY <2>2, SameOperationsRecovered, QuotaKept
  <2>3. CASE UNCHANGED allVars
    <3>1. KnownOps' = KnownOps
      BY <2>3, SameInventory DEF allVars, vars, store
    <3>2. QED
      BY <3>1, QuotaKept
  <2>4. QED
    BY <2>1, <2>2, <2>3
<1>3. QED
  BY <1>1, <1>2, RecoveryTypeAndLock, ReceiptsSettled, RecoveryAdmits, PTL DEF RecoverySpec

(* Losses and restores add no operation: the quota holds as it does without*)
(* them.                                                                   *)
THEOREM OperationsStayBounded == RecoverySpec => []OperationsBounded
<1>1. WithinQuota => OperationsBounded
  BY DEF WithinQuota, OperationsBounded
<1>2. QED
  BY <1>1, QuotaStays, PTL

-----------------------------------------------------------------------------
(* The capacity.                                                           *)

Promises == Space(Promised, KnownOps)

LEMMA SpaceIsFinite ==
  ASSUME WithinQuota
  PROVE  /\ IsFiniteSet(KnownOps \X (1..RecordUnits))
         /\ IsFiniteSet(Promises) /\ Cardinality(Promises) \in Nat
<1>1. IsFiniteSet(1..RecordUnits)
  BY FS_Interval, SizeAssumption
<1>2. IsFiniteSet(KnownOps \X (1..RecordUnits))
  BY <1>1, FS_Product DEF WithinQuota
<1>3. Promises \subseteq KnownOps \X (1..RecordUnits)
  BY DEF Promises, Space
<1>4. QED
  BY <1>2, <1>3, FS_Subset, FS_CardinalityType

LEMMA Sizes ==
  \A op \in Ops : /\ Promised(op) \in 1..RecordUnits /\ Promised(op)' \in 1..RecordUnits
                  /\ root[op].record \in Record => Stored(op) \in 1..RecordUnits
<1> SUFFICES ASSUME NEW op \in Ops
             PROVE  /\ Promised(op) \in 1..RecordUnits /\ Promised(op)' \in 1..RecordUnits
                    /\ root[op].record \in Record => Stored(op) \in 1..RecordUnits
  OBVIOUS
<1>1. \A x \in Responses : SizeOf[x] \in 1..RecordUnits
  BY SizeAssumption
<1>2. 1 \in 1..RecordUnits /\ RecordUnits \in 1..RecordUnits
  BY SizeAssumption
<1>3. Promised(op) \in 1..RecordUnits /\ Promised(op)' \in 1..RecordUnits
  BY <1>1, <1>2 DEF Promised, ClosedRecord
<1>4. root[op].record \in Record /\ root[op].record.resp # Nil => root[op].record.resp \in Responses
  BY DEF Record, OpenRecord, ClosedRecord
<1>5. QED
  BY <1>1, <1>2, <1>3, <1>4 DEF Stored

(* What is there is never more than was promised.                          *)
LEMMA StoredAsPromised ==
  ASSUME TypeOK, ReceiptInv, WithinQuota, RoomInv
  PROVE  Cardinality(Space(Stored, {op \in Ops : root[op].record \in Record})) <= MaxUnits
<1> DEFINE S == Space(Stored, {op \in Ops : root[op].record \in Record})
<1>1. ASSUME NEW op \in Ops, root[op].record \in Record
      PROVE  op \in KnownOps /\ Stored(op) <= Promised(op)
  <2>1. guard[op].dir
    BY <1>1, NilAssumption DEF ReceiptInv, Recoverable, Untouched
  <2>2. CASE root[op].record.resp = Nil
    <3>1. Stored(op) = 1
      BY <2>2 DEF Stored
    <3>2. QED
      BY <2>1, <3>1, Sizes DEF KnownOps, Known
  <2>3. CASE root[op].record.resp # Nil
    <3>1. root[op].record \in ClosedRecord
      BY <1>1, <2>3 DEF Record, OpenRecord
    <3>2. guard[op].done = root[op].record
      BY <1>1, <3>1 DEF ReceiptInv, Recoverable
    <3>3. SizeOf[root[op].record.resp] \in Nat
      BY <3>1, SizeAssumption DEF ClosedRecord
    <3>4. QED
      BY <2>1, <2>3, <3>1, <3>2, <3>3 DEF KnownOps, Known, Stored, Promised
  <2>4. QED
    BY <2>2, <2>3
<1>2. S \subseteq Promises
  <2> SUFFICES ASSUME NEW unit \in S
               PROVE  unit \in Promises
    OBVIOUS
  <2>1. unit[1] \in Ops /\ root[unit[1]].record \in Record /\ unit[2] \in 1..RecordUnits
        /\ unit = <<unit[1], unit[2]>> /\ unit[2] <= Stored(unit[1])
    BY DEF Space
  <2>2. unit[1] \in KnownOps /\ Stored(unit[1]) <= Promised(unit[1])
    BY <1>1, <2>1
  <2>3. Stored(unit[1]) \in Int /\ Promised(unit[1]) \in Int
    BY <2>1, Sizes, SizeAssumption
  <2>4. unit \in KnownOps \X (1..RecordUnits) /\ unit[2] <= Promised(unit[1])
    BY <2>1, <2>2, <2>3
  <2>5. QED
    BY <2>4 DEF Promises, Space
<1>3. Cardinality(S) <= Cardinality(Promises) /\ Cardinality(S) \in Nat
  BY <1>2, SpaceIsFinite, FS_Subset, FS_CardinalityType
<1>4. Cardinality(Promises) <= MaxUnits
  BY DEF RoomInv, Promises
<1>5. QED
  BY <1>3, <1>4, SpaceIsFinite, SizeAssumption

(* As long as no operation is admitted, promises only become smaller: when *)
(* the completed record is known, or when it is known never to come.       *)
LEMMA PromisesShrink ==
  ASSUME TypeOK, ReceiptInv, WithinQuota, RoomInv, KnownOps' \subseteq KnownOps,
         \A op \in Ops : Promised(op)' <= Promised(op)
  PROVE  Promises' \subseteq Promises /\ Cardinality(Promises') <= Cardinality(Promises)
<1>1. ASSUME NEW unit \in Promises'
      PROVE  unit \in Promises
  <2>1. /\ unit \in KnownOps' \X (1..RecordUnits) /\ unit[2] <= Promised(unit[1])'
    BY DEF Promises, Space
  <2>2. unit[1] \in Ops /\ unit \in KnownOps \X (1..RecordUnits)
    BY <2>1 DEF KnownOps
  <2>3. Promised(unit[1]) \in Int /\ Promised(unit[1])' \in Int /\ unit[2] \in Int
    BY <2>2, Sizes, SizeAssumption
  <2>4. unit[2] <= Promised(unit[1])
    BY <2>1, <2>2, <2>3
  <2>5. QED
    BY <2>2, <2>4 DEF Promises, Space
<1>2. QED
  BY <1>1, SpaceIsFinite, FS_Subset

(* The index changes in four ways only.                                    *)
LEMMA IndexSteps ==
  ASSUME TypeOK, RecoveryNext, guard' # guard
  PROVE  \/ \E w \in Workers : MkGuard(w) \/ WriteClaim(w) \/ WriteDone(w)
         \/ \E op \in Ops : Quarantine(op)
<1>1. Next
  BY BeyondFrame, StoreSteps
<1>2. QED
  BY <1>1
  DEF Next, Serve, LockStep, ClaimStep, CallStep, CompleteStep, Operate,
      Submit, Disconnect, Start, Crash, Acquire, LockTimeout, WriteHolder, Fault, Release, ReleaseFails,
      Read, TakeSlot, Claim, Reread, MkRoot, WriteRecord, CallProvider, HandlerThrows, Respond, Complete,
      WriteTmp, Rename, UnlockHold, UnlockRelease, BeginMaintenance, VerifyRecovery, EndMaintenance,
      CrashMaintenance

(* Each of them leaves completed.json and the mark alone, or writes one of *)
(* them where both are missing.                                            *)
LEMMA IndexWrites ==
  ASSUME TypeOK, RoomInv, RecoveryNext, NEW op \in Ops
  PROVE  \/ guard'[op].done = guard[op].done /\ guard'[op].mark = guard[op].mark
         \/ /\ guard[op].mark = Nil /\ guard'[op].mark = Nil /\ guard[op].done = Nil
            /\ \E w \in Workers : WriteDone(w) /\ req[w].op = op
         \/ guard'[op].done = guard[op].done /\ guard[op].mark = Nil /\ Quarantine(op)
<1>1. ASSUME NEW w \in Workers, MkGuard(w) \/ WriteClaim(w)
      PROVE  guard'[op].done = guard[op].done /\ guard'[op].mark = guard[op].mark
  <2>1. req[w].op \in Ops
    BY <1>1 DEF MkGuard, WriteClaim, TypeOK, WellFormed
  <2>2. QED
    BY <1>1, <2>1 DEF MkGuard, WriteClaim, TypeOK, Anchor
<1>2. ASSUME NEW w \in Workers, WriteDone(w)
      PROVE  IF req[w].op = op
             THEN guard[op].mark = Nil /\ guard'[op].mark = Nil /\ guard[op].done = Nil
             ELSE guard'[op] = guard[op]
  <2>1. req[w].op \in Ops /\ guard[req[w].op].mark = Nil
    BY <1>2 DEF WriteDone, TypeOK, WellFormed, RoomInv, CompleteWrites
  <2>2. QED
    BY <1>2, <2>1 DEF WriteDone, TypeOK, Anchor
<1>3. ASSUME NEW o \in Ops, Quarantine(o)
      PROVE  IF o = op THEN guard'[op].done = guard[op].done /\ guard[op].mark = Nil
             ELSE guard'[op] = guard[op]
  BY <1>3 DEF Quarantine, Running, TypeOK, Anchor
<1>4. QED
  BY <1>1, <1>2, <1>3, IndexSteps

LEMMA PromisedLess ==
  ASSUME TypeOK, RoomInv, RecoveryNext, NEW op \in Ops
  PROVE  Promised(op)' <= Promised(op)
<1>1. Promised(op) \in Nat /\ Promised(op)' \in Nat /\ Promised(op)' <= RecordUnits
      /\ 1 <= Promised(op)
  BY Sizes, SizeAssumption
<1>2. CASE guard'[op].done = guard[op].done /\ guard'[op].mark = guard[op].mark
  <2>1. Promised(op)' = Promised(op)
    BY <1>2 DEF Promised
  <2>2. QED
    BY <1>1, <2>1
<1>3. CASE guard[op].mark = Nil /\ guard[op].done = Nil
  <2>1. guard[op].done \notin ClosedRecord
    BY <1>3, Records DEF Record
  <2>2. Promised(op) = RecordUnits
    BY <1>3, <2>1 DEF Promised
  <2>3. QED
    BY <1>1, <2>2
<1>4. CASE guard'[op].done = guard[op].done /\ guard[op].mark = Nil
  <2>1. Promised(op) = Promised(op)' \/ Promised(op) = RecordUnits
    BY <1>4 DEF Promised
  <2>2. QED
    BY <1>1, <2>1
<1>5. QED
  BY <1>2, <1>3, <1>4, IndexWrites

(* What claim() counts covers every promise.                               *)
LEMMA ReservedCovers ==
  ASSUME TypeOK, WithinQuota, InventoryOK
  PROVE  Cardinality(Promises) <= Reserved /\ Reserved \in Nat
<1>1. ASSUME NEW op \in KnownOps
      PROVE  op \in Ops /\ Promised(op) <= Units(op) /\ Units(op) \in 1..RecordUnits
  <2>1. op \in Ops /\ Readable(op)
    BY DEF KnownOps, InventoryOK
  <2>2. Promised(op) \in 1..RecordUnits /\ 1 \in 1..RecordUnits /\ RecordUnits \in 1..RecordUnits
    BY <2>1, Sizes, SizeAssumption
  <2>3. CASE Running(op)
    <3>1. Units(op) = RecordUnits
      BY <2>3 DEF Units
    <3>2. QED
      BY <2>1, <2>2, <3>1
  <2>4. CASE ~Running(op) /\ root[op].record.resp = Nil
    <3>1. guard[op].done = Nil /\ guard[op].mark # Nil
      BY <2>1, <2>4 DEF Readable, Running
    <3>2. guard[op].done \notin ClosedRecord
      BY <3>1, Records DEF Record
    <3>3. Promised(op) = 1 /\ Units(op) = 1
      BY <2>4, <3>1, <3>2 DEF Promised, Units
    <3>4. QED
      BY <2>1, <2>2, <3>3
  <2>5. CASE ~Running(op) /\ root[op].record.resp # Nil
    <3>1. guard[op].done = root[op].record /\ root[op].record \in Record
      BY <2>1, <2>5 DEF Readable, Expected
    <3>2. root[op].record \in ClosedRecord
      BY <2>5, <3>1 DEF Record, OpenRecord
    <3>3. Units(op) = Promised(op)
      BY <2>5, <3>1, <3>2 DEF Promised, Units
    <3>4. QED
      BY <2>1, <2>2, <3>3
  <2>6. QED
    BY <2>3, <2>4, <2>5
<1>2. ASSUME NEW unit \in Promises
      PROVE  unit \in Space(Units, KnownOps)
  <2>1. unit \in KnownOps \X (1..RecordUnits) /\ unit[2] <= Promised(unit[1])
    BY DEF Promises, Space
  <2>2. unit[1] \in KnownOps /\ unit[2] \in Int
    BY <2>1
  <2>3. Promised(unit[1]) <= Units(unit[1]) /\ Units(unit[1]) \in Int /\ Promised(unit[1]) \in Int
    BY <1>1, <2>2, Sizes, SizeAssumption
  <2>4. unit[2] <= Units(unit[1])
    BY <2>1, <2>2, <2>3
  <2>5. QED
    BY <2>1, <2>4 DEF Space
<1>3. Space(Units, KnownOps) \subseteq KnownOps \X (1..RecordUnits)
  BY DEF Space
<1>4. IsFiniteSet(Space(Units, KnownOps))
  BY <1>3, SpaceIsFinite, FS_Subset
<1>5. QED
  BY <1>2, <1>4, FS_Subset, FS_CardinalityType DEF Reserved

(* The first directory takes up what was reserved for it.                  *)
LEMMA RoomTaken ==
  ASSUME TypeOK, LockInv, ReceiptInv, AdmitInv, WithinQuota, RoomInv, NEW w \in Workers,
         RecoveryNext, MkGuard(w)
  PROVE  Cardinality(Promises') <= MaxUnits
<1> DEFINE New == {req[w].op} \X (1..RecordUnits)
<1>1. KnownOps' = KnownOps \cup {req[w].op}
  <2>1. req[w].op \in Ops
    BY DEF MkGuard, TypeOK, WellFormed
  <2>2. root' = root /\ \A op \in Ops : guard'[op].dir = (op = req[w].op \/ guard[op].dir)
    BY <2>1 DEF MkGuard, TypeOK, Anchor
  <2>3. QED
    BY <2>1, <2>2 DEF KnownOps, Known
<1>2. ASSUME NEW unit \in Promises'
      PROVE  unit \in Promises \cup New
  <2>1. unit \in KnownOps' \X (1..RecordUnits) /\ unit[2] <= Promised(unit[1])'
    BY DEF Promises, Space
  <2>2. CASE unit[1] = req[w].op
    BY <2>1, <2>2
  <2>3. CASE unit[1] # req[w].op
    <3>1. unit \in KnownOps \X (1..RecordUnits) /\ unit[1] \in Ops /\ unit[2] \in Int
      BY <1>1, <2>1, <2>3 DEF KnownOps
    <3>2. Promised(unit[1])' <= Promised(unit[1])
      BY <3>1, PromisedLess
    <3>3. Promised(unit[1]) \in Int /\ Promised(unit[1])' \in Int
      BY <3>1, Sizes, SizeAssumption
    <3>4. unit[2] <= Promised(unit[1])
      BY <2>1, <3>1, <3>2, <3>3
    <3>5. QED
      BY <3>1, <3>4 DEF Promises, Space
  <2>4. QED
    BY <2>2, <2>3
<1>3. IsFiniteSet(New) /\ Cardinality(New) = RecordUnits
  <2>1. IsFiniteSet(1..RecordUnits) /\ Cardinality(1..RecordUnits) = RecordUnits
    BY FS_Interval, SizeAssumption
  <2>2. IsFiniteSet({req[w].op}) /\ Cardinality({req[w].op}) = 1
    BY FS_Singleton
  <2>3. IsFiniteSet(New) /\ Cardinality(New) = 1 * RecordUnits
    BY <2>1, <2>2, FS_Product
  <2>4. QED
    BY <2>3, SizeAssumption
<1>4. /\ IsFiniteSet(Promises \cup New)
      /\ Cardinality(Promises \cup New) =
           Cardinality(Promises) + RecordUnits - Cardinality(Promises \cap New)
  BY <1>3, SpaceIsFinite, FS_Union
<1>5. Promises \cap New \subseteq New
  OBVIOUS
<1>6. Cardinality(Promises \cap New) \in Nat /\ Cardinality(Promises) \in Nat
  BY <1>3, <1>5, SpaceIsFinite, FS_Subset, FS_CardinalityType
<1>7. Cardinality(Promises') <= Cardinality(Promises \cup New) /\ Cardinality(Promises') \in Nat
  BY <1>2, <1>4, FS_Subset, FS_CardinalityType
<1>8. Cardinality(Promises) + RecordUnits <= MaxUnits
  BY DEF MkGuard, RoomInv, Promises
<1>9. QED
  BY <1>4, <1>6, <1>7, <1>8, SizeAssumption

(* The writes of a completion begin with a look at the mark.               *)
LEMMA CompletionBegins ==
  ASSUME TypeOK, Next, NEW w \in Workers, req[w].pc \notin CompleteWrites,
         req'[w].pc \in CompleteWrites
  PROVE  Complete(w) /\ SameClient(w)
<1> USE DEF PCs, Sections, Inner, Outer, ClaimWrites, CompleteWrites
<1>1. \A op \in Ops, o \in Owners, i \in Inputs \cup {Nil} : ~Submit(w, op, o, i)
  <2> SUFFICES ASSUME NEW op \in Ops, NEW o \in Owners, NEW i \in Inputs \cup {Nil}, Submit(w, op, o, i)
               PROVE  FALSE
    OBVIOUS
  <2>1. req'[w] = [IdleRequest EXCEPT !.pc = "read", !.op = op, !.owner = o, !.input = i]
    BY DEF Submit, TypeOK
  <2>2. req'[w].pc = "read"
    BY <2>1 DEF IdleRequest
  <2>3. QED
    BY <2>2
<1>2. Serve(w) /\ SameClient(w)
  BY <1>1, RequestSteps DEF IdleRequest
<1>3. ~LockStep(w)
  <2>1. req[w].next \in PCs \ CompleteWrites
    BY DEF TypeOK, Request, Nexts
  <2>2. QED
    BY <2>1, Moves
    DEF LockStep, Acquire, LockTimeout, WriteHolder, Fault, Release, ReleaseFails
<1>4. ~CallStep(w) /\ ~ClaimStep(w)
  BY Moves
  DEF CallStep, CallProvider, HandlerThrows, ClaimStep, Read, TakeSlot, Claim, Reread, MkGuard, MkRoot,
      WriteRecord, WriteClaim
<1>5. QED
  BY <1>2, <1>3, <1>4, Moves DEF Serve, CompleteStep, WriteTmp, WriteDone, Rename

(* From there on the lock keeps the mark away.                             *)
LEMMA MarkStaysAway ==
  ASSUME TypeOK, LockInv, RoomInv, RecoveryNext, NEW w \in Workers, req'[w].pc \in CompleteWrites
  PROVE  guard'[req'[w].op].mark = Nil
<1>1. CASE req[w].pc \in CompleteWrites
  <2>1. req'[w].op = req[w].op /\ req[w].op \in Ops
    <3>1. \A op \in Ops, o \in Owners, i \in Inputs \cup {Nil} : ~Submit(w, op, o, i)
      BY <1>1 DEF Submit, CompleteWrites
    <3>2. req[w].op \in Ops
      BY <1>1 DEF TypeOK, WellFormed, CompleteWrites
    <3>3. CASE Beyond
      BY <3>2, <3>3, BeyondFrame
    <3>4. CASE ~Beyond
      <4>1. Next
        BY <3>4, StoreSteps
      <4>2. QED
        BY <3>1, <3>2, <4>1, RequestSteps DEF IdleRequest, SameClient, CompleteWrites
    <3>5. QED
      BY <3>3, <3>4
  <2>2. \A op \in Ops : ~Quarantine(op)
    BY <1>1, LockAssumption
    DEF Quarantine, LockInv, WritersExcluded, Inner, NotWorkers, UnderLock
  <2>3. guard[req[w].op].mark = Nil
    BY <1>1 DEF RoomInv
  <2>4. QED
    BY <2>1, <2>2, <2>3, IndexWrites
<1>2. CASE req[w].pc \notin CompleteWrites
  <2>1. Complete(w) /\ SameClient(w)
    BY <1>2, BeyondFrame, StoreSteps, CompletionBegins
  <2>2. QED
    BY <2>1 DEF Complete, Running, SameClient
<1>3. QED
  BY <1>1, <1>2

LEMMA RoomKept ==
  ASSUME TypeOK, LockInv, ReceiptInv, AdmitInv, WithinQuota, RoomInv, RecoveryNext
  PROVE  RoomInv'
<1>1. ASSUME \A w \in Workers : ~MkGuard(w)
      PROVE  Promises' \subseteq Promises /\ Cardinality(Promises') <= Cardinality(Promises)
  BY <1>1, SameOperationsRecovered, PromisedLess, PromisesShrink
<1>2. Cardinality(Promises) \in Nat /\ Cardinality(Promises) <= MaxUnits
  BY SpaceIsFinite DEF RoomInv, Promises
<1>3. Cardinality(Promises') \in Nat
  <2>1. CASE \E w \in Workers : MkGuard(w)
    <3>1. WithinQuota'
      BY <2>1, QuotaAdded
    <3>2. IsFiniteSet(KnownOps') /\ IsFiniteSet(1..RecordUnits)
      BY <3>1, FS_Interval, SizeAssumption DEF WithinQuota
    <3>3. IsFiniteSet(KnownOps' \X (1..RecordUnits))
      BY <3>2, FS_Product
    <3>4. Promises' \subseteq KnownOps' \X (1..RecordUnits)
      BY DEF Promises, Space
    <3>5. QED
      BY <3>3, <3>4, FS_Subset, FS_CardinalityType
  <2>2. CASE \A w \in Workers : ~MkGuard(w)
    BY <1>1, <2>2, SpaceIsFinite, FS_Subset, FS_CardinalityType
  <2>3. QED
    BY <2>1, <2>2
<1>4. Cardinality(Promises') <= MaxUnits
  <2>1. CASE \E w \in Workers : MkGuard(w)
    BY <2>1, RoomTaken
  <2>2. CASE \A w \in Workers : ~MkGuard(w)
    BY <1>1, <1>2, <1>3, <2>2, SizeAssumption
  <2>3. QED
    BY <2>1, <2>2
<1>5. ASSUME NEW w \in Workers, req'[w].pc = "mkguard"
      PROVE  Cardinality(Promises') + RecordUnits <= MaxUnits
  <2>1. CASE req[w].pc = "mkguard"
    <3>1. \A v \in Workers : ~MkGuard(v)
      <4> SUFFICES ASSUME NEW v \in Workers, MkGuard(v)
                   PROVE  FALSE
        OBVIOUS
      <4>1. v = w
        BY <2>1 DEF MkGuard, LockInv, WritersExcluded, Inner, ClaimWrites
      <4>2. QED
        BY <1>5, <4>1 DEF MkGuard, Goto, TypeOK, Request
    <3>2. Cardinality(Promises) + RecordUnits <= MaxUnits
      BY <2>1 DEF RoomInv, Promises
    <3>3. QED
      BY <1>1, <1>2, <1>3, <3>1, <3>2, SizeAssumption
  <2>2. CASE req[w].pc # "mkguard"
    <3>1. Claim(w) /\ ~Known(req[w].op)
      BY <1>5, <2>2, BeyondFrame, StoreSteps, DecidedByClaim
    <3>2. InventoryOK /\ Reserved + RecordUnits <= MaxUnits
      BY <3>1 DEF Claim
    <3>3. \A v \in Workers : ~MkGuard(v)
      BY <3>1 DEF Claim, MkGuard, TypeOK, Anchor, WellFormed
    <3>4. Cardinality(Promises) <= Reserved /\ Reserved \in Nat
      BY <3>2, ReservedCovers
    <3>5. QED
      BY <1>1, <1>2, <1>3, <3>2, <3>3, <3>4, SizeAssumption
  <2>3. QED
    BY <2>1, <2>2
<1>6. QED
  BY <1>4, <1>5, MarkStaysAway DEF RoomInv, Promises

(* The store stays within its capacity, whatever sizes completed records   *)
(* have, and although receipts are lost and restored: what an operation may*)
(* grow to is set aside in its index entry, which nothing removes, until   *)
(* its completed record or its mark says that it will not (claim(), which  *)
(* counts a running operation with the largest record).                    *)
THEOREM CapacityHolds == RecoverySpec => []WithinCapacity
<1>1. RecoveryInit => RoomInv
  <2> SUFFICES ASSUME RecoveryInit
               PROVE  RoomInv
    OBVIOUS
  <2>1. KnownOps = {}
    BY DEF RecoveryInit, Init, KnownOps, Known
  <2>2. Space(Promised, KnownOps) = {}
    BY <2>1 DEF Space
  <2>3. \A w \in Workers : req[w].pc = "idle"
    BY DEF RecoveryInit, Init, IdleRequest
  <2>4. QED
    BY <2>2, <2>3, FS_EmptySet, SizeAssumption DEF RoomInv, CompleteWrites
<1>2. TypeOK /\ LockInv /\ ReceiptInv /\ AdmitInv /\ WithinQuota /\ RoomInv /\ [RecoveryNext]_allVars
        => RoomInv'
  <2> SUFFICES ASSUME TypeOK, LockInv, ReceiptInv, AdmitInv, WithinQuota, RoomInv, UNCHANGED allVars
               PROVE  RoomInv'
    BY RoomKept
  <2>1. guard' = guard /\ root' = root /\ req' = req
    BY DEF allVars, vars
  <2>2. KnownOps' = KnownOps
    BY <2>1, SameInventory DEF store
  <2>3. Space(Promised, KnownOps)' = Space(Promised, KnownOps)
    BY <2>1, <2>2 DEF Space, Promised
  <2>4. QED
    BY <2>1, <2>3 DEF RoomInv
<1>3. TypeOK /\ ReceiptInv /\ WithinQuota /\ RoomInv => WithinCapacity
  BY StoredAsPromised DEF WithinCapacity, WithinQuota, OperationsBounded
<1>4. QED
  BY <1>1, <1>2, <1>3, RecoveryTypeAndLock, ReceiptsSettled, RecoveryAdmits, QuotaStays, PTL
  DEF RecoverySpec
=============================================================================
