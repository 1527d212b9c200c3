-------------------------- MODULE OperationRecovery --------------------------
(***************************************************************************)
(* Loss of receipts, backup and restore, beside everything OperationStore  *)
(* does.                                                                   *)
(*                                                                         *)
(* A backup copies receipts and index; a restore brings back receipts that *)
(* are lost, and only those, each checked against the live index, which is *)
(* never replaced.  A restore sets the admission hold before it takes the  *)
(* lock, and writes every receipt in place, so that it may stop after some *)
(* of them or in the middle of one.  Nothing makes the operator use the    *)
(* newest backup.                                                          *)
(***************************************************************************)
EXTENDS OperationStore

CONSTANTS
  MaxLosses,  \* bound: how often receipts are lost
  Beside      \* bound: the processes that run once there is a backup

ASSUME LossAssumption == MaxLosses \in Nat /\ Beside \subseteq Procs

VARIABLES
  backup,      \* the backup directory the operator keeps: the receipts in it,
               \*   or Nil when there is none with a manifest
  pending,     \* the keys of the index that the restore has not looked at yet
  unverified,  \* a restore has run under the lock and no verify since (history)
  losses,      \* how often receipts were lost (bounded)
  lost         \* lost[op]: what was in record.json when it was last lost (history)

recoveryVars == <<backup, pending, unverified, losses, lost>>
allVars == <<vars, recoveryVars>>

RecoveryInit ==
  /\ Init
  /\ backup = Nil /\ pending = {} /\ unverified = FALSE /\ losses = 0
  /\ lost = [op \in Ops |-> Nil]

-----------------------------------------------------------------------------
(* The disk loses receipt directories, or the whole receipt store.  Bounds:*)
(* not while a request is writing, and only when there is a backup: without*)
(* one the store stays closed for good.                                    *)
Lose(ops) ==
  /\ losses < MaxLosses /\ backup # Nil /\ lock.by \notin Workers
  /\ losses' = losses + 1
  /\ root' = [op \in Ops |-> IF op \in ops THEN [dir |-> FALSE, record |-> Nil, tmp |-> Nil]
                             ELSE root[op]]
  /\ lost' = [op \in Ops |-> IF op \in ops THEN root[op].record ELSE lost[op]]
  /\ UNCHANGED <<guard, hold, lock, up, slot, req, calls, cli,
                 backup, pending, unverified>>

-----------------------------------------------------------------------------
(* backupOperations: one locked section.  It refuses a store that is not   *)
(* readable, works under a hold, and writes the manifest last: a backup    *)
(* that was interrupted has none and cannot be restored from.              *)
TakeBackup ==
  /\ cli = "backup"
  /\ InventoryOK
  /\ \A p \in Procs \ Beside : ~up[p]
  /\ backup' = [op \in Ops |-> IF Known(op) THEN root[op].record ELSE Nil]
  /\ cli' = "release"
  /\ UNCHANGED <<guard, root, hold, lock, up, slot, req, calls,
                 pending, unverified, losses, lost>>

(* Variant: admission is held only when a receipt turns out to be missing. *)
BeginRestoreUnheld ==
  /\ cli = "idle" /\ backup # Nil /\ Stopped
  /\ hold' = (hold \/ \E op \in Ops : guard[op].dir /\ ~root[op].dir)
  /\ cli' = "restore"
  /\ UNCHANGED <<guard, root, lock, up, slot, req, calls, recoveryVars>>

(* The first part of a restore comes before the lock: the hold is set, and *)
(* a receipt store that is gone altogether is created again, empty.  Here  *)
(* the operator's word that the services are stopped is needed, since an   *)
(* admission decided just before would overtake a hold set without the     *)
(* lock.  They may be started again at any moment after.                   *)
BeginRestore ==
  /\ cli = "idle" /\ backup # Nil /\ Stopped
  /\ hold' = TRUE
  /\ cli' = "restore"
  /\ UNCHANGED <<guard, root, lock, up, slot, req, calls, recoveryVars>>

(* Then the lock, unless it cannot be obtained: the hold stays.            *)
LockRestore ==
  /\ cli = "restore"
  /\ IF lock.by = "free"
     THEN /\ lock' = [by |-> "operator", holder |-> "pid"]
          /\ cli' = "restoring"
          /\ pending' = {op \in Ops : guard[op].dir}
          /\ unverified' = TRUE
     ELSE /\ cli' = "idle"
          /\ UNCHANGED <<lock, pending, unverified>>
  /\ UNCHANGED <<guard, root, hold, up, slot, req, calls, backup, losses, lost>>

(* The receipt is there: it must be the latest one, and is left alone.     *)
Preserve(op) ==
  /\ cli = "restoring" /\ op \in pending
  /\ root[op].record # Nil
  /\ root[op].record \in Record /\ root[op].record = Expected(op)
  /\ pending' = pending \ {op}
  /\ UNCHANGED <<vars, backup, unverified, losses, lost>>

(* Variant: whatever receipt the backup has of the operation will do.      *)
BringBackAny(op) ==
  /\ cli = "restoring" /\ op \in pending
  /\ root[op].record = Nil /\ Expected(op) \in Record
  /\ backup[op] # Nil
  /\ \E content \in {backup[op], Torn} :
       /\ root' = [root EXCEPT ![op] = [@ EXCEPT !.dir = TRUE, !.record = content]]
       /\ IF content = Torn THEN cli' = "release" /\ pending' = {}
          ELSE cli' = cli /\ pending' = pending \ {op}
  /\ UNCHANGED <<guard, hold, lock, up, slot, req, calls, backup, unverified, losses, lost>>

(* It is missing: only the receipt whose hash the index expects may take   *)
(* its place.  The write is in place and may be cut off.                   *)
BringBack(op) ==
  /\ cli = "restoring" /\ op \in pending
  /\ root[op].record = Nil /\ Expected(op) \in Record
  /\ backup[op] = Expected(op)
  /\ \E content \in {backup[op], Torn} :
       /\ root' = [root EXCEPT ![op] = [@ EXCEPT !.dir = TRUE, !.record = content]]
       /\ IF content = Torn THEN cli' = "release" /\ pending' = {}
          ELSE cli' = cli /\ pending' = pending \ {op}
  /\ UNCHANGED <<guard, hold, lock, up, slot, req, calls, backup, unverified, losses, lost>>

(* The restore ends.  It has gone through all keys, the backup has no key  *)
(* the index does not know, and the inventory passes; or one of the checks *)
(* refused, and what has been brought back so far stays.                   *)
EndRestore ==
  /\ cli = "restoring"
  /\ cli' = "release"
  /\ pending' = {}
  /\ UNCHANGED <<guard, root, hold, lock, up, slot, req, calls,
                 backup, unverified, losses, lost>>

(* Before it has the lock, a restore that is killed leaves only the hold.  *)
CrashBeforeLock ==
  /\ cli = "restore"
  /\ cli' = "idle"
  /\ UNCHANGED <<guard, root, hold, lock, up, slot, req, calls, recoveryVars>>

CrashCommand ==
  /\ CrashMaintenance
  /\ pending' = {}
  /\ UNCHANGED <<backup, unverified, losses, lost>>

(* verify --acknowledge renames the hold away before it writes its event:  *)
(* when it fails there, admission is enabled all the same.                 *)
LiftHold ==
  /\ VerifyRecovery
  /\ unverified' = FALSE
  /\ UNCHANGED <<backup, pending, losses, lost>>

-----------------------------------------------------------------------------

Restore ==
  \/ BeginRestore \/ LockRestore \/ EndRestore \/ CrashBeforeLock
  \/ \E op \in Ops : Preserve(op) \/ BringBack(op)

(* OperationStore's own steps; two of its commands are extended above.     *)
StoreStep ==
  \/ \E w \in Workers, op \in Ops, o \in Owners, i \in Inputs \cup {Nil} : Submit(w, op, o, i)
  \/ \E w \in Workers : Serve(w) \/ Disconnect(w)
  \/ \E p \in Procs : \/ (backup = Nil \/ p \in Beside) /\ Start(p)
                      \/ Crash(p)
  \/ UnlockHold \/ UnlockRelease
  \/ \E command \in {"quarantine", "verify", "backup"} : BeginMaintenance(command)
  \/ \E op \in Ops : Quarantine(op)
  \/ EndMaintenance

RecoveryNext ==
  \/ StoreStep /\ UNCHANGED recoveryVars
  \/ \E ops \in SUBSET {op \in Ops : root[op].dir} : ops # {} /\ Lose(ops)
  \/ TakeBackup \/ Restore \/ CrashCommand \/ LiftHold

RecoverySpec == RecoveryInit /\ [][RecoveryNext]_allVars

-----------------------------------------------------------------------------
(* Properties.                                                             *)

(* An older receipt never comes back as the latest: whatever is lost, and  *)
(* whichever backup is restored how often, a receipt that is in the store  *)
(* again is the one that was lost (restoreOperations takes what it expects *)
(* from the live index, and nothing from the backup's).                    *)
LatestComesBack ==
  \A op \in Ops : lost[op] \in Record /\ root[op].record \in Record =>
                    root[op].record = lost[op]

(* What the proof of LatestComesBack rests on.                             *)
RecoveryTypeOK ==
  /\ backup # Nil => backup \in [Ops -> Record \cup {Nil}]
  /\ lost \in [Ops -> Record \cup NoFile]
  /\ pending \subseteq Ops

(* What index, receipt and backup of one operation say together, although  *)
(* the receipt may be missing: whatever may come back is what was lost.    *)
Recoverable(op) ==
  /\ ~guard[op].dir => Untouched(op) /\ lost[op] \notin Record
  /\ \A record \in {root[op].record, guard[op].done} : record \in Record =>
       /\ record \in ClosedRecord => guard[op].done = record
       /\ guard[op].claim \in Record => /\ guard[op].claim.owner = record.owner
                                       /\ guard[op].claim.input = record.input
  /\ lost[op] \in Record =>
       /\ root[op].record \in Record => root[op].record = lost[op]
       /\ backup # Nil /\ backup[op] \in Record /\ backup[op] = Expected(op) =>
            backup[op] = lost[op]
  /\ backup # Nil /\ backup[op] \in ClosedRecord =>
       /\ guard[op].done = backup[op]
       /\ root[op].record \in Record => root[op].record = backup[op]

(* The owner of an operation, which may lose its receipt during the call.  *)
Owns(w) ==
  LET op == req[w].op  pc == req[w].pc IN
  /\ guard[op].dir
  /\ guard[op].claim = IF pc \in {"mkroot", "record", "anchor"} THEN Nil ELSE Record0(w)
  /\ guard[op].done = IF pc = "rename" THEN Completed(w) ELSE Nil
  /\ root[op].tmp = IF pc \in {"done", "rename"} THEN Completed(w) ELSE Nil
  /\ \/ root[op].record = IF pc \in {"mkroot", "record"} THEN Nil ELSE Record0(w)
     \/ root[op].record = Nil /\ pc \in {"call", "respond", "complete"}
  /\ lost[op] \in Record => root[op].record = Nil /\ pc \in {"call", "respond", "complete"}

ReceiptInv ==
  /\ \A op \in Ops : Recoverable(op)
  /\ \A w \in Workers : Claimant(w) => Owns(w)
  /\ \A v, w \in Workers : Claimant(v) /\ Claimant(w) /\ req[v].op = req[w].op => v = w

(* What every operation may still grow to: as much as is reserved for it,  *)
(* once it is completed its own size, and no more than it has when it will *)
(* never be completed.  There is room for all of that, and for one more    *)
(* when it is being admitted: what WithinCapacity rests on.                *)
Promised(op) ==
  IF guard[op].done \in ClosedRecord THEN SizeOf[guard[op].done.resp]
  ELSE IF guard[op].mark = Nil THEN RecordUnits ELSE 1
RoomInv ==
  /\ Cardinality(Space(Promised, KnownOps)) <= MaxUnits
  /\ \A w \in Workers :
       /\ req[w].pc = "mkguard" =>
            Cardinality(Space(Promised, KnownOps)) + RecordUnits <= MaxUnits
       /\ req[w].pc \in CompleteWrites => guard[req[w].op].mark = Nil

(* While a restore is under way nobody owns an operation, and until the    *)
(* next verify nobody is about to: what ResumesVerified rests on.          *)
HoldInv ==
  /\ cli \in {"restore", "restoring"} =>
       backup # Nil /\ hold /\ \A w \in Workers : ~Claimant(w) /\ req[w].pc # "mkguard"
  /\ unverified => hold /\ \A w \in Workers : req[w].pc # "mkguard"

(* From the moment a restore has the lock, nothing new is admitted until a *)
(* verify has found every operation readable and none running, also when   *)
(* the restore is refused, crashes half-way or leaves a torn receipt.      *)
ResumesVerified ==
  [][\A op \in Ops : ~guard[op].dir /\ guard'[op].dir => ~unverified]_allVars
=============================================================================
