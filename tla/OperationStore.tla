--------------------------- MODULE OperationStore ----------------------------
(***************************************************************************)
(* The durable operation store of the question service, file by file, and  *)
(* the request handler that drives it.                                     *)
(*                                                                         *)
(* Two sibling directories hold one subdirectory per operation: the        *)
(* receipts ("root") and the authoritative index ("guard").  Every store   *)
(* operation runs under a lock directory that several server processes and *)
(* the recovery CLI share.  Each file write is a step of its own, because  *)
(* a full disk or a crash may stop the handler between any two of them, or *)
(* leave a file torn.  A file holds a record (a hash of a file is the      *)
(* record it was computed from: no two records share a hash), Nil when it  *)
(* is absent, or Torn.                                                     *)
(***************************************************************************)
EXTENDS Integers, FiniteSets

CONSTANTS
  Ops,            \* operation identifiers (a phase and a UUID)
  Owners,         \* hashes of reviewer sessions
  Inputs,         \* hashes of canonical request bodies
  Responses,      \* what a run of the handler can produce
  Workers,        \* HTTP requests a process can serve at the same time
  Procs,          \* server processes that share the directories
  ProcOf,         \* the process that serves each worker
  SizeOf,         \* size of a completed record, in storage units
  RecordUnits,    \* largest record, and what a running one reserves
  MaxUnits,       \* capacity of the store
  MaxOperations,  \* largest number of operations kept
  Nil,            \* absent: no file, no value
  Torn            \* a file whose content is incomplete

(* A running record has no response yet; a completed one has.              *)
OpenRecord == [owner : Owners, input : Inputs, resp : {Nil}]
ClosedRecord == [owner : Owners, input : Inputs, resp : Responses]
Record == OpenRecord \cup ClosedRecord
NoFile == {Nil, Torn}

(* Who holds the lock directory when no request does.                      *)
NotWorkers == {"free", "operator", "abandoned"}

ASSUME ProcAssumption == ProcOf \in [Workers -> Procs]
ASSUME NilAssumption ==
  /\ Nil # Torn
  /\ Nil \notin Ops \cup Owners \cup Inputs \cup Responses \cup Workers
  /\ {Nil, Torn} \cap Record = {}
ASSUME LockAssumption == NotWorkers \cap Workers = {}
ASSUME SizeAssumption ==
  /\ RecordUnits \in Nat \ {0} /\ MaxUnits \in Nat /\ MaxOperations \in Nat
  /\ SizeOf \in [Responses -> 1..RecordUnits]

VARIABLES
  guard,   \* guard[op]: the index directory, with claim.json, completed.json
           \*   and uncertain.json
  root,    \* root[op]: the receipt directory, with record.json and completed.tmp
  hold,    \* .recovery-hold.json exists
  lock,    \* .writer-lock: who created it and what its holder.json contains
  up,      \* up[p]: process p is running
  slot,    \* slot[p]: the request that took p's only model slot, or Nil
  req,     \* req[w]: the request in progress and how far it is
  calls,   \* calls[op]: requests sent to the model provider for op (history)
  cli      \* the recovery command in progress

store == <<guard, root>>
vars == <<guard, root, hold, lock, up, slot, req, calls, cli>>

(* Where a request waits for the lock or, once inside, reads and decides.  *)
Sections == {"read", "claim", "reread", "complete"}
ClaimWrites == {"mkguard", "mkroot", "record", "anchor"}
CompleteWrites == {"tmp", "done", "rename"}
Inner == ClaimWrites \cup CompleteWrites \cup {"release"}
Outer == {"idle", "slot", "call", "respond", "reply"}
PCs == Sections \cup Inner \cup Outer
Replies == {"none", "error", "busy", "notfound", "conflict", "pending",
            "uncertain", "completed"}

Nexts == {"idle", "slot", "call", "reread", "reply"}

Anchor == [dir : BOOLEAN, claim : OpenRecord \cup NoFile,
           done : ClosedRecord \cup NoFile, mark : OpenRecord \cup NoFile]
Receipt == [dir : BOOLEAN, record : Record \cup NoFile, tmp : ClosedRecord \cup NoFile]
Request == [pc : PCs, next : Nexts, op : Ops \cup {Nil}, owner : Owners \cup {Nil},
            input : Inputs \cup {Nil}, resp : Responses \cup {Nil}, reply : Replies]

(* A request that intends to write carries what it will write.             *)
WellFormed(r) ==
  /\ r.pc # "idle" => r.op \in Ops /\ r.owner \in Owners
  /\ \/ r.pc \in ClaimWrites \cup CompleteWrites \cup {"slot", "claim", "call", "respond", "complete"}
     \/ r.pc = "release" /\ r.next \in {"slot", "call"}
     => r.input \in Inputs
  /\ r.pc \in CompleteWrites \cup {"complete"} => r.resp \in Responses

(* The recovery commands, those of OperationRecovery included, and which   *)
(* of them hold the lock.                                                  *)
UnderLock == {"quarantine", "verify", "backup", "restoring", "release"}
Commands == {"idle", "unlock", "restore"} \cup UnderLock

TypeOK ==
  /\ guard \in [Ops -> Anchor]
  /\ root \in [Ops -> Receipt]
  /\ hold \in BOOLEAN
  /\ lock \in [by : Workers \cup NotWorkers, holder : {"none", "torn", "pid"}]
  /\ up \in [Procs -> BOOLEAN]
  /\ slot \in [Procs -> Workers \cup {Nil}]
  /\ req \in [Workers -> Request]
  /\ \A w \in Workers : WellFormed(req[w])
  /\ calls \in [Ops -> Nat]
  /\ cli \in Commands

IdleRequest == [pc |-> "idle", next |-> "idle", op |-> Nil, owner |-> Nil,
                input |-> Nil, resp |-> Nil, reply |-> "none"]
FreeLock == [by |-> "free", holder |-> "none"]

(* An initialized store, empty, with no process started yet.               *)
Init ==
  /\ guard = [op \in Ops |-> [dir |-> FALSE, claim |-> Nil, done |-> Nil, mark |-> Nil]]
  /\ root = [op \in Ops |-> [dir |-> FALSE, record |-> Nil, tmp |-> Nil]]
  /\ hold = FALSE
  /\ lock = FreeLock
  /\ up = [p \in Procs |-> FALSE]
  /\ slot = [p \in Procs |-> Nil]
  /\ req = [w \in Workers |-> IdleRequest]
  /\ calls = [op \in Ops |-> 0]
  /\ cli = "idle"

-----------------------------------------------------------------------------
(* What readOne and inventory conclude from the files.                     *)

Known(op) == guard[op].dir \/ root[op].dir

(* completed.json, when present, says which record.json is the latest.     *)
Expected(op) == IF guard[op].done # Nil THEN guard[op].done ELSE guard[op].claim

(* readOne accepts the operation: both directories agree, no file is torn, *)
(* the receipt is the one the index expects and nothing else lies there.   *)
Readable(op) ==
  /\ guard[op].dir /\ root[op].dir
  /\ root[op].record \in Record
  /\ guard[op].claim \in Record
  /\ guard[op].claim.owner = root[op].record.owner
  /\ guard[op].claim.input = root[op].record.input
  /\ Expected(op) = root[op].record
  /\ (guard[op].done # Nil) = (root[op].record.resp # Nil)
  /\ root[op].tmp = Nil
  /\ guard[op].mark # Nil => guard[op].done = Nil /\ guard[op].mark = root[op].record

KnownOps == {op \in Ops : Known(op)}

(* inventory() returns: every known operation is readable.                 *)
InventoryOK ==
  /\ Cardinality(KnownOps) <= MaxOperations
  /\ \A op \in KnownOps : Readable(op)

Running(op) == Readable(op) /\ root[op].record.resp = Nil /\ guard[op].mark = Nil

(* Variant: a running operation is counted by the size it has so far.      *)
UnitsSoFar(op) == IF root[op].record.resp = Nil THEN 1 ELSE SizeOf[root[op].record.resp]

(* What claim() counts against the capacity: a running operation reserves  *)
(* the largest record, any other one its own size.                         *)
Units(op) == IF Running(op) THEN RecordUnits
             ELSE IF root[op].record.resp = Nil THEN 1 ELSE SizeOf[root[op].record.resp]

(* The units that operations of these sizes take up, one by one: the sum of*)
(* their sizes is the number of these.                                     *)
Space(size(_), ops) == {unit \in ops \X (1..RecordUnits) : unit[2] <= size(unit[1])}
Reserved == Cardinality(Space(Units, KnownOps))

-----------------------------------------------------------------------------
(* The request handler.                                                    *)

Record0(w) == [owner |-> req[w].owner, input |-> req[w].input, resp |-> Nil]

Goto(w, where) == req' = [req EXCEPT ![w] = [@ EXCEPT !.pc = where]]

(* Answer without the lock, or after it was not obtained.                  *)
Answer(w, reply) == req' = [req EXCEPT ![w] = [@ EXCEPT !.pc = "reply", !.reply = reply,
                                                        !.resp = Nil]]

(* Give up the model slot: release() in a finally block.                   *)
FreeSlot(w) == slot' = [slot EXCEPT ![ProcOf[w]] = IF @ = w THEN Nil ELSE @]

(* A request arrives.  A POST carries an input; a GET (input Nil) asks for *)
(* the state of an operation.                                              *)
Submit(w, op, o, i) ==
  /\ up[ProcOf[w]] /\ req[w].pc = "idle"
  /\ req' = [req EXCEPT ![w] = [IdleRequest EXCEPT !.pc = "read", !.op = op,
                                                   !.owner = o, !.input = i]]
  /\ UNCHANGED <<guard, root, hold, lock, up, slot, calls, cli>>

(* mkdir of the lock directory: the only atomic test-and-set there is.     *)
Acquire(w) ==
  /\ req[w].pc \in Sections
  /\ lock.by = "free"
  /\ lock' = [by |-> w, holder |-> "none"]
  /\ UNCHANGED <<guard, root, hold, up, slot, req, calls, cli>>

(* Variant: wait for as long as a dead process holds the lock.             *)
LockTimeoutIfAlive(w) ==
  /\ req[w].pc \in Sections
  /\ lock.by \notin {"free", w, "abandoned"}
  /\ Answer(w, "error")
  /\ FreeSlot(w)
  /\ UNCHANGED <<guard, root, hold, lock, up, calls, cli>>

(* Variant: the slot is given back only by a request that held the lock.   *)
LockTimeoutKeepsSlot(w) ==
  /\ req[w].pc \in Sections
  /\ lock.by \notin {"free", w}
  /\ Answer(w, "error")
  /\ UNCHANGED <<guard, root, hold, lock, up, slot, calls, cli>>

(* 200 attempts found the directory there: the request fails, before it    *)
(* has touched any operation.                                              *)
LockTimeout(w) ==
  /\ req[w].pc \in Sections
  /\ lock.by \notin {"free", w}
  /\ Answer(w, "error")
  /\ FreeSlot(w)
  /\ UNCHANGED <<guard, root, hold, lock, up, calls, cli>>

WriteHolder(w) ==
  /\ lock = [by |-> w, holder |-> "none"]
  /\ req[w].pc \in Sections
  /\ lock' = [lock EXCEPT !.holder = "pid"]
  /\ UNCHANGED <<guard, root, hold, up, slot, req, calls, cli>>

Inside(w, where) == req[w].pc = where /\ lock = [by |-> w, holder |-> "pid"]

(* Leave the locked section with a reply, or to go on elsewhere.           *)
Leave(w, next, reply, resp) ==
  req' = [req EXCEPT ![w] = [@ EXCEPT !.pc = "release", !.next = next,
                                      !.reply = reply, !.resp = resp]]

(* An exception inside the section: an I/O error, no disk space, a record  *)
(* that is too large, or a store that needs recovery.  The finally block   *)
(* releases the lock; whatever was written stays.                          *)
Fault(w) ==
  /\ lock.by = w
  /\ Leave(w, "reply", "error", Nil)
  /\ UNCHANGED <<guard, root, hold, lock, up, slot, calls, cli>>

Release(w) ==
  /\ req[w].pc = "release"
  /\ lock' = FreeLock
  /\ Goto(w, req[w].next)
  /\ IF req[w].next = "reply" THEN FreeSlot(w) ELSE UNCHANGED slot
  /\ UNCHANGED <<guard, root, hold, up, calls, cli>>

(* The lock directory cannot be removed: the error replaces any result, and*)
(* the directory stays behind, without its holder file, under a live       *)
(* process.  Only "services stopped" will get rid of it.                   *)
ReleaseFails(w) ==
  /\ req[w].pc = "release"
  /\ lock' = [by |-> "abandoned", holder |-> "none"]
  /\ Answer(w, "error")
  /\ FreeSlot(w)
  /\ UNCHANGED <<guard, root, hold, up, calls, cli>>

(* Variant: the identifier alone opens the stored result.                  *)
ReplayToAnyone(w) ==
  LET op == req[w].op
      rec == root[op].record
  IN  IF req[w].input \notin {Nil, rec.input} THEN "conflict"
      ELSE IF rec.resp # Nil THEN "completed"
      ELSE IF guard[op].mark # Nil THEN "uncertain"
      ELSE "pending"

(* What a request learns from the record of its operation: replay().       *)
ReplayReply(w) ==
  LET op == req[w].op
      rec == root[op].record
  IN  IF rec.owner # req[w].owner THEN "notfound"
      ELSE IF req[w].input \notin {Nil, rec.input} THEN "conflict"
      ELSE IF rec.resp # Nil THEN "completed"
      ELSE IF guard[op].mark # Nil THEN "uncertain"
      ELSE "pending"
ReplayResp(w) ==
  IF ReplayReply(w) = "completed" THEN root[req[w].op].record.resp ELSE Nil

(* store.read under the lock, then the decision it leads to.               *)
Read(w) ==
  /\ Inside(w, "read")
  /\ ~hold /\ InventoryOK
  /\ IF Known(req[w].op) THEN Leave(w, "reply", ReplayReply(w), ReplayResp(w))
     ELSE IF req[w].input = Nil THEN Leave(w, "reply", "notfound", Nil)
     ELSE Leave(w, "slot", "none", Nil)
  /\ UNCHANGED <<guard, root, hold, lock, up, slot, calls, cli>>

(* claim() found the operation taken: read it again and answer from it.    *)
Reread(w) ==
  /\ Inside(w, "reread")
  /\ ~hold /\ InventoryOK
  /\ IF Known(req[w].op) THEN Leave(w, "reply", ReplayReply(w), ReplayResp(w))
     ELSE Leave(w, "reply", "conflict", Nil)
  /\ UNCHANGED <<guard, root, hold, lock, up, slot, calls, cli>>

(* The process-wide model slot: one paid request at a time per process.    *)
TakeSlot(w) ==
  /\ req[w].pc = "slot"
  /\ IF slot[ProcOf[w]] = Nil
     THEN /\ slot' = [slot EXCEPT ![ProcOf[w]] = w]
          /\ Goto(w, "claim")
     ELSE /\ Answer(w, "busy")
          /\ UNCHANGED slot
  /\ UNCHANGED <<guard, root, hold, lock, up, calls, cli>>

(* Variant: a running record of the same request is taken over.            *)
ClaimAdopts(w) ==
  /\ Inside(w, "claim")
  /\ ~hold /\ InventoryOK
  /\ IF Known(req[w].op) /\ root[req[w].op].record = Record0(w) THEN Leave(w, "call", "none", Nil)
     ELSE IF Known(req[w].op) THEN Leave(w, "reread", "none", Nil)
     ELSE /\ Cardinality(KnownOps) < MaxOperations
          /\ Reserved + RecordUnits <= MaxUnits
          /\ Goto(w, "mkguard")
  /\ UNCHANGED <<guard, root, hold, lock, up, slot, calls, cli>>

(* Variant: the check made by the earlier read is trusted.                 *)
ClaimTrustsRead(w) ==
  /\ Inside(w, "claim")
  /\ IF Known(req[w].op) THEN Leave(w, "reread", "none", Nil)
     ELSE /\ Cardinality(KnownOps) < MaxOperations
          /\ Goto(w, "mkguard")
  /\ UNCHANGED <<guard, root, hold, lock, up, slot, calls, cli>>

(* claim() decides under the lock, from a fresh inventory.                 *)
Claim(w) ==
  /\ Inside(w, "claim")
  /\ ~hold /\ InventoryOK
  /\ IF Known(req[w].op) THEN Leave(w, "reread", "none", Nil)
     ELSE /\ Cardinality(KnownOps) < MaxOperations
          /\ Reserved + RecordUnits <= MaxUnits
          /\ Goto(w, "mkguard")
  /\ UNCHANGED <<guard, root, hold, lock, up, slot, calls, cli>>

(* The four steps of a claim, in order.  The index directory comes first,  *)
(* so that from here on no other request can claim the operation.  mkdir   *)
(* and O_EXCL refuse what exists: such a step can only fault.              *)
MkGuard(w) ==
  /\ req[w].pc = "mkguard" /\ ~guard[req[w].op].dir
  /\ guard' = [guard EXCEPT ![req[w].op] = [@ EXCEPT !.dir = TRUE]]
  /\ Goto(w, "mkroot")
  /\ UNCHANGED <<root, hold, lock, up, slot, calls, cli>>

MkRoot(w) ==
  /\ req[w].pc = "mkroot" /\ ~root[req[w].op].dir
  /\ root' = [root EXCEPT ![req[w].op] = [@ EXCEPT !.dir = TRUE]]
  /\ Goto(w, "record")
  /\ UNCHANGED <<guard, hold, lock, up, slot, calls, cli>>

WriteRecord(w) ==
  /\ req[w].pc = "record" /\ root[req[w].op].record = Nil
  /\ \E content \in {Record0(w), Torn} :
       /\ root' = [root EXCEPT ![req[w].op] = [@ EXCEPT !.record = content]]
       /\ IF content = Torn THEN Leave(w, "reply", "error", Nil) ELSE Goto(w, "anchor")
  /\ UNCHANGED <<guard, hold, lock, up, slot, calls, cli>>

WriteClaim(w) ==
  /\ req[w].pc = "anchor" /\ guard[req[w].op].claim = Nil
  /\ \E content \in {Record0(w), Torn} :
       /\ guard' = [guard EXCEPT ![req[w].op] = [@ EXCEPT !.claim = content]]
       /\ IF content = Torn THEN Leave(w, "reply", "error", Nil)
          ELSE Leave(w, "call", "none", Nil)
  /\ UNCHANGED <<root, hold, lock, up, slot, calls, cli>>

(* The handler sends its provider request.                                 *)
CallProvider(w) ==
  /\ req[w].pc = "call"
  /\ calls' = [calls EXCEPT ![req[w].op] = @ + 1]
  /\ Goto(w, "respond")
  /\ UNCHANGED <<guard, root, hold, lock, up, slot, cli>>

(* The handler has a response to persist: the provider's answer, a failure *)
(* report, or a refusal decided before anything was sent.                  *)
Respond(w, r) ==
  /\ req[w].pc \in {"call", "respond"}
  /\ req' = [req EXCEPT ![w] = [@ EXCEPT !.pc = "complete", !.resp = r]]
  /\ UNCHANGED <<guard, root, hold, lock, up, slot, calls, cli>>

(* The handler itself throws: the claim stays running, the slot is freed.  *)
HandlerThrows(w) ==
  /\ req[w].pc \in {"call", "respond"}
  /\ Answer(w, "error")
  /\ FreeSlot(w)
  /\ UNCHANGED <<guard, root, hold, lock, up, calls, cli>>

(* Variant: whatever happened to the receipt meanwhile is overwritten.     *)
CompleteUnchecked(w) ==
  /\ Inside(w, "complete")
  /\ InventoryOK
  /\ Goto(w, "tmp")
  /\ UNCHANGED <<guard, root, hold, lock, up, slot, calls, cli>>

(* complete() re-reads the receipt: it must still be the running one this  *)
(* request claimed.  The hold does not stop a completion.                  *)
Complete(w) ==
  /\ Inside(w, "complete")
  /\ InventoryOK
  /\ Running(req[w].op) /\ root[req[w].op].record = Record0(w)
  /\ Goto(w, "tmp")
  /\ UNCHANGED <<guard, root, hold, lock, up, slot, calls, cli>>

(* Variant: the file is written before the response is attached.           *)
CompletedEmpty(w) == Record0(w)

Completed(w) == [Record0(w) EXCEPT !.resp = req[w].resp]

WriteTmp(w) ==
  /\ req[w].pc = "tmp" /\ root[req[w].op].tmp = Nil
  /\ \E content \in {Completed(w), Torn} :
       /\ root' = [root EXCEPT ![req[w].op] = [@ EXCEPT !.tmp = content]]
       /\ IF content = Torn THEN Leave(w, "reply", "error", Nil) ELSE Goto(w, "done")
  /\ UNCHANGED <<guard, hold, lock, up, slot, calls, cli>>

(* Index first: an interruption before the rename blocks the store.        *)
WriteDone(w) ==
  /\ req[w].pc = "done" /\ guard[req[w].op].done = Nil
  /\ \E content \in {Completed(w), Torn} :
       /\ guard' = [guard EXCEPT ![req[w].op] = [@ EXCEPT !.done = content]]
       /\ IF content = Torn THEN Leave(w, "reply", "error", Nil) ELSE Goto(w, "rename")
  /\ UNCHANGED <<root, hold, lock, up, slot, calls, cli>>

Rename(w) ==
  /\ req[w].pc = "rename"
  /\ root' = [root EXCEPT ![req[w].op] = [@ EXCEPT !.record = root[req[w].op].tmp,
                                                  !.tmp = Nil]]
  /\ Leave(w, "reply", "completed", req[w].resp)
  /\ UNCHANGED <<guard, hold, lock, up, slot, calls, cli>>

(* The response has been sent.                                             *)
Disconnect(w) ==
  /\ req[w].pc = "reply"
  /\ req' = [req EXCEPT ![w] = IdleRequest]
  /\ UNCHANGED <<guard, root, hold, lock, up, slot, calls, cli>>

-----------------------------------------------------------------------------
(* Processes.                                                              *)

WorkersOf(p) == {w \in Workers : ProcOf[w] = p}

Start(p) ==
  /\ ~up[p]
  /\ up' = [up EXCEPT ![p] = TRUE]
  /\ UNCHANGED <<guard, root, hold, lock, slot, req, calls, cli>>

(* A process dies with all its requests.  Its lock stays behind, with its  *)
(* holder file as far as it was written or already unlinked.               *)
Crash(p) ==
  /\ up[p]
  /\ up' = [up EXCEPT ![p] = FALSE]
  /\ slot' = [slot EXCEPT ![p] = Nil]
  /\ req' = [w \in Workers |-> IF w \in WorkersOf(p) THEN IdleRequest ELSE req[w]]
  /\ IF lock.by \in WorkersOf(p)
     THEN \E h \in IF lock.holder = "none" THEN {"none", "torn"}
                   ELSE IF req[lock.by].pc = "release" THEN {"pid", "none"} ELSE {"pid"} :
            lock' = [by |-> "abandoned", holder |-> h]
     ELSE UNCHANGED lock
  /\ UNCHANGED <<guard, root, hold, calls, cli>>

-----------------------------------------------------------------------------
(* The recovery CLI.  One operator, who runs one command at a time, and    *)
(* says that the services are stopped.  The code cannot check that, so the *)
(* commands may run while they are up, with one exception below.           *)

Stopped == \A p \in Procs : ~up[p]

(* Variant: the operator's word is enough, the holder is not looked at.    *)
UnlockAnyHolder ==
  /\ cli = "idle"
  /\ lock.by # "free" /\ lock.holder # "torn"
  /\ hold' = TRUE
  /\ cli' = "unlock"
  /\ UNCHANGED <<guard, root, lock, up, slot, req, calls>>

(* releaseAbandonedLock: refuses an unreadable holder and one whose process*)
(* is alive, and sets the admission hold before it removes the directory.  *)
(* Of a lock without a holder file the code knows nothing: there, and only *)
(* there, the operator's word that the services are stopped is needed.     *)
UnlockHold ==
  /\ cli = "idle"
  /\ lock.by # "free" /\ lock.holder # "torn"
  /\ lock.holder = "pid" => lock.by = "abandoned"
  /\ lock.holder = "none" => Stopped
  /\ hold' = TRUE
  /\ cli' = "unlock"
  /\ UNCHANGED <<guard, root, lock, up, slot, req, calls>>

UnlockRelease ==
  /\ cli = "unlock"
  /\ lock' = FreeLock
  /\ cli' = "idle"
  /\ UNCHANGED <<guard, root, hold, up, slot, req, calls>>

(* maintenance(): take the same lock the services use.                     *)
BeginMaintenance(command) ==
  /\ cli = "idle" /\ lock.by = "free"
  /\ lock' = [by |-> "operator", holder |-> "pid"]
  /\ cli' = command
  /\ UNCHANGED <<guard, root, hold, up, slot, req, calls>>

(* Variant: the quarantined operation may be claimed again.                *)
QuarantineForgets(op) ==
  /\ cli = "quarantine"
  /\ InventoryOK /\ Running(op)
  /\ guard' = [guard EXCEPT ![op] = [@ EXCEPT !.dir = FALSE, !.claim = Nil]]
  /\ root' = [root EXCEPT ![op] = [@ EXCEPT !.dir = FALSE, !.record = Nil]]
  /\ cli' = "release"
  /\ UNCHANGED <<hold, lock, up, slot, req, calls>>

(* Declare a running operation uncertain.  The claim is kept for good.     *)
Quarantine(op) ==
  /\ cli = "quarantine"
  /\ InventoryOK /\ Running(op)
  /\ \E content \in {root[op].record, Torn} :
       guard' = [guard EXCEPT ![op] = [@ EXCEPT !.mark = content]]
  /\ cli' = "release"
  /\ UNCHANGED <<root, hold, lock, up, slot, req, calls>>

(* verify --acknowledge: admission resumes only when every operation is    *)
(* readable and none is running.                                           *)
VerifyRecovery ==
  /\ cli = "verify"
  /\ InventoryOK /\ \A op \in Ops : ~Running(op)
  /\ hold' = FALSE
  /\ cli' = "release"
  /\ UNCHANGED <<guard, root, lock, up, slot, req, calls>>

(* The command ends, having done its work or refused to.                   *)
EndMaintenance ==
  /\ cli \in UnderLock \ {"restoring"}
  /\ lock' = FreeLock
  /\ cli' = "idle"
  /\ UNCHANGED <<guard, root, hold, up, slot, req, calls>>

CrashMaintenance ==
  /\ cli \in UnderLock \cup {"unlock"}
  /\ \E h \in IF cli = "unlock" THEN {lock.holder, "none"} ELSE {"none", "torn", "pid"} :
       lock' = [by |-> "abandoned", holder |-> h]
  /\ cli' = "idle"
  /\ UNCHANGED <<guard, root, hold, up, slot, req, calls>>

-----------------------------------------------------------------------------

LockStep(w) == \/ Acquire(w) \/ LockTimeout(w) \/ WriteHolder(w) \/ Fault(w)
               \/ Release(w) \/ ReleaseFails(w)
ClaimStep(w) == \/ Read(w) \/ TakeSlot(w) \/ Claim(w) \/ Reread(w)
                \/ MkGuard(w) \/ MkRoot(w) \/ WriteRecord(w) \/ WriteClaim(w)
CallStep(w) == CallProvider(w) \/ HandlerThrows(w) \/ \E r \in Responses : Respond(w, r)
CompleteStep(w) == Complete(w) \/ WriteTmp(w) \/ WriteDone(w) \/ Rename(w)

Serve(w) == LockStep(w) \/ ClaimStep(w) \/ CallStep(w) \/ CompleteStep(w)

Operate ==
  \/ UnlockHold \/ UnlockRelease
  \/ BeginMaintenance("quarantine") \/ BeginMaintenance("verify")
  \/ \E op \in Ops : Quarantine(op)
  \/ VerifyRecovery \/ EndMaintenance \/ CrashMaintenance

Next ==
  \/ \E w \in Workers, op \in Ops, o \in Owners, i \in Inputs \cup {Nil} : Submit(w, op, o, i)
  \/ \E w \in Workers : Serve(w) \/ Disconnect(w)
  \/ \E p \in Procs : Start(p) \/ Crash(p)
  \/ Operate

Spec == Init /\ [][Next]_vars

(* A running process keeps executing the handler: the event loop does not  *)
(* stop, every wait on the lock is bounded and the provider fetch carries  *)
(* a timeout.  Nothing forces a client, a crash or the operator.           *)
FairSpec == Spec /\ \A w \in Workers : WF_vars(Serve(w))

-----------------------------------------------------------------------------
(* Properties.                                                             *)

(* One identifier never pays twice: whatever tabs, processes, restarts and *)
(* recovery commands do, at most one provider request is sent for it       *)
(* (claim before modelMayHaveStarted in the POST handler).                 *)
AtMostOneProviderCall == \A op \in Ops : calls[op] <= 1

(* A response reaches a client only after it is durable: the receipt and   *)
(* the index agree on exactly that response, and the receipt belongs to    *)
(* the session that receives it (complete() returns the persisted value,   *)
(* replay() follows the owner check).                                      *)
AnsweredIsDurable ==
  \A w \in Workers : req[w].reply = "completed" =>
    LET op == req[w].op IN
    /\ Readable(op)
    /\ guard[op].done = root[op].record
    /\ root[op].record.owner = req[w].owner
    /\ root[op].record.resp = req[w].resp

(* Files change only in the hands of the lock holder, and a live holder    *)
(* never loses the lock to another process or to the recovery CLI.         *)
WritersExcluded ==
  /\ \A w \in Workers : req[w].pc \in Inner => lock.by = w
  /\ cli \in UnderLock => lock.by = "operator"

(* Only the request that created the index directory of an operation may   *)
(* call the provider for it, and only once: what AtMostOneProviderCall     *)
(* rests on.  The directory is never removed.                              *)
Entitled(w) ==
  \/ req[w].pc \in {"mkroot", "record", "anchor", "call"}
  \/ req[w].pc = "release" /\ req[w].next = "call"
CallInv ==
  /\ \A op \in Ops : calls[op] \in {0, 1} /\ (calls[op] = 1 => guard[op].dir)
  /\ \A w \in Workers : Entitled(w) => guard[req[w].op].dir /\ calls[req[w].op] = 0
  /\ \A v, w \in Workers : Entitled(v) /\ Entitled(w) /\ req[v].op = req[w].op => v = w

(* Who can hold the lock: what WritersExcluded rests on.                   *)
LockInv ==
  /\ WritersExcluded
  /\ \A w \in Workers : req[w].pc # "idle" => up[ProcOf[w]]
  /\ \A w \in Workers : lock.by = w => req[w].pc \in Sections \cup Inner
  /\ lock.by = "operator" => cli \in UnderLock
  /\ cli = "unlock" => lock.by = "abandoned"

(* The request that created an index directory owns the operation until it *)
(* answers, and it writes the files of the operation in one order.  Only a *)
(* quarantine mark may come from outside, and not in the middle of a write.*)
Claimant(w) ==
  \/ req[w].pc \in {"mkroot", "record", "anchor", "call", "respond", "complete"} \cup CompleteWrites
  \/ req[w].pc = "release" /\ req[w].next = "call"
Progress(w) ==
  LET op == req[w].op  pc == req[w].pc IN
  /\ guard[op].dir /\ (root[op].dir <=> pc # "mkroot")
  /\ root[op].record = IF pc \in {"mkroot", "record"} THEN Nil ELSE Record0(w)
  /\ guard[op].claim = IF pc \in {"mkroot", "record", "anchor"} THEN Nil ELSE Record0(w)
  /\ root[op].tmp = IF pc \in {"done", "rename"} THEN Completed(w) ELSE Nil
  /\ guard[op].done = IF pc = "rename" THEN Completed(w) ELSE Nil
  /\ pc \in ClaimWrites \cup CompleteWrites => guard[op].mark = Nil

(* What the files of one operation say together, whoever wrote them.       *)
Untouched(op) ==
  /\ ~root[op].dir /\ root[op].record = Nil /\ root[op].tmp = Nil
  /\ guard[op].claim = Nil /\ guard[op].done = Nil /\ guard[op].mark = Nil
Consistent(op) ==
  /\ ~guard[op].dir => Untouched(op)
  /\ guard[op].claim \in Record =>
       /\ guard[op].dir /\ root[op].dir /\ root[op].record \in Record
       /\ guard[op].claim.owner = root[op].record.owner
       /\ guard[op].claim.input = root[op].record.input
  /\ root[op].record \in ClosedRecord =>
       /\ guard[op].claim \in Record /\ guard[op].done = root[op].record
       /\ guard[op].mark = Nil /\ root[op].tmp = Nil
FileInv ==
  /\ \A op \in Ops : Consistent(op)
  /\ \A w \in Workers : Claimant(w) => Progress(w)
  /\ \A v, w \in Workers : Claimant(v) /\ Claimant(w) /\ req[v].op = req[w].op => v = w

(* A completed answer waits for the lock to be released, or is out: what   *)
(* AnsweredIsDurable rests on, with the files consistent.                  *)
Delivered(w) ==
  /\ req[w].pc = "reply" \/ (req[w].pc = "release" /\ req[w].next = "reply")
  /\ root[req[w].op].record \in ClosedRecord
  /\ root[req[w].op].record.owner = req[w].owner
  /\ root[req[w].op].record.resp = req[w].resp
ReplyInv == \A w \in Workers : req[w].reply = "completed" => Delivered(w)

(* The decision that claim() took still stands when the first directory is *)
(* made: what AdmittedOnlyWhenHealthy rests on.                            *)
AdmitInv ==
  \A w \in Workers : req[w].pc = "mkguard" =>
    ~hold /\ InventoryOK /\ ~Known(req[w].op) /\ Cardinality(KnownOps) < MaxOperations

(* The store stays inside its quota even when every admitted operation     *)
(* comes back with the largest record it may hold: the reservation made at *)
(* claim() time covers the growth at complete() time.                      *)
Stored(op) == IF root[op].record.resp = Nil THEN 1 ELSE SizeOf[root[op].record.resp]
OperationsBounded == Cardinality(KnownOps) <= MaxOperations
WithinCapacity ==
  /\ OperationsBounded
  /\ Cardinality(Space(Stored, {op \in Ops : root[op].record \in Record})) <= MaxUnits

(* A new operation enters the index only when no recovery hold is set and  *)
(* every operation already there is intact: a crash or a full disk in the  *)
(* middle of any write stops admission for all sessions.                   *)
AdmittedOnlyWhenHealthy ==
  [][\A op \in Ops : ~guard[op].dir /\ guard'[op].dir => ~hold /\ InventoryOK]_vars

(* Every request that a live process accepted ends with a reply, also when *)
(* another process died holding the lock: the wait for it is bounded.      *)
RequestsAnswered ==
  \A w \in Workers : req[w].pc = "read" ~> req[w].pc \in {"reply", "idle"}

(* The process-wide model slot always comes back: no path of the handler   *)
(* keeps it.                                                               *)
SlotReturned == \A p \in Procs : slot[p] # Nil ~> slot[p] = Nil

-----------------------------------------------------------------------------
(* The store implements the ledger.                                        *)

(* An operation is bound when claim.json is there, and decided when the    *)
(* rename has put the completed receipt in place.                          *)
LedgerBound(op) == IF guard[op].claim \in Record THEN root[op].record ELSE Nil
LedgerStatus(op) ==
  IF guard[op].claim \notin Record THEN "absent"
  ELSE IF root[op].record.resp # Nil THEN "completed"
  ELSE IF guard[op].mark \in Record THEN "uncertain"
  ELSE "running"
LedgerAnswer(w) ==
  IF req[w].pc = "reply" /\ req[w].reply = "completed"
  THEN [op |-> req[w].op, owner |-> req[w].owner, resp |-> req[w].resp]
  ELSE Nil

Ledger == INSTANCE OperationLedger WITH
  Requests <- Workers,
  status <- [op \in Ops |-> LedgerStatus(op)],
  bound <- [op \in Ops |-> LedgerBound(op)],
  sent <- calls,
  answers <- [w \in Workers |-> LedgerAnswer(w)]

(* Every behaviour of the store is one the ledger allows.                  *)
ImplementsLedger == Ledger!Spec
=============================================================================
