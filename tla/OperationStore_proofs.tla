------------------------ MODULE OperationStore_proofs -------------------------
(***************************************************************************)
(* Proofs about the operation store, for any number of operations,         *)
(* sessions, requests and processes: types and the lock, the one provider  *)
(* request, consistent files, durable answers, admission, the limit on the *)
(* number of operations, and the implementation of OperationLedger.        *)
(***************************************************************************)
EXTENDS OperationStore, TLAPS, FiniteSetTheorems

-----------------------------------------------------------------------------
(* Type correctness.                                                       *)

LEMMA IdleRequestType == IdleRequest \in Request /\ WellFormed(IdleRequest)
BY DEF IdleRequest, Request, WellFormed, PCs, Nexts, Outer, Inner, Sections,
       ClaimWrites, CompleteWrites, Replies

LEMMA InitType == Init => TypeOK
<1> SUFFICES ASSUME Init PROVE TypeOK
  OBVIOUS
<1>1. guard \in [Ops -> Anchor] /\ root \in [Ops -> Receipt]
  BY DEF Init, Anchor, Receipt, NoFile
<1>2. req \in [Workers -> Request] /\ \A w \in Workers : WellFormed(req[w])
  BY IdleRequestType DEF Init
<1>3. lock \in [by : Workers \cup NotWorkers, holder : {"none", "torn", "pid"}]
  BY DEF Init, FreeLock, NotWorkers
<1>4. QED
  BY <1>1, <1>2, <1>3 DEF Init, TypeOK, Commands

(* Replacing one request by a well-typed one.                              *)
LEMMA RequestUpdate ==
  ASSUME TypeOK, NEW w \in Workers, NEW r \in Request, WellFormed(r),
         req' = [req EXCEPT ![w] = r]
  PROVE  req' \in [Workers -> Request] /\ \A v \in Workers : WellFormed(req'[v])
BY DEF TypeOK

LEMMA LeaveType ==
  ASSUME TypeOK, NEW w \in Workers, req[w].pc # "idle",
         NEW next \in {"slot", "call", "reread", "reply"}, NEW reply \in Replies,
         NEW resp \in Responses \cup {Nil}, Leave(w, next, reply, resp),
         next \in {"slot", "call"} => req[w].input \in Inputs
  PROVE  req' \in [Workers -> Request] /\ \A v \in Workers : WellFormed(req'[v])
<1> DEFINE r == [req[w] EXCEPT !.pc = "release", !.next = next, !.reply = reply, !.resp = resp]
<1>1. req[w] \in Request /\ WellFormed(req[w])
  BY DEF TypeOK
<1>2. r \in Request
  BY <1>1 DEF Request, PCs, Inner, Nexts
<1>3. WellFormed(r)
  BY <1>1 DEF WellFormed, ClaimWrites, CompleteWrites, Request
<1>4. req' = [req EXCEPT ![w] = r]
  BY DEF Leave
<1>5. QED
  BY <1>2, <1>3, <1>4, RequestUpdate

LEMMA AnswerType ==
  ASSUME TypeOK, NEW w \in Workers, req[w].pc # "idle", NEW reply \in Replies,
         Answer(w, reply)
  PROVE  req' \in [Workers -> Request] /\ \A v \in Workers : WellFormed(req'[v])
<1> DEFINE r == [req[w] EXCEPT !.pc = "reply", !.reply = reply, !.resp = Nil]
<1>1. req[w] \in Request /\ WellFormed(req[w])
  BY DEF TypeOK
<1>2. r \in Request
  BY <1>1 DEF Request, PCs, Outer
<1>3. WellFormed(r)
  BY <1>1 DEF WellFormed, ClaimWrites, CompleteWrites, Request
<1>4. req' = [req EXCEPT ![w] = r]
  BY DEF Answer
<1>5. QED
  BY <1>2, <1>3, <1>4, RequestUpdate

(* Moving to the next step needs what that step will write.                *)
LEMMA GotoType ==
  ASSUME TypeOK, NEW w \in Workers, req[w].pc # "idle", NEW where \in PCs,
         Goto(w, where),
         where \in ClaimWrites \cup CompleteWrites \cup {"slot", "claim", "call", "respond", "complete"}
           => req[w].input \in Inputs,
         where = "release" /\ req[w].next \in {"slot", "call"} => req[w].input \in Inputs,
         where \in CompleteWrites \cup {"complete"} => req[w].resp \in Responses
  PROVE  req' \in [Workers -> Request] /\ \A v \in Workers : WellFormed(req'[v])
<1> DEFINE r == [req[w] EXCEPT !.pc = where]
<1>1. req[w] \in Request /\ WellFormed(req[w])
  BY DEF TypeOK
<1>2. r \in Request
  BY <1>1 DEF Request
<1>3. WellFormed(r)
  BY <1>1 DEF WellFormed, Request
<1>4. req' = [req EXCEPT ![w] = r]
  BY DEF Goto
<1>5. QED
  BY <1>2, <1>3, <1>4, RequestUpdate

LEMMA FreeSlotType ==
  ASSUME TypeOK, NEW w \in Workers, FreeSlot(w)
  PROVE  slot' \in [Procs -> Workers \cup {Nil}]
BY ProcAssumption DEF TypeOK, FreeSlot

LEMMA LockStepType ==
  ASSUME TypeOK, LockInv, NEW w \in Workers, LockStep(w)
  PROVE  TypeOK'
<1>1. CASE Acquire(w)
  BY <1>1 DEF Acquire, TypeOK
<1>2. CASE LockTimeout(w)
  <2>1. req[w].pc # "idle"
    BY <1>2 DEF LockTimeout, Sections
  <2>2. req' \in [Workers -> Request] /\ \A v \in Workers : WellFormed(req'[v])
    BY <1>2, <2>1, AnswerType DEF LockTimeout, Replies
  <2>3. QED
    BY <1>2, <2>2, FreeSlotType DEF LockTimeout, TypeOK
<1>3. CASE WriteHolder(w)
  BY <1>3 DEF WriteHolder, TypeOK
<1>4. CASE Fault(w)
  <2>1. req[w].pc # "idle"
    BY <1>4 DEF Fault, LockInv, Sections, Inner, ClaimWrites, CompleteWrites
  <2>2. req' \in [Workers -> Request] /\ \A v \in Workers : WellFormed(req'[v])
    BY <1>4, <2>1, LeaveType DEF Fault, Replies
  <2>3. QED
    BY <1>4, <2>2 DEF Fault, TypeOK
<1>5. CASE Release(w)
  <2>1. req[w].pc # "idle" /\ WellFormed(req[w]) /\ req[w] \in Request
    BY <1>5 DEF Release, TypeOK
  <2>2. req' \in [Workers -> Request] /\ \A v \in Workers : WellFormed(req'[v])
    BY <1>5, <2>1, GotoType
    DEF Release, Request, WellFormed, Nexts, PCs, Outer, Sections, ClaimWrites, CompleteWrites
  <2>3. slot' \in [Procs -> Workers \cup {Nil}]
    BY <1>5, FreeSlotType DEF Release, TypeOK
  <2>4. QED
    BY <1>5, <2>2, <2>3 DEF Release, FreeLock, NotWorkers, TypeOK
<1>6. CASE ReleaseFails(w)
  <2>1. req' \in [Workers -> Request] /\ \A v \in Workers : WellFormed(req'[v])
    BY <1>6, AnswerType DEF ReleaseFails, Replies
  <2>2. QED
    BY <1>6, <2>1, FreeSlotType DEF ReleaseFails, NotWorkers, TypeOK
<1>7. QED
  BY <1>1, <1>2, <1>3, <1>4, <1>5, <1>6 DEF LockStep

(* A file written by a request is a record of the right kind, or torn.     *)
LEMMA WrittenTypes ==
  ASSUME TypeOK, NEW w \in Workers
  PROVE  /\ req[w].pc \in ClaimWrites => Record0(w) \in OpenRecord
         /\ req[w].pc \in CompleteWrites => Completed(w) \in ClosedRecord
BY DEF TypeOK, WellFormed, Request, Record0, Completed, OpenRecord, ClosedRecord,
       ClaimWrites, CompleteWrites, Outer, PCs, Inner

LEMMA AnchorUpdate ==
  ASSUME TypeOK, NEW op \in Ops, NEW a \in Anchor, guard' = [guard EXCEPT ![op] = a]
  PROVE  guard' \in [Ops -> Anchor]
BY DEF TypeOK

LEMMA ReceiptUpdate ==
  ASSUME TypeOK, NEW op \in Ops, NEW a \in Receipt, root' = [root EXCEPT ![op] = a]
  PROVE  root' \in [Ops -> Receipt]
BY DEF TypeOK

LEMMA ReplayType ==
  ASSUME TypeOK, InventoryOK, NEW w \in Workers, req[w].op \in Ops, Known(req[w].op)
  PROVE  ReplayReply(w) \in Replies /\ ReplayResp(w) \in Responses \cup {Nil}
<1>1. root[req[w].op].record \in Record
  BY DEF InventoryOK, KnownOps, Readable
<1>2. ReplayReply(w) \in Replies
  BY DEF ReplayReply, Replies
<1>3. root[req[w].op].record.resp \in Responses \cup {Nil}
  BY <1>1 DEF Record, OpenRecord, ClosedRecord
<1>4. QED
  BY <1>2, <1>3 DEF ReplayResp

LEMMA ReadType ==
  ASSUME TypeOK, NEW w \in Workers, Read(w) \/ Reread(w) \/ Claim(w) \/ TakeSlot(w)
  PROVE  TypeOK'
<1>1. req[w].pc # "idle" /\ req[w] \in Request /\ WellFormed(req[w]) /\ req[w].op \in Ops
  BY DEF TypeOK, Read, Reread, Claim, TakeSlot, Inside, WellFormed
<1>2. CASE Read(w)
  <2>1. CASE Known(req[w].op)
    BY <1>1, <1>2, <2>1, ReplayType, LeaveType DEF Read, TypeOK
  <2>2. CASE ~Known(req[w].op) /\ req[w].input = Nil
    BY <1>1, <1>2, <2>2, LeaveType DEF Read, TypeOK, Replies
  <2>3. CASE ~Known(req[w].op) /\ req[w].input # Nil
    <3>1. req[w].input \in Inputs
      BY <1>1, <2>3 DEF Request
    <3>2. QED
      BY <1>1, <1>2, <2>3, <3>1, LeaveType DEF Read, TypeOK, Replies
  <2>4. QED
    BY <2>1, <2>2, <2>3
<1>3. CASE Reread(w)
  <2>1. CASE Known(req[w].op)
    BY <1>1, <1>3, <2>1, ReplayType, LeaveType DEF Reread, TypeOK
  <2>2. CASE ~Known(req[w].op)
    BY <1>1, <1>3, <2>2, LeaveType DEF Reread, TypeOK, Replies
  <2>3. QED
    BY <2>1, <2>2
<1>4. CASE Claim(w)
  <2>1. req[w].input \in Inputs
    BY <1>1, <1>4 DEF Claim, Inside, WellFormed
  <2>2. CASE Known(req[w].op)
    BY <1>1, <1>4, <2>2, LeaveType DEF Claim, TypeOK, Replies
  <2>3. CASE ~Known(req[w].op)
    BY <1>1, <1>4, <2>1, <2>3, GotoType
    DEF Claim, TypeOK, PCs, Inner, ClaimWrites, CompleteWrites
  <2>4. QED
    BY <2>2, <2>3
<1>5. CASE TakeSlot(w)
  <2>1. req[w].input \in Inputs
    BY <1>1, <1>5 DEF TakeSlot, WellFormed
  <2>2. CASE slot[ProcOf[w]] = Nil
    BY <1>1, <1>5, <2>1, <2>2, GotoType, ProcAssumption
    DEF TakeSlot, TypeOK, PCs, Sections, CompleteWrites
  <2>3. CASE slot[ProcOf[w]] # Nil
    BY <1>1, <1>5, <2>3, AnswerType DEF TakeSlot, TypeOK, Replies
  <2>4. QED
    BY <2>2, <2>3
<1>6. QED
  BY <1>2, <1>3, <1>4, <1>5

LEMMA ClaimWritesType ==
  ASSUME TypeOK, NEW w \in Workers,
         MkGuard(w) \/ MkRoot(w) \/ WriteRecord(w) \/ WriteClaim(w)
  PROVE  TypeOK'
<1>1. /\ req[w].pc # "idle" /\ req[w] \in Request /\ WellFormed(req[w])
      /\ req[w].op \in Ops /\ req[w].input \in Inputs /\ Record0(w) \in OpenRecord
  BY WrittenTypes DEF TypeOK, MkGuard, MkRoot, WriteRecord, WriteClaim, WellFormed, ClaimWrites
<1>2. guard[req[w].op] \in Anchor /\ root[req[w].op] \in Receipt
  BY <1>1 DEF TypeOK
<1>3. CASE MkGuard(w)
  <2>1. [guard[req[w].op] EXCEPT !.dir = TRUE] \in Anchor
    BY <1>2 DEF Anchor
  <2>2. guard' \in [Ops -> Anchor]
    BY <1>1, <1>3, <2>1, AnchorUpdate DEF MkGuard
  <2>3. QED
    BY <1>1, <1>3, <2>2, GotoType DEF MkGuard, TypeOK, PCs, Inner, ClaimWrites, CompleteWrites
<1>4. CASE MkRoot(w)
  <2>1. [root[req[w].op] EXCEPT !.dir = TRUE] \in Receipt
    BY <1>2 DEF Receipt
  <2>2. root' \in [Ops -> Receipt]
    BY <1>1, <1>4, <2>1, ReceiptUpdate DEF MkRoot
  <2>3. QED
    BY <1>1, <1>4, <2>2, GotoType DEF MkRoot, TypeOK, PCs, Inner, ClaimWrites, CompleteWrites
<1>5. CASE WriteRecord(w)
  <2>1. PICK content \in {Record0(w), Torn} :
          /\ root' = [root EXCEPT ![req[w].op] = [@ EXCEPT !.record = content]]
          /\ IF content = Torn THEN Leave(w, "reply", "error", Nil) ELSE Goto(w, "anchor")
    BY <1>5 DEF WriteRecord
  <2>2. [root[req[w].op] EXCEPT !.record = content] \in Receipt
    BY <1>1, <1>2 DEF Receipt, Record, NoFile
  <2>3. root' \in [Ops -> Receipt]
    BY <1>1, <2>1, <2>2, ReceiptUpdate
  <2>4. req' \in [Workers -> Request] /\ \A v \in Workers : WellFormed(req'[v])
    BY <1>1, <2>1, GotoType, LeaveType DEF PCs, Inner, ClaimWrites, CompleteWrites, Replies
  <2>5. QED
    BY <1>5, <2>3, <2>4 DEF WriteRecord, TypeOK
<1>6. CASE WriteClaim(w)
  <2>1. PICK content \in {Record0(w), Torn} :
          /\ guard' = [guard EXCEPT ![req[w].op] = [@ EXCEPT !.claim = content]]
          /\ IF content = Torn THEN Leave(w, "reply", "error", Nil)
             ELSE Leave(w, "call", "none", Nil)
    BY <1>6 DEF WriteClaim
  <2>2. [guard[req[w].op] EXCEPT !.claim = content] \in Anchor
    BY <1>1, <1>2 DEF Anchor, NoFile
  <2>3. guard' \in [Ops -> Anchor]
    BY <1>1, <2>1, <2>2, AnchorUpdate
  <2>4. req' \in [Workers -> Request] /\ \A v \in Workers : WellFormed(req'[v])
    BY <1>1, <2>1, LeaveType DEF Replies
  <2>5. QED
    BY <1>6, <2>3, <2>4 DEF WriteClaim, TypeOK
<1>7. QED
  BY <1>3, <1>4, <1>5, <1>6

LEMMA CallStepType ==
  ASSUME TypeOK, NEW w \in Workers, CallStep(w)
  PROVE  TypeOK'
<1>1. /\ req[w].pc # "idle" /\ req[w] \in Request /\ WellFormed(req[w])
      /\ req[w].op \in Ops /\ req[w].input \in Inputs
  BY DEF TypeOK, CallStep, CallProvider, Respond, HandlerThrows, WellFormed
<1>2. CASE CallProvider(w)
  <2>1. calls' \in [Ops -> Nat]
    BY <1>1, <1>2 DEF CallProvider, TypeOK
  <2>2. QED
    BY <1>1, <1>2, <2>1, GotoType DEF CallProvider, TypeOK, PCs, Outer, CompleteWrites
<1>3. ASSUME NEW r \in Responses, Respond(w, r)
      PROVE  TypeOK'
  <2> DEFINE q == [req[w] EXCEPT !.pc = "complete", !.resp = r]
  <2>1. q \in Request
    BY <1>1 DEF Request, PCs, Sections
  <2>2. WellFormed(q)
    BY <1>1 DEF WellFormed, Request
  <2>3. QED
    BY <1>3, <2>1, <2>2, RequestUpdate DEF Respond, TypeOK
<1>4. CASE HandlerThrows(w)
  BY <1>1, <1>4, AnswerType, FreeSlotType DEF HandlerThrows, TypeOK, Replies
<1>5. QED
  BY <1>2, <1>3, <1>4 DEF CallStep

LEMMA CompleteStepType ==
  ASSUME TypeOK, NEW w \in Workers, CompleteStep(w)
  PROVE  TypeOK'
<1>1. /\ req[w].pc # "idle" /\ req[w] \in Request /\ WellFormed(req[w])
      /\ req[w].op \in Ops /\ req[w].input \in Inputs /\ req[w].resp \in Responses
  BY DEF TypeOK, CompleteStep, Complete, WriteTmp, WriteDone, Rename, Inside, WellFormed,
         CompleteWrites
<1>2. guard[req[w].op] \in Anchor /\ root[req[w].op] \in Receipt
  BY <1>1 DEF TypeOK
<1>3. CASE Complete(w)
  BY <1>1, <1>3, GotoType DEF Complete, TypeOK, PCs, Inner, CompleteWrites
<1>4. CASE WriteTmp(w)
  <2>1. PICK content \in {Completed(w), Torn} :
          /\ root' = [root EXCEPT ![req[w].op] = [@ EXCEPT !.tmp = content]]
          /\ IF content = Torn THEN Leave(w, "reply", "error", Nil) ELSE Goto(w, "done")
    BY <1>4 DEF WriteTmp
  <2>2. [root[req[w].op] EXCEPT !.tmp = content] \in Receipt
    BY <1>2, <1>4, WrittenTypes DEF WriteTmp, CompleteWrites, Receipt, NoFile
  <2>3. root' \in [Ops -> Receipt]
    BY <1>1, <2>1, <2>2, ReceiptUpdate
  <2>4. req' \in [Workers -> Request] /\ \A v \in Workers : WellFormed(req'[v])
    BY <1>1, <2>1, GotoType, LeaveType DEF PCs, Inner, CompleteWrites, Replies
  <2>5. QED
    BY <1>4, <2>3, <2>4 DEF WriteTmp, TypeOK
<1>5. CASE WriteDone(w)
  <2>1. PICK content \in {Completed(w), Torn} :
          /\ guard' = [guard EXCEPT ![req[w].op] = [@ EXCEPT !.done = content]]
          /\ IF content = Torn THEN Leave(w, "reply", "error", Nil) ELSE Goto(w, "rename")
    BY <1>5 DEF WriteDone
  <2>2. [guard[req[w].op] EXCEPT !.done = content] \in Anchor
    BY <1>2, <1>5, WrittenTypes DEF WriteDone, CompleteWrites, Anchor, NoFile
  <2>3. guard' \in [Ops -> Anchor]
    BY <1>1, <2>1, <2>2, AnchorUpdate
  <2>4. req' \in [Workers -> Request] /\ \A v \in Workers : WellFormed(req'[v])
    BY <1>1, <2>1, GotoType, LeaveType DEF PCs, Inner, CompleteWrites, Replies
  <2>5. QED
    BY <1>5, <2>3, <2>4 DEF WriteDone, TypeOK
<1>6. CASE Rename(w)
  <2>1. [root[req[w].op] EXCEPT !.record = root[req[w].op].tmp, !.tmp = Nil] \in Receipt
    BY <1>2 DEF Receipt, Record, NoFile
  <2>2. root' \in [Ops -> Receipt]
    BY <1>1, <1>6, <2>1, ReceiptUpdate DEF Rename
  <2>3. QED
    BY <1>1, <1>6, <2>2, LeaveType DEF Rename, TypeOK, Replies
<1>7. QED
  BY <1>3, <1>4, <1>5, <1>6 DEF CompleteStep

LEMMA ProcessType ==
  ASSUME TypeOK, NEW p \in Procs, Start(p) \/ Crash(p)
  PROVE  TypeOK'
<1>1. CASE Start(p)
  BY <1>1 DEF Start, TypeOK
<1>2. CASE Crash(p)
  <2>1. req' \in [Workers -> Request] /\ \A v \in Workers : WellFormed(req'[v])
    BY <1>2, IdleRequestType DEF Crash, TypeOK
  <2>2. lock' \in [by : Workers \cup NotWorkers, holder : {"none", "torn", "pid"}]
    BY <1>2 DEF Crash, TypeOK, NotWorkers
  <2>3. QED
    BY <1>2, <2>1, <2>2 DEF Crash, TypeOK
<1>3. QED
  BY <1>1, <1>2

LEMMA OperateType ==
  ASSUME TypeOK, Operate
  PROVE  TypeOK'
<1> USE DEF Commands, UnderLock
<1>1. CASE UnlockHold
  BY <1>1 DEF UnlockHold, TypeOK
<1>2. CASE UnlockRelease
  BY <1>2 DEF UnlockRelease, TypeOK, FreeLock, NotWorkers
<1>3. ASSUME NEW command \in {"quarantine", "verify"}, BeginMaintenance(command)
      PROVE  TypeOK'
  BY <1>3 DEF BeginMaintenance, TypeOK, NotWorkers
<1>4. ASSUME NEW op \in Ops, Quarantine(op)
      PROVE  TypeOK'
  <2>1. PICK content \in {root[op].record, Torn} :
          guard' = [guard EXCEPT ![op] = [@ EXCEPT !.mark = content]]
    BY <1>4 DEF Quarantine
  <2>2. root[op].record \in OpenRecord
    <3>1. root[op].record \in Record /\ root[op].record.resp = Nil
      BY <1>4 DEF Quarantine, Running, Readable
    <3>2. QED
      BY <3>1, NilAssumption DEF Record, OpenRecord, ClosedRecord
  <2>3. [guard[op] EXCEPT !.mark = content] \in Anchor
    BY <2>2 DEF Anchor, NoFile, TypeOK
  <2>4. guard' \in [Ops -> Anchor]
    BY <2>1, <2>3, AnchorUpdate
  <2>5. QED
    BY <1>4, <2>4 DEF Quarantine, TypeOK
<1>5. CASE VerifyRecovery
  BY <1>5 DEF VerifyRecovery, TypeOK
<1>6. CASE EndMaintenance
  BY <1>6 DEF EndMaintenance, TypeOK, FreeLock, NotWorkers
<1>7. CASE CrashMaintenance
  BY <1>7 DEF CrashMaintenance, TypeOK, NotWorkers
<1>8. QED
  BY <1>1, <1>2, <1>3, <1>4, <1>5, <1>6, <1>7 DEF Operate

LEMMA ClientType ==
  ASSUME TypeOK, NEW w \in Workers
  PROVE  /\ Disconnect(w) => TypeOK'
         /\ \A op \in Ops, o \in Owners, i \in Inputs \cup {Nil} : Submit(w, op, o, i) => TypeOK'
<1>1. Disconnect(w) => TypeOK'
  BY IdleRequestType, RequestUpdate DEF Disconnect, TypeOK
<1>2. ASSUME NEW op \in Ops, NEW o \in Owners, NEW i \in Inputs \cup {Nil}, Submit(w, op, o, i)
      PROVE  TypeOK'
  <2> DEFINE r == [IdleRequest EXCEPT !.pc = "read", !.op = op, !.owner = o, !.input = i]
  <2>1. r \in Request
    BY IdleRequestType DEF Request, PCs, Sections
  <2>2. WellFormed(r)
    BY DEF WellFormed, IdleRequest, ClaimWrites, CompleteWrites
  <2>3. QED
    BY <1>2, <2>1, <2>2, RequestUpdate DEF Submit, TypeOK
<1>3. QED
  BY <1>1, <1>2

-----------------------------------------------------------------------------
(* The lock.                                                               *)

(* A step that changes one request and nothing the lock depends on.        *)
LEMMA LockFrame ==
  ASSUME TypeOK, LockInv, NEW w \in Workers, NEW r, req' = [req EXCEPT ![w] = r],
         r.pc \in Inner => lock.by = w, lock.by = w => r.pc \in Sections \cup Inner,
         r.pc # "idle" => up[ProcOf[w]],
         UNCHANGED <<lock, up, cli>>
  PROVE  LockInv'
BY DEF LockInv, WritersExcluded, TypeOK

LEMMA LockStepLock ==
  ASSUME TypeOK, LockInv, NEW w \in Workers, LockStep(w)
  PROVE  LockInv'
<1> USE DEF Sections, Inner, ClaimWrites, CompleteWrites
<1>1. CASE Acquire(w)
  <2>1. lock'.by = w /\ lock.by = "free" /\ w \notin NotWorkers
    BY <1>1, LockAssumption DEF Acquire
  <2>2. \A v \in Workers : req[v].pc \notin Inner
    BY <2>1, LockAssumption DEF LockInv, WritersExcluded, NotWorkers
  <2>3. QED
    BY <1>1, <2>1, <2>2 DEF Acquire, LockInv, WritersExcluded, NotWorkers
<1>2. CASE LockTimeout(w)
  <2> DEFINE r == [req[w] EXCEPT !.pc = "reply", !.reply = "error", !.resp = Nil]
  <2>1. req' = [req EXCEPT ![w] = r] /\ r.pc = "reply"
    BY <1>2 DEF LockTimeout, Answer, TypeOK, Request
  <2>2. lock.by # w /\ up[ProcOf[w]]
    BY <1>2 DEF LockTimeout, LockInv
  <2>3. QED
    BY <1>2, <2>1, <2>2, LockFrame DEF LockTimeout
<1>3. CASE WriteHolder(w)
  BY <1>3 DEF WriteHolder, LockInv, WritersExcluded
<1>4. CASE Fault(w)
  <2> DEFINE r == [req[w] EXCEPT !.pc = "release", !.next = "reply", !.reply = "error", !.resp = Nil]
  <2>1. req' = [req EXCEPT ![w] = r] /\ r.pc = "release"
    BY <1>4 DEF Fault, Leave, TypeOK, Request
  <2>2. lock.by = w /\ up[ProcOf[w]]
    BY <1>4 DEF Fault, LockInv
  <2>3. QED
    BY <1>4, <2>1, <2>2, LockFrame DEF Fault
<1>5. CASE Release(w)
  <2>1. lock.by = w /\ w \notin NotWorkers /\ up[ProcOf[w]]
    BY <1>5, LockAssumption DEF Release, LockInv, WritersExcluded
  <2>2. req'[w].pc \notin Inner
    BY <1>5 DEF Release, Goto, TypeOK, Request, Nexts
  <2>3. \A v \in Workers : v # w => req'[v] = req[v]
    BY <1>5 DEF Release, Goto, TypeOK
  <2>4. lock'.by = "free" /\ UNCHANGED <<up, cli>>
    BY <1>5 DEF Release, FreeLock
  <2>5. QED
    BY <2>1, <2>2, <2>3, <2>4, LockAssumption DEF LockInv, WritersExcluded, NotWorkers
<1>6. CASE ReleaseFails(w)
  <2>1. lock.by = w /\ w \notin NotWorkers /\ up[ProcOf[w]]
    BY <1>6, LockAssumption DEF ReleaseFails, LockInv, WritersExcluded
  <2>2. req'[w].pc = "reply"
    BY <1>6 DEF ReleaseFails, Answer, TypeOK, Request
  <2>3. \A v \in Workers : v # w => req'[v] = req[v]
    BY <1>6 DEF ReleaseFails, Answer, TypeOK
  <2>4. lock'.by = "abandoned" /\ UNCHANGED <<up, cli>>
    BY <1>6 DEF ReleaseFails
  <2>5. QED
    BY <2>1, <2>2, <2>3, <2>4, LockAssumption DEF LockInv, WritersExcluded, NotWorkers
<1>7. QED
  BY <1>1, <1>2, <1>3, <1>4, <1>5, <1>6 DEF LockStep

(* Inside the lock a request only moves on to another inner step.          *)
LEMMA InsideLock ==
  ASSUME TypeOK, LockInv, NEW w \in Workers, lock.by = w,
         NEW r, req' = [req EXCEPT ![w] = r], r.pc \in Inner,
         UNCHANGED <<lock, up, cli>>
  PROVE  LockInv'
<1>1. up[ProcOf[w]]
  BY DEF LockInv, Sections, Inner, ClaimWrites, CompleteWrites
<1>2. QED
  BY <1>1, LockFrame

LEMMA LeaveLock ==
  ASSUME TypeOK, LockInv, NEW w \in Workers, lock.by = w, NEW next, NEW reply, NEW resp,
         Leave(w, next, reply, resp), UNCHANGED <<lock, up, cli>>
  PROVE  LockInv'
<1> DEFINE r == [req[w] EXCEPT !.pc = "release", !.next = next, !.reply = reply, !.resp = resp]
<1>1. req' = [req EXCEPT ![w] = r] /\ r.pc \in Inner
  BY DEF Leave, TypeOK, Request, Inner
<1>2. QED
  BY <1>1, InsideLock

LEMMA GotoLock ==
  ASSUME TypeOK, LockInv, NEW w \in Workers, lock.by = w, NEW where \in Inner,
         Goto(w, where), UNCHANGED <<lock, up, cli>>
  PROVE  LockInv'
<1> DEFINE r == [req[w] EXCEPT !.pc = where]
<1>1. req' = [req EXCEPT ![w] = r] /\ r.pc \in Inner
  BY DEF Goto, TypeOK, Request
<1>2. QED
  BY <1>1, InsideLock

(* Outside the lock it moves to a step that needs none.                    *)
LEMMA OutsideLock ==
  ASSUME TypeOK, LockInv, NEW w \in Workers, req[w].pc \in {"slot", "call", "respond"},
         NEW r, req' = [req EXCEPT ![w] = r], r.pc \notin Inner,
         UNCHANGED <<lock, up, cli>>
  PROVE  LockInv'
<1>1. lock.by # w /\ up[ProcOf[w]]
  BY DEF LockInv, Sections, Inner, ClaimWrites, CompleteWrites
<1>2. QED
  BY <1>1, LockFrame

LEMMA GotoOutside ==
  ASSUME TypeOK, LockInv, NEW w \in Workers, req[w].pc \in {"slot", "call", "respond"},
         NEW where \in {"claim", "respond"}, Goto(w, where), UNCHANGED <<lock, up, cli>>
  PROVE  LockInv'
<1> DEFINE r == [req[w] EXCEPT !.pc = where]
<1>1. req' = [req EXCEPT ![w] = r] /\ r.pc = where
  BY DEF Goto, TypeOK, Request
<1>2. where \notin Inner
  BY DEF Inner, ClaimWrites, CompleteWrites
<1>3. QED
  BY <1>1, <1>2, OutsideLock

LEMMA AnswerOutside ==
  ASSUME TypeOK, LockInv, NEW w \in Workers, req[w].pc \in {"slot", "call", "respond"},
         NEW reply, Answer(w, reply), UNCHANGED <<lock, up, cli>>
  PROVE  LockInv'
<1> DEFINE r == [req[w] EXCEPT !.pc = "reply", !.reply = reply, !.resp = Nil]
<1>1. req' = [req EXCEPT ![w] = r] /\ r.pc \notin Inner
  BY DEF Answer, TypeOK, Request, Inner, ClaimWrites, CompleteWrites
<1>2. QED
  BY <1>1, OutsideLock

LEMMA ServeLock ==
  ASSUME TypeOK, LockInv, NEW w \in Workers, Serve(w)
  PROVE  LockInv'
<1> USE DEF Inner, ClaimWrites, CompleteWrites
<1>1. CASE LockStep(w)
  BY <1>1, LockStepLock
<1>2. CASE Read(w) \/ Reread(w) \/ Claim(w) \/ Complete(w)
  BY <1>2, LeaveLock, GotoLock DEF Read, Reread, Claim, Complete, Inside
<1>3. CASE MkGuard(w) \/ MkRoot(w)
  <2>1. lock.by = w
    BY <1>3 DEF MkGuard, MkRoot, LockInv, WritersExcluded
  <2>2. QED
    BY <1>3, <2>1, GotoLock DEF MkGuard, MkRoot
<1>4. CASE WriteRecord(w) \/ WriteClaim(w)
  <2>1. lock.by = w
    BY <1>4 DEF WriteRecord, WriteClaim, LockInv, WritersExcluded
  <2>2. QED
    BY <1>4, <2>1, GotoLock, LeaveLock DEF WriteRecord, WriteClaim
<1>5. CASE WriteTmp(w) \/ WriteDone(w) \/ Rename(w)
  <2>1. lock.by = w
    BY <1>5 DEF WriteTmp, WriteDone, Rename, LockInv, WritersExcluded
  <2>2. QED
    BY <1>5, <2>1, GotoLock, LeaveLock DEF WriteTmp, WriteDone, Rename
<1>6. CASE TakeSlot(w)
  BY <1>6, GotoOutside, AnswerOutside DEF TakeSlot
<1>7. CASE CallStep(w)
  <2>1. ASSUME NEW x \in Responses, Respond(w, x)
        PROVE  LockInv'
    <3> DEFINE r == [req[w] EXCEPT !.pc = "complete", !.resp = x]
    <3>1. req' = [req EXCEPT ![w] = r] /\ r.pc \notin Inner
      BY <2>1 DEF Respond, TypeOK, Request
    <3>2. QED
      BY <2>1, <3>1, OutsideLock DEF Respond
  <2>2. CASE CallProvider(w) \/ HandlerThrows(w)
    BY <2>2, GotoOutside, AnswerOutside DEF CallProvider, HandlerThrows
  <2>3. QED
    BY <1>7, <2>1, <2>2 DEF CallStep
<1>8. QED
  BY <1>1, <1>2, <1>3, <1>4, <1>5, <1>6, <1>7 DEF Serve, ClaimStep, CompleteStep

LEMMA OperateLock ==
  ASSUME TypeOK, LockInv, Operate
  PROVE  LockInv'
<1> USE LockAssumption DEF NotWorkers, UnderLock
<1>1. CASE UnlockHold
  <2>1. lock.by \notin Workers
    BY <1>1, ProcAssumption
    DEF UnlockHold, Stopped, LockInv, Sections, Inner, ClaimWrites, CompleteWrites, TypeOK
  <2>2. lock.by = "abandoned"
    BY <1>1, <2>1 DEF UnlockHold, LockInv, TypeOK
  <2>3. QED
    BY <1>1, <2>2 DEF UnlockHold, LockInv, WritersExcluded
<1>2. CASE UnlockRelease
  BY <1>2 DEF UnlockRelease, FreeLock, LockInv, WritersExcluded
<1>3. ASSUME NEW command \in {"quarantine", "verify"}, BeginMaintenance(command)
      PROVE  LockInv'
  BY <1>3 DEF BeginMaintenance, LockInv, WritersExcluded
<1>4. ASSUME NEW op \in Ops, Quarantine(op)
      PROVE  LockInv'
  BY <1>4 DEF Quarantine, LockInv, WritersExcluded
<1>5. CASE VerifyRecovery
  BY <1>5 DEF VerifyRecovery, LockInv, WritersExcluded
<1>6. CASE EndMaintenance
  BY <1>6 DEF EndMaintenance, FreeLock, LockInv, WritersExcluded
<1>7. CASE CrashMaintenance
  <2>1. lock.by \in {"operator", "abandoned"}
    BY <1>7 DEF CrashMaintenance, LockInv, WritersExcluded, TypeOK
  <2>2. QED
    BY <1>7, <2>1 DEF CrashMaintenance, LockInv, WritersExcluded
<1>8. QED
  BY <1>1, <1>2, <1>3, <1>4, <1>5, <1>6, <1>7 DEF Operate

LEMMA ProcessLock ==
  ASSUME TypeOK, LockInv, NEW p \in Procs, Start(p) \/ Crash(p)
  PROVE  LockInv'
<1>1. CASE Start(p)
  BY <1>1, ProcAssumption DEF Start, LockInv, WritersExcluded, TypeOK
<1>2. CASE Crash(p)
  <2>1. \A w \in Workers : w \in WorkersOf(p) => req'[w].pc = "idle"
    BY <1>2 DEF Crash, IdleRequest
  <2>2. \A w \in Workers : w \notin WorkersOf(p) => req'[w] = req[w] /\ up'[ProcOf[w]] = up[ProcOf[w]]
    BY <1>2, ProcAssumption DEF Crash, WorkersOf, TypeOK
  <2>3. CASE lock.by \in WorkersOf(p)
    <3>1. lock'.by = "abandoned" /\ lock.by \in Workers /\ cli' = cli
      BY <1>2, <2>3 DEF Crash, WorkersOf
    <3>2. \A w \in Workers : req'[w].pc \notin Inner
      BY <2>1, <2>2, <2>3, <3>1
      DEF LockInv, WritersExcluded, Inner, ClaimWrites, CompleteWrites
    <3>3. cli \notin UnderLock
      BY <3>1, LockAssumption DEF LockInv, WritersExcluded, NotWorkers
    <3>4. QED
      BY <2>1, <2>2, <3>1, <3>2, <3>3, LockAssumption
      DEF LockInv, WritersExcluded, NotWorkers
  <2>4. CASE lock.by \notin WorkersOf(p)
    <3>1. UNCHANGED <<lock, cli>>
      BY <1>2, <2>4 DEF Crash
    <3>2. QED
      BY <2>1, <2>2, <2>4, <3>1
      DEF LockInv, WritersExcluded, Inner, ClaimWrites, CompleteWrites
  <2>5. QED
    BY <2>3, <2>4
<1>3. QED
  BY <1>1, <1>2

LEMMA ClientLock ==
  ASSUME TypeOK, LockInv, NEW w \in Workers
  PROVE  /\ Disconnect(w) => LockInv'
         /\ \A op \in Ops, o \in Owners, i \in Inputs \cup {Nil} : Submit(w, op, o, i) => LockInv'
<1>1. req[w].pc \in {"idle", "reply"} => lock.by # w
  BY DEF LockInv, Sections, Inner, ClaimWrites, CompleteWrites
<1>2. ASSUME Disconnect(w)
      PROVE  LockInv'
  BY <1>1, <1>2, LockFrame
  DEF Disconnect, IdleRequest, Inner, ClaimWrites, CompleteWrites
<1>3. ASSUME NEW op \in Ops, NEW o \in Owners, NEW i \in Inputs \cup {Nil}, Submit(w, op, o, i)
      PROVE  LockInv'
  <2> DEFINE r == [IdleRequest EXCEPT !.pc = "read", !.op = op, !.owner = o, !.input = i]
  <2>1. r.pc = "read" /\ req' = [req EXCEPT ![w] = r]
    BY <1>3 DEF Submit, IdleRequest
  <2>2. QED
    BY <1>1, <1>3, <2>1, LockFrame DEF Submit, Inner, ClaimWrites, CompleteWrites
<1>4. QED
  BY <1>2, <1>3

-----------------------------------------------------------------------------
(* Types and the lock hold together: each step of one uses the other.      *)

LEMMA ServeType ==
  ASSUME TypeOK, LockInv, NEW w \in Workers, Serve(w)
  PROVE  TypeOK'
BY LockStepType, ReadType, ClaimWritesType, CallStepType, CompleteStepType
DEF Serve, ClaimStep

LEMMA InitTypeLock == Init => TypeOK /\ LockInv
<1>1. Init => LockInv
  BY LockAssumption
  DEF Init, LockInv, WritersExcluded, IdleRequest, FreeLock, Inner, ClaimWrites,
      CompleteWrites, NotWorkers, UnderLock
<1>2. QED
  BY <1>1, InitType

LEMMA NextTypeLock ==
  ASSUME TypeOK, LockInv, [Next]_vars
  PROVE  TypeOK' /\ LockInv'
<1>1. ASSUME NEW w \in Workers, NEW op \in Ops, NEW o \in Owners,
             NEW i \in Inputs \cup {Nil}, Submit(w, op, o, i)
      PROVE  TypeOK' /\ LockInv'
  BY <1>1, ClientType, ClientLock
<1>2. ASSUME NEW w \in Workers, Serve(w) \/ Disconnect(w)
      PROVE  TypeOK' /\ LockInv'
  BY <1>2, ServeType, ServeLock, ClientType, ClientLock
<1>3. ASSUME NEW p \in Procs, Start(p) \/ Crash(p)
      PROVE  TypeOK' /\ LockInv'
  BY <1>3, ProcessType, ProcessLock
<1>4. CASE Operate
  BY <1>4, OperateType, OperateLock
<1>5. CASE UNCHANGED vars
  BY <1>5 DEF vars, TypeOK, LockInv, WritersExcluded
<1>6. QED
  BY <1>1, <1>2, <1>3, <1>4, <1>5 DEF Next

LEMMA TypeAndLock == Spec => [](TypeOK /\ LockInv)
<1>1. TypeOK /\ LockInv /\ [Next]_vars => TypeOK' /\ LockInv'
  BY NextTypeLock
<1>2. QED
  BY <1>1, InitTypeLock, PTL DEF Spec

(* Every reachable state is well typed; in particular a running receipt    *)
(* has no response and a completed one has one, torn files apart.          *)
THEOREM TypeCorrect == Spec => []TypeOK
BY TypeAndLock, PTL

(* Whatever requests, processes and recovery commands do, store files only *)
(* change in the hands of the process that holds the lock directory.       *)
THEOREM WritersAreExcluded == Spec => []WritersExcluded
<1>1. LockInv => WritersExcluded
  BY DEF LockInv
<1>2. QED
  BY <1>1, TypeAndLock, PTL

-----------------------------------------------------------------------------
(* At most one provider call.                                              *)

(* A step that gives no request the right to call and calls nothing.       *)
LEMMA CallFrame ==
  ASSUME TypeOK, CallInv, calls' = calls,
         \A op \in Ops : guard[op].dir => guard'[op].dir,
         \A w \in Workers : Entitled(w)' => Entitled(w) /\ req'[w].op = req[w].op
  PROVE  CallInv'
<1>1. \A w \in Workers : Entitled(w) => req[w].op \in Ops
  BY DEF TypeOK, Entitled, WellFormed
<1>2. QED
  BY <1>1 DEF CallInv

(* The same for a step of one request, which becomes r.                    *)
LEMMA CallFrameOne ==
  ASSUME TypeOK, CallInv, calls' = calls, NEW w \in Workers, NEW r,
         req' = [req EXCEPT ![w] = r],
         \/ r.pc \in {"mkroot", "record", "anchor", "call"}
         \/ r.pc = "release" /\ r.next = "call"
         => Entitled(w) /\ r.op = req[w].op,
         \A op \in Ops : guard[op].dir => guard'[op].dir
  PROVE  CallInv'
<1>1. \A v \in Workers : req'[v] = IF v = w THEN r ELSE req[v]
  BY DEF TypeOK
<1>2. \A v \in Workers : Entitled(v)' => Entitled(v) /\ req'[v].op = req[v].op
  BY <1>1 DEF Entitled
<1>3. QED
  BY <1>2, CallFrame

LEMMA LeaveCall ==
  ASSUME TypeOK, CallInv, calls' = calls, NEW w \in Workers, NEW next, NEW reply, NEW resp,
         Leave(w, next, reply, resp), next = "call" => Entitled(w),
         \A op \in Ops : guard[op].dir => guard'[op].dir
  PROVE  CallInv'
<1> DEFINE r == [req[w] EXCEPT !.pc = "release", !.next = next, !.reply = reply, !.resp = resp]
<1>1. req' = [req EXCEPT ![w] = r] /\ r.pc = "release" /\ r.next = next /\ r.op = req[w].op
  BY DEF Leave, TypeOK, Request
<1>2. QED
  BY <1>1, CallFrameOne

LEMMA GotoCall ==
  ASSUME TypeOK, CallInv, calls' = calls, NEW w \in Workers, NEW where, Goto(w, where),
         where \in {"mkroot", "record", "anchor", "call"} => Entitled(w), where # "release",
         \A op \in Ops : guard[op].dir => guard'[op].dir
  PROVE  CallInv'
<1> DEFINE r == [req[w] EXCEPT !.pc = where]
<1>1. req' = [req EXCEPT ![w] = r] /\ r.pc = where /\ r.op = req[w].op
  BY DEF Goto, TypeOK, Request
<1>2. QED
  BY <1>1, CallFrameOne

LEMMA AnswerCall ==
  ASSUME TypeOK, CallInv, calls' = calls, NEW w \in Workers, NEW reply, Answer(w, reply),
         \A op \in Ops : guard[op].dir => guard'[op].dir
  PROVE  CallInv'
<1> DEFINE r == [req[w] EXCEPT !.pc = "reply", !.reply = reply, !.resp = Nil]
<1>1. req' = [req EXCEPT ![w] = r] /\ r.pc = "reply"
  BY DEF Answer, TypeOK, Request
<1>2. QED
  BY <1>1, CallFrameOne

(* No file write removes an index directory.                               *)
LEMMA DirKept ==
  ASSUME TypeOK, NEW o \in Ops, NEW field \in {"claim", "done", "mark"}, NEW content,
         guard' = [guard EXCEPT ![o] = [@ EXCEPT ![field] = content]]
  PROVE  \A op \in Ops : guard[op].dir => guard'[op].dir
BY DEF TypeOK, Anchor

(* mkdir of the index directory is where the right to call is won: it was  *)
(* not there, so nobody has called and nobody else is entitled.            *)
LEMMA MkGuardCall ==
  ASSUME TypeOK, CallInv, NEW w \in Workers, MkGuard(w)
  PROVE  CallInv'
<1> DEFINE o == req[w].op
<1>1. o \in Ops /\ ~guard[o].dir /\ calls' = calls
  BY DEF MkGuard, TypeOK, WellFormed
<1>2. \A op \in Ops : guard'[op].dir = (op = o \/ guard[op].dir)
  BY <1>1 DEF MkGuard, TypeOK, Anchor
<1>3. calls[o] = 0
  BY <1>1 DEF CallInv
<1>4. \A v \in Workers : v # w => req'[v] = req[v]
  BY DEF MkGuard, Goto, TypeOK
<1>5. req'[w].op = o
  BY DEF MkGuard, Goto, TypeOK, Request
<1>6. \A v \in Workers : v # w /\ Entitled(v)' =>
        Entitled(v) /\ guard[req[v].op].dir /\ req[v].op \in Ops /\ req'[v].op # o
  BY <1>1, <1>4 DEF Entitled, CallInv, TypeOK, WellFormed
<1>7. \A v \in Workers : Entitled(v)' => guard'[req'[v].op].dir /\ calls'[req'[v].op] = 0
  <2> SUFFICES ASSUME NEW v \in Workers, Entitled(v)'
               PROVE  guard'[req'[v].op].dir /\ calls'[req'[v].op] = 0
    OBVIOUS
  <2>1. CASE v = w
    BY <2>1, <1>1, <1>2, <1>3, <1>5
  <2>2. CASE v # w
    <3>1. req'[v].op = req[v].op /\ Entitled(v) /\ req[v].op \in Ops
      BY <2>2, <1>4, <1>6
    <3>2. calls[req[v].op] = 0 /\ guard[req[v].op].dir
      BY <3>1 DEF CallInv
    <3>3. QED
      BY <3>1, <3>2, <1>1, <1>2
  <2>3. QED
    BY <2>1, <2>2
<1>8. \A u, v \in Workers : Entitled(u)' /\ Entitled(v)' /\ req'[u].op = req'[v].op => u = v
  <2> SUFFICES ASSUME NEW u \in Workers, NEW v \in Workers, u # v,
                      Entitled(u)', Entitled(v)', req'[u].op = req'[v].op
               PROVE  FALSE
    OBVIOUS
  <2>1. u # w /\ v # w
    BY <1>5, <1>6
  <2>2. Entitled(u) /\ Entitled(v) /\ req[u].op = req[v].op
    BY <2>1, <1>4, <1>6
  <2>3. QED
    BY <2>2 DEF CallInv
<1>9. \A op \in Ops : calls'[op] \in {0, 1} /\ (calls'[op] = 1 => guard'[op].dir)
  BY <1>1, <1>2 DEF CallInv
<1>10. QED
  BY <1>7, <1>8, <1>9 DEF CallInv

LEMMA CallProviderCall ==
  ASSUME TypeOK, CallInv, NEW w \in Workers, CallProvider(w)
  PROVE  CallInv'
<1> DEFINE o == req[w].op
<1>1. o \in Ops /\ Entitled(w)
  BY DEF CallProvider, TypeOK, WellFormed, Entitled
<1>2. calls[o] = 0 /\ guard[o].dir /\ guard' = guard
  BY <1>1 DEF CallInv, CallProvider
<1>3. \A op \in Ops : calls'[op] = IF op = o THEN 1 ELSE calls[op]
  BY <1>1, <1>2 DEF CallProvider, TypeOK
<1>4. \A v \in Workers : v # w => req'[v] = req[v]
  BY DEF CallProvider, Goto, TypeOK
<1>5. ~Entitled(w)'
  BY DEF CallProvider, Goto, TypeOK, Request, Entitled
<1>6. \A v \in Workers : Entitled(v)' =>
        v # w /\ Entitled(v) /\ req'[v].op = req[v].op /\ req[v].op # o /\ req[v].op \in Ops
  BY <1>1, <1>4, <1>5 DEF Entitled, CallInv, TypeOK, WellFormed
<1>7. \A v \in Workers : Entitled(v)' => guard'[req'[v].op].dir /\ calls'[req'[v].op] = 0
  BY <1>2, <1>3, <1>6 DEF CallInv
<1>8. \A u, v \in Workers : Entitled(u)' /\ Entitled(v)' /\ req'[u].op = req'[v].op => u = v
  BY <1>6 DEF CallInv
<1>9. \A op \in Ops : calls'[op] \in {0, 1} /\ (calls'[op] = 1 => guard'[op].dir)
  BY <1>2, <1>3 DEF CallInv
<1>10. QED
  BY <1>7, <1>8, <1>9 DEF CallInv

LEMMA ServeCall ==
  ASSUME TypeOK, CallInv, NEW w \in Workers, Serve(w)
  PROVE  CallInv'
<1> USE DEF Entitled
<1>1. CASE Acquire(w) \/ WriteHolder(w)
  BY <1>1, CallFrame DEF Acquire, WriteHolder
<1>2. CASE LockTimeout(w) \/ HandlerThrows(w) \/ ReleaseFails(w)
  BY <1>2, AnswerCall DEF LockTimeout, HandlerThrows, ReleaseFails
<1>3. CASE Fault(w) \/ Read(w) \/ Reread(w)
  BY <1>3, LeaveCall DEF Fault, Read, Reread
<1>4. CASE Release(w)
  BY <1>4, GotoCall DEF Release, TypeOK, Request, Nexts
<1>5. CASE TakeSlot(w)
  BY <1>5, GotoCall, AnswerCall DEF TakeSlot
<1>6. CASE Claim(w)
  BY <1>6, LeaveCall, GotoCall DEF Claim
<1>7. CASE MkGuard(w)
  BY <1>7, MkGuardCall
<1>8. CASE MkRoot(w)
  BY <1>8, GotoCall DEF MkRoot
<1>9. CASE WriteRecord(w)
  BY <1>9, GotoCall, LeaveCall DEF WriteRecord
<1>10. CASE WriteClaim(w)
  <2>1. req[w].op \in Ops /\ Entitled(w)
    BY <1>10 DEF WriteClaim, TypeOK, WellFormed
  <2>2. \A op \in Ops : guard[op].dir => guard'[op].dir
    BY <1>10, <2>1, DirKept DEF WriteClaim
  <2>3. QED
    BY <1>10, <2>1, <2>2, LeaveCall DEF WriteClaim
<1>11. CASE CallProvider(w)
  BY <1>11, CallProviderCall
<1>12. ASSUME NEW x \in Responses, Respond(w, x)
       PROVE  CallInv'
  <2> DEFINE r == [req[w] EXCEPT !.pc = "complete", !.resp = x]
  <2>1. req' = [req EXCEPT ![w] = r] /\ r.pc = "complete"
    BY <1>12 DEF Respond, TypeOK, Request
  <2>2. QED
    BY <1>12, <2>1, CallFrameOne DEF Respond
<1>13. CASE Complete(w) \/ WriteTmp(w)
  BY <1>13, GotoCall, LeaveCall DEF Complete, WriteTmp
<1>14. CASE WriteDone(w)
  <2>1. req[w].op \in Ops
    BY <1>14 DEF WriteDone, TypeOK, WellFormed
  <2>2. \A op \in Ops : guard[op].dir => guard'[op].dir
    BY <1>14, <2>1, DirKept DEF WriteDone
  <2>3. QED
    BY <1>14, <2>2, GotoCall, LeaveCall DEF WriteDone
<1>15. CASE Rename(w)
  BY <1>15, LeaveCall DEF Rename
<1>16. QED
  BY <1>1, <1>2, <1>3, <1>4, <1>5, <1>6, <1>7, <1>8, <1>9, <1>10, <1>11, <1>12, <1>13,
     <1>14, <1>15
  DEF Serve, LockStep, ClaimStep, CallStep, CompleteStep

(* A crash takes entitlements away; recovery commands and clients grant    *)
(* none.                                                                   *)
LEMMA OtherCall ==
  ASSUME TypeOK, CallInv,
         \/ \E p \in Procs : Start(p) \/ Crash(p)
         \/ Operate
         \/ \E w \in Workers : Disconnect(w)
         \/ \E w \in Workers, op \in Ops, o \in Owners, i \in Inputs \cup {Nil} : Submit(w, op, o, i)
  PROVE  CallInv'
<1>1. ASSUME NEW p \in Procs, Start(p) \/ Crash(p)
      PROVE  CallInv'
  <2>1. \A w \in Workers : req'[w] \in {req[w], IdleRequest}
    BY <1>1 DEF Start, Crash
  <2>2. \A w \in Workers : Entitled(w)' => Entitled(w) /\ req'[w].op = req[w].op
    BY <2>1 DEF Entitled, IdleRequest
  <2>3. QED
    BY <1>1, <2>2, CallFrame DEF Start, Crash
<1>2. ASSUME NEW op \in Ops, Quarantine(op)
      PROVE  CallInv'
  <2>1. \A o \in Ops : guard[o].dir => guard'[o].dir
    BY <1>2, DirKept DEF Quarantine
  <2>2. QED
    BY <1>2, <2>1, CallFrame DEF Quarantine, Entitled
<1>3. CASE Operate /\ UNCHANGED guard
  BY <1>3, CallFrame
  DEF Operate, UnlockHold, UnlockRelease, BeginMaintenance, Quarantine, VerifyRecovery,
      EndMaintenance, CrashMaintenance, Entitled
<1>4. ASSUME NEW w \in Workers, Disconnect(w)
      PROVE  CallInv'
  BY <1>4, CallFrameOne DEF Disconnect, IdleRequest
<1>5. ASSUME NEW w \in Workers, NEW op \in Ops, NEW o \in Owners, NEW i \in Inputs \cup {Nil},
             Submit(w, op, o, i)
      PROVE  CallInv'
  BY <1>5, CallFrameOne DEF Submit, IdleRequest
<1>6. QED
  BY <1>1, <1>2, <1>3, <1>4, <1>5
  DEF Operate, UnlockHold, UnlockRelease, BeginMaintenance, VerifyRecovery, EndMaintenance,
      CrashMaintenance

LEMMA CallsCounted == Spec => []CallInv
<1>1. Init => CallInv
  BY DEF Init, CallInv, Entitled, IdleRequest
<1>2. TypeOK /\ CallInv /\ [Next]_vars => CallInv'
  <2>1. ASSUME TypeOK, CallInv, Next
        PROVE  CallInv'
    BY <2>1, ServeCall, OtherCall DEF Next
  <2>2. CallInv /\ UNCHANGED vars => CallInv'
    BY DEF vars, CallInv, Entitled
  <2>3. QED
    BY <2>1, <2>2
<1>3. QED
  BY <1>1, <1>2, TypeCorrect, PTL DEF Spec

(* The store never pays twice for one identifier: for any number of tabs,  *)
(* processes, crashes, restarts and recovery commands, at most one         *)
(* provider request is sent per operation.                                 *)
THEOREM AtMostOneCall == Spec => []AtMostOneProviderCall
<1>1. CallInv => AtMostOneProviderCall
  BY DEF CallInv, AtMostOneProviderCall
<1>2. QED
  BY <1>1, CallsCounted, PTL

-----------------------------------------------------------------------------
(* What the records say.                                                   *)

(* A record tells whether it has its response.                             *)
LEMMA Records ==
  ASSUME TypeOK
  PROVE  /\ \A w \in Workers : req[w].input \in Inputs /\ req[w].pc # "idle" =>
              Record0(w) \in OpenRecord /\ Record0(w) \in Record
         /\ \A w \in Workers : req[w].input \in Inputs /\ req[w].pc # "idle" /\ req[w].resp \in Responses =>
              Completed(w) \in ClosedRecord /\ Completed(w) \in Record
         /\ OpenRecord \cap ClosedRecord = {}
         /\ Nil \notin Record /\ Torn \notin Record
<1>1. \A w \in Workers : req[w].pc # "idle" => req[w].owner \in Owners
  BY DEF TypeOK, WellFormed
<1>2. QED
  BY <1>1, NilAssumption DEF Record0, Completed, OpenRecord, ClosedRecord, Record

-----------------------------------------------------------------------------
(* The files.                                                              *)

(* A step of one request that leaves every file alone.                     *)
LEMMA FilesKept ==
  ASSUME TypeOK, FileInv, UNCHANGED store, NEW w \in Workers, NEW r,
         req' = [req EXCEPT ![w] = r],
         Claimant(w)' => Claimant(w) /\ r.op = req[w].op /\ Progress(w)'
  PROVE  FileInv'
<1>1. \A op \in Ops : Consistent(op)'
  BY DEF FileInv, Consistent, Untouched, store
<1>2. \A v \in Workers : req'[v] = IF v = w THEN r ELSE req[v]
  BY DEF TypeOK
<1>3. \A v \in Workers : v # w => Claimant(v)' = Claimant(v)
  BY <1>2 DEF Claimant
<1>4. \A v \in Workers : v # w /\ Progress(v) => Progress(v)'
  BY <1>2 DEF Progress, Record0, Completed, store
<1>5. \A v \in Workers : Claimant(v)' => Claimant(v) /\ req'[v].op = req[v].op
  BY <1>2, <1>3
<1>6. \A v \in Workers : Claimant(v)' => Progress(v)'
  BY <1>3, <1>4 DEF FileInv
<1>7. QED
  BY <1>1, <1>5, <1>6 DEF FileInv

(* A step of the owner of an operation, or of a request that becomes its   *)
(* owner: it writes no file of another operation.                          *)
LEMMA OneOperation ==
  ASSUME TypeOK, FileInv, NEW w \in Workers, NEW o \in Ops, o = req[w].op,
         Claimant(w) \/ ~guard[o].dir,
         \A op \in Ops : op # o => guard'[op] = guard[op] /\ root'[op] = root[op],
         \A v \in Workers : v # w => req'[v] = req[v],
         Consistent(o)', Claimant(w)' => req'[w].op = o /\ Progress(w)'
  PROVE  FileInv'
<1>1. \A op \in Ops : Consistent(op)'
  BY DEF FileInv, Consistent, Untouched
<1>2. \A v \in Workers : v # w => Claimant(v)' = Claimant(v)
  BY DEF Claimant
<1>3. \A v \in Workers : v # w /\ Claimant(v) => req[v].op \in Ops /\ req[v].op # o
  <2>1. \A v \in Workers : Claimant(v) => req[v].op \in Ops /\ guard[req[v].op].dir
    BY DEF FileInv, TypeOK, WellFormed, Claimant, Progress, CompleteWrites
  <2>2. QED
    BY <2>1 DEF FileInv
<1>4. \A v \in Workers : v # w /\ Claimant(v) => Progress(v)'
  <2> SUFFICES ASSUME NEW v \in Workers, v # w, Claimant(v)
               PROVE  Progress(v)'
    OBVIOUS
  <2>1. guard'[req[v].op] = guard[req[v].op] /\ root'[req[v].op] = root[req[v].op] /\ req'[v] = req[v]
    BY <1>3
  <2>2. Progress(v)
    BY DEF FileInv
  <2>3. QED
    BY <2>1, <2>2 DEF Progress, Record0, Completed
<1>5. \A v \in Workers : Claimant(v)' => Progress(v)'
  BY <1>2, <1>4
<1>6. \A u, v \in Workers : Claimant(u)' /\ Claimant(v)' /\ req'[u].op = req'[v].op => u = v
  BY <1>2, <1>3 DEF FileInv
<1>7. QED
  BY <1>1, <1>5, <1>6 DEF FileInv

(* To leave the locked section for anything but the call gives the         *)
(* operation up, and so does an answer.                                    *)
LEMMA LeaveDrops ==
  ASSUME TypeOK, NEW w \in Workers, NEW next, NEW reply, NEW resp,
         Leave(w, next, reply, resp), next # "call"
  PROVE  ~Claimant(w)'
<1>1. req'[w] = [req[w] EXCEPT !.pc = "release", !.next = next, !.reply = reply, !.resp = resp]
  BY DEF Leave, TypeOK
<1>2. req'[w].pc = "release" /\ req'[w].next = next
  BY <1>1 DEF TypeOK, Request
<1>3. QED
  BY <1>2 DEF Claimant, CompleteWrites

LEMMA LeaveFiles ==
  ASSUME TypeOK, FileInv, UNCHANGED store, NEW w \in Workers, NEW next, NEW reply, NEW resp,
         Leave(w, next, reply, resp), next # "call"
  PROVE  FileInv'
<1> DEFINE r == [req[w] EXCEPT !.pc = "release", !.next = next, !.reply = reply, !.resp = resp]
<1>1. req' = [req EXCEPT ![w] = r] /\ r.pc = "release" /\ r.next = next
  BY DEF Leave, TypeOK, Request
<1>2. ~Claimant(w)'
  BY LeaveDrops
<1>3. QED
  BY <1>1, <1>2, FilesKept

LEMMA AnswerFiles ==
  ASSUME TypeOK, FileInv, UNCHANGED store, NEW w \in Workers, NEW reply, Answer(w, reply)
  PROVE  FileInv'
<1> DEFINE r == [req[w] EXCEPT !.pc = "reply", !.reply = reply, !.resp = Nil]
<1>1. req' = [req EXCEPT ![w] = r] /\ r.pc = "reply"
  BY DEF Answer, TypeOK, Request
<1>2. req'[w] = r
  BY <1>1 DEF TypeOK
<1>3. ~Claimant(w)'
  BY <1>1, <1>2 DEF Claimant, CompleteWrites
<1>4. QED
  BY <1>1, <1>3, FilesKept

(* Moving on: outside the claim, or along it without a write.              *)
LEMMA GotoFiles ==
  ASSUME TypeOK, FileInv, UNCHANGED store, NEW w \in Workers, NEW where, Goto(w, where),
         \/ where \in {"idle", "slot", "claim", "reread", "reply", "mkguard"}
         \/ Claimant(w) /\ req[w].pc \in {"release", "call"} /\ where \in {"call", "respond"}
         \/ Claimant(w) /\ req[w].pc = "complete" /\ where = "tmp" /\ guard[req[w].op].mark = Nil
  PROVE  FileInv'
<1> DEFINE r == [req[w] EXCEPT !.pc = where]
<1>1. req' = [req EXCEPT ![w] = r] /\ r.pc = where /\ r.next = req[w].next /\ r.op = req[w].op
      /\ r.owner = req[w].owner /\ r.input = req[w].input /\ r.resp = req[w].resp
  BY DEF Goto, TypeOK, Request
<1>2. req'[w] = r
  BY <1>1 DEF TypeOK
<1>3. ASSUME Claimant(w)'
      PROVE  Claimant(w) /\ Progress(w)'
  <2>1. where \notin {"idle", "slot", "claim", "reread", "reply", "mkguard"}
    BY <1>1, <1>2, <1>3 DEF Claimant, CompleteWrites
  <2>2. Claimant(w) /\ Progress(w)
    BY <2>1 DEF FileInv
  <2>3. QED
    BY <1>1, <1>2, <2>1, <2>2 DEF Progress, Record0, Completed, ClaimWrites, CompleteWrites, store
<1>4. QED
  BY <1>1, <1>3, FilesKept

(* The writes of a claim, in their order.                                  *)
LEMMA ClaimWritesFiles ==
  ASSUME TypeOK, FileInv, NEW w \in Workers,
         MkGuard(w) \/ MkRoot(w) \/ WriteRecord(w) \/ WriteClaim(w)
  PROVE  FileInv'
<1> USE DEF ClaimWrites, CompleteWrites
<1>0. PICK o \in Ops : o = req[w].op
  BY DEF TypeOK, WellFormed, MkGuard, MkRoot, WriteRecord, WriteClaim
<1>1. o = req[w].op /\ o \in Ops /\ req[w].input \in Inputs /\ req[w].pc # "idle"
  BY <1>0 DEF TypeOK, WellFormed, MkGuard, MkRoot, WriteRecord, WriteClaim
<1>2. Record0(w) \in OpenRecord /\ Record0(w) \in Record /\ Nil \notin Record /\ Torn \notin Record
      /\ OpenRecord \cap ClosedRecord = {}
  BY <1>1, Records
<1>3. Consistent(o) /\ Nil \notin ClosedRecord /\ Torn \notin ClosedRecord
  BY <1>1, <1>2 DEF FileInv, Record
<1>4. CASE MkGuard(w)
  <2>1. Untouched(o)
    BY <1>1, <1>3, <1>4 DEF Consistent, MkGuard
  <2>2. \A op \in Ops : guard'[op] = IF op = o THEN [guard[op] EXCEPT !.dir = TRUE] ELSE guard[op]
    BY <1>1, <1>4 DEF MkGuard, TypeOK
  <2>3. guard'[o].dir /\ guard'[o].claim = Nil /\ guard'[o].done = Nil /\ guard'[o].mark = Nil
    BY <1>1, <2>1, <2>2 DEF Untouched, TypeOK, Anchor
  <2>4. req'[w].op = o /\ req'[w].pc = "mkroot" /\ \A v \in Workers : v # w => req'[v] = req[v]
    BY <1>1, <1>4 DEF MkGuard, Goto, TypeOK, Request
  <2>5. root' = root
    BY <1>1, <1>4 DEF MkGuard
  <2>6. Consistent(o)'
    BY <1>1, <1>2, <1>3, <2>1, <2>3, <2>5 DEF Consistent, Untouched
  <2>7. Progress(w)'
    BY <1>1, <2>1, <2>3, <2>4, <2>5 DEF Progress, Untouched
  <2>8. QED
    BY <1>1, <1>4, <2>2, <2>4, <2>5, <2>6, <2>7, OneOperation DEF MkGuard
<1>5. CASE MkRoot(w)
  <2>1. Claimant(w) /\ Progress(w)
    BY <1>1, <1>5 DEF MkRoot, FileInv, Claimant
  <2>2. \A op \in Ops : root'[op] = IF op = o THEN [root[op] EXCEPT !.dir = TRUE] ELSE root[op]
    BY <1>1, <1>5 DEF MkRoot, TypeOK
  <2>3. root'[o].dir /\ root'[o].record = root[o].record /\ root'[o].tmp = root[o].tmp
    BY <1>1, <2>2 DEF TypeOK, Receipt
  <2>4. req'[w].op = o /\ req'[w].pc = "record" /\ \A v \in Workers : v # w => req'[v] = req[v]
    BY <1>1, <1>5 DEF MkRoot, Goto, TypeOK, Request
  <2>5. guard' = guard /\ req[w].pc = "mkroot"
    BY <1>1, <1>5 DEF MkRoot
  <2>6. Consistent(o)'
    BY <1>1, <1>2, <1>3, <2>1, <2>3, <2>5 DEF Consistent, Progress
  <2>7. Progress(w)'
    BY <1>1, <2>1, <2>3, <2>4, <2>5 DEF Progress
  <2>8. QED
    BY <1>1, <2>1, <2>2, <2>4, <2>5, <2>6, <2>7, OneOperation
<1>6. CASE WriteRecord(w)
  <2>1. Claimant(w) /\ Progress(w)
    BY <1>1, <1>6 DEF WriteRecord, FileInv, Claimant
  <2>2. PICK content \in {Record0(w), Torn} :
          /\ root' = [root EXCEPT ![o] = [@ EXCEPT !.record = content]]
          /\ IF content = Torn THEN Leave(w, "reply", "error", Nil) ELSE Goto(w, "anchor")
    BY <1>1, <1>6 DEF WriteRecord
  <2>3. /\ \A op \in Ops : op # o => root'[op] = root[op]
        /\ root'[o].record = content /\ root'[o].dir = root[o].dir /\ root'[o].tmp = root[o].tmp
    BY <1>1, <2>2 DEF TypeOK, Receipt
  <2>4. \A v \in Workers : v # w => req'[v] = req[v]
    BY <1>1, <2>2 DEF Leave, Goto, TypeOK
  <2>5. guard' = guard /\ req[w].pc = "record"
    BY <1>1, <1>6 DEF WriteRecord
  <2>6. Consistent(o)'
    BY <1>1, <1>2, <1>3, <2>1, <2>2, <2>3, <2>5 DEF Consistent, Progress
  <2>7. ASSUME Claimant(w)'
        PROVE  req'[w].op = o /\ Progress(w)'
    <3>1. CASE content = Torn
      BY <2>2, <2>7, <3>1, LeaveDrops
    <3>2. CASE content # Torn
      <4>1. content = Record0(w) /\ Goto(w, "anchor")
        BY <1>1, <2>2, <3>2
      <4>2. req'[w] = [req[w] EXCEPT !.pc = "anchor"]
        BY <1>1, <4>1 DEF Goto, TypeOK
      <4>3. req'[w].op = o /\ req'[w].pc = "anchor" /\ Record0(w)' = Record0(w)
        BY <1>1, <4>2 DEF TypeOK, Request, Record0
      <4>4. QED
        BY <1>1, <2>1, <2>3, <2>5, <4>1, <4>3 DEF Progress
    <3>3. QED
      BY <1>1, <3>1, <3>2
  <2>8. QED
    BY <1>1, <2>1, <2>3, <2>4, <2>5, <2>6, <2>7, OneOperation
<1>7. CASE WriteClaim(w)
  <2>1. Claimant(w) /\ Progress(w)
    BY <1>1, <1>7 DEF WriteClaim, FileInv, Claimant
  <2>2. PICK content \in {Record0(w), Torn} :
          /\ guard' = [guard EXCEPT ![o] = [@ EXCEPT !.claim = content]]
          /\ IF content = Torn THEN Leave(w, "reply", "error", Nil) ELSE Leave(w, "call", "none", Nil)
    BY <1>1, <1>7 DEF WriteClaim
  <2>3. /\ \A op \in Ops : op # o => guard'[op] = guard[op]
        /\ guard'[o].claim = content /\ guard'[o].dir = guard[o].dir
        /\ guard'[o].done = guard[o].done /\ guard'[o].mark = guard[o].mark
    BY <1>1, <2>2 DEF TypeOK, Anchor
  <2>4. \A v \in Workers : v # w => req'[v] = req[v]
    BY <1>1, <2>2 DEF Leave, TypeOK
  <2>5. root' = root /\ req[w].pc = "anchor"
    BY <1>1, <1>7 DEF WriteClaim
  <2>6. Consistent(o)'
    BY <1>1, <1>2, <1>3, <2>1, <2>2, <2>3, <2>5 DEF Consistent, Progress
  <2>7. ASSUME Claimant(w)'
        PROVE  req'[w].op = o /\ Progress(w)'
    <3>1. CASE content = Torn
      BY <2>2, <2>7, <3>1, LeaveDrops
    <3>2. CASE content # Torn
      <4>1. content = Record0(w) /\ Leave(w, "call", "none", Nil)
        BY <1>1, <2>2, <3>2
      <4>2. req'[w] = [req[w] EXCEPT !.pc = "release", !.next = "call", !.reply = "none", !.resp = Nil]
        BY <1>1, <4>1 DEF Leave, TypeOK
      <4>3. req'[w].op = o /\ req'[w].pc = "release" /\ Record0(w)' = Record0(w)
        BY <1>1, <4>2 DEF TypeOK, Request, Record0
      <4>4. QED
        BY <1>1, <2>1, <2>3, <2>5, <4>1, <4>3 DEF Progress
    <3>3. QED
      BY <1>1, <3>1, <3>2
  <2>8. QED
    BY <1>1, <2>1, <2>3, <2>4, <2>5, <2>6, <2>7, OneOperation
<1>8. QED
  BY <1>4, <1>5, <1>6, <1>7

(* The writes of a completion, in theirs.                                  *)
LEMMA CompleteWritesFiles ==
  ASSUME TypeOK, FileInv, NEW w \in Workers,
         WriteTmp(w) \/ WriteDone(w) \/ Rename(w)
  PROVE  FileInv'
<1> USE DEF ClaimWrites, CompleteWrites
<1>0. PICK o \in Ops : o = req[w].op
  BY DEF TypeOK, WellFormed, WriteTmp, WriteDone, Rename
<1>1. o = req[w].op /\ o \in Ops /\ req[w].input \in Inputs /\ req[w].pc # "idle" /\ req[w].resp \in Responses
  BY <1>0 DEF TypeOK, WellFormed, WriteTmp, WriteDone, Rename
<1>2. /\ Record0(w) \in OpenRecord /\ Record0(w) \in Record /\ Nil \notin Record /\ Torn \notin Record
      /\ Completed(w) \in ClosedRecord /\ Completed(w) \in Record
      /\ OpenRecord \cap ClosedRecord = {}
  BY <1>1, Records
<1>3. Consistent(o) /\ Nil \notin ClosedRecord /\ Torn \notin ClosedRecord
  BY <1>1, <1>2 DEF FileInv, Record
<1>4. Claimant(w) /\ Progress(w)
  BY DEF WriteTmp, WriteDone, Rename, FileInv, Claimant
<1>5. Completed(w).owner = Record0(w).owner /\ Completed(w).input = Record0(w).input
  BY DEF Completed, Record0
<1>6. CASE WriteTmp(w)
  <2>2. PICK content \in {Completed(w), Torn} :
          /\ root' = [root EXCEPT ![o] = [@ EXCEPT !.tmp = content]]
          /\ IF content = Torn THEN Leave(w, "reply", "error", Nil) ELSE Goto(w, "done")
    BY <1>1, <1>6 DEF WriteTmp
  <2>3. /\ \A op \in Ops : op # o => root'[op] = root[op]
        /\ root'[o].record = root[o].record /\ root'[o].dir = root[o].dir /\ root'[o].tmp = content
    BY <1>1, <2>2 DEF TypeOK, Receipt
  <2>4. \A v \in Workers : v # w => req'[v] = req[v]
    BY <1>1, <2>2 DEF Leave, Goto, TypeOK
  <2>5. guard' = guard /\ req[w].pc = "tmp"
    BY <1>1, <1>6 DEF WriteTmp
  <2>6. Consistent(o)'
    BY <1>1, <1>2, <1>3, <1>4, <2>2, <2>3, <2>5 DEF Consistent, Progress
  <2>7. ASSUME Claimant(w)'
        PROVE  req'[w].op = o /\ Progress(w)'
    <3>1. CASE content = Torn
      BY <2>2, <2>7, <3>1, LeaveDrops
    <3>2. CASE content # Torn
      <4>1. content = Completed(w) /\ Goto(w, "done")
        BY <1>1, <2>2, <3>2
      <4>2. req'[w] = [req[w] EXCEPT !.pc = "done"]
        BY <1>1, <4>1 DEF Goto, TypeOK
      <4>3. /\ req'[w].op = o /\ req'[w].pc = "done" /\ Record0(w)' = Record0(w)
            /\ Completed(w)' = Completed(w)
        BY <1>1, <4>2 DEF TypeOK, Request, Record0, Completed
      <4>4. QED
        BY <1>1, <1>4, <2>3, <2>5, <4>1, <4>3 DEF Progress
    <3>3. QED
      BY <1>1, <3>1, <3>2
  <2>8. QED
    BY <1>1, <1>4, <2>3, <2>4, <2>5, <2>6, <2>7, OneOperation
<1>7. CASE WriteDone(w)
  <2>2. PICK content \in {Completed(w), Torn} :
          /\ guard' = [guard EXCEPT ![o] = [@ EXCEPT !.done = content]]
          /\ IF content = Torn THEN Leave(w, "reply", "error", Nil) ELSE Goto(w, "rename")
    BY <1>1, <1>7 DEF WriteDone
  <2>3. /\ \A op \in Ops : op # o => guard'[op] = guard[op]
        /\ guard'[o].claim = guard[o].claim /\ guard'[o].dir = guard[o].dir
        /\ guard'[o].done = content /\ guard'[o].mark = guard[o].mark
    BY <1>1, <2>2 DEF TypeOK, Anchor
  <2>4. \A v \in Workers : v # w => req'[v] = req[v]
    BY <1>1, <2>2 DEF Leave, Goto, TypeOK
  <2>5. root' = root /\ req[w].pc = "done"
    BY <1>1, <1>7 DEF WriteDone
  <2>6. Consistent(o)'
    BY <1>1, <1>2, <1>3, <1>4, <2>2, <2>3, <2>5 DEF Consistent, Progress
  <2>7. ASSUME Claimant(w)'
        PROVE  req'[w].op = o /\ Progress(w)'
    <3>1. CASE content = Torn
      BY <2>2, <2>7, <3>1, LeaveDrops
    <3>2. CASE content # Torn
      <4>1. content = Completed(w) /\ Goto(w, "rename")
        BY <1>1, <2>2, <3>2
      <4>2. req'[w] = [req[w] EXCEPT !.pc = "rename"]
        BY <1>1, <4>1 DEF Goto, TypeOK
      <4>3. /\ req'[w].op = o /\ req'[w].pc = "rename" /\ Record0(w)' = Record0(w)
            /\ Completed(w)' = Completed(w)
        BY <1>1, <4>2 DEF TypeOK, Request, Record0, Completed
      <4>4. QED
        BY <1>1, <1>4, <2>3, <2>5, <4>1, <4>3 DEF Progress
    <3>3. QED
      BY <1>1, <3>1, <3>2
  <2>8. QED
    BY <1>1, <1>4, <2>3, <2>4, <2>5, <2>6, <2>7, OneOperation
<1>8. CASE Rename(w)
  <2>1. /\ \A op \in Ops : op # o => root'[op] = root[op]
        /\ root'[o].record = root[o].tmp /\ root'[o].dir = root[o].dir /\ root'[o].tmp = Nil
    BY <1>1, <1>8 DEF Rename, TypeOK, Receipt
  <2>2. \A v \in Workers : v # w => req'[v] = req[v]
    BY <1>1, <1>8 DEF Rename, Leave, TypeOK
  <2>3. guard' = guard /\ req[w].pc = "rename"
    BY <1>1, <1>8 DEF Rename
  <2>4. Consistent(o)'
    BY <1>1, <1>2, <1>3, <1>4, <1>5, <2>1, <2>3 DEF Consistent, Progress
  <2>5. ~Claimant(w)'
    BY <1>8, LeaveDrops DEF Rename
  <2>6. QED
    BY <1>1, <1>4, <2>1, <2>2, <2>3, <2>4, <2>5, OneOperation
<1>9. QED
  BY <1>6, <1>7, <1>8

LEMMA ServeFiles ==
  ASSUME TypeOK, FileInv, NEW w \in Workers, Serve(w)
  PROVE  FileInv'
<1> USE DEF store
<1>1. CASE Acquire(w) \/ WriteHolder(w)
  <2>1. UNCHANGED <<store, req>>
    BY <1>1 DEF Acquire, WriteHolder
  <2>2. QED
    BY <2>1 DEF FileInv, Consistent, Untouched, Claimant, Progress, Record0, Completed
<1>2. CASE LockTimeout(w) \/ ReleaseFails(w) \/ HandlerThrows(w)
  BY <1>2, AnswerFiles DEF LockTimeout, ReleaseFails, HandlerThrows
<1>3. CASE Fault(w) \/ Read(w) \/ Reread(w)
  BY <1>3, LeaveFiles DEF Fault, Read, Reread
<1>4. CASE Release(w)
  <2>1. req[w].next \in Nexts /\ (req[w].next = "call" => Claimant(w))
    BY <1>4 DEF Release, TypeOK, Request, Claimant
  <2>2. QED
    BY <1>4, <2>1, GotoFiles DEF Release, Nexts
<1>5. CASE TakeSlot(w)
  BY <1>5, GotoFiles, AnswerFiles DEF TakeSlot
<1>6. CASE Claim(w)
  BY <1>6, GotoFiles, LeaveFiles DEF Claim
<1>7. CASE MkGuard(w) \/ MkRoot(w) \/ WriteRecord(w) \/ WriteClaim(w)
  BY <1>7, ClaimWritesFiles
<1>8. CASE CallProvider(w)
  BY <1>8, GotoFiles DEF CallProvider, Claimant
<1>9. ASSUME NEW x \in Responses, Respond(w, x)
      PROVE  FileInv'
  <2> DEFINE r == [req[w] EXCEPT !.pc = "complete", !.resp = x]
  <2>1. /\ req' = [req EXCEPT ![w] = r] /\ r.pc = "complete" /\ r.op = req[w].op
        /\ r.owner = req[w].owner /\ r.input = req[w].input
    BY <1>9 DEF Respond, TypeOK, Request
  <2>2. req'[w] = r
    BY <2>1 DEF TypeOK
  <2>3. Claimant(w) /\ Progress(w) /\ req[w].pc \in {"call", "respond"}
    BY <1>9 DEF Respond, Claimant, FileInv
  <2>4. UNCHANGED store
    BY <1>9 DEF Respond
  <2>5. Progress(w)'
    BY <2>1, <2>2, <2>3, <2>4 DEF Progress, Record0, ClaimWrites, CompleteWrites
  <2>6. QED
    BY <2>1, <2>3, <2>4, <2>5, FilesKept
<1>10. CASE Complete(w)
  BY <1>10, GotoFiles DEF Complete, Inside, Claimant, Running
<1>11. CASE WriteTmp(w) \/ WriteDone(w) \/ Rename(w)
  BY <1>11, CompleteWritesFiles
<1>12. QED
  BY <1>1, <1>2, <1>3, <1>4, <1>5, <1>6, <1>7, <1>8, <1>9, <1>10, <1>11
  DEF Serve, LockStep, ClaimStep, CallStep, CompleteStep

(* A quarantine finds no write under way: it holds the lock.  It marks a   *)
(* running operation and touches nothing else.                             *)
LEMMA QuarantineFiles ==
  ASSUME TypeOK, LockInv, FileInv, NEW o \in Ops, Quarantine(o)
  PROVE  FileInv'
<1>1. PICK content \in {root[o].record, Torn} : guard' = [guard EXCEPT ![o] = [@ EXCEPT !.mark = content]]
  BY DEF Quarantine
<1>2. /\ \A op \in Ops : guard'[op].dir = guard[op].dir /\ guard'[op].claim = guard[op].claim
                       /\ guard'[op].done = guard[op].done
      /\ \A op \in Ops : op # o => guard'[op].mark = guard[op].mark
      /\ UNCHANGED <<root, req>>
  BY <1>1 DEF Quarantine, TypeOK, Anchor
<1>3. guard[o].dir /\ root[o].record \in Record /\ root[o].record.resp = Nil
  BY DEF Quarantine, Running, Readable
<1>4. root[o].record \notin ClosedRecord
  BY <1>3, NilAssumption DEF ClosedRecord
<1>5. \A op \in Ops : Consistent(op)'
  BY <1>2, <1>3, <1>4 DEF FileInv, Consistent, Untouched
<1>6. \A w \in Workers : req[w].pc \notin ClaimWrites \cup CompleteWrites
  BY LockAssumption DEF Quarantine, LockInv, WritersExcluded, Inner, NotWorkers, UnderLock
<1>7. \A w \in Workers : Claimant(w)' = Claimant(w) /\ (Claimant(w) => req[w].op \in Ops)
  BY <1>2 DEF Claimant, TypeOK, WellFormed, CompleteWrites
<1>8. \A w \in Workers : Claimant(w) => Progress(w)'
  BY <1>2, <1>6, <1>7 DEF FileInv, Progress, Record0, Completed
<1>9. QED
  BY <1>2, <1>5, <1>7, <1>8 DEF FileInv

(* Clients, crashes and the other commands write no file, and a request    *)
(* that ends gives its operation up.                                       *)
LEMMA OtherFiles ==
  ASSUME TypeOK, LockInv, FileInv,
         \/ \E p \in Procs : Start(p) \/ Crash(p)
         \/ Operate
         \/ \E w \in Workers : Disconnect(w)
         \/ \E w \in Workers, op \in Ops, o \in Owners, i \in Inputs \cup {Nil} : Submit(w, op, o, i)
  PROVE  FileInv'
<1> USE DEF store
<1>1. ASSUME UNCHANGED store, \A w \in Workers : Claimant(w)' => req'[w] = req[w]
      PROVE  FileInv'
  <2>1. \A w \in Workers : Claimant(w)' => Claimant(w)
    BY <1>1 DEF Claimant
  <2>2. \A w \in Workers : Claimant(w)' => Progress(w)'
    BY <1>1, <2>1 DEF FileInv, Progress, Record0, Completed
  <2>3. \A op \in Ops : Consistent(op)'
    BY <1>1 DEF FileInv, Consistent, Untouched
  <2>4. QED
    BY <1>1, <2>1, <2>2, <2>3 DEF FileInv
<1>2. ASSUME NEW p \in Procs, Start(p) \/ Crash(p)
      PROVE  FileInv'
  <2>1. UNCHANGED store /\ \A w \in Workers : req'[w] \in {req[w], IdleRequest}
    BY <1>2 DEF Start, Crash
  <2>2. \A w \in Workers : Claimant(w)' => req'[w] = req[w]
    BY <2>1 DEF Claimant, IdleRequest, CompleteWrites
  <2>3. QED
    BY <1>1, <2>1, <2>2
<1>3. ASSUME NEW op \in Ops, Quarantine(op)
      PROVE  FileInv'
  BY <1>3, QuarantineFiles
<1>4. CASE Operate /\ UNCHANGED <<store, req>>
  BY <1>1, <1>4
<1>5. ASSUME NEW w \in Workers, Disconnect(w)
      PROVE  FileInv'
  BY <1>5, FilesKept DEF Disconnect, IdleRequest, Claimant, CompleteWrites, TypeOK
<1>6. ASSUME NEW w \in Workers, NEW op \in Ops, NEW o \in Owners, NEW i \in Inputs \cup {Nil},
             Submit(w, op, o, i)
      PROVE  FileInv'
  BY <1>6, FilesKept DEF Submit, IdleRequest, Claimant, CompleteWrites, TypeOK
<1>7. QED
  BY <1>2, <1>3, <1>4, <1>5, <1>6
  DEF Operate, UnlockHold, UnlockRelease, BeginMaintenance, VerifyRecovery, EndMaintenance,
      CrashMaintenance

(* Whoever writes, dies or interferes, the files of an operation always    *)
(* form a prefix of the order in which its owner writes them.              *)
THEOREM FilesConsistent == Spec => []FileInv
<1>1. Init => FileInv
  BY NilAssumption
  DEF Init, FileInv, Consistent, Untouched, Claimant, IdleRequest, CompleteWrites, Record
<1>2. TypeOK /\ LockInv /\ FileInv /\ [Next]_vars => FileInv'
  <2>1. ASSUME TypeOK, LockInv, FileInv, Next
        PROVE  FileInv'
    BY <2>1, ServeFiles, OtherFiles DEF Next
  <2>2. FileInv /\ UNCHANGED vars => FileInv'
    BY DEF vars, FileInv, Consistent, Untouched, Claimant, Progress, Record0, Completed
  <2>3. QED
    BY <2>1, <2>2
<1>3. QED
  BY <1>1, <1>2, TypeAndLock, PTL DEF Spec

-----------------------------------------------------------------------------
(* A decided operation is decided for good, and so are answers.            *)

LEMMA DecidedStays ==
  ASSUME TypeOK, LockInv, FileInv, Next, NEW o \in Ops, root[o].record \in ClosedRecord
  PROVE  guard'[o] = guard[o] /\ root'[o] = root[o]
<1>1. Nil \notin ClosedRecord /\ root[o].record \notin OpenRecord /\ root[o].record # Nil
      /\ root[o].record.resp # Nil
  BY Records, NilAssumption DEF Record, ClosedRecord
<1>2. Consistent(o) /\ guard[o].dir
  BY DEF FileInv, Consistent
<1>3. ASSUME NEW w \in Workers,
             \/ MkGuard(w) \/ MkRoot(w) \/ WriteRecord(w) \/ WriteClaim(w)
             \/ WriteTmp(w) \/ WriteDone(w) \/ Rename(w)
      PROVE  req[w].op \in Ops /\ req[w].op # o
  <2>1. req[w].op \in Ops /\ req[w].input \in Inputs /\ req[w].pc # "idle"
    BY <1>3 DEF TypeOK, WellFormed, MkGuard, MkRoot, WriteRecord, WriteClaim, WriteTmp, WriteDone,
                Rename, ClaimWrites, CompleteWrites
  <2>2. CASE MkGuard(w)
    BY <1>2, <2>1, <2>2 DEF MkGuard
  <2>3. CASE ~MkGuard(w)
    <3>1. Claimant(w) /\ Progress(w)
      BY <1>3, <2>3 DEF FileInv, Claimant, MkRoot, WriteRecord, WriteClaim, WriteTmp, WriteDone, Rename,
                        CompleteWrites
    <3>2. root[req[w].op].record \in {Nil, Record0(w)}
      BY <3>1 DEF Progress
    <3>3. QED
      BY <1>1, <2>1, <3>2, Records
  <2>4. QED
    BY <2>2, <2>3
<1>4. ASSUME NEW w \in Workers, MkGuard(w) \/ WriteClaim(w) \/ WriteDone(w)
      PROVE  guard'[o] = guard[o] /\ root' = root
  BY <1>3, <1>4 DEF MkGuard, WriteClaim, WriteDone, TypeOK
<1>5. ASSUME NEW w \in Workers, MkRoot(w) \/ WriteRecord(w) \/ WriteTmp(w) \/ Rename(w)
      PROVE  guard' = guard /\ root'[o] = root[o]
  BY <1>3, <1>5 DEF MkRoot, WriteRecord, WriteTmp, Rename, TypeOK
<1>6. ASSUME NEW op \in Ops, Quarantine(op)
      PROVE  guard'[o] = guard[o] /\ root' = root
  BY <1>1, <1>6 DEF Quarantine, Running, TypeOK
<1>7. CASE UNCHANGED store
  BY <1>7 DEF store
<1>8. QED
  BY <1>4, <1>5, <1>6, <1>7
  DEF Next, Serve, LockStep, ClaimStep, CallStep, CompleteStep, Operate, store,
      Submit, Disconnect, Start, Crash, Acquire, LockTimeout, WriteHolder, Fault, Release, ReleaseFails,
      Read, TakeSlot, Claim, Reread, CallProvider, HandlerThrows, Respond, Complete,
      UnlockHold, UnlockRelease, BeginMaintenance, VerifyRecovery, EndMaintenance, CrashMaintenance

(* Only the request that takes the step can get a completed answer by it.  *)
LEMMA ReplyFrame ==
  ASSUME TypeOK, LockInv, FileInv, ReplyInv, Next,
         \A w \in Workers : req'[w] # req[w] /\ req'[w].reply = "completed" => Delivered(w)'
  PROVE  ReplyInv'
<1> SUFFICES ASSUME NEW w \in Workers, req'[w] = req[w], req[w].reply = "completed"
             PROVE  Delivered(w)'
  BY DEF ReplyInv
<1>1. Delivered(w)
  BY DEF ReplyInv
<1>2. req[w].op \in Ops
  BY <1>1 DEF Delivered, TypeOK, WellFormed
<1>3. root'[req[w].op] = root[req[w].op]
  BY <1>1, <1>2, DecidedStays DEF Delivered
<1>4. QED
  BY <1>1, <1>3 DEF Delivered

LEMMA ReplyFrameOne ==
  ASSUME TypeOK, LockInv, FileInv, ReplyInv, Next, NEW w \in Workers, NEW r,
         req' = [req EXCEPT ![w] = r], r.reply = "completed" => Delivered(w)'
  PROVE  ReplyInv'
<1>1. \A v \in Workers : req'[v] = IF v = w THEN r ELSE req[v]
  BY DEF TypeOK
<1>2. QED
  BY <1>1, ReplyFrame

LEMMA LeaveReply ==
  ASSUME TypeOK, LockInv, FileInv, ReplyInv, Next, NEW w \in Workers, NEW next, NEW reply, NEW resp,
         Leave(w, next, reply, resp), reply # "completed"
  PROVE  ReplyInv'
<1> DEFINE r == [req[w] EXCEPT !.pc = "release", !.next = next, !.reply = reply, !.resp = resp]
<1>1. req' = [req EXCEPT ![w] = r] /\ r.reply = reply
  BY DEF Leave, TypeOK, Request
<1>2. QED
  BY <1>1, ReplyFrameOne

LEMMA AnswerReply ==
  ASSUME TypeOK, LockInv, FileInv, ReplyInv, Next, NEW w \in Workers, NEW reply,
         Answer(w, reply), reply # "completed"
  PROVE  ReplyInv'
<1> DEFINE r == [req[w] EXCEPT !.pc = "reply", !.reply = reply, !.resp = Nil]
<1>1. req' = [req EXCEPT ![w] = r] /\ r.reply = reply
  BY DEF Answer, TypeOK, Request
<1>2. QED
  BY <1>1, ReplyFrameOne

(* Before it leaves the section for its reply, a request has no answer.    *)
LEMMA GotoReply ==
  ASSUME TypeOK, LockInv, FileInv, ReplyInv, Next, NEW w \in Workers, NEW where, Goto(w, where),
         req[w].pc \notin {"release", "reply"}
  PROVE  ReplyInv'
<1> DEFINE r == [req[w] EXCEPT !.pc = where]
<1>1. req' = [req EXCEPT ![w] = r] /\ r.reply = req[w].reply
  BY DEF Goto, TypeOK, Request
<1>2. req[w].reply # "completed"
  BY DEF ReplyInv, Delivered
<1>3. QED
  BY <1>1, <1>2, ReplyFrameOne

(* replay() hands out what the receipt says, to its owner.                 *)
LEMMA ReplayDelivers ==
  ASSUME TypeOK, LockInv, FileInv, ReplyInv, Next, NEW w \in Workers, Read(w) \/ Reread(w),
         Known(req[w].op), Leave(w, "reply", ReplayReply(w), ReplayResp(w))
  PROVE  ReplyInv'
<1> DEFINE r == [req[w] EXCEPT !.pc = "release", !.next = "reply", !.reply = ReplayReply(w),
                               !.resp = ReplayResp(w)]
<1>1. PICK o \in Ops : o = req[w].op
  BY DEF TypeOK, WellFormed, Read, Reread, Inside
<1>2. Readable(o)
  BY <1>1 DEF Read, Reread, InventoryOK, KnownOps
<1>3. /\ req' = [req EXCEPT ![w] = r] /\ r.reply = ReplayReply(w) /\ r.resp = ReplayResp(w)
      /\ r.pc = "release" /\ r.next = "reply" /\ r.op = o /\ r.owner = req[w].owner
  BY <1>1 DEF Leave, TypeOK, Request
<1>4. req'[w] = r /\ root' = root
  BY <1>3 DEF TypeOK, Read, Reread
<1>5. ASSUME ReplayReply(w) = "completed"
      PROVE  Delivered(w)'
  <2>1. /\ root[o].record.owner = req[w].owner /\ root[o].record.resp # Nil
        /\ ReplayResp(w) = root[o].record.resp
    BY <1>1, <1>5 DEF ReplayReply, ReplayResp
  <2>2. root[o].record \in ClosedRecord
    BY <1>2, <2>1 DEF Readable, Record, OpenRecord
  <2>3. QED
    BY <1>3, <1>4, <2>1, <2>2 DEF Delivered
<1>6. QED
  BY <1>3, <1>5, ReplyFrameOne

LEMMA RenameDelivers ==
  ASSUME TypeOK, LockInv, FileInv, ReplyInv, Next, NEW w \in Workers, Rename(w)
  PROVE  ReplyInv'
<1> DEFINE r == [req[w] EXCEPT !.pc = "release", !.next = "reply", !.reply = "completed",
                               !.resp = req[w].resp]
<1>1. /\ req[w].op \in Ops /\ req[w].input \in Inputs /\ req[w].pc = "rename"
      /\ req[w].resp \in Responses
  BY DEF TypeOK, WellFormed, Rename, CompleteWrites
<1>2. PICK o \in Ops : o = req[w].op
  BY <1>1
<1>3. /\ req' = [req EXCEPT ![w] = r] /\ r.resp = req[w].resp
      /\ r.pc = "release" /\ r.next = "reply" /\ r.op = o /\ r.owner = req[w].owner
  BY <1>2 DEF Rename, Leave, TypeOK, Request
<1>4. req'[w] = r
  BY <1>3 DEF TypeOK
<1>5. Claimant(w) /\ Progress(w)
  BY <1>1 DEF FileInv, Claimant, CompleteWrites
<1>6. root'[o].record = Completed(w)
  BY <1>1, <1>2, <1>5 DEF Rename, Progress, TypeOK, Receipt
<1>7. /\ Completed(w) \in ClosedRecord /\ Completed(w).owner = req[w].owner
      /\ Completed(w).resp = req[w].resp
  BY <1>1, Records DEF Completed, Record0
<1>8. Delivered(w)'
  BY <1>3, <1>4, <1>6, <1>7 DEF Delivered
<1>9. QED
  BY <1>3, <1>8, ReplyFrameOne

LEMMA ServeReply ==
  ASSUME TypeOK, LockInv, FileInv, ReplyInv, Next, NEW w \in Workers, Serve(w)
  PROVE  ReplyInv'
<1>1. CASE Acquire(w) \/ WriteHolder(w)
  BY <1>1, ReplyFrame DEF Acquire, WriteHolder
<1>2. CASE LockTimeout(w) \/ ReleaseFails(w) \/ HandlerThrows(w)
  BY <1>2, AnswerReply DEF LockTimeout, ReleaseFails, HandlerThrows
<1>3. CASE Fault(w)
  BY <1>3, LeaveReply DEF Fault
<1>4. CASE Read(w) \/ Reread(w)
  BY <1>4, LeaveReply, ReplayDelivers DEF Read, Reread
<1>5. CASE Release(w)
  <2> DEFINE r == [req[w] EXCEPT !.pc = req[w].next]
  <2>1. /\ req' = [req EXCEPT ![w] = r] /\ r.pc = req[w].next /\ r.reply = req[w].reply
        /\ r.op = req[w].op /\ r.owner = req[w].owner /\ r.resp = req[w].resp
    BY <1>5 DEF Release, Goto, TypeOK, Request
  <2>2. req'[w] = r /\ root' = root /\ req[w].pc = "release"
    BY <1>5, <2>1 DEF Release, TypeOK
  <2>3. r.reply = "completed" => Delivered(w)'
    BY <2>1, <2>2 DEF ReplyInv, Delivered
  <2>4. QED
    BY <2>1, <2>3, ReplyFrameOne
<1>6. CASE TakeSlot(w)
  BY <1>6, GotoReply, AnswerReply DEF TakeSlot
<1>7. CASE Claim(w)
  BY <1>7, GotoReply, LeaveReply DEF Claim, Inside
<1>8. CASE MkGuard(w) \/ MkRoot(w) \/ CallProvider(w)
  BY <1>8, GotoReply DEF MkGuard, MkRoot, CallProvider
<1>9. CASE WriteRecord(w) \/ WriteClaim(w)
  BY <1>9, GotoReply, LeaveReply DEF WriteRecord, WriteClaim
<1>10. ASSUME NEW x \in Responses, Respond(w, x)
       PROVE  ReplyInv'
  <2> DEFINE r == [req[w] EXCEPT !.pc = "complete", !.resp = x]
  <2>1. req' = [req EXCEPT ![w] = r] /\ r.reply = req[w].reply
    BY <1>10 DEF Respond, TypeOK, Request
  <2>2. req[w].reply # "completed"
    BY <1>10 DEF Respond, ReplyInv, Delivered
  <2>3. QED
    BY <2>1, <2>2, ReplyFrameOne
<1>11. CASE Complete(w)
  BY <1>11, GotoReply DEF Complete, Inside
<1>12. CASE WriteTmp(w) \/ WriteDone(w)
  BY <1>12, GotoReply, LeaveReply DEF WriteTmp, WriteDone
<1>13. CASE Rename(w)
  BY <1>13, RenameDelivers
<1>14. QED
  BY <1>1, <1>2, <1>3, <1>4, <1>5, <1>6, <1>7, <1>8, <1>9, <1>10, <1>11, <1>12, <1>13
  DEF Serve, LockStep, ClaimStep, CallStep, CompleteStep

LEMMA NextReply ==
  ASSUME TypeOK, LockInv, FileInv, ReplyInv, Next
  PROVE  ReplyInv'
<1>1. ASSUME NEW p \in Procs, Start(p) \/ Crash(p)
      PROVE  ReplyInv'
  <2>1. \A w \in Workers : req'[w] \in {req[w], IdleRequest}
    BY <1>1 DEF Start, Crash
  <2>2. IdleRequest.reply # "completed"
    BY DEF IdleRequest
  <2>3. QED
    BY <2>1, <2>2, ReplyFrame
<1>2. CASE Operate
  <2>1. req' = req
    BY <1>2 DEF Operate, UnlockHold, UnlockRelease, BeginMaintenance, Quarantine, VerifyRecovery,
                EndMaintenance, CrashMaintenance
  <2>2. QED
    BY <2>1, ReplyFrame
<1>3. ASSUME NEW w \in Workers, Disconnect(w)
      PROVE  ReplyInv'
  BY <1>3, ReplyFrameOne DEF Disconnect, IdleRequest
<1>4. ASSUME NEW w \in Workers, NEW op \in Ops, NEW o \in Owners, NEW i \in Inputs \cup {Nil},
             Submit(w, op, o, i)
      PROVE  ReplyInv'
  BY <1>4, ReplyFrameOne DEF Submit, IdleRequest
<1>5. QED
  BY <1>1, <1>2, <1>3, <1>4, ServeReply DEF Next

LEMMA RepliesSettled == Spec => []ReplyInv
<1>1. Init => ReplyInv
  BY DEF Init, ReplyInv, IdleRequest
<1>2. TypeOK /\ LockInv /\ FileInv /\ ReplyInv /\ [Next]_vars => ReplyInv'
  <2>1. ReplyInv /\ UNCHANGED vars => ReplyInv'
    BY DEF vars, ReplyInv, Delivered
  <2>2. QED
    BY <2>1, NextReply
<1>3. QED
  BY <1>1, <1>2, TypeAndLock, FilesConsistent, PTL DEF Spec

(* A client is told that an operation is completed only when index and     *)
(* receipt agree on exactly the response it is given, and it is its own.   *)
THEOREM AnswersAreDurable == Spec => []AnsweredIsDurable
<1>1. TypeOK /\ FileInv /\ ReplyInv => AnsweredIsDurable
  <2> SUFFICES ASSUME TypeOK, FileInv, ReplyInv, NEW w \in Workers, req[w].reply = "completed"
               PROVE  LET op == req[w].op IN
                        /\ Readable(op)
                        /\ guard[op].done = root[op].record
                        /\ root[op].record.owner = req[w].owner
                        /\ root[op].record.resp = req[w].resp
    BY DEF AnsweredIsDurable
  <2>1. Delivered(w)
    BY DEF ReplyInv
  <2>2. req[w].op \in Ops
    BY <2>1 DEF Delivered, TypeOK, WellFormed
  <2>3. Consistent(req[w].op)
    BY <2>2 DEF FileInv
  <2>4. root[req[w].op].record # Nil /\ root[req[w].op].record.resp # Nil
    BY <2>1, NilAssumption DEF Delivered, ClosedRecord, Record
  <2>5. QED
    BY <2>1, <2>3, <2>4 DEF Delivered, Consistent, Readable, Expected
<1>2. QED
  BY <1>1, TypeCorrect, FilesConsistent, RepliesSettled, PTL

-----------------------------------------------------------------------------
(* Admission.                                                              *)

LEMMA SameInventory ==
  ASSUME UNCHANGED store
  PROVE  /\ KnownOps' = KnownOps /\ InventoryOK' = InventoryOK
         /\ \A op \in Ops : Known(op)' = Known(op)
<1>1. guard' = guard /\ root' = root
  BY DEF store
<1>2. KnownOps' = KnownOps /\ \A op \in Ops : Known(op)' = Known(op)
  BY <1>1 DEF KnownOps, Known
<1>3. \A op \in Ops : Readable(op)' = Readable(op)
  BY <1>1 DEF Readable, Expected
<1>4. \A op \in KnownOps : op \in Ops
  BY DEF KnownOps
<1>5. QED
  BY <1>2, <1>3, <1>4 DEF InventoryOK

(* Between the decision of claim() and the first directory, the lock keeps *)
(* every writer and the recovery CLI away.                                 *)
LEMMA DecisionStands ==
  ASSUME TypeOK, LockInv, Next, NEW w \in Workers, req[w].pc = "mkguard", req'[w].pc = "mkguard"
  PROVE  UNCHANGED <<store, hold>>
<1> USE DEF Inner, ClaimWrites, CompleteWrites
<1>1. lock.by = w /\ up[ProcOf[w]] /\ ProcOf[w] \in Procs
  BY ProcAssumption DEF LockInv, WritersExcluded
<1>2. \A v \in Workers : req[v].pc \in Inner => v = w
  BY <1>1 DEF LockInv, WritersExcluded
<1>3. cli \notin {"quarantine", "verify"}
  BY <1>1, LockAssumption DEF LockInv, WritersExcluded, NotWorkers, UnderLock
<1>4. ~UnlockHold
  BY <1>1, LockAssumption DEF UnlockHold, Stopped, NotWorkers, TypeOK
<1>5. \A v \in Workers : ~MkRoot(v) /\ ~WriteRecord(v) /\ ~WriteClaim(v) /\ ~WriteTmp(v)
                          /\ ~WriteDone(v) /\ ~Rename(v)
  BY <1>2 DEF MkRoot, WriteRecord, WriteClaim, WriteTmp, WriteDone, Rename
<1>6. \A v \in Workers : ~MkGuard(v)
  <2> SUFFICES ASSUME NEW v \in Workers, MkGuard(v)
               PROVE  FALSE
    OBVIOUS
  <2>1. v = w
    BY <1>2 DEF MkGuard
  <2>2. QED
    BY <2>1 DEF MkGuard, Goto, TypeOK, Request
<1>7. QED
  BY <1>3, <1>4, <1>5, <1>6
  DEF Next, Serve, LockStep, ClaimStep, CallStep, CompleteStep, Operate, store,
      Submit, Disconnect, Start, Crash, Acquire, LockTimeout, WriteHolder, Fault, Release, ReleaseFails,
      Read, TakeSlot, Claim, Reread, CallProvider, HandlerThrows, Respond, Complete,
      UnlockRelease, BeginMaintenance, Quarantine, VerifyRecovery, EndMaintenance, CrashMaintenance

(* What a step can do to a request: nothing, end it, serve it or submit it.*)
(* Whoever serves it, it stays the request of the same client.             *)
SameClient(w) ==
  req'[w].op = req[w].op /\ req'[w].owner = req[w].owner /\ req'[w].input = req[w].input

LEMMA Moves ==
  ASSUME TypeOK, NEW w \in Workers
  PROVE  /\ \A where \in PCs : Goto(w, where) => req'[w].pc = where /\ SameClient(w)
         /\ \A reply : Answer(w, reply) => req'[w].pc = "reply" /\ req'[w].reply = reply /\ SameClient(w)
         /\ \A next, reply, resp : Leave(w, next, reply, resp) => req'[w].pc = "release" /\ SameClient(w)
         /\ \A x \in Responses : Respond(w, x) => req'[w].pc = "complete" /\ SameClient(w)
<1>1. ASSUME NEW where \in PCs, Goto(w, where)
      PROVE  req'[w].pc = where /\ SameClient(w)
  BY <1>1 DEF Goto, SameClient, TypeOK, Request
<1>2. ASSUME NEW reply, Answer(w, reply)
      PROVE  req'[w].pc = "reply" /\ req'[w].reply = reply /\ SameClient(w)
  BY <1>2 DEF Answer, SameClient, TypeOK, Request
<1>3. ASSUME NEW next, NEW reply, NEW resp, Leave(w, next, reply, resp)
      PROVE  req'[w].pc = "release" /\ SameClient(w)
  <2>1. req'[w] = [req[w] EXCEPT !.pc = "release", !.next = next, !.reply = reply, !.resp = resp]
    BY <1>3 DEF Leave, TypeOK
  <2>2. QED
    BY <2>1 DEF SameClient, TypeOK, Request
<1>4. ASSUME NEW x \in Responses, Respond(w, x)
      PROVE  req'[w].pc = "complete" /\ SameClient(w)
  BY <1>4 DEF Respond, SameClient, TypeOK, Request
<1>5. QED
  BY <1>1, <1>2, <1>3, <1>4

LEMMA ServeKeepsClient ==
  ASSUME TypeOK, NEW w \in Workers, Serve(w)
  PROVE  SameClient(w)
<1> USE DEF PCs, Sections, Inner, Outer, ClaimWrites, CompleteWrites
<1>1. CASE LockStep(w)
  <2>1. req[w].next \in PCs
    BY DEF TypeOK, Request, Nexts
  <2>2. QED
    BY <1>1, <2>1, Moves
    DEF LockStep, Acquire, LockTimeout, WriteHolder, Fault, Release, ReleaseFails, SameClient
<1>2. CASE ClaimStep(w)
  BY <1>2, Moves
  DEF ClaimStep, Read, TakeSlot, Claim, Reread, MkGuard, MkRoot, WriteRecord, WriteClaim
<1>3. CASE CallStep(w) \/ CompleteStep(w)
  BY <1>3, Moves
  DEF CallStep, CallProvider, HandlerThrows, CompleteStep, Complete, WriteTmp, WriteDone, Rename
<1>4. QED
  BY <1>1, <1>2, <1>3 DEF Serve

LEMMA RequestSteps ==
  ASSUME TypeOK, Next, NEW w \in Workers, req'[w] # req[w], req'[w] # IdleRequest
  PROVE  \/ Serve(w) /\ SameClient(w)
         \/ \E op \in Ops, o \in Owners, i \in Inputs \cup {Nil} : Submit(w, op, o, i)
<1>1. ASSUME NEW v \in Workers, Serve(v), v # w
      PROVE  FALSE
  BY <1>1
  DEF Serve, LockStep, ClaimStep, CallStep, CompleteStep, Acquire, LockTimeout, WriteHolder, Fault,
      Release, ReleaseFails, Read, TakeSlot, Claim, Reread, MkGuard, MkRoot, WriteRecord, WriteClaim,
      CallProvider, HandlerThrows, Respond, Complete, WriteTmp, WriteDone, Rename, Goto, Answer, Leave,
      TypeOK
<1>2. ~Operate
  BY DEF Operate, UnlockHold, UnlockRelease, BeginMaintenance, Quarantine, VerifyRecovery,
         EndMaintenance, CrashMaintenance
<1>3. \A p \in Procs : ~Start(p) /\ ~Crash(p)
  BY DEF Start, Crash
<1>4. \A v \in Workers : ~Disconnect(v)
  BY DEF Disconnect, TypeOK
<1>5. \A v \in Workers, op \in Ops, o \in Owners, i \in Inputs \cup {Nil} : Submit(v, op, o, i) => v = w
  BY DEF Submit, TypeOK
<1>6. QED
  BY <1>1, <1>2, <1>3, <1>4, <1>5, ServeKeepsClient DEF Next

(* A request gets as far as the first directory through claim() alone.     *)
LEMMA DecidedByClaim ==
  ASSUME TypeOK, Next, NEW w \in Workers, req[w].pc # "mkguard", req'[w].pc = "mkguard"
  PROVE  Claim(w) /\ ~Known(req[w].op) /\ Cardinality(KnownOps) < MaxOperations /\ SameClient(w)
<1> USE DEF PCs, Sections, Inner, Outer, ClaimWrites, CompleteWrites
<1>1. \A op \in Ops, o \in Owners, i \in Inputs \cup {Nil} : ~Submit(w, op, o, i)
  <2> SUFFICES ASSUME NEW op \in Ops, NEW o \in Owners, NEW i \in Inputs \cup {Nil}, Submit(w, op, o, i)
               PROVE  FALSE
    OBVIOUS
  <2>1. req'[w] = [IdleRequest EXCEPT !.pc = "read", !.op = op, !.owner = o, !.input = i]
    BY DEF Submit, TypeOK
  <2>2. req'[w].pc = "read"
    BY <2>1 DEF IdleRequest
  <2>3. QED
    BY <2>2
<1>2. Serve(w) /\ SameClient(w)
  BY <1>1, RequestSteps DEF IdleRequest
<1>3. ~LockStep(w)
  <2>1. req[w].next \in PCs \ {"mkguard"}
    BY DEF TypeOK, Request, Nexts
  <2>2. QED
    BY <2>1, Moves
    DEF LockStep, Acquire, LockTimeout, WriteHolder, Fault, Release, ReleaseFails
<1>4. ~CallStep(w) /\ ~CompleteStep(w)
  BY Moves
  DEF CallStep, CallProvider, HandlerThrows, CompleteStep, Complete, WriteTmp, WriteDone, Rename
<1>5. Claim(w)
  BY <1>2, <1>3, <1>4, Moves
  DEF Serve, ClaimStep, Read, TakeSlot, Reread, MkGuard, MkRoot, WriteRecord, WriteClaim
<1>6. QED
  BY <1>2, <1>5, Moves DEF Claim

LEMMA NextAdmit ==
  ASSUME TypeOK, LockInv, AdmitInv, Next
  PROVE  AdmitInv'
<1> SUFFICES ASSUME NEW w \in Workers, req'[w].pc = "mkguard"
             PROVE  (~hold /\ InventoryOK /\ ~Known(req[w].op) /\ Cardinality(KnownOps) < MaxOperations)'
  BY DEF AdmitInv
<1>1. CASE req[w].pc = "mkguard"
  <2>1. UNCHANGED <<store, hold>>
    BY <1>1, DecisionStands
  <2>2. req'[w].op = req[w].op /\ req[w].op \in Ops
    <3>1. \A op \in Ops, o \in Owners, i \in Inputs \cup {Nil} : ~Submit(w, op, o, i)
      BY <1>1 DEF Submit
    <3>2. QED
      BY <1>1, <3>1, RequestSteps DEF IdleRequest, SameClient, TypeOK, WellFormed
  <2>3. ~hold /\ InventoryOK /\ ~Known(req[w].op) /\ Cardinality(KnownOps) < MaxOperations
    BY <1>1 DEF AdmitInv
  <2>4. QED
    BY <2>1, <2>2, <2>3, SameInventory DEF Known, store
<1>2. CASE req[w].pc # "mkguard"
  <2>1. Claim(w) /\ ~Known(req[w].op) /\ Cardinality(KnownOps) < MaxOperations /\ SameClient(w)
    BY <1>2, DecidedByClaim
  <2>2. UNCHANGED <<store, hold>> /\ ~hold /\ InventoryOK
    BY <2>1 DEF Claim, store
  <2>3. QED
    BY <2>1, <2>2, SameInventory DEF Known, store, SameClient
<1>3. QED
  BY <1>1, <1>2

LEMMA AdmissionDecided == Spec => []AdmitInv
<1>1. Init => AdmitInv
  BY DEF Init, AdmitInv, IdleRequest
<1>2. TypeOK /\ LockInv /\ AdmitInv /\ [Next]_vars => AdmitInv'
  <2>1. AdmitInv /\ UNCHANGED vars => AdmitInv'
    <3> SUFFICES ASSUME AdmitInv, UNCHANGED vars
                 PROVE  AdmitInv'
      OBVIOUS
    <3>1. UNCHANGED <<store, hold, req>>
      BY DEF vars, store
    <3>2. QED
      BY <3>1, SameInventory DEF AdmitInv, Known, store
  <2>2. QED
    BY <2>1, NextAdmit
<1>3. QED
  BY <1>1, <1>2, TypeAndLock, PTL DEF Spec

(* An index directory appears by one step only.                            *)
LEMMA OnlyMkGuardAdds ==
  ASSUME TypeOK, Next, NEW op \in Ops, ~guard[op].dir, guard'[op].dir
  PROVE  \E w \in Workers : MkGuard(w)
<1>1. \A w \in Workers : ~WriteClaim(w) /\ ~WriteDone(w)
  <2> SUFFICES ASSUME NEW w \in Workers, WriteClaim(w) \/ WriteDone(w)
               PROVE  FALSE
    OBVIOUS
  <2>1. req[w].op \in Ops
    BY DEF TypeOK, WellFormed, WriteClaim, WriteDone
  <2>2. guard'[op].dir = guard[op].dir
    BY <2>1 DEF WriteClaim, WriteDone, TypeOK, Anchor
  <2>3. QED
    BY <2>2
<1>2. \A o \in Ops : ~Quarantine(o)
  BY DEF Quarantine, TypeOK, Anchor
<1>3. guard' # guard
  OBVIOUS
<1>4. QED
  BY <1>1, <1>2, <1>3
  DEF Next, Serve, LockStep, ClaimStep, CallStep, CompleteStep, Operate,
      Submit, Disconnect, Start, Crash, Acquire, LockTimeout, WriteHolder, Fault, Release, ReleaseFails,
      Read, TakeSlot, Claim, Reread, MkRoot, WriteRecord, CallProvider, HandlerThrows, Respond, Complete,
      WriteTmp, Rename, UnlockHold, UnlockRelease, BeginMaintenance, VerifyRecovery, EndMaintenance,
      CrashMaintenance

(* A crash or a full disk in the middle of any write, and a hold set by an *)
(* operator, stop the admission of new operations by every process.        *)
THEOREM AdmissionIsHealthy == Spec => AdmittedOnlyWhenHealthy
<1>1. TypeOK /\ AdmitInv /\ [Next]_vars =>
        [\A op \in Ops : ~guard[op].dir /\ guard'[op].dir => ~hold /\ InventoryOK]_vars
  <2> SUFFICES ASSUME TypeOK, AdmitInv, Next, NEW op \in Ops, ~guard[op].dir, guard'[op].dir
               PROVE  ~hold /\ InventoryOK
    OBVIOUS
  <2>1. PICK w \in Workers : MkGuard(w)
    BY OnlyMkGuardAdds
  <2>2. QED
    BY <2>1 DEF MkGuard, AdmitInv
<1>2. QED
  BY <1>1, TypeCorrect, AdmissionDecided, PTL DEF Spec, AdmittedOnlyWhenHealthy

-----------------------------------------------------------------------------
(* The number of operations.                                               *)

(* With no new index directory, no operation becomes known.                *)
LEMMA SameOperations ==
  ASSUME TypeOK, FileInv, Next, \A w \in Workers : ~MkGuard(w)
  PROVE  KnownOps' \subseteq KnownOps
<1> SUFFICES ASSUME NEW op \in Ops, Known(op)', ~Known(op)
             PROVE  FALSE
  BY DEF KnownOps
<1>1. ~guard[op].dir /\ ~root[op].dir
  BY DEF Known
<1>2. root'[op].dir
  BY <1>1, OnlyMkGuardAdds DEF Known
<1>3. \A w \in Workers : ~MkRoot(w)
  <2> SUFFICES ASSUME NEW w \in Workers, MkRoot(w)
               PROVE  FALSE
    OBVIOUS
  <2>1. req[w].op \in Ops /\ Claimant(w) /\ Progress(w)
    BY DEF MkRoot, TypeOK, WellFormed, Claimant, FileInv
  <2>2. req[w].op # op
    BY <1>1, <2>1 DEF Progress
  <2>3. root'[op] = root[op]
    BY <2>2 DEF MkRoot, TypeOK
  <2>4. QED
    BY <1>1, <1>2, <2>3
<1>4. \A w \in Workers : ~WriteRecord(w) /\ ~WriteTmp(w) /\ ~Rename(w)
  <2> SUFFICES ASSUME NEW w \in Workers, WriteRecord(w) \/ WriteTmp(w) \/ Rename(w)
               PROVE  FALSE
    OBVIOUS
  <2>1. CASE WriteRecord(w) \/ WriteTmp(w)
    BY <1>1, <1>2, <2>1 DEF WriteRecord, WriteTmp, TypeOK, Receipt
  <2>2. CASE Rename(w)
    BY <1>1, <1>2, <2>2 DEF Rename, TypeOK, Receipt
  <2>3. QED
    BY <2>1, <2>2
<1>5. root' # root
  BY <1>1, <1>2
<1>6. QED
  BY <1>3, <1>4, <1>5
  DEF Next, Serve, LockStep, ClaimStep, CallStep, CompleteStep, Operate,
      Submit, Disconnect, Start, Crash, Acquire, LockTimeout, WriteHolder, Fault, Release, ReleaseFails,
      Read, TakeSlot, Claim, Reread, MkGuard, WriteClaim, CallProvider, HandlerThrows, Respond, Complete,
      WriteDone, UnlockHold, UnlockRelease, BeginMaintenance, Quarantine, VerifyRecovery, EndMaintenance,
      CrashMaintenance

WithinQuota == IsFiniteSet(KnownOps) /\ Cardinality(KnownOps) <= MaxOperations

LEMMA QuotaInitially == Init => WithinQuota
<1> SUFFICES ASSUME Init
             PROVE  WithinQuota
  OBVIOUS
<1>1. KnownOps = {}
  BY DEF Init, KnownOps, Known
<1>2. QED
  BY <1>1, FS_EmptySet, SizeAssumption DEF WithinQuota

LEMMA QuotaKept ==
  ASSUME WithinQuota, KnownOps' \subseteq KnownOps
  PROVE  WithinQuota'
<1>1. IsFiniteSet(KnownOps') /\ Cardinality(KnownOps') <= Cardinality(KnownOps)
  BY FS_Subset DEF WithinQuota
<1>2. Cardinality(KnownOps) \in Nat /\ Cardinality(KnownOps') \in Nat
  BY <1>1, FS_CardinalityType DEF WithinQuota
<1>3. QED
  BY <1>1, <1>2, SizeAssumption DEF WithinQuota

(* The count that claim() took stands until the directory is made.         *)
LEMMA QuotaAdded ==
  ASSUME TypeOK, AdmitInv, WithinQuota, NEW w \in Workers, MkGuard(w)
  PROVE  WithinQuota'
<1>1. KnownOps' = KnownOps \cup {req[w].op}
  <2>1. req[w].op \in Ops
    BY DEF MkGuard, TypeOK, WellFormed
  <2>2. root' = root /\ \A op \in Ops : guard'[op].dir = (op = req[w].op \/ guard[op].dir)
    BY <2>1 DEF MkGuard, TypeOK, Anchor
  <2>3. QED
    BY <2>1, <2>2 DEF KnownOps, Known
<1>2. Cardinality(KnownOps) < MaxOperations /\ req[w].op \notin KnownOps
  BY DEF MkGuard, AdmitInv, KnownOps
<1>3. IsFiniteSet(KnownOps') /\ Cardinality(KnownOps') = Cardinality(KnownOps) + 1
  BY <1>1, <1>2, FS_AddElement DEF WithinQuota
<1>4. Cardinality(KnownOps) \in Nat
  BY FS_CardinalityType DEF WithinQuota
<1>5. QED
  BY <1>2, <1>3, <1>4, SizeAssumption DEF WithinQuota

(* The store never knows more operations than its quota, for any quota and *)
(* any number of requests that claim at the same time.                     *)
THEOREM OperationsAreBounded == Spec => []OperationsBounded
<1>1. Init => WithinQuota
  BY QuotaInitially
<1>2. TypeOK /\ FileInv /\ AdmitInv /\ WithinQuota /\ [Next]_vars => WithinQuota'
  <2> SUFFICES ASSUME TypeOK, FileInv, AdmitInv, WithinQuota, [Next]_vars
               PROVE  WithinQuota'
    OBVIOUS
  <2>1. CASE UNCHANGED vars
    <3>1. KnownOps' = KnownOps
      BY <2>1, SameInventory DEF vars, store
    <3>2. QED
      BY <3>1, QuotaKept
  <2>2. QED
    BY <2>1, SameOperations, QuotaAdded, QuotaKept
<1>3. WithinQuota => OperationsBounded
  BY DEF WithinQuota, OperationsBounded
<1>4. QED
  BY <1>1, <1>2, <1>3, TypeCorrect, FilesConsistent, AdmissionDecided, PTL DEF Spec

-----------------------------------------------------------------------------
(* The store implements the ledger.                                        *)

(* What the ledger sees of the files, of the calls and of the answers.     *)
LEMMA SameFiles ==
  ASSUME NEW op \in Ops,
         guard'[op].claim \in Record <=> guard[op].claim \in Record,
         guard'[op].mark \in Record <=> guard[op].mark \in Record,
         guard[op].claim \in Record => root'[op].record = root[op].record
  PROVE  LedgerStatus(op)' = LedgerStatus(op) /\ LedgerBound(op)' = LedgerBound(op)
BY DEF LedgerStatus, LedgerBound

LEMMA SameAnswers ==
  ASSUME NEW w \in Workers,
         \/ req'[w] = req[w]
         \/ /\ req[w].pc # "reply" \/ req[w].reply # "completed"
            /\ req'[w].pc # "reply" \/ req'[w].reply # "completed"
  PROVE  LedgerAnswer(w)' = LedgerAnswer(w)
BY DEF LedgerAnswer

LEMMA LedgerStutters ==
  ASSUME calls' = calls,
         \A op \in Ops : LedgerStatus(op)' = LedgerStatus(op) /\ LedgerBound(op)' = LedgerBound(op),
         \A w \in Workers : LedgerAnswer(w)' = LedgerAnswer(w)
  PROVE  UNCHANGED Ledger!vars
BY DEF Ledger!vars

(* The ledger binds an operation when the claim file is complete.          *)
LEMMA ClaimRefined ==
  ASSUME TypeOK, FileInv, NEW w \in Workers, WriteClaim(w)
  PROVE  [Ledger!Next]_(Ledger!vars)
<1>1. PICK o \in Ops : o = req[w].op
  BY DEF TypeOK, WellFormed, WriteClaim
<1>2. req[w].input \in Inputs /\ req[w].owner \in Owners /\ req[w].pc = "anchor"
  BY DEF TypeOK, WellFormed, WriteClaim, ClaimWrites
<1>3. Record0(w) \in Record /\ Record0(w).resp = Nil /\ Torn \notin Record /\ Nil \notin Record
  BY <1>2, Records DEF Record0
<1>4. Claimant(w) /\ Progress(w)
  BY <1>2 DEF FileInv, Claimant
<1>5. guard[o].claim = Nil /\ guard[o].mark = Nil /\ root[o].record = Record0(w)
  BY <1>1, <1>2, <1>4 DEF Progress, ClaimWrites
<1>6. PICK content \in {Record0(w), Torn} :
        /\ guard' = [guard EXCEPT ![o] = [@ EXCEPT !.claim = content]]
        /\ IF content = Torn THEN Leave(w, "reply", "error", Nil) ELSE Leave(w, "call", "none", Nil)
  BY <1>1 DEF WriteClaim
<1>7. /\ \A op \in Ops : op # o => guard'[op] = guard[op]
      /\ guard'[o].claim = content /\ guard'[o].mark = Nil
      /\ root' = root /\ calls' = calls
  BY <1>5, <1>6 DEF WriteClaim, TypeOK, Anchor
<1>8. \A v \in Workers : LedgerAnswer(v)' = LedgerAnswer(v)
  <2>1. req'[w].pc = "release"
    BY <1>6, Moves
  <2>2. \A v \in Workers : v # w => req'[v] = req[v]
    BY <1>6 DEF Leave, TypeOK
  <2>3. QED
    BY <1>2, <2>1, <2>2, SameAnswers
<1>9. \A op \in Ops : op # o => LedgerStatus(op)' = LedgerStatus(op) /\ LedgerBound(op)' = LedgerBound(op)
  BY <1>7, SameFiles
<1>10. CASE content = Torn
  <2>1. LedgerStatus(o)' = LedgerStatus(o) /\ LedgerBound(o)' = LedgerBound(o)
    BY <1>3, <1>5, <1>7, <1>10, SameFiles
  <2>2. QED
    BY <1>7, <1>8, <1>9, <2>1, LedgerStutters
<1>11. CASE content = Record0(w)
  <2>1. LedgerStatus(o) = "absent" /\ LedgerStatus(o)' = "running"
    BY <1>3, <1>5, <1>7, <1>11 DEF LedgerStatus
  <2>2. LedgerBound(o)' = [owner |-> req[w].owner, input |-> req[w].input, resp |-> Nil]
    BY <1>3, <1>5, <1>7, <1>11 DEF LedgerBound, Record0
  <2>3. Ledger!Claim(o, req[w].owner, req[w].input)
    BY <1>7, <1>8, <1>9, <2>1, <2>2 DEF Ledger!Claim
  <2>4. QED
    BY <1>2, <2>3 DEF Ledger!Next
<1>12. QED
  BY <1>10, <1>11

(* It completes the operation with the rename of the receipt.              *)
LEMMA RenameRefined ==
  ASSUME TypeOK, FileInv, NEW w \in Workers, Rename(w)
  PROVE  Ledger!Next
<1>1. PICK o \in Ops : o = req[w].op
  BY DEF TypeOK, WellFormed, Rename
<1>2. req[w].input \in Inputs /\ req[w].owner \in Owners /\ req[w].pc = "rename" /\ req[w].resp \in Responses
  BY DEF TypeOK, WellFormed, Rename, CompleteWrites
<1>3. /\ Record0(w) \in Record /\ Record0(w).resp = Nil /\ Torn \notin Record /\ Nil \notin Record
      /\ Completed(w) = [Record0(w) EXCEPT !.resp = req[w].resp] /\ Completed(w).resp # Nil
  BY <1>2, Records, NilAssumption DEF Record0, Completed
<1>4. Claimant(w) /\ Progress(w)
  BY <1>2 DEF FileInv, Claimant, CompleteWrites
<1>5. guard[o].claim = Record0(w) /\ guard[o].mark = Nil /\ root[o].record = Record0(w)
      /\ root[o].tmp = Completed(w)
  BY <1>1, <1>2, <1>4 DEF Progress, CompleteWrites
<1>6. /\ \A op \in Ops : op # o => root'[op] = root[op]
      /\ root'[o].record = Completed(w) /\ guard' = guard /\ calls' = calls
  BY <1>1, <1>5 DEF Rename, TypeOK, Receipt
<1>7. \A v \in Workers : LedgerAnswer(v)' = LedgerAnswer(v)
  <2>1. req'[w].pc = "release" /\ \A v \in Workers : v # w => req'[v] = req[v]
    BY Moves DEF Rename, Leave, TypeOK
  <2>2. QED
    BY <1>2, <2>1, SameAnswers
<1>8. \A op \in Ops : op # o => LedgerStatus(op)' = LedgerStatus(op) /\ LedgerBound(op)' = LedgerBound(op)
  BY <1>6, SameFiles
<1>9. /\ LedgerStatus(o) = "running" /\ LedgerStatus(o)' = "completed"
      /\ LedgerBound(o) = Record0(w) /\ LedgerBound(o)' = [Record0(w) EXCEPT !.resp = req[w].resp]
  BY <1>3, <1>5, <1>6 DEF LedgerStatus, LedgerBound
<1>10. Ledger!Complete(o, req[w].resp)
  BY <1>6, <1>7, <1>8, <1>9 DEF Ledger!Complete
<1>11. QED
  BY <1>2, <1>10 DEF Ledger!Next

LEMMA QuarantineRefined ==
  ASSUME TypeOK, NEW o \in Ops, Quarantine(o)
  PROVE  [Ledger!Next]_(Ledger!vars)
<1>1. PICK content \in {root[o].record, Torn} : guard' = [guard EXCEPT ![o] = [@ EXCEPT !.mark = content]]
  BY DEF Quarantine
<1>2. /\ \A op \in Ops : op # o => guard'[op] = guard[op]
      /\ guard'[o].claim = guard[o].claim /\ guard'[o].mark = content
      /\ UNCHANGED <<root, req, calls>>
  BY <1>1 DEF Quarantine, TypeOK, Anchor
<1>3. /\ guard[o].claim \in Record /\ root[o].record \in Record /\ root[o].record.resp = Nil
      /\ guard[o].mark = Nil /\ Nil \notin Record /\ Torn \notin Record
  BY Records DEF Quarantine, Running, Readable
<1>4. \A w \in Workers : LedgerAnswer(w)' = LedgerAnswer(w)
  BY <1>2, SameAnswers
<1>5. \A op \in Ops : op # o => LedgerStatus(op)' = LedgerStatus(op) /\ LedgerBound(op)' = LedgerBound(op)
  BY <1>2, SameFiles
<1>6. LedgerBound(o)' = LedgerBound(o) /\ LedgerStatus(o) = "running"
  BY <1>2, <1>3 DEF LedgerBound, LedgerStatus
<1>7. CASE content = Torn
  <2>1. LedgerStatus(o)' = LedgerStatus(o)
    BY <1>2, <1>3, <1>7 DEF LedgerStatus
  <2>2. QED
    BY <1>2, <1>4, <1>5, <1>6, <2>1, LedgerStutters
<1>8. CASE content = root[o].record
  <2>1. LedgerStatus(o)' = "uncertain"
    BY <1>2, <1>3, <1>8 DEF LedgerStatus
  <2>2. Ledger!Quarantine(o)
    BY <1>2, <1>4, <1>5, <1>6, <2>1 DEF Ledger!Quarantine
  <2>3. QED
    BY <2>2 DEF Ledger!Next
<1>9. QED
  BY <1>7, <1>8

LEMMA CallRefined ==
  ASSUME TypeOK, FileInv, CallInv, NEW w \in Workers, CallProvider(w)
  PROVE  Ledger!Next
<1>1. PICK o \in Ops : o = req[w].op
  BY DEF TypeOK, WellFormed, CallProvider
<1>2. req[w].pc = "call" /\ req[w].input \in Inputs /\ calls[o] = 0
  BY <1>1 DEF CallProvider, CallInv, Entitled, TypeOK, WellFormed
<1>3. Claimant(w) /\ Progress(w)
  BY <1>2 DEF FileInv, Claimant
<1>4. /\ guard[o].claim = Record0(w) /\ root[o].record = Record0(w)
      /\ Record0(w) \in Record /\ Record0(w).resp = Nil
  BY <1>1, <1>2, <1>3, Records DEF Progress, Record0
<1>5. LedgerStatus(o) \in {"running", "uncertain"}
  BY <1>4 DEF LedgerStatus
<1>6. calls' = [calls EXCEPT ![o] = 1] /\ UNCHANGED <<guard, root>>
  BY <1>1, <1>2 DEF CallProvider
<1>7. \A v \in Workers : LedgerAnswer(v)' = LedgerAnswer(v)
  <2>1. req'[w].pc = "respond" /\ \A v \in Workers : v # w => req'[v] = req[v]
    BY DEF CallProvider, Goto, TypeOK, Request
  <2>2. QED
    BY <1>2, <2>1, SameAnswers
<1>8. \A op \in Ops : LedgerStatus(op)' = LedgerStatus(op) /\ LedgerBound(op)' = LedgerBound(op)
  BY <1>6, SameFiles
<1>9. Ledger!Send(o)
  BY <1>2, <1>5, <1>6, <1>7, <1>8 DEF Ledger!Send
<1>10. QED
  BY <1>9 DEF Ledger!Next

(* A completed answer goes out when the lock is released.                  *)
LEMMA ReleaseRefined ==
  ASSUME TypeOK, FileInv, ReplyInv, NEW w \in Workers, Release(w)
  PROVE  [Ledger!Next]_(Ledger!vars)
<1>1. /\ UNCHANGED <<guard, root, calls>> /\ req[w].pc = "release"
      /\ \A v \in Workers : v # w => req'[v] = req[v]
      /\ req'[w] = [req[w] EXCEPT !.pc = req[w].next]
  BY DEF Release, Goto, TypeOK
<1>2. /\ req'[w].pc = req[w].next /\ req'[w].op = req[w].op /\ req'[w].owner = req[w].owner
      /\ req'[w].resp = req[w].resp /\ req'[w].reply = req[w].reply
  BY <1>1 DEF TypeOK, Request
<1>3. \A op \in Ops : LedgerStatus(op)' = LedgerStatus(op) /\ LedgerBound(op)' = LedgerBound(op)
  BY <1>1, SameFiles
<1>4. CASE req[w].next # "reply" \/ req[w].reply # "completed"
  <2>1. \A v \in Workers : LedgerAnswer(v)' = LedgerAnswer(v)
    BY <1>1, <1>2, <1>4, SameAnswers
  <2>2. QED
    BY <1>1, <1>3, <2>1, LedgerStutters
<1>5. CASE req[w].next = "reply" /\ req[w].reply = "completed"
  <2>1. Delivered(w)
    BY <1>5 DEF ReplyInv
  <2>2. PICK o \in Ops : o = req[w].op
    BY <1>1 DEF TypeOK, WellFormed
  <2>3. Consistent(o) /\ root[o].record \in ClosedRecord /\ root[o].record.resp \in Responses
        /\ root[o].record.owner \in Owners /\ root[o].record.resp # Nil
    BY <2>1, <2>2, NilAssumption DEF FileInv, Delivered, ClosedRecord
  <2>4. LedgerStatus(o) = "completed" /\ LedgerBound(o) = root[o].record
    BY <2>3 DEF Consistent, LedgerStatus, LedgerBound
  <2>5. \A v \in Workers : v # w => LedgerAnswer(v)' = LedgerAnswer(v)
    BY <1>1, SameAnswers
  <2>6. LedgerAnswer(w)' = [op |-> o, owner |-> req[w].owner, resp |-> req[w].resp]
    BY <1>2, <1>5, <2>2 DEF LedgerAnswer
  <2>7. Ledger!Answer(w, o, req[w].owner, req[w].resp)
    BY <1>1, <1>3, <2>1, <2>2, <2>4, <2>5, <2>6 DEF Ledger!Answer, Delivered
  <2>8. req[w].owner \in Owners /\ req[w].resp \in Responses
    BY <2>1, <2>2, <2>3 DEF Delivered
  <2>9. QED
    BY <2>7, <2>8 DEF Ledger!Next
<1>6. QED
  BY <1>4, <1>5

(* Connections close when the response is out or their process dies.       *)
LEMMA CloseRefined ==
  ASSUME NEW ws \in SUBSET Workers, UNCHANGED <<guard, root, calls>>,
         \A v \in Workers : req'[v] = IF v \in ws THEN IdleRequest ELSE req[v]
  PROVE  Ledger!Next
<1>1. \A v \in Workers : LedgerAnswer(v)' = IF v \in ws THEN Nil ELSE LedgerAnswer(v)
  BY DEF LedgerAnswer, IdleRequest
<1>2. \A op \in Ops : LedgerStatus(op)' = LedgerStatus(op) /\ LedgerBound(op)' = LedgerBound(op)
  BY SameFiles
<1>3. Ledger!Close(ws)
  BY <1>1, <1>2 DEF Ledger!Close
<1>4. QED
  BY <1>3 DEF Ledger!Next

(* The other steps of a request are none of the ledger's: it sees neither  *)
(* the directories, nor an unbound receipt, nor the temporary file, nor a  *)
(* request that has no completed answer.                                   *)
LEMMA ServeRefined ==
  ASSUME TypeOK, LockInv, FileInv, CallInv, ReplyInv, NEW w \in Workers, Serve(w)
  PROVE  [Ledger!Next]_(Ledger!vars)
<1> USE DEF ClaimWrites, CompleteWrites, Sections, Inner
<1>1. CASE WriteClaim(w) \/ Rename(w) \/ CallProvider(w) \/ Release(w)
  BY <1>1, ClaimRefined, RenameRefined, CallRefined, ReleaseRefined
<1>2. CASE ~(WriteClaim(w) \/ Rename(w) \/ CallProvider(w) \/ Release(w))
  <2>1. calls' = calls
    BY <1>2
    DEF Serve, LockStep, ClaimStep, CallStep, CompleteStep, Acquire, LockTimeout, WriteHolder, Fault,
        ReleaseFails, Read, TakeSlot, Claim, Reread, MkGuard, MkRoot, WriteRecord,
        HandlerThrows, Respond, Complete, WriteTmp, WriteDone
  <2>2. \A op \in Ops : LedgerStatus(op)' = LedgerStatus(op) /\ LedgerBound(op)' = LedgerBound(op)
    <3>1. CASE UNCHANGED store
      BY <3>1, SameFiles DEF store
    <3>2. CASE MkGuard(w) \/ WriteDone(w)
      <4>1. \A op \in Ops : guard'[op].claim = guard[op].claim /\ guard'[op].mark = guard[op].mark
        BY <3>2 DEF MkGuard, WriteDone, TypeOK, Anchor
      <4>2. QED
        BY <3>2, <4>1, SameFiles DEF MkGuard, WriteDone
    <3>3. CASE MkRoot(w) \/ WriteTmp(w)
      <4>1. \A op \in Ops : root'[op].record = root[op].record
        BY <3>3 DEF MkRoot, WriteTmp, TypeOK, Receipt
      <4>2. QED
        BY <3>3, <4>1, SameFiles DEF MkRoot, WriteTmp
    <3>4. CASE WriteRecord(w)
      <4>1. req[w].op \in Ops /\ Claimant(w) /\ Progress(w) /\ req[w].pc = "record"
        BY <3>4 DEF WriteRecord, Claimant, FileInv, TypeOK, WellFormed
      <4>2. guard[req[w].op].claim \notin Record
        BY <4>1, Records DEF Progress
      <4>3. guard' = guard /\ \A op \in Ops : op # req[w].op => root'[op] = root[op]
        BY <3>4 DEF WriteRecord, TypeOK
      <4>4. QED
        BY <4>2, <4>3, SameFiles
    <3>5. QED
      BY <1>2, <3>1, <3>2, <3>3, <3>4
      DEF Serve, LockStep, ClaimStep, CallStep, CompleteStep, Acquire, LockTimeout, WriteHolder, Fault,
          ReleaseFails, Read, TakeSlot, Claim, Reread, HandlerThrows, Respond, Complete, store
  <2>3. \A v \in Workers : LedgerAnswer(v)' = LedgerAnswer(v)
    <3>1. \A v \in Workers : v # w => req'[v] = req[v]
      BY DEF Serve, LockStep, ClaimStep, CallStep, CompleteStep, Acquire, LockTimeout, WriteHolder, Fault,
             Release, ReleaseFails, Read, TakeSlot, Claim, Reread, MkGuard, MkRoot, WriteRecord, WriteClaim,
             CallProvider, HandlerThrows, Respond, Complete, WriteTmp, WriteDone, Rename, Goto, Answer,
             Leave, TypeOK
    <3>2. req[w].pc # "reply"
      BY DEF Serve, LockStep, ClaimStep, CallStep, CompleteStep, Acquire, LockTimeout, WriteHolder, Fault,
             Release, ReleaseFails, Read, TakeSlot, Claim, Reread, MkGuard, MkRoot, WriteRecord, WriteClaim,
             CallProvider, HandlerThrows, Respond, Complete, WriteTmp, WriteDone, Rename, Inside, LockInv
    <3>3. req'[w].pc # "reply" \/ req'[w].reply # "completed"
      <4>1. CASE LockStep(w)
        BY <1>2, <3>2, <4>1, Moves
        DEF LockStep, Acquire, LockTimeout, WriteHolder, Fault, ReleaseFails
      <4>2. CASE ClaimStep(w)
        BY <1>2, <4>2, Moves DEF ClaimStep, Read, TakeSlot, Claim, Reread, MkGuard, MkRoot, WriteRecord, PCs
      <4>3. CASE CallStep(w) \/ CompleteStep(w)
        BY <1>2, <4>3, Moves
        DEF CallStep, HandlerThrows, CompleteStep, Complete, WriteTmp, WriteDone, PCs
      <4>4. QED
        BY <4>1, <4>2, <4>3 DEF Serve
    <3>4. QED
      BY <3>1, <3>2, <3>3, SameAnswers
  <2>4. QED
    BY <2>1, <2>2, <2>3, LedgerStutters
<1>3. QED
  BY <1>1, <1>2

LEMMA NextRefined ==
  ASSUME TypeOK, LockInv, FileInv, CallInv, ReplyInv, [Next]_vars
  PROVE  [Ledger!Next]_(Ledger!vars)
<1>1. ASSUME UNCHANGED <<guard, root, calls>>,
             \A w \in Workers : LedgerAnswer(w)' = LedgerAnswer(w)
      PROVE  UNCHANGED Ledger!vars
  <2>1. \A op \in Ops : LedgerStatus(op)' = LedgerStatus(op) /\ LedgerBound(op)' = LedgerBound(op)
    BY <1>1, SameFiles
  <2>2. QED
    BY <1>1, <2>1, LedgerStutters
<1>2. ASSUME NEW w \in Workers, NEW op \in Ops, NEW o \in Owners, NEW i \in Inputs \cup {Nil},
             Submit(w, op, o, i)
      PROVE  UNCHANGED Ledger!vars
  <2>1. req'[w] = [IdleRequest EXCEPT !.pc = "read", !.op = op, !.owner = o, !.input = i]
    BY <1>2 DEF Submit, TypeOK
  <2>2. req'[w].pc = "read" /\ req[w].pc = "idle" /\ \A v \in Workers : v # w => req'[v] = req[v]
    BY <1>2, <2>1 DEF Submit, IdleRequest, TypeOK
  <2>3. QED
    BY <1>1, <1>2, <2>2, SameAnswers DEF Submit
<1>3. ASSUME NEW w \in Workers, Disconnect(w)
      PROVE  Ledger!Next
  <2>1. \A v \in Workers : req'[v] = IF v \in {w} THEN IdleRequest ELSE req[v]
    BY <1>3 DEF Disconnect, TypeOK
  <2>2. QED
    BY <1>3, <2>1, CloseRefined DEF Disconnect
<1>4. ASSUME NEW p \in Procs, Crash(p)
      PROVE  Ledger!Next
  <2>1. WorkersOf(p) \in SUBSET Workers
    BY DEF WorkersOf
  <2>2. QED
    BY <1>4, <2>1, CloseRefined DEF Crash
<1>5. ASSUME NEW p \in Procs, Start(p)
      PROVE  UNCHANGED Ledger!vars
  BY <1>1, <1>5, SameAnswers DEF Start
<1>6. CASE Operate
  <2>1. CASE \E op \in Ops : Quarantine(op)
    BY <2>1, QuarantineRefined
  <2>2. CASE ~\E op \in Ops : Quarantine(op)
    <3>1. UNCHANGED <<guard, root, calls, req>>
      BY <1>6, <2>2 DEF Operate, UnlockHold, UnlockRelease, BeginMaintenance, VerifyRecovery,
                        EndMaintenance, CrashMaintenance
    <3>2. QED
      BY <1>1, <3>1, SameAnswers
  <2>3. QED
    BY <2>1, <2>2
<1>7. CASE UNCHANGED vars
  BY <1>1, <1>7, SameAnswers DEF vars
<1>8. QED
  BY <1>2, <1>3, <1>4, <1>5, <1>6, <1>7, ServeRefined DEF Next

LEMMA InitRefined == Init => Ledger!Init
<1> SUFFICES ASSUME Init
             PROVE  Ledger!Init
  OBVIOUS
<1>1. \A op \in Ops : guard[op].claim = Nil /\ Nil \notin Record
  BY NilAssumption DEF Init
<1>2. \A op \in Ops : LedgerStatus(op) = "absent" /\ LedgerBound(op) = Nil
  BY <1>1 DEF LedgerStatus, LedgerBound
<1>3. \A w \in Workers : LedgerAnswer(w) = Nil
  BY DEF Init, LedgerAnswer, IdleRequest
<1>4. QED
  BY <1>2, <1>3 DEF Init, Ledger!Init

(* Files, locks, crashes and recovery commands implement the promise the   *)
(* ledger makes to the sessions: one binding, one call, one outcome, told  *)
(* to its owner only.                                                      *)
THEOREM StoreImplementsLedger == Spec => ImplementsLedger
<1>1. Init => Ledger!Init
  BY InitRefined
<1>2. TypeOK /\ LockInv /\ FileInv /\ CallInv /\ ReplyInv /\ [Next]_vars => [Ledger!Next]_(Ledger!vars)
  BY NextRefined
<1>3. QED
  BY <1>1, <1>2, TypeAndLock, FilesConsistent, CallsCounted, RepliesSettled, PTL
  DEF Spec, ImplementsLedger, Ledger!Spec
=============================================================================
