---------------------------- MODULE QuestionRuns ----------------------------
(***************************************************************************)
(* One question to the service, from its plan to its answer, and the run   *)
(* record that each request leaves: what was asked, the audit of the one   *)
(* call to the model, and the events in their order.  The browser keeps a  *)
(* run only if validateQuestionRun() finds everything in it consistent; a  *)
(* run that does not pass is paid for and lost.                            *)
(*                                                                         *)
(* Requests carry the identifier of the one task modelled, the execution   *)
(* that of its plan.  The files of the operation store, its crashes and    *)
(* recovery are OperationStore's, the pending pointer of the browser is    *)
(* QuestionClient's; here a claim and a completion are a step each.        *)
(* Requests refused for their form, which change nothing, are left out.    *)
(***************************************************************************)
EXTENDS Integers, Sequences

CONSTANTS
  Asks,       \* requests being served
  Questions,  \* what is asked: [yoy, closed], for a change on last year,
              \*   for something that is not open
  Plans,      \* what the model may take it for, see Objectionable
  Snapshots,  \* the versions that may be active when it is executed: those
              \*   of another report, those that pass, or none
  DraftLife,  \* how long a signed plan may be executed, in minutes
  MaxMinute,  \* bound: the time that passes
  Garbled,    \* a text that is no plan and no explanation
  Nil

(* questionPlanSchema: what is a plan; the company and the period may be   *)
(* others than the supported ones, or the model could not say so.          *)
QuestionIntents == {"CHANGE_EXPLAIN", "EVIDENCE_AUDIT", "DECISION_IMPACT"}
QuestionPlan ==
  [intent : QuestionIntents \cup {"OUT_OF_SCOPE"},
   company : {"here", "elsewhere"}, period : {"2026Q1", "2025Q4"},
   comparison : {"2025Q1", "2024Q4", Nil}, names : SUBSET {"node", "evidence"}]

ASSUME RunsAssumption ==
  /\ Plans \subseteq QuestionPlan
  /\ Snapshots \subseteq {"other", "ready", Nil}
  /\ DraftLife \in Nat /\ MaxMinute \in Nat
  /\ Garbled \notin QuestionPlan /\ Nil \notin QuestionPlan
  /\ Nil \notin {"plan", "execute", "complete", "partial", "MODEL_BUDGET_RECOVERY_REQUIRED"}

VARIABLES
  minute,    \* the wall clock
  over,      \* the review has ended, and every session with it
  owner,     \* the session of the browser
  question,  \* the question asked
  draft,     \* the signed plan the browser was given, or Nil
  receipt,   \* receipt[phase]: what the operation store has of the task; it
             \*   belongs to nobody (0) before it is claimed
  busy,      \* the model slot of the process is taken
  ask,       \* ask[q]: request q, up to its reply
  sent       \* history: the phases whose question went to the provider

runsVars == <<minute, over, owner, question, draft, receipt, busy, ask, sent>>

Phases == {"plan", "execute"}
NoRun == [phase |-> Nil]
Idle == [at |-> "idle", phase |-> Nil, input |-> Nil, draft |-> Nil, owner |-> Nil,
         run |-> NoRun, paid |-> "no", status |-> 0]
Unclaimed == [owner |-> 0, input |-> Nil, draft |-> Nil, run |-> NoRun, status |-> 0]

RunsInit ==
  /\ minute = 0 /\ over = FALSE /\ owner = 1
  /\ question \in Questions
  /\ draft = Nil /\ receipt = [p \in Phases |-> Unclaimed]
  /\ busy = FALSE
  /\ ask = [q \in Asks |-> Idle]
  /\ sent = {}

-----------------------------------------------------------------------------
(* Contracts and evidence.                                                 *)

Supported == "2026Q1"
YearBefore == [p \in {"2026Q1", "2025Q4"} |-> IF p = "2026Q1" THEN "2025Q1" ELSE "2024Q4"]

(* The identifiers a plan may name, of nodes and of a report's evidence.   *)
QuestionReferenceIds(period) == IF period = Supported THEN {"node", "evidence"} ELSE {"node"}

(* A plan has the schema's fields, with values of the schema, or is none.  *)
ValidateQuestionPlan(output) == output \in QuestionPlan

(* The reasons of makeResearchContract against a task.                     *)
Objectionable(asked, plan) ==
  \/ plan.intent = "OUT_OF_SCOPE"
  \/ plan.company # "here"
  \/ plan.period # Supported
  \/ asked.yoy /\ plan.comparison = Nil
  \/ plan.comparison \notin {Nil, YearBefore[plan.period]}
  \/ ~(plan.names \subseteq QuestionReferenceIds(plan.period)) \/ plan.names = {}
  \/ asked.closed

MakeResearchContract(asked, plan) ==
  [asked |-> asked, plan |-> plan,
   status |-> IF Objectionable(asked, plan) THEN "OUT_OF_SCOPE" ELSE "CONTRACT_DRAFTED"]

(* The active version is checked by replaying the chain (buildMemoContext) *)
(* and must be of the contract's report.                                   *)
ResolveQuestionEvidence(contract, snapshot) ==
  IF contract.status # "CONTRACT_DRAFTED" THEN "BLOCKED"
  ELSE IF snapshot = Nil THEN "MATERIALS_REQUIRED"
  ELSE IF snapshot = "ready" THEN "READY" ELSE "BLOCKED"

(* validateQuestionOutput and questionAnswerState.                         *)
Explanations == {"complete", "partial"}
AnswerState(explanation) == IF explanation = "complete" THEN "ANSWER_READY" ELSE "PARTIAL"

(* What a plan becomes, and what an explanation does.                      *)
ResearchContract == {MakeResearchContract(asked, plan) : asked \in Questions, plan \in QuestionPlan}
AnswerPackage == [explanation : Explanations, snapshot : Snapshots]

ASSUME NilAssumption == Nil \notin ResearchContract \cup AnswerPackage

-----------------------------------------------------------------------------
(* Run records.                                                            *)

NewRun(phase) ==
  [phase |-> phase, question |-> question, status |-> "BLOCKED", created |-> minute,
   contract |-> Nil, calls |-> <<>>, events |-> <<>>, answer |-> Nil]

AddEvent(run, name, details) ==
  [run EXCEPT !.events = Append(@, [event |-> name, details |-> details])]

(* QuestionModelAudit, of a call that has not been answered.               *)
NewCall(phase) == [phase |-> phase, output |-> Nil, failure |-> Nil]

(* modelCall, up to the reservation.                                       *)
Requested(run) ==
  AddEvent([run EXCEPT !.calls = <<NewCall(run.phase)>>], "model_requested", run.phase)

Heard(run, output, failure) ==
  [run EXCEPT !.calls = <<[@[1] EXCEPT !.output = output, !.failure = failure]>>]

Failed(run, code) == Heard(run, run.calls[1].output, code)

(* What the event says of the call: all but the text of the model.         *)
Returned(run) == AddEvent(run, "model_returned", [run.calls[1] EXCEPT !.output = Nil])

(* A plan becomes a contract, if it is one.                                *)
Planned(run) ==
  LET call == run.calls[1] IN
  IF call.failure # Nil \/ ~ValidateQuestionPlan(call.output) THEN AddEvent(run, "contract_failed", Nil)
  ELSE LET contract == MakeResearchContract(run.question, call.output)
       IN AddEvent([run EXCEPT !.contract = contract, !.status = contract.status],
                   "scope_gate_result", contract)

(* An explanation becomes an answer, if the validators accept it.          *)
Explained(run, snapshot) ==
  LET call == run.calls[1] IN
  IF call.failure # Nil \/ call.output \notin Explanations
  THEN AddEvent(run, "explanation_failed", Nil)
  ELSE AddEvent([run EXCEPT !.answer = [explanation |-> call.output, snapshot |-> snapshot],
                            !.status = AnswerState(call.output)],
                "answer_generated", call.output)

(* An execution keeps the plan it was confirmed with, and the snapshot.    *)
Confirmed(signed, snapshot) ==
  LET run == [NewRun("execute") EXCEPT !.contract = signed.run.contract]
      confirmed == AddEvent(run, "contract_confirmed",
                            [plan |-> signed.run, contract |-> run.contract])
  IN AddEvent(AddEvent(confirmed, "plan_record", signed.run), "snapshot_supplied", snapshot)

Gated(run, snapshot) ==
  AddEvent([run EXCEPT !.status = ResolveQuestionEvidence(run.contract, snapshot)],
           "evidence_gate_result", Nil)

Verified(run) ==
  AddEvent(AddEvent(AddEvent(run, "source_resolved", Nil), "tools_completed", Nil),
           "verification_result", Nil)

(* The status a run is sent with: the budget's refusals have their own.    *)
BudgetStatus(code) ==
  CASE code = "MODEL_BUDGET_INPUT_EXCEEDED" -> 422
    [] code = "MODEL_BUDGET_BUSY" -> 429
    [] code = "MODEL_BUDGET_RECOVERY_REQUIRED" -> 503
    [] OTHER -> 200
RunStatus(run) == IF run.calls = <<>> THEN 200 ELSE BudgetStatus(run.calls[1].failure)

-----------------------------------------------------------------------------
(* validateQuestionRun, in the browser.                                    *)

Named(run, name) == {i \in DOMAIN run.events : run.events[i].event = name}
Once(run, name) == \E i \in DOMAIN run.events : Named(run, name) = {i}
Details(run, name) == run.events[CHOOSE i \in Named(run, name) : TRUE].details

CallsMatchEvents(run) ==
  /\ Len(run.calls) <= 1
  /\ run.calls # <<>> =>
       /\ Once(run, "model_requested") /\ Once(run, "model_returned")
       /\ Details(run, "model_requested") = run.calls[1].phase
       /\ Details(run, "model_returned") = [run.calls[1] EXCEPT !.output = Nil]

(* The text of the model is there, and the call did not fail.              *)
Spoke(run) == run.calls # <<>> /\ run.calls[1].output # Nil /\ run.calls[1].failure = Nil

AnswerHolds(run) ==
  IF run.answer = Nil THEN run.status \notin {"ANSWER_READY", "PARTIAL"}
  ELSE /\ run.contract # Nil
       /\ ResolveQuestionEvidence(run.contract, run.answer.snapshot) = "READY"
       /\ Spoke(run) /\ run.calls[1].output \in Explanations
       /\ run.answer.explanation = run.calls[1].output
       /\ run.status = AnswerState(run.answer.explanation)

ValidPlanRun(run) ==
  /\ run.events # <<>> /\ run.phase = "plan"
  /\ CallsMatchEvents(run)
  /\ run.contract # Nil =>
       /\ Spoke(run) /\ ValidateQuestionPlan(run.calls[1].output)
       /\ run.contract = MakeResearchContract(run.question, run.calls[1].output)
       /\ run.status = run.contract.status
  /\ AnswerHolds(run)

ValidExecuteRun(run) ==
  /\ run.events # <<>> /\ run.phase = "execute"
  /\ CallsMatchEvents(run)
  /\ Once(run, "plan_record") /\ Once(run, "contract_confirmed")
  /\ LET original == Details(run, "plan_record")
         confirmed == Details(run, "contract_confirmed")
     IN /\ ValidPlanRun(original)
        /\ original.status = "CONTRACT_DRAFTED" /\ original.question = run.question
        /\ original.contract = run.contract
        /\ confirmed = [plan |-> original, contract |-> run.contract]
  /\ AnswerHolds(run)

ValidateQuestionRun(run) == IF run.phase = "plan" THEN ValidPlanRun(run) ELSE ValidExecuteRun(run)

-----------------------------------------------------------------------------
(* The requests.                                                           *)

(* Signed for the session that asks, and not too old.  The clock of this   *)
(* model is not set back, so no plan is from the future.                   *)
ValidDraft(signed, session) ==
  signed.owner = session /\ minute - signed.run.created <= DraftLife

Advance(q, here, next) ==
  /\ ask[q].at = here
  /\ ask' = [ask EXCEPT ![q] = next]

(* A reply without a run changes nothing.                                  *)
Refuse(q) == ask' = [ask EXCEPT ![q] = Idle]

(* A request without a session is refused before anything else.            *)
AskPlan(q) ==
  /\ ~over
  /\ Advance(q, "idle", [Idle EXCEPT !.at = "store", !.phase = "plan", !.input = question,
                                     !.owner = owner])
  /\ UNCHANGED <<minute, over, owner, question, draft, receipt, busy, sent>>

(* The signed plan is sent back with the active version.                   *)
Execution(snapshot) ==
  [Idle EXCEPT !.at = "store", !.phase = "execute", !.input = snapshot, !.owner = owner,
               !.draft = draft]

(* Variant: the evidence is looked at after the claim only.                *)
AskExecuteUngated(q, snapshot) ==
  /\ draft # Nil /\ ask[q].at = "idle"
  /\ IF ~over /\ ValidDraft(draft, owner)
     THEN Advance(q, "idle", Execution(snapshot))
     ELSE Refuse(q)
  /\ UNCHANGED <<minute, over, owner, question, draft, receipt, busy, sent>>

(* "Gate failures make zero provider requests and do not consume the signed*)
(* task": they are answered with a run that the store never sees.          *)
AskExecute(q, snapshot) ==
  /\ draft # Nil /\ ask[q].at = "idle"
  /\ IF over \/ ~ValidDraft(draft, owner) THEN Refuse(q)
     ELSE IF ResolveQuestionEvidence(draft.run.contract, snapshot) = "READY"
     THEN Advance(q, "idle", Execution(snapshot))
     ELSE Advance(q, "idle",
            [Execution(snapshot) EXCEPT !.at = "reply", !.status = 200,
                                        !.run = Gated(Confirmed(draft, snapshot), snapshot)])
  /\ UNCHANGED <<minute, over, owner, question, draft, receipt, busy, sent>>

(* What the store has already is replayed to its owner; a second request   *)
(* waits for the first, or for the slot; or the store is not in order.     *)
Replay(q) ==
  /\ ask[q].at = "store" /\ receipt[ask[q].phase].owner # 0
  /\ LET found == receipt[ask[q].phase] IN
       IF /\ found.owner = ask[q].owner /\ found.status # 0
          /\ found.input = ask[q].input /\ found.draft = ask[q].draft
       THEN Advance(q, "store",
              [ask[q] EXCEPT !.at = "reply", !.run = found.run, !.status = found.status])
       ELSE Refuse(q)
  /\ UNCHANGED <<minute, over, owner, question, draft, receipt, busy, sent>>

NotAdmitted(q) ==
  /\ ask[q].at = "store" /\ Refuse(q)
  /\ UNCHANGED <<minute, over, owner, question, draft, receipt, busy, sent>>

ClaimTask(q) ==
  /\ ask[q].at = "store" /\ receipt[ask[q].phase].owner = 0 /\ ~busy
  /\ Advance(q, "store", [ask[q] EXCEPT !.at = "core"])
  /\ busy' = TRUE
  /\ receipt' = [receipt EXCEPT ![ask[q].phase] =
       [owner |-> ask[q].owner, input |-> ask[q].input, draft |-> ask[q].draft,
        run |-> NoRun, status |-> 0]]
  /\ UNCHANGED <<minute, over, owner, question, draft, sent>>

(* core.POST up to the reservation.  It looks at the session, the draft and*)
(* the evidence again: the review may have ended since, or the draft have  *)
(* become too old, and that answer is the outcome of the task.             *)
BeginRun(q) ==
  /\ ask[q].at = "core"
  /\ LET signed == ask[q].draft
         snapshot == ask[q].input IN
     IF over
     THEN Advance(q, "core", [ask[q] EXCEPT !.at = "complete", !.status = 401])
     ELSE IF ask[q].phase = "plan"
     THEN Advance(q, "core",
            [ask[q] EXCEPT !.at = "reserve",
                           !.run = Requested(AddEvent(NewRun("plan"), "query_received", Nil))])
     ELSE IF ~ValidDraft(signed, ask[q].owner)
     THEN Advance(q, "core", [ask[q] EXCEPT !.at = "complete", !.status = 422])
     ELSE IF ResolveQuestionEvidence(signed.run.contract, snapshot) # "READY"
     THEN Advance(q, "core",
            [ask[q] EXCEPT !.at = "complete", !.status = 200,
                           !.run = Gated(Confirmed(signed, snapshot), snapshot)])
     ELSE Advance(q, "core",
            [ask[q] EXCEPT !.at = "reserve", !.run = Requested(Verified(Confirmed(signed, snapshot)))])
  /\ UNCHANGED <<minute, over, owner, question, draft, receipt, busy, sent>>

(* The budget reserves an attempt, or refuses before there is a request to *)
(* the provider.  BUSY stands for every code of a quota or a lock, which   *)
(* are sent as 429, RECOVERY_REQUIRED for the other ones of the budget (its*)
(* files are ModelBudget's), and the last for those of QUESTION_ACCEPTANCE_*)
(* BUDGET_MODE, which are no refusal of the budget and are sent as 200.    *)
BudgetRefusals ==
  {"MODEL_BUDGET_INPUT_EXCEEDED", "MODEL_BUDGET_BUSY", "MODEL_BUDGET_RECOVERY_REQUIRED",
   "QUESTION_INPUT_BUDGET_EXCEEDED"}

ReserveCall(q) ==
  /\ \/ Advance(q, "reserve", [ask[q] EXCEPT !.at = "call", !.paid = "reserved"])
     \/ \E code \in BudgetRefusals :
          Advance(q, "reserve", [ask[q] EXCEPT !.at = "settle", !.run = Failed(@, code)])
  /\ UNCHANGED <<minute, over, owner, question, draft, receipt, busy, sent>>

(* The provider's text, if there is one, and the verdict on the exchange:  *)
(* an incomplete or mismatched response may have brought a text as well.   *)
CallModel(q) ==
  /\ \E output \in {Garbled, Nil} \cup (IF ask[q].phase = "plan" THEN Plans ELSE Explanations) :
     \E failure \in {"PROVIDER_FAILED"} \cup (IF output = Nil THEN {} ELSE {Nil}) :
       Advance(q, "call", [ask[q] EXCEPT !.at = "settle", !.run = Heard(@, output, failure)])
  /\ sent' = sent \cup {ask[q].phase}
  /\ UNCHANGED <<minute, over, owner, question, draft, receipt, busy>>

Conclude(q, run) ==
  IF ask[q].phase = "plan" THEN Planned(run) ELSE Explained(run, ask[q].input)

(* Variant: what was returned is recorded before it is settled.            *)
SettleLate(q) ==
  /\ \E settles \in IF ask[q].paid = "reserved" THEN BOOLEAN ELSE {TRUE} :
     LET recorded == Returned(ask[q].run)
         run == IF settles THEN recorded ELSE Failed(recorded, "MODEL_BUDGET_RECOVERY_REQUIRED")
     IN Advance(q, "settle",
          [ask[q] EXCEPT !.at = "complete", !.run = Conclude(q, run), !.status = RunStatus(run),
                         !.paid = IF settles /\ @ = "reserved" THEN "settled" ELSE @])
  /\ UNCHANGED <<minute, over, owner, question, draft, receipt, busy, sent>>

(* The finally block: an attempt that cannot be settled makes the call a   *)
(* failed one, whatever it brought; then the event, then the conclusion.   *)
SettleCall(q) ==
  /\ \E settles \in IF ask[q].paid = "reserved" THEN BOOLEAN ELSE {TRUE} :
     LET settled == IF settles THEN ask[q].run
                    ELSE Failed(ask[q].run, "MODEL_BUDGET_RECOVERY_REQUIRED")
     IN Advance(q, "settle",
          [ask[q] EXCEPT !.at = "complete", !.run = Conclude(q, Returned(settled)),
                         !.status = RunStatus(settled),
                         !.paid = IF settles /\ @ = "reserved" THEN "settled" ELSE @])
  /\ UNCHANGED <<minute, over, owner, question, draft, receipt, busy, sent>>

(* The response is persisted and replayed, or the store fails; either way  *)
(* the slot is given back.                                                 *)
CompleteTask(q) ==
  /\ \/ /\ Advance(q, "complete", [ask[q] EXCEPT !.at = "reply"])
        /\ receipt' = [receipt EXCEPT ![ask[q].phase].run = ask[q].run,
                                       ![ask[q].phase].status = ask[q].status]
     \/ ask[q].at = "complete" /\ Refuse(q) /\ UNCHANGED receipt
  /\ busy' = FALSE
  /\ UNCHANGED <<minute, over, owner, question, draft, sent>>

(* The browser keeps the plan it is given a ticket for, until an execution *)
(* comes to more than a request for material; or the reply is lost, or     *)
(* another tab still has the plan.                                         *)
TakeReply(q) ==
  /\ ask[q].at = "reply" /\ Refuse(q)
  /\ LET run == ask[q].run IN
     draft' \in {draft} \cup
       CASE ask[q].phase = "plan" /\ run # NoRun /\ run.status = "CONTRACT_DRAFTED" ->
              {[run |-> run, owner |-> ask[q].owner]}
         [] ask[q].phase = "execute" /\ run # NoRun /\ run.status # "MATERIALS_REQUIRED" -> {Nil}
         [] OTHER -> {}
  /\ UNCHANGED <<minute, over, owner, question, receipt, busy, sent>>

(* Time passes, the visitor logs in again, and the review ends: sessions   *)
(* all expire at its deadline.                                             *)
MinutePasses ==
  /\ minute < MaxMinute
  /\ minute' = minute + 1
  /\ UNCHANGED <<over, owner, question, draft, receipt, busy, ask, sent>>

LogInAgain ==
  /\ owner = 1 /\ ~over
  /\ owner' = 2
  /\ UNCHANGED <<minute, over, question, draft, receipt, busy, ask, sent>>

ReviewEnds ==
  /\ ~over
  /\ over' = TRUE
  /\ UNCHANGED <<minute, owner, question, draft, receipt, busy, ask, sent>>

RunsNext ==
  \/ MinutePasses \/ LogInAgain \/ ReviewEnds
  \/ \E q \in Asks :
       \/ AskPlan(q) \/ Replay(q) \/ NotAdmitted(q) \/ ClaimTask(q) \/ BeginRun(q)
       \/ ReserveCall(q) \/ CallModel(q) \/ SettleCall(q) \/ CompleteTask(q) \/ TakeReply(q)
       \/ \E snapshot \in Snapshots : AskExecute(q, snapshot)

RunsSpec == RunsInit /\ [][RunsNext]_runsVars

-----------------------------------------------------------------------------
(* Properties.                                                             *)

(* Every run that leaves the service, now or replayed later, is one that   *)
(* the browser will keep, and says of its own bill what the ledger says:   *)
(* an attempt that was never settled is no success (modelCall, core.POST   *)
(* and validateQuestionRun, which were written apart).                     *)
RunsHold ==
  /\ \A q \in Asks : ask[q].at = "reply" /\ ask[q].run # NoRun => ValidateQuestionRun(ask[q].run)
  /\ \A q \in Asks : ask[q].at \in {"complete", "reply"} /\ ask[q].paid = "reserved" =>
       ask[q].status = 503 /\ ask[q].run.status = "BLOCKED"
  /\ draft # Nil => ValidateQuestionRun(draft.run)

(* "Gate failures make zero provider requests and do not consume the signed*)
(* task": what was sent to the provider had passed the gate, and what is   *)
(* stored as the execution without having been sent is no gate failure.  It*)
(* is a refusal by the budget; or the review had ended, or the plan become *)
(* too old, between the two times the request is looked at.                *)
TaskIsSpared ==
  LET stored == receipt["execute"] IN
  /\ "execute" \in sent =>
       ResolveQuestionEvidence(stored.draft.run.contract, stored.input) = "READY"
  /\ stored.status # 0 /\ "execute" \notin sent =>
       IF stored.run = NoRun
       THEN \/ stored.status = 401 /\ over
            \/ stored.status = 422 /\ minute - stored.draft.run.created > DraftLife
       ELSE stored.run.calls # <<>> /\ stored.run.calls[1].failure \in BudgetRefusals
=============================================================================
