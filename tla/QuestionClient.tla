---------------------------- MODULE QuestionClient ---------------------------
(***************************************************************************)
(* The question page in the tabs of one browser, and what it must not      *)
(* forget: a question may have been paid for although its answer has not   *)
(* arrived.  Before a tab sends a request it claims a pointer to it in     *)
(* local storage; whoever opens the page later finds the pointer and asks  *)
(* for the result.  Requests and replies are delayed, lost, or outlive the *)
(* tab that sent them; a tab waits for locks and hashes between receiving, *)
(* recording and clearing the pointer, and may be reloaded meanwhile.      *)
(*                                                                         *)
(* The service appears as OperationStore promises it: an operation is      *)
(* claimed once, and afterwards every request for it replays its state.    *)
(***************************************************************************)
EXTENDS Integers, FiniteSets

CONSTANTS
  Tabs,
  Ids,       \* operation identifiers; an execution has that of its plan
  MaxCalls,  \* bound: calls made by users and reloads
  Nil        \* no such key, no task, no listener

(* What is sent and pointed to.  An execution whose research snapshot lacks*)
(* the required material is answered without a call to the model.          *)
Task == [phase : {"plan"}, id : Ids, ready : {TRUE}]
          \cup [phase : {"execute"}, id : Ids, ready : BOOLEAN]

ASSUME ClientAssumption == MaxCalls \in Nat /\ Nil \notin Tabs \cup Ids \cup Task

VARIABLES
  server,      \* server[k]: what the service knows of operation k
  calls,       \* HTTP calls that are not finished yet
  pointer,     \* local storage: the pending task
  draftKey,    \* local storage: the plan that may be executed
  kept,        \* local storage: operations of the question ledger and of the
               \*   list of unresolved tasks; also those whose result could not
               \*   be stored and is on the screen with the advice to export it
  view,        \* view[t]: the state of the page in tab t
  todo,        \* todo[t]: what continues in tab t once a lock is granted
  issued,      \* identifiers of plans requested so far
  made,        \* calls made so far
  turnedAway   \* tasks turned away, so that they may be sent once more under
               \*   the same identifier (history)

vars == <<server, calls, pointer, draftKey, kept, view, todo,
          issued, made, turnedAway>>
stored == <<pointer, draftKey, kept>>

Operations == [phase : {"plan", "execute"}, id : Ids]
Op(task) == [phase |-> task.phase, id |-> task.id]

(* A call is sent, has read that its operation is unknown, or runs it; then*)
(* a reply is on its way: the operation is running (202), its run (200), a *)
(* run that asks for material (200, nothing recorded), refused by a budget *)
(* and so recorded (429), rejected unrecorded (400, 401, 403, 422, 429),   *)
(* or any other error.                                                     *)
Replies == {"running", "run", "materials", "refused", "rejected", "blocked"}
Call == [tab : Tabs \cup {Nil}, task : Task, how : {"request", "retry", "recover"},
         at : {"sent", "absent", "executing"} \cup Replies]

(* Of the five pending states a page distinguishes, only "unknown" changes *)
(* what it offers: to send the same request again.                         *)
Page == [pending : Task \cup {Nil}, unknown : BOOLEAN, draft : Ids \cup {Nil}, busy : BOOLEAN]
Continuation == [task : Task, what : {"claim", "drop", "append", "clear", "end"},
                 paid : BOOLEAN, live : BOOLEAN]

Blank == [pending |-> Nil, unknown |-> FALSE, draft |-> Nil, busy |-> FALSE]

TypeOK ==
  /\ server \in [Operations -> {"absent", "running", "answered", "refused"}]
  /\ calls \subseteq Call
  /\ pointer \in Task \cup {Nil}
  /\ draftKey \in Ids \cup {Nil}
  /\ kept \subseteq Operations
  /\ view \in [Tabs -> Page]
  /\ todo \in [Tabs -> SUBSET Continuation]
  /\ issued \subseteq Ids
  /\ made \in 0..MaxCalls
  /\ turnedAway \subseteq Task

Init ==
  /\ server = [k \in Operations |-> "absent"]
  /\ calls = {}
  /\ pointer = Nil /\ draftKey = Nil
  /\ kept = {}
  /\ view = [t \in Tabs |-> Blank]
  /\ todo = [t \in Tabs |-> {}]
  /\ issued = {} /\ made = 0 /\ turnedAway = {}

-----------------------------------------------------------------------------
(* The service.  A reply nobody waits for is dropped.                      *)

Become(c, at) ==
  calls' = (calls \ {c}) \cup (IF at \in Replies /\ c.tab = Nil THEN {} ELSE {[c EXCEPT !.at = at]})

(* replay: the answer to a request for a known operation.                  *)
Replay(k) == CASE server[k] = "running" -> "running"
               [] server[k] = "answered" -> "run"
               [] server[k] = "refused" -> "refused"

(* GET: any status but 202 and 200 is an error to the page that recovers.  *)
ReadStatus(c) ==
  /\ c.how = "recover" /\ c.at = "sent"
  /\ Become(c, IF server[Op(c.task)] = "absent" THEN "blocked" ELSE Replay(Op(c.task)))
  /\ UNCHANGED <<server, stored, view, todo, issued, made, turnedAway>>

(* POST of a task without its material: decided by the task alone.         *)
GateEvidence(c) ==
  /\ c.how # "recover" /\ c.at = "sent" /\ ~c.task.ready
  /\ Become(c, "materials")
  /\ UNCHANGED <<server, stored, view, todo, issued, made, turnedAway>>

(* POST: read the operation; replay it if there is one.                    *)
ReadPrevious(c) ==
  /\ c.how # "recover" /\ c.at = "sent" /\ c.task.ready
  /\ Become(c, IF server[Op(c.task)] = "absent" THEN "absent" ELSE Replay(Op(c.task)))
  /\ UNCHANGED <<server, stored, view, todo, issued, made, turnedAway>>

(* Turned away before anything is recorded: the session or the draft is not*)
(* valid, or the model slot is taken, be it by a request of someone else.  *)
Reject(c) ==
  /\ \/ c.at = "sent" /\ c.how # "recover"
     \/ c.at = "absent"
  /\ Become(c, "rejected")
  /\ UNCHANGED <<server, stored, view, todo, issued, made, turnedAway>>

(* claim, which only one request wins; the others replay.                  *)
Claim(c) ==
  /\ c.at = "absent"
  /\ IF server[Op(c.task)] = "absent"
     THEN /\ server' = [server EXCEPT ![Op(c.task)] = "running"]
          /\ Become(c, "executing")
     ELSE Become(c, Replay(Op(c.task))) /\ UNCHANGED server
  /\ UNCHANGED <<stored, view, todo, issued, made, turnedAway>>

(* The model answered, or its budget refused; either is recorded.          *)
Complete(c) ==
  /\ c.at = "executing"
  /\ \E outcome \in {"answered", "refused"} :
       /\ server' = [server EXCEPT ![Op(c.task)] = outcome]
       /\ Become(c, IF outcome = "answered" THEN "run" ELSE "refused")
  /\ UNCHANGED <<stored, view, todo, issued, made, turnedAway>>

(* Storage not ready, a record of another session or with other input, an  *)
(* interrupted operation, a failed completion.                             *)
Block(c) ==
  /\ c.at \in {"sent", "absent", "executing"}
  /\ Become(c, "blocked")
  /\ UNCHANGED <<server, stored, view, todo, issued, made, turnedAway>>

Serve(c) ==
  \/ ReadStatus(c) \/ GateEvidence(c) \/ ReadPrevious(c) \/ Reject(c)
  \/ Claim(c) \/ Complete(c) \/ Block(c)

-----------------------------------------------------------------------------
(* The page.  Buttons are enabled as the page renders them; one function at*)
(* a time is awaited, except that waiting can be ended at any moment.      *)

Set(t, page) == view' = [view EXCEPT ![t] = page]
Idle(t, unknown) == Set(t, [view[t] EXCEPT !.unknown = unknown, !.busy = FALSE])

Await(t, task, what) ==
  todo' = [todo EXCEPT ![t] = @ \cup {[task |-> task, what |-> what, paid |-> FALSE, live |-> TRUE]}]

CountCall == made < MaxCalls /\ made' = made + 1

New(t, task, how) == [tab |-> t, task |-> task, how |-> how, at |-> "sent"]

(* Nobody waits in tab t any more; the service still handles a request it  *)
(* got, and only one that can have an effect is kept.                      *)
Abort(t) ==
  {c \in calls : c.tab # t}
    \cup {[c EXCEPT !.tab = Nil, !.how = "retry"] :
            c \in {d \in calls : d.tab = t /\ d.how # "recover" /\ d.at \notin Replies /\ d.task.ready}}

(* (Re)load the page: find the pointer and ask for its result.  The draft  *)
(* is restored if the page shows its question.                             *)
Reload(t) ==
  /\ todo' = [todo EXCEPT ![t] = {}]
  /\ \E draft \in {Nil, draftKey} :
       IF pointer = Nil
       THEN /\ Set(t, [Blank EXCEPT !.draft = draft])
            /\ calls' = Abort(t)
            /\ UNCHANGED made
       ELSE /\ Set(t, [pending |-> pointer, unknown |-> FALSE, draft |-> draft, busy |-> TRUE])
            /\ calls' = Abort(t) \cup {New(t, pointer, "recover")}
            /\ CountCall
  /\ UNCHANGED <<server, stored, issued, turnedAway>>

(* Type another question.                                                  *)
SelectQuestion(t) ==
  /\ ~view[t].busy
  /\ Set(t, [view[t] EXCEPT !.draft = Nil])
  /\ draftKey' = Nil
  /\ UNCHANGED <<server, calls, pointer, kept, todo, issued, made, turnedAway>>

(* When the buttons "generate" and "confirm and execute" can be used.      *)
Offers(t, phase) ==
  /\ ~view[t].busy /\ view[t].pending = Nil
  /\ phase = "execute" => view[t].draft # Nil

(* request("plan"): a new identifier.                                      *)
RequestPlan(t) ==
  /\ CountCall /\ Offers(t, "plan")
  /\ \E id \in Ids \ issued :
       /\ issued' = issued \cup {id}
       /\ Await(t, [phase |-> "plan", id |-> id, ready |-> TRUE], "claim")
  /\ Set(t, [view[t] EXCEPT !.unknown = FALSE, !.busy = TRUE, !.draft = Nil])
  /\ UNCHANGED <<server, calls, stored, turnedAway>>

(* request("execute"): the identifier of the draft, the snapshot of now.   *)
RequestExecute(t) ==
  /\ CountCall /\ Offers(t, "execute")
  /\ \E ready \in BOOLEAN :
       Await(t, [phase |-> "execute", id |-> view[t].draft, ready |-> ready], "claim")
  /\ Set(t, [view[t] EXCEPT !.unknown = FALSE, !.busy = TRUE])
  /\ UNCHANGED <<server, calls, stored, issued, turnedAway>>

(* "Check the status": recover.                                            *)
Recover(t) ==
  /\ CountCall /\ ~view[t].busy /\ view[t].pending # Nil
  /\ Set(t, [view[t] EXCEPT !.unknown = FALSE, !.busy = TRUE])
  /\ calls' = calls \cup {New(t, view[t].pending, "recover")}
  /\ UNCHANGED <<server, stored, todo, issued, turnedAway>>

(* "Send the same request again": retryPending.                            *)
RetryPending(t) ==
  /\ CountCall /\ ~view[t].busy /\ view[t].pending # Nil /\ view[t].unknown
  /\ Set(t, [view[t] EXCEPT !.unknown = FALSE, !.busy = TRUE])
  /\ calls' = calls \cup {New(t, view[t].pending, "retry")}
  /\ UNCHANGED <<server, stored, todo, issued, turnedAway>>

(* Variant: the page leaves it to the abandoned call to enable its buttons.*)
AbandonedBusy(page) == page

(* setBusy(null), which the abandoned call will not do.                    *)
Abandoned(page) == [page EXCEPT !.busy = FALSE]

(* "End waiting": note the task, abandon the call, then clear the pointer. *)
EndWaiting(t) ==
  /\ view[t].pending # Nil
  /\ kept' = kept \cup {Op(view[t].pending)}
  /\ calls' = Abort(t)
  /\ Set(t, Abandoned(view[t]))
  /\ todo' = [todo EXCEPT ![t] =
       {[i EXCEPT !.live = FALSE] : i \in @}
         \cup {[task |-> view[t].pending, what |-> "end", paid |-> FALSE, live |-> FALSE]}]
  /\ UNCHANGED <<server, pointer, draftKey, issued, made, turnedAway>>

(* The connection fails, the request times out, or the reply is unreadable.*)
Lose(c) ==
  /\ c.tab # Nil
  /\ Idle(c.tab, TRUE)
  /\ calls' = Abort(c.tab)
  /\ UNCHANGED <<server, stored, todo, issued, made, turnedAway>>

(* 202: a request goes over to checking the status.                        *)
HearRunning(c) ==
  /\ c.tab # Nil /\ c.at = "running"
  /\ IF c.how = "recover"
     THEN Idle(c.tab, FALSE) /\ calls' = calls \ {c}
     ELSE /\ Set(c.tab, [view[c.tab] EXCEPT !.unknown = FALSE])
          /\ calls' = (calls \ {c}) \cup {New(c.tab, c.task, "recover")}
  /\ UNCHANGED <<server, stored, todo, issued, made, turnedAway>>

(* An error.  Only the first request takes some of them as final.          *)
HearError(c) ==
  /\ c.tab # Nil /\ c.at \in {"refused", "rejected", "blocked"}
  /\ calls' = calls \ {c}
  /\ IF c.how = "request" /\ c.at # "blocked"
     THEN Await(c.tab, c.task, "drop") /\ UNCHANGED view
     ELSE Idle(c.tab, FALSE) /\ UNCHANGED todo
  /\ UNCHANGED <<server, stored, issued, made, turnedAway>>

(* receive: the draft is stored or used up at once; recording the run and  *)
(* clearing the pointer take a lock each.                                  *)
Receive(c) ==
  /\ c.tab # Nil /\ c.at \in {"run", "materials"}
  /\ calls' = calls \ {c}
  /\ todo' = [todo EXCEPT ![c.tab] =
       @ \cup {[task |-> c.task, what |-> "append", paid |-> c.at = "run", live |-> TRUE]}]
  /\ LET draft == IF c.at = "materials" THEN view[c.tab].draft
                  ELSE IF c.task.phase = "plan" THEN c.task.id ELSE Nil IN
     /\ Set(c.tab, [view[c.tab] EXCEPT !.draft = draft])
     /\ draftKey' = IF c.at = "materials" THEN draftKey ELSE draft
  /\ UNCHANGED <<server, pointer, kept, issued, made, turnedAway>>

-----------------------------------------------------------------------------
(* What a tab does when it is granted the lock it asked for.               *)

GoOn(t, i, what) == todo' = [todo EXCEPT ![t] = (@ \ {i}) \cup {[i EXCEPT !.what = what]}]
Done(t, i) == todo' = [todo EXCEPT ![t] = @ \ {i}]

(* clearPendingQuestion: only one's own pointer.                           *)
Cleared(task) == IF pointer # Nil /\ Op(pointer) = Op(task) THEN Nil ELSE pointer

(* Variant: the pointer of another task does not matter.                   *)
PointerFreeAnyway == TRUE

PointerFree == pointer = Nil

(* claimPendingQuestion, then the request is sent.                         *)
ClaimPointer(t, i) ==
  /\ i.what = "claim"
  /\ Done(t, i)
  /\ IF PointerFree
     THEN /\ pointer' = i.task
          /\ Set(t, [view[t] EXCEPT !.pending = i.task])
          /\ calls' = calls \cup {New(t, i.task, "request")}
     ELSE Idle(t, FALSE) /\ UNCHANGED <<pointer, calls>>
  /\ UNCHANGED <<server, draftKey, kept, issued, made, turnedAway>>

(* The pointer of a request that was turned away.                          *)
DropPointer(t, i) ==
  /\ i.what = "drop"
  /\ Done(t, i)
  /\ pointer' = Cleared(i.task)
  /\ turnedAway' = turnedAway \cup {i.task}
  /\ Set(t, [view[t] EXCEPT !.pending = Nil, !.unknown = FALSE, !.busy = @ /\ ~i.live])
  /\ UNCHANGED <<server, calls, draftKey, kept, issued, made>>

(* appendQuestionRun.  If it fails the user is told to export the run.     *)
AppendRun(t, i) ==
  /\ i.what = "append"
  /\ GoOn(t, i, "clear")
  /\ kept' = kept \cup (IF i.paid THEN {Op(i.task)} ELSE {})
  /\ UNCHANGED <<server, calls, pointer, draftKey, view, issued, made, turnedAway>>

(* The end of receive.                                                     *)
ClearPointer(t, i) ==
  /\ i.what = "clear"
  /\ Done(t, i)
  /\ pointer' = Cleared(i.task)
  /\ Set(t, [view[t] EXCEPT !.pending = Nil, !.unknown = FALSE, !.busy = @ /\ ~i.live])
  /\ turnedAway' = turnedAway \cup (IF i.paid THEN {} ELSE {i.task})
  /\ UNCHANGED <<server, calls, draftKey, kept, issued, made>>

(* The rest of endWaiting: also the draft is given up.                     *)
FinishEnding(t, i) ==
  /\ i.what = "end"
  /\ Done(t, i)
  /\ pointer' = Cleared(i.task)
  /\ Set(t, [view[t] EXCEPT !.pending = Nil, !.unknown = FALSE, !.draft = Nil])
  /\ draftKey' = Nil
  /\ UNCHANGED <<server, calls, kept, issued, made, turnedAway>>

Continue(t, i) ==
  \/ ClaimPointer(t, i) \/ DropPointer(t, i) \/ AppendRun(t, i)
  \/ ClearPointer(t, i) \/ FinishEnding(t, i)

Next ==
  \/ \E c \in calls : Serve(c) \/ Lose(c) \/ HearRunning(c) \/ HearError(c) \/ Receive(c)
  \/ \E t \in Tabs :
       \/ Reload(t) \/ SelectQuestion(t) \/ RequestPlan(t) \/ RequestExecute(t)
       \/ Recover(t) \/ RetryPending(t) \/ EndWaiting(t)
       \/ \E i \in todo[t] : Continue(t, i)

Spec == Init /\ [][Next]_vars

-----------------------------------------------------------------------------
(* Properties.                                                             *)

(* Somebody who opens the page finds operation k: its result, the pointer  *)
(* to it, or the note that it is unresolved.                               *)
Remembered(k) ==
  \/ k \in kept
  \/ pointer # Nil /\ Op(pointer) = k

InDoubtOrPaid(k) == server[k] \in {"running", "answered"}

(* However replies, reloads, locks and tabs interleave, the browser forgets*)
(* no operation that may have been paid for, unless a first request for it *)
(* was turned away: see SuccessorSpared.                                   *)
Unforgotten ==
  \A k \in Operations \ {Op(task) : task \in turnedAway} : InDoubtOrPaid(k) => Remembered(k)

(* What the test of claimPendingQuestion says: two tabs cannot replace the *)
(* pointer to an unresolved request, and a late completion cannot erase a  *)
(* successor.  So the pointer is removed only when its own task is settled:*)
(* recorded, given up, or turned away.                                     *)
SuccessorSpared ==
  [][pointer # Nil /\ pointer' # pointer =>
       /\ pointer' = Nil
       /\ Op(pointer) \in kept \/ pointer \in turnedAway']_pointer

(* A page that shows itself busy awaits something that will come back to   *)
(* it; ending the waiting never leaves the buttons disabled for good.      *)
BusyForAReason ==
  \A t \in Tabs : view[t].busy =>
    (\E c \in calls : c.tab = t) \/ (\E i \in todo[t] : i.live)

(* What the message of a budget refusal says: the same request, made again *)
(* later, is considered, not answered with the refusal of before.          *)
RefusalIsFresh ==
  [][\A c \in calls' \ calls :
       c.how = "request" /\ c.at = "refused" => [c EXCEPT !.at = "executing"] \in calls]_calls
=============================================================================
