------------------------ MODULE QuestionClient_proofs ------------------------
(***************************************************************************)
(* Theorems about the question page, for any number of tabs, questions and *)
(* calls.                                                                  *)
(***************************************************************************)
EXTENDS QuestionClient, TLAPS

(* What an aborted page leaves to the service is a request it already got. *)
Given(d, t) == d.tab = t /\ d.how # "recover" /\ d.at \notin Replies /\ d.task.ready

-----------------------------------------------------------------------------
(* Types.                                                                  *)

LEMMA OpTyped == \A task \in Task : Op(task) \in Operations
  BY DEF Task, Op, Operations

LEMMA NewTyped ==
  ASSUME NEW t \in Tabs \cup {Nil}, NEW task \in Task, NEW how \in {"request", "retry", "recover"}
  PROVE  New(t, task, how) \in Call
  BY DEF New, Call

LEMMA CallFields ==
  ASSUME NEW c \in Call
  PROVE  /\ c.tab \in Tabs \cup {Nil} /\ c.task \in Task
         /\ c.how \in {"request", "retry", "recover"}
         /\ c.at \in {"sent", "absent", "executing"} \cup Replies
  BY DEF Call

(* A call that moves on keeps its tab, its task and its kind.              *)
LEMMA MovedTyped ==
  ASSUME NEW c \in Call, NEW at \in {"sent", "absent", "executing"} \cup Replies
  PROVE  LET d == [c EXCEPT !.at = at] IN
         d \in Call /\ d.tab = c.tab /\ d.task = c.task /\ d.how = c.how /\ d.at = at
  BY DEF Call

(* A request left behind is nobody's, and may still be claimed.            *)
LEMMA LeftTyped ==
  ASSUME NEW c \in Call
  PROVE  LET d == [c EXCEPT !.tab = Nil, !.how = "retry"] IN
         d \in Call /\ d.tab = Nil /\ d.task = c.task /\ d.how = "retry" /\ d.at = c.at
  BY DEF Call

LEMMA ReplayTyped ==
  ASSUME TypeOK, NEW k \in Operations, server[k] # "absent"
  PROVE  Replay(k) \in Replies
  <1>1. server[k] \in {"running", "answered", "refused"}
    BY DEF TypeOK
  <1> QED
    BY <1>1 DEF Replay, Replies

(* Every call after a step of the service stems from one before it.        *)
LEMMA BecomeFrom ==
  ASSUME calls \subseteq Call, NEW c \in calls,
         NEW at \in {"sent", "absent", "executing"} \cup Replies, Become(c, at)
  PROVE  /\ calls' \subseteq Call
         /\ \A d \in calls' : d \in calls \/
              (d.tab = c.tab /\ d.task = c.task /\ d.how = c.how /\ d.at = at)
         /\ c.tab # Nil => \E d \in calls' : d.tab = c.tab
         /\ \A d \in calls : d # c => d \in calls'
  <1>1. c \in Call
    OBVIOUS
  <1> DEFINE d == [c EXCEPT !.at = at]
  <1>2. d \in Call /\ d.tab = c.tab /\ d.task = c.task /\ d.how = c.how /\ d.at = at
    BY <1>1, MovedTyped
  <1>3. calls' = (calls \ {c}) \cup (IF at \in Replies /\ c.tab = Nil THEN {} ELSE {d})
    BY DEF Become
  <1> HIDE DEF d
  <1> QED
    BY <1>2, <1>3

(* Every call after a page abandons its own stems from one before it.      *)
LEMMA AbortFrom ==
  ASSUME calls \subseteq Call, NEW t \in Tabs
  PROVE  /\ Abort(t) \subseteq Call
         /\ \A d \in Abort(t) : d \in calls \/
              (\E c \in calls : c.how # "recover" /\ d.task = c.task /\ d.tab = Nil
                                /\ d.how = "retry" /\ d.at = c.at)
         /\ \A d \in calls : d.tab # t => d \in Abort(t)
  <1>1. ASSUME NEW d \in Abort(t)
        PROVE  d \in Call /\ (d \in calls \/
              (\E c \in calls : c.how # "recover" /\ d.task = c.task /\ d.tab = Nil
                                /\ d.how = "retry" /\ d.at = c.at))
    <2>1. CASE d \in calls
      BY <2>1
    <2>2. CASE d \notin calls
      <3>1. PICK c \in calls : Given(c, t) /\ d = [c EXCEPT !.tab = Nil, !.how = "retry"]
        BY <1>1, <2>2 DEF Abort, Given
      <3>2. c \in Call
        OBVIOUS
      <3> QED
        BY <3>1, <3>2, LeftTyped DEF Given
    <2> QED
      BY <2>1, <2>2
  <1>2. \A d \in calls : d.tab # t => d \in Abort(t)
    BY DEF Abort
  <1> QED
    BY <1>1, <1>2

LEMMA ServeTyped ==
  ASSUME TypeOK, NEW c \in calls, Serve(c)
  PROVE  TypeOK'
  <1> USE DEF TypeOK
  <1>1. c \in Call /\ calls \subseteq Call
    OBVIOUS
  <1>2. Op(c.task) \in Operations
    BY <1>1, CallFields, OpTyped
  <1>3. server[Op(c.task)] # "absent" => Replay(Op(c.task)) \in Replies
    BY <1>2, ReplayTyped
  <1>4. "blocked" \in Replies /\ "materials" \in Replies /\ "rejected" \in Replies
          /\ "run" \in Replies /\ "refused" \in Replies
    BY DEF Replies
  <1>5. UNCHANGED <<pointer, draftKey, kept, view, todo, issued, made, turnedAway>>
    BY DEF Serve, ReadStatus, GateEvidence, ReadPrevious, Reject, Claim, Complete, Block, stored
  <1>6. server' \in [Operations -> {"absent", "running", "answered", "refused"}]
    BY <1>2 DEF Serve, ReadStatus, GateEvidence, ReadPrevious, Reject, Claim, Complete, Block
  <1>7. PICK at \in {"sent", "absent", "executing"} \cup Replies : Become(c, at)
    BY <1>3, <1>4 DEF Serve, ReadStatus, GateEvidence, ReadPrevious, Reject, Claim, Complete, Block
  <1>8. calls' \subseteq Call
    BY <1>1, <1>7, BecomeFrom
  <1> QED
    BY <1>5, <1>6, <1>8

(* The pages a step leaves behind.                                         *)
LEMMA PageTyped ==
  ASSUME NEW page \in Page, NEW unknown \in BOOLEAN, NEW busy \in BOOLEAN,
         NEW draft \in Ids \cup {Nil}, NEW pending \in Task \cup {Nil}
  PROVE  /\ [page EXCEPT !.unknown = unknown, !.busy = busy] \in Page
         /\ [page EXCEPT !.draft = draft] \in Page
         /\ [page EXCEPT !.unknown = unknown] \in Page
         /\ [page EXCEPT !.busy = busy] \in Page
         /\ [page EXCEPT !.pending = pending] \in Page
         /\ [page EXCEPT !.unknown = unknown, !.busy = busy, !.draft = draft] \in Page
         /\ [page EXCEPT !.pending = pending, !.unknown = unknown, !.busy = busy] \in Page
         /\ [page EXCEPT !.pending = pending, !.unknown = unknown, !.draft = draft] \in Page
         /\ [Blank EXCEPT !.draft = draft] \in Page
         /\ [pending |-> pending, unknown |-> unknown, draft |-> draft, busy |-> busy] \in Page
  BY DEF Page, Blank

LEMMA PageFields ==
  ASSUME TypeOK, NEW t \in Tabs
  PROVE  /\ view[t] \in Page /\ view[t].pending \in Task \cup {Nil}
         /\ view[t].unknown \in BOOLEAN /\ view[t].draft \in Ids \cup {Nil}
         /\ view[t].busy \in BOOLEAN
         /\ todo[t] \subseteq Continuation
  BY DEF TypeOK, Page

LEMMA SetTyped ==
  ASSUME TypeOK, NEW t \in Tabs, NEW page \in Page, Set(t, page)
  PROVE  view' \in [Tabs -> Page] /\ view'[t] = page /\ \A s \in Tabs \ {t} : view'[s] = view[s]
  BY DEF TypeOK, Set

LEMMA AwaitTyped ==
  ASSUME TypeOK, NEW t \in Tabs, NEW task \in Task,
         NEW what \in {"claim", "drop", "append", "clear", "end"}, Await(t, task, what)
  PROVE  /\ todo' \in [Tabs -> SUBSET Continuation]
         /\ \E i \in Continuation :
              i = [task |-> task, what |-> what, paid |-> FALSE, live |-> TRUE]
              /\ todo'[t] = todo[t] \cup {i}
         /\ \A s \in Tabs \ {t} : todo'[s] = todo[s]
  <1>1. [task |-> task, what |-> what, paid |-> FALSE, live |-> TRUE] \in Continuation
    BY DEF Continuation
  <1> QED
    BY <1>1 DEF TypeOK, Await

LEMMA CountTyped == ASSUME TypeOK, CountCall PROVE made' \in 0..MaxCalls
  BY ClientAssumption DEF TypeOK, CountCall

LEMMA PageStepTyped ==
  ASSUME TypeOK, NEW t \in Tabs,
         Reload(t) \/ SelectQuestion(t) \/ RequestPlan(t) \/ RequestExecute(t)
           \/ Recover(t) \/ RetryPending(t) \/ EndWaiting(t)
  PROVE  TypeOK'
  <1>1. /\ view[t] \in Page /\ view[t].pending \in Task \cup {Nil}
        /\ view[t].unknown \in BOOLEAN /\ view[t].draft \in Ids \cup {Nil}
        /\ view[t].busy \in BOOLEAN
    BY PageFields
  <1>2. calls \subseteq Call /\ Abort(t) \subseteq Call
    BY AbortFrom DEF TypeOK
  <1>3. \A task \in Task, how \in {"request", "retry", "recover"} : New(t, task, how) \in Call
    BY NewTyped
  <1>4. CASE Reload(t)
    <2>1. UNCHANGED <<server, pointer, draftKey, kept, issued, turnedAway>>
      BY <1>4 DEF Reload, stored
    <2>2. todo' \in [Tabs -> SUBSET Continuation]
      BY <1>4 DEF Reload, TypeOK
    <2>3. PICK draft \in {Nil, draftKey} :
             IF pointer = Nil
             THEN /\ Set(t, [Blank EXCEPT !.draft = draft])
                  /\ calls' = Abort(t)
                  /\ UNCHANGED made
             ELSE /\ Set(t, [pending |-> pointer, unknown |-> FALSE, draft |-> draft, busy |-> TRUE])
                  /\ calls' = Abort(t) \cup {New(t, pointer, "recover")}
                  /\ CountCall
      BY <1>4 DEF Reload
    <2>4. draft \in Ids \cup {Nil} /\ pointer \in Task \cup {Nil}
      BY DEF TypeOK
    <2>5. [Blank EXCEPT !.draft = draft] \in Page
            /\ [pending |-> pointer, unknown |-> FALSE, draft |-> draft, busy |-> TRUE] \in Page
      BY <1>1, <2>4, PageTyped
    <2>6. view' \in [Tabs -> Page]
      BY <2>3, <2>5, SetTyped
    <2>7. calls' \subseteq Call
      BY <1>2, <1>3, <2>3, <2>4
    <2>8. made' \in 0..MaxCalls
      BY <2>3, CountTyped DEF TypeOK
    <2> QED
      BY <2>1, <2>2, <2>6, <2>7, <2>8 DEF TypeOK
  <1>5. CASE SelectQuestion(t)
    <2>1. view' \in [Tabs -> Page]
      BY <1>1, <1>5, PageTyped, SetTyped DEF SelectQuestion
    <2> QED
      BY <1>5, <2>1 DEF SelectQuestion, TypeOK
  <1>6. CASE RequestPlan(t)
    <2>1. PICK id \in Ids : issued' = issued \cup {id}
                            /\ Await(t, [phase |-> "plan", id |-> id, ready |-> TRUE], "claim")
      BY <1>6 DEF RequestPlan
    <2>2. [phase |-> "plan", id |-> id, ready |-> TRUE] \in Task
      BY DEF Task
    <2>3. todo' \in [Tabs -> SUBSET Continuation]
      BY <2>1, <2>2, AwaitTyped
    <2>4. [view[t] EXCEPT !.unknown = FALSE, !.busy = TRUE, !.draft = Nil] \in Page
      BY <1>1, PageTyped
    <2>5. view' \in [Tabs -> Page]
      BY <1>6, <2>4, SetTyped DEF RequestPlan
    <2>6. made' \in 0..MaxCalls
      BY <1>6, CountTyped DEF RequestPlan
    <2> QED
      BY <1>6, <2>1, <2>3, <2>5, <2>6 DEF RequestPlan, TypeOK, stored
  <1>7. CASE RequestExecute(t)
    <2>1. PICK ready \in BOOLEAN :
             Await(t, [phase |-> "execute", id |-> view[t].draft, ready |-> ready], "claim")
      BY <1>7 DEF RequestExecute
    <2>2. [phase |-> "execute", id |-> view[t].draft, ready |-> ready] \in Task
      BY <1>1, <1>7 DEF Task, RequestExecute, Offers
    <2>3. todo' \in [Tabs -> SUBSET Continuation]
      BY <2>1, <2>2, AwaitTyped
    <2>4. view' \in [Tabs -> Page]
      BY <1>1, <1>7, PageTyped, SetTyped DEF RequestExecute
    <2>5. made' \in 0..MaxCalls
      BY <1>7, CountTyped DEF RequestExecute
    <2> QED
      BY <1>7, <2>3, <2>4, <2>5 DEF RequestExecute, TypeOK, stored
  <1>8. CASE Recover(t) \/ RetryPending(t)
    <2>1. view' \in [Tabs -> Page]
      BY <1>1, <1>8, PageTyped, SetTyped DEF Recover, RetryPending
    <2>2. calls' \subseteq Call
      BY <1>1, <1>2, <1>3, <1>8 DEF Recover, RetryPending
    <2>3. made' \in 0..MaxCalls
      BY <1>8, CountTyped DEF Recover, RetryPending
    <2> QED
      BY <1>8, <2>1, <2>2, <2>3 DEF Recover, RetryPending, TypeOK, stored
  <1>9. CASE EndWaiting(t)
    <2>1. view[t].pending \in Task
      BY <1>1, <1>9 DEF EndWaiting
    <2>2. view' \in [Tabs -> Page]
      BY <1>1, <1>9, PageTyped, SetTyped DEF EndWaiting, Abandoned
    <2>3. \A i \in Continuation : [i EXCEPT !.live = FALSE] \in Continuation
      BY DEF Continuation
    <2>4. [task |-> view[t].pending, what |-> "end", paid |-> FALSE, live |-> FALSE] \in Continuation
      BY <2>1 DEF Continuation
    <2>5. todo[t] \subseteq Continuation
      BY PageFields
    <2>6. todo' \in [Tabs -> SUBSET Continuation]
      BY <1>9, <2>3, <2>4, <2>5 DEF EndWaiting, TypeOK
    <2>7. Op(view[t].pending) \in Operations
      BY <2>1, OpTyped
    <2> QED
      BY <1>2, <1>9, <2>2, <2>6, <2>7 DEF EndWaiting, TypeOK
  <1> QED
    BY <1>4, <1>5, <1>6, <1>7, <1>8, <1>9

LEMMA HearStepTyped ==
  ASSUME TypeOK, NEW c \in calls, Lose(c) \/ HearRunning(c) \/ HearError(c) \/ Receive(c)
  PROVE  TypeOK'
  <1>1. c \in Call /\ calls \subseteq Call
    BY DEF TypeOK
  <1>2. c.tab \in Tabs /\ c.task \in Task
    BY <1>1, CallFields DEF Lose, HearRunning, HearError, Receive
  <1>3. /\ view[c.tab] \in Page /\ view[c.tab].draft \in Ids \cup {Nil}
    BY <1>2, PageFields
  <1>4. CASE Lose(c)
    <2>1. view' \in [Tabs -> Page]
      BY <1>2, <1>3, <1>4, PageTyped, SetTyped DEF Lose, Idle
    <2>2. calls' \subseteq Call
      BY <1>1, <1>2, <1>4, AbortFrom DEF Lose
    <2> QED
      BY <1>4, <2>1, <2>2 DEF Lose, TypeOK, stored
  <1>5. CASE HearRunning(c)
    <2>1. view' \in [Tabs -> Page]
      BY <1>2, <1>3, <1>5, PageTyped, SetTyped DEF HearRunning, Idle
    <2>2. New(c.tab, c.task, "recover") \in Call
      BY <1>2, NewTyped
    <2>3. calls' \subseteq Call
      BY <1>1, <1>5, <2>2 DEF HearRunning
    <2> QED
      BY <1>5, <2>1, <2>3 DEF HearRunning, TypeOK, stored
  <1>6. CASE HearError(c)
    <2>1. view' \in [Tabs -> Page]
      BY <1>2, <1>3, <1>6, PageTyped, SetTyped DEF HearError, Idle, TypeOK
    <2>2. todo' \in [Tabs -> SUBSET Continuation]
      BY <1>2, <1>6, AwaitTyped DEF HearError, TypeOK
    <2> QED
      BY <1>1, <1>6, <2>1, <2>2 DEF HearError, TypeOK, stored
  <1>7. CASE Receive(c)
    <2>1. PICK draft \in Ids \cup {Nil} :
             /\ Set(c.tab, [view[c.tab] EXCEPT !.draft = draft])
             /\ draftKey' \in Ids \cup {Nil}
      <3>1. c.task.id \in Ids
        BY <1>2 DEF Task
      <3> QED
        BY <1>3, <1>7, <3>1 DEF Receive, TypeOK
    <2>2. view' \in [Tabs -> Page]
      BY <1>2, <1>3, <2>1, PageTyped, SetTyped
    <2>3. [task |-> c.task, what |-> "append", paid |-> c.at = "run", live |-> TRUE] \in Continuation
      BY <1>2 DEF Continuation
    <2>4. todo' \in [Tabs -> SUBSET Continuation]
      BY <1>2, <1>7, <2>3 DEF Receive, TypeOK
    <2> QED
      BY <1>1, <1>7, <2>1, <2>2, <2>4 DEF Receive, TypeOK
  <1> QED
    BY <1>4, <1>5, <1>6, <1>7

LEMMA ContinueTyped ==
  ASSUME TypeOK, NEW t \in Tabs, NEW i \in todo[t], Continue(t, i)
  PROVE  TypeOK'
  <1>1. /\ view[t] \in Page /\ view[t].pending \in Task \cup {Nil}
        /\ view[t].busy \in BOOLEAN /\ todo[t] \subseteq Continuation
    BY PageFields
  <1>2. i \in Continuation /\ i.task \in Task /\ i.live \in BOOLEAN /\ i.paid \in BOOLEAN
    BY <1>1 DEF Continuation
  <1>3. Op(i.task) \in Operations /\ Cleared(i.task) \in Task \cup {Nil}
    BY <1>2, OpTyped DEF Cleared, TypeOK
  <1>4. Done(t, i) => todo' \in [Tabs -> SUBSET Continuation]
    BY DEF Done, TypeOK
  <1>5. CASE ClaimPointer(t, i)
    <2>1. view' \in [Tabs -> Page]
      BY <1>1, <1>2, <1>5, PageTyped, SetTyped DEF ClaimPointer, Idle
    <2>2. New(t, i.task, "request") \in Call
      BY <1>2, NewTyped
    <2> QED
      BY <1>2, <1>4, <1>5, <2>1, <2>2 DEF ClaimPointer, TypeOK
  <1>6. CASE DropPointer(t, i) \/ ClearPointer(t, i)
    <2>1. (view[t].busy /\ ~i.live) \in BOOLEAN
      OBVIOUS
    <2>2. [view[t] EXCEPT !.pending = Nil, !.unknown = FALSE, !.busy = @ /\ ~i.live] \in Page
      BY <1>1, <2>1, PageTyped
    <2>3. view' \in [Tabs -> Page]
      BY <1>6, <2>2, SetTyped DEF DropPointer, ClearPointer
    <2> QED
      BY <1>2, <1>3, <1>4, <1>6, <2>3 DEF DropPointer, ClearPointer, TypeOK
  <1>7. CASE AppendRun(t, i)
    <2>1. [i EXCEPT !.what = "clear"] \in Continuation
      BY <1>2 DEF Continuation
    <2>2. todo' \in [Tabs -> SUBSET Continuation]
      BY <1>1, <1>7, <2>1 DEF AppendRun, GoOn, TypeOK
    <2> QED
      BY <1>3, <1>7, <2>2 DEF AppendRun, TypeOK
  <1>8. CASE FinishEnding(t, i)
    <2>1. view' \in [Tabs -> Page]
      BY <1>1, <1>8, PageTyped, SetTyped DEF FinishEnding
    <2> QED
      BY <1>3, <1>4, <1>8, <2>1 DEF FinishEnding, TypeOK
  <1> QED
    BY <1>5, <1>6, <1>7, <1>8 DEF Continue

LEMMA TypeStep == TypeOK /\ [Next]_vars => TypeOK'
  <1> SUFFICES ASSUME TypeOK, [Next]_vars PROVE TypeOK'
    OBVIOUS
  <1>1. CASE UNCHANGED vars
    BY <1>1 DEF vars, TypeOK
  <1>2. CASE Next
    BY <1>2, ServeTyped, HearStepTyped, PageStepTyped, ContinueTyped DEF Next
  <1> QED
    BY <1>1, <1>2

LEMMA TypeInit == Init => TypeOK
  BY ClientAssumption DEF Init, TypeOK, Blank, Page

(* The page, the service and the keys keep their types (the shapes that    *)
(* question-workflow.tsx and research-question-pending.ts work with).      *)
THEOREM ClientTyped == Spec => []TypeOK
  BY TypeInit, TypeStep, PTL DEF Spec

-----------------------------------------------------------------------------
(* A busy page.  What it awaits is its own call, or a continuation that    *)
(* will enable its buttons; the end of an ended waiting never does that.   *)
Awaits(t) == (\E c \in calls : c.tab = t) \/ (\E i \in todo[t] : i.live)

BusyInv ==
  \A t \in Tabs : /\ view[t].busy => Awaits(t)
                  /\ \A i \in todo[t] : i.what = "end" => ~i.live

LEMMA BusyInit == Init => BusyInv
  BY DEF Init, BusyInv, Blank

(* What a step of one tab leaves alone in the others.                      *)
LEMMA OthersAwait ==
  ASSUME BusyInv, NEW s \in Tabs, view'[s] = view[s], todo'[s] = todo[s],
         \A c \in calls : c.tab = s => \E d \in calls' : d.tab = s
  PROVE  (view'[s].busy => Awaits(s)') /\ \A i \in todo'[s] : i.what = "end" => ~i.live
  BY DEF BusyInv, Awaits

LEMMA BusyService ==
  ASSUME TypeOK, BusyInv, NEW c \in calls, Serve(c)
  PROVE  BusyInv'
  <1>1. UNCHANGED <<view, todo>>
    BY DEF Serve, ReadStatus, GateEvidence, ReadPrevious, Reject, Claim, Complete, Block
  <1>2. c \in Call /\ calls \subseteq Call /\ Op(c.task) \in Operations
    BY CallFields, OpTyped DEF TypeOK
  <1>3. server[Op(c.task)] # "absent" => Replay(Op(c.task)) \in Replies
    BY <1>2, ReplayTyped
  <1>4. PICK at \in {"sent", "absent", "executing"} \cup Replies : Become(c, at)
    BY <1>3 DEF Serve, ReadStatus, GateEvidence, ReadPrevious, Reject, Claim, Complete, Block, Replies
  <1>5. ASSUME NEW s \in Tabs, NEW d \in calls, d.tab = s PROVE \E e \in calls' : e.tab = s
    BY <1>2, <1>4, <1>5, BecomeFrom, ClientAssumption
  <1>6. ASSUME NEW s \in Tabs
        PROVE  (view'[s].busy => Awaits(s)') /\ \A i \in todo'[s] : i.what = "end" => ~i.live
    BY <1>1, <1>5, OthersAwait
  <1> QED
    BY <1>6 DEF BusyInv

LEMMA BusyPage ==
  ASSUME TypeOK, BusyInv, NEW t \in Tabs,
         Reload(t) \/ SelectQuestion(t) \/ RequestPlan(t) \/ RequestExecute(t)
           \/ Recover(t) \/ RetryPending(t) \/ EndWaiting(t)
  PROVE  BusyInv'
  <1>1. calls \subseteq Call /\ \A d \in calls : d.tab # t => d \in Abort(t)
    BY AbortFrom DEF TypeOK
  <1>2. view \in [Tabs -> Page] /\ todo \in [Tabs -> SUBSET Continuation] /\ view[t] \in Page
    BY DEF TypeOK
  <1>3. ASSUME NEW s \in Tabs \ {t}
        PROVE  (view'[s].busy => Awaits(s)') /\ \A i \in todo'[s] : i.what = "end" => ~i.live
    <2>1. view'[s] = view[s] /\ todo'[s] = todo[s]
      BY <1>2, <1>3 DEF Reload, SelectQuestion, RequestPlan, RequestExecute, Recover, RetryPending,
                        EndWaiting, Set, Await
    <2>2. \A d \in calls : d.tab = s => d \in calls'
      BY <1>1, <1>3 DEF Reload, SelectQuestion, RequestPlan, RequestExecute, Recover, RetryPending,
                        EndWaiting
    <2> QED
      BY <2>1, <2>2, OthersAwait
  <1>4. (view'[t].busy => Awaits(t)') /\ \A i \in todo'[t] : i.what = "end" => ~i.live
    <2>1. CASE Reload(t)
      <3>1. todo'[t] = {}
        BY <1>2, <2>1 DEF Reload
      <3>2. CASE pointer = Nil
        <4>1. PICK draft \in {Nil, draftKey} : Set(t, [Blank EXCEPT !.draft = draft])
          BY <2>1, <3>2 DEF Reload
        <4>2. ~view'[t].busy
          BY <1>2, <4>1 DEF Set, Blank
        <4> QED
          BY <3>1, <4>2
      <3>3. CASE pointer # Nil
        <4>1. New(t, pointer, "recover") \in calls' /\ New(t, pointer, "recover").tab = t
          BY <2>1, <3>3 DEF Reload, New
        <4> QED
          BY <3>1, <4>1 DEF Awaits
      <3> QED
        BY <3>2, <3>3
    <2>2. CASE SelectQuestion(t)
      <3>1. ~view'[t].busy /\ todo' = todo
        BY <1>2, <2>2 DEF SelectQuestion, Set, Page
      <3> QED
        BY <3>1 DEF BusyInv
    <2>3. CASE RequestPlan(t) \/ RequestExecute(t)
      <3>1. PICK task : Await(t, task, "claim")
        BY <2>3 DEF RequestPlan, RequestExecute
      <3>2. PICK i : i = [task |-> task, what |-> "claim", paid |-> FALSE, live |-> TRUE]
        OBVIOUS
      <3>3. todo'[t] = todo[t] \cup {i} /\ i.what # "end" /\ i.live
        BY <1>2, <3>1, <3>2 DEF Await
      <3> QED
        BY <3>3 DEF BusyInv, Awaits
    <2>4. CASE Recover(t) \/ RetryPending(t)
      <3>1. PICK how : New(t, view[t].pending, how) \in calls' /\ todo' = todo
        BY <2>4 DEF Recover, RetryPending
      <3>2. New(t, view[t].pending, how).tab = t
        BY DEF New
      <3> QED
        BY <3>1, <3>2 DEF BusyInv, Awaits
    <2>5. CASE EndWaiting(t)
      <3>1. ~view'[t].busy
        BY <1>2, <2>5 DEF EndWaiting, Set, Abandoned, Page
      <3>2. todo'[t] = {[i EXCEPT !.live = FALSE] : i \in todo[t]}
              \cup {[task |-> view[t].pending, what |-> "end", paid |-> FALSE, live |-> FALSE]}
        BY <1>2, <2>5 DEF EndWaiting
      <3>3. ASSUME NEW j \in todo'[t] PROVE ~j.live
        <4>1. CASE \E i \in todo[t] : j = [i EXCEPT !.live = FALSE]
          <5>1. PICK i \in todo[t] : j = [i EXCEPT !.live = FALSE]
            BY <4>1
          <5>2. i \in Continuation
            BY <1>2
          <5> QED
            BY <5>1, <5>2 DEF Continuation
        <4>2. CASE j = [task |-> view[t].pending, what |-> "end", paid |-> FALSE, live |-> FALSE]
          BY <4>2
        <4> QED
          BY <3>2, <3>3, <4>1, <4>2
      <3> QED
        BY <3>1, <3>3
    <2> QED
      BY <2>1, <2>2, <2>3, <2>4, <2>5
  <1> QED
    BY <1>3, <1>4 DEF BusyInv

LEMMA BusyHear ==
  ASSUME TypeOK, BusyInv, NEW c \in calls, Lose(c) \/ HearRunning(c) \/ HearError(c) \/ Receive(c)
  PROVE  BusyInv'
  <1>1. view \in [Tabs -> Page] /\ todo \in [Tabs -> SUBSET Continuation] /\ calls \subseteq Call
    BY DEF TypeOK
  <1>2. PICK t \in Tabs : t = c.tab
    BY <1>1, CallFields DEF Lose, HearRunning, HearError, Receive
  <1>3. \A d \in calls : d.tab # t => d \in Abort(t)
    BY <1>1, AbortFrom
  <1>4. ASSUME NEW s \in Tabs \ {t}
        PROVE  (view'[s].busy => Awaits(s)') /\ \A i \in todo'[s] : i.what = "end" => ~i.live
    <2>1. view'[s] = view[s] /\ todo'[s] = todo[s]
      BY <1>1, <1>2, <1>4 DEF Lose, HearRunning, HearError, Receive, Idle, Set, Await
    <2>2. \A d \in calls : d.tab = s => d \in calls'
      BY <1>2, <1>3, <1>4 DEF Lose, HearRunning, HearError, Receive
    <2> QED
      BY <2>1, <2>2, OthersAwait
  <1>5. (view'[t].busy => Awaits(t)') /\ \A i \in todo'[t] : i.what = "end" => ~i.live
    <2>1. ASSUME NEW unknown \in BOOLEAN, Idle(t, unknown), todo' = todo
          PROVE  (view'[t].busy => Awaits(t)') /\ \A i \in todo'[t] : i.what = "end" => ~i.live
      <3>1. ~view'[t].busy
        BY <1>1, <2>1 DEF Idle, Set, Page
      <3> QED
        BY <2>1, <3>1 DEF BusyInv
    <2>2. CASE Lose(c)
      BY <1>2, <2>1, <2>2 DEF Lose
    <2>3. CASE HearRunning(c)
      <3>1. New(c.tab, c.task, "recover").tab = t
        BY <1>2 DEF New
      <3>2. (c.how # "recover") => (New(c.tab, c.task, "recover") \in calls' /\ todo' = todo)
        BY <2>3 DEF HearRunning
      <3>3. (c.how = "recover") => (Idle(t, FALSE) /\ todo' = todo)
        BY <1>2, <2>3 DEF HearRunning
      <3> QED
        BY <2>1, <3>1, <3>2, <3>3 DEF BusyInv, Awaits
    <2>4. CASE HearError(c)
      <3>1. CASE c.how = "request" /\ c.at # "blocked"
        <4>1. PICK i : i = [task |-> c.task, what |-> "drop", paid |-> FALSE, live |-> TRUE]
          OBVIOUS
        <4>2. todo'[t] = todo[t] \cup {i} /\ i.what # "end" /\ i.live
          BY <1>1, <1>2, <2>4, <3>1, <4>1 DEF HearError, Await
        <4> QED
          BY <4>2 DEF BusyInv, Awaits
      <3>2. CASE ~(c.how = "request" /\ c.at # "blocked")
        <4>1. Idle(t, FALSE) /\ todo' = todo
          BY <1>2, <2>4, <3>2 DEF HearError
        <4> QED
          BY <2>1, <4>1
      <3> QED
        BY <3>1, <3>2
    <2>5. CASE Receive(c)
      <3>1. PICK i : i = [task |-> c.task, what |-> "append", paid |-> c.at = "run", live |-> TRUE]
        OBVIOUS
      <3>2. todo'[t] = todo[t] \cup {i} /\ i.what # "end" /\ i.live
        BY <1>1, <1>2, <2>5, <3>1 DEF Receive
      <3> QED
        BY <3>2 DEF BusyInv, Awaits
    <2> QED
      BY <2>2, <2>3, <2>4, <2>5
  <1> QED
    BY <1>4, <1>5 DEF BusyInv

LEMMA BusyContinue ==
  ASSUME TypeOK, BusyInv, NEW t \in Tabs, NEW i \in todo[t], Continue(t, i)
  PROVE  BusyInv'
  <1>1. view \in [Tabs -> Page] /\ todo \in [Tabs -> SUBSET Continuation] /\ view[t] \in Page
    BY DEF TypeOK
  <1>2. i \in Continuation /\ i.live \in BOOLEAN
    BY <1>1 DEF Continuation
  <1>3. calls \subseteq calls'
    BY DEF Continue, ClaimPointer, DropPointer, AppendRun, ClearPointer, FinishEnding
  <1>4. ASSUME NEW s \in Tabs \ {t}
        PROVE  (view'[s].busy => Awaits(s)') /\ \A j \in todo'[s] : j.what = "end" => ~j.live
    <2>1. view'[s] = view[s] /\ todo'[s] = todo[s]
      BY <1>1, <1>4 DEF Continue, ClaimPointer, DropPointer, AppendRun, ClearPointer, FinishEnding,
                        Idle, Set, Done, GoOn
    <2> QED
      BY <1>3, <2>1, OthersAwait
  <1>5. (view'[t].busy => Awaits(t)') /\ \A j \in todo'[t] : j.what = "end" => ~j.live
    <2>1. CASE ClaimPointer(t, i)
      <3>1. todo'[t] = todo[t] \ {i}
        BY <1>1, <2>1 DEF ClaimPointer, Done
      <3>2. CASE PointerFree
        <4>1. New(t, i.task, "request") \in calls' /\ New(t, i.task, "request").tab = t
          BY <2>1, <3>2 DEF ClaimPointer, New
        <4> QED
          BY <3>1, <4>1 DEF BusyInv, Awaits
      <3>3. CASE ~PointerFree
        <4>1. ~view'[t].busy
          BY <1>1, <2>1, <3>3 DEF ClaimPointer, Idle, Set, Page
        <4> QED
          BY <3>1, <4>1 DEF BusyInv
      <3> QED
        BY <3>2, <3>3
    <2>2. CASE DropPointer(t, i) \/ ClearPointer(t, i)
      <3>1. todo'[t] = todo[t] \ {i}
        BY <1>1, <2>2 DEF DropPointer, ClearPointer, Done
      <3>2. view'[t].busy => view[t].busy /\ ~i.live
        BY <1>1, <2>2 DEF DropPointer, ClearPointer, Set, Page
      <3> QED
        BY <1>3, <3>1, <3>2 DEF BusyInv, Awaits
    <2>3. CASE AppendRun(t, i)
      <3>1. PICK j : j = [i EXCEPT !.what = "clear"]
        OBVIOUS
      <3>2. todo'[t] = (todo[t] \ {i}) \cup {j} /\ j.what # "end" /\ (j.live <=> i.live) /\ view' = view
        BY <1>1, <1>2, <2>3, <3>1 DEF AppendRun, GoOn, Continuation
      <3> QED
        BY <1>3, <3>2 DEF BusyInv, Awaits
    <2>4. CASE FinishEnding(t, i)
      <3>1. todo'[t] = todo[t] \ {i} /\ ~i.live
        BY <1>1, <2>4 DEF FinishEnding, Done, BusyInv
      <3>2. view'[t].busy => view[t].busy
        BY <1>1, <2>4 DEF FinishEnding, Set, Page
      <3> QED
        BY <1>3, <3>1, <3>2 DEF BusyInv, Awaits
    <2> QED
      BY <2>1, <2>2, <2>3, <2>4 DEF Continue
  <1> QED
    BY <1>4, <1>5 DEF BusyInv

LEMMA BusyStep == TypeOK /\ BusyInv /\ [Next]_vars => BusyInv'
  <1> SUFFICES ASSUME TypeOK, BusyInv, [Next]_vars PROVE BusyInv'
    OBVIOUS
  <1>1. CASE UNCHANGED vars
    BY <1>1 DEF vars, BusyInv, Awaits
  <1>2. CASE Next
    BY <1>2, BusyService, BusyHear, BusyPage, BusyContinue DEF Next
  <1> QED
    BY <1>1, <1>2

(* A busy page awaits something that will come back to it, whichever       *)
(* waiting was ended, lost or overtaken (setBusy in question-workflow.tsx):*)
(* the buttons never stay disabled for good.                               *)
THEOREM BusyPagesWait == Spec => []BusyForAReason
  <1>1. BusyInv => BusyForAReason
    BY DEF BusyInv, BusyForAReason, Awaits
  <1> QED
    BY <1>1, TypeInit, TypeStep, BusyInit, BusyStep, PTL DEF Spec

-----------------------------------------------------------------------------
(* Most steps change other fields of the page than the pending task.       *)
LEMMA SamePending ==
  ASSUME NEW page \in Page, NEW unknown, NEW busy, NEW draft
  PROVE  /\ [page EXCEPT !.unknown = unknown, !.busy = busy].pending = page.pending
         /\ [page EXCEPT !.draft = draft].pending = page.pending
         /\ [page EXCEPT !.unknown = unknown].pending = page.pending
         /\ [page EXCEPT !.busy = busy].pending = page.pending
         /\ [page EXCEPT !.unknown = unknown, !.busy = busy, !.draft = draft].pending = page.pending
  BY DEF Page

(* What the browser remembers.  An operation is accounted for when it is   *)
(* remembered, or a task of it was turned away.                            *)
Accounted(k) == Remembered(k) \/ \E task \in turnedAway : Op(task) = k

(* The argument: whatever may still have the service claim an operation - a*)
(* request on its way, a page that offers to send it again - came from the *)
(* pointer, so the operation was accounted for when it was sent; and a     *)
(* pointer goes only after its operation was noted or turned away.         *)
MemoryInv ==
  /\ \A c \in calls : IF c.how = "recover" THEN c.at \in {"sent"} \cup Replies
                      ELSE Accounted(Op(c.task))
  /\ \A t \in Tabs : view[t].pending # Nil => Accounted(Op(view[t].pending))
  /\ \A t \in Tabs : \A i \in todo[t] :
       (i.what = "clear" /\ i.paid) \/ i.what = "end" => Op(i.task) \in kept
  /\ \A k \in Operations : InDoubtOrPaid(k) => Accounted(k)

LEMMA MemoryInit == Init => MemoryInv
  BY DEF Init, MemoryInv, Blank, InDoubtOrPaid

(* Nothing that was accounted for is forgotten by a step that only adds    *)
(* notes and refusals and takes away no pointer but an accounted one.      *)
LEMMA StaysAccounted ==
  ASSUME kept \subseteq kept', turnedAway \subseteq turnedAway',
         \/ pointer' = pointer
         \/ pointer = Nil
         \/ Op(pointer) \in kept'
         \/ \E task \in turnedAway' : Op(task) = Op(pointer),
         NEW k, Accounted(k)
  PROVE  Accounted(k)'
  BY DEF Accounted, Remembered

(* A step that leaves the continuations, the service and the notes alone,  *)
(* with calls and pages that stem from those before.                       *)
LEMMA MemoryService ==
  ASSUME TypeOK, MemoryInv, NEW c \in calls, Serve(c)
  PROVE  MemoryInv'
  <1>1. UNCHANGED <<pointer, kept, view, todo, turnedAway>>
    BY DEF Serve, ReadStatus, GateEvidence, ReadPrevious, Reject, Claim, Complete, Block, stored
  <1>2. \A k : Accounted(k)' <=> Accounted(k)
    BY <1>1 DEF Accounted, Remembered
  <1>3. c \in Call /\ calls \subseteq Call /\ Op(c.task) \in Operations
    BY CallFields, OpTyped DEF TypeOK
  <1>4. server[Op(c.task)] # "absent" => Replay(Op(c.task)) \in Replies
    BY <1>3, ReplayTyped
  <1>5. PICK at \in {"sent", "absent", "executing"} \cup Replies :
           Become(c, at) /\ (c.how = "recover" => at \in Replies)
    <2>1. c.how = "recover" => c.at \notin {"absent", "executing"}
      BY DEF MemoryInv, Replies
    <2> QED
      BY <1>4, <2>1 DEF Serve, ReadStatus, GateEvidence, ReadPrevious, Reject, Claim, Complete,
                        Block, Replies
  <1>6. \A d \in calls' : d \in calls \/
              (d.tab = c.tab /\ d.task = c.task /\ d.how = c.how /\ d.at = at)
    BY <1>3, <1>5, BecomeFrom
  <1>7. \A d \in calls' : IF d.how = "recover" THEN d.at \in {"sent"} \cup Replies
                          ELSE Accounted(Op(d.task))
    BY <1>5, <1>6 DEF MemoryInv
  <1>8. ASSUME NEW k \in Operations, server'[k] \in {"running", "answered"} PROVE Accounted(k)
    <2>1. CASE server'[k] = server[k]
      BY <1>8, <2>1 DEF MemoryInv, InDoubtOrPaid
    <2>2. CASE server'[k] # server[k]
      <3>1. k = Op(c.task) /\ c.at \in {"absent", "executing"}
        BY <1>3, <1>8, <2>2 DEF Serve, ReadStatus, GateEvidence, ReadPrevious, Reject, Claim,
                                Complete, Block, TypeOK
      <3>2. c.how # "recover"
        BY <3>1 DEF MemoryInv, Replies
      <3> QED
        BY <3>1, <3>2 DEF MemoryInv
    <2> QED
      BY <2>1, <2>2
  <1> QED
    BY <1>1, <1>2, <1>7, <1>8 DEF MemoryInv, InDoubtOrPaid

LEMMA MemoryPage ==
  ASSUME TypeOK, MemoryInv, NEW t \in Tabs,
         Reload(t) \/ SelectQuestion(t) \/ RequestPlan(t) \/ RequestExecute(t)
           \/ Recover(t) \/ RetryPending(t) \/ EndWaiting(t)
  PROVE  MemoryInv'
  <1>1. view \in [Tabs -> Page] /\ todo \in [Tabs -> SUBSET Continuation] /\ calls \subseteq Call
        /\ view[t] \in Page
    BY DEF TypeOK
  <1>2. UNCHANGED <<server, pointer, turnedAway>> /\ kept \subseteq kept'
    BY DEF Reload, SelectQuestion, RequestPlan, RequestExecute, Recover, RetryPending, EndWaiting, stored
  <1>3. \A k : Accounted(k) => Accounted(k)'
    BY <1>2, StaysAccounted
  <1>4. \A d \in Abort(t) : d \in calls \/
          (\E c \in calls : c.how # "recover" /\ d.task = c.task /\ d.tab = Nil
                            /\ d.how = "retry" /\ d.at = c.at)
    BY <1>1, AbortFrom
  <1>5. ASSUME NEW d \in calls'
        PROVE  IF d.how = "recover" THEN d.at \in {"sent"} \cup Replies ELSE Accounted(Op(d.task))
    <2>1. CASE d \in calls
      BY <2>1 DEF MemoryInv
    <2>2. CASE d \in Abort(t)
      BY <1>4, <2>2 DEF MemoryInv
    <2>3. CASE d \notin calls /\ d \notin Abort(t)
      <3>1. PICK task, how : d = New(t, task, how) /\ (how = "recover" \/ Accounted(Op(task)))
        BY <2>3 DEF Reload, SelectQuestion, RequestPlan, RequestExecute, Recover, RetryPending,
                    EndWaiting, MemoryInv
      <3> QED
        BY <3>1 DEF New
    <2> QED
      BY <2>1, <2>2, <2>3
  <1>6. ASSUME NEW s \in Tabs, view'[s].pending # Nil PROVE Accounted(Op(view'[s].pending))
    <2>1. CASE view'[s].pending = view[s].pending
      BY <1>6, <2>1 DEF MemoryInv
    <2>2. CASE view'[s].pending # view[s].pending
      <3>1. s = t
        BY <1>1, <2>2 DEF Reload, SelectQuestion, RequestPlan, RequestExecute, Recover,
             RetryPending, EndWaiting, Set
      <3>2. view'[t].pending = pointer /\ pointer # Nil
        <4>1. CASE Reload(t)
          BY <1>1, <1>6, <3>1, <4>1 DEF Reload, Set, Blank
        <4>2. CASE SelectQuestion(t)
          <5>1. view'[t] = [view[t] EXCEPT !.draft = Nil]
            BY <1>1, <4>2 DEF SelectQuestion, Set
          <5> QED
            BY <1>1, <2>2, <3>1, <5>1, SamePending
        <4>3. CASE RequestPlan(t)
          <5>1. view'[t] = [view[t] EXCEPT !.unknown = FALSE, !.busy = TRUE, !.draft = Nil]
            BY <1>1, <4>3 DEF RequestPlan, Set
          <5> QED
            BY <1>1, <2>2, <3>1, <5>1, SamePending
        <4>4. CASE RequestExecute(t) \/ Recover(t) \/ RetryPending(t)
          <5>1. view'[t] = [view[t] EXCEPT !.unknown = FALSE, !.busy = TRUE]
            BY <1>1, <4>4 DEF RequestExecute, Recover, RetryPending, Set
          <5> QED
            BY <1>1, <2>2, <3>1, <5>1, SamePending
        <4>5. CASE EndWaiting(t)
          <5>1. view'[t] = [view[t] EXCEPT !.busy = FALSE]
            BY <1>1, <4>5 DEF EndWaiting, Set, Abandoned
          <5> QED
            BY <1>1, <2>2, <3>1, <5>1, SamePending
        <4> QED
          BY <4>1, <4>2, <4>3, <4>4, <4>5
      <3> QED
        BY <3>1, <3>2 DEF Accounted, Remembered
    <2> QED
      BY <2>1, <2>2
  <1>7. ASSUME NEW s \in Tabs, NEW j \in todo'[s], (j.what = "clear" /\ j.paid) \/ j.what = "end"
        PROVE  Op(j.task) \in kept'
    <2>1. CASE j \in todo[s]
      BY <1>2, <1>7, <2>1 DEF MemoryInv
    <2>2. CASE j \notin todo[s] /\ ~EndWaiting(t)
      <3>1. ~Reload(t)
        BY <1>1, <1>7, <2>2 DEF Reload
      <3>2. PICK task : Await(t, task, "claim")
        BY <1>7, <2>2, <3>1 DEF SelectQuestion, RequestPlan, RequestExecute, Recover, RetryPending
      <3>3. j.what = "claim"
        BY <1>1, <1>7, <2>2, <3>2 DEF Await
      <3> QED
        BY <1>7, <3>3
    <2>3. CASE j \notin todo[s] /\ EndWaiting(t)
      <3>1. s = t /\ todo'[t] = {[i EXCEPT !.live = FALSE] : i \in todo[t]}
              \cup {[task |-> view[t].pending, what |-> "end", paid |-> FALSE, live |-> FALSE]}
        BY <1>1, <1>7, <2>3 DEF EndWaiting
      <3>2. CASE \E i \in todo[t] : j = [i EXCEPT !.live = FALSE]
        <4>1. PICK i \in todo[t] : j = [i EXCEPT !.live = FALSE]
          BY <3>2
        <4>2. i \in Continuation
          BY <1>1
        <4>3. j.what = i.what /\ j.paid = i.paid /\ j.task = i.task
          BY <4>1, <4>2 DEF Continuation
        <4> QED
          BY <1>2, <1>7, <4>3 DEF MemoryInv
      <3>3. CASE j = [task |-> view[t].pending, what |-> "end", paid |-> FALSE, live |-> FALSE]
        <4>1. j.task = view[t].pending
          BY <3>3
        <4> QED
          BY <2>3, <4>1 DEF EndWaiting
      <3> QED
        BY <1>7, <3>1, <3>2, <3>3
    <2> QED
      BY <2>1, <2>2, <2>3
  <1> QED
    BY <1>2, <1>3, <1>5, <1>6, <1>7 DEF MemoryInv, InDoubtOrPaid

LEMMA MemoryHear ==
  ASSUME TypeOK, MemoryInv, NEW c \in calls, Lose(c) \/ HearRunning(c) \/ HearError(c) \/ Receive(c)
  PROVE  MemoryInv'
  <1>1. view \in [Tabs -> Page] /\ todo \in [Tabs -> SUBSET Continuation] /\ calls \subseteq Call
    BY DEF TypeOK
  <1>2. PICK t \in Tabs : t = c.tab
    BY <1>1, CallFields DEF Lose, HearRunning, HearError, Receive
  <1>3. UNCHANGED <<server, pointer, kept, turnedAway>>
    BY DEF Lose, HearRunning, HearError, Receive, stored
  <1>4. \A k : Accounted(k) <=> Accounted(k)'
    BY <1>3 DEF Accounted, Remembered
  <1>5. \A d \in Abort(t) : d \in calls \/
          (\E e \in calls : e.how # "recover" /\ d.task = e.task /\ d.tab = Nil
                            /\ d.how = "retry" /\ d.at = e.at)
    BY <1>1, AbortFrom
  <1>6. ASSUME NEW d \in calls'
        PROVE  IF d.how = "recover" THEN d.at \in {"sent"} \cup Replies ELSE Accounted(Op(d.task))
    <2>1. CASE d \in calls
      BY <2>1 DEF MemoryInv
    <2>2. CASE d \in Abort(t)
      BY <1>5, <2>2 DEF MemoryInv
    <2>3. CASE d \notin calls /\ d \notin Abort(t)
      <3>1. d = New(c.tab, c.task, "recover")
        BY <1>2, <2>3 DEF Lose, HearRunning, HearError, Receive
      <3> QED
        BY <3>1 DEF New
    <2> QED
      BY <2>1, <2>2, <2>3
  <1>7. \A s \in Tabs : view'[s].pending = view[s].pending
    <2>1. view[t] \in Page
      BY <1>1
    <2>2. \A s \in Tabs \ {t} : view'[s] = view[s]
      BY <1>1, <1>2 DEF Lose, HearRunning, HearError, Receive, Idle, Set
    <2>3. ASSUME NEW unknown, Idle(t, unknown) PROVE view'[t].pending = view[t].pending
      <3>1. view'[t] = [view[t] EXCEPT !.unknown = unknown, !.busy = FALSE]
        BY <1>1, <2>3 DEF Idle, Set
      <3> QED
        BY <2>1, <3>1, SamePending
    <2>4. view'[t].pending = view[t].pending
      <3>1. CASE Lose(c)
        BY <1>2, <2>3, <3>1 DEF Lose
      <3>2. CASE HearRunning(c)
        <4>1. Idle(t, FALSE) \/ view'[t] = [view[t] EXCEPT !.unknown = FALSE]
          BY <1>1, <1>2, <3>2 DEF HearRunning, Set
        <4>2. [view[t] EXCEPT !.unknown = FALSE].pending = view[t].pending
          BY <2>1, SamePending
        <4>3. Idle(t, FALSE) => view'[t].pending = view[t].pending
          BY <2>3
        <4> QED
          BY <4>1, <4>2, <4>3
      <3>3. CASE HearError(c)
        BY <1>2, <2>3, <3>3 DEF HearError
      <3>4. CASE Receive(c)
        <4>1. PICK draft : draft = IF c.at = "materials" THEN view[t].draft
                                   ELSE IF c.task.phase = "plan" THEN c.task.id ELSE Nil
          OBVIOUS
        <4>2. view'[t] = [view[t] EXCEPT !.draft = draft]
          BY <1>1, <1>2, <3>4, <4>1 DEF Receive, Set
        <4> QED
          BY <2>1, <4>2, SamePending
      <3> QED
        BY <3>1, <3>2, <3>3, <3>4
    <2> QED
      BY <2>2, <2>4
  <1>8. ASSUME NEW s \in Tabs, NEW j \in todo'[s], j \notin todo[s] PROVE j.what \in {"drop", "append"}
    <2>1. CASE Lose(c) \/ HearRunning(c)
      BY <1>8, <2>1 DEF Lose, HearRunning
    <2>2. CASE HearError(c)
      <3>1. Await(t, c.task, "drop")
        BY <1>2, <1>8, <2>2 DEF HearError
      <3> QED
        BY <1>1, <1>8, <3>1 DEF Await
    <2>3. CASE Receive(c)
      BY <1>1, <1>2, <1>8, <2>3 DEF Receive
    <2> QED
      BY <2>1, <2>2, <2>3
  <1>9. \A s \in Tabs : \A j \in todo'[s] :
          (j.what = "clear" /\ j.paid) \/ j.what = "end" => Op(j.task) \in kept
    BY <1>8 DEF MemoryInv
  <1> QED
    BY <1>3, <1>4, <1>6, <1>7, <1>9 DEF MemoryInv, InDoubtOrPaid

LEMMA MemoryContinue ==
  ASSUME TypeOK, MemoryInv, NEW t \in Tabs, NEW i \in todo[t], Continue(t, i)
  PROVE  MemoryInv'
  <1>1. view \in [Tabs -> Page] /\ todo \in [Tabs -> SUBSET Continuation] /\ calls \subseteq Call
        /\ view[t] \in Page /\ i \in Continuation
    BY DEF TypeOK
  <1>2. server' = server /\ kept \subseteq kept' /\ turnedAway \subseteq turnedAway'
    BY DEF Continue, ClaimPointer, DropPointer, AppendRun, ClearPointer, FinishEnding
  <1>3. \A k : Accounted(k) => Accounted(k)'
    <2>1. \/ pointer' = pointer
          \/ pointer = Nil
          \/ Op(pointer) \in kept'
          \/ \E task \in turnedAway' : Op(task) = Op(pointer)
      <3>1. CASE ClaimPointer(t, i)
        BY <3>1 DEF ClaimPointer, PointerFree
      <3>2. CASE DropPointer(t, i)
        BY <3>2 DEF DropPointer, Cleared
      <3>3. CASE AppendRun(t, i)
        BY <3>3 DEF AppendRun
      <3>4. CASE ClearPointer(t, i)
        <4>1. CASE i.paid
          BY <3>4, <4>1 DEF ClearPointer, Cleared, MemoryInv
        <4>2. CASE ~i.paid
          BY <3>4, <4>2 DEF ClearPointer, Cleared
        <4> QED
          BY <4>1, <4>2
      <3>5. CASE FinishEnding(t, i)
        BY <3>5 DEF FinishEnding, Cleared, MemoryInv
      <3> QED
        BY <3>1, <3>2, <3>3, <3>4, <3>5 DEF Continue
    <2> QED
      BY <1>2, <2>1, StaysAccounted
  <1>4. ASSUME ClaimPointer(t, i), PointerFree PROVE Accounted(Op(i.task))'
    <2>1. pointer' = i.task /\ i.task \in Task
      BY <1>1, <1>4 DEF ClaimPointer, Continuation
    <2>2. i.task # Nil
      BY <2>1, ClientAssumption
    <2> QED
      BY <2>1, <2>2 DEF Accounted, Remembered
  <1>5. ASSUME NEW d \in calls'
        PROVE  IF d.how = "recover" THEN d.at \in {"sent"} \cup Replies ELSE Accounted(Op(d.task))'
    <2>1. CASE d \in calls
      BY <1>3, <2>1 DEF MemoryInv
    <2>2. CASE d \notin calls
      <3>1. ClaimPointer(t, i) /\ PointerFree /\ d = New(t, i.task, "request")
        BY <2>2 DEF Continue, ClaimPointer, DropPointer, AppendRun, ClearPointer, FinishEnding
      <3>2. d.task = i.task /\ d.how = "request"
        BY <3>1 DEF New
      <3> QED
        BY <1>4, <3>1, <3>2
    <2> QED
      BY <2>1, <2>2
  <1>6. ASSUME NEW s \in Tabs, view'[s].pending # Nil PROVE Accounted(Op(view[s].pending))'
    <2>1. CASE view'[s].pending = view[s].pending
      BY <1>3, <1>6, <2>1 DEF MemoryInv
    <2>2. CASE view'[s].pending # view[s].pending
      <3>1. s = t /\ (ClaimPointer(t, i) => PointerFree)
        <4>1. view' = view \/ \E page : Set(t, page)
          BY DEF Continue, ClaimPointer, DropPointer, AppendRun, ClearPointer, FinishEnding, Idle
        <4>2. ClaimPointer(t, i) /\ ~PointerFree => Idle(t, FALSE)
          BY DEF ClaimPointer
        <4>3. Idle(t, FALSE) => view'[t].pending = view[t].pending
          BY <1>1, SamePending DEF Idle, Set
        <4> QED
          BY <1>1, <2>2, <4>1, <4>2, <4>3 DEF Set
      <3>2. CASE ClaimPointer(t, i)
        <4>1. view'[t] = [view[t] EXCEPT !.pending = i.task]
          BY <1>1, <3>1, <3>2 DEF ClaimPointer, Set
        <4>2. view'[t].pending = i.task
          BY <1>1, <4>1 DEF Page
        <4>3. Accounted(Op(i.task))'
          BY <1>4, <3>1, <3>2
        <4> QED
          BY <3>1, <4>2, <4>3 DEF Accounted, Remembered
      <3>3. CASE DropPointer(t, i) \/ ClearPointer(t, i) \/ FinishEnding(t, i)
        <4>1. view'[t].pending = Nil
          BY <1>1, <3>3 DEF DropPointer, ClearPointer, FinishEnding, Set, Page
        <4> QED
          BY <1>6, <3>1, <4>1
      <3>4. CASE AppendRun(t, i)
        BY <2>2, <3>4 DEF AppendRun
      <3> QED
        BY <3>2, <3>3, <3>4 DEF Continue
    <2> QED
      BY <2>1, <2>2
  <1>7. ASSUME NEW s \in Tabs, NEW j \in todo'[s], (j.what = "clear" /\ j.paid) \/ j.what = "end"
        PROVE  Op(j.task) \in kept'
    <2>1. CASE j \in todo[s]
      BY <1>2, <1>7, <2>1 DEF MemoryInv
    <2>2. CASE j \notin todo[s]
      <3>1. AppendRun(t, i) /\ j = [i EXCEPT !.what = "clear"]
        BY <1>1, <1>7, <2>2 DEF Continue, ClaimPointer, DropPointer, AppendRun, ClearPointer,
             FinishEnding, Done, GoOn
      <3>2. j.task = i.task /\ j.paid = i.paid /\ j.what = "clear"
        BY <1>1, <3>1 DEF Continuation
      <3> QED
        BY <1>7, <3>1, <3>2 DEF AppendRun
    <2> QED
      BY <2>1, <2>2
  <1> QED
    BY <1>2, <1>3, <1>5, <1>6, <1>7 DEF MemoryInv, InDoubtOrPaid

LEMMA MemoryStep == TypeOK /\ MemoryInv /\ [Next]_vars => MemoryInv'
  <1> SUFFICES ASSUME TypeOK, MemoryInv, [Next]_vars PROVE MemoryInv'
    OBVIOUS
  <1>1. CASE UNCHANGED vars
    BY <1>1 DEF vars, MemoryInv, Accounted, Remembered, InDoubtOrPaid
  <1>2. CASE Next
    BY <1>2, MemoryService, MemoryHear, MemoryPage, MemoryContinue DEF Next
  <1> QED
    BY <1>1, <1>2

(* The browser forgets no operation that may have been paid for, unless a  *)
(* request for it was turned away, in any number of tabs and whatever is   *)
(* lost, reloaded or overtaken (claimPendingQuestion, clearPendingQuestion,*)
(* endWaiting and receive).                                                *)
THEOREM NothingPaidIsForgotten == Spec => []Unforgotten
  <1>1. MemoryInv => Unforgotten
    BY DEF MemoryInv, Unforgotten, Accounted
  <1> QED
    BY <1>1, TypeInit, TypeStep, MemoryInit, MemoryStep, PTL DEF Spec
=============================================================================
