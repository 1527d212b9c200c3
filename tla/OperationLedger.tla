--------------------------- MODULE OperationLedger ---------------------------
(***************************************************************************)
(* What the durable operation store promises to the browser sessions that  *)
(* use it, without files, locks, crashes or recovery commands.             *)
(*                                                                         *)
(* An operation is a paid question to a model provider.  Its identifier    *)
(* comes from the client, so the same identifier may arrive many times,    *)
(* from several tabs, from another session, or after a restart.  The       *)
(* promise is: an identifier is bound once to one session and one input,   *)
(* at most one provider request is sent for it, its outcome is decided     *)
(* once, and a session only ever receives the decided outcome of an        *)
(* operation it owns.                                                      *)
(***************************************************************************)
EXTENDS Integers

CONSTANTS
  Ops,          \* operation identifiers (a phase and a UUID)
  Owners,       \* hashes of reviewer sessions
  Inputs,       \* hashes of canonical request bodies
  Responses,    \* what a handler run can produce: a status and a body
  Requests,     \* HTTP requests being served
  Nil           \* nothing: no binding, no decided outcome, no answer

Record == [owner : Owners, input : Inputs, resp : Responses \cup {Nil}]

VARIABLES
  status,       \* status[op]: where the operation stands
  bound,        \* bound[op]: the session, input and outcome op is bound to
  sent,         \* sent[op]: provider requests sent for op
  answers       \* answers[q]: the outcome delivered to request q

vars == <<status, bound, sent, answers>>

Delivery == [op : Ops, owner : Owners, resp : Responses]

TypeOK ==
  /\ status \in [Ops -> {"absent", "running", "completed", "uncertain"}]
  /\ bound \in [Ops -> Record \cup {Nil}]
  /\ sent \in [Ops -> 0..1]
  /\ answers \in [Requests -> Delivery \cup {Nil}]

Init ==
  /\ status = [op \in Ops |-> "absent"]
  /\ bound = [op \in Ops |-> Nil]
  /\ sent = [op \in Ops |-> 0]
  /\ answers = [q \in Requests |-> Nil]

(* Bind an identifier that was never used to a session and an input.       *)
Claim(op, o, i) ==
  /\ status[op] = "absent"
  /\ status' = [status EXCEPT ![op] = "running"]
  /\ bound' = [bound EXCEPT ![op] = [owner |-> o, input |-> i, resp |-> Nil]]
  /\ UNCHANGED <<sent, answers>>

(* Send the one provider request.  An operator may have quarantined the    *)
(* operation meanwhile; the request still counts as the only one.          *)
Send(op) ==
  /\ status[op] \in {"running", "uncertain"}
  /\ sent[op] = 0
  /\ sent' = [sent EXCEPT ![op] = 1]
  /\ UNCHANGED <<status, bound, answers>>

Complete(op, r) ==
  /\ status[op] = "running"
  /\ status' = [status EXCEPT ![op] = "completed"]
  /\ bound' = [bound EXCEPT ![op].resp = r]
  /\ UNCHANGED <<sent, answers>>

(* An operator declares that the outcome cannot be known.                  *)
Quarantine(op) ==
  /\ status[op] = "running"
  /\ status' = [status EXCEPT ![op] = "uncertain"]
  /\ UNCHANGED <<bound, sent, answers>>

(* Deliver a decided outcome to its owner.                                 *)
Answer(q, op, o, r) ==
  /\ status[op] = "completed"
  /\ bound[op].owner = o /\ bound[op].resp = r
  /\ answers' = [answers EXCEPT ![q] = [op |-> op, owner |-> o, resp |-> r]]
  /\ UNCHANGED <<status, bound, sent>>

(* Connections close, alone or with the process that served them.          *)
Close(qs) ==
  /\ answers' = [q \in Requests |-> IF q \in qs THEN Nil ELSE answers[q]]
  /\ UNCHANGED <<status, bound, sent>>

Next ==
  \/ \E op \in Ops, o \in Owners, i \in Inputs : Claim(op, o, i)
  \/ \E op \in Ops : Send(op) \/ Quarantine(op)
  \/ \E op \in Ops, r \in Responses : Complete(op, r)
  \/ \E q \in Requests, op \in Ops, o \in Owners, r \in Responses : Answer(q, op, o, r)
  \/ \E qs \in SUBSET Requests : Close(qs)

Spec == Init /\ [][Next]_vars

=============================================================================
