------------------------------ MODULE BatchRunner ------------------------------
(***************************************************************************)
(* The two scripts that pay for a batch of model requests: six requests for*)
(* three questions, and three memo samples.  Each runs once on a server of *)
(* its own, stops at the first failure, and may be killed or run out of    *)
(* disk at any write.                                                      *)
(*                                                                         *)
(* Whether a request was paid for is known only from the files.  The       *)
(* question batch writes each state of its manifest to a new numbered file *)
(* before it overwrites manifest.json, and archives every answer before it *)
(* records it; the memo batch overwrites its only manifest, and makes a    *)
(* directory for each sample that must not exist.                          *)
(***************************************************************************)
EXTENDS Integers, Sequences, SequencesExt

CONSTANTS
  Requests    \* Requests[kind]: how many requests a batch of that kind has

Kinds == {"question", "memo"}
ASSUME BatchAssumption == Requests \in [Kinds -> Nat]

VARIABLES
  kind,      \* which of the two scripts
  at,        \* where the script is, "idle" when it does not run,
  resume,    \*   and where it goes on after saving
  records,   \* the requests of the manifest in memory
  verdict,   \* its status
  out,       \* the output directory exists
  numbered,  \* the numbered checkpoints on disk, in order
  manifest,  \* manifest.json: whole or torn, and the records in it
  archives,  \* requests whose answer is archived, samples with a directory
  calls      \* calls[i]: how often request i was sent (history)

batchVars == <<kind, at, resume, records, verdict, out, numbered, manifest,
               archives, calls>>

Indexes == 1..Requests["question"]

BatchInit ==
  /\ kind \in Kinds
  /\ at = "idle" /\ resume = "idle" /\ records = <<>> /\ verdict = "running"
  /\ out = FALSE
  /\ numbered = <<>> /\ manifest = [whole |-> FALSE, records |-> <<>>] /\ archives = {}
  /\ calls = [i \in Indexes |-> 0]

Current == Len(records)

SaveThen(there) == at' = "save" /\ resume' = there
Ends == at' = "idle" /\ resume' = "idle"

-----------------------------------------------------------------------------
(* main(): the question batch refuses an output directory that is there,   *)
(* and makes it before it reads its snapshot and brings its server up.     *)
StartBatch ==
  /\ at = "idle" /\ (kind = "question" => ~out)
  /\ out' = TRUE
  /\ records' = <<>> /\ verdict' = "running"
  /\ SaveThen("next")
  /\ UNCHANGED <<kind, numbered, manifest, archives, calls>>

(* No snapshot of the real report, no server that answers, or no session:  *)
(* nothing was sent, and the directory stays.                              *)
StartFails ==
  /\ at = "idle" /\ kind = "question" /\ ~out
  /\ out' = TRUE
  /\ UNCHANGED <<kind, at, resume, records, verdict, numbered, manifest, archives, calls>>

(* checkpoint(): the numbered file, then the manifest in place.  When one  *)
(* of them cannot be written the script ends.                              *)
Save ==
  /\ at = "save"
  /\ IF kind = "memo" THEN at' = "overwrite" /\ UNCHANGED <<resume, numbered>>
     ELSE \/ numbered' = Append(numbered, records) /\ at' = "overwrite" /\ UNCHANGED resume
          \/ Ends /\ UNCHANGED numbered
  /\ UNCHANGED <<kind, records, verdict, out, manifest, archives, calls>>

Overwrite ==
  /\ at = "overwrite"
  /\ \/ manifest' = [whole |-> TRUE, records |-> records] /\ at' = resume /\ UNCHANGED resume
     \/ manifest' = [manifest EXCEPT !.whole = FALSE] /\ Ends
  /\ UNCHANGED <<kind, records, verdict, out, numbered, archives, calls>>

(* Variant: the reservation is saved together with the result.             *)
ReserveUnsaved ==
  /\ kind = "question" /\ at = "next" /\ verdict = "running" /\ Current < Requests[kind]
  /\ records' = Append(records, "reserved")
  /\ at' = "call" /\ UNCHANGED resume
  /\ UNCHANGED <<kind, verdict, out, numbered, manifest, archives, calls>>

(* A request is reserved in the manifest before it is sent.                *)
ReserveRequest ==
  /\ kind = "question" /\ at = "next" /\ verdict = "running" /\ Current < Requests[kind]
  /\ records' = Append(records, "reserved")
  /\ SaveThen("call")
  /\ UNCHANGED <<kind, verdict, out, numbered, manifest, archives, calls>>

(* So is a sample.                                                         *)
ReserveSample ==
  /\ kind = "memo" /\ at = "next" /\ verdict = "running" /\ Current < Requests[kind]
  /\ records' = Append(records, "reserved")
  /\ SaveThen("call")
  /\ UNCHANGED <<kind, verdict, out, numbered, manifest, archives, calls>>

(* verifyLiveQuestionPhase: a response passes every check of its phase,    *)
(* the replay of the run from the recorded output of the model included,   *)
(* or the first that it fails is its failure.                              *)
PhaseOutcome == {"verified", "failed"}

(* The request is sent, and its response verified.                         *)
ExecutePhase ==
  /\ calls' = [calls EXCEPT ![Current] = @ + 1]
  /\ at' \in PhaseOutcome

(* A request that has no answer, or used more than its budget, has failed. *)
CallRequest ==
  /\ at = "call" /\ kind = "question"
  /\ ExecutePhase
  /\ UNCHANGED <<kind, resume, records, verdict, out, numbered, manifest, archives>>

(* sampleResult: the files of the sample are read once its process ended;  *)
(* they are missing, or fail a check, or pass them all.                    *)
SampleOutcome == {"verified", "failed"}

(* The sample runs in a process of its own, in a directory that must not   *)
(* exist; either may fail before anything is sent.                         *)
ExecuteSample ==
  \/ /\ archives' \in {archives, archives \cup {Current}}
     /\ at' = "failed" /\ UNCHANGED calls
  \/ /\ Current \notin archives /\ archives' = archives \cup {Current}
     /\ calls' = [calls EXCEPT ![Current] = @ + 1]
     /\ at' \in SampleOutcome

RunSample ==
  /\ at = "call" /\ kind = "memo"
  /\ ExecuteSample
  /\ UNCHANGED <<kind, resume, records, verdict, out, numbered, manifest>>

(* archive() comes before the record, and its failure ends the batch.      *)
(* `at' remembers how the request went.                                    *)
Archive ==
  /\ kind = "question" /\ at \in {"verified", "failed"} /\ Current \notin archives
  /\ \/ archives' = archives \cup {Current} /\ UNCHANGED <<at, resume, records, verdict>>
     \/ /\ records' = [records EXCEPT ![Current] = "failed"]
        /\ verdict' = "stopped"
        /\ SaveThen("idle") /\ UNCHANGED archives
  /\ UNCHANGED <<kind, out, numbered, manifest, calls>>

(* The result is recorded and saved; a failure stops the whole batch.      *)
RecordResult ==
  /\ kind = "question" /\ at \in {"verified", "failed"} /\ Current \in archives
  /\ records' = [records EXCEPT ![Current] = at]
  /\ verdict' = IF at = "failed" THEN "stopped" ELSE verdict
  /\ SaveThen("next")
  /\ UNCHANGED <<kind, out, numbered, manifest, archives, calls>>

(* A sample also fails if its input or the model that answered is not that *)
(* of the first one, its fingerprint; the last one completes the batch.    *)
RecordSample ==
  /\ kind = "memo" /\ at \in {"verified", "failed"}
  /\ \E result \in {at} \cup (IF Current = 1 THEN {} ELSE {"failed"}) :
       /\ records' = [records EXCEPT ![Current] = result]
       /\ verdict' = CASE result = "failed" -> "stopped"
                       [] result # "failed" /\ Current = Requests[kind] -> "completed"
                       [] OTHER -> verdict
  /\ SaveThen("next")
  /\ UNCHANGED <<kind, out, numbered, manifest, archives, calls>>

FinishBatch ==
  /\ at = "next" /\ (verdict # "running" \/ Current = Requests[kind])
  /\ verdict' = IF verdict = "running" THEN "completed" ELSE verdict
  /\ SaveThen("idle")
  /\ UNCHANGED <<kind, records, out, numbered, manifest, archives, calls>>

(* The script is killed; a manifest that was being written is torn.        *)
KillBatch ==
  /\ at # "idle"
  /\ Ends
  /\ \E whole \in {manifest.whole, manifest.whole /\ at # "overwrite"} :
       manifest' = [manifest EXCEPT !.whole = whole]
  /\ UNCHANGED <<kind, records, verdict, out, numbered, archives, calls>>

BatchNext ==
  \/ StartBatch \/ StartFails \/ Save \/ Overwrite
  \/ ReserveRequest \/ CallRequest \/ Archive \/ RecordResult
  \/ ReserveSample \/ RunSample \/ RecordSample
  \/ FinishBatch \/ KillBatch

BatchSpec == BatchInit /\ [][BatchNext]_batchVars

-----------------------------------------------------------------------------
(* Properties.                                                             *)

Evidence(i) == IF kind = "memo" THEN i \in archives
               ELSE \E k \in DOMAIN numbered : i \in DOMAIN numbered[k]

(* No request is paid for twice or without a trace, also when the script is*)
(* killed and started again: it was sent at most once, and a file that is  *)
(* never overwritten says that it may have been.                           *)
PaidOnceWithTrace ==
  \A i \in Indexes : calls[i] <= 1 /\ (calls[i] = 1 => Evidence(i))
-----------------------------------------------------------------------------
(* What the proof of this property needs: a stronger invariant.            *)

BatchTypeOK ==
  /\ kind \in Kinds
  /\ at \in {"idle", "save", "overwrite", "next", "call", "verified", "failed"}
  /\ resume \in {"idle", "next", "call"}
  /\ records \in Seq({"reserved", "verified", "failed"})
  /\ out \in BOOLEAN
  /\ numbered \in Seq(Seq({"reserved", "verified", "failed"}))
  /\ calls \in [Indexes -> Nat]

(* The script is about to send the request it has just reserved.           *)
BeforeCall == at = "call" \/ (at \in {"save", "overwrite"} /\ resume = "call")

(* The question batch runs once, and calls only what it has reserved; when *)
(* it sends a request, a numbered checkpoint has the reservation.          *)
QuestionBatchInv ==
  kind = "question" =>
    /\ ~out => at = "idle" /\ \A i \in Indexes : calls[i] = 0
    /\ at # "idle" => \A i \in Indexes : calls[i] # 0 =>
         i <= Current /\ (BeforeCall => i < Current)
    /\ (at = "call" \/ (at = "overwrite" /\ resume = "call")) => Evidence(Current)

(* There is a request that the script sends or has sent.                   *)
HasRequest == BeforeCall \/ at \in {"verified", "failed"} => records # <<>>

BatchInv == BatchTypeOK /\ HasRequest /\ QuestionBatchInv /\ PaidOnceWithTrace
=============================================================================
