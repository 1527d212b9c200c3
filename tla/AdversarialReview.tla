------------------------- MODULE AdversarialReview --------------------------
(***************************************************************************)
(* The second look at an explanation before a person reads it: what the    *)
(* judge is shown, what its verdict amounts to, and what is recorded.      *)
(*                                                                         *)
(* Probabilities are whole percents; any other integer stands for a value  *)
(* that is no probability.  Hashes, names and token counts are left out.   *)
(***************************************************************************)
EXTENDS ResearchContracts

ReviewOutcomes == {"PASS_CANDIDATE", "REVIEW", "BLOCK"}
Decisions == {"supported", "uncertain", "contradicted"}

(* What a judge returns, well formed or not.                               *)
JudgeVerdict ==
  [decision : Decisions \cup {"other"},
   confidence : Int, evidenceSupports : Int, counterAddressed : Int]

ReviewRecord ==
  [outcome : ReviewOutcomes,
   reason : {"none", "JUDGE_UNAVAILABLE", "JUDGE_RESPONSE_INVALID",
             "SEMANTIC_CONFLICT_CANDIDATE", "SEMANTIC_REVIEW_REQUIRED"},
   verdict : JudgeVerdict \cup {Nil},
   humanGate : {"pending"}]

(* buildReviewState; Nil if it throws.  The explanation is validated again,*)
(* without the contract it was written for.                                *)
BuildReviewState(context, explanation) ==
  IF AcceptsExplanation(explanation, context, NoContract)
  THEN [points |-> explanation.points, references |-> context.evidence]
  ELSE Nil

Probability(value) == value \in 0..100

WellFormed(verdict) ==
  /\ verdict.decision \in Decisions
  /\ Probability(verdict.confidence)
  /\ Probability(verdict.evidenceSupports)
  /\ Probability(verdict.counterAddressed)

Conflict(verdict) ==
  \/ verdict.decision = "contradicted" /\ verdict.confidence >= 80
  \/ verdict.evidenceSupports <= 20
  \/ verdict.counterAddressed <= 20

Support(verdict) ==
  /\ verdict.decision = "supported" /\ verdict.confidence >= 90
  /\ verdict.evidenceSupports >= 90 /\ verdict.counterAddressed >= 90

DecideReview(verdict) ==
  LET Outcome(outcome, reason) == [outcome |-> outcome, reason |-> reason] IN
  CASE verdict = Nil -> Outcome("REVIEW", "JUDGE_UNAVAILABLE")
    [] verdict # Nil ->
         IF ~WellFormed(verdict) THEN Outcome("REVIEW", "JUDGE_RESPONSE_INVALID")
         ELSE IF Conflict(verdict) THEN Outcome("BLOCK", "SEMANTIC_CONFLICT_CANDIDATE")
         ELSE IF Support(verdict) THEN Outcome("PASS_CANDIDATE", "none")
         ELSE Outcome("REVIEW", "SEMANTIC_REVIEW_REQUIRED")

(* jevJudge: one request for three questions, to a model that is pinned;   *)
(* Nil if it throws, the response of the service being Nil if that failed. *)
JevJudge(apiKey, model, response) ==
  IF ~apiKey \/ model \in {Nil, "jev-latest"} THEN Nil ELSE response

(* reviewCandidate; Nil if it throws, before the judge is asked.  A judge  *)
(* that throws has no verdict.                                             *)
ReviewCandidate(context, explanation, verdict) ==
  IF BuildReviewState(context, explanation) = Nil THEN Nil
  ELSE [outcome |-> DecideReview(verdict).outcome, reason |-> DecideReview(verdict).reason,
        verdict |-> verdict, humanGate |-> "pending"]
=============================================================================
