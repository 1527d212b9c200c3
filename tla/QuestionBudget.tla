---------------------------- MODULE QuestionBudget ----------------------------
(***************************************************************************)
(* What the batch of question requests may use: the budget that a person   *)
(* acknowledges before it, the estimate of each request before it is sent, *)
(* and the summary of what the requests are known to have used.            *)
(*                                                                         *)
(* Amounts are in millionths of a dollar.  They are an estimate: nothing   *)
(* stops the provider from charging for a request that has no answer.  How *)
(* the batch proceeds is BatchRunner's, which leaves the counts out.       *)
(***************************************************************************)
EXTENDS Integers, Sequences

QUESTION_BATCH_BUDGET ==
  [maxRequests |-> 6,
   maxInputEstimatePerRequest |-> 16000, maxOutputTokensPerRequest |-> 6000,
   maxInputEstimateTotal |-> 96000, maxOutputTokensTotal |-> 36000,
   framingReserve |-> 4096,
   inputUsdCentsPerMillion |-> 132, outputUsdCentsPerMillion |-> 396,
   estimateCeilingUsdMicros |-> 350000]

(* Number.isSafeInteger of a count.                                        *)
SafeCounts == 0..(2^53 - 1)

RoundedUp(amount, unit) == (amount + unit - 1) \div unit

CostEstimateUsdMicros(inputTokens, outputTokens) ==
  RoundedUp(inputTokens * QUESTION_BATCH_BUDGET.inputUsdCentsPerMillion
              + outputTokens * QUESTION_BATCH_BUDGET.outputUsdCentsPerMillion, 100)

(* budgetSummary: what the whole batch may cost, and a quarter on top.     *)
BudgetSummary ==
  LET maximum == CostEstimateUsdMicros(QUESTION_BATCH_BUDGET.maxInputEstimateTotal,
                                       QUESTION_BATCH_BUDGET.maxOutputTokensTotal)
  IN [estimatedMaximumUsdMicros |-> maximum,
      planningReserveUsdMicros |-> RoundedUp(maximum * 125, 100)]

(* assertQuestionBatchEnvironment, of the amounts: the batch does not start*)
(* unless the reserve is below the ceiling.                                *)
BatchAuthorized ==
  BudgetSummary.planningReserveUsdMicros <= QUESTION_BATCH_BUDGET.estimateCeilingUsdMicros

(* checkQuestionInputBudget: every byte of a request counts as a token, and*)
(* an admitted request is estimated with all the output it may have.       *)
EstimatedInputTokens(wireBytes) == wireBytes + QUESTION_BATCH_BUDGET.framingReserve

CheckQuestionInputBudget(wireBytes) ==
  EstimatedInputTokens(wireBytes) <= QUESTION_BATCH_BUDGET.maxInputEstimatePerRequest

EstimatedCostUsdMicros(wireBytes) ==
  CostEstimateUsdMicros(EstimatedInputTokens(wireBytes),
                        QUESTION_BATCH_BUDGET.maxOutputTokensPerRequest)

-----------------------------------------------------------------------------
(* What requests have used.  A request without an answer, or with a usage  *)
(* that is none, has none.                                                 *)

NoUsage == [inputTokens |-> 0, outputTokens |-> 0]
Usage == [inputTokens : SafeCounts, outputTokens : SafeCounts]
Receipts == [usage : Usage, known : BOOLEAN, status : {"technical-completed", "failed"}]

(* summarize(): a failed request counts as well, if its usage is known.    *)
Counted(receipt) == IF receipt.known THEN receipt.usage ELSE NoUsage

Plus(total, usage) ==
  [inputTokens |-> total.inputTokens + usage.inputTokens,
   outputTokens |-> total.outputTokens + usage.outputTokens]

Summarize(requests) ==
  LET sum[k \in 0..Len(requests)] ==
        IF k = 0 THEN NoUsage ELSE Plus(sum[k - 1], Counted(requests[k]))
  IN sum[Len(requests)]

(* An answer that was verified is a success only if its usage is known and,*)
(* with those before it, within the budget; or else the batch ends.        *)
WithinLimits(usage) ==
  /\ usage.inputTokens <= QUESTION_BATCH_BUDGET.maxInputEstimatePerRequest
  /\ usage.outputTokens <= QUESTION_BATCH_BUDGET.maxOutputTokensPerRequest

Receive(requests, usage, known, verified) ==
  LET total == Summarize(requests).inputTokens + usage.inputTokens
      ok == /\ verified /\ known /\ WithinLimits(usage)
            /\ total <= QUESTION_BATCH_BUDGET.maxInputEstimateTotal
  IN Append(requests, [usage |-> usage, known |-> known,
                       status |-> IF ok THEN "technical-completed" ELSE "failed"])

(* What a batch that goes on has: no request failed.                       *)
Succeeded(requests) ==
  \A k \in DOMAIN requests :
    /\ requests[k].status = "technical-completed"
    /\ requests[k].known /\ WithinLimits(requests[k].usage)
=============================================================================
