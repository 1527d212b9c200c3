---------------------------- MODULE DecisionCases ----------------------------
(***************************************************************************)
(* The decision chain against its policy: every report and every history   *)
(* of periods up to a length, with every gate, opinion and valuation.      *)
(*                                                                         *)
(* The fold of the code over the history, its fallbacks and the three      *)
(* layers that amend one another are compared with declarative statements  *)
(* of the policy text.                                                     *)
(***************************************************************************)
EXTENDS ResearchContracts

CONSTANTS
  Reports,     \* reports that come out of review
  Rows,        \* prior periods a caller may hand in, Nil among them
  Opinions,    \* professional opinions, Nil among them
  Valuations,  \* valuation inputs
  MaxPrior     \* length of a history

(* A period that was accepted in review has a number and a growth, and the *)
(* period of a report is known (ordinal); an opinion comes to a conclusion *)
(* (validateProfessionalReview).                                           *)
ASSUME CasesAssumption ==
  /\ Nil \notin Int \cup Intents \cup
        {"recurring", "non-recurring", "adjusted", "attributable", "compact", "legacy"}
  /\ \A r \in Reports : r.number \in Int /\ r.adjustedYoy \in Int \cup {Nil}
  /\ \A row \in Rows \ {Nil} :
       row.accepted \in BOOLEAN /\ (row.accepted => row.number \in Int /\ row.yoy \in Int)
  /\ \A opinion \in Opinions \ {Nil} : opinion.conclusion \in Conclusions
  /\ Valuations \subseteq ValuationInputs

VARIABLES
  report,   \* the report under review
  current,  \* the period the caller labels it with
  prior     \* the history handed in, oldest first

casesVars == <<report, current, prior>>

(* The labels a caller may give: the right one, none, or one that is wrong *)
(* in one respect.                                                         *)
Labels(r) ==
  LET right == Period(r.source, Anker, r.kind, r.number, r.adjustedYoy, r.adjustedYoy # Nil)
  IN {Nil, right, [right EXCEPT !.accepted = FALSE], [right EXCEPT !.number = @ + 1],
      [right EXCEPT !.company = Nil], [right EXCEPT !.source = Nil], [right EXCEPT !.yoy = -70]}

CasesInit ==
  /\ report \in Reports
  /\ current \in Labels(report)
  /\ prior = <<>>

(* A report is reviewed and labelled.                                      *)
Review(r) ==
  /\ report' = r
  /\ current' \in Labels(r)
  /\ UNCHANGED prior

(* The history gets one more period.                                       *)
AddPeriod(row) ==
  /\ Len(prior) < MaxPrior
  /\ prior' = Append(prior, row)
  /\ UNCHANGED <<report, current>>

CasesNext ==
  \/ \E r \in Reports : Review(r)
  \/ \E row \in Rows : AddPeriod(row)

CasesSpec == CasesInit /\ [][CasesNext]_casesVars

-----------------------------------------------------------------------------
(* The policy.  Neither the criterion nor the basis depends on a valuation.*)

NoValuation == [factor |-> "missing", shares |-> "missing", multiples |-> "missing", finite |-> TRUE]

(* The period under review and the one before it, both verified and on one *)
(* basis, grew by nothing or shrank, at the end of an unbroken history.    *)
TwoInARow ==
  LET n == Len(prior) IN
  /\ n > 0
  /\ Nil \notin {prior[i] : i \in 1..n}
  /\ \A i \in 1..n :
       /\ prior[i].accepted
       /\ prior[i].company = current.company
       /\ prior[i].kind = current.kind
       /\ prior[i].number = current.number - (n + 1 - i)
       /\ prior[i].source # current.source
       /\ \A j \in 1..n : i # j => prior[i].source # prior[j].source
  /\ prior[n].yoy <= 0
  /\ current.yoy <= 0

OneInARow == CurrentVerified(report, current) /\ current.yoy <= 0

(* K-07 triggers exactly when an approved accounting opinion finds the     *)
(* adjustments recurring, or two verified comparable periods in a row did  *)
(* not grow; one such period is watched (the policy text K07_B_TEXT).  No  *)
(* gap, mixture of companies, kinds or units, repeated evidence or         *)
(* unreviewed period makes up the second period.  The layers agree on it:  *)
(* the earnings basis falls back to attributable profit exactly when it is *)
(* triggered, and the claim is weakened when it is triggered or watched,   *)
(* although V0.1 computes these and V0.2 recomputes the criterion.         *)
TriggeredByPolicy ==
  \A recurring \in Views, gates \in Gates :
    LET result == RunC04ChainK07B(report, current, prior, recurring, gates, NoValuation)
        recognized == recurring = "recurring" /\ gates["EG-01"] = "approved" IN
    result.status # "blocked" =>
      /\ result.criterion = "triggered" <=> recognized \/ (OneInARow /\ TwoInARow)
      /\ result.criterion = "watch" <=> ~recognized /\ OneInARow /\ ~TwoInARow
      /\ result.basis = "attributable" <=> result.criterion = "triggered"
      /\ result.criterion \in {"triggered", "watch"} => result.signal = "weakened"

(* In V0.3 no caller closes a gate alone: EG-01 leaves the list, the       *)
(* assumption is judged and accounting triggers only with a completed human*)
(* opinion on this very report and an approved gate; EG-02 stays open and  *)
(* no valuation scenario comes out, whatever the inputs.                   *)
OnlyOpinionsOpenGates ==
  \A opinion \in Opinions, gates \in Gates, valuation \in Valuations :
    LET backed == /\ opinion # Nil
                  /\ opinion.author = "human" /\ opinion.completed
                  /\ opinion.source = report.source
                  /\ gates["EG-01"] = "approved"
        classes == {row.class : row \in {r \in opinion.accounting : r.coverage = "entire"}} IN
    \A result \in {RunC04ChainReviewed(report, current, prior, opinion, gates, valuation)} \ {Nil} :
      /\ "EG-02" \in result.decisionGates \cap result.valuationGates
      /\ ~result.scenarios
      /\ "EG-01" \notin result.decisionGates => backed
      /\ result.assumption # "pending-review" => backed
      /\ result.accounting = "triggered" => backed /\ classes = {"recurring"}
      /\ result.accounting = "clear" => backed /\ classes = {"non-recurring"}

(* Whatever evidence a decision leaves, what the model is offered is what  *)
(* the validators accept, so that an answer that keeps to the schema is    *)
(* never paid for in vain: the fixed groups of generation 11 make a whole  *)
(* answer, and every group of the earlier ones passes where it is offered. *)
(* A memo, whose schema leaves all citations open, is accepted if it cites *)
(* everything and there are facts on both sides; otherwise none is.        *)
OfferedIsAccepted ==
  Complete(report) /\ BridgeCloses(report) /\ prior = <<>> =>
    /\ \A context \in QuestionContexts(report), question \in Questions :
         \A output \in OfferedAnswers(context, question) : AcceptsOutput(output, context, question)
    /\ \A evidence \in {ChainEvidence(report)} : \A counter \in {On("counter", evidence)} :
         /\ \A point \in Points : \A group \in CitationChoices(point, counter) :
              AcceptsParagraph(point, group, counter)
         /\ AcceptsMemo(StoredMemo(OfferedMemo(References)), evidence, MEMO_PROMPT_VERSION)
              <=> {"support", "counter"} \subseteq {evidence[id] : id \in DOMAIN evidence}
-----------------------------------------------------------------------------
(* Results.                                                                *)

(* The parts of a result agree: what holds up the decision holds up the    *)
(* valuation too, a scenario is shown of a bridge that closes and of inputs*)
(* that are valid only, and earnings have a basis unless the report was    *)
(* refused.                                                                *)
Coherent(result) ==
  /\ result.decisionGates \subseteq result.valuationGates
  /\ result.scenarios => result.status = "ready" /\ "INPUT" \notin result.valuationGates
  /\ result.basis = Nil <=> "PARSER" \in result.decisionGates

(* Whatever a caller hands in, each generation returns a whole result whose*)
(* parts agree; V0.1 given the growth of the verified periods, V0.3 unless *)
(* the opinion is about another report.                                    *)
ResultsCohere ==
  \A gates \in Gates, valuation \in Valuations :
    /\ \A recurring \in Views :
         LET context == V01Context(report, current, prior, recurring, gates) IN
         \A result \in {RunC04Chain(report, context.prior, context.recurring, gates, valuation),
                        RunC04ChainK07B(report, current, prior, recurring, gates, valuation)} :
           result \in C04ChainResult /\ Coherent(result)
    /\ \A opinion \in Opinions :
         \A result \in {RunC04ChainReviewed(report, current, prior, opinion, gates, valuation)} \ {Nil} :
           result \in C04ChainResult /\ Coherent(result)
=============================================================================
