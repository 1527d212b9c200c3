---------------------------- MODULE DecisionChain ----------------------------
(***************************************************************************)
(* The decision chain: what a reviewed financial report does to the claim  *)
(* C-04, its kill criterion K-07, the valuation and the open gates.  Three *)
(* generations are in use, because an archived snapshot is replayed with   *)
(* the one that made it: V0.1, V0.2-K07-B, which trusts only reviewed and  *)
(* labelled periods, and V0.3, which takes an attributed professional      *)
(* opinion.  Each calls the one before and amends its result.              *)
(*                                                                         *)
(* Amounts are in steps of 0.0004 CNY mn, so that the tolerance of 0.001   *)
(* lies between two and three of them; growth is in thousandths.  Nil      *)
(* stands for a value that is missing or not finite.                       *)
(***************************************************************************)
EXTENDS Integers, FiniteSets, SequencesExt

CONSTANTS
  Anker,  \* the company the chain is about
  Nil     \* missing

(* A report: its source, the period in its title (its kind, and its number *)
(* in the sequence of that kind), whether the parser promotes it, and what *)
(* it reads: clean and every amount present, or not.                       *)
Complete(report) == report.clean /\ Nil \notin {report.attr, report.adjusted, report.nonRecurring}

(* A labelled period: the growth of adjusted profit in some period of some *)
(* company, the evidence for it, and whether it was accepted in review, in *)
(* the one basis and unit that count.                                      *)
Period(source, company, kind, number, yoy, accepted) ==
  [source |-> source, company |-> company, kind |-> kind, number |-> number,
   yoy |-> yoy, accepted |-> accepted]

-----------------------------------------------------------------------------
(* V0.1.                                                                   *)

(* Variant: an interrupted sequence goes on counting.                      *)
AllNonPositive(series) == Cardinality({i \in DOMAIN series : series[i] <= 0})

(* Variant: growth of exactly zero is positive.                            *)
TrailingNegative(series) ==
  Cardinality({i \in DOMAIN series : \A j \in i..Len(series) : series[j] < 0})

TrailingNonPositiveCount(series) ==
  Cardinality({i \in DOMAIN series : \A j \in i..Len(series) : series[j] <= 0})

(* Gates that are not approved.                                            *)
OpenGates(gates) == {g \in {"EG-01", "EG-02"} : gates[g] # "approved"}

(* inferAnnualizationFactor: first quarters, halves and years have one.    *)
Annualizable(report) == report.kind # "quarter" \/ report.number % 4 = 1

(* F-02: attributable profit less non-recurring items is adjusted profit.  *)
BridgeCloses(report) ==
  LET difference == report.attr - report.nonRecurring - report.adjusted
  IN difference \in -2..2

(* What stands in the way of a valuation; an input is "missing", "invalid",*)
(* or "valid", and the result may be too large for a number.               *)
ValuationGaps(report, valuation) ==
  LET factor == IF valuation.factor = "missing" /\ Annualizable(report)
                THEN "valid" ELSE valuation.factor
      inputs == <<factor, valuation.shares, valuation.multiples>>
      valid == \A i \in 1..3 : inputs[i] = "valid" IN
  {g \in {"PERIOD", "SHARES", "MULTIPLES", "F-02", "INPUT", "NON_FINITE"} :
     CASE g = "PERIOD" -> factor = "missing"
       [] g = "SHARES" -> valuation.shares = "missing"
       [] g = "MULTIPLES" -> valuation.multiples = "missing"
       [] g = "F-02" -> ~BridgeCloses(report)
       [] g = "INPUT" -> ~valid
       [] g = "NON_FINITE" -> valid /\ BridgeCloses(report) /\ ~valuation.finite}

(* What the growth says about the claim when K-07 is not triggered.        *)
GrowthSignal(report) ==
  CASE report.adjustedYoy = Nil -> "unchanged"
    [] report.adjustedYoy # Nil /\ report.adjustedYoy <= 0 -> "weakened"
    [] OTHER -> IF report.attrYoy # Nil /\ report.adjustedYoy > report.attrYoy
                THEN "strengthened" ELSE "mixed"

Accounting(recurring) ==
  CASE recurring = Nil -> "unknown" [] recurring = "recurring" -> "triggered"
    [] recurring = "non-recurring" -> "clear"

(* The report is kept out of the chain.                                    *)
RefusedReport(gates) ==
  [status |-> "blocked", signal |-> "blocked", assumption |-> "pending-review",
   quantitative |-> "clear", accounting |-> "unknown", criterion |-> "clear", count |-> 0,
   basis |-> Nil, scenarios |-> FALSE,
   valuationGates |-> {"PARSER"} \cup OpenGates(gates),
   decisionGates |-> {"PARSER"} \cup OpenGates(gates)]

(* runC04Chain; prior is a sequence of growths, the current one excluded.  *)
RunC04Chain(report, prior, recurring, gates, valuation) ==
  IF ~Complete(report) THEN RefusedReport(gates) ELSE
  LET current == IF report.adjustedYoy = Nil THEN <<>> ELSE <<report.adjustedYoy>>
      count == TrailingNonPositiveCount(prior \o current)
      quantitative == CASE count = 0 -> "clear" [] count = 1 -> "watch" [] OTHER -> "triggered"
      triggered == "triggered" \in {quantitative, Accounting(recurring)}
      gaps == ValuationGaps(report, valuation) IN
  [status |-> IF BridgeCloses(report) THEN "ready" ELSE "blocked",
   signal |-> IF triggered THEN "weakened" ELSE GrowthSignal(report),
   assumption |-> IF gates["EG-01"] = "pending" THEN "pending-review" ELSE gates["EG-01"],
   quantitative |-> quantitative,
   accounting |-> Accounting(recurring),
   criterion |-> IF triggered THEN "triggered" ELSE quantitative,
   count |-> count,
   basis |-> IF triggered THEN "attributable" ELSE "adjusted",
   scenarios |-> gaps \cap {"INPUT", "F-02", "NON_FINITE"} = {},
   valuationGates |-> OpenGates(gates) \cup gaps,
   decisionGates |-> OpenGates(gates) \cup (gaps \cap {"F-02"})]

-----------------------------------------------------------------------------
(* V0.2-K07-B.                                                             *)

(* The current period is the one of the report, as the report has it.      *)
CurrentVerified(report, current) ==
  /\ current # Nil
  /\ current.accepted
  /\ current.company = Anker
  /\ current.kind = report.kind /\ current.number = report.number
  /\ current.yoy = report.adjustedYoy
  /\ current.source = report.source

(* Variant: any later period continues the sequence.                       *)
ContinuesLater(scan, row, current) ==
  /\ row.accepted
  /\ row.company = current.company /\ row.kind = current.kind
  /\ scan.last # Nil => row.number > scan.last
  /\ row.source \notin scan.seen \cup {current.source}

(* Row continues the periods scanned before it: it is of the same company  *)
(* and kind as the current one, follows the last one immediately, and rests*)
(* on evidence of its own.                                                 *)
Continues(scan, row, current) ==
  /\ row.accepted
  /\ row.company = current.company /\ row.kind = current.kind
  /\ scan.last # Nil => row.number = scan.last + 1
  /\ row.source \notin scan.seen \cup {current.source}

(* One turn of the loop over prior periods.                                *)
ScanRow(scan, row, current) ==
  IF row = Nil THEN [scan EXCEPT !.unbroken = FALSE]
  ELSE [unbroken |-> scan.unbroken /\ Continues(scan, row, current),
        last |-> IF row.accepted THEN row.number ELSE scan.last,
        seen |-> scan.seen \cup {row.source}]

Scan(prior, current) ==
  LET scan[i \in 0..Len(prior)] ==
        IF i = 0 THEN [unbroken |-> TRUE, last |-> Nil, seen |-> {}]
        ELSE ScanRow(scan[i - 1], prior[i], current)
  IN scan[Len(prior)]

(* Variant: the last prior period need not be the one before the current.  *)
SequenceStatusLoose(report, current, prior) ==
  IF ~CurrentVerified(report, current) THEN "invalid"
  ELSE IF prior = <<>> THEN "missing"
  ELSE IF Scan(prior, current).unbroken THEN "verified" ELSE "invalid"

SequenceStatus(report, current, prior) ==
  IF ~CurrentVerified(report, current) THEN "invalid"
  ELSE IF prior = <<>> THEN "missing"
  ELSE LET scan == Scan(prior, current) IN
       IF scan.unbroken /\ scan.last # Nil /\ current.number = scan.last + 1
       THEN "verified" ELSE "invalid"

(* Variant: what accounting says counts before the gate is approved.       *)
RecognizedEarly(recurring, gates) == recurring

(* An accounting opinion counts when EG-01 is approved.                    *)
Recognized(recurring, gates) == IF gates["EG-01"] = "approved" THEN recurring ELSE Nil

(* Variant: the context is passed down with the accounting opinion in it.  *)
ContextAsGiven(report, current, prior, recurring, gates) ==
  [prior |-> IF SequenceStatus(report, current, prior) = "verified"
             THEN [i \in DOMAIN prior |-> prior[i].yoy] ELSE <<>>,
   recurring |-> recurring]

(* The context for V0.1: a verified sequence or none, and what is recognized.*)
V01Context(report, current, prior, recurring, gates) ==
  [prior |-> IF SequenceStatus(report, current, prior) = "verified"
             THEN [i \in DOMAIN prior |-> prior[i].yoy] ELSE <<>>,
   recurring |-> Recognized(recurring, gates)]

(* runC04ChainK07B.                                                        *)
RunC04ChainK07B(report, current, prior, recurring, gates, valuation) ==
  LET context == V01Context(report, current, prior, recurring, gates)
      chain == RunC04Chain(report, context.prior, context.recurring, gates, valuation)
      recognized == Recognized(recurring, gates)
      judged == chain.status # "blocked" /\ CurrentVerified(report, current)
      quantitative == IF judged THEN chain.quantitative ELSE "unknown"
      accounting == Accounting(recognized) IN
  [chain EXCEPT
     !.quantitative = quantitative,
     !.accounting = accounting,
     !.criterion = CASE accounting = "triggered" -> "triggered"
                     [] accounting # "triggered" /\ quantitative \in {"triggered", "watch"} -> quantitative
                     [] OTHER -> IF "unknown" \in {quantitative, accounting} THEN "unknown" ELSE "clear",
     !.count = IF judged THEN @ ELSE 0]

-----------------------------------------------------------------------------
(* V0.3-K07-B-Review.                                                      *)

(* An opinion: who gave it and whether the review is finished, the report  *)
(* it is about, its conclusion on A-03, and classifications of adjustments,*)
(* each for the entire normalization or for an item only.                  *)
AboutReport(opinion, report) ==
  opinion.source = report.source /\ opinion.kind = report.kind /\ opinion.number = report.number

(* Variant: an opinion may come from an AI.                                *)
FromAnyone(opinion) == opinion # Nil /\ opinion.completed

FromHuman(opinion) == opinion # Nil /\ opinion.completed /\ opinion.author = "human"

(* The classifications of the whole normalization, if they agree.          *)
Classified(opinion) ==
  LET classes == {row.class : row \in {r \in opinion.accounting : r.coverage = "entire"}} IN
  CASE classes = {"recurring"} -> "recurring"
    [] classes = {"non-recurring"} -> "non-recurring"
    [] OTHER -> Nil

(* Variant: a caller can close EG-02.                                      *)
GatesAsGiven(opinion, gates) ==
  [gates EXCEPT !["EG-01"] = IF FromHuman(opinion) THEN @ ELSE "pending"]

(* EG-01 is closed by a human opinion only, EG-02 not at all.              *)
EffectiveGates(opinion, gates) ==
  [gates EXCEPT !["EG-01"] = IF FromHuman(opinion) THEN @ ELSE "pending", !["EG-02"] = "pending"]

(* What a conclusion on A-03 makes of it.                                  *)
AssumptionStatus(conclusion) ==
  CASE conclusion = "accepted" -> "approved"
    [] conclusion = "insufficient" -> "insufficient-evidence"
    [] OTHER -> conclusion

(* runC04ChainReviewed; Nil if it throws, on an opinion about another      *)
(* report.                                                                 *)
RunC04ChainReviewed(report, current, prior, opinion, given, valuation) ==
  IF opinion # Nil /\ ~AboutReport(opinion, report) THEN Nil ELSE
  LET gates == EffectiveGates(opinion, given)
      valid == FromHuman(opinion) /\ gates["EG-01"] = "approved"
      chain == RunC04ChainK07B(report, current, prior,
                 IF valid THEN Classified(opinion) ELSE Nil, gates, valuation) IN
  [chain EXCEPT
     !.assumption = IF valid THEN AssumptionStatus(opinion.conclusion) ELSE "pending-review",
     !.scenarios = FALSE,
     !.valuationGates = @ \cup {"UNVERIFIED"}]

-----------------------------------------------------------------------------
(* What goes into the chain and what comes out of it.                      *)

Gates == [{"EG-01", "EG-02"} -> {"pending", "approved", "rejected"}]

(* What accounting says of the adjustments.                                *)
Views == {"recurring", "non-recurring", Nil}

ValuationInputs ==
  LET Input == {"missing", "invalid", "valid"}
  IN [factor : Input, shares : Input, multiples : Input, finite : BOOLEAN]

ChainContext == [prior : Seq(Int), recurring : Views, gates : Gates, valuation : ValuationInputs]

Conclusions == {"accepted", "qualified", "rejected", "insufficient"}

AssumptionStates == {"pending-review", "approved", "rejected", "qualified", "insufficient-evidence"}

C04ChainResult ==
  LET States == {"clear", "watch", "triggered", "unknown"} IN
  [status : {"blocked", "ready"},
   signal : {"strengthened", "mixed", "weakened", "unchanged", "blocked"},
   assumption : AssumptionStates,
   quantitative : States,
   accounting : States \ {"watch"},
   criterion : States,
   count : Nat,
   basis : {"adjusted", "attributable", Nil},
   scenarios : BOOLEAN,
   valuationGates : SUBSET {"PARSER", "EG-01", "EG-02", "PERIOD", "SHARES", "MULTIPLES", "F-02",
                            "INPUT", "NON_FINITE", "UNVERIFIED"},
   decisionGates : SUBSET {"PARSER", "EG-01", "EG-02", "F-02"}]
=============================================================================
